------------------------- MODULE ClientTrackerProofs -------------------------
(***************************************************************************)
(* Proofs about ClientTracker, for every set of clients and streams and    *)
(* every bound: the tracker and the app server agree on the open           *)
(* connections, a legacy client's stream exists, and no inbound number is  *)
(* forwarded twice.                                                        *)
(*                                                                         *)
(* A client's connection has a task that was started and not joined, under *)
(* the client's own key; hence closing clients by key, which is all the    *)
(* tracker ever does, closes the connections of no other.  The last part   *)
(* of the invariant is that nothing is open once the shutdown drains, and  *)
(* that what was forwarded on a connection is within its client's last     *)
(* number.                                                                 *)
(***************************************************************************)
EXTENDS ClientTracker, SequenceTheorems, TLAPS

\* The connection of a client has been opened, under a number that is taken
Started == \A k \in Keys : clients[k] # None => task[clients[k]] # "none"

\* Once the shutdown drains there is no reader any more, and no client
Drained == shutdown \in {"draining", "done"} => ~reader /\ \A k \in Keys : clients[k] = None

\* The last number of a client bounds what was forwarded on its connection
WithinLast ==
    \A k \in Keys : clients[k] # None =>
        \A m \in DOMAIN inbound[clients[k]] :
            last_inbound_seq_id[k] # None /\ inbound[clients[k]][m] =< last_inbound_seq_id[k]

IInv == /\ TypeOK /\ OpenConnectionsTracked /\ LegacyStreamKnown
        /\ InboundOnce /\ Started /\ Drained /\ WithinLast

-----------------------------------------------------------------------------
(***************************************************************************)
(* Closing clients by key.                                                 *)
(***************************************************************************)

\* Closing clients keeps the types.
LEMMA CloseTypes ==
    ASSUME TypeOK, NEW ks \in SUBSET Keys, CloseClients(ks)
    PROVE  /\ clients' \in [Keys -> Conns \cup {None}]
           /\ last_inbound_seq_id' \in [Keys -> SeqIds]
           /\ idle' \subseteq {k \in Keys : clients'[k] # None}
           /\ legacy_stream_ids' \in [ClientIds -> StreamIds \cup {None}]
           /\ cancelled' \subseteq Conns
           /\ reported' \in [Conns -> {"nothing", "opened", "closed"}]
           /\ inbound' \in [Conns -> Seq(0..MaxSeq)]
<1> USE DEF TypeOK, CloseClients
<1>1. clients' \in [Keys -> Conns \cup {None}]
  OBVIOUS
<1>2. last_inbound_seq_id' \in [Keys -> SeqIds]
  BY DEF SeqIds
<1>3. idle' \subseteq {k \in Keys : clients'[k] # None}
  OBVIOUS
<1>4. legacy_stream_ids' \in [ClientIds -> StreamIds \cup {None}]
  OBVIOUS
<1>5. cancelled' \subseteq Conns
  BY DEF ConnsOf
<1>6. reported' \in [Conns -> {"nothing", "opened", "closed"}]
  BY DEF Report
<1>7. inbound' \in [Conns -> Seq(0..MaxSeq)]
  <2>1. <<>> \in Seq(0..MaxSeq)
    OBVIOUS
  <2> QED BY <2>1 DEF Forget
<1> QED BY <1>1, <1>2, <1>3, <1>4, <1>5, <1>6, <1>7

\* A client that is not among the closed ones keeps its connection, and the app
\* server's view of it; the closed ones have none.
LEMMA CloseEffect ==
    ASSUME TypeOK, OpenConnectionsTracked, NEW ks \in SUBSET Keys, CloseClients(ks)
    PROVE  /\ \A k \in Keys : clients'[k] # None =>
                /\ k \notin ks
                /\ clients'[k] = clients[k]
                /\ clients[k] \in Conns
                /\ reported'[clients[k]] = reported[clients[k]]
                /\ inbound'[clients[k]] = inbound[clients[k]]
                /\ last_inbound_seq_id'[k] = last_inbound_seq_id[k]
           /\ app_server => \A c \in Conns : reported'[c] = "opened" => \E k \in Keys : clients'[k] = c
           /\ \A c \in Conns : inbound'[c] \in {inbound[c], <<>>}
           /\ LegacyStreamKnown => LegacyStreamKnown'
<1> USE DEF TypeOK, CloseClients
<1>1. \A k \in Keys : clients'[k] # None =>
                /\ k \notin ks
                /\ clients'[k] = clients[k]
                /\ clients[k] \in Conns
                /\ last_inbound_seq_id'[k] = last_inbound_seq_id[k]
  OBVIOUS
<1>2. ASSUME NEW k \in Keys, clients'[k] # None
      PROVE  clients[k] \notin ConnsOf(ks)
  <2>1. SUFFICES ASSUME NEW j \in ks, clients[j] = clients[k]
                 PROVE  FALSE
    BY <1>1, <1>2 DEF ConnsOf
  <2>2. client_key[clients[k]] = k /\ client_key[clients[k]] = j
    BY <1>1, <1>2, <2>1 DEF OpenConnectionsTracked
  <2> QED BY <1>1, <1>2, <2>1, <2>2
<1>3. \A k \in Keys : clients'[k] # None =>
                /\ reported'[clients[k]] = reported[clients[k]]
                /\ inbound'[clients[k]] = inbound[clients[k]]
  BY <1>1, <1>2 DEF Report, Forget
<1>4. ASSUME app_server, NEW c \in Conns, reported'[c] = "opened"
      PROVE  \E k \in Keys : clients'[k] = c
  <2>1. reported[c] = "opened" /\ c \notin ConnsOf(ks)
    BY <1>4 DEF Report
  <2>2. PICK k \in Keys : clients[k] = c
    BY <1>4, <2>1 DEF OpenConnectionsTracked, IsOpen
  <2>3. c # None
    BY NoneAssumption, BoundsAssumption DEF Conns
  <2>4. k \notin ks
    BY <2>1, <2>2, <2>3 DEF ConnsOf
  <2> QED BY <2>2, <2>4
<1>5. \A c \in Conns : inbound'[c] \in {inbound[c], <<>>}
  BY DEF Forget
<1>6. ASSUME LegacyStreamKnown PROVE LegacyStreamKnown'
  <2>1. SUFFICES ASSUME NEW i \in ClientIds, legacy_stream_ids'[i] # None
                 PROVE  clients'[<<i, legacy_stream_ids'[i]>>] # None
    BY DEF LegacyStreamKnown
  <2>2. /\ legacy_stream_ids'[i] = legacy_stream_ids[i]
        /\ ~ \E k \in ks : clients[k] # None /\ k = <<i, legacy_stream_ids[i]>>
    BY <2>1
  <2>3. legacy_stream_ids[i] \in StreamIds /\ clients[<<i, legacy_stream_ids[i]>>] # None
    BY <1>6, <2>1, <2>2 DEF LegacyStreamKnown
  <2>4. <<i, legacy_stream_ids[i]>> \in Keys \ ks
    BY <2>2, <2>3 DEF Keys
  <2> QED BY <2>2, <2>3, <2>4
<1> QED BY <1>1, <1>3, <1>4, <1>5, <1>6

\* Closing clients, beside anything that joins only tasks whose clients are closed,
\* keeps the invariant.
LEMMA CloseKeeps ==
    ASSUME IInv, NEW ks \in SUBSET Keys, CloseClients(ks),
           UNCHANGED <<connVars, enabled, app_server>>,
           task' \in [Conns -> {"none", "select", "send", "ended", "joined"}],
           \A c \in Conns : (task'[c] = "none") <=> (task[c] = "none"),
           \A c \in Conns : task'[c] = "joined" => task[c] = "joined" \/ client_key[c] \in ks,
           reader' \in BOOLEAN, reader' => reader,
           shutdown' \in {"no", "requested", "draining", "done"},
           shutdown' \in {"draining", "done"} =>
               ~reader' /\ (shutdown \in {"draining", "done"} \/ ks = Keys)
    PROVE  IInv'
<1> USE DEF IInv
<1>e. /\ \A k \in Keys : clients'[k] # None =>
                /\ k \notin ks
                /\ clients'[k] = clients[k]
                /\ clients[k] \in Conns
                /\ reported'[clients[k]] = reported[clients[k]]
                /\ inbound'[clients[k]] = inbound[clients[k]]
                /\ last_inbound_seq_id'[k] = last_inbound_seq_id[k]
      /\ app_server => \A c \in Conns : reported'[c] = "opened" => \E k \in Keys : clients'[k] = c
      /\ \A c \in Conns : inbound'[c] \in {inbound[c], <<>>}
      /\ LegacyStreamKnown'
  BY CloseEffect
<1>1. TypeOK'
  <2>1. /\ next_connection_id' \in 1..(MaxConns + 1)
        /\ client_key' \in [Conns -> Keys \cup {None}]
        /\ \A c \in Conns : task'[c] # "none" => c < next_connection_id' /\ client_key'[c] # None
        /\ enabled' \in BOOLEAN /\ app_server' \in BOOLEAN
    BY DEF TypeOK, connVars
  <2> QED BY CloseTypes, <2>1 DEF TypeOK
<1>2. OpenConnectionsTracked'
  <2>1. ASSUME NEW k \in Keys, clients'[k] # None
        PROVE  client_key'[clients'[k]] = k /\ task'[clients'[k]] # "joined" /\ reported'[clients'[k]] = "opened"
    BY <1>e, <2>1 DEF OpenConnectionsTracked, IsOpen, connVars
  <2> QED BY <1>e, <2>1 DEF OpenConnectionsTracked, IsOpen
<1>3. InboundOnce'
  BY <1>e DEF InboundOnce
<1>4. Started'
  BY <1>e DEF Started
<1>5. Drained'
  BY <1>e DEF Drained
<1>6. WithinLast'
  <2>1. SUFFICES ASSUME NEW k \in Keys, clients'[k] # None, NEW m \in DOMAIN inbound'[clients'[k]]
                 PROVE  /\ last_inbound_seq_id'[k] # None
                        /\ inbound'[clients'[k]][m] =< last_inbound_seq_id'[k]
    BY DEF WithinLast
  <2>2. /\ clients'[k] = clients[k]
        /\ inbound'[clients[k]] = inbound[clients[k]]
        /\ last_inbound_seq_id'[k] = last_inbound_seq_id[k]
    BY <1>e, <2>1
  <2> QED BY <2>1, <2>2 DEF WithinLast
<1> QED BY <1>1, <1>2, <1>3, <1>4, <1>5, <1>6, <1>e

-----------------------------------------------------------------------------
(***************************************************************************)
(* Steps that close clients.                                               *)
(***************************************************************************)

\* Steps that only close clients keep the invariant.
LEMMA ClosingSteps ==
    ASSUME IInv,
           \/ \E i \in ClientIds : \E given \in StreamIds \cup {None} : ClientClosed(i, given)
           \/ \E c \in Conns : BookkeepJoinSet(c)
           \/ CloseExpiredClients
           \/ CloseAll
    PROVE  IInv'
<1>1. ASSUME NEW i \in ClientIds, NEW given \in StreamIds \cup {None}, ClientClosed(i, given)
      PROVE  IInv'
  <2>1. PICK k \in Keys : CloseClient(k)
    BY <1>1 DEF ClientClosed, KeyOf, Keys, IInv, TypeOK
  <2>2. CloseClients({k}) /\ {k} \in SUBSET Keys
    BY <2>1 DEF CloseClient
  <2>3. reader' \in BOOLEAN /\ (reader' => reader)
    BY <2>1 DEF CloseClient
  <2>4. UNCHANGED <<connVars, task, enabled, app_server, shutdown>> /\ reader
    BY <1>1 DEF ClientClosed
  <2>5. shutdown \notin {"draining", "done"}
    BY <2>4 DEF IInv, Drained
  <2> QED BY <2>2, <2>3, <2>4, <2>5, CloseKeeps DEF IInv, TypeOK
<1>2. ASSUME NEW c \in Conns, BookkeepJoinSet(c)
      PROVE  IInv'
  <2>1. client_key[c] \in Keys
    BY <1>2 DEF BookkeepJoinSet, IInv, TypeOK
  <2>2. CloseClients({client_key[c]}) /\ {client_key[c]} \in SUBSET Keys
    BY <1>2, <2>1 DEF BookkeepJoinSet, CloseClient
  <2>3. reader' \in BOOLEAN /\ (reader' => reader)
    BY <1>2 DEF BookkeepJoinSet, CloseClient
  <2>4. UNCHANGED <<connVars, enabled, app_server, shutdown>> /\ reader
    BY <1>2 DEF BookkeepJoinSet
  <2>5. shutdown \notin {"draining", "done"}
    BY <2>4 DEF IInv, Drained
  <2>6. /\ task' \in [Conns -> {"none", "select", "send", "ended", "joined"}]
        /\ \A d \in Conns : (task'[d] = "none") <=> (task[d] = "none")
        /\ \A d \in Conns : task'[d] = "joined" => task[d] = "joined" \/ client_key[d] \in {client_key[c]}
    BY <1>2 DEF BookkeepJoinSet, IInv, TypeOK
  <2> QED BY <2>2, <2>3, <2>4, <2>5, <2>6, CloseKeeps DEF IInv, TypeOK
<1>3. ASSUME CloseExpiredClients
      PROVE  IInv'
  <2>1. PICK ks \in SUBSET idle : CloseClients(ks)
    BY <1>3 DEF CloseExpiredClients
  <2>2. ks \in SUBSET Keys
    BY <2>1 DEF IInv, TypeOK
  <2>3. reader' \in BOOLEAN /\ (reader' => reader)
    BY <1>3 DEF CloseExpiredClients, IInv, TypeOK
  <2>4. UNCHANGED <<connVars, task, enabled, app_server, shutdown>> /\ reader
    BY <1>3 DEF CloseExpiredClients
  <2>5. shutdown \notin {"draining", "done"}
    BY <2>4 DEF IInv, Drained
  <2> QED BY <2>1, <2>2, <2>3, <2>4, <2>5, CloseKeeps DEF IInv, TypeOK
<1>4. ASSUME CloseAll
      PROVE  IInv'
  <2>1. CloseClients(Keys) /\ UNCHANGED <<connVars, task, reader, enabled, app_server>> /\ ~reader
    BY <1>4 DEF CloseAll
  <2>2. shutdown' = "draining"
    BY <1>4 DEF CloseAll
  <2> QED BY <2>1, <2>2, CloseKeeps DEF IInv, TypeOK
<1> QED BY <1>1, <1>2, <1>3, <1>4

-----------------------------------------------------------------------------
(***************************************************************************)
(* Initialize.                                                             *)
(***************************************************************************)

\* When the app server takes no event, an initialize is a close.
LEMMA InitializeRefused ==
    ASSUME IInv, ~app_server, NEW i \in ClientIds, NEW given \in StreamIds \cup {None},
           NEW q \in SeqIds, Initialize(i, given, q)
    PROVE  IInv'
<1>1. PICK s \in (IF given # None THEN {given} ELSE InitializeStreams(i)) :
         LET k == <<i, s>>
             closed == ConnsOf({k})
             legacy == IF given = None \/ legacy_stream_ids[i] = s THEN None ELSE legacy_stream_ids[i]
         IN  /\ clients' = [clients EXCEPT ![k] = None]
             /\ last_inbound_seq_id' = [last_inbound_seq_id EXCEPT ![k] = None]
             /\ idle' = idle \ {k}
             /\ legacy_stream_ids' = [legacy_stream_ids EXCEPT ![i] =
                                        IF given = None \/ closed # {} THEN legacy ELSE @]
             /\ cancelled' = cancelled \cup closed
             /\ inbound' = Forget(closed)
             /\ reader' = FALSE
             /\ UNCHANGED <<connVars, task, reported>>
  BY DEF Initialize
<1>2. reader /\ UNCHANGED <<enabled, app_server, shutdown>>
  BY DEF Initialize
<1>3. s \in StreamIds /\ <<i, s>> \in Keys
  BY <1>1, NoneAssumption DEF InitializeStreams, FreshStreams, Keys, IInv, TypeOK
<1>4. CloseClients({<<i, s>>})
  <2>1. clients' = [k \in Keys |-> IF k \in {<<i, s>>} THEN None ELSE clients[k]]
    BY <1>1, <1>3 DEF IInv, TypeOK
  <2>2. last_inbound_seq_id' =
            [k \in Keys |-> IF k \in {<<i, s>>} THEN None ELSE last_inbound_seq_id[k]]
    BY <1>1, <1>3 DEF IInv, TypeOK
  <2>3. legacy_stream_ids' =
            [j \in ClientIds |->
               IF \E k \in {<<i, s>>} : clients[k] # None /\ k = <<j, legacy_stream_ids[j]>>
               THEN None ELSE legacy_stream_ids[j]]
    <3>1. (ConnsOf({<<i, s>>}) # {}) <=> clients[<<i, s>>] # None
      BY DEF ConnsOf
    <3>2. legacy_stream_ids[i] = s => clients[<<i, s>>] # None
      BY <1>3, NoneAssumption DEF IInv, LegacyStreamKnown
    <3>3. given = None => legacy_stream_ids[i] \in {None, s}
      BY <1>1 DEF InitializeStreams
    <3>4. legacy_stream_ids' = [legacy_stream_ids EXCEPT ![i] =
                                  IF legacy_stream_ids[i] = s THEN None ELSE @]
      BY <1>1, <3>1, <3>2, <3>3 DEF IInv, TypeOK
    <3>5. \A j \in ClientIds :
            (\E k \in {<<i, s>>} : clients[k] # None /\ k = <<j, legacy_stream_ids[j]>>)
            <=> (j = i /\ legacy_stream_ids[i] = s)
      BY <3>2
    <3> QED BY <3>4, <3>5 DEF IInv, TypeOK
  <2>4. reported' = Report(ConnsOf({<<i, s>>}))
    BY <1>1 DEF Report, IInv, TypeOK
  <2> QED BY <1>1, <2>1, <2>2, <2>3, <2>4 DEF CloseClients
<1>5. shutdown \notin {"draining", "done"}
  BY <1>2 DEF IInv, Drained
<1>6. /\ UNCHANGED <<connVars, task, enabled, app_server, shutdown>>
      /\ reader' \in BOOLEAN
      /\ reader' => reader
  BY <1>1, <1>2
<1> QED BY <1>3, <1>4, <1>5, <1>6, CloseKeeps DEF IInv, TypeOK

\* A connection that is opened has a number that no client, task or event knows, and
\* only the old connection of its key is closed.
LEMMA InitializeOpens ==
    ASSUME IInv, app_server, NEW i \in ClientIds, NEW given \in StreamIds \cup {None},
           NEW q \in SeqIds, Initialize(i, given, q)
    PROVE  IInv'
<1> DEFINE c == next_connection_id
<1>1. PICK s \in (IF given # None THEN {given} ELSE InitializeStreams(i)) :
         LET k == <<i, s>>
             closed == ConnsOf({k})
             legacy == IF given = None \/ legacy_stream_ids[i] = s THEN None ELSE legacy_stream_ids[i]
         IN  /\ clients' = [clients EXCEPT ![k] = c]
             /\ last_inbound_seq_id' = [last_inbound_seq_id EXCEPT ![k] =
                                          IF given = None THEN None ELSE q]
             /\ idle' = idle \ {k}
             /\ legacy_stream_ids' = [legacy_stream_ids EXCEPT ![i] =
                                        IF given = None THEN s
                                        ELSE IF closed # {} THEN legacy ELSE @]
             /\ next_connection_id' = AdvanceConnectionId
             /\ client_key' = [client_key EXCEPT ![c] = k]
             /\ task' = [task EXCEPT ![c] = "select"]
             /\ cancelled' = cancelled \cup closed \cup (IF shutdown = "no" THEN {} ELSE {c})
             /\ reported' = [Report(closed) EXCEPT ![c] = "opened"]
             /\ inbound' = [Forget(closed) EXCEPT ![c] =
                              IF given = None \/ q = None THEN <<>> ELSE <<q>>]
             /\ UNCHANGED reader
  BY DEF Initialize
<1>2. reader /\ c \in Conns /\ UNCHANGED <<enabled, app_server, shutdown>>
  BY DEF Initialize
<1>3. s \in StreamIds /\ <<i, s>> \in Keys
  BY <1>1, NoneAssumption DEF InitializeStreams, FreshStreams, Keys, IInv, TypeOK
<1>4. c \in 1..MaxConns /\ c # None /\ next_connection_id' = c + 1 /\ MaxConns \in Nat
  BY <1>1, <1>2, NoneAssumption, BoundsAssumption DEF Conns, AdvanceConnectionId
<1>5. task[c] = "none"
  BY <1>2, <1>4 DEF IInv, TypeOK
<1>6. \A k \in Keys : clients[k] # None => clients[k] \in Conns /\ clients[k] # c
  BY <1>5 DEF IInv, TypeOK, Started
<1>7. ASSUME NEW k \in Keys, k # <<i, s>>, clients[k] # None
      PROVE  clients[k] \notin ConnsOf({<<i, s>>})
  <2>1. SUFFICES ASSUME clients[k] = clients[<<i, s>>]
                 PROVE  FALSE
    BY DEF ConnsOf
  <2> QED BY <1>3, <1>7, <2>1 DEF IInv, OpenConnectionsTracked
<1>8. ASSUME NEW k \in Keys, k # <<i, s>>, clients'[k] # None
      PROVE  /\ clients'[k] = clients[k]
             /\ client_key'[clients[k]] = client_key[clients[k]]
             /\ task'[clients[k]] = task[clients[k]]
             /\ reported'[clients[k]] = reported[clients[k]]
             /\ inbound'[clients[k]] = inbound[clients[k]]
             /\ last_inbound_seq_id'[k] = last_inbound_seq_id[k]
  <2>1. clients'[k] = clients[k] /\ last_inbound_seq_id'[k] = last_inbound_seq_id[k]
    BY <1>1, <1>8 DEF IInv, TypeOK
  <2>2. /\ clients[k] \in Conns
        /\ clients[k] # c
        /\ clients[k] \notin ConnsOf({<<i, s>>})
    BY <1>6, <1>7, <1>8, <2>1
  <2>3. client_key'[clients[k]] = client_key[clients[k]] /\ task'[clients[k]] = task[clients[k]]
    BY <1>1, <2>2 DEF IInv, TypeOK
  <2>4. /\ reported'[clients[k]] = reported[clients[k]]
        /\ inbound'[clients[k]] = inbound[clients[k]]
    BY <1>1, <2>2 DEF Report, Forget
  <2> QED BY <2>1, <2>3, <2>4
<1>9. /\ clients'[<<i, s>>] = c
      /\ client_key'[c] = <<i, s>>
      /\ task'[c] = "select"
      /\ reported'[c] = "opened"
      /\ inbound'[c] = IF given = None \/ q = None THEN <<>> ELSE <<q>>
      /\ last_inbound_seq_id'[<<i, s>>] = IF given = None THEN None ELSE q
  BY <1>1, <1>2, <1>3 DEF IInv, TypeOK, Report, Forget
<1>10. TypeOK'
  <2>1. clients' \in [Keys -> Conns \cup {None}]
    BY <1>1, <1>2 DEF IInv, TypeOK
  <2>2. last_inbound_seq_id' \in [Keys -> SeqIds]
    BY <1>1 DEF IInv, TypeOK, SeqIds
  <2>3. idle' \subseteq {k \in Keys : clients'[k] # None}
    BY <1>1 DEF IInv, TypeOK
  <2>4. legacy_stream_ids' \in [ClientIds -> StreamIds \cup {None}]
    BY <1>1, <1>3 DEF IInv, TypeOK
  <2>5. next_connection_id' \in 1..(MaxConns + 1)
    BY <1>4
  <2>6. client_key' \in [Conns -> Keys \cup {None}]
    BY <1>1, <1>3 DEF IInv, TypeOK
  <2>7. task' \in [Conns -> {"none", "select", "send", "ended", "joined"}]
    BY <1>1 DEF IInv, TypeOK
  <2>8. ASSUME NEW d \in Conns, task'[d] # "none"
        PROVE  d < next_connection_id' /\ client_key'[d] # None
    <3>1. CASE d = c
      BY <1>3, <1>4, <1>9, <3>1, NoneAssumption DEF Keys
    <3>2. CASE d # c
      <4>1. task[d] # "none" /\ client_key'[d] = client_key[d]
        BY <1>1, <2>8, <3>2 DEF IInv, TypeOK
      <4>2. d < c /\ client_key[d] # None
        BY <4>1 DEF IInv, TypeOK
      <4> QED BY <1>4, <4>1, <4>2 DEF Conns
    <3> QED BY <3>1, <3>2
  <2>9. cancelled' \subseteq Conns
    BY <1>1, <1>2, <1>3 DEF IInv, TypeOK, ConnsOf
  <2>10. reported' \in [Conns -> {"nothing", "opened", "closed"}]
    BY <1>1 DEF IInv, TypeOK, Report
  <2>11. inbound' \in [Conns -> Seq(0..MaxSeq)]
    <3>1. <<>> \in Seq(0..MaxSeq) /\ \A p \in 0..MaxSeq : <<p>> \in Seq(0..MaxSeq)
      OBVIOUS
    <3>2. Forget(ConnsOf({<<i, s>>})) \in [Conns -> Seq(0..MaxSeq)]
      BY <3>1 DEF Forget, IInv, TypeOK
    <3>3. (IF given = None \/ q = None THEN <<>> ELSE <<q>>) \in Seq(0..MaxSeq)
      BY <3>1 DEF SeqIds
    <3> QED BY <1>1, <3>2, <3>3
  <2>12. /\ reader' \in BOOLEAN /\ enabled' \in BOOLEAN /\ app_server' \in BOOLEAN
         /\ shutdown' \in {"no", "requested", "draining", "done"}
    BY <1>1, <1>2 DEF IInv, TypeOK
  <2> QED BY <2>1, <2>2, <2>3, <2>4, <2>5, <2>6, <2>7, <2>8, <2>9, <2>10, <2>11, <2>12 DEF TypeOK
<1>11. OpenConnectionsTracked'
  <2>1. ASSUME NEW k \in Keys, clients'[k] # None
        PROVE  /\ client_key'[clients'[k]] = k
               /\ task'[clients'[k]] # "joined"
               /\ reported'[clients'[k]] = "opened"
    <3>1. CASE k = <<i, s>>
      BY <1>9, <3>1
    <3>2. CASE k # <<i, s>>
      BY <1>8, <2>1, <3>2 DEF IInv, OpenConnectionsTracked, IsOpen
    <3> QED BY <3>1, <3>2
  <2>2. ASSUME NEW d \in Conns, reported'[d] = "opened"
        PROVE  \E k \in Keys : clients'[k] = d
    <3>1. CASE d = c
      BY <1>3, <1>9, <3>1
    <3>2. CASE d # c
      <4>1. reported[d] = "opened" /\ d \notin ConnsOf({<<i, s>>})
        BY <1>1, <2>2, <3>2 DEF Report
      <4>2. PICK k \in Keys : clients[k] = d
        BY <4>1 DEF IInv, OpenConnectionsTracked, IsOpen
      <4>3. d # None
        BY NoneAssumption, BoundsAssumption DEF Conns
      <4>4. k # <<i, s>>
        BY <4>1, <4>2, <4>3 DEF ConnsOf
      <4>5. clients'[k] = clients[k]
        BY <1>1, <4>4 DEF IInv, TypeOK
      <4> QED BY <4>2, <4>5
    <3> QED BY <3>1, <3>2
  <2> QED BY <2>1, <2>2 DEF OpenConnectionsTracked, IsOpen
<1>12. LegacyStreamKnown'
  <2>1. SUFFICES ASSUME NEW j \in ClientIds, legacy_stream_ids'[j] # None
                 PROVE  clients'[<<j, legacy_stream_ids'[j]>>] # None
    BY DEF LegacyStreamKnown
  <2>2. CASE j = i /\ legacy_stream_ids'[i] = s
    BY <1>4, <1>9, <2>2
  <2>3. CASE ~(j = i /\ legacy_stream_ids'[i] = s)
    <3>1. legacy_stream_ids'[j] = legacy_stream_ids[j]
      BY <1>1, <2>1, <2>3 DEF IInv, TypeOK
    <3>2. /\ legacy_stream_ids[j] \in StreamIds
          /\ clients[<<j, legacy_stream_ids[j]>>] # None
      BY <2>1, <3>1 DEF IInv, LegacyStreamKnown, TypeOK
    <3>3. <<j, legacy_stream_ids[j]>> \in Keys
      BY <3>2 DEF Keys
    <3>4. \A k \in Keys : clients[k] # None => clients'[k] # None
      BY <1>1, <1>4 DEF IInv, TypeOK
    <3> QED BY <3>1, <3>2, <3>3, <3>4
  <2> QED BY <2>2, <2>3
<1>13. InboundOnce'
  <2>1. \A d \in Conns : d # c => inbound'[d] \in {inbound[d], <<>>}
    BY <1>1 DEF Forget
  <2>2. \A d \in Conns : d # c =>
          \A m, n \in DOMAIN inbound'[d] : m < n => inbound'[d][m] < inbound'[d][n]
    BY <2>1 DEF IInv, InboundOnce
  <2>3. \A m, n \in DOMAIN inbound'[c] : m < n => inbound'[c][m] < inbound'[c][n]
    BY <1>9
  <2> QED BY <2>2, <2>3 DEF InboundOnce
<1>14. Started'
  BY <1>8, <1>9 DEF IInv, Started
<1>15. Drained'
  BY <1>2 DEF IInv, Drained
<1>16. WithinLast'
  <2>1. SUFFICES ASSUME NEW k \in Keys, clients'[k] # None, NEW m \in DOMAIN inbound'[clients'[k]]
                 PROVE  /\ last_inbound_seq_id'[k] # None
                        /\ inbound'[clients'[k]][m] =< last_inbound_seq_id'[k]
    BY DEF WithinLast
  <2>2. CASE k = <<i, s>>
    <3>1. given # None /\ q # None
      BY <1>9, <2>1, <2>2
    <3>2. q \in 0..MaxSeq /\ inbound'[clients'[k]] = <<q>> /\ last_inbound_seq_id'[k] = q
      BY <1>9, <2>2, <3>1 DEF SeqIds
    <3> QED BY <2>1, <3>1, <3>2
  <2>3. CASE k # <<i, s>>
    <3>1. /\ clients'[k] = clients[k]
          /\ inbound'[clients[k]] = inbound[clients[k]]
          /\ last_inbound_seq_id'[k] = last_inbound_seq_id[k]
      BY <1>8, <2>1, <2>3
    <3> QED BY <2>1, <3>1 DEF IInv, WithinLast
  <2> QED BY <2>2, <2>3
<1> QED BY <1>10, <1>11, <1>12, <1>13, <1>14, <1>15, <1>16 DEF IInv

-----------------------------------------------------------------------------
(***************************************************************************)
(* The other steps.                                                        *)
(***************************************************************************)

\* What is in a sequence of numbers is a number.
LEMMA NumberRange ==
    ASSUME NEW sent \in Seq(0..MaxSeq), NEW n \in DOMAIN sent
    PROVE  sent[n] \in 0..MaxSeq
<1>1. n \in 1..Len(sent)
  OBVIOUS
<1> QED BY <1>1, ElementOfSeq

\* A number above all that was sent may follow it.
LEMMA NumberAppend ==
    ASSUME NEW sent \in Seq(0..MaxSeq), NEW number \in 0..MaxSeq,
           \A n \in DOMAIN sent : sent[n] < number,
           NEW n \in DOMAIN Append(sent, number)
    PROVE  Append(sent, number)[n] =< number
<1>1. MaxSeq \in Nat
  BY BoundsAssumption
<1>2. CASE n \in DOMAIN sent
  <2>1. Append(sent, number)[n] = sent[n]
    BY <1>2
  <2>2. sent[n] < number /\ sent[n] \in 0..MaxSeq
    BY <1>2, NumberRange
  <2> QED BY <1>1, <2>1, <2>2
<1>3. CASE n \notin DOMAIN sent
  <2>1. Append(sent, number)[n] = number
    BY <1>3
  <2> QED BY <1>1, <2>1
<1> QED BY <1>2, <1>3

\* A message that is forwarded is above the last number of its client, which bounds
\* all that was forwarded on the connection.
LEMMA MessageStep ==
    ASSUME IInv, NEW i \in ClientIds, NEW given \in StreamIds \cup {None},
           NEW q \in SeqIds, ClientMessage(i, given, q)
    PROVE  IInv'
<1>1. PICK k : k = KeyOf(i, given)
  OBVIOUS
<1>2. /\ k # None
      /\ clients[k] # None
      /\ ~Duplicate(k, q)
      /\ idle' = idle \ {k}
      /\ last_inbound_seq_id' = [last_inbound_seq_id EXCEPT ![k] = IF q = None THEN @ ELSE q]
      /\ inbound' = [inbound EXCEPT ![clients[k]] = IF app_server /\ q # None THEN Append(@, q) ELSE @]
      /\ reader' = app_server
      /\ reader
      /\ UNCHANGED <<clients, legacy_stream_ids, connVars, task, cancelled, reported, enabled,
                     app_server, shutdown>>
  BY <1>1 DEF ClientMessage
<1>3. k \in Keys
  BY <1>1, <1>2 DEF KeyOf, Keys, IInv, TypeOK
<1>4. clients[k] \in Conns /\ inbound[clients[k]] \in Seq(0..MaxSeq)
  BY <1>2, <1>3 DEF IInv, TypeOK
<1>5. MaxSeq \in Nat /\ None \notin Nat
  BY BoundsAssumption, NoneAssumption
<1>6. ASSUME NEW j \in Keys, j # k, clients[j] # None
      PROVE  clients[j] # clients[k]
  BY <1>2, <1>3, <1>6 DEF IInv, OpenConnectionsTracked
<1>7. q # None =>
        /\ q \in 0..MaxSeq
        /\ \A m \in DOMAIN inbound[clients[k]] : inbound[clients[k]][m] < q
  <2>1. SUFFICES ASSUME q # None, NEW m \in DOMAIN inbound[clients[k]]
                 PROVE  inbound[clients[k]][m] < q
    BY DEF SeqIds
  <2>2. last_inbound_seq_id[k] # None /\ inbound[clients[k]][m] =< last_inbound_seq_id[k]
    BY <1>2, <1>3, <2>1 DEF IInv, WithinLast
  <2>3. q \in 0..MaxSeq /\ last_inbound_seq_id[k] \in 0..MaxSeq
    BY <1>3, <2>1, <2>2 DEF SeqIds, IInv, TypeOK
  <2>4. ~(last_inbound_seq_id[k] >= q)
    BY <1>2, <2>1, <2>2 DEF Duplicate
  <2>5. inbound[clients[k]][m] \in 0..MaxSeq
    BY <1>4, <2>1, NumberRange
  <2> QED BY <1>5, <2>2, <2>3, <2>4, <2>5
<1>8. inbound'[clients[k]] \in {inbound[clients[k]], Append(inbound[clients[k]], q)}
  BY <1>2, <1>4 DEF IInv, TypeOK
<1>9. \A d \in Conns : d # clients[k] => inbound'[d] = inbound[d]
  BY <1>2 DEF IInv, TypeOK
<1>10. q = None => inbound'[clients[k]] = inbound[clients[k]]
  BY <1>2, <1>4 DEF IInv, TypeOK
<1>11. last_inbound_seq_id' \in [Keys -> SeqIds]
  BY <1>2, <1>3 DEF IInv, TypeOK
<1>12. inbound' \in [Conns -> Seq(0..MaxSeq)]
  <2>1. inbound'[clients[k]] \in Seq(0..MaxSeq)
    <3>1. CASE q = None
      BY <1>4, <1>10, <3>1
    <3>2. CASE q # None
      <4>1. q \in 0..MaxSeq
        BY <1>7, <3>2
      <4>2. Append(inbound[clients[k]], q) \in Seq(0..MaxSeq)
        BY <1>4, <4>1
      <4> QED BY <1>4, <1>8, <4>2
    <3> QED BY <3>1, <3>2
  <2> QED BY <1>2, <1>4, <2>1 DEF IInv, TypeOK
<1>13. TypeOK'
  <2>1. reader' \in BOOLEAN /\ idle' \subseteq {j \in Keys : clients'[j] # None}
    BY <1>2 DEF IInv, TypeOK
  <2> QED BY <1>2, <1>11, <1>12, <2>1 DEF IInv, TypeOK, connVars
<1>14. OpenConnectionsTracked' /\ LegacyStreamKnown' /\ Started' /\ Drained'
  BY <1>2 DEF IInv, OpenConnectionsTracked, LegacyStreamKnown, Started, Drained, IsOpen, connVars
<1>15. InboundOnce'
  <2>1. \A m, n \in DOMAIN inbound'[clients[k]] :
          m < n => inbound'[clients[k]][m] < inbound'[clients[k]][n]
    <3>1. \A m, n \in DOMAIN inbound[clients[k]] :
            m < n => inbound[clients[k]][m] < inbound[clients[k]][n]
      BY <1>4 DEF IInv, InboundOnce
    <3>2. CASE inbound'[clients[k]] = inbound[clients[k]]
      BY <3>1, <3>2
    <3>3. CASE inbound'[clients[k]] = Append(inbound[clients[k]], q) /\ q # None
      BY <1>4, <1>7, <3>1, <3>3
    <3> QED BY <1>8, <1>10, <3>2, <3>3
  <2> QED BY <1>9, <2>1 DEF IInv, InboundOnce
<1>16. WithinLast'
  <2>1. SUFFICES ASSUME NEW j \in Keys, clients[j] # None, NEW m \in DOMAIN inbound'[clients[j]]
                 PROVE  /\ last_inbound_seq_id'[j] # None
                        /\ inbound'[clients[j]][m] =< last_inbound_seq_id'[j]
    BY <1>2 DEF WithinLast
  <2>2. CASE j # k
    <3>1. clients[j] \in Conns /\ clients[j] # clients[k]
      BY <1>6, <2>1, <2>2 DEF IInv, TypeOK
    <3>2. inbound'[clients[j]] = inbound[clients[j]] /\ last_inbound_seq_id'[j] = last_inbound_seq_id[j]
      BY <1>2, <1>9, <2>2, <3>1 DEF IInv, TypeOK
    <3> QED BY <2>1, <3>2 DEF IInv, WithinLast
  <2>3. CASE j = k /\ q = None
    <3>1. inbound'[clients[k]] = inbound[clients[k]] /\ last_inbound_seq_id'[k] = last_inbound_seq_id[k]
      BY <1>2, <1>3, <1>10, <2>3 DEF IInv, TypeOK
    <3> QED BY <2>1, <2>3, <3>1 DEF IInv, WithinLast
  <2>4. CASE j = k /\ q # None
    <3>1. last_inbound_seq_id'[k] = q
      BY <1>2, <1>3, <2>4 DEF IInv, TypeOK
    <3>2. inbound'[clients[k]][m] =< q
      <4>1. CASE inbound'[clients[k]] = inbound[clients[k]]
        <5>1. m \in DOMAIN inbound[clients[k]]
          BY <2>1, <2>4, <4>1
        <5>2. inbound[clients[k]][m] \in 0..MaxSeq
          BY <1>4, <5>1, NumberRange
        <5>3. inbound[clients[k]][m] < q /\ q \in 0..MaxSeq
          BY <1>7, <2>4, <5>1
        <5> QED BY <1>5, <4>1, <5>2, <5>3
      <4>2. CASE inbound'[clients[k]] = Append(inbound[clients[k]], q)
        <5>1. q \in 0..MaxSeq /\ \A n \in DOMAIN inbound[clients[k]] : inbound[clients[k]][n] < q
          BY <1>7, <2>4
        <5>2. m \in DOMAIN Append(inbound[clients[k]], q)
          BY <2>1, <2>4, <4>2
        <5>3. Append(inbound[clients[k]], q)[m] =< q
          BY <1>4, <5>1, <5>2, NumberAppend
        <5> QED BY <4>2, <5>3
      <4> QED BY <1>8, <4>1, <4>2
    <3> QED BY <2>4, <3>1, <3>2
  <2> QED BY <2>2, <2>3, <2>4
<1> QED BY <1>13, <1>14, <1>15, <1>16 DEF IInv

\* Steps that change neither the clients nor what the app server knows of them keep
\* the invariant, when they join tasks only where no client is left.
LEMMA QuietSteps ==
    ASSUME IInv,
           \/ \E i \in ClientIds : \E given \in StreamIds \cup {None} : Ping(i, given)
           \/ \E k \in Keys : BecomeIdle(k)
           \/ \E c \in Conns : OutboundStep(c) \/ Disconnect(c) \/ DrainJoinSet(c)
           \/ ReaderStarts
           \/ ReaderEnds
           \/ SetEnabled
           \/ AppServerEnds
           \/ RequestShutdown
           \/ ShutdownDone
           \/ UNCHANGED vars
    PROVE  IInv'
<1>0. \/ \E i \in ClientIds : \E given \in StreamIds \cup {None} : Ping(i, given)
      \/ \E k \in Keys : BecomeIdle(k)
      \/ \E c \in Conns : OutboundStep(c) \/ Disconnect(c) \/ DrainJoinSet(c)
      \/ ReaderStarts \/ ReaderEnds \/ SetEnabled \/ AppServerEnds \/ RequestShutdown \/ ShutdownDone
      \/ UNCHANGED vars
  OBVIOUS
<1>1. /\ UNCHANGED <<clients, last_inbound_seq_id, legacy_stream_ids, connVars, reported, inbound>>
      /\ app_server' => app_server
  BY <1>0 DEF Ping, BecomeIdle, OutboundStep, TakeOutgoing, Forward, OutboundEnds, Disconnect,
              DrainJoinSet, ReaderStarts, ReaderEnds, SetEnabled, AppServerEnds, RequestShutdown,
              ShutdownDone, vars, trackerVars
<1>2. idle' \subseteq {k \in Keys : clients[k] # None}
  BY <1>0 DEF Ping, BecomeIdle, OutboundStep, TakeOutgoing, Forward, OutboundEnds, Disconnect,
              DrainJoinSet, ReaderStarts, ReaderEnds, SetEnabled, AppServerEnds, RequestShutdown,
              ShutdownDone, vars, trackerVars, IInv, TypeOK
<1>3. /\ task' \in [Conns -> {"none", "select", "send", "ended", "joined"}]
      /\ \A c \in Conns : (task'[c] = "none") <=> (task[c] = "none")
      /\ \A c \in Conns : task'[c] = "joined" => task[c] = "joined" \/ shutdown = "draining"
  BY <1>0 DEF Ping, BecomeIdle, OutboundStep, TakeOutgoing, Forward, OutboundEnds, Disconnect,
              DrainJoinSet, ReaderStarts, ReaderEnds, SetEnabled, AppServerEnds, RequestShutdown,
              ShutdownDone, vars, IInv, TypeOK
<1>4. cancelled' \subseteq Conns
  BY <1>0 DEF Ping, BecomeIdle, OutboundStep, TakeOutgoing, Forward, OutboundEnds, Disconnect,
              DrainJoinSet, ReaderStarts, ReaderEnds, SetEnabled, AppServerEnds, RequestShutdown,
              ShutdownDone, vars, IInv, TypeOK
<1>5. /\ reader' \in BOOLEAN
      /\ enabled' \in BOOLEAN
      /\ app_server' \in BOOLEAN
      /\ shutdown' \in {"no", "requested", "draining", "done"}
      /\ shutdown' \in {"draining", "done"} => shutdown \in {"draining", "done"} /\ (reader' => reader)
  <2>1. CASE ReaderStarts \/ ReaderEnds
    BY <2>1 DEF ReaderStarts, ReaderEnds, IInv, TypeOK
  <2>2. CASE AppServerEnds
    BY <2>2 DEF AppServerEnds, IInv, TypeOK
  <2>3. CASE RequestShutdown \/ ShutdownDone
    BY <2>3 DEF RequestShutdown, ShutdownDone, IInv, TypeOK
  <2>4. CASE UNCHANGED <<reader, enabled, app_server, shutdown>>
    BY <2>4 DEF IInv, TypeOK
  <2>5. CASE SetEnabled
    <3>1. enabled' \in BOOLEAN
      BY <2>5, Zenon DEF SetEnabled
    <3> QED BY <2>5, <3>1 DEF SetEnabled, IInv, TypeOK
  <2> QED BY <1>0, <2>1, <2>2, <2>3, <2>4, <2>5
          DEF Ping, BecomeIdle, OutboundStep, TakeOutgoing, Forward, OutboundEnds, Disconnect,
              DrainJoinSet, vars
<1>6. TypeOK'
  BY <1>1, <1>2, <1>3, <1>4, <1>5 DEF IInv, TypeOK, connVars
<1>7. OpenConnectionsTracked'
  <2>1. \A k \in Keys : clients[k] # None => clients[k] \in Conns /\ shutdown # "draining"
    BY DEF IInv, TypeOK, Drained
  <2> QED BY <1>1, <1>3, <2>1 DEF IInv, OpenConnectionsTracked, IsOpen, connVars
<1>8. LegacyStreamKnown' /\ InboundOnce' /\ WithinLast'
  BY <1>1 DEF IInv, LegacyStreamKnown, InboundOnce, WithinLast
<1>9. Started' /\ Drained'
  BY <1>1, <1>3, <1>5 DEF IInv, Started, Drained, TypeOK
<1> QED BY <1>6, <1>7, <1>8, <1>9 DEF IInv

-----------------------------------------------------------------------------
(***************************************************************************)
(* Theorems.                                                               *)
(***************************************************************************)

\* The invariant holds initially.
LEMMA InitIInv == Init => IInv
<1> SUFFICES ASSUME Init PROVE IInv
  OBVIOUS
<1>1. TypeOK
  <2>1. /\ clients \in [Keys -> Conns \cup {None}]
        /\ last_inbound_seq_id \in [Keys -> SeqIds]
        /\ idle \subseteq {k \in Keys : clients[k] # None}
        /\ legacy_stream_ids \in [ClientIds -> StreamIds \cup {None}]
        /\ client_key \in [Conns -> Keys \cup {None}]
    BY DEF Init, SeqIds
  <2>2. next_connection_id \in 1..(MaxConns + 1)
    BY BoundsAssumption DEF Init
  <2>3. inbound \in [Conns -> Seq(0..MaxSeq)]
    BY DEF Init
  <2>4. /\ task \in [Conns -> {"none", "select", "send", "ended", "joined"}]
        /\ \A c \in Conns : task[c] # "none" => c < next_connection_id /\ client_key[c] # None
        /\ cancelled \subseteq Conns
        /\ reported \in [Conns -> {"nothing", "opened", "closed"}]
        /\ reader \in BOOLEAN
        /\ enabled \in BOOLEAN
        /\ app_server \in BOOLEAN
        /\ shutdown \in {"no", "requested", "draining", "done"}
    BY DEF Init
  <2> QED BY <2>1, <2>2, <2>3, <2>4 DEF TypeOK
<1>2. OpenConnectionsTracked /\ LegacyStreamKnown /\ Started /\ Drained /\ WithinLast
  BY DEF Init, OpenConnectionsTracked, LegacyStreamKnown, Started, Drained, WithinLast, IsOpen
<1>3. InboundOnce
  BY DEF Init, InboundOnce
<1> QED BY <1>1, <1>2, <1>3 DEF IInv

\* Every step keeps the invariant.
LEMMA StepIInv == IInv /\ [Next]_vars => IInv'
<1> SUFFICES ASSUME IInv, [Next]_vars PROVE IInv'
  OBVIOUS
<1>1. CASE Receive
  <2>1. PICK i \in ClientIds : \E given \in StreamIds \cup {None} :
          \/ \E q \in SeqIds : Initialize(i, given, q) \/ ClientMessage(i, given, q)
          \/ Ping(i, given)
          \/ ClientClosed(i, given)
    BY <1>1 DEF Receive
  <2>2. PICK given \in StreamIds \cup {None} :
          \/ \E q \in SeqIds : Initialize(i, given, q) \/ ClientMessage(i, given, q)
          \/ Ping(i, given)
          \/ ClientClosed(i, given)
    BY <2>1
  <2>3. ASSUME NEW q \in SeqIds, Initialize(i, given, q)
        PROVE  IInv'
    <3>1. CASE app_server
      BY <2>3, <3>1, InitializeOpens
    <3>2. CASE ~app_server
      BY <2>3, <3>2, InitializeRefused
    <3> QED BY <3>1, <3>2
  <2>4. ASSUME NEW q \in SeqIds, ClientMessage(i, given, q)
        PROVE  IInv'
    BY <2>4, MessageStep
  <2>5. CASE Ping(i, given)
    BY <2>5, QuietSteps
  <2>6. CASE ClientClosed(i, given)
    BY <2>6, ClosingSteps
  <2> QED BY <2>2, <2>3, <2>4, <2>5, <2>6
<1>2. CASE \/ \E c \in Conns : BookkeepJoinSet(c)
           \/ CloseExpiredClients
           \/ CloseAll
  BY <1>2, ClosingSteps
<1>3. CASE \/ \E c \in Conns : OutboundStep(c) \/ Disconnect(c) \/ DrainJoinSet(c)
           \/ \E k \in Keys : BecomeIdle(k)
           \/ ReaderStarts
           \/ ReaderEnds
           \/ SetEnabled
           \/ AppServerEnds
           \/ RequestShutdown
           \/ ShutdownDone
           \/ UNCHANGED vars
  BY <1>3, QuietSteps
<1> QED BY <1>1, <1>2, <1>3 DEF Next, ShutdownStep

\* The invariant always holds.
LEMMA AlwaysIInv == Spec => []IInv
BY InitIInv, StepIInv, PTL DEF Spec

\* The state of the tracker and of its outbound tasks keeps its types; in particular
\* a task that runs has a number already given out and a key to return.
THEOREM TypeCorrect == Spec => []TypeOK
<1>1. IInv => TypeOK
  BY DEF IInv
<1> QED BY <1>1, AlwaysIInv, PTL

\* Whatever the order of re-initialisations, closes, tasks that end and sweeps, a
\* connection the app server holds open is the connection of a client, whose
\* outbound task will still be joined: nothing stays open that nobody can close.
THEOREM ConnectionsTracked == Spec => []OpenConnectionsTracked
<1>1. IInv => OpenConnectionsTracked
  BY DEF IInv
<1> QED BY <1>1, AlwaysIInv, PTL

\* The stream remembered for a client without stream ids always has a client state.
THEOREM LegacyStreams == Spec => []LegacyStreamKnown
<1>1. IInv => LegacyStreamKnown
  BY DEF IInv
<1> QED BY <1>1, AlwaysIInv, PTL

\* On one connection inbound numbers are forwarded in strictly rising order,
\* whatever the backend repeats or reorders.
THEOREM InboundOrdered == Spec => []InboundOnce
<1>1. IInv => InboundOnce
  BY DEF IInv
<1> QED BY <1>1, AlwaysIInv, PTL
=============================================================================
