---------------------------- MODULE ClientTracker ----------------------------
(***************************************************************************)
(* The virtual connections of remote control:                              *)
(* app-server/src/transport/remote_control/client_tracker.rs, driven by    *)
(* the reader task of websocket.rs.                                        *)
(*                                                                         *)
(* A client that sends initialize on a stream gets a connection of its     *)
(* own: the app server is told, and an outbound task carries what it       *)
(* answers.  The tracker is behind a mutex that the reader of the current  *)
(* websocket keeps; one action is one branch of the reader's select with   *)
(* everything the handler does.  Outbound tasks and the app server run     *)
(* beside it and meet it in the connection's disconnect token and in the   *)
(* join set.                                                               *)
(***************************************************************************)
EXTENDS Naturals, Sequences, FiniteSets

CONSTANTS
    ClientIds,
    StreamIds,  \* given by clients, or random for clients that give none
    MaxConns,   \* bound: connections opened
    MaxSeq,     \* bound: highest inbound seq_id
    None

ASSUME BoundsAssumption == MaxConns \in Nat /\ MaxSeq \in Nat
ASSUME NoneAssumption == None \notin Nat \cup StreamIds \cup (ClientIds \X StreamIds)

Conns == 1..MaxConns
Keys == ClientIds \X StreamIds
SeqIds == 0..MaxSeq \cup {None}

VARIABLES
    clients,             \* the connection of each key that has a ClientState
    last_inbound_seq_id, \* of each ClientState
    idle,                \* keys whose last activity is older than the idle timeout
    legacy_stream_ids,
    next_connection_id,
    client_key,          \* the key an outbound task was spawned with and returns
    task,                \* run_client_outbound of each connection
    cancelled,           \* connections whose disconnect_token has fired
    reported,            \* history: what the app server was last told of a connection
    inbound,             \* history: numbers forwarded on each connection that is not closed
    reader,              \* run_websocket_reader is running and has the tracker
    enabled,             \* remote control is switched on (the watch behind enabled_rx)
    app_server,          \* the processor still holds the receiver of transport events
    shutdown             \* how far the end of remote control has come

trackerVars == <<clients, last_inbound_seq_id, idle, legacy_stream_ids>>
connVars == <<next_connection_id, client_key>>
vars == <<trackerVars, connVars, task, cancelled, reported, inbound, reader, enabled, app_server,
          shutdown>>

TypeOK ==
    /\ clients \in [Keys -> Conns \cup {None}]
    /\ last_inbound_seq_id \in [Keys -> SeqIds]
    /\ idle \subseteq {k \in Keys : clients[k] # None}
    /\ legacy_stream_ids \in [ClientIds -> StreamIds \cup {None}]
    /\ next_connection_id \in 1..(MaxConns + 1)
    /\ client_key \in [Conns -> Keys \cup {None}]
    /\ task \in [Conns -> {"none", "select", "send", "ended", "joined"}]
    /\ \A c \in Conns : task[c] # "none" => c < next_connection_id /\ client_key[c] # None
    /\ cancelled \subseteq Conns
    /\ reported \in [Conns -> {"nothing", "opened", "closed"}]
    /\ inbound \in [Conns -> Seq(0..MaxSeq)]
    /\ reader \in BOOLEAN
    /\ enabled \in BOOLEAN
    /\ app_server \in BOOLEAN
    /\ shutdown \in {"no", "requested", "draining", "done"}

Init ==
    /\ clients = [k \in Keys |-> None]
    /\ last_inbound_seq_id = [k \in Keys |-> None]
    /\ idle = {}
    /\ legacy_stream_ids = [i \in ClientIds |-> None]
    /\ next_connection_id = 1
    /\ client_key = [c \in Conns |-> None]
    /\ task = [c \in Conns |-> "none"]
    /\ cancelled = {}
    /\ reported = [c \in Conns |-> "nothing"]
    /\ inbound = [c \in Conns |-> <<>>]
    /\ reader = FALSE
    /\ enabled \in BOOLEAN
    /\ app_server = TRUE
    /\ shutdown = "no"

-----------------------------------------------------------------------------
(***************************************************************************)
(* close_client and send_transport_event.  When the app server is gone,    *)
(* the event is lost and the handler returns Stopped, which ends the       *)
(* reader.                                                                 *)
(***************************************************************************)
ConnsOf(ks) == {clients[k] : k \in ks} \ {None}

\* ConnectionClosed events
Report(closed) ==
    [c \in Conns |-> IF c \in closed /\ app_server THEN "closed" ELSE reported[c]]

Forget(closed) == [c \in Conns |-> IF c \in closed THEN <<>> ELSE inbound[c]]

\* Variant with a bug: the legacy stream is kept
CloseClients_KeepsLegacy(ks) ==
    /\ clients' = [k \in Keys |-> IF k \in ks THEN None ELSE clients[k]]
    /\ idle' = idle \ ks
    /\ last_inbound_seq_id' = [k \in Keys |-> IF k \in ks THEN None ELSE last_inbound_seq_id[k]]
    /\ cancelled' = cancelled \cup ConnsOf(ks)
    /\ reported' = Report(ConnsOf(ks))
    /\ inbound' = Forget(ConnsOf(ks))
    /\ UNCHANGED legacy_stream_ids

\* The ClientState goes, with the legacy stream that points to it, and its token fires
CloseClients(ks) ==
    /\ clients' = [k \in Keys |-> IF k \in ks THEN None ELSE clients[k]]
    /\ idle' = idle \ ks
    /\ legacy_stream_ids' =
         [i \in ClientIds |-> IF \E k \in ks : clients[k] # None /\ k = <<i, legacy_stream_ids[i]>>
                              THEN None
                              ELSE legacy_stream_ids[i]]
    /\ last_inbound_seq_id' = [k \in Keys |-> IF k \in ks THEN None ELSE last_inbound_seq_id[k]]
    /\ cancelled' = cancelled \cup ConnsOf(ks)
    /\ reported' = Report(ConnsOf(ks))
    /\ inbound' = Forget(ConnsOf(ks))

CloseClient(k) ==
    /\ CloseClients({k})
    /\ reader' = (reader /\ (app_server \/ clients[k] = None))

-----------------------------------------------------------------------------
(***************************************************************************)
(* handle_message.                                                         *)
(***************************************************************************)
\* StreamId::new_random never meets an identifier in use
FreshStreams(i) ==
    {s \in StreamIds : /\ clients[<<i, s>>] = None
                       /\ \A c \in Conns : client_key[c] = <<i, s>> => task[c] = "joined"}

\* The stream of an initialize without stream id
InitializeStreams(i) ==
    IF legacy_stream_ids[i] # None THEN {legacy_stream_ids[i]} ELSE FreshStreams(i)

\* Variant with a bug: the counter is read and not advanced
AdvanceConnectionId_Missing == next_connection_id

\* next_connection_id()
AdvanceConnectionId == next_connection_id + 1

\* A re-initialize closes the old connection of the key first; nothing is opened when
\* the app server does not take the event
Initialize(i, given, q) ==
    /\ reader
    /\ next_connection_id \in Conns
    /\ \E s \in (IF given # None THEN {given} ELSE InitializeStreams(i)) :
         LET k == <<i, s>>
             c == next_connection_id
             closed == ConnsOf({k})
             legacy == IF given = None \/ legacy_stream_ids[i] = s THEN None ELSE legacy_stream_ids[i]
         IN  IF app_server
             THEN /\ clients' = [clients EXCEPT ![k] = c]
                  /\ last_inbound_seq_id' = [last_inbound_seq_id EXCEPT ![k] =
                                               IF given = None THEN None ELSE q]
                  /\ idle' = idle \ {k}
                  /\ legacy_stream_ids' = [legacy_stream_ids EXCEPT ![i] =
                                             IF given = None THEN s
                                             ELSE IF closed # {} THEN legacy ELSE @]
                  /\ next_connection_id' = AdvanceConnectionId
                  /\ client_key' = [client_key EXCEPT ![c] = k]
                  /\ task' = [task EXCEPT ![c] = "select"]
                  /\ cancelled' = cancelled \cup closed \cup (IF shutdown = "no" THEN {} ELSE {c})
                  /\ reported' = [Report(closed) EXCEPT ![c] = "opened"]
                  /\ inbound' = [Forget(closed) EXCEPT ![c] =
                                   IF given = None \/ q = None THEN <<>> ELSE <<q>>]
                  /\ UNCHANGED reader
             ELSE /\ clients' = [clients EXCEPT ![k] = None]
                  /\ last_inbound_seq_id' = [last_inbound_seq_id EXCEPT ![k] = None]
                  /\ idle' = idle \ {k}
                  /\ legacy_stream_ids' = [legacy_stream_ids EXCEPT ![i] =
                                             IF given = None \/ closed # {} THEN legacy ELSE @]
                  /\ cancelled' = cancelled \cup closed
                  /\ inbound' = Forget(closed)
                  /\ reader' = FALSE
                  /\ UNCHANGED <<connVars, task, reported>>
    /\ UNCHANGED <<enabled, app_server, shutdown>>

\* The key of any other message; none when a legacy client has no stream
KeyOf(i, given) ==
    IF given # None THEN <<i, given>>
    ELSE IF legacy_stream_ids[i] # None THEN <<i, legacy_stream_ids[i]>> ELSE None

\* Variant with a bug: the last number itself is taken again
Duplicate_OffByOne(k, q) ==
    /\ q # None
    /\ last_inbound_seq_id[k] # None
    /\ last_inbound_seq_id[k] > q

Duplicate(k, q) ==
    /\ q # None
    /\ last_inbound_seq_id[k] # None
    /\ last_inbound_seq_id[k] >= q

\* A message of a known client that is not a duplicate is forwarded; all others are
\* dropped without a trace
ClientMessage(i, given, q) ==
    LET k == KeyOf(i, given) IN
    /\ reader
    /\ k # None
    /\ clients[k] # None
    /\ ~Duplicate(k, q)
    /\ idle' = idle \ {k}
    /\ last_inbound_seq_id' = [last_inbound_seq_id EXCEPT ![k] = IF q = None THEN @ ELSE q]
    /\ inbound' = [inbound EXCEPT ![clients[k]] =
                     IF app_server /\ q # None THEN Append(@, q) ELSE @]
    /\ reader' = app_server
    /\ UNCHANGED <<clients, legacy_stream_ids, connVars, task, cancelled, reported, enabled,
                   app_server, shutdown>>

\* A ping keeps a known client alive
Ping(i, given) ==
    LET k == KeyOf(i, given) IN
    /\ reader
    /\ k # None
    /\ k \in idle
    /\ idle' = idle \ {k}
    /\ UNCHANGED <<clients, last_inbound_seq_id, legacy_stream_ids, connVars, task, cancelled,
                   reported, inbound, reader, enabled, app_server,
                   shutdown>>

ClientClosed(i, given) ==
    LET k == KeyOf(i, given) IN
    /\ reader
    /\ k # None
    /\ CloseClient(k)
    /\ UNCHANGED <<connVars, task, enabled, app_server, shutdown>>

-----------------------------------------------------------------------------
(***************************************************************************)
(* The other branches of the reader's select, and the reader itself.       *)
(***************************************************************************)
\* Variant with a bug: the end of a task is noted and its client kept
BookkeepJoinSet_KeepsClient(c) ==
    /\ reader
    /\ task[c] = "ended"
    /\ task' = [task EXCEPT ![c] = "joined"]
    /\ UNCHANGED <<trackerVars, connVars, cancelled, reported, inbound, reader, enabled, app_server,
                   shutdown>>

\* bookkeep_join_set: the task that ended names only its key
BookkeepJoinSet(c) ==
    /\ reader
    /\ task[c] = "ended"
    /\ task' = [task EXCEPT ![c] = "joined"]
    /\ CloseClient(client_key[c])
    /\ UNCHANGED <<connVars, enabled, app_server, shutdown>>

\* The idle timeout of a client passes
BecomeIdle(k) ==
    /\ clients[k] # None
    /\ k \notin idle
    /\ idle' = idle \cup {k}
    /\ UNCHANGED <<clients, last_inbound_seq_id, legacy_stream_ids, connVars, task, cancelled,
                   reported, inbound, reader, enabled, app_server,
                   shutdown>>

\* Variant with a bug: clients without stream ids are never swept
CloseExpiredClients_SkipsLegacy ==
    /\ reader
    /\ app_server
    /\ CloseClients({k \in idle : legacy_stream_ids[k[1]] # k[2]})
    /\ UNCHANGED <<connVars, task, reader, enabled, app_server, shutdown>>

\* close_expired_clients stops at the first event that is not taken
CloseExpiredClients ==
    /\ reader
    /\ idle # {}
    /\ \E ks \in SUBSET idle :
         /\ IF app_server THEN ks = idle ELSE Cardinality(ks) = 1
         /\ CloseClients(ks)
    /\ reader' = app_server
    /\ UNCHANGED <<connVars, task, enabled, app_server, shutdown>>

\* Remote control is enabled, a websocket could be opened, and its reader has locked
\* the tracker
ReaderStarts ==
    /\ ~reader
    /\ enabled
    /\ shutdown = "no"
    /\ reader' = TRUE
    /\ UNCHANGED <<trackerVars, connVars, task, cancelled, reported, inbound, enabled, app_server,
                   shutdown>>

\* The link is lost, pongs are missing, or run_connection cancelled the connection: the
\* writer ended, remote control was disabled, or it shuts down
ReaderEnds ==
    /\ reader
    /\ reader' = FALSE
    /\ UNCHANGED <<trackerVars, connVars, task, cancelled, reported, inbound, enabled, app_server,
                   shutdown>>

-----------------------------------------------------------------------------
(***************************************************************************)
(* run_client_outbound: select, then send.                                 *)
(***************************************************************************)
\* A message of the app server or a pong is taken; the select may prefer it to a
\* token that has fired
TakeOutgoing(c) ==
    /\ task[c] = "select"
    /\ task' = [task EXCEPT ![c] = "send"]
    /\ UNCHANGED <<trackerVars, connVars, cancelled, reported, inbound, reader, enabled, app_server,
                   shutdown>>

\* The channel to the websocket had room
Forward(c) ==
    /\ task[c] = "send"
    /\ task' = [task EXCEPT ![c] = "select"]
    /\ UNCHANGED <<trackerVars, connVars, cancelled, reported, inbound, reader, enabled, app_server,
                   shutdown>>

\* Variant with a bug: a task that waits for room in the channel ignores its token
OutboundEnds_NotWhileSending(c) ==
    /\ task[c] = "select"
    /\ ~app_server \/ c \in cancelled
    /\ task' = [task EXCEPT ![c] = "ended"]
    /\ UNCHANGED <<trackerVars, connVars, cancelled, reported, inbound, reader, enabled, app_server,
                   shutdown>>

\* The token fired, or all senders of the app server are gone
OutboundEnds(c) ==
    /\ task[c] \in {"select", "send"}
    /\ IF task[c] = "send" THEN c \in cancelled ELSE ~app_server \/ c \in cancelled
    /\ task' = [task EXCEPT ![c] = "ended"]
    /\ UNCHANGED <<trackerVars, connVars, cancelled, reported, inbound, reader, enabled, app_server,
                   shutdown>>

-----------------------------------------------------------------------------
(***************************************************************************)
(* The app server, and the end of remote control.                          *)
(***************************************************************************)
\* disconnect_connection: a slow connection, or all of them for a restart
Disconnect(c) ==
    /\ app_server
    /\ task[c] # "none"
    /\ c \notin cancelled
    /\ cancelled' = cancelled \cup {c}
    /\ UNCHANGED <<trackerVars, connVars, task, reported, inbound, reader, enabled, app_server,
                   shutdown>>

\* set_enabled, after every change of the configuration; a watch wakes nobody when its
\* value stays the same
SetEnabled ==
    /\ enabled' = ~enabled
    /\ UNCHANGED <<trackerVars, connVars, task, cancelled, reported, inbound, reader, app_server,
                   shutdown>>

\* The processor leaves its loop, drains and drops the receiver.  When it finishes a
\* graceful restart it has requested the shutdown before; when its outbound router or
\* its last connection is gone, the shutdown is requested after it
AppServerEnds ==
    /\ app_server
    /\ app_server' = FALSE
    /\ UNCHANGED <<trackerVars, connVars, task, cancelled, reported, inbound, reader, enabled,
                   shutdown>>

\* The token that every disconnect_token descends from
RequestShutdown ==
    /\ shutdown = "no"
    /\ shutdown' = "requested"
    /\ cancelled' = cancelled \cup {c \in Conns : task[c] # "none"}
    /\ UNCHANGED <<trackerVars, connVars, task, reported, inbound, reader, enabled,
                   app_server>>

\* shutdown: close every client, whether or not the app server listens
CloseAll ==
    /\ shutdown = "requested"
    /\ ~reader
    /\ shutdown' = "draining"
    /\ CloseClients(Keys)
    /\ UNCHANGED <<connVars, task, reader, enabled, app_server>>

\* drain_join_set
DrainJoinSet(c) ==
    /\ shutdown = "draining"
    /\ task[c] = "ended"
    /\ task' = [task EXCEPT ![c] = "joined"]
    /\ UNCHANGED <<trackerVars, connVars, cancelled, reported, inbound, reader, enabled, app_server,
                   shutdown>>

ShutdownDone ==
    /\ shutdown = "draining"
    /\ \A c \in Conns : task[c] \in {"none", "joined"}
    /\ shutdown' = "done"
    /\ UNCHANGED <<trackerVars, connVars, task, cancelled, reported, inbound, reader, enabled,
                   app_server>>

-----------------------------------------------------------------------------
Receive ==
    \E i \in ClientIds : \E given \in StreamIds \cup {None} :
        \/ \E q \in SeqIds : Initialize(i, given, q) \/ ClientMessage(i, given, q)
        \/ Ping(i, given)
        \/ ClientClosed(i, given)

OutboundStep(c) == TakeOutgoing(c) \/ Forward(c) \/ OutboundEnds(c)

ShutdownStep == CloseAll \/ (\E c \in Conns : DrainJoinSet(c)) \/ ShutdownDone

Next ==
    \/ Receive
    \/ \E c \in Conns : BookkeepJoinSet(c) \/ OutboundStep(c) \/ Disconnect(c)
    \/ \E k \in Keys : BecomeIdle(k)
    \/ CloseExpiredClients
    \/ ReaderStarts
    \/ ReaderEnds
    \/ SetEnabled
    \/ AppServerEnds
    \/ RequestShutdown
    \/ ShutdownStep

Spec == Init /\ [][Next]_vars

\* Tasks look at their tokens; run_connection cancels the reader when remote control is
\* disabled or shuts down; the select of a reader is fair to the join set and to the
\* sweep, whose branches are ready at once whenever a reader starts; the shutdown runs
\* to its end.  Nothing is assumed of websockets: whether one is ever opened depends on
\* the configuration, the URL, the network and the backend
Fairness ==
    /\ \A c \in Conns : WF_vars(OutboundEnds(c))
    /\ SF_vars(\E c \in Conns : BookkeepJoinSet(c))
    /\ SF_vars(CloseExpiredClients)
    /\ WF_vars((shutdown # "no" \/ ~enabled) /\ ReaderEnds)
    /\ WF_vars(ShutdownStep)

FairSpec == Spec /\ Fairness

-----------------------------------------------------------------------------
(***************************************************************************)
(* Properties.                                                             *)
(***************************************************************************)
IsOpen(c) == reported[c] = "opened"

\* The app server and the tracker agree on the connections: while events are taken,
\* a connection that was opened and not closed is the one of exactly one client,
\* under the key of its outbound task, and that task has not been joined, so that
\* its end will still be noticed.  After a re-initialize, a close that comes twice
\* or a task that ends by itself nothing stays open that nobody can close.
OpenConnectionsTracked ==
    /\ \A k \in Keys : clients[k] # None =>
         /\ client_key[clients[k]] = k
         /\ task[clients[k]] # "joined"
         /\ IsOpen(clients[k])
    /\ app_server => \A c \in Conns : IsOpen(c) => \E k \in Keys : clients[k] = c

\* On one connection no inbound number is forwarded twice or after a larger one,
\* whatever the backend repeats; the number of the initialize that opened the
\* connection counts, except for clients without stream ids.
InboundOnce ==
    \A c \in Conns : \A m, n \in DOMAIN inbound[c] : m < n => inbound[c][m] < inbound[c][n]

\* A client that sends no stream id is routed to a client state that exists.
LegacyStreamKnown ==
    \A i \in ClientIds : legacy_stream_ids[i] # None => clients[<<i, legacy_stream_ids[i]>>] # None

\* A websocket is opened again and again, until the shutdown.  Ended tasks are joined
\* and idle clients are swept only by a reader, so that while remote control is disabled
\* or cannot connect, both wait.
Reconnects == []<>(reader \/ shutdown # "no")

\* When the app server disconnects a connection, it is told that the connection is
\* closed, over losses of the websocket, re-initialisations of the stream and phases
\* in which remote control is disabled, provided that some websocket is opened after
\* them or the shutdown comes.
DisconnectReported ==
    Reconnects => \A c \in Conns : c \in cancelled ~> (~app_server \/ ~IsOpen(c))

\* An idle client is closed, unless it becomes active again, under the same proviso.
IdleClosed == Reconnects => \A k \in Keys : k \in idle ~> k \notin idle

\* The end of remote control ends, also while it is disabled and no websocket is open: no
\* outbound task keeps the join set from draining.
ShutdownEnds == shutdown = "requested" ~> shutdown = "done"

\* The end of an outbound task closes the connection the task belonged to, and no
\* other.
EndClosesOwnConnection ==
    [][\A c, d \in Conns :
         /\ task[c] = "ended" /\ task'[c] = "joined" /\ shutdown' # "draining"
         /\ IsOpen(d) /\ ~IsOpen(d)'
         => c = d]_vars

=============================================================================
