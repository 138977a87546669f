------------------------ MODULE ThreadListenersProofs ------------------------
(***************************************************************************)
(* Proofs about ThreadListeners, for every set of connections and every    *)
(* bound: no closed connection is subscribed, a state that names a         *)
(* listener has one that runs and no second one takes its events, and a    *)
(* closing mark has somebody who will remove it.                           *)
(*                                                                         *)
(* The invariant has one part for each group of variables.  A step is      *)
(* shown to keep each part; most steps leave all but one or two alone.     *)
(***************************************************************************)
EXTENDS ThreadListeners, TLAPS

ThreadOK == kind \in Kinds /\ loaded \in Loads \cup {0} /\ created \in BOOLEAN

StateOK ==
    /\ entry \in 0..MaxEntries
    /\ subs # {} => entry # 0
    /\ watcher \in [Entries -> BOOLEAN]
    /\ entry # 0 => watcher[entry] = (subs # {})
    /\ live \subseteq Conns
    /\ open \subseteq live
    /\ owed \subseteq live
    /\ ClosedNotSubscribed

\* A listener that takes events, or looks whether to unload, is the one its state
\* names unless its token has fired
Serving ==
    /\ \A l \in Listeners : listener[l] # "none" => serves[l].state # 0
    /\ \A l \in Listeners : listener[l] \in {"select", "check"} /\ l \notin cancelled =>
         current[serves[l].state] = l

ListenersOK ==
    /\ current \in [Entries -> 0..MaxListeners]
    /\ \A e \in Entries : current[e] # 0 => serves[current[e]].state = e
    /\ listener \in [Listeners -> {"none", "select", "check", "unload", "clear", "exit"}]
    /\ serves \in [Listeners -> Services]
    /\ cancelled \subseteq Listeners
    /\ commands \in [Listeners -> SUBSET Conns]
    /\ \A e \in Entries : current[e] # 0 => listener[current[e]] # "none"
    /\ Serving

UnloadOK ==
    /\ pending_thread_unloads \in BOOLEAN
    /\ unload \in [Listeners -> {"no", "shut_down", "finish"}]
    /\ ClosingOwned

\* A step that uses the thread's state or a listener's channel has got one, and a
\* resume has a client
StatePcs == {"watch", "listen", "tx", "attach_watch", "attach_listen", "clear_state"}
ResumePcs == {"find", "state", "watch", "listen", "tx", "send"}
Ready(next, r) ==
    /\ next \in StatePcs => r.state # 0
    /\ next \in ResumePcs => r.conn \in Conns
    /\ next = "send" => r.tx # 0

ProcsOK ==
    /\ todo \subseteq Conns
    /\ pc \in [Procs -> Pcs]
    /\ loc \in [Procs -> Locals]
    /\ \A p \in Procs : Ready(pc[p], loc[p])
    /\ \A c \in Conns : pc[c] = "remove_connection" => c \notin open

IInv == ThreadOK /\ StateOK /\ ListenersOK /\ UnloadOK /\ ProcsOK

\* The invariant gives the types and the properties.
LEMMA Implied == IInv => TypeOK /\ ClosedNotSubscribed /\ ListenerRuns /\ ClosingOwned
<1> SUFFICES ASSUME IInv
             PROVE  TypeOK /\ ClosedNotSubscribed /\ ListenerRuns /\ ClosingOwned
  OBVIOUS
<1>1. TypeOK
  BY DEF IInv, TypeOK, ThreadOK, StateOK, ListenersOK, UnloadOK, ProcsOK, ClosedNotSubscribed
<1>2. ListenerRuns
  BY DEF IInv, ListenersOK, ListenerRuns, Serving
<1> QED BY <1>1, <1>2 DEF IInv, StateOK, UnloadOK

-----------------------------------------------------------------------------
(***************************************************************************)
(* Locals and objects.                                                     *)
(***************************************************************************)

\* The fields of the locals of a process.
LEMMA Fields ==
    ASSUME NEW r \in Locals
    PROVE  /\ r.conn \in Conns \cup {"loop"}
           /\ r.thread \in Loads \cup {0}
           /\ r.state \in 0..MaxEntries
           /\ r.watch \in 0..MaxEntries
           /\ r.tx \in 0..MaxListeners
           /\ r.own \in 0..MaxListeners
BY DEF Locals

\* Zero stands for no object.
LEMMA Zero == NoLocals \in Locals /\ 0 \in 0..MaxEntries /\ 0 \in 0..MaxListeners
BY BoundsAssumption DEF NoLocals, Locals

\* One local is set.
LEMMA SetConn ==
    ASSUME NEW r \in Locals, NEW c \in Conns
    PROVE  /\ [r EXCEPT !.conn = c] \in Locals
           /\ [r EXCEPT !.conn = c].conn = c
BY DEF Locals

\* The thread that was found.
LEMMA SetThread ==
    ASSUME NEW r \in Locals, NEW t \in Loads \cup {0}
    PROVE  /\ [r EXCEPT !.thread = t] \in Locals
           /\ [r EXCEPT !.thread = t].conn = r.conn
BY DEF Locals

\* The ThreadState that was fetched.
LEMMA SetState ==
    ASSUME NEW r \in Locals, NEW e \in 0..MaxEntries
    PROVE  /\ [r EXCEPT !.state = e] \in Locals
           /\ [r EXCEPT !.state = e].state = e
           /\ [r EXCEPT !.state = e].conn = r.conn
BY DEF Locals

\* The entry whose watcher was fetched.
LEMMA SetWatch ==
    ASSUME NEW r \in Locals, NEW e \in 0..MaxEntries
    PROVE  /\ [r EXCEPT !.watch = e] \in Locals
           /\ [r EXCEPT !.watch = e].state = r.state
           /\ [r EXCEPT !.watch = e].conn = r.conn
BY DEF Locals

\* The channel of a listener.
LEMMA SetTx ==
    ASSUME NEW r \in Locals, NEW l \in 0..MaxListeners
    PROVE  /\ [r EXCEPT !.tx = l, !.state = 0] \in Locals
           /\ [r EXCEPT !.tx = l, !.state = 0].tx = l
           /\ [r EXCEPT !.tx = l, !.state = 0].conn = r.conn
BY Zero DEF Locals

\* The listener that the process has just started.
LEMMA SetOwn ==
    ASSUME NEW r \in Locals, NEW l \in 0..MaxListeners
    PROVE  /\ [r EXCEPT !.thread = 0, !.watch = 0, !.own = l] \in Locals
           /\ [r EXCEPT !.thread = 0, !.watch = 0, !.own = l].state = r.state
           /\ [r EXCEPT !.thread = 0, !.watch = 0, !.own = l].conn = r.conn
BY Zero DEF Locals

\* A process moves on with its locals.
LEMMA Moves ==
    ASSUME ProcsOK, NEW p \in Procs, NEW next \in Pcs, NEW r \in Locals,
           pc' = [pc EXCEPT ![p] = next], loc' = [loc EXCEPT ![p] = r],
           Ready(next, r), next # "remove_connection",
           todo' \subseteq Conns, \A c \in Conns : c \in open' => c \in open \/ pc[c] = "idle"
    PROVE  ProcsOK'
<1>1. pc' \in [Procs -> Pcs] /\ loc' \in [Procs -> Locals]
  BY DEF ProcsOK
<1>2. \A q \in Procs : pc'[q] = (IF q = p THEN next ELSE pc[q]) /\ loc'[q] = (IF q = p THEN r ELSE loc[q])
  BY DEF ProcsOK
<1>3. \A q \in Procs : Ready(pc'[q], loc'[q])
  BY <1>2 DEF ProcsOK
<1>4. \A c \in Conns : pc'[c] = "remove_connection" => c \notin open'
  BY <1>2 DEF ProcsOK, Procs
<1> QED BY <1>1, <1>3, <1>4 DEF ProcsOK, Ready

\* A process that stays with its locals, or returns.
LEMMA Goes ==
    ASSUME ProcsOK, NEW p \in Procs, NEW next \in Pcs, Goto(p, next), UNCHANGED loc,
           Ready(next, loc[p]), next # "remove_connection",
           todo' \subseteq Conns, UNCHANGED open
    PROVE  ProcsOK'
<1>1. loc' = [loc EXCEPT ![p] = loc[p]] /\ loc[p] \in Locals
  BY DEF ProcsOK
<1>2. pc' = [pc EXCEPT ![p] = next]
  BY DEF Goto
<1> QED BY <1>1, <1>2, Moves

\* A process that returns forgets its locals.
LEMMA Returns ==
    ASSUME ProcsOK, NEW p \in Procs, Return(p), UNCHANGED <<todo, open>>
    PROVE  ProcsOK'
<1>1. "idle" \in Pcs /\ Ready("idle", NoLocals)
  BY DEF Pcs, Ready, StatePcs, ResumePcs
<1>2. pc' = [pc EXCEPT ![p] = "idle"] /\ loc' = [loc EXCEPT ![p] = NoLocals]
  BY DEF Return, Goto
<1>3. todo' \subseteq Conns
  BY DEF ProcsOK
<1> QED BY <1>1, <1>2, <1>3, Zero, Moves

\* The entry of the thread, made if there is none.
LEMMA EntryFound ==
    ASSUME StateOK, RoomForEntry
    PROVE  EntryOrDefault \in Entries /\ EntryOrDefault # 0 /\ EntryOrDefault \in 0..MaxEntries
<1>1. EntryOrDefault \in Entries
  <2>1. CASE entry # 0
    BY <2>1 DEF StateOK, EntryOrDefault, Entries
  <2>2. CASE entry = 0
    <3>1. FreeEntries # {} /\ FreeEntries \subseteq Entries
      BY <2>2 DEF RoomForEntry, FreeEntries
    <3>2. AnyOf(FreeEntries) \in FreeEntries
      BY <3>1 DEF AnyOf
    <3> QED BY <2>2, <3>1, <3>2 DEF EntryOrDefault
  <2> QED BY <2>1, <2>2
<1> QED BY <1>1, BoundsAssumption DEF Entries

\* A listener that is started runs in no other role.
LEMMA ListenerFound ==
    ASSUME FreeListeners # {}
    PROVE  /\ AnyOf(FreeListeners) \in Listeners
           /\ AnyOf(FreeListeners) \in 0..MaxListeners
           /\ AnyOf(FreeListeners) # 0
           /\ listener[AnyOf(FreeListeners)] = "none"
           /\ unload[AnyOf(FreeListeners)] = "no"
<1>1. AnyOf(FreeListeners) \in FreeListeners
  BY DEF AnyOf
<1> QED BY <1>1, BoundsAssumption DEF FreeListeners, Listeners

-----------------------------------------------------------------------------
(***************************************************************************)
(* Parts of the state that a step leaves alone, and subscriptions.         *)
(***************************************************************************)

\* What a step does not touch stays as it was.
LEMMA Frame ==
    /\ ThreadOK /\ UNCHANGED threadVars => ThreadOK'
    /\ StateOK /\ UNCHANGED <<stateVars, live, open, owed>> => StateOK'
    /\ ListenersOK /\ UNCHANGED listenerVars => ListenersOK'
    /\ UnloadOK /\ UNCHANGED <<pending_thread_unloads, unload, listener>> => UnloadOK'
    /\ ProcsOK /\ UNCHANGED <<todo, pc, loc, open>> => ProcsOK'
<1>1. ThreadOK /\ UNCHANGED threadVars => ThreadOK'
  BY DEF ThreadOK, threadVars
<1>2. StateOK /\ UNCHANGED <<stateVars, live, open, owed>> => StateOK'
  BY DEF StateOK, stateVars, ClosedNotSubscribed
<1>3. ListenersOK /\ UNCHANGED listenerVars => ListenersOK'
  BY DEF ListenersOK, listenerVars, Serving
<1>4. UnloadOK /\ UNCHANGED <<pending_thread_unloads, unload, listener>> => UnloadOK'
  BY DEF UnloadOK, ClosingOwned
<1>5. ProcsOK /\ UNCHANGED <<todo, pc, loc, open>> => ProcsOK'
  BY DEF ProcsOK, Ready
<1> QED BY <1>1, <1>2, <1>3, <1>4, <1>5

\* The subscribers of an entry are set to connections that are there.
LEMMA SubscribersSet ==
    ASSUME StateOK, NEW e \in Entries, NEW cs \in SUBSET live, SetSubscribers(e, cs),
           UNCHANGED <<live, open>>, owed' \subseteq owed
    PROVE  StateOK'
<1>1. e \in 0..MaxEntries /\ e # 0
  BY BoundsAssumption DEF Entries
<1>2. watcher' \in [Entries -> BOOLEAN] /\ watcher'[e] = (cs # {})
  BY DEF StateOK, SetSubscribers
<1> QED BY <1>1, <1>2 DEF StateOK, SetSubscribers, ClosedNotSubscribed

\* A connection is added only while it is there.
LEMMA ConnectionAdded ==
    ASSUME StateOK, RoomForEntry, NEW c \in live, AddConnection(c),
           UNCHANGED <<live, open>>, owed' \subseteq owed
    PROVE  StateOK'
<1>1. subs \cup {c} \in SUBSET live
  BY DEF StateOK, ClosedNotSubscribed
<1> QED BY <1>1, EntryFound, SubscribersSet DEF AddConnection

\* A subscription ends.
LEMMA SubscriptionRemoved ==
    ASSUME StateOK, NEW c, RemoveSubscription(c), UNCHANGED <<live, open, owed>>
    PROVE  StateOK'
<1>1. CASE entry = 0
  BY <1>1, Frame DEF RemoveSubscription
<1>2. CASE entry # 0
  <2>1. entry \in Entries /\ subs \ {c} \in SUBSET live
    BY <1>2, BoundsAssumption DEF StateOK, Entries, ClosedNotSubscribed
  <2> QED BY <1>2, <2>1, SubscribersSet DEF RemoveSubscription
<1> QED BY <1>1, <1>2

\* The entry goes.
LEMMA EntryRemoved ==
    ASSUME StateOK, RemoveEntry, UNCHANGED <<live, open, owed>>
    PROVE  StateOK'
BY Zero DEF StateOK, RemoveEntry, ClosedNotSubscribed

-----------------------------------------------------------------------------
(***************************************************************************)
(* Listeners.                                                              *)
(***************************************************************************)

\* The listener a state names is one.
LEMMA NamedListener ==
    ASSUME ListenersOK, NEW e \in Entries, current[e] # 0
    PROVE  current[e] \in Listeners
<1>1. current[e] \in 0..MaxListeners
  BY DEF ListenersOK
<1> QED BY <1>1, BoundsAssumption DEF Listeners

\* A listener that runs goes on to another step; what it serves stays, but for the
\* entry it watches.
LEMMA ListenerGoes ==
    ASSUME ListenersOK, NEW l \in Listeners,
           NEW next \in {"select", "check", "unload", "clear", "exit"}, ListenerGoto(l, next),
           next \in {"select", "check"} => listener[l] \in {"select", "check"},
           listener[l] # "none", UNCHANGED <<current, cancelled, commands>>,
           serves' \in [Listeners -> Services],
           \A k \in Listeners : serves'[k].state = serves[k].state
    PROVE  ListenersOK'
<1>1. /\ listener' \in [Listeners -> {"none", "select", "check", "unload", "clear", "exit"}]
      /\ \A k \in Listeners : listener'[k] = IF k = l THEN next ELSE listener[k]
  BY DEF ListenersOK, ListenerGoto
<1>2. \A e \in Entries : current[e] # 0 => current[e] \in Listeners
  BY NamedListener
<1>3. Serving'
  BY <1>1 DEF ListenersOK, Serving
<1> QED BY <1>1, <1>2, <1>3 DEF ListenersOK

\* A state without its listener: the listener it named is cancelled.
LEMMA ListenerCleared ==
    ASSUME ListenersOK, NEW e \in Entries, ClearListener(e),
           UNCHANGED <<listener, serves, commands>>
    PROVE  ListenersOK'
<1>1. /\ current' \in [Entries -> 0..MaxListeners]
      /\ \A f \in Entries : current'[f] = IF f = e THEN 0 ELSE current[f]
  BY Zero DEF ListenersOK, ClearListener
<1>2. cancelled' \subseteq Listeners
  BY NamedListener DEF ListenersOK, ClearListener
<1>3. Serving'
  <2> SUFFICES ASSUME NEW k \in Listeners, listener[k] \in {"select", "check"}, k \notin cancelled'
               PROVE  current'[serves[k].state] = k
    BY DEF ListenersOK, Serving
  <2>1. k \notin cancelled /\ k # 0 /\ k # current[e]
    BY BoundsAssumption DEF ClearListener, Listeners
  <2>2. current[serves[k].state] = k /\ serves[k].state # 0
    BY <2>1 DEF ListenersOK, Serving
  <2>3. serves[k].state \in Entries
    BY <2>2, BoundsAssumption DEF ListenersOK, Services, Entries
  <2> QED BY <1>1, <2>1, <2>2, <2>3
<1> QED BY <1>1, <1>2, <1>3 DEF ListenersOK

\* The step that starts a listener unless the state has one for this thread.
LEMMA ListenStarts ==
    ASSUME ListenersOK, UnloadOK, NEW p \in Procs, NEW next, Listen(p, next),
           loc[p] \in Locals, loc[p].state # 0
    PROVE  ListenersOK' /\ UnloadOK'
<1>1. CASE ListenerMatches(loc[p].state, loc[p].thread)
  BY <1>1, Frame DEF Listen, listenerVars
<1>2. CASE ~ListenerMatches(loc[p].state, loc[p].thread)
  <2>1. PICK l : l = AnyOf(FreeListeners)
    OBVIOUS
  <2>2. PICK e : e = loc[p].state
    OBVIOUS
  <2>3. e \in Entries /\ e # 0
    BY <2>2, Fields, BoundsAssumption DEF Entries
  <2>4. PICK r : r = [thread |-> loc[p].thread, state |-> e, watch |-> loc[p].watch]
    OBVIOUS
  <2>5. r \in Services /\ r.state = e
    BY <2>2, <2>4, Fields DEF Services
  <2>6. /\ FreeListeners # {}
        /\ cancelled' = (cancelled \ {l}) \cup ({current[e]} \ {0})
        /\ current' = [current EXCEPT ![e] = l]
        /\ listener' = [listener EXCEPT ![l] = "select"]
        /\ serves' = [serves EXCEPT ![l] = r]
        /\ UNCHANGED <<commands, pending_thread_unloads, unload>>
    BY <1>2, <2>1, <2>2, <2>4 DEF Listen
  <2>7. /\ l \in Listeners /\ l \in 0..MaxListeners /\ l # 0
        /\ listener[l] = "none" /\ unload[l] = "no"
    BY <2>1, <2>6, ListenerFound
  <2>8. /\ current' \in [Entries -> 0..MaxListeners]
        /\ \A f \in Entries : current'[f] = IF f = e THEN l ELSE current[f]
    BY <2>3, <2>6, <2>7 DEF ListenersOK
  <2>9. /\ listener' \in [Listeners -> {"none", "select", "check", "unload", "clear", "exit"}]
        /\ \A k \in Listeners : listener'[k] = IF k = l THEN "select" ELSE listener[k]
    BY <2>6, <2>7 DEF ListenersOK
  <2>10. /\ serves' \in [Listeners -> Services]
         /\ \A k \in Listeners : serves'[k] = IF k = l THEN r ELSE serves[k]
    BY <2>5, <2>6, <2>7 DEF ListenersOK
  <2>11. cancelled' \subseteq Listeners
    BY <2>3, <2>6, NamedListener DEF ListenersOK
  <2>12. \A f \in Entries : current[f] # 0 => current[f] \in Listeners /\ current[f] # l
    BY <2>7, NamedListener DEF ListenersOK
  <2>13. \A f \in Entries : current'[f] # 0 => /\ serves'[current'[f]].state = f
                                              /\ listener'[current'[f]] # "none"
    BY <2>5, <2>7, <2>8, <2>9, <2>10, <2>12 DEF ListenersOK
  <2>14. Serving'
    <3>1. \A k \in Listeners : listener'[k] # "none" => serves'[k].state # 0
      BY <2>3, <2>5, <2>9, <2>10 DEF ListenersOK, Serving
    <3>2. ASSUME NEW k \in Listeners, listener'[k] \in {"select", "check"}, k \notin cancelled'
          PROVE  current'[serves'[k].state] = k
      <4>1. CASE k = l
        BY <2>3, <2>5, <2>8, <2>10, <4>1
      <4>2. CASE k # l
        <5>1. k \notin cancelled /\ k # 0 /\ k # current[e]
          BY <2>6, <3>2, <4>2, BoundsAssumption DEF Listeners
        <5>2. serves'[k] = serves[k] /\ listener'[k] = listener[k]
          BY <2>9, <2>10, <4>2
        <5>3. current[serves[k].state] = k /\ serves[k].state # 0
          BY <3>2, <5>1, <5>2 DEF ListenersOK, Serving
        <5>4. serves[k].state \in Entries
          BY <5>3, BoundsAssumption DEF ListenersOK, Services, Entries
        <5> QED BY <2>8, <5>1, <5>2, <5>3, <5>4
      <4> QED BY <4>1, <4>2
    <3> QED BY <3>1, <3>2 DEF Serving
  <2>15. ListenersOK'
    BY <2>6, <2>8, <2>9, <2>10, <2>11, <2>13, <2>14 DEF ListenersOK
  <2>16. ClosingOwned'
    BY <2>6, <2>7, <2>9 DEF UnloadOK, ClosingOwned
  <2> QED BY <2>6, <2>15, <2>16 DEF UnloadOK
<1> QED BY <1>1, <1>2

\* A listener that ends is no longer named by any state.
LEMMA ListenerEnds ==
    ASSUME ListenersOK, NEW l \in Listeners, ListenerExits(l)
    PROVE  ListenersOK'
<1>1. PICK r : r = IF unload[l] = "no" THEN NoService
                   ELSE [NoService EXCEPT !.thread = serves[l].thread]
  OBVIOUS
<1>2. r \in Services
  BY <1>1, Zero DEF ListenersOK, NoService, Services
<1>3. /\ current' = [e \in Entries |-> IF current[e] = l THEN 0 ELSE current[e]]
      /\ cancelled' = cancelled \ {l}
      /\ listener' = [listener EXCEPT ![l] = "none"]
      /\ commands' = [commands EXCEPT ![l] = {}]
      /\ serves' = [serves EXCEPT ![l] = r]
  BY <1>1 DEF ListenerExits, ListenerGoto
<1>4. /\ current' \in [Entries -> 0..MaxListeners]
      /\ \A e \in Entries : current'[e] # 0 => current'[e] = current[e] /\ current[e] # l
      /\ \A e \in Entries : current[e] # l => current'[e] = current[e]
  BY <1>3, Zero DEF ListenersOK
<1>5. /\ listener' \in [Listeners -> {"none", "select", "check", "unload", "clear", "exit"}]
      /\ \A k \in Listeners : listener'[k] = IF k = l THEN "none" ELSE listener[k]
  BY <1>3 DEF ListenersOK
<1>6. /\ serves' \in [Listeners -> Services]
      /\ \A k \in Listeners : k # l => serves'[k] = serves[k]
  BY <1>2, <1>3 DEF ListenersOK
<1>7. commands' \in [Listeners -> SUBSET Conns] /\ cancelled' \subseteq Listeners
  BY <1>3 DEF ListenersOK
<1>8. \A e \in Entries : current[e] # 0 => current[e] \in Listeners
  BY NamedListener
<1>9. \A e \in Entries : current'[e] # 0 => /\ serves'[current'[e]].state = e
                                           /\ listener'[current'[e]] # "none"
  BY <1>4, <1>5, <1>6, <1>8 DEF ListenersOK
<1>10. Serving'
  <2> SUFFICES ASSUME NEW k \in Listeners, listener'[k] # "none"
               PROVE  /\ serves'[k].state # 0
                      /\ listener'[k] \in {"select", "check"} /\ k \notin cancelled' =>
                           current'[serves'[k].state] = k
    BY DEF Serving
  <2>1. k # l /\ serves'[k] = serves[k] /\ listener'[k] = listener[k]
    BY <1>5, <1>6
  <2>2. serves[k].state # 0 /\ serves[k].state \in 0..MaxEntries
    BY <2>1 DEF ListenersOK, Serving, Services
  <2>3. serves[k].state \in Entries
    BY <2>2, BoundsAssumption DEF Entries
  <2>4. ASSUME listener'[k] \in {"select", "check"}, k \notin cancelled'
        PROVE  current'[serves'[k].state] = k
    <3>1. current[serves[k].state] = k
      BY <1>3, <2>1, <2>4 DEF ListenersOK, Serving
    <3> QED BY <1>4, <2>1, <2>3, <3>1
  <2> QED BY <2>1, <2>2, <2>4
<1> QED BY <1>4, <1>5, <1>6, <1>7, <1>9, <1>10 DEF ListenersOK

\* A service that nobody runs may be forgotten.
LEMMA ServiceForgotten ==
    ASSUME ListenersOK, NEW l \in Listeners, UNCHANGED <<current, listener, cancelled, commands>>,
           serves' = [serves EXCEPT ![l] = IF listener[l] = "none" THEN NoService ELSE @]
    PROVE  ListenersOK'
<1>1. NoService \in Services
  BY Zero DEF NoService, Services
<1>2. /\ serves' \in [Listeners -> Services]
      /\ \A k \in Listeners : listener[k] # "none" => serves'[k] = serves[k]
  BY <1>1 DEF ListenersOK
<1>3. \A e \in Entries : current[e] # 0 => current[e] \in Listeners
  BY NamedListener
<1>4. Serving'
  BY <1>2 DEF ListenersOK, Serving
<1> QED BY <1>2, <1>3, <1>4 DEF ListenersOK

\* Commands come and go in the channel of a listener.
LEMMA CommandsSet ==
    ASSUME ListenersOK, NEW l \in Listeners, NEW cs \in SUBSET Conns,
           commands' = [commands EXCEPT ![l] = cs],
           UNCHANGED <<current, listener, serves, cancelled>>
    PROVE  ListenersOK'
<1>1. commands' \in [Listeners -> SUBSET Conns]
  BY DEF ListenersOK
<1> QED BY <1>1 DEF ListenersOK, Serving

\* Whoever closes the thread goes on closing it.
LEMMA StillOwned ==
    ASSUME UnloadOK, pending_thread_unloads' \in {pending_thread_unloads, FALSE},
           unload' \in [Listeners -> {"no", "shut_down", "finish"}],
           pending_thread_unloads' => \A l \in Listeners :
               listener[l] \in {"unload", "clear"} \/ unload[l] # "no" =>
               listener'[l] \in {"unload", "clear"} \/ unload'[l] # "no"
    PROVE  UnloadOK'
<1>1. pending_thread_unloads' \in BOOLEAN
  BY DEF UnloadOK
<1>2. ClosingOwned'
  <2>1. CASE ~pending_thread_unloads'
    BY <2>1 DEF ClosingOwned
  <2>2. CASE pending_thread_unloads'
    <3>1. pending_thread_unloads
      BY <2>2
    <3>2. PICK l \in Listeners : listener[l] \in {"unload", "clear"} \/ unload[l] # "no"
      BY <3>1 DEF UnloadOK, ClosingOwned
    <3>3. listener'[l] \in {"unload", "clear"} \/ unload'[l] # "no"
      BY <2>2, <3>2
    <3> QED BY <3>3 DEF ClosingOwned
  <2> QED BY <2>1, <2>2
<1> QED BY <1>1, <1>2 DEF UnloadOK

-----------------------------------------------------------------------------
(***************************************************************************)
(* Requests and connections.                                               *)
(***************************************************************************)

\* Who the processes are.
LEMMA Processes == "request" \in Procs /\ "loop" \in Procs /\ Conns \subseteq Procs
BY DEF Procs

\* Nothing but the processes moves.
LEMMA OnlyProcs ==
    ASSUME IInv, ProcsOK', UNCHANGED <<threadVars, stateVars, live, open, owed>>,
           UNCHANGED <<pending_thread_unloads, listenerVars, unload>>
    PROVE  IInv'
BY Frame DEF IInv, listenerVars

\* core closes the thread.
LEMMA CoreClosesKeeps == IInv /\ CoreCloses => IInv'
<1> SUFFICES ASSUME IInv, CoreCloses PROVE IInv'
  OBVIOUS
<1>1. ThreadOK'
  BY DEF IInv, ThreadOK, CoreCloses
<1> QED BY <1>1, Frame DEF IInv, CoreCloses, listenerVars

\* A client resumes the thread.
LEMMA ThreadResumeKeeps ==
    ASSUME IInv, NEW c \in Conns, ThreadResume(c)
    PROVE  IInv'
<1>1. PICK r : r = [loc["request"] EXCEPT !.conn = c]
  OBVIOUS
<1>2. pc' = [pc EXCEPT !["request"] = "find"] /\ loc' = [loc EXCEPT !["request"] = r]
  BY <1>1 DEF ThreadResume, Goto
<1>3. loc["request"] \in Locals
  BY Processes DEF IInv, ProcsOK
<1>4. r \in Locals /\ r.conn = c
  BY <1>1, <1>3, SetConn
<1>5. "find" \in Pcs /\ Ready("find", r)
  BY <1>4 DEF Pcs, Ready, StatePcs
<1>6. ProcsOK'
  <2>1. UNCHANGED <<todo, open>> /\ todo \subseteq Conns
    BY DEF ThreadResume, IInv, ProcsOK
  <2> QED BY <1>2, <1>4, <1>5, <2>1, Processes, Moves DEF IInv
<1>7. StateOK'
  BY DEF IInv, StateOK, ThreadResume, MayRun, stateVars, ClosedNotSubscribed
<1> QED BY <1>6, <1>7, Frame DEF IInv, ThreadResume, listenerVars

\* A client unsubscribes.
LEMMA ThreadUnsubscribeKeeps ==
    ASSUME IInv, NEW c \in Conns, ThreadUnsubscribe(c)
    PROVE  IInv'
<1>1. PICK r : r = [loc["request"] EXCEPT !.conn = c]
  OBVIOUS
<1>2. PICK next : next = IF loaded = 0 THEN "teardown" ELSE "unsubscribe"
  OBVIOUS
<1>3. pc' = [pc EXCEPT !["request"] = next] /\ loc' = [loc EXCEPT !["request"] = r]
  BY <1>1, <1>2 DEF ThreadUnsubscribe, Goto
<1>4. loc["request"] \in Locals
  BY Processes DEF IInv, ProcsOK
<1>5. r \in Locals
  BY <1>1, <1>4, SetConn
<1>6. next \in Pcs /\ Ready(next, r) /\ next # "remove_connection"
  BY <1>2 DEF Pcs, Ready, StatePcs, ResumePcs
<1>7. ProcsOK'
  <2>1. UNCHANGED <<todo, open>> /\ todo \subseteq Conns
    BY DEF ThreadUnsubscribe, IInv, ProcsOK
  <2> QED BY <1>3, <1>5, <1>6, <2>1, Processes, Moves DEF IInv
<1> QED BY <1>7, OnlyProcs DEF ThreadUnsubscribe

\* A client archives the thread.
LEMMA ThreadArchiveKeeps ==
    ASSUME IInv, NEW c \in Conns, ThreadArchive(c)
    PROVE  IInv'
<1>1. loc["request"] \in Locals /\ UNCHANGED <<todo, open>> /\ todo \subseteq Conns
  BY Processes DEF IInv, ProcsOK, ThreadArchive
<1>2. PICK next : next = IF loaded = 0 THEN "teardown" ELSE "shut_down"
  OBVIOUS
<1>3. PICK r : r = IF loaded = 0 THEN loc["request"] ELSE [loc["request"] EXCEPT !.thread = loaded]
  OBVIOUS
<1>4. pc' = [pc EXCEPT !["request"] = next]
  BY <1>2 DEF ThreadArchive, Goto
<1>5. loc' = [loc EXCEPT !["request"] = r]
  BY <1>3, Processes DEF ThreadArchive, IInv, ProcsOK
<1>6. r \in Locals
  BY <1>1, <1>3, SetThread DEF IInv, ThreadOK
<1>7. next \in Pcs /\ Ready(next, r) /\ next # "remove_connection"
  BY <1>2 DEF Pcs, Ready, StatePcs, ResumePcs
<1>8. ProcsOK'
  BY <1>1, <1>4, <1>5, <1>6, <1>7, Processes, Moves DEF IInv
<1>9. ThreadOK'
  BY DEF IInv, ThreadOK, ThreadArchive
<1> QED BY <1>8, <1>9, Frame DEF IInv, ThreadArchive, listenerVars

\* A connection is initialized.
LEMMA ConnectionInitializedKeeps ==
    ASSUME IInv, NEW c \in Conns, ConnectionInitialized(c)
    PROVE  IInv'
<1>1. ProcsOK'
  BY DEF IInv, ProcsOK, ConnectionInitialized, Ready
<1>2. StateOK'
  BY DEF IInv, StateOK, ConnectionInitialized, stateVars, ClosedNotSubscribed
<1> QED BY <1>1, <1>2, Frame DEF IInv, ConnectionInitialized, listenerVars

\* A connection is closed.
LEMMA ConnectionClosedKeeps ==
    ASSUME IInv, NEW c \in Conns, ConnectionClosed(c)
    PROVE  IInv'
<1>1. /\ pc' \in [Procs -> Pcs]
      /\ \A q \in Procs : pc'[q] = IF q = c THEN "remove_connection" ELSE pc[q]
  BY Processes DEF IInv, ProcsOK, ConnectionClosed, Goto, Pcs
<1>2. Ready("remove_connection", loc[c])
  BY DEF Ready, StatePcs, ResumePcs
<1>3. \A q \in Procs : Ready(pc'[q], loc[q])
  BY <1>1, <1>2 DEF IInv, ProcsOK
<1>4. open' = open \ {c} /\ UNCHANGED <<todo, loc>>
  BY DEF ConnectionClosed
<1>5. \A d \in Conns : pc'[d] = "remove_connection" => d \notin open'
  BY <1>1, <1>4, Processes DEF IInv, ProcsOK
<1>6. ProcsOK'
  BY <1>1, <1>3, <1>4, <1>5 DEF IInv, ProcsOK, Ready
<1>7. StateOK'
  BY DEF IInv, StateOK, ConnectionClosed, stateVars, ClosedNotSubscribed
<1> QED BY <1>6, <1>7, Frame DEF IInv, ConnectionClosed, listenerVars

\* The connection is no longer open, so that what is open stays there.
LEMMA RemoveConnectionKeeps ==
    ASSUME IInv, NEW c \in Conns, RemoveConnection(c)
    PROVE  IInv'
<1>1. PICK next : next = IF subs = {c} THEN "reconcile" ELSE "idle"
  OBVIOUS
<1>2. next \in Pcs /\ Ready(next, loc[c]) /\ next # "remove_connection"
  BY <1>1 DEF Pcs, Ready, StatePcs, ResumePcs
<1>3. Goto(c, next) /\ UNCHANGED <<loc, todo, open>> /\ todo \subseteq Conns
  BY <1>1 DEF RemoveConnection, IInv, ProcsOK
<1>4. ProcsOK'
  BY <1>2, <1>3, Processes, Goes DEF IInv
<1>5. c \notin open
  BY DEF IInv, ProcsOK, RemoveConnection
<1>6. /\ live' = live \ {c} /\ owed' = owed \ {c} /\ open' = open
      /\ live' \subseteq Conns /\ open' \subseteq live' /\ owed' \subseteq live'
  BY <1>5 DEF RemoveConnection, IInv, StateOK
<1>7. StateOK'
  <2>1. CASE entry = 0
    BY <1>6, <2>1 DEF RemoveConnection, RemoveSubscription, stateVars, IInv, StateOK, ClosedNotSubscribed
  <2>2. CASE entry # 0
    <3>1. entry \in Entries
      BY <2>2, BoundsAssumption DEF IInv, StateOK, Entries
    <3>2. /\ entry' = entry /\ subs' = subs \ {c}
          /\ watcher' = [watcher EXCEPT ![entry] = subs \ {c} # {}]
      BY <2>2 DEF RemoveConnection, RemoveSubscription, SetSubscribers
    <3>3. watcher' \in [Entries -> BOOLEAN] /\ watcher'[entry] = (subs \ {c} # {})
      BY <3>1, <3>2 DEF IInv, StateOK
    <3>4. subs' \subseteq live'
      BY <1>6, <3>2 DEF IInv, StateOK, ClosedNotSubscribed
    <3> QED BY <1>6, <2>2, <3>2, <3>3, <3>4 DEF IInv, StateOK, ClosedNotSubscribed
  <2> QED BY <2>1, <2>2
<1> QED BY <1>4, <1>7, Frame DEF IInv, RemoveConnection, listenerVars

\* The clean-up of the last subscriber looks whether the thread is loaded.
LEMMA ReconcileKeeps ==
    ASSUME IInv, NEW c \in Conns, Reconcile(c)
    PROVE  IInv'
<1>1. PICK next : next = IF loaded = 0 THEN "teardown" ELSE "idle"
  OBVIOUS
<1>2. next \in Pcs /\ Ready(next, loc[c]) /\ next # "remove_connection"
  BY <1>1 DEF Pcs, Ready, StatePcs, ResumePcs
<1>3. Goto(c, next) /\ UNCHANGED <<loc, todo, open>> /\ todo \subseteq Conns
  BY <1>1 DEF Reconcile, IInv, ProcsOK
<1>4. ProcsOK'
  BY <1>2, <1>3, Processes, Goes DEF IInv
<1> QED BY <1>4, OnlyProcs DEF Reconcile

\* The processor loop turns to the next connection to attach.
LEMMA AttachNextKeeps ==
    ASSUME IInv, NEW c \in Conns, AttachNext(c)
    PROVE  IInv'
<1>1. PICK r : r = [loc["loop"] EXCEPT !.conn = c]
  OBVIOUS
<1>2. pc' = [pc EXCEPT !["loop"] = "attach"] /\ loc' = [loc EXCEPT !["loop"] = r]
  BY <1>1 DEF AttachNext, Goto
<1>3. loc["loop"] \in Locals
  BY Processes DEF IInv, ProcsOK
<1>4. r \in Locals
  BY <1>1, <1>3, SetConn
<1>5. "attach" \in Pcs /\ Ready("attach", r)
  BY DEF Pcs, Ready, StatePcs, ResumePcs
<1>6. todo' \subseteq Conns /\ UNCHANGED open
  BY DEF AttachNext, IInv, ProcsOK
<1>7. ProcsOK'
  BY <1>2, <1>4, <1>5, <1>6, Processes, Moves DEF IInv
<1> QED BY <1>7, OnlyProcs DEF AttachNext

\* core has created the thread.
LEMMA ThreadCreatedKeeps == IInv /\ ThreadCreated => IInv'
<1> SUFFICES ASSUME IInv, ThreadCreated PROVE IInv'
  OBVIOUS
<1>1. ThreadOK'
  BY DEF IInv, ThreadOK, ThreadCreated
<1>2. ProcsOK'
  BY DEF IInv, ProcsOK, ThreadCreated, StateOK, Ready
<1> QED BY <1>1, <1>2, Frame DEF IInv, ThreadCreated, listenerVars

-----------------------------------------------------------------------------
(***************************************************************************)
(* Resuming and attaching.                                                 *)
(***************************************************************************)

\* A process of the model and its locals.
LEMMA ProcFacts ==
    ASSUME IInv, NEW p \in Procs
    PROVE  loc[p] \in Locals /\ Ready(pc[p], loc[p]) /\ todo \subseteq Conns
BY DEF IInv, ProcsOK

\* The request is answered.
LEMMA RespondKeeps == IInv /\ Respond => IInv'
<1> SUFFICES ASSUME IInv, Respond PROVE IInv'
  OBVIOUS
<1>1. ProcsOK'
  BY Processes, Returns DEF IInv, Respond
<1>2. StateOK'
  BY DEF IInv, StateOK, Respond, stateVars, ClosedNotSubscribed
<1> QED BY <1>1, <1>2, Frame DEF IInv, Respond, listenerVars

\* The thread is looked up.
LEMMA FindKeeps == IInv /\ Find => IInv'
<1> SUFFICES ASSUME IInv, Find PROVE IInv'
  OBVIOUS
<1>1. PICK next : next = IF loaded # 0 THEN "state" ELSE "load"
  OBVIOUS
<1>2. PICK r : r = [loc["request"] EXCEPT !.thread = loaded]
  OBVIOUS
<1>3. pc' = [pc EXCEPT !["request"] = next] /\ loc' = [loc EXCEPT !["request"] = r]
  BY <1>1, <1>2 DEF Find, Goto
<1>4. loc["request"] \in Locals /\ loc["request"].conn \in Conns /\ todo \subseteq Conns
  BY Processes, ProcFacts DEF Find, Ready, ResumePcs
<1>5. r \in Locals /\ r.conn \in Conns
  BY <1>2, <1>4, SetThread DEF IInv, ThreadOK
<1>6. next \in Pcs /\ Ready(next, r) /\ next # "remove_connection"
  BY <1>1, <1>5 DEF Pcs, Ready, StatePcs, ResumePcs
<1>7. UNCHANGED <<todo, open>>
  BY DEF Find
<1>8. ProcsOK'
  BY <1>3, <1>4, <1>5, <1>6, <1>7, Processes, Moves DEF IInv
<1> QED BY <1>8, OnlyProcs DEF Find

\* The thread's state is fetched, or created.
LEMMA GetStateKeeps == IInv /\ GetState => IInv'
<1> SUFFICES ASSUME IInv, GetState PROVE IInv'
  OBVIOUS
<1>1. EntryOrDefault \in Entries /\ EntryOrDefault # 0 /\ EntryOrDefault \in 0..MaxEntries
  BY EntryFound DEF IInv, GetState
<1>2. PICK r : r = [loc["request"] EXCEPT !.state = EntryOrDefault]
  OBVIOUS
<1>3. pc' = [pc EXCEPT !["request"] = "watch"] /\ loc' = [loc EXCEPT !["request"] = r]
  BY <1>2 DEF GetState, Goto
<1>4. loc["request"] \in Locals /\ loc["request"].conn \in Conns /\ todo \subseteq Conns
  BY Processes, ProcFacts DEF GetState, Ready, ResumePcs
<1>5. r \in Locals /\ r.conn \in Conns /\ r.state # 0
  BY <1>1, <1>2, <1>4, SetState
<1>6. "watch" \in Pcs /\ Ready("watch", r)
  BY <1>5 DEF Pcs, Ready
<1>7. UNCHANGED <<todo, open, live, owed>>
  BY DEF GetState
<1>8. ProcsOK'
  BY <1>3, <1>4, <1>5, <1>6, <1>7, Processes, Moves DEF IInv
<1>9. StateOK'
  <2>1. subs \in SUBSET live
    BY DEF IInv, StateOK, ClosedNotSubscribed
  <2>2. SetSubscribers(EntryOrDefault, subs) /\ owed' \subseteq owed
    BY <1>7 DEF GetState
  <2> QED BY <1>1, <1>7, <2>1, <2>2, SubscribersSet DEF IInv
<1> QED BY <1>8, <1>9, Frame DEF IInv, GetState, listenerVars

\* A client lists the turns; the state is created.
LEMMA ThreadTurnsListKeeps ==
    ASSUME IInv, NEW c \in Conns, ThreadTurnsList(c)
    PROVE  IInv'
<1>1. EntryOrDefault \in Entries
  BY EntryFound DEF IInv, ThreadTurnsList
<1>2. UNCHANGED <<live, owed, open>>
  BY DEF ThreadTurnsList
<1>3. StateOK'
  <2>1. subs \in SUBSET live
    BY DEF IInv, StateOK, ClosedNotSubscribed
  <2>2. SetSubscribers(EntryOrDefault, subs) /\ owed' \subseteq owed
    BY <1>2 DEF ThreadTurnsList
  <2> QED BY <1>1, <1>2, <2>1, <2>2, SubscribersSet DEF IInv
<1> QED BY <1>3, Frame DEF IInv, ThreadTurnsList, listenerVars

\* The watch step, from either place.
LEMMA WatchKeeps ==
    ASSUME IInv, NEW p \in Procs, NEW next \in Pcs, NEW onError \in Pcs, Watch(p, next, onError),
           next # "remove_connection", onError # "remove_connection",
           Ready(onError, loc[p]), next \in StatePcs, loc[p].state # 0, next # "send",
           next \in ResumePcs => loc[p].conn \in Conns
    PROVE  IInv'
<1>1. UNCHANGED <<todo, open>> /\ todo \subseteq Conns /\ loc[p] \in Locals
  BY ProcFacts DEF Watch
<1>2. CASE entry = 0
  <2>1. ProcsOK'
    BY <1>1, <1>2, Goes DEF IInv, Watch
  <2> QED BY <2>1, OnlyProcs DEF Watch
<1>3. CASE entry # 0
  <2>1. PICK r : r = [loc[p] EXCEPT !.watch = entry]
    OBVIOUS
  <2>2. pc' = [pc EXCEPT ![p] = next] /\ loc' = [loc EXCEPT ![p] = r]
    BY <1>3, <2>1 DEF Watch, Goto
  <2>3. r \in Locals /\ r.state = loc[p].state /\ r.conn = loc[p].conn
    BY <1>1, <2>1, SetWatch DEF IInv, StateOK
  <2>4. Ready(next, r)
    BY <2>3 DEF Ready
  <2>5. ProcsOK'
    BY <1>1, <2>2, <2>3, <2>4, Moves DEF IInv
  <2> QED BY <2>5, OnlyProcs DEF Watch
<1> QED BY <1>2, <1>3

\* The step that starts the listener, from either place.
LEMMA ListenKeeps ==
    ASSUME IInv, NEW p \in Procs, NEW next \in {"answer", "tx"}, Listen(p, next),
           loc[p].state # 0, next = "tx" => loc[p].conn \in Conns
    PROVE  IInv'
<1>1. UNCHANGED <<todo, open>> /\ todo \subseteq Conns /\ loc[p] \in Locals
  BY ProcFacts DEF Listen
<1>2. ListenersOK' /\ UnloadOK'
  BY <1>1, ListenStarts DEF IInv
<1>3. PICK own : own = IF ListenerMatches(loc[p].state, loc[p].thread) THEN 0
                       ELSE AnyOf(FreeListeners)
  OBVIOUS
<1>4. own \in 0..MaxListeners
  BY <1>3, ListenerFound, Zero DEF Listen
<1>5. PICK r : r = [loc[p] EXCEPT !.thread = 0, !.watch = 0, !.own = own]
  OBVIOUS
<1>6. pc' = [pc EXCEPT ![p] = next] /\ loc' = [loc EXCEPT ![p] = r]
  <2>1. pc' = [pc EXCEPT ![p] = next]
    BY DEF Listen, Goto
  <2>2. loc' = [loc EXCEPT ![p].thread = 0, ![p].watch = 0, ![p].own = own]
    BY <1>3 DEF Listen
  <2>3. loc' = [loc EXCEPT ![p] = r]
    BY <1>5, <2>2 DEF IInv, ProcsOK
  <2> QED BY <2>1, <2>3
<1>7. r \in Locals /\ r.state = loc[p].state /\ r.conn = loc[p].conn
  BY <1>1, <1>4, <1>5, SetOwn
<1>8. next \in Pcs /\ Ready(next, r) /\ next # "remove_connection"
  BY <1>7 DEF Pcs, Ready, StatePcs, ResumePcs
<1>9. ProcsOK'
  BY <1>1, <1>6, <1>7, <1>8, Moves DEF IInv
<1> QED BY <1>2, <1>9, Frame DEF IInv, Listen

\* The channel of the listener is fetched.
LEMMA GetCommandTxKeeps == IInv /\ GetCommandTx => IInv'
<1> SUFFICES ASSUME IInv, GetCommandTx PROVE IInv'
  OBVIOUS
<1>1. /\ loc["request"] \in Locals /\ loc["request"].conn \in Conns
      /\ loc["request"].state # 0 /\ todo \subseteq Conns
  BY Processes, ProcFacts DEF GetCommandTx, Ready, ResumePcs, StatePcs
<1>2. loc["request"].state \in Entries
  BY <1>1, Fields, BoundsAssumption DEF Entries
<1>3. PICK l : l = current[loc["request"].state]
  OBVIOUS
<1>4. l \in 0..MaxListeners
  BY <1>2, <1>3 DEF IInv, ListenersOK
<1>5. PICK next : next = IF l = 0 THEN "answer" ELSE "send"
  OBVIOUS
<1>6. PICK r : r = [loc["request"] EXCEPT !.tx = l, !.state = 0]
  OBVIOUS
<1>7. pc' = [pc EXCEPT !["request"] = next]
  BY <1>3, <1>5 DEF GetCommandTx, Goto
<1>8. loc' = [loc EXCEPT !["request"] = r]
  <2>1. loc' = [loc EXCEPT !["request"].tx = l, !["request"].state = 0]
    BY <1>3 DEF GetCommandTx
  <2> QED BY <1>6, <2>1, Processes DEF IInv, ProcsOK
<1>9. r \in Locals /\ r.tx = l /\ r.conn \in Conns
  BY <1>1, <1>4, <1>6, SetTx
<1>10. next \in Pcs /\ Ready(next, r) /\ next # "remove_connection"
  BY <1>5, <1>9 DEF Pcs, Ready, StatePcs, ResumePcs
<1>11. UNCHANGED <<todo, open>>
  BY DEF GetCommandTx
<1>12. ProcsOK'
  BY <1>1, <1>7, <1>8, <1>9, <1>10, <1>11, Processes, Moves DEF IInv
<1> QED BY <1>12, OnlyProcs DEF GetCommandTx

\* The resume is sent to the listener.
LEMMA SendCommandKeeps == IInv /\ SendCommand => IInv'
<1> SUFFICES ASSUME IInv, SendCommand PROVE IInv'
  OBVIOUS
<1>1. PICK l : l = loc["request"].tx
  OBVIOUS
<1>2. CASE listener[l] = "none"
  BY <1>1, <1>2, RespondKeeps DEF SendCommand
<1>3. CASE listener[l] # "none"
  <2>1. l \in 0..MaxListeners /\ l # 0 /\ loc["request"].conn \in Conns
    BY <1>1, Processes, ProcFacts, Fields DEF SendCommand, Ready, ResumePcs
  <2>2. l \in Listeners
    BY <2>1, BoundsAssumption DEF Listeners
  <2>3. PICK cs : cs = commands[l] \cup {loc["request"].conn}
    OBVIOUS
  <2>4. cs \in SUBSET Conns
    BY <2>1, <2>2, <2>3 DEF IInv, ListenersOK
  <2>5. /\ commands' = [commands EXCEPT ![l] = cs]
        /\ Return("request")
        /\ UNCHANGED <<threadVars, stateVars, live, open, pending_thread_unloads,
                       current, listener, serves, cancelled, unload, todo, owed>>
    BY <1>1, <1>3, <2>3 DEF SendCommand
  <2>6. ListenersOK'
    BY <2>2, <2>4, <2>5, CommandsSet DEF IInv
  <2>7. ProcsOK'
    BY <2>5, Processes, Returns DEF IInv
  <2> QED BY <2>5, <2>6, <2>7, Frame DEF IInv
<1> QED BY <1>2, <1>3

\* A cold thread is loaded.
LEMMA LoadKeeps == IInv /\ Load => IInv'
<1> SUFFICES ASSUME IInv, Load PROVE IInv'
  OBVIOUS
<1>1. AnyOf(FreeLoads) \in FreeLoads
  BY DEF Load, AnyOf
<1>2. AnyOf(FreeLoads) \in Loads
  <2>1. FreeLoads \subseteq 1..MaxLoads[kind] /\ kind \in Kinds
    BY DEF FreeLoads, IInv, ThreadOK
  <2>2. 1..MaxLoads[kind] \subseteq Loads
    BY <2>1 DEF Loads
  <2> QED BY <1>1, <2>1, <2>2
<1>3. ThreadOK'
  BY <1>2 DEF IInv, ThreadOK, Load
<1>4. "attach" \in Pcs /\ Ready("attach", loc["request"])
  BY DEF Pcs, Ready, StatePcs, ResumePcs
<1>5. Goto("request", "attach") /\ UNCHANGED <<loc, todo, open>> /\ todo \subseteq Conns
  BY DEF Load, IInv, ProcsOK
<1>6. ProcsOK'
  BY <1>4, <1>5, Processes, Goes DEF IInv
<1> QED BY <1>3, <1>6, Frame DEF IInv, Load, listenerVars

\* The listener is attached.
LEMMA AttachStepKeeps ==
    ASSUME IInv, NEW p \in Procs, AttachStep(p)
    PROVE  IInv'
<1>0. loc[p] \in Locals /\ Ready(pc[p], loc[p]) /\ todo \subseteq Conns
  BY ProcFacts
<1>1. CASE Attach(p)
  <2>1. UNCHANGED <<todo, open>>
    BY <1>1 DEF Attach
  <2>2. CASE loaded = 0
    <3>1. "answer" \in Pcs /\ Ready("answer", loc[p])
      BY DEF Pcs, Ready, StatePcs, ResumePcs
    <3>2. Goto(p, "answer") /\ UNCHANGED loc
      BY <1>1, <2>2 DEF Attach
    <3>3. ProcsOK'
      BY <1>0, <2>1, <3>1, <3>2, Goes DEF IInv
    <3> QED BY <1>1, <3>3, OnlyProcs DEF Attach
  <2>3. CASE loaded # 0
    <3>1. PICK r : r = [loc[p] EXCEPT !.thread = loaded]
      OBVIOUS
    <3>2. pc' = [pc EXCEPT ![p] = "subscribe"] /\ loc' = [loc EXCEPT ![p] = r]
      BY <1>1, <2>3, <3>1 DEF Attach, Goto
    <3>3. r \in Locals
      BY <1>0, <3>1, SetThread DEF IInv, ThreadOK
    <3>4. "subscribe" \in Pcs /\ Ready("subscribe", r)
      BY DEF Pcs, Ready, StatePcs, ResumePcs
    <3>5. ProcsOK'
      BY <1>0, <2>1, <3>2, <3>3, <3>4, Moves DEF IInv
    <3> QED BY <1>1, <3>5, OnlyProcs DEF Attach
  <2> QED BY <2>2, <2>3
<1>2. CASE Subscribe(p)
  <2>1. UNCHANGED <<threadVars, live, open, pending_thread_unloads, listenerVars, unload, todo,
                    owed>>
    BY <1>2 DEF Subscribe
  <2>2. CASE pending_thread_unloads \/ loc[p].conn \notin live
    <3>1. "answer" \in Pcs /\ Ready("answer", loc[p])
      BY DEF Pcs, Ready, StatePcs, ResumePcs
    <3>2. Goto(p, "answer") /\ UNCHANGED <<stateVars, loc>>
      BY <1>2, <2>2 DEF Subscribe
    <3>3. ProcsOK'
      BY <1>0, <2>1, <3>1, <3>2, Goes DEF IInv
    <3> QED BY <2>1, <3>2, <3>3, OnlyProcs
  <2>3. CASE ~(pending_thread_unloads \/ loc[p].conn \notin live)
    <3>1. AddConnection(loc[p].conn) /\ RoomForEntry /\ loc[p].conn \in live
      BY <1>2, <2>3 DEF Subscribe
    <3>2. StateOK'
      BY <2>1, <3>1, ConnectionAdded DEF IInv
    <3>3. EntryOrDefault # 0 /\ EntryOrDefault \in 0..MaxEntries
      BY <3>1, EntryFound DEF IInv
    <3>4. PICK r : r = [loc[p] EXCEPT !.state = EntryOrDefault]
      OBVIOUS
    <3>5. pc' = [pc EXCEPT ![p] = "attach_watch"] /\ loc' = [loc EXCEPT ![p] = r]
      BY <1>2, <2>3, <3>4 DEF Subscribe, Goto
    <3>6. r \in Locals /\ r.state # 0
      BY <1>0, <3>3, <3>4, SetState
    <3>7. "attach_watch" \in Pcs /\ Ready("attach_watch", r)
      BY <3>6 DEF Pcs, Ready, ResumePcs
    <3>8. ProcsOK'
      BY <1>0, <2>1, <3>5, <3>6, <3>7, Moves DEF IInv
    <3> QED BY <2>1, <3>2, <3>8, Frame DEF IInv, listenerVars
  <2> QED BY <2>2, <2>3
<1>3. CASE AttachWatch(p)
  <2>1. loc[p].state # 0
    BY <1>0, <1>3 DEF AttachWatch, Ready, StatePcs
  <2>2. Watch(p, "attach_listen", "attach_failed")
    BY <1>3 DEF AttachWatch
  <2>3. /\ "attach_listen" \in Pcs /\ "attach_failed" \in Pcs /\ "attach_listen" \in StatePcs
        /\ "attach_listen" \notin ResumePcs /\ Ready("attach_failed", loc[p])
    BY DEF Pcs, StatePcs, ResumePcs, Ready
  <2> QED BY <2>1, <2>2, <2>3, WatchKeeps
<1>4. CASE AttachListen(p)
  <2>1. loc[p].state # 0
    BY <1>0, <1>4 DEF AttachListen, Ready, StatePcs
  <2> QED BY <1>4, <2>1, ListenKeeps DEF AttachListen
<1>5. CASE AttachFailed(p)
  <2>1. "answer" \in Pcs /\ Ready("answer", loc[p])
    BY DEF Pcs, Ready, StatePcs, ResumePcs
  <2>2. UNCHANGED <<todo, open, loc>> /\ Goto(p, "answer")
    BY <1>5 DEF AttachFailed
  <2>3. ProcsOK'
    BY <1>0, <2>1, <2>2, Goes DEF IInv
  <2>4. StateOK'
    BY <1>5, SubscriptionRemoved DEF IInv, AttachFailed
  <2> QED BY <1>5, <2>3, <2>4, Frame DEF IInv, AttachFailed, listenerVars
<1> QED BY <1>1, <1>2, <1>3, <1>4, <1>5 DEF AttachStep

\* The steps of a resume together.
LEMMA ResumeStepKeeps == IInv /\ ResumeStep => IInv'
<1> SUFFICES ASSUME IInv, ResumeStep PROVE IInv'
  OBVIOUS
<1>0. loc["request"] \in Locals /\ Ready(pc["request"], loc["request"])
  BY Processes, ProcFacts
<1>1. CASE ResumeAnswered
  BY <1>1, RespondKeeps DEF ResumeAnswered
<1>2. CASE WatchRunning
  <2>1. loc["request"].state # 0 /\ loc["request"].conn \in Conns
    BY <1>0, <1>2 DEF WatchRunning, Ready, StatePcs, ResumePcs
  <2>2. Watch("request", "listen", "answer")
    BY <1>2 DEF WatchRunning
  <2>3. /\ "listen" \in Pcs /\ "answer" \in Pcs /\ "listen" \in StatePcs
        /\ Ready("answer", loc["request"])
    BY DEF Pcs, StatePcs, ResumePcs, Ready
  <2> QED BY <2>1, <2>2, <2>3, Processes, WatchKeeps
<1>3. CASE ListenRunning
  <2>1. loc["request"].state # 0 /\ loc["request"].conn \in Conns
    BY <1>0, <1>3 DEF ListenRunning, Ready, StatePcs, ResumePcs
  <2> QED BY <1>3, <2>1, Processes, ListenKeeps DEF ListenRunning
<1>4. CASE Find \/ GetState \/ GetCommandTx \/ SendCommand \/ Load
  BY <1>4, FindKeeps, GetStateKeeps, GetCommandTxKeeps, SendCommandKeeps, LoadKeeps
<1>5. CASE AttachStep("request")
  BY <1>5, Processes, AttachStepKeeps
<1> QED BY <1>1, <1>2, <1>3, <1>4, <1>5 DEF ResumeStep

-----------------------------------------------------------------------------
(***************************************************************************)
(* Unsubscribing, tearing down and unloading.                              *)
(***************************************************************************)
LEMMA UnsubscribeKeeps == IInv /\ Unsubscribe => IInv'
<1> SUFFICES ASSUME IInv, Unsubscribe PROVE IInv'
  OBVIOUS
<1>1. ProcsOK'
  BY Processes, Returns DEF IInv, Unsubscribe
<1>2. StateOK'
  BY SubscriptionRemoved DEF IInv, Unsubscribe
<1> QED BY <1>1, <1>2, Frame DEF IInv, Unsubscribe, listenerVars

\* An archive has waited for the session to end.
LEMMA ArchiveWaitedKeeps == IInv /\ ArchiveWaited => IInv'
<1> SUFFICES ASSUME IInv, ArchiveWaited PROVE IInv'
  OBVIOUS
<1>1. "teardown" \in Pcs /\ Ready("teardown", loc["request"])
  BY DEF Pcs, Ready, StatePcs, ResumePcs
<1>2. Goto("request", "teardown") /\ UNCHANGED <<loc, todo, open>> /\ todo \subseteq Conns
  BY DEF ArchiveWaited, IInv, ProcsOK
<1>3. ProcsOK'
  BY <1>1, <1>2, Processes, Goes DEF IInv
<1> QED BY <1>3, OnlyProcs DEF ArchiveWaited

\* The processor loop has attached a connection.
LEMMA AttachedKeeps == IInv /\ Attached => IInv'
<1> SUFFICES ASSUME IInv, Attached PROVE IInv'
  OBVIOUS
<1>1. ProcsOK'
  BY Processes, Returns DEF IInv, Attached
<1> QED BY <1>1, OnlyProcs DEF Attached

\* A thread that is gone is torn down, step by step.
LEMMA TeardownStepKeeps ==
    ASSUME IInv, NEW p \in Procs, TeardownStep(p)
    PROVE  IInv'
<1>0. loc[p] \in Locals /\ Ready(pc[p], loc[p]) /\ todo \subseteq Conns
  BY ProcFacts
<1>1. CASE Teardown(p)
  <2>1. "remove_state" \in Pcs /\ Ready("remove_state", loc[p])
    BY DEF Pcs, Ready, StatePcs, ResumePcs
  <2>2. Goto(p, "remove_state") /\ UNCHANGED <<loc, todo, open>>
    BY <1>1 DEF Teardown
  <2>3. ProcsOK'
    BY <1>0, <2>1, <2>2, Goes DEF IInv
  <2>4. UnloadOK'
    <3>1. pending_thread_unloads' = FALSE /\ unload' = unload
      BY <1>1 DEF Teardown
    <3> QED BY <3>1 DEF IInv, UnloadOK, ClosingOwned
  <2> QED BY <1>1, <2>3, <2>4, Frame DEF IInv, Teardown
<1>2. CASE RemoveState(p)
  <2>1. StateOK'
    BY <1>2, EntryRemoved DEF IInv, RemoveState
  <2>2. UNCHANGED <<todo, open>>
    BY <1>2 DEF RemoveState
  <2>3. ProcsOK'
    <3>1. CASE entry = 0
      BY <1>2, <2>2, <3>1, Returns DEF IInv, RemoveState
    <3>2. CASE entry # 0
      <4>1. PICK r : r = [loc[p] EXCEPT !.state = entry]
        OBVIOUS
      <4>2. pc' = [pc EXCEPT ![p] = "clear_state"] /\ loc' = [loc EXCEPT ![p] = r]
        BY <1>2, <3>2, <4>1 DEF RemoveState, Goto
      <4>3. r \in Locals /\ r.state # 0
        BY <1>0, <3>2, <4>1, SetState DEF IInv, StateOK
      <4>4. "clear_state" \in Pcs /\ Ready("clear_state", r)
        BY <4>3 DEF Pcs, Ready, ResumePcs
      <4> QED BY <1>0, <2>2, <4>2, <4>3, <4>4, Moves DEF IInv
    <3> QED BY <3>1, <3>2
  <2> QED BY <1>2, <2>1, <2>3, Frame DEF IInv, RemoveState, listenerVars
<1>3. CASE ClearState(p)
  <2>1. loc[p].state # 0
    BY <1>0, <1>3 DEF ClearState, Ready, StatePcs
  <2>2. loc[p].state \in Entries
    BY <1>0, <2>1, Fields, BoundsAssumption DEF Entries
  <2>3. ListenersOK'
    BY <1>3, <2>2, ListenerCleared DEF IInv, ClearState
  <2>4. ProcsOK'
    BY <1>3, Returns DEF IInv, ClearState
  <2> QED BY <1>3, <2>3, <2>4, Frame DEF IInv, ClearState
<1> QED BY <1>1, <1>2, <1>3 DEF TeardownStep

\* A command is taken from the channel, and its client is subscribed or not.
LEMMA CommandKeeps ==
    ASSUME IInv, NEW l \in Listeners, NEW c \in Conns, HandleCommand(l, c) \/ CommandFails(l, c)
    PROVE  IInv'
<1>1. PICK cs : cs = commands[l] \ {c}
  OBVIOUS
<1>2. cs \in SUBSET Conns
  BY <1>1 DEF IInv, ListenersOK
<1>3. /\ commands' = [commands EXCEPT ![l] = cs]
      /\ owed' = owed \ {c}
      /\ UNCHANGED <<threadVars, live, open, pending_thread_unloads, current, listener, serves,
                     cancelled, unload, todo, pc, loc>>
  BY <1>1 DEF HandleCommand, CommandFails
<1>4. ListenersOK'
  BY <1>2, <1>3, CommandsSet DEF IInv
<1>5. StateOK'
  <2>1. CASE UNCHANGED stateVars
    BY <1>3, <2>1 DEF IInv, StateOK, stateVars, ClosedNotSubscribed
  <2>2. CASE RoomForEntry /\ c \in live /\ AddConnection(c)
    <3>1. owed' \subseteq owed
      BY <1>3
    <3> QED BY <1>3, <2>2, <3>1, ConnectionAdded DEF IInv
  <2> QED BY <2>1, <2>2 DEF HandleCommand, CommandFails
<1> QED BY <1>3, <1>4, <1>5, Frame DEF IInv

\* What a listener's step leaves to the others.
LEMMA OnlyListeners ==
    ASSUME IInv, StateOK', ListenersOK', UnloadOK', UNCHANGED <<threadVars, open, todo, pc, loc>>
    PROVE  IInv'
BY Frame DEF IInv

\* A listener looks whether to unload its thread, and goes on or leaves its loop.
LEMMA DecidingSteps ==
    ASSUME IInv, NEW l \in Listeners, UnloadTriggered(l) \/ CheckUnload(l) \/ ListenerBreaks(l)
    PROVE  IInv'
<1>1. /\ serves \in [Listeners -> Services]
      /\ \A k \in Listeners : listener[k] \in {"none", "select", "check", "unload", "clear", "exit"}
      /\ unload \in [Listeners -> {"no", "shut_down", "finish"}]
  BY DEF IInv, ListenersOK, UnloadOK
<1>2. UNCHANGED <<threadVars, stateVars, live, open, current, serves, cancelled, commands, unload,
                  todo, pc, loc, owed>>
  BY DEF UnloadTriggered, CheckUnload, ListenerBreaks
<1>3. PICK next \in {"select", "check", "unload", "exit"} :
        /\ ListenerGoto(l, next)
        /\ listener[l] \in {"select", "check"}
        /\ \/ UNCHANGED pending_thread_unloads
           \/ next = "unload" /\ pending_thread_unloads' = TRUE
  BY DEF UnloadTriggered, CheckUnload, ListenerBreaks
<1>4. ListenersOK'
  BY <1>1, <1>2, <1>3, ListenerGoes DEF IInv
<1>5. \A k \in Listeners : listener'[k] = IF k = l THEN next ELSE listener[k]
  BY <1>3 DEF ListenerGoto, IInv, ListenersOK
<1>6. UnloadOK'
  <2>1. CASE UNCHANGED pending_thread_unloads
    <3>1. \A k \in Listeners : listener[k] \in {"unload", "clear"} => listener'[k] = listener[k]
      BY <1>3, <1>5
    <3> QED BY <1>1, <1>2, <2>1, <3>1, StillOwned DEF IInv
  <2>2. CASE next = "unload" /\ pending_thread_unloads' = TRUE
    <3>1. ClosingOwned'
      BY <1>5, <2>2 DEF ClosingOwned
    <3> QED BY <1>1, <1>2, <2>2, <3>1 DEF UnloadOK
  <2> QED BY <1>3, <2>1, <2>2
<1>7. StateOK'
  BY <1>2, Frame DEF IInv
<1> QED BY <1>2, <1>4, <1>6, <1>7, OnlyListeners

\* An unload removes the entry that has the id now.
LEMMA UnloadRemovesEntryKeeps ==
    ASSUME IInv, NEW l \in Listeners, UnloadRemovesEntry(l)
    PROVE  IInv'
<1>1. PICK r : r = [serves[l] EXCEPT !.watch = entry]
  OBVIOUS
<1>2. serves[l] \in Services /\ entry \in 0..MaxEntries
  BY DEF IInv, ListenersOK, StateOK
<1>3. r \in Services /\ r.state = serves[l].state
  BY <1>1, <1>2 DEF Services
<1>4. serves' = [serves EXCEPT ![l] = r]
  BY <1>1 DEF UnloadRemovesEntry
<1>5. serves' \in [Listeners -> Services] /\ \A k \in Listeners : serves'[k].state = serves[k].state
  BY <1>3, <1>4 DEF IInv, ListenersOK
<1>6. /\ UNCHANGED <<threadVars, live, open, pending_thread_unloads, current, cancelled, commands,
                     unload, todo, pc, loc, owed>>
      /\ ListenerGoto(l, "clear") /\ listener[l] = "unload"
  BY DEF UnloadRemovesEntry
<1>7. ListenersOK'
  BY <1>5, <1>6, ListenerGoes DEF IInv
<1>8. UnloadOK'
  <2>1. \A k \in Listeners : listener[k] \in {"unload", "clear"} => listener'[k] \in {"unload", "clear"}
    BY <1>6 DEF ListenerGoto, IInv, ListenersOK
  <2>2. unload \in [Listeners -> {"no", "shut_down", "finish"}]
    BY DEF IInv, UnloadOK
  <2> QED BY <1>6, <2>1, <2>2, StillOwned DEF IInv
<1>9. StateOK'
  BY <1>6, EntryRemoved DEF IInv, UnloadRemovesEntry
<1> QED BY <1>6, <1>7, <1>8, <1>9, OnlyListeners

\* The listener is about to leave, and its unload task takes over.
LEMMA UnloadSpawnsKeeps ==
    ASSUME IInv, NEW l \in Listeners, UnloadSpawns(l)
    PROVE  IInv'
<1>1. PICK e : e = serves[l].watch
  OBVIOUS
<1>2. e \in 0..MaxEntries
  BY <1>1 DEF IInv, ListenersOK, Services
<1>3. /\ UNCHANGED <<threadVars, stateVars, live, open, pending_thread_unloads, serves, commands,
                     todo, pc, loc, owed>>
      /\ ListenerGoto(l, "exit") /\ listener[l] = "clear"
      /\ unload' = [unload EXCEPT ![l] = "shut_down"]
      /\ IF e = 0 THEN UNCHANGED <<current, cancelled>> ELSE ClearListener(e)
  BY <1>1 DEF UnloadSpawns
<1>4. /\ listener' \in [Listeners -> {"none", "select", "check", "unload", "clear", "exit"}]
      /\ \A k \in Listeners : listener'[k] = IF k = l THEN "exit" ELSE listener[k]
  BY <1>3 DEF ListenerGoto, IInv, ListenersOK
<1>5. ListenersOK'
  <2>1. serves \in [Listeners -> Services]
    BY DEF IInv, ListenersOK
  <2>2. CASE e = 0
    BY <1>3, <2>1, <2>2, ListenerGoes DEF IInv
  <2>3. CASE e # 0
    <3>1. e \in Entries
      BY <1>2, <2>3, BoundsAssumption DEF Entries
    <3>2. /\ current' \in [Entries -> 0..MaxListeners]
          /\ \A f \in Entries : current'[f] = IF f = e THEN 0 ELSE current[f]
      BY <1>3, <2>3, Zero DEF IInv, ListenersOK, ClearListener
    <3>3. cancelled' \subseteq Listeners /\ cancelled' = cancelled \cup ({current[e]} \ {0})
      BY <1>3, <2>3, <3>1, NamedListener DEF IInv, ListenersOK, ClearListener
    <3>4. \A f \in Entries : current[f] # 0 => current[f] \in Listeners
      BY NamedListener DEF IInv
    <3>5. Serving'
      <4> SUFFICES ASSUME NEW k \in Listeners, listener'[k] # "none"
                   PROVE  /\ serves[k].state # 0
                          /\ listener'[k] \in {"select", "check"} /\ k \notin cancelled' =>
                               current'[serves[k].state] = k
        BY <1>3 DEF Serving
      <4>1. listener[k] # "none" /\ (k # l => listener'[k] = listener[k]) /\ listener'[l] = "exit"
        BY <1>3, <1>4
      <4>2. serves[k].state # 0 /\ serves[k].state \in 0..MaxEntries
        BY <4>1 DEF IInv, ListenersOK, Serving, Services
      <4>3. serves[k].state \in Entries
        BY <4>2, BoundsAssumption DEF Entries
      <4>4. ASSUME listener'[k] \in {"select", "check"}, k \notin cancelled'
            PROVE  current'[serves[k].state] = k
        <5>1. k # l /\ k \notin cancelled /\ k # 0 /\ k # current[e]
          BY <3>3, <4>1, <4>4, BoundsAssumption DEF Listeners
        <5>2. current[serves[k].state] = k
          BY <4>1, <4>4, <5>1 DEF IInv, ListenersOK, Serving
        <5> QED BY <3>2, <4>3, <5>1, <5>2
      <4> QED BY <4>2, <4>4
    <3>6. \A f \in Entries : current'[f] # 0 => /\ serves[current'[f]].state = f
                                               /\ listener'[current'[f]] # "none"
      BY <1>4, <3>2, <3>4 DEF IInv, ListenersOK
    <3> QED BY <1>3, <1>4, <3>2, <3>3, <3>5, <3>6 DEF IInv, ListenersOK
  <2> QED BY <2>2, <2>3
<1>6. UnloadOK'
  <2>1. unload' \in [Listeners -> {"no", "shut_down", "finish"}]
    BY <1>3 DEF IInv, UnloadOK
  <2>2. \A k \in Listeners : listener[k] \in {"unload", "clear"} \/ unload[k] # "no" =>
          listener'[k] \in {"unload", "clear"} \/ unload'[k] # "no"
    BY <1>3, <1>4 DEF IInv, UnloadOK
  <2> QED BY <1>3, <2>1, <2>2, StillOwned DEF IInv
<1>7. StateOK'
  BY <1>3, Frame DEF IInv
<1> QED BY <1>3, <1>5, <1>6, <1>7, OnlyListeners

\* A listener exits, and an unload task shuts the thread down and finishes.
LEMMA EndingSteps ==
    ASSUME IInv, NEW l \in Listeners, ListenerExits(l) \/ UnloadShutDown(l) \/ UnloadFinished(l)
    PROVE  IInv'
<1>0. /\ unload \in [Listeners -> {"no", "shut_down", "finish"}]
      /\ listener \in [Listeners -> {"none", "select", "check", "unload", "clear", "exit"}]
  BY DEF IInv, UnloadOK, ListenersOK
<1>1. CASE ListenerExits(l)
  <2>1. /\ UNCHANGED <<threadVars, stateVars, live, open, pending_thread_unloads, unload, todo, pc,
                       loc, owed>>
        /\ listener[l] = "exit" /\ listener' = [listener EXCEPT ![l] = "none"]
    BY <1>1 DEF ListenerExits, ListenerGoto
  <2>2. \A k \in Listeners : listener[k] \in {"unload", "clear"} => listener'[k] = listener[k]
    BY <1>0, <2>1
  <2>3. UnloadOK'
    BY <1>0, <2>1, <2>2, StillOwned DEF IInv
  <2>4. ListenersOK'
    BY <1>1, ListenerEnds DEF IInv
  <2>5. StateOK'
    BY <2>1, Frame DEF IInv
  <2> QED BY <2>1, <2>3, <2>4, <2>5, OnlyListeners
<1>2. CASE UnloadShutDown(l)
  <2>1. /\ UNCHANGED <<kind, created, stateVars, live, open, pending_thread_unloads, listenerVars,
                       todo, pc, loc, owed>>
        /\ unload' = [unload EXCEPT ![l] = "finish"]
        /\ loaded' \in {0, loaded}
    BY <1>2 DEF UnloadShutDown
  <2>2. /\ unload' \in [Listeners -> {"no", "shut_down", "finish"}]
        /\ \A k \in Listeners : unload[k] # "no" => unload'[k] # "no"
    BY <1>0, <2>1
  <2>3. UnloadOK'
    <3>1. listener' = listener
      BY <2>1 DEF listenerVars
    <3> QED BY <2>1, <2>2, <3>1, StillOwned DEF IInv
  <2>4. ThreadOK'
    BY <2>1 DEF IInv, ThreadOK
  <2> QED BY <2>1, <2>3, <2>4, Frame DEF IInv
<1>3. CASE UnloadFinished(l)
  <2>1. /\ UNCHANGED <<threadVars, stateVars, live, open, current, listener, cancelled, commands,
                       todo, pc, loc, owed>>
        /\ pending_thread_unloads' = FALSE
        /\ unload' = [unload EXCEPT ![l] = "no"]
        /\ serves' = [serves EXCEPT ![l] = IF listener[l] = "none" THEN NoService ELSE @]
    BY <1>3 DEF UnloadFinished
  <2>2. UnloadOK'
    BY <1>0, <2>1 DEF UnloadOK, ClosingOwned
  <2>3. ListenersOK'
    BY <2>1, ServiceForgotten DEF IInv
  <2>4. StateOK'
    BY <2>1, Frame DEF IInv
  <2> QED BY <2>1, <2>2, <2>3, <2>4, OnlyListeners
<1> QED BY <1>1, <1>2, <1>3

-----------------------------------------------------------------------------
(***************************************************************************)
(* The invariant and the theorems.                                         *)
(***************************************************************************)
LEMMA InitIInv == Init => IInv
<1> SUFFICES ASSUME Init PROVE IInv
  OBVIOUS
<1>1. ThreadOK
  <2>1. kind \in Kinds /\ created \in BOOLEAN
    BY DEF Init
  <2>2. 1 \in Loads
    <3>1. MaxLoads[kind] \in Nat \ {0}
      BY <2>1, BoundsAssumption
    <3>2. 1 \in 1..MaxLoads[kind]
      BY <3>1
    <3> QED BY <2>1, <3>2 DEF Loads
  <2> QED BY <2>1, <2>2 DEF Init, ThreadOK
<1>2. StateOK
  BY Zero DEF Init, StateOK, ClosedNotSubscribed
<1>3. ListenersOK
  <2>1. NoService \in Services
    BY Zero DEF NoService, Services
  <2> QED BY <2>1, Zero DEF Init, ListenersOK, Serving
<1>4. UnloadOK
  BY DEF Init, UnloadOK, ClosingOwned
<1>5. ProcsOK
  <2>1. "idle" \in Pcs /\ Ready("idle", NoLocals)
    BY DEF Pcs, Ready, StatePcs, ResumePcs
  <2> QED BY <2>1, Zero, Processes DEF Init, ProcsOK
<1> QED BY <1>1, <1>2, <1>3, <1>4, <1>5 DEF IInv

\* Every step keeps the invariant.
LEMMA StepIInv == IInv /\ [Next]_vars => IInv'
<1> SUFFICES ASSUME IInv, [Next]_vars PROVE IInv'
  OBVIOUS
<1>1. CASE CoreCloses
  BY <1>1, CoreClosesKeeps
<1>2. ASSUME NEW c \in Conns, \/ ThreadResume(c)
                              \/ ThreadUnsubscribe(c)
                              \/ ThreadArchive(c)
                              \/ ThreadTurnsList(c)
      PROVE  IInv'
  BY <1>2, ThreadResumeKeeps, ThreadUnsubscribeKeeps, ThreadArchiveKeeps, ThreadTurnsListKeeps
<1>3. ASSUME NEW c \in Conns, \/ ConnectionInitialized(c)
                              \/ ConnectionClosed(c)
                              \/ RemoveConnection(c)
                              \/ Reconcile(c)
                              \/ AttachNext(c)
      PROVE  IInv'
  BY <1>3, ConnectionInitializedKeeps, ConnectionClosedKeeps, RemoveConnectionKeeps, ReconcileKeeps,
     AttachNextKeeps
<1>4. CASE ResumeStep
  BY <1>4, ResumeStepKeeps
<1>5. CASE Unsubscribe \/ ArchiveWaited
  BY <1>5, UnsubscribeKeeps, ArchiveWaitedKeeps
<1>6. CASE ThreadCreated \/ Attached
  BY <1>6, ThreadCreatedKeeps, AttachedKeeps
<1>7. CASE AttachStep("loop")
  BY <1>7, Processes, AttachStepKeeps
<1>8. ASSUME NEW p \in Procs, TeardownStep(p)
      PROVE  IInv'
  BY <1>8, TeardownStepKeeps
<1>9. ASSUME NEW l \in Listeners, ListenerStep(l)
      PROVE  IInv'
  BY <1>9, CommandKeeps, DecidingSteps, UnloadRemovesEntryKeeps, UnloadSpawnsKeeps, EndingSteps
     DEF ListenerStep
<1>10. CASE UNCHANGED vars
  BY <1>10, Frame DEF IInv, vars, listenerVars
<1> QED BY <1>1, <1>2, <1>3, <1>4, <1>5, <1>6, <1>7, <1>8, <1>9, <1>10 DEF Next

\* The invariant always holds.
LEMMA AlwaysIInv == Spec => []IInv
BY InitIInv, StepIInv, PTL DEF Spec

\* The state of the thread's subscriptions keeps its types: subscribers only with an
\* entry, the value a watcher last saw that of the entry, answers owed only to
\* connections that are there, and a listener named only by the state it serves.
THEOREM TypeCorrect == Spec => []TypeOK
BY Implied, AlwaysIInv, PTL

\* Whoever attaches a connection, and whenever its clean-up runs, a connection that was
\* cleaned up is not among the subscribers: each subscription looks at
\* live_connections under the lock under which the clean-up removes it.
THEOREM SubscribersLive == Spec => []ClosedNotSubscribed
BY Implied, AlwaysIInv, PTL

\* However resumes, tear-downs, unloads and the ends of listener tasks interleave, a
\* ThreadState names only a task that runs, and a task that still takes events is the
\* one its state names: no state is left with a dead listener, and none has two.
THEOREM NamedListenersRun == Spec => []ListenerRuns
BY Implied, AlwaysIInv, PTL

\* The closing mark is never left behind: while the thread is in
\* pending_thread_unloads, a listener is on its way to unload it or an unload task
\* has not finished.
THEOREM ClosingHasOwner == Spec => []ClosingOwned
BY Implied, AlwaysIInv, PTL
=============================================================================
