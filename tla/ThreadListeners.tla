--------------------------- MODULE ThreadListeners ---------------------------
(***************************************************************************)
(* Subscriptions to one thread of the app server, the listener task that   *)
(* carries the thread's events to the subscribers, and the unloading of a  *)
(* thread nobody watches: app-server/src/thread_state.rs and the listener, *)
(* resume, unsubscribe, archive and teardown code of                       *)
(* agere_message_processor.rs.                                             *)
(*                                                                         *)
(* Requests with one thread id are serialised (request_serialization.rs),  *)
(* so one such handler runs at a time; thread/turns/list is not among      *)
(* them.  Beside it run the processor loop, which attaches connections to  *)
(* a thread that core created, the clean-up of every closed connection,    *)
(* the listener tasks, and one task per unload.  One action is what the    *)
(* code does under one lock.  The thread can be loaded again after it was  *)
(* removed: the objects behind the thread id are numbered, and a number    *)
(* that nothing refers to is used again.                                   *)
(***************************************************************************)
EXTENDS Naturals, FiniteSets

CONSTANTS
    Conns,        \* ConnectionId
    MaxLoads,     \* bound: AgereThread objects at one time, for each kind of thread
    MaxEntries,   \* bound: ThreadEntry objects at one time
    MaxListeners, \* bound: listener tasks at one time
    Kinds         \* which kinds of thread are considered

ASSUME BoundsAssumption ==
    MaxLoads \in [Kinds -> Nat \ {0}] /\ MaxEntries \in Nat /\ MaxListeners \in Nat
ASSUME KindsAssumption == Kinds \subseteq {"root", "agent"}
ASSUME ConnsAssumption == Conns \cap {"request", "loop"} = {}

Loads == UNION {1..MaxLoads[k] : k \in Kinds}
Entries == 1..MaxEntries
Listeners == 1..MaxListeners
Procs == {"request", "loop"} \cup Conns   \* a connection stands for its clean-up

VARIABLES
    kind,       \* "root", or "agent": a sub-agent's, which core has loaded and may close
    loaded,     \* the AgereThread in the thread manager, 0 when there is none
    created,    \* a thread_created notification waits
    entry,      \* the ThreadEntry in the thread state manager, 0 when there is none
    subs,       \* connection_ids of that entry
    watcher,    \* last value of each entry's has_connections_watcher
    live,       \* live_connections
    open,       \* connections of the processor loop, whose rpc gate is open
    pending_thread_unloads, \* the thread is in it
    current,    \* the listener each ThreadState refers to, 0 when there is none
    listener,   \* where each listener task is
    serves,     \* the AgereThread, ThreadState and watched entry of each listener
    cancelled,  \* listeners whose cancel_rx has fired
    commands,   \* resume requests in each listener's command channel
    unload,     \* the task each listener spawned to unload its thread
    todo,       \* connections the processor loop still has to attach
    pc,         \* next step of each process
    loc,        \* its locals
    owed        \* connections with a thread/resume that has no answer yet

threadVars == <<kind, loaded, created>>
stateVars == <<entry, subs, watcher>>
listenerVars == <<current, listener, serves, cancelled, commands>>
vars == <<threadVars, stateVars, live, open, pending_thread_unloads, listenerVars, unload, todo, pc,
          loc, owed>>

NoLocals == [conn |-> "loop", thread |-> 0, state |-> 0, watch |-> 0, tx |-> 0, own |-> 0]
Locals == [conn : Conns \cup {"loop"}, thread : Loads \cup {0}, state : 0..MaxEntries,
           watch : 0..MaxEntries, tx : 0..MaxListeners, own : 0..MaxListeners]
NoService == [thread |-> 0, state |-> 0, watch |-> 0]
Services == [thread : Loads \cup {0}, state : 0..MaxEntries, watch : 0..MaxEntries]
Pcs == {"idle", "find", "state", "watch", "listen", "tx", "send", "load", "attach", "subscribe",
        "attach_watch", "attach_listen", "attach_failed", "answer", "unsubscribe", "shut_down", "remove_connection",
        "reconcile", "teardown", "remove_state", "clear_state"}

TypeOK ==
    /\ kind \in Kinds
    /\ loaded \in Loads \cup {0}
    /\ created \in BOOLEAN
    /\ entry \in 0..MaxEntries
    /\ subs \subseteq Conns
    /\ subs # {} => entry # 0
    /\ watcher \in [Entries -> BOOLEAN]
    /\ entry # 0 => watcher[entry] = (subs # {})
    /\ live \subseteq Conns
    /\ open \subseteq live
    /\ pending_thread_unloads \in BOOLEAN
    /\ current \in [Entries -> 0..MaxListeners]
    /\ \A e \in Entries : current[e] # 0 => serves[current[e]].state = e
    /\ listener \in [Listeners -> {"none", "select", "check", "unload", "clear", "exit"}]
    /\ serves \in [Listeners -> Services]
    /\ cancelled \subseteq Listeners
    /\ commands \in [Listeners -> SUBSET Conns]
    /\ unload \in [Listeners -> {"no", "shut_down", "finish"}]
    /\ todo \subseteq Conns
    /\ pc \in [Procs -> Pcs]
    /\ loc \in [Procs -> Locals]
    /\ owed \subseteq live

Init ==
    /\ kind \in Kinds
    /\ created = (kind = "agent")
    /\ loaded = IF created THEN 1 ELSE 0
    /\ entry = 0
    /\ subs = {}
    /\ watcher = [e \in Entries |-> FALSE]
    /\ live = Conns
    /\ open = Conns
    /\ pending_thread_unloads = FALSE
    /\ current = [e \in Entries |-> 0]
    /\ listener = [l \in Listeners |-> "none"]
    /\ serves = [l \in Listeners |-> NoService]
    /\ cancelled = {}
    /\ commands = [l \in Listeners |-> {}]
    /\ unload = [l \in Listeners |-> "no"]
    /\ todo = {}
    /\ pc = [p \in Procs |-> "idle"]
    /\ loc = [p \in Procs |-> NoLocals]
    /\ owed = {}

-----------------------------------------------------------------------------
(***************************************************************************)
(* Objects that nothing refers to may be created again.                    *)
(***************************************************************************)
FreeLoads ==
    {t \in 1..MaxLoads[kind] : /\ t # loaded
                               /\ \A p \in Procs : loc[p].thread # t
                               /\ \A l \in Listeners : serves[l].thread # t}
FreeEntries ==
    {e \in Entries : /\ e # entry
                     /\ \A p \in Procs : loc[p].state # e /\ loc[p].watch # e
                     /\ \A l \in Listeners : serves[l].state # e /\ serves[l].watch # e}
FreeListeners ==
    {l \in Listeners : listener[l] = "none" /\ unload[l] = "no" /\ \A p \in Procs : loc[p].tx # l}

AnyOf(S) == CHOOSE x \in S : TRUE

Goto(p, next) == pc' = [pc EXCEPT ![p] = next]
Return(p) == Goto(p, "idle") /\ loc' = [loc EXCEPT ![p] = NoLocals]

-----------------------------------------------------------------------------
(***************************************************************************)
(* ThreadStateManager and ThreadState.                                     *)
(***************************************************************************)
\* entry(thread_id).or_default()
RoomForEntry == entry # 0 \/ FreeEntries # {}
EntryOrDefault == IF entry # 0 THEN entry ELSE AnyOf(FreeEntries)

SetSubscribers(e, cs) ==
    /\ entry' = e
    /\ subs' = cs
    /\ watcher' = [watcher EXCEPT ![e] = cs # {}]

\* The common part of try_ensure_connection_subscribed and try_add_connection_to_thread
AddConnection(c) == SetSubscribers(EntryOrDefault, subs \cup {c})

\* Variant with a bug: the watcher is not told that the last connection left
RemoveSubscription_NoUpdate(c) == subs' = subs \ {c} /\ UNCHANGED <<entry, watcher>>

\* unsubscribe_connection_from_thread
RemoveSubscription(c) ==
    IF entry = 0 THEN UNCHANGED stateVars ELSE SetSubscribers(entry, subs \ {c})

\* remove_thread_state takes the entry away and then clears the listener of its state
RemoveEntry == entry' = 0 /\ subs' = {} /\ UNCHANGED watcher

\* ThreadState::clear_listener
ClearListener(e) ==
    /\ current' = [current EXCEPT ![e] = 0]
    /\ cancelled' = cancelled \cup ({current[e]} \ {0})

-----------------------------------------------------------------------------
(***************************************************************************)
(* Core has loaded the thread of a sub-agent and told the processor loop,  *)
(* and may close it.  A session that ends keeps its event channel open as  *)
(* long as somebody has the AgereThread, so listeners do not notice.       *)
(***************************************************************************)
\* shutdown_live_agent
CoreCloses ==
    /\ kind = "agent"
    /\ loaded # 0
    /\ loaded' = 0
    /\ UNCHANGED <<kind, created, stateVars, live, open, pending_thread_unloads, listenerVars,
                   unload, todo, pc, loc, owed>>

-----------------------------------------------------------------------------
(***************************************************************************)
(* ensure_listener_task_running_task: watch the entry, then lock the       *)
(* ThreadState and start a listener unless it already has one for this     *)
(* thread.                                                                 *)
(***************************************************************************)
\* Without an entry the thread is closing and the caller gets an error
Watch(p, next, onError) ==
    /\ IF entry = 0
       THEN Goto(p, onError) /\ UNCHANGED loc
       ELSE Goto(p, next) /\ loc' = [loc EXCEPT ![p].watch = entry]
    /\ UNCHANGED <<threadVars, stateVars, live, open, pending_thread_unloads, listenerVars,
                   unload, todo, owed>>

ListenerMatches(e, t) == current[e] # 0 /\ serves[current[e]].thread = t

\* Variant with a bug: the listener that is replaced is not cancelled
Listen_KeepsPrevious(p, next) ==
    LET e == loc[p].state
        l == AnyOf(FreeListeners)
    IN  /\ IF ListenerMatches(e, loc[p].thread)
           THEN UNCHANGED listenerVars
           ELSE /\ FreeListeners # {}
                /\ cancelled' = cancelled \ {l}
                /\ current' = [current EXCEPT ![e] = l]
                /\ listener' = [listener EXCEPT ![l] = "select"]
                /\ serves' = [serves EXCEPT ![l] =
                                [thread |-> loc[p].thread, state |-> e, watch |-> loc[p].watch]]
                /\ UNCHANGED commands
        /\ Goto(p, next)
        /\ loc' = [loc EXCEPT ![p].thread = 0, ![p].watch = 0,
                              ![p].own = IF ListenerMatches(e, loc[p].thread) THEN 0 ELSE l]
        /\ UNCHANGED <<threadVars, stateVars, live, open, pending_thread_unloads, unload, todo,
                       owed>>

Listen(p, next) ==
    LET e == loc[p].state
        l == AnyOf(FreeListeners)
    IN  /\ IF ListenerMatches(e, loc[p].thread)
           THEN UNCHANGED listenerVars
           ELSE /\ FreeListeners # {}
                /\ cancelled' = (cancelled \ {l}) \cup ({current[e]} \ {0})
                /\ current' = [current EXCEPT ![e] = l]
                /\ listener' = [listener EXCEPT ![l] = "select"]
                /\ serves' = [serves EXCEPT ![l] =
                                [thread |-> loc[p].thread, state |-> e, watch |-> loc[p].watch]]
                /\ UNCHANGED commands
        /\ Goto(p, next)
        /\ loc' = [loc EXCEPT ![p].thread = 0, ![p].watch = 0,
                              ![p].own = IF ListenerMatches(e, loc[p].thread) THEN 0 ELSE l]
        /\ UNCHANGED <<threadVars, stateVars, live, open, pending_thread_unloads, unload, todo,
                       owed>>

-----------------------------------------------------------------------------
(***************************************************************************)
(* ensure_conversation_listener_task, for the request handler after a cold *)
(* resume and for the processor loop.                                      *)
(***************************************************************************)
Attach(p) ==
    /\ pc[p] = "attach"
    /\ IF loaded = 0
       THEN Goto(p, "answer") /\ UNCHANGED loc
       ELSE Goto(p, "subscribe") /\ loc' = [loc EXCEPT ![p].thread = loaded]
    /\ UNCHANGED <<threadVars, stateVars, live, open, pending_thread_unloads, listenerVars,
                   unload, todo, owed>>

\* Variant with a bug: nobody looks whether the connection is still there
Subscribe_IgnoresClosed(p) ==
    /\ pc[p] = "subscribe"
    /\ RoomForEntry
    /\ IF pending_thread_unloads
       THEN Goto(p, "answer") /\ UNCHANGED <<stateVars, loc>>
       ELSE /\ AddConnection(loc[p].conn)
            /\ Goto(p, "attach_watch")
            /\ loc' = [loc EXCEPT ![p].state = EntryOrDefault]
    /\ UNCHANGED <<threadVars, live, open, pending_thread_unloads, listenerVars, unload, todo,
                   owed>>

\* Under the lock of pending_thread_unloads
Subscribe(p) ==
    /\ pc[p] = "subscribe"
    /\ RoomForEntry
    /\ IF pending_thread_unloads \/ loc[p].conn \notin live
       THEN Goto(p, "answer") /\ UNCHANGED <<stateVars, loc>>
       ELSE /\ AddConnection(loc[p].conn)
            /\ Goto(p, "attach_watch")
            /\ loc' = [loc EXCEPT ![p].state = EntryOrDefault]
    /\ UNCHANGED <<threadVars, live, open, pending_thread_unloads, listenerVars, unload, todo,
                   owed>>

AttachWatch(p) == pc[p] = "attach_watch" /\ Watch(p, "attach_listen", "attach_failed")
AttachListen(p) == pc[p] = "attach_listen" /\ Listen(p, "answer")

\* The error is returned once the connection is unsubscribed again
AttachFailed(p) ==
    /\ pc[p] = "attach_failed"
    /\ RemoveSubscription(loc[p].conn)
    /\ Goto(p, "answer")
    /\ UNCHANGED <<threadVars, live, open, pending_thread_unloads, listenerVars, unload, todo,
                   loc, owed>>

AttachStep(p) ==
    Attach(p) \/ Subscribe(p) \/ AttachWatch(p) \/ AttachListen(p) \/ AttachFailed(p)

-----------------------------------------------------------------------------
(***************************************************************************)
(* finalize_thread_teardown.                                               *)
(***************************************************************************)
Teardown(p) ==
    /\ pc[p] = "teardown"
    /\ pending_thread_unloads' = FALSE
    /\ Goto(p, "remove_state")
    /\ UNCHANGED <<threadVars, stateVars, live, open, listenerVars, unload, todo, loc, owed>>

RemoveState(p) ==
    /\ pc[p] = "remove_state"
    /\ RemoveEntry
    /\ IF entry = 0
       THEN Return(p)
       ELSE Goto(p, "clear_state") /\ loc' = [loc EXCEPT ![p].state = entry]
    /\ UNCHANGED <<threadVars, live, open, pending_thread_unloads, listenerVars, unload, todo,
                   owed>>

ClearState(p) ==
    /\ pc[p] = "clear_state"
    /\ ClearListener(loc[p].state)
    /\ Return(p)
    /\ UNCHANGED <<threadVars, stateVars, live, open, pending_thread_unloads, listener, serves,
                   commands, unload, todo, owed>>

TeardownStep(p) == Teardown(p) \/ RemoveState(p) \/ ClearState(p)

-----------------------------------------------------------------------------
(***************************************************************************)
(* thread/resume.                                                          *)
(***************************************************************************)
\* The rpc gate of the connection is open and it is the turn of its request.  Requests
\* that name the thread by its id are serialised; a resume that names it by path alone
\* would be serialised with others of that path only, and is not considered
MayRun(c) ==
    /\ c \in open
    /\ pc["request"] = "idle"

\* While an unload is pending the answer is an error, at once
ThreadResume(c) ==
    /\ MayRun(c)
    /\ ~pending_thread_unloads
    /\ c \notin owed   \* bound: one resume of a connection at a time
    /\ Goto("request", "find")
    /\ loc' = [loc EXCEPT !["request"].conn = c]
    /\ owed' = owed \cup {c}
    /\ UNCHANGED <<threadVars, stateVars, live, open, pending_thread_unloads, listenerVars,
                   unload, todo>>

\* The final response or error; the handler returns
Respond ==
    /\ owed' = owed \ {loc["request"].conn}
    /\ Return("request")
    /\ UNCHANGED <<threadVars, stateVars, live, open, pending_thread_unloads, listenerVars,
                   unload, todo>>

\* Parameters that do not fit the thread, a stored thread that cannot be read, or an
\* attachment that failed; the response after a cold resume
ResumeAnswered ==
    /\ pc["request"] \in {"find", "tx", "load", "answer"}
    /\ Respond

\* resume_running_thread, or a cold resume
Find ==
    /\ pc["request"] = "find"
    /\ Goto("request", IF loaded # 0 THEN "state" ELSE "load")
    /\ loc' = [loc EXCEPT !["request"].thread = loaded]
    /\ UNCHANGED <<threadVars, stateVars, live, open, pending_thread_unloads, listenerVars,
                   unload, todo, owed>>

\* thread_state
GetState ==
    /\ pc["request"] = "state"
    /\ RoomForEntry
    /\ SetSubscribers(EntryOrDefault, subs)
    /\ Goto("request", "watch")
    /\ loc' = [loc EXCEPT !["request"].state = EntryOrDefault]
    /\ UNCHANGED <<threadVars, live, open, pending_thread_unloads, listenerVars, unload, todo,
                   owed>>

WatchRunning == pc["request"] = "watch" /\ Watch("request", "listen", "answer")
ListenRunning == pc["request"] = "listen" /\ Listen("request", "tx")

\* Without a listener the request gets an error
GetCommandTx ==
    /\ pc["request"] = "tx"
    /\ LET l == current[loc["request"].state]
       IN  /\ Goto("request", IF l = 0 THEN "answer" ELSE "send")
           /\ loc' = [loc EXCEPT !["request"].tx = l, !["request"].state = 0]
    /\ UNCHANGED <<threadVars, stateVars, live, open, pending_thread_unloads, listenerVars,
                   unload, todo, owed>>

\* The answer is left to the listener
SendCommand ==
    /\ pc["request"] = "send"
    /\ LET l == loc["request"].tx
       IN  IF listener[l] = "none"
           THEN Respond
           ELSE /\ commands' = [commands EXCEPT ![l] = @ \cup {loc["request"].conn}]
                /\ Return("request")
                /\ UNCHANGED <<threadVars, stateVars, live, open, pending_thread_unloads,
                               current, listener, serves, cancelled, unload, todo, owed>>

\* resume_thread_with_history puts the new thread in the place of one that core loaded
Load ==
    /\ pc["request"] = "load"
    /\ FreeLoads # {}
    /\ loaded' = AnyOf(FreeLoads)
    /\ Goto("request", "attach")
    /\ UNCHANGED <<kind, created, stateVars, live, open, pending_thread_unloads, listenerVars,
                   unload, todo, loc, owed>>

ResumeStep ==
    \/ ResumeAnswered
    \/ Find
    \/ GetState
    \/ WatchRunning
    \/ ListenRunning
    \/ GetCommandTx
    \/ SendCommand
    \/ Load
    \/ AttachStep("request")

-----------------------------------------------------------------------------
(***************************************************************************)
(* thread/unsubscribe and thread/archive.                                  *)
(***************************************************************************)
ThreadUnsubscribe(c) ==
    /\ MayRun(c)
    /\ Goto("request", IF loaded = 0 THEN "teardown" ELSE "unsubscribe")
    /\ loc' = [loc EXCEPT !["request"].conn = c]
    /\ UNCHANGED <<threadVars, stateVars, live, open, pending_thread_unloads, listenerVars,
                   unload, todo, owed>>

Unsubscribe ==
    /\ pc["request"] = "unsubscribe"
    /\ RemoveSubscription(loc["request"].conn)
    /\ Return("request")
    /\ UNCHANGED <<threadVars, live, open, pending_thread_unloads, listenerVars, unload, todo,
                   owed>>

\* prepare_thread_for_archive
ThreadArchive(c) ==
    /\ MayRun(c)
    /\ IF loaded = 0
       THEN Goto("request", "teardown") /\ UNCHANGED <<loaded, loc>>
       ELSE /\ loaded' = 0
            /\ loc' = [loc EXCEPT !["request"].thread = loaded]
            /\ Goto("request", "shut_down")
    /\ UNCHANGED <<kind, created, stateVars, live, open, pending_thread_unloads, listenerVars,
                   unload, todo, owed>>

\* thread/turns/list, which is not serialised with the others, asks for the state of a
\* loaded thread to read its active turn; the state may be made for it
ThreadTurnsList(c) ==
    /\ c \in open
    /\ loaded # 0
    /\ entry = 0
    /\ RoomForEntry
    /\ SetSubscribers(EntryOrDefault, subs)
    /\ UNCHANGED <<threadVars, live, open, pending_thread_unloads, listenerVars, unload, todo, pc,
                   loc, owed>>

\* The session has ended, or ten seconds have passed
ArchiveWaited ==
    /\ pc["request"] = "shut_down"
    /\ Goto("request", "teardown")
    /\ UNCHANGED <<threadVars, stateVars, live, open, pending_thread_unloads, listenerVars,
                   unload, todo, loc, owed>>

-----------------------------------------------------------------------------
(***************************************************************************)
(* The processor loop: a thread that core created is attached to every     *)
(* connection, and a closed connection is cleaned up by a task of its own. *)
(***************************************************************************)
LoopReady == pc["loop"] = "idle" /\ todo = {}

ThreadCreated ==
    /\ LoopReady
    /\ created
    /\ created' = FALSE
    /\ todo' = open
    /\ UNCHANGED <<kind, loaded, stateVars, live, open, pending_thread_unloads,
                   listenerVars, unload, pc, loc, owed>>

AttachNext(c) ==
    /\ pc["loop"] = "idle"
    /\ c \in todo
    /\ todo' = todo \ {c}
    /\ Goto("loop", "attach")
    /\ loc' = [loc EXCEPT !["loop"].conn = c]
    /\ UNCHANGED <<threadVars, stateVars, live, open, pending_thread_unloads, listenerVars,
                   unload, owed>>

Attached ==
    /\ pc["loop"] = "answer"
    /\ Return("loop")
    /\ UNCHANGED <<threadVars, stateVars, live, open, pending_thread_unloads, listenerVars,
                   unload, todo, owed>>

\* connection_initialized, for a new connection; nothing refers to its id
ConnectionInitialized(c) ==
    /\ LoopReady
    /\ c \notin live /\ pc[c] = "idle"
    /\ \A p \in Procs : loc[p].conn # c
    /\ \A l \in Listeners : c \notin commands[l]
    /\ open' = open \cup {c}
    /\ live' = live \cup {c}
    /\ UNCHANGED <<threadVars, stateVars, pending_thread_unloads, listenerVars, unload, todo, pc,
                   loc, owed>>

ConnectionClosed(c) ==
    /\ LoopReady
    /\ c \in open
    /\ open' = open \ {c}
    /\ Goto(c, "remove_connection")
    /\ UNCHANGED <<threadVars, stateVars, live, pending_thread_unloads, listenerVars, unload,
                   todo, loc, owed>>

\* Handlers of the connection have drained or the time is up; it gets no answers any more
RemoveConnection(c) ==
    /\ pc[c] = "remove_connection"
    /\ live' = live \ {c}
    /\ owed' = owed \ {c}
    /\ RemoveSubscription(c)
    /\ Goto(c, IF subs = {c} THEN "reconcile" ELSE "idle")
    /\ UNCHANGED <<threadVars, open, pending_thread_unloads, listenerVars, unload, todo, loc>>

Reconcile(c) ==
    /\ pc[c] = "reconcile"
    /\ Goto(c, IF loaded = 0 THEN "teardown" ELSE "idle")
    /\ UNCHANGED <<threadVars, stateVars, live, open, pending_thread_unloads, listenerVars,
                   unload, todo, loc, owed>>

-----------------------------------------------------------------------------
(***************************************************************************)
(* The listener task.  Its select is biased: cancellation first, then      *)
(* commands.                                                               *)
(***************************************************************************)
\* handle_pending_thread_resume_request, under the lock of pending_thread_unloads
HandleCommand(l, c) ==
    /\ listener[l] = "select"
    /\ l \notin cancelled
    /\ c \in commands[l]
    /\ RoomForEntry
    /\ commands' = [commands EXCEPT ![l] = @ \ {c}]
    /\ owed' = owed \ {c}
    /\ IF pending_thread_unloads \/ c \notin live
       THEN UNCHANGED stateVars
       ELSE AddConnection(c)
    /\ UNCHANGED <<threadVars, live, open, pending_thread_unloads, current, listener, serves,
                   cancelled, unload, todo, pc, loc>>

\* The turns of the answer cannot be built: an error, and no subscription
CommandFails(l, c) ==
    /\ listener[l] = "select"
    /\ l \notin cancelled
    /\ c \in commands[l]
    /\ commands' = [commands EXCEPT ![l] = @ \ {c}]
    /\ owed' = owed \ {c}
    /\ UNCHANGED <<threadVars, stateVars, live, open, pending_thread_unloads, current, listener,
                   serves, cancelled, unload, todo, pc, loc>>

ListenerGoto(l, next) == listener' = [listener EXCEPT ![l] = next]

\* wait_for_unloading_trigger: no subscribers for the whole delay, and no activity.
\* The delay is longer than any handler, so that it does not pass in the handler that
\* started the listener; when the entry goes first, the listener breaks.  The status
\* of the agent is read before the lock is taken.
UnloadTriggered(l) ==
    /\ listener[l] = "select"
    /\ l \notin cancelled
    /\ commands[l] = {}
    /\ serves[l].watch = entry
    /\ subs = {}
    /\ \A p \in Procs : loc[p].own # l
    /\ ListenerGoto(l, "check")
    /\ UNCHANGED <<threadVars, stateVars, live, open, pending_thread_unloads, current, serves,
                   cancelled, commands, unload, todo, pc, loc, owed>>

\* Again under the lock of pending_thread_unloads
CheckUnload(l) ==
    /\ listener[l] = "check"
    /\ IF pending_thread_unloads \/ watcher[serves[l].watch]
       THEN ListenerGoto(l, "select") /\ UNCHANGED pending_thread_unloads
       ELSE ListenerGoto(l, "unload") /\ pending_thread_unloads' = TRUE
    /\ UNCHANGED <<threadVars, stateVars, live, open, current, serves, cancelled, commands,
                   unload, todo, pc, loc, owed>>

\* unload_thread_without_subscribers: whatever entry is there is removed ...
UnloadRemovesEntry(l) ==
    /\ listener[l] = "unload"
    /\ RemoveEntry
    /\ ListenerGoto(l, "clear")
    /\ serves' = [serves EXCEPT ![l].watch = entry]   \* the removed state
    /\ UNCHANGED <<threadVars, live, open, pending_thread_unloads, current, cancelled, commands,
                   unload, todo, pc, loc, owed>>

\* ... its listener is cleared, and a task shuts the thread down
UnloadSpawns(l) ==
    LET e == serves[l].watch IN
        /\ listener[l] = "clear"
        /\ IF e = 0 THEN UNCHANGED <<current, cancelled>> ELSE ClearListener(e)
        /\ unload' = [unload EXCEPT ![l] = "shut_down"]
        /\ ListenerGoto(l, "exit")
        /\ UNCHANGED <<threadVars, stateVars, live, open, pending_thread_unloads,
                       serves, commands, todo, pc, loc, owed>>

\* Cancelled, or the entry it watches is gone
ListenerBreaks(l) ==
    /\ listener[l] = "select"
    /\ l \in cancelled \/ serves[l].watch # entry
    /\ ListenerGoto(l, "exit")
    /\ UNCHANGED <<threadVars, stateVars, live, open, pending_thread_unloads, current, serves,
                   cancelled, commands, unload, todo, pc, loc, owed>>

\* The state is cleared if no later listener has it; commands that were not read are lost
ListenerExits(l) ==
    /\ listener[l] = "exit"
    /\ current' = [e \in Entries |-> IF current[e] = l THEN 0 ELSE current[e]]
    /\ cancelled' = cancelled \ {l}
    /\ ListenerGoto(l, "none")
    /\ commands' = [commands EXCEPT ![l] = {}]
    /\ serves' = [serves EXCEPT ![l] = IF unload[l] = "no" THEN NoService
                                       ELSE [NoService EXCEPT !.thread = serves[l].thread]]
    /\ UNCHANGED <<threadVars, stateVars, live, open, pending_thread_unloads, unload, todo, pc,
                   loc, owed>>

\* Variant with a bug: a shutdown that timed out leaves the thread closing
UnloadShutDown_KeepsPending(l) ==
    /\ unload[l] = "shut_down"
    /\ \E complete \in BOOLEAN :
         /\ loaded' = IF complete THEN 0 ELSE loaded
         /\ unload' = [unload EXCEPT ![l] = IF complete THEN "finish" ELSE "no"]
    /\ UNCHANGED <<kind, created, stateVars, live, open, pending_thread_unloads, listenerVars,
                   todo, pc, loc, owed>>

\* The shutdown is complete and remove_thread takes what has the id now; or it timed
\* out and the thread stays loaded
UnloadShutDown(l) ==
    /\ unload[l] = "shut_down"
    /\ \E complete \in BOOLEAN : loaded' = IF complete THEN 0 ELSE loaded
    /\ unload' = [unload EXCEPT ![l] = "finish"]
    /\ UNCHANGED <<kind, created, stateVars, live, open, pending_thread_unloads, listenerVars,
                   todo, pc, loc, owed>>

UnloadFinished(l) ==
    /\ unload[l] = "finish"
    /\ pending_thread_unloads' = FALSE
    /\ unload' = [unload EXCEPT ![l] = "no"]
    /\ serves' = [serves EXCEPT ![l] = IF listener[l] = "none" THEN NoService ELSE @]
    /\ UNCHANGED <<threadVars, stateVars, live, open, current, listener, cancelled, commands,
                   todo, pc, loc, owed>>

ListenerStep(l) ==
    \/ \E c \in Conns : HandleCommand(l, c) \/ CommandFails(l, c)
    \/ UnloadTriggered(l)
    \/ CheckUnload(l)
    \/ UnloadRemovesEntry(l)
    \/ UnloadSpawns(l)
    \/ ListenerBreaks(l)
    \/ ListenerExits(l)
    \/ UnloadShutDown(l)
    \/ UnloadFinished(l)

-----------------------------------------------------------------------------
Next ==
    \/ CoreCloses
    \/ \E c \in Conns :
         \/ ThreadResume(c)
         \/ ThreadUnsubscribe(c)
         \/ ThreadArchive(c)
         \/ ThreadTurnsList(c)
         \/ ConnectionInitialized(c)
         \/ ConnectionClosed(c)
         \/ RemoveConnection(c)
         \/ Reconcile(c)
         \/ AttachNext(c)
    \/ ResumeStep
    \/ Unsubscribe
    \/ ArchiveWaited
    \/ ThreadCreated
    \/ AttachStep("loop")
    \/ Attached
    \/ \E p \in Procs : TeardownStep(p)
    \/ \E l \in Listeners : ListenerStep(l)

Spec == Init /\ [][Next]_vars

-----------------------------------------------------------------------------
(***************************************************************************)
(* Properties.                                                             *)
(***************************************************************************)
\* A connection that was cleaned up is not subscribed, whoever was attaching it.
ClosedNotSubscribed == subs \subseteq live

\* A ThreadState that says it has a listener has one that runs, and no other listener
\* of that state still takes events.  A state that named a task that has ended would
\* keep every later resume from starting one.
ListenerRuns ==
    /\ \A e \in Entries : current[e] # 0 => listener[current[e]] # "none"
    /\ \A l \in Listeners : listener[l] = "select" /\ l \notin cancelled =>
         current[serves[l].state] = l

\* A thread is closing only while somebody closes it: every way out of an unload, a
\* shutdown that times out included, lets the thread be resumed again.
ClosingOwned ==
    pending_thread_unloads =>
        \E l \in Listeners : listener[l] \in {"unload", "clear"} \/ unload[l] # "no"

\* A thread/resume that has no answer yet is being handled, or waits for a listener
\* task that still reads its commands.
ResumeAnswerable ==
    \A c \in owed :
        \/ loc["request"].conn = c
        \/ \E l \in Listeners : listener[l] \in {"select", "check"} /\ c \in commands[l]

=============================================================================
