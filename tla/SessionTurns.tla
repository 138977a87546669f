----------------------------- MODULE SessionTurns -----------------------------
(***************************************************************************)
(* The life of a turn in one session: core/src/tasks/mod.rs (start, finish *)
(* and abort of tasks), core/src/state/turn.rs (ActiveTurn, TurnState),    *)
(* the input queues of core/src/session/mod.rs, the loop of                *)
(* core/src/session/turn.rs, and the goal continuation of core/src/goals.rs.*)
(*                                                                         *)
(* `active_turn`, each turn's `TurnState`, the idle queue and the mailbox  *)
(* are behind separate async mutexes.  A process holds active_turn, and at *)
(* most the active turn's state under it, during one action; between two   *)
(* actions it is at an await and the others run.  The processes are the    *)
(* submission loop, clients that call into the session from elsewhere, and *)
(* one spawned tokio task per turn.                                        *)
(***************************************************************************)
EXTENDS Integers, FiniteSets

CONSTANTS
    Loop,       \* the submission loop
    Clients,    \* callers from other tokio tasks
    Subs,       \* task ids (sub_id); an id nobody refers to any more is fresh again
    TurnIds,    \* ActiveTurn allocations (the Arc<Mutex<TurnState>> pointers)
    UserItems,  \* user inputs
    TriggerMail,\* inter-agent messages with trigger_turn set
    QuietMail,  \* inter-agent messages without it
    Notes,      \* response items injected or queued by the session's services
    GoalItem,   \* the continuation prompt of the thread's goal
    GoalsEnabled, \* Feature::Goals with a state database
    SpawnKinds, \* kinds of task that operations other than user input start
    None

Procs == {Loop} \cup Clients \cup Subs
MailItems == TriggerMail \cup QuietMail
Items == UserItems \cup MailItems \cup Notes \cup {GoalItem}

\* RegularTask; a user shell or undo task, of TaskKind::Regular too, which never
\* reads pending input; and the review and compact tasks, which cannot be steered
Kinds == {"regular", "shell", "review"}
Steerable == {"regular", "shell"}

ASSUME ProcsDistinct ==
    /\ Loop \notin Clients \cup Subs
    /\ Clients \cap Subs = {}
    /\ None \notin Procs \cup TurnIds
ASSUME ItemsDistinct ==
    /\ UserItems \cap (MailItems \cup Notes \cup {GoalItem}) = {}
    /\ MailItems \cap (Notes \cup {GoalItem}) = {}
    /\ TriggerMail \cap QuietMail = {}
    /\ GoalItem \notin Notes
ASSUME FlagsType == GoalsEnabled \in BOOLEAN /\ SpawnKinds \subseteq Kinds

VARIABLES
    active_turn,        \* the turn in the session's slot, or None
    tasks,              \* its running tasks
    pending_input,      \* TurnState::pending_input of each turn
    next_turn_mail,     \* mailbox_delivery_phase = NextTurn
    pending_approvals,  \* tasks with a pending approval in each turn's state
    idle_pending_input, \* items queued for the next turn
    mailbox,
    continuation_lock,  \* the process inside maybe_start_goal_continuation_turn
    pc,
    local,              \* locals of each process
    kind,               \* TaskKind of each task
    cancelled,          \* tasks whose cancellation token fired
    reported,           \* terminal events sent for each task
    owed,               \* history: user input accepted by the session, neither
                        \* recorded nor discarded yet
    dropped             \* history: the part of it that a turn gave up unread

turnVars == <<active_turn, tasks>>
stateVars == <<pending_input, next_turn_mail, pending_approvals>>
queueVars == <<idle_pending_input, mailbox>>
taskVars == <<kind, cancelled, reported>>
vars == <<turnVars, stateVars, queueVars, continuation_lock, pc, local, taskVars, owed, dropped>>

Locals ==
    [turn : TurnIds \cup {None},     \* an Arc to a turn's state
     hand : SUBSET Items,            \* items taken and not yet put anywhere
     input : SUBSET UserItems,       \* input of the task to start
     kind : Kinds,                   \* kind of the task to start
     doomed : SUBSET Subs,           \* tasks drained from an aborted turn
     victim : Subs \cup {None},      \* the one being aborted
     replace : BOOLEAN,              \* TurnAbortReason::Replaced, else Interrupted
     continue : BOOLEAN]             \* inside MaybeContinueIfIdle

Blank == [turn |-> None, hand |-> {}, input |-> {}, kind |-> "regular", doomed |-> {},
          victim |-> None, replace |-> FALSE, continue |-> FALSE]

TaskPcs == {"begin", "run", "drain_mail", "inspect", "approval", "check_mail", "finish",
            "remove", "leftover", "complete", "clear"}
CallPcs == {"take", "take_if", "cancel", "wait", "clear_pending",
            "work", "reserve", "queued", "turn_input", "mail", "join", "push", "launch",
            "candidate", "goal_reserve", "reread", "reserved", "unreserve"}
Pcs == {"idle"} \cup TaskPcs \cup CallPcs

\* Where a process looks at the turn or the task in its locals, there is one
TurnPcs == {"push", "launch", "reread", "reserved", "unreserve", "leftover", "clear"}
VictimPcs == {"take_if", "wait"}
LocalsReady ==
    \A p \in Procs : /\ pc[p] \in TurnPcs => local[p].turn # None
                     /\ pc[p] \in VictimPcs => local[p].victim # None

TypeOK ==
    /\ active_turn \in TurnIds \cup {None}
    /\ tasks \subseteq Subs
    /\ pending_input \in [TurnIds -> SUBSET Items]
    /\ next_turn_mail \in [TurnIds -> BOOLEAN]
    /\ pending_approvals \in [TurnIds -> SUBSET Subs]
    /\ idle_pending_input \subseteq Items
    /\ mailbox \subseteq MailItems
    /\ continuation_lock \in Procs \cup {None}
    /\ pc \in [Procs -> Pcs]
    /\ local \in [Procs -> Locals]
    /\ kind \in [Subs -> Kinds]
    /\ cancelled \subseteq Subs
    /\ reported \in [Subs -> SUBSET {"complete", "aborted"}]
    /\ owed \subseteq UserItems
    /\ dropped \subseteq UserItems
    /\ LocalsReady

Init ==
    /\ active_turn = None
    /\ tasks = {}
    /\ pending_input = [o \in TurnIds |-> {}]
    /\ next_turn_mail = [o \in TurnIds |-> FALSE]
    /\ pending_approvals = [o \in TurnIds |-> {}]
    /\ idle_pending_input = {}
    /\ mailbox = {}
    /\ continuation_lock = None
    /\ pc = [p \in Procs |-> "idle"]
    /\ local = [p \in Procs |-> Blank]
    /\ kind = [s \in Subs |-> "regular"]
    /\ cancelled = {}
    /\ reported = [s \in Subs |-> {}]
    /\ owed = {}
    /\ dropped = {}

-----------------------------------------------------------------------------
(***************************************************************************)
(* Control flow, allocation of turns and task ids, and items.              *)
(***************************************************************************)
Goto(p, label) == pc' = [pc EXCEPT ![p] = label]
Jump(p, label, locals) == Goto(p, label) /\ local' = [local EXCEPT ![p] = locals]
Return(p) == Jump(p, "idle", Blank)
Begin(p, label, locals) == pc[p] = "idle" /\ Jump(p, label, locals)

Unused(o) == o # active_turn /\ \A p \in Procs : local[p].turn # o
Allocatable == \E o \in TurnIds : Unused(o)
FreshTurn == CHOOSE o \in TurnIds : Unused(o)
\* ActiveTurn::default() in the session's slot
InstallTurn(o) ==
    /\ active_turn' = o
    /\ pending_input' = [pending_input EXCEPT ![o] = {}]
    /\ next_turn_mail' = [next_turn_mail EXCEPT ![o] = FALSE]
    /\ pending_approvals' = [pending_approvals EXCEPT ![o] = {}]

\* `*active = None`, or take(): the turn goes, with its map of tasks
EmptySlot == active_turn' = None /\ tasks' = {}

FreeSub(s) ==
    /\ pc[s] = "idle"
    /\ s \notin tasks
    /\ \A p \in Procs : s \notin local[p].doomed /\ s # local[p].victim

\* Bound: an operation that may start a task begins only while there is a free id
\* for its task and more than the operations in progress, and a task waiting for
\* the continuation lock, may need: finishing tasks that start the next task still
\* hold an id, and must not wait for each other's
RoomToStart ==
    Cardinality({s \in Subs : FreeSub(s)})
      > 1 + Cardinality({p \in {Loop} \cup Clients : pc[p] # "idle"})
          + (IF GoalsEnabled THEN 1 ELSE 0)

\* Everywhere an item that was accepted can still be found: the queues, what a process
\* has taken, and the turns that somebody refers to
Taken == UNION {local[p].hand \cup local[p].input : p \in Procs}
Pending == UNION {pending_input[o] : o \in {o \in TurnIds : ~Unused(o)}}
InPlace == idle_pending_input \cup mailbox \cup Taken \cup Pending

Fresh(i) == i \notin InPlace \cup owed

\* Variant with a bug: the map of tasks is not looked at
EmptyTurn_IgnoresTasks(o) == o # None /\ active_turn = o

\* A turn that was active is cleared later only if it still is (Arc::ptr_eq) and
\* has no task
EmptyTurn(o) == o # None /\ active_turn = o /\ tasks = {}

-----------------------------------------------------------------------------
(***************************************************************************)
(* Operations of the submission loop.                                      *)
(***************************************************************************)
\* steer_input, accepted by the running task, for Op::UserInput of the loop and, whatever
\* the loop is doing, for the turn/steer request of the app server.  IndexMap order is
\* abstracted: with more than one task, any of them may be the first
SteerInput(i) ==
    /\ Fresh(i)
    /\ active_turn # None
    /\ \E s \in tasks : kind[s] \in Steerable
    /\ pending_input' = [pending_input EXCEPT ![active_turn] = @ \cup {i}]
    /\ next_turn_mail' = [next_turn_mail EXCEPT ![active_turn] = FALSE]
    /\ owed' = owed \cup {i}
    /\ UNCHANGED <<turnVars, pending_approvals, queueVars, continuation_lock, pc, local, taskVars,
                   dropped>>

\* steer_input returned NoActiveTurn: spawn_task with the input (an active turn
\* without a task counts as none).  ActiveTurnNotSteerable only sends an error
SpawnForInput(i) ==
    /\ RoomToStart
    /\ Fresh(i)
    /\ tasks = {}
    /\ Begin(Loop, "take", [Blank EXCEPT !.input = {i}, !.replace = TRUE])
    /\ owed' = owed \cup {i}
    /\ UNCHANGED <<turnVars, stateVars, queueVars, continuation_lock, taskVars, dropped>>

\* Variant with a bug: spawn_task does not abort what runs
SpawnTask_NoAbort(k) ==
    /\ RoomToStart
    /\ k = "shell" => tasks = {}
    /\ Begin(Loop, "queued", [Blank EXCEPT !.kind = k, !.replace = TRUE])
    /\ UNCHANGED <<turnVars, stateVars, queueVars, continuation_lock, taskVars, owed, dropped>>

\* review, compact, undo and user shell commands; a shell command joins a running
\* task instead (InjectNote is what it then does to the turn)
SpawnTask(k) ==
    /\ RoomToStart
    /\ k = "shell" => tasks = {}
    /\ Begin(Loop, "take", [Blank EXCEPT !.kind = k, !.replace = TRUE])
    /\ UNCHANGED <<turnVars, stateVars, queueVars, continuation_lock, taskVars, owed, dropped>>

\* Op::Interrupt, and an approval answered with Abort
Interrupt ==
    /\ RoomToStart
    /\ Begin(Loop, "take", Blank)
    /\ UNCHANGED <<turnVars, stateVars, queueVars, continuation_lock, taskVars, owed, dropped>>

InterAgentCommunication(i) ==
    /\ RoomToStart
    /\ Fresh(i)
    /\ mailbox' = mailbox \cup {i}
    /\ IF i \in TriggerMail THEN Begin(Loop, "work", Blank)
                            ELSE pc[Loop] = "idle" /\ UNCHANGED <<pc, local>>
    /\ UNCHANGED <<turnVars, stateVars, idle_pending_input, continuation_lock, taskVars,
                   owed, dropped>>

\* inject_response_items: Ok whenever a turn is active
Inject(i) ==
    /\ active_turn # None
    /\ pending_input' = [pending_input EXCEPT ![active_turn] = @ \cup {i}]

\* approve_guardian_denied_action
ApproveDeniedAction(i) ==
    /\ pc[Loop] = "idle" /\ Fresh(i)
    /\ IF active_turn # None
       THEN Inject(i) /\ UNCHANGED idle_pending_input
       ELSE idle_pending_input' = idle_pending_input \cup {i} /\ UNCHANGED pending_input
    /\ UNCHANGED <<turnVars, next_turn_mail, pending_approvals, mailbox, continuation_lock,
                   pc, local, taskVars, owed, dropped>>

\* notify_approval: the sender is looked up in the turn that is active now
NotifyApproval(s) ==
    /\ pc[Loop] = "idle"
    /\ active_turn # None
    /\ s \in pending_approvals[active_turn]
    /\ pending_approvals' = [pending_approvals EXCEPT ![active_turn] = @ \ {s}]
    /\ Goto(s, "run")
    /\ UNCHANGED <<turnVars, pending_input, next_turn_mail, queueVars, continuation_lock,
                   local, taskVars, owed, dropped>>

-----------------------------------------------------------------------------
(***************************************************************************)
(* Calls from other tokio tasks.                                           *)
(***************************************************************************)
\* inject_response_items from a service; when refused the caller records the
\* item in the history itself
InjectNote(c, i) ==
    /\ pc[c] = "idle" /\ Fresh(i)
    /\ Inject(i)
    /\ UNCHANGED <<turnVars, next_turn_mail, pending_approvals, queueVars, continuation_lock,
                   pc, local, taskVars, owed, dropped>>

\* continue_active_goal_if_idle, which the app server calls when it has resumed a
\* thread with goals
ContinueIfIdle(c) ==
    /\ RoomToStart
    /\ GoalsEnabled
    /\ Begin(c, "work", [Blank EXCEPT !.continue = TRUE])
    /\ UNCHANGED <<turnVars, stateVars, queueVars, continuation_lock, taskVars, owed, dropped>>

\* record_guardian_denial found the turn still active and spawns its abort
GuardianInterrupt(c, s) ==
    /\ RoomToStart
    /\ s \in tasks
    /\ Begin(c, "take_if", [Blank EXCEPT !.victim = s])
    /\ UNCHANGED <<turnVars, stateVars, queueVars, continuation_lock, taskVars, owed, dropped>>

-----------------------------------------------------------------------------
(***************************************************************************)
(* abort_all_tasks and abort_turn_if_active.                               *)
(***************************************************************************)
\* The slot is emptied; the tasks in it, if any, will be aborted one by one, and the
\* input they and the turn hold is discarded with them
Drain(p) ==
    /\ Jump(p, IF tasks = {} THEN "clear_pending" ELSE "cancel",
               [local[p] EXCEPT !.doomed = tasks, !.victim = None,
                                !.turn = IF tasks = {} THEN None ELSE active_turn])
    /\ owed' = IF tasks = {} THEN owed
               ELSE owed \ (pending_input[active_turn] \cup UNION {local[s].hand : s \in tasks})
    /\ EmptySlot

TakeActiveTurn(p) ==
    /\ pc[p] = "take"
    /\ Drain(p)
    /\ UNCHANGED <<stateVars, queueVars, continuation_lock, taskVars, dropped>>

TakeIfActive(p) ==
    /\ pc[p] = "take_if"
    /\ IF local[p].victim \in tasks THEN Drain(p) ELSE Return(p) /\ UNCHANGED <<turnVars, owed>>
    /\ UNCHANGED <<stateVars, queueVars, continuation_lock, taskVars, dropped>>

CancelTask(p) ==
    /\ pc[p] = "cancel"
    /\ \E s \in local[p].doomed :
          /\ cancelled' = cancelled \cup {s}
          /\ Jump(p, "wait", [local[p] EXCEPT !.victim = s, !.doomed = local[p].doomed \ {s}])
    /\ UNCHANGED <<turnVars, stateVars, queueVars, continuation_lock, kind, reported,
                   owed, dropped>>

\* Variant with a bug: no timeout while waiting for the task
AbortTask_WaitsForDone(p) ==
    /\ pc[p] = "wait"
    /\ pc[local[p].victim] = "idle"
    /\ reported' = [reported EXCEPT ![local[p].victim] = @ \cup {"aborted"}]
    /\ Jump(p, IF local[p].doomed = {} THEN "clear_pending" ELSE "cancel",
               [local[p] EXCEPT !.victim = None])
    /\ UNCHANGED <<turnVars, stateVars, queueVars, continuation_lock, kind, cancelled,
                   owed, dropped>>

\* The task has ended, or GRACEFULL_INTERRUPTION_TIMEOUT_MS is over: its handle is
\* aborted, which loses what it had in hand, and TurnAborted is sent
AbortTask(p) ==
    /\ pc[p] = "wait"
    /\ LET s == local[p].victim IN
          /\ reported' = [reported EXCEPT ![s] = @ \cup {"aborted"}]
          /\ pending_approvals' = [o \in TurnIds |-> pending_approvals[o] \ {s}]
          /\ owed' = owed \ local[s].hand
          /\ pc' = [pc EXCEPT ![s] = "idle",
                              ![p] = IF local[p].doomed = {} THEN "clear_pending" ELSE "cancel"]
          /\ local' = [local EXCEPT ![s] = Blank, ![p] = [local[p] EXCEPT !.victim = None]]
    /\ UNCHANGED <<turnVars, pending_input, next_turn_mail, queueVars, continuation_lock,
                   kind, cancelled, dropped>>

\* What the caller does after the abort: spawn_task starts its task, an interrupt
\* that aborted a task wakes pending work
AfterAbort(p) ==
    IF local[p].replace \/ local[p].turn # None
    THEN Jump(p, IF local[p].replace THEN "queued" ELSE "work", [local[p] EXCEPT !.turn = None])
    ELSE Return(p)

\* Variant with a bug: the turn that is active now is cleared, not the aborted one
ClearPending_OfActive(p) ==
    /\ pc[p] = "clear_pending"
    /\ pending_input' = [o \in TurnIds |-> IF o = active_turn THEN {} ELSE pending_input[o]]
    /\ pending_approvals' = [o \in TurnIds |->
                                IF o = active_turn THEN {} ELSE pending_approvals[o]]
    /\ owed' = owed \ UNION {pending_input[o] : o \in {active_turn, local[p].turn} \ {None}}
    /\ AfterAbort(p)
    /\ UNCHANGED <<turnVars, next_turn_mail, queueVars, continuation_lock, taskVars, dropped>>

\* clear_pending of a turn that had tasks
ClearPending(p) ==
    /\ pc[p] = "clear_pending"
    /\ LET o == local[p].turn IN
          IF o = None
          THEN UNCHANGED <<stateVars, owed>>
          ELSE /\ pending_input' = [pending_input EXCEPT ![o] = {}]
               /\ pending_approvals' = [pending_approvals EXCEPT ![o] = {}]
               /\ owed' = owed \ pending_input[o]
               /\ UNCHANGED next_turn_mail
    /\ AfterAbort(p)
    /\ UNCHANGED <<turnVars, queueVars, continuation_lock, taskVars, dropped>>

-----------------------------------------------------------------------------
(***************************************************************************)
(* maybe_start_turn_for_pending_work and start_task.                       *)
(***************************************************************************)
\* Where maybe_start_turn_for_pending_work and start_task return to
Leave(p) ==
    IF local[p].continue
    THEN Jump(p, "candidate", [Blank EXCEPT !.continue = TRUE])
    ELSE Return(p)

PendingWork == idle_pending_input # {} \/ mailbox \cap TriggerMail # {}

CheckPendingWork(p) ==
    /\ pc[p] = "work"
    /\ IF PendingWork THEN Goto(p, "reserve") /\ UNCHANGED local ELSE Leave(p)
    /\ UNCHANGED <<turnVars, stateVars, queueVars, continuation_lock, taskVars, owed, dropped>>

\* An idle session gets an empty turn, to be filled by start_task
ReserveTurn(p) ==
    /\ pc[p] = "reserve"
    /\ IF active_turn # None
       THEN Leave(p) /\ UNCHANGED <<active_turn, stateVars>>
       ELSE Allocatable /\ InstallTurn(FreshTurn) /\ Goto(p, "queued") /\ UNCHANGED local
    /\ UNCHANGED <<tasks, queueVars, continuation_lock, taskVars, owed, dropped>>

TakeQueuedItems(p) ==
    /\ pc[p] = "queued"
    /\ Jump(p, "turn_input", [local[p] EXCEPT !.hand = idle_pending_input])
    /\ idle_pending_input' = {}
    /\ UNCHANGED <<turnVars, stateVars, mailbox, continuation_lock, taskVars, owed, dropped>>

\* get_pending_input, first half: whatever turn is active now gives its input
TakeTurnInput(p, drain, skip) ==
    /\ IF active_turn = None
       THEN Goto(p, drain) /\ UNCHANGED <<local, pending_input>>
       ELSE /\ Jump(p, IF next_turn_mail[active_turn] THEN skip ELSE drain,
                       [local[p] EXCEPT !.hand = @ \cup pending_input[active_turn]])
            /\ pending_input' = [pending_input EXCEPT ![active_turn] = {}]
    /\ UNCHANGED <<turnVars, next_turn_mail, pending_approvals, queueVars, continuation_lock,
                   taskVars, dropped>>

\* get_pending_input, second half
DrainMailbox(p, next) ==
    /\ Jump(p, next, [local[p] EXCEPT !.hand = @ \cup mailbox])
    /\ mailbox' = {}
    /\ UNCHANGED <<turnVars, stateVars, idle_pending_input, continuation_lock, taskVars,
                   owed, dropped>>

StartTakeTurnInput(p) ==
    pc[p] = "turn_input" /\ TakeTurnInput(p, "mail", "join") /\ UNCHANGED owed
StartDrainMailbox(p) == pc[p] = "mail" /\ DrainMailbox(p, "join")

\* Variant with a bug: no turn is inserted into an empty slot
JoinTurn_NoInsert(p) ==
    /\ pc[p] = "join"
    /\ Jump(p, "push", [local[p] EXCEPT !.turn = active_turn])
    /\ UNCHANGED <<turnVars, stateVars, queueVars, continuation_lock, taskVars, owed, dropped>>

\* First lock of active_turn: the turn whose state gets the items
JoinTurn(p) ==
    /\ pc[p] = "join"
    /\ LET o == IF active_turn = None THEN FreshTurn ELSE active_turn IN
          /\ Jump(p, "push", [local[p] EXCEPT !.turn = o])
          /\ IF active_turn = None THEN Allocatable /\ InstallTurn(o)
                                   ELSE UNCHANGED <<active_turn, stateVars>>
    /\ UNCHANGED <<tasks, queueVars, continuation_lock, taskVars, owed, dropped>>

PushItems(p) ==
    /\ pc[p] = "push"
    /\ pending_input' = [pending_input EXCEPT ![local[p].turn] = @ \cup local[p].hand]
    /\ Jump(p, "launch", [local[p] EXCEPT !.hand = {}])
    /\ UNCHANGED <<turnVars, next_turn_mail, pending_approvals, queueVars, continuation_lock,
                   taskVars, owed, dropped>>

\* Second lock of active_turn: the task is spawned and joins the turn found there
LaunchTask(p) ==
    /\ pc[p] = "launch"
    /\ \E s \in Subs : FreeSub(s)
    /\ LET s == CHOOSE s \in Subs : FreeSub(s) IN
          /\ tasks' = tasks \cup {s}
          /\ kind' = [kind EXCEPT ![s] = local[p].kind]
          /\ cancelled' = cancelled \ {s}
          /\ reported' = [reported EXCEPT ![s] = {}]
          /\ pc' = [pc EXCEPT ![s] = IF local[p].input = {} THEN "run" ELSE "begin",
                              ![p] = IF local[p].continue THEN "candidate" ELSE "idle"]
          /\ local' = [local EXCEPT ![s] = [Blank EXCEPT !.hand = local[p].input],
                                    ![p] = [Blank EXCEPT !.continue = local[p].continue]]
    /\ IF active_turn = None THEN Allocatable /\ InstallTurn(FreshTurn)
                             ELSE UNCHANGED <<active_turn, stateVars>>
    /\ continuation_lock' = IF continuation_lock = p THEN None ELSE continuation_lock
    /\ UNCHANGED <<queueVars, owed, dropped>>

-----------------------------------------------------------------------------
(***************************************************************************)
(* maybe_start_goal_continuation_turn, under its own semaphore.            *)
(***************************************************************************)
\* goal_continuation_candidate_if_active; the database may or may not have an
\* active goal
GoalCandidate(p) ==
    /\ pc[p] = "candidate"
    /\ continuation_lock = None
    /\ \E candidate \in BOOLEAN :
          /\ candidate => GoalsEnabled /\ active_turn = None /\ ~PendingWork
          /\ IF candidate
             THEN /\ continuation_lock' = p
                  /\ Jump(p, "goal_reserve", Blank)
             ELSE Return(p) /\ UNCHANGED continuation_lock
    /\ UNCHANGED <<turnVars, stateVars, queueVars, taskVars, owed, dropped>>

GoalReserve(p) ==
    /\ pc[p] = "goal_reserve"
    /\ IF active_turn # None
       THEN /\ Return(p)
            /\ continuation_lock' = None
            /\ UNCHANGED <<active_turn, stateVars>>
       ELSE /\ Allocatable
            /\ InstallTurn(FreshTurn)
            /\ Jump(p, "reread", [local[p] EXCEPT !.turn = FreshTurn])
            /\ UNCHANGED continuation_lock
    /\ UNCHANGED <<tasks, queueVars, taskVars, owed, dropped>>

\* The goal is read again; it may have changed, or the read may fail
GoalReread(p) ==
    /\ pc[p] = "reread"
    /\ \E goal_is_current \in BOOLEAN :
          IF goal_is_current
          THEN /\ pending_input' = [pending_input EXCEPT ![local[p].turn] = @ \cup {GoalItem}]
               /\ Goto(p, "reserved")
          ELSE Goto(p, "unreserve") /\ UNCHANGED pending_input
    /\ UNCHANGED <<turnVars, next_turn_mail, pending_approvals, queueVars, continuation_lock,
                   local, taskVars, owed, dropped>>

StillReserved(p) ==
    /\ pc[p] = "reserved"
    /\ IF EmptyTurn(local[p].turn)
       THEN Jump(p, "queued", [local[p] EXCEPT !.turn = None])
       ELSE Goto(p, "unreserve") /\ UNCHANGED local
    /\ UNCHANGED <<turnVars, stateVars, queueVars, continuation_lock, taskVars, owed, dropped>>

\* Variant with a bug: the reserved turn stays in the slot
ClearReserved_Keeps(p) ==
    /\ pc[p] = "unreserve"
    /\ Return(p)
    /\ continuation_lock' = None
    /\ UNCHANGED <<turnVars, stateVars, queueVars, taskVars, owed, dropped>>

ClearReserved(p) ==
    /\ pc[p] = "unreserve"
    /\ IF EmptyTurn(local[p].turn) THEN EmptySlot ELSE UNCHANGED turnVars
    /\ Return(p)
    /\ continuation_lock' = None
    /\ UNCHANGED <<stateVars, queueVars, taskVars, owed, dropped>>

-----------------------------------------------------------------------------
(***************************************************************************)
(* The spawned task: RegularTask::run and run_turn, then on_task_finished. *)
(***************************************************************************)
\* run_turn with the turn's own input: once the compaction, the tool listing and the
\* session-start hooks before it are done, the input is recorded, or a prompt hook
\* discards it
RecordInput(s) ==
    /\ pc[s] = "begin"
    /\ owed' = owed \ local[s].hand
    /\ Jump(s, "run", [local[s] EXCEPT !.hand = {}])
    /\ UNCHANGED <<turnVars, stateVars, queueVars, continuation_lock, taskVars, dropped>>

\* run_turn returns before that: the pre-sampling compaction failed, the tool listing
\* was cancelled, or a session-start hook stops the turn.  RegularTask goes on to
\* has_pending_input, and nobody has the input any more
GiveUpTurn(s) ==
    /\ pc[s] = "begin"
    /\ dropped' = dropped \cup (local[s].hand \cap owed)
    /\ Jump(s, "run", [local[s] EXCEPT !.hand = {}])
    /\ UNCHANGED <<turnVars, stateVars, queueVars, continuation_lock, taskVars, owed>>

\* A task that was taken out of the slot and has not noticed it yet takes the input
\* of the turn that replaced its own, which is not owed any more
GetPendingInput(s) ==
    /\ pc[s] = "run" /\ kind[s] = "regular"
    /\ TakeTurnInput(s, "drain_mail", "inspect")
    /\ owed' = IF s \in tasks \/ active_turn = None THEN owed ELSE owed \ pending_input[active_turn]

TaskDrainMailbox(s) == pc[s] = "drain_mail" /\ DrainMailbox(s, "inspect")

\* The hooks see the items in order; one that blocks a user prompt discards it
\* and sends the items after it back to the front of the active turn's input.
\* What was accepted goes into the history
InspectPendingInput(s) ==
    /\ pc[s] = "inspect"
    /\ \E requeued \in SUBSET local[s].hand :
          /\ \/ requeued = {} /\ owed' = owed \ local[s].hand
             \/ /\ requeued # {}
                /\ \E blocked \in (local[s].hand \cap UserItems) \ requeued :
                      owed' = owed \ ((local[s].hand \ requeued)
                                        \cup IF active_turn = None THEN requeued ELSE {})
          /\ pending_input' = IF active_turn = None \/ requeued = {} THEN pending_input
                              ELSE [pending_input EXCEPT ![active_turn] = @ \cup requeued]
    /\ Jump(s, "run", [local[s] EXCEPT !.hand = {}])
    /\ UNCHANGED <<turnVars, next_turn_mail, pending_approvals, queueVars, continuation_lock,
                   taskVars, dropped>>

\* A final answer was shown: mail waits for the next turn, unless input is pending
DeferMailbox(s) ==
    /\ pc[s] = "run" /\ kind[s] = "regular"
    /\ s \in tasks
    /\ pending_input[active_turn] = {}
    /\ next_turn_mail' = [next_turn_mail EXCEPT ![active_turn] = TRUE]
    /\ UNCHANGED <<turnVars, pending_input, pending_approvals, queueVars, continuation_lock,
                   pc, local, taskVars, owed, dropped>>

\* A tool call: mail may join this turn again
AcceptMailbox(s) ==
    /\ pc[s] = "run" /\ kind[s] = "regular"
    /\ s \in tasks
    /\ next_turn_mail' = [next_turn_mail EXCEPT ![active_turn] = FALSE]
    /\ UNCHANGED <<turnVars, pending_input, pending_approvals, queueVars, continuation_lock,
                   pc, local, taskVars, owed, dropped>>

\* request_command_approval: the sender goes into the turn that is active now
RequestApproval(s) ==
    /\ pc[s] = "run"
    /\ active_turn # None
    /\ pending_approvals' = [pending_approvals EXCEPT ![active_turn] = @ \cup {s}]
    /\ Goto(s, "approval")
    /\ UNCHANGED <<turnVars, pending_input, next_turn_mail, queueVars, continuation_lock,
                   local, taskVars, owed, dropped>>

\* The turn's state was cleared or dropped with the sender in it: Abort
ApprovalDropped(s) ==
    /\ pc[s] = "approval"
    /\ \A o \in TurnIds : Unused(o) \/ s \notin pending_approvals[o]
    /\ pending_approvals' = [o \in TurnIds |-> pending_approvals[o] \ {s}]
    /\ Goto(s, "run")
    /\ UNCHANGED <<turnVars, pending_input, next_turn_mail, queueVars, continuation_lock,
                   local, taskVars, owed, dropped>>

\* run observes the cancellation and returns; at the start of a turn, in the wait for the
\* session's prewarmed connection, its input goes with it
RunCancelled(s) ==
    /\ pc[s] \in {"begin", "run", "approval"}
    /\ s \in cancelled
    /\ pending_approvals' = [o \in TurnIds |-> pending_approvals[o] \ {s}]
    /\ Jump(s, "finish", [local[s] EXCEPT !.hand = {}])
    /\ UNCHANGED <<turnVars, pending_input, next_turn_mail, queueVars, continuation_lock,
                   taskVars, owed, dropped>>

\* A task that does not read pending input returns when it is done
RunReturns(s) ==
    /\ pc[s] = "run" /\ kind[s] # "regular"
    /\ Goto(s, "finish")
    /\ UNCHANGED <<turnVars, stateVars, queueVars, continuation_lock, local, taskVars,
                   owed, dropped>>

\* run_turn is over: has_pending_input, first half
HasTurnInput(s) ==
    /\ pc[s] = "run" /\ kind[s] = "regular"
    /\ active_turn # None => pending_input[active_turn] = {}
    /\ Goto(s, IF active_turn # None /\ next_turn_mail[active_turn] THEN "finish" ELSE "check_mail")
    /\ UNCHANGED <<turnVars, stateVars, queueVars, continuation_lock, local, taskVars,
                   owed, dropped>>

\* has_pending_input, second half
HasMail(s) ==
    /\ pc[s] = "check_mail"
    /\ Goto(s, IF mailbox = {} THEN "finish" ELSE "run")
    /\ UNCHANGED <<turnVars, stateVars, queueVars, continuation_lock, local, taskVars,
                   owed, dropped>>

\* Variant with a bug: a failed flush ends the task at once
FinishRun_ReturnsEarly(s) ==
    /\ pc[s] = "finish"
    /\ \E flushed \in BOOLEAN :
          Goto(s, IF s \in cancelled \/ ~flushed THEN "idle" ELSE "remove")
    /\ UNCHANGED <<turnVars, stateVars, queueVars, continuation_lock, local, taskVars,
                   owed, dropped>>

\* The rollout is flushed; a cancelled task leaves the rest to who aborts it
FinishRun(s) ==
    /\ pc[s] = "finish"
    /\ Goto(s, IF s \in cancelled THEN "idle" ELSE "remove")
    /\ UNCHANGED <<turnVars, stateVars, queueVars, continuation_lock, local, taskVars,
                   owed, dropped>>

\* on_task_finished: the last task of the turn will clear the slot
RemoveTask(s) ==
    /\ pc[s] = "remove"
    /\ tasks' = tasks \ {s}
    /\ IF tasks = {s}
       THEN Jump(s, "leftover", [local[s] EXCEPT !.turn = active_turn])
       ELSE Goto(s, "complete") /\ UNCHANGED local
    /\ UNCHANGED <<active_turn, stateVars, queueVars, continuation_lock, taskVars, owed, dropped>>

\* Variant with a bug: late input stays in the turn
TakeLeftover_Skips(s) ==
    /\ pc[s] = "leftover"
    /\ Goto(s, "complete")
    /\ UNCHANGED <<turnVars, stateVars, queueVars, continuation_lock, local, taskVars,
                   owed, dropped>>

\* Input that arrived too late for the model is taken out of the turn
TakeLeftover(s) ==
    /\ pc[s] = "leftover"
    /\ Jump(s, "complete", [local[s] EXCEPT !.hand = pending_input[local[s].turn]])
    /\ pending_input' = [pending_input EXCEPT ![local[s].turn] = {}]
    /\ UNCHANGED <<turnVars, next_turn_mail, pending_approvals, queueVars, continuation_lock,
                   taskVars, owed, dropped>>

\* It is recorded, or discarded by a hook, and TurnComplete is sent
CompleteTurn(s) ==
    /\ pc[s] = "complete"
    /\ owed' = owed \ local[s].hand
    /\ reported' = [reported EXCEPT ![s] = @ \cup {"complete"}]
    /\ IF local[s].turn = None
       THEN Return(s)
       ELSE Jump(s, "clear", [local[s] EXCEPT !.hand = {}])
    /\ UNCHANGED <<turnVars, stateVars, queueVars, continuation_lock, kind, cancelled, dropped>>

\* The slot is emptied if it still has this turn, and an idle session continues
ClearActiveTurn(s) ==
    /\ pc[s] = "clear"
    /\ IF EmptyTurn(local[s].turn)
       THEN /\ EmptySlot
            /\ Jump(s, "work", [Blank EXCEPT !.continue = TRUE])
       ELSE Return(s) /\ UNCHANGED turnVars
    /\ UNCHANGED <<stateVars, queueVars, continuation_lock, taskVars, owed, dropped>>

-----------------------------------------------------------------------------
LoopStep ==
    \/ \E i \in UserItems : SteerInput(i) \/ SpawnForInput(i)
    \/ \E k \in SpawnKinds : SpawnTask(k)
    \/ Interrupt
    \/ \E i \in MailItems : InterAgentCommunication(i)
    \/ \E i \in Notes : ApproveDeniedAction(i)
    \/ \E s \in Subs : NotifyApproval(s)

ClientStep(c) ==
    \/ \E i \in Notes : InjectNote(c, i)
    \/ ContinueIfIdle(c)
    \/ \E s \in Subs : GuardianInterrupt(c, s)

AbortStep(p) == \/ TakeActiveTurn(p) \/ TakeIfActive(p) \/ CancelTask(p) \/ AbortTask(p)
                \/ ClearPending(p)

StartStep(p) == \/ CheckPendingWork(p) \/ ReserveTurn(p) \/ TakeQueuedItems(p)
                \/ StartTakeTurnInput(p) \/ StartDrainMailbox(p) \/ JoinTurn(p)
                \/ PushItems(p) \/ LaunchTask(p)

GoalStep(p) == \/ GoalCandidate(p) \/ GoalReserve(p) \/ GoalReread(p) \/ StillReserved(p)
               \/ ClearReserved(p)

RunStep(s) == \/ RecordInput(s) \/ GiveUpTurn(s)
              \/ GetPendingInput(s) \/ TaskDrainMailbox(s) \/ InspectPendingInput(s)
              \/ DeferMailbox(s) \/ AcceptMailbox(s) \/ RequestApproval(s)
              \/ ApprovalDropped(s) \/ RunCancelled(s) \/ RunReturns(s)
              \/ HasTurnInput(s) \/ HasMail(s)

FinishStep(s) == \/ FinishRun(s) \/ RemoveTask(s) \/ TakeLeftover(s) \/ CompleteTurn(s)
                 \/ ClearActiveTurn(s)

Next == \/ LoopStep
        \/ \E c \in Clients : ClientStep(c)
        \/ \E p \in Procs : AbortStep(p) \/ StartStep(p) \/ GoalStep(p)
        \/ \E s \in Subs : RunStep(s) \/ FinishStep(s)

Spec == Init /\ [][Next]_vars

\* Every call in progress and every finishing task is run to its end by tokio, and
\* the graceful-interruption timeout fires; a running turn need not make progress
Fairness ==
    /\ \A p \in Procs : WF_vars(AbortStep(p)) /\ WF_vars(StartStep(p)) /\ WF_vars(GoalStep(p))
    /\ \A s \in Subs : WF_vars(FinishStep(s))

FairSpec == Spec /\ Fairness

-----------------------------------------------------------------------------
(***************************************************************************)
(* Properties.                                                             *)
(***************************************************************************)

\* Points of a task before on_task_finished has removed it from its turn
RunningPcs == {"begin", "run", "drain_mail", "inspect", "approval", "check_mail", "finish",
               "remove"}

\* Tasks that somebody has drained from a turn and is going to abort, or aborts
Aborting(p) == local[p].doomed \cup (IF pc[p] = "wait" THEN {local[p].victim} ELSE {})

\* However starts, finishes and aborts interleave, a task that still runs is in
\* the session's slot or in the hands of one call that aborts it: an interrupt
\* always reaches it, and no other turn's end can take it away.
TasksReachable ==
    \A s \in Subs : pc[s] \in RunningPcs => s \in tasks \/ \E p \in Procs : s \in Aborting(p)

\* A task in the slot is alive: input steered into it will be read or recorded.
NoDeadTask ==
    /\ tasks # {} => active_turn # None
    /\ \A s \in tasks : pc[s] \in RunningPcs

\* "Session has at most one Task running at a time" (docs/protocol_v1.md), the
\* debug_asserts of start_task.
OneTaskAtATime == Cardinality(tasks) =< 1

\* User input that the session accepted, steered or as a new turn, is recorded,
\* blocked by a hook or discarded with a turn or a task that is aborted: it never
\* disappears in the hand-over between a finishing task, an abort and the next
\* start.  The one exception is in run_turn: a turn that gives up before it records
\* its own initial input loses that input, and never what was steered into it.
UserInputKept == owed \subseteq InPlace \cup dropped

\* A task of the active turn that waits for an approval can be answered: the
\* sender is in the state of the turn in the slot.
ApprovalAnswerable == \A s \in tasks : pc[s] = "approval" => s \in pending_approvals[active_turn]

\* "If interrupt=false and the target's turn has not completed, the message is
\* queued and starts the target's next turn after the current turn completes"
\* (tools/src/agent_tool.rs): no trigger mail waits in a session at rest.
AtRest == active_turn = None /\ \A p \in Procs : pc[p] = "idle"
TriggerMailStartsTurn == AtRest => mailbox \cap TriggerMail = {}

\* No turn ends silently: a task that stops has reported its end, or leaves it to a
\* call that aborts it and has not reported it yet (on_task_finished does nothing for
\* a task that was cancelled).
EndReported ==
    [][\A s \in Subs :
          pc[s] \in TaskPcs /\ pc'[s] \notin TaskPcs
            => reported'[s] # {} \/ \E p \in Procs : s \in Aborting(p)']_vars

\* An abort always ends: what a call drained from a turn is dead and reported.
AbortEnds == \A s \in Subs : (\E p \in Procs : s \in Aborting(p)) ~> "aborted" \in reported[s]

\* The slot is never left with a turn that has no task: a reserved turn gets its
\* task or is given up, and a finished one is cleared.
EmptyTurnSettles == (active_turn # None /\ tasks = {}) ~> (active_turn = None \/ tasks # {})

=============================================================================
