------------------------- MODULE SessionTurnsProofs -------------------------
(***************************************************************************)
(* Proofs about SessionTurns, for every set of clients, task ids, turns    *)
(* and items, with and without goals: every running task can be aborted,   *)
(* the slot never holds a dead one, and a task in it that waits for an     *)
(* approval can be answered.                                               *)
(*                                                                         *)
(* None is inductive.  That a task is in the slot or owned by a call       *)
(* that aborts it (TasksReachable) is kept because a call that is killed   *)
(* or returns owns nothing (OneOwner), and that a task in the slot lives   *)
(* (NoDeadTask) because its token has not fired and its approvals are its  *)
(* own (SlotUncancelled, Approvals).  An approval stays answerable because *)
(* a call clears a turn only after it is gone from the slot for good       *)
(* (AbortedTurnGone).  And no turn ends silently (EndReported): a task     *)
(* that clears the slot has reported its end (ClearReported), and one that *)
(* is cancelled is owned by a call that has yet to report it.              *)
(***************************************************************************)
EXTENDS SessionTurns, TLAPS

\* A task has one owner: the slot or one call that aborts it.  What is owned by
\* such a call is no call itself, and does not clear a slot when it finishes.
OneOwner ==
    \A p \in Procs :
       /\ tasks \cap Aborting(p) = {}
       /\ pc[p] = "wait" => local[p].victim \notin local[p].doomed
       /\ pc[p] \notin {"cancel", "wait"} => local[p].doomed = {}
       /\ \A q \in Procs : q # p => Aborting(p) \cap Aborting(q) = {}
       /\ \A s \in Aborting(p) :
             pc[s] \in RunningPcs \cup {"complete", "idle"} /\ local[s].turn = None

SlotUncancelled == tasks \cap cancelled = {}

RunsWithoutTurn == \A s \in Subs : pc[s] \in RunningPcs => local[s].turn = None

\* The sender of a pending approval is in one turn's state, and its task waits.
Approvals ==
    \A s \in Subs : \A o \in TurnIds :
       s \in pending_approvals[o] =>
          /\ pc[s] = "approval"
          /\ \A q \in TurnIds : s \in pending_approvals[q] => q = o

\* The turn that a call has taken out of the slot, and will clear, is not active.
AbortPcs == {"cancel", "wait", "clear_pending"}
AbortedTurnGone ==
    \A p \in Procs : pc[p] \in AbortPcs => local[p].turn = None \/ local[p].turn # active_turn

Owned == NoDeadTask /\ TasksReachable /\ OneOwner /\ SlotUncancelled /\ RunsWithoutTurn

IInv == TypeOK /\ Owned /\ Approvals

AnswerInv == IInv /\ AbortedTurnGone /\ ApprovalAnswerable

-----------------------------------------------------------------------------
(***************************************************************************)
(* Locals.                                                                 *)
(***************************************************************************)

\* Turns are allocated from TurnIds, and the processes include the loop, the
\* clients and the tasks.
LEMMA Allocation == /\ Allocatable => FreshTurn \in TurnIds
                    /\ Loop \in Procs /\ Clients \subseteq Procs /\ Subs \subseteq Procs
BY DEF Allocatable, FreshTurn, Procs

\* The fields of a process's locals.
LEMMA Fields ==
    ASSUME NEW l \in Locals
    PROVE  /\ l.turn \in TurnIds \cup {None}
           /\ l.hand \subseteq Items
           /\ l.input \subseteq UserItems
           /\ l.kind \in Kinds
           /\ l.doomed \subseteq Subs
           /\ l.victim \in Subs \cup {None}
           /\ l.replace \in BOOLEAN
           /\ l.continue \in BOOLEAN
BY DEF Locals

\* Assigning the turn: what is owned stays.
LEMMA SetTurn ==
    ASSUME NEW l \in Locals, NEW o \in TurnIds \cup {None}
    PROVE  /\ [l EXCEPT !.turn = o] \in Locals
           /\ [l EXCEPT !.turn = o].turn = o
           /\ [l EXCEPT !.turn = o].doomed = l.doomed
           /\ [l EXCEPT !.turn = o].victim = l.victim
BY DEF Locals

\* Assigning the items in hand: turn and what is owned stay.
LEMMA SetHand ==
    ASSUME NEW l \in Locals, NEW h \in SUBSET Items
    PROVE  /\ [l EXCEPT !.hand = h] \in Locals
           /\ [l EXCEPT !.hand = h].turn = l.turn
           /\ [l EXCEPT !.hand = h].doomed = l.doomed
           /\ [l EXCEPT !.hand = h].victim = l.victim
BY DEF Locals

\* Assigning the task being aborted.
LEMMA SetVictim ==
    ASSUME NEW l \in Locals, NEW v \in Subs \cup {None}
    PROVE  /\ [l EXCEPT !.victim = v] \in Locals
           /\ [l EXCEPT !.victim = v].turn = l.turn
           /\ [l EXCEPT !.victim = v].doomed = l.doomed
           /\ [l EXCEPT !.victim = v].victim = v
BY DEF Locals

\* Taking the next task to abort out of the drained ones.
LEMMA NextVictim ==
    ASSUME NEW l \in Locals, NEW v \in Subs \cup {None}
    PROVE  /\ [l EXCEPT !.victim = v, !.doomed = l.doomed \ {v}] \in Locals
           /\ [l EXCEPT !.victim = v, !.doomed = l.doomed \ {v}].turn = l.turn
           /\ [l EXCEPT !.victim = v, !.doomed = l.doomed \ {v}].doomed = l.doomed \ {v}
           /\ [l EXCEPT !.victim = v, !.doomed = l.doomed \ {v}].victim = v
BY DEF Locals

\* Draining the slot into the locals.
LEMMA SetDoomed ==
    ASSUME NEW l \in Locals, NEW d \in SUBSET Subs, NEW o \in TurnIds \cup {None}
    PROVE  /\ [l EXCEPT !.doomed = d, !.victim = None, !.turn = o] \in Locals
           /\ [l EXCEPT !.doomed = d, !.victim = None, !.turn = o].doomed = d
           /\ [l EXCEPT !.doomed = d, !.victim = None, !.turn = o].turn = o
BY DEF Locals

\* Locals with no turn, owning nothing.
Clean(l) == l \in Locals /\ l.turn = None /\ l.doomed = {}

\* The locals an operation begins with, and a task that is launched, are clean.
LEMMA CleanLocals ==
    /\ Clean(Blank)
    /\ Clean([Blank EXCEPT !.continue = TRUE])
    /\ Clean([Blank EXCEPT !.continue = FALSE])
    /\ \A h \in SUBSET Items : Clean([Blank EXCEPT !.hand = h])
    /\ \A i \in UserItems : Clean([Blank EXCEPT !.input = {i}, !.replace = TRUE])
    /\ \A k \in Kinds : Clean([Blank EXCEPT !.kind = k, !.replace = TRUE])
    /\ \A s \in Subs : /\ Clean([Blank EXCEPT !.victim = s])
                       /\ [Blank EXCEPT !.victim = s].victim = s
BY DEF Clean, Blank, Locals, Kinds

\* A process that moves without touching its locals jumps with the same locals.
LEMMA GotoIsJump ==
    ASSUME local \in [Procs -> Locals], NEW p \in Procs, NEW label, Goto(p, label),
           UNCHANGED local
    PROVE  Jump(p, label, local[p])
BY DEF Jump

\* A jump to a point that finds in the locals what it looks at keeps the types.
LEMMA JumpType ==
    ASSUME TypeOK, NEW p \in Procs, NEW label \in Pcs, NEW l \in Locals, Jump(p, label, l),
           label \in TurnPcs => l.turn # None,
           label \in VictimPcs => l.victim # None
    PROVE  pc' \in [Procs -> Pcs] /\ local' \in [Procs -> Locals] /\ LocalsReady'
BY DEF TypeOK, Jump, Goto, LocalsReady

-----------------------------------------------------------------------------
(***************************************************************************)
(* Type correctness.                                                       *)
(***************************************************************************)

\* What the submission loop and the clients do keeps the types.
LEMMA TypeOperations ==
    ASSUME TypeOK, LoopStep \/ \E c \in Clients : ClientStep(c)
    PROVE  TypeOK'
<1> USE Allocation, ProcsDistinct, FlagsType
<1> USE DEF TypeOK, turnVars, stateVars, queueVars, taskVars, Items, MailItems
<1>pcs. {"take", "work", "take_if", "run"} \subseteq Pcs
  BY DEF Pcs, TaskPcs, CallPcs
<1>labels. {"take", "work", "run"} \cap (TurnPcs \cup VictimPcs) = {} /\ "take_if" \notin TurnPcs
  BY DEF TurnPcs, VictimPcs
<1>begin. ASSUME NEW p \in Procs, NEW label \in {"take", "work"}, NEW l, Clean(l), Begin(p, label, l)
          PROVE  pc' \in [Procs -> Pcs] /\ local' \in [Procs -> Locals] /\ LocalsReady'
  BY <1>begin, <1>pcs, <1>labels, JumpType DEF Begin, Clean
<1>1. ASSUME NEW i \in UserItems, SteerInput(i) PROVE TypeOK'
  BY <1>1 DEF SteerInput, LocalsReady
<1>2. ASSUME NEW i \in UserItems, SpawnForInput(i) PROVE TypeOK'
  BY <1>2, <1>begin, CleanLocals DEF SpawnForInput
<1>3. ASSUME NEW k \in SpawnKinds, SpawnTask(k) PROVE TypeOK'
  BY <1>3, <1>begin, CleanLocals DEF SpawnTask
<1>4. CASE Interrupt
  BY <1>4, <1>begin, CleanLocals DEF Interrupt
<1>5. ASSUME NEW i \in MailItems, InterAgentCommunication(i) PROVE TypeOK'
  <2>1. pc' \in [Procs -> Pcs] /\ local' \in [Procs -> Locals] /\ LocalsReady'
    <3>1. CASE i \in TriggerMail
      <4>1. Begin(Loop, "work", Blank) /\ Clean(Blank)
        BY <1>5, <3>1, CleanLocals DEF InterAgentCommunication
      <4> QED BY <4>1, <1>begin
    <3>2. CASE i \notin TriggerMail
      <4>1. UNCHANGED <<pc, local>>
        BY <1>5, <3>2 DEF InterAgentCommunication
      <4> QED BY <4>1 DEF LocalsReady
    <3> QED BY <3>1, <3>2
  <2> QED BY <1>5, <2>1 DEF InterAgentCommunication
<1>6. ASSUME NEW i \in Notes, ApproveDeniedAction(i) PROVE TypeOK'
  <2>1. LocalsReady'
    BY <1>6 DEF ApproveDeniedAction, LocalsReady
  <2>2. pending_input' \in [TurnIds -> SUBSET Items] /\ idle_pending_input' \subseteq Items
    BY <1>6 DEF ApproveDeniedAction, Inject
  <2> QED BY <1>6, <2>1, <2>2 DEF ApproveDeniedAction
<1>7. ASSUME NEW s \in Subs, NotifyApproval(s) PROVE TypeOK'
  <2>1. pc' \in [Procs -> Pcs] /\ local' \in [Procs -> Locals] /\ LocalsReady'
    BY <1>7, <1>pcs, <1>labels, GotoIsJump, JumpType DEF NotifyApproval
  <2> QED BY <1>7, <2>1 DEF NotifyApproval
<1>8. ASSUME NEW c \in Clients, NEW i \in Notes, InjectNote(c, i) PROVE TypeOK'
  BY <1>8 DEF InjectNote, Inject, LocalsReady
<1>9. ASSUME NEW c \in Clients, ContinueIfIdle(c) PROVE TypeOK'
  BY <1>9, <1>begin, CleanLocals DEF ContinueIfIdle
<1>10. ASSUME NEW c \in Clients, NEW s \in Subs, GuardianInterrupt(c, s) PROVE TypeOK'
  <2>1. s # None
    BY DEF Procs
  <2>2. pc' \in [Procs -> Pcs] /\ local' \in [Procs -> Locals] /\ LocalsReady'
    BY <1>10, <2>1, <1>pcs, <1>labels, CleanLocals, JumpType DEF GuardianInterrupt, Begin, Clean
  <2> QED BY <1>10, <2>2 DEF GuardianInterrupt
<1> QED BY <1>1, <1>2, <1>3, <1>4, <1>5, <1>6, <1>7, <1>8, <1>9, <1>10 DEF LoopStep, ClientStep

\* Aborting the tasks of a turn keeps the types.
LEMMA TypeAbort ==
    ASSUME TypeOK, NEW p \in Procs, AbortStep(p)
    PROVE  TypeOK'
<1> USE Allocation, ProcsDistinct
<1> USE DEF TypeOK, turnVars, stateVars, queueVars, taskVars
<1>pcs. {"clear_pending", "cancel", "wait", "queued", "work", "idle"} \subseteq Pcs
  BY DEF Pcs, TaskPcs, CallPcs
<1>labels. /\ {"clear_pending", "cancel", "queued", "work", "idle"} \cap (TurnPcs \cup VictimPcs) = {}
           /\ "wait" \notin TurnPcs
  BY DEF TurnPcs, VictimPcs
<1>l. local[p] \in Locals
  OBVIOUS
<1>return. Return(p) => pc' \in [Procs -> Pcs] /\ local' \in [Procs -> Locals] /\ LocalsReady'
  BY <1>pcs, <1>labels, CleanLocals, JumpType DEF Return, Clean
<1>drain. ASSUME Drain(p)
          PROVE  /\ pc' \in [Procs -> Pcs] /\ local' \in [Procs -> Locals] /\ LocalsReady'
                 /\ active_turn' = None /\ tasks' = {} /\ owed' \subseteq UserItems
  <2>1. (IF tasks = {} THEN None ELSE active_turn) \in TurnIds \cup {None}
    OBVIOUS
  <2>2. owed' \subseteq UserItems
    BY <1>drain DEF Drain
  <2> QED BY <1>drain, <1>l, <1>pcs, <1>labels, <2>1, <2>2, SetDoomed, JumpType DEF Drain, EmptySlot
<1>1. CASE TakeActiveTurn(p)
  BY <1>1, <1>drain DEF TakeActiveTurn
<1>2. CASE TakeIfActive(p)
  BY <1>2, <1>drain, <1>return DEF TakeIfActive
<1>3. CASE CancelTask(p)
  <2>1. PICK s \in local[p].doomed :
           /\ cancelled' = cancelled \cup {s}
           /\ Jump(p, "wait", [local[p] EXCEPT !.victim = s, !.doomed = local[p].doomed \ {s}])
    BY <1>3 DEF CancelTask
  <2>2. s \in Subs /\ s # None
    BY <1>l, Fields DEF Procs
  <2>3. /\ [local[p] EXCEPT !.victim = s, !.doomed = local[p].doomed \ {s}] \in Locals
        /\ [local[p] EXCEPT !.victim = s, !.doomed = local[p].doomed \ {s}].victim = s
    BY <1>l, <2>2, NextVictim
  <2>4. pc' \in [Procs -> Pcs] /\ local' \in [Procs -> Locals] /\ LocalsReady'
    BY <1>pcs, <1>labels, <2>1, <2>2, <2>3, JumpType
  <2> QED BY <1>3, <2>1, <2>2, <2>4 DEF CancelTask
<1>4. CASE AbortTask(p)
  <2>1. local[p].victim \in Subs
    BY <1>4, <1>l, Fields DEF AbortTask, LocalsReady, VictimPcs
  <2>2. [local[p] EXCEPT !.victim = None] \in Locals /\ Blank \in Locals
    BY <1>l, SetVictim, CleanLocals DEF Clean
  <2>3. local' \in [Procs -> Locals] /\ pc' \in [Procs -> Pcs]
    BY <1>4, <1>pcs, <2>1, <2>2 DEF AbortTask
  <2>4. LocalsReady'
    BY <1>4, <1>labels, <2>1 DEF AbortTask, LocalsReady
  <2> QED BY <1>4, <2>1, <2>3, <2>4 DEF AbortTask
<1>5. CASE ClearPending(p)
  <2>1. pc' \in [Procs -> Pcs] /\ local' \in [Procs -> Locals] /\ LocalsReady'
    BY <1>5, <1>l, <1>pcs, <1>labels, <1>return, SetTurn, JumpType DEF ClearPending, AfterAbort
  <2>2. /\ pending_input' \in [TurnIds -> SUBSET Items]
        /\ pending_approvals' \in [TurnIds -> SUBSET Subs]
        /\ next_turn_mail' = next_turn_mail
        /\ owed' \subseteq UserItems
    BY <1>5, <1>l, Fields DEF ClearPending
  <2> QED BY <1>5, <2>1, <2>2 DEF ClearPending
<1> QED BY <1>1, <1>2, <1>3, <1>4, <1>5 DEF AbortStep

\* Starting a turn for pending work, and start_task, keep the types.
LEMMA TypeStart ==
    ASSUME TypeOK, NEW p \in Procs, StartStep(p)
    PROVE  TypeOK'
<1> USE Allocation, ProcsDistinct
<1> USE DEF TypeOK, turnVars, stateVars, queueVars, taskVars
<1>pcs. {"candidate", "reserve", "queued", "turn_input", "mail", "join", "push", "launch", "idle",
         "run", "begin"} \subseteq Pcs
  BY DEF Pcs, TaskPcs, CallPcs
<1>labels. {"candidate", "reserve", "queued", "turn_input", "mail", "join", "idle", "run", "begin"}
             \cap (TurnPcs \cup VictimPcs) = {} /\ {"push", "launch"} \cap VictimPcs = {}
  BY DEF TurnPcs, VictimPcs
<1>l. local[p] \in Locals
  OBVIOUS
<1>leave. Leave(p) => pc' \in [Procs -> Pcs] /\ local' \in [Procs -> Locals] /\ LocalsReady'
  BY <1>pcs, <1>labels, CleanLocals, JumpType DEF Leave, Return, Clean
<1>goto. \A label \in {"reserve", "queued", "mail"} : Goto(p, label) /\ UNCHANGED local =>
            pc' \in [Procs -> Pcs] /\ local' \in [Procs -> Locals] /\ LocalsReady'
  BY <1>l, <1>pcs, <1>labels, GotoIsJump, JumpType
<1>install. ASSUME NEW o \in TurnIds, InstallTurn(o)
            PROVE  /\ active_turn' \in TurnIds
                   /\ pending_input' \in [TurnIds -> SUBSET Items]
                   /\ next_turn_mail' \in [TurnIds -> BOOLEAN]
                   /\ pending_approvals' \in [TurnIds -> SUBSET Subs]
  BY <1>install DEF InstallTurn
<1>1. CASE CheckPendingWork(p)
  BY <1>1, <1>leave, <1>goto DEF CheckPendingWork
<1>2. CASE ReserveTurn(p)
  BY <1>2, <1>leave, <1>goto, <1>install DEF ReserveTurn
<1>3. CASE TakeQueuedItems(p)
  <2>1. pc' \in [Procs -> Pcs] /\ local' \in [Procs -> Locals] /\ LocalsReady'
    BY <1>3, <1>l, <1>pcs, <1>labels, SetHand, JumpType DEF TakeQueuedItems
  <2> QED BY <1>3, <2>1 DEF TakeQueuedItems
<1>4. CASE StartTakeTurnInput(p)
  <2>1. CASE active_turn = None
    BY <1>4, <2>1, <1>goto DEF StartTakeTurnInput, TakeTurnInput
  <2>2. CASE active_turn # None
    <3>1. local[p].hand \cup pending_input[active_turn] \in SUBSET Items
      BY <1>l, <2>2, Fields
    <3>2. pc' \in [Procs -> Pcs] /\ local' \in [Procs -> Locals] /\ LocalsReady'
      BY <1>4, <1>l, <1>pcs, <1>labels, <2>2, <3>1, SetHand, JumpType
         DEF StartTakeTurnInput, TakeTurnInput
    <3> QED BY <1>4, <2>2, <3>2 DEF StartTakeTurnInput, TakeTurnInput
  <2> QED BY <2>1, <2>2
<1>5. CASE StartDrainMailbox(p)
  <2>1. local[p].hand \cup mailbox \in SUBSET Items
    BY <1>l, Fields DEF Items
  <2>2. pc' \in [Procs -> Pcs] /\ local' \in [Procs -> Locals] /\ LocalsReady'
    BY <1>5, <1>l, <1>pcs, <1>labels, <2>1, SetHand, JumpType DEF StartDrainMailbox, DrainMailbox
  <2> QED BY <1>5, <2>2 DEF StartDrainMailbox, DrainMailbox
<1>6. CASE JoinTurn(p)
  <2>1. PICK o \in TurnIds :
           /\ Jump(p, "push", [local[p] EXCEPT !.turn = o])
           /\ IF active_turn = None THEN InstallTurn(o) ELSE UNCHANGED <<active_turn, stateVars>>
    BY <1>6 DEF JoinTurn
  <2>2. pc' \in [Procs -> Pcs] /\ local' \in [Procs -> Locals] /\ LocalsReady'
    <3>1. [local[p] EXCEPT !.turn = o] \in Locals /\ [local[p] EXCEPT !.turn = o].turn = o
      BY <1>l, SetTurn
    <3> QED BY <1>pcs, <1>labels, <2>1, <3>1, JumpType
  <2> QED BY <1>6, <1>install, <2>1, <2>2 DEF JoinTurn
<1>7. CASE PushItems(p)
  <2>1. local[p].turn \in TurnIds /\ local[p].turn # None /\ local[p].hand \subseteq Items
    BY <1>7, <1>l, Fields DEF PushItems, LocalsReady, TurnPcs
  <2>2. pc' \in [Procs -> Pcs] /\ local' \in [Procs -> Locals] /\ LocalsReady'
    <3>1. /\ [local[p] EXCEPT !.hand = {}] \in Locals
          /\ [local[p] EXCEPT !.hand = {}].turn = local[p].turn
      BY <1>l, SetHand
    <3> QED BY <1>7, <1>pcs, <1>labels, <2>1, <3>1, JumpType DEF PushItems
  <2> QED BY <1>7, <2>1, <2>2 DEF PushItems
<1>8. CASE LaunchTask(p)
  <2>1. PICK s \in Subs :
           /\ tasks' = tasks \cup {s}
           /\ kind' = [kind EXCEPT ![s] = local[p].kind]
           /\ cancelled' = cancelled \ {s}
           /\ reported' = [reported EXCEPT ![s] = {}]
           /\ pc' = [pc EXCEPT ![s] = IF local[p].input = {} THEN "run" ELSE "begin",
                               ![p] = IF local[p].continue THEN "candidate" ELSE "idle"]
           /\ local' = [local EXCEPT ![s] = [Blank EXCEPT !.hand = local[p].input],
                                     ![p] = [Blank EXCEPT !.continue = local[p].continue]]
    BY <1>8 DEF LaunchTask
  <2>2. [Blank EXCEPT !.hand = local[p].input] \in Locals
    BY <1>l, Fields, CleanLocals DEF Clean, Items
  <2>3. [Blank EXCEPT !.continue = local[p].continue] \in Locals
    BY <1>l, Fields, CleanLocals DEF Clean
  <2>4. pc' \in [Procs -> Pcs] /\ local' \in [Procs -> Locals]
    BY <1>pcs, <2>1, <2>2, <2>3
  <2>5. LocalsReady'
    BY <1>labels, <2>1 DEF LocalsReady
  <2>6. kind' \in [Subs -> Kinds] /\ cancelled' \subseteq Subs /\ tasks' \subseteq Subs
        /\ reported' \in [Subs -> SUBSET {"complete", "aborted"}]
    BY <1>l, <2>1, Fields
  <2>7. /\ active_turn' \in TurnIds \cup {None}
        /\ pending_input' \in [TurnIds -> SUBSET Items]
        /\ next_turn_mail' \in [TurnIds -> BOOLEAN]
        /\ pending_approvals' \in [TurnIds -> SUBSET Subs]
        /\ continuation_lock' \in Procs \cup {None}
        /\ UNCHANGED <<queueVars, owed, dropped>>
    BY <1>8, <1>install DEF LaunchTask
  <2> QED BY <2>4, <2>5, <2>6, <2>7
<1> QED BY <1>1, <1>2, <1>3, <1>4, <1>5, <1>6, <1>7, <1>8 DEF StartStep

\* Continuing a goal keeps the types.
LEMMA TypeGoal ==
    ASSUME TypeOK, NEW p \in Procs, GoalStep(p)
    PROVE  TypeOK'
<1> USE Allocation, ProcsDistinct
<1> USE DEF TypeOK, turnVars, stateVars, queueVars, taskVars
<1>pcs. {"goal_reserve", "reread", "reserved", "unreserve", "queued", "idle"} \subseteq Pcs
  BY DEF Pcs, TaskPcs, CallPcs
<1>labels. /\ {"goal_reserve", "queued", "idle"} \cap (TurnPcs \cup VictimPcs) = {}
           /\ {"reread", "reserved", "unreserve"} \cap VictimPcs = {}
  BY DEF TurnPcs, VictimPcs
<1>l. local[p] \in Locals
  OBVIOUS
<1>return. Return(p) => pc' \in [Procs -> Pcs] /\ local' \in [Procs -> Locals] /\ LocalsReady'
  BY <1>pcs, <1>labels, CleanLocals, JumpType DEF Return, Clean
<1>goto. \A label \in {"reserved", "unreserve"} :
            pc[p] \in TurnPcs /\ Goto(p, label) /\ UNCHANGED local =>
              pc' \in [Procs -> Pcs] /\ local' \in [Procs -> Locals] /\ LocalsReady'
  BY <1>l, <1>pcs, <1>labels, GotoIsJump, JumpType DEF LocalsReady
<1>1. CASE GoalCandidate(p)
  <2>1. CASE Return(p) /\ UNCHANGED continuation_lock
    BY <1>1, <2>1, <1>return DEF GoalCandidate
  <2>2. CASE continuation_lock' = p /\ Jump(p, "goal_reserve", Blank)
    <3>1. pc' \in [Procs -> Pcs] /\ local' \in [Procs -> Locals] /\ LocalsReady'
      BY <1>pcs, <1>labels, <2>2, CleanLocals, JumpType DEF Clean
    <3> QED BY <1>1, <2>2, <3>1 DEF GoalCandidate
  <2> QED BY <1>1, <2>1, <2>2 DEF GoalCandidate
<1>2. CASE GoalReserve(p)
  <2>1. CASE active_turn # None
    BY <1>2, <2>1, <1>return DEF GoalReserve
  <2>2. CASE active_turn = None
    <3>1. pc' \in [Procs -> Pcs] /\ local' \in [Procs -> Locals] /\ LocalsReady'
      <4>1. PICK o \in TurnIds : Jump(p, "reread", [local[p] EXCEPT !.turn = o])
        BY <1>2, <2>2 DEF GoalReserve
      <4>2. [local[p] EXCEPT !.turn = o] \in Locals /\ [local[p] EXCEPT !.turn = o].turn = o
        BY <1>l, SetTurn
      <4> QED BY <1>pcs, <1>labels, <4>1, <4>2, JumpType
    <3> QED BY <1>2, <2>2, <3>1 DEF GoalReserve, InstallTurn
  <2> QED BY <2>1, <2>2
<1>3. CASE GoalReread(p)
  <2>1. local[p].turn \in TurnIds /\ pc[p] \in TurnPcs
    BY <1>3, <1>l, Fields DEF GoalReread, LocalsReady, TurnPcs
  <2>2. pc' \in [Procs -> Pcs] /\ local' \in [Procs -> Locals] /\ LocalsReady'
    BY <1>3, <2>1, <1>goto DEF GoalReread
  <2> QED BY <1>3, <2>1, <2>2 DEF GoalReread, Items
<1>4. CASE StillReserved(p)
  <2>1. pc[p] \in TurnPcs
    BY <1>4 DEF StillReserved, TurnPcs
  <2>2. pc' \in [Procs -> Pcs] /\ local' \in [Procs -> Locals] /\ LocalsReady'
    BY <1>4, <1>l, <1>pcs, <1>labels, <1>goto, <2>1, SetTurn, JumpType DEF StillReserved
  <2> QED BY <1>4, <2>2 DEF StillReserved
<1>5. CASE ClearReserved(p)
  BY <1>5, <1>return DEF ClearReserved, EmptySlot
<1> QED BY <1>1, <1>2, <1>3, <1>4, <1>5 DEF GoalStep

\* A running task keeps the types.
LEMMA TypeRun ==
    ASSUME TypeOK, NoDeadTask, NEW s \in Subs, RunStep(s)
    PROVE  TypeOK'
<1> USE Allocation, ProcsDistinct
<1> USE DEF TypeOK, turnVars, stateVars, queueVars, taskVars
<1>pcs. {"run", "drain_mail", "inspect", "approval", "check_mail", "finish"} \subseteq Pcs
  BY DEF Pcs, TaskPcs, CallPcs
<1>labels. {"run", "drain_mail", "inspect", "approval", "check_mail", "finish"}
             \cap (TurnPcs \cup VictimPcs) = {}
  BY DEF TurnPcs, VictimPcs
<1>l. s \in Procs /\ local[s] \in Locals
  OBVIOUS
<1>goto. \A label \in {"run", "drain_mail", "approval", "check_mail", "finish"} :
            Goto(s, label) /\ UNCHANGED local =>
              pc' \in [Procs -> Pcs] /\ local' \in [Procs -> Locals] /\ LocalsReady'
  BY <1>l, <1>pcs, <1>labels, GotoIsJump, JumpType
<1>1. CASE GetPendingInput(s)
  <2>1. CASE active_turn = None
    BY <1>1, <2>1, <1>goto DEF GetPendingInput, TakeTurnInput
  <2>2. CASE active_turn # None
    <3>1. local[s].hand \cup pending_input[active_turn] \in SUBSET Items
      BY <1>l, <2>2, Fields
    <3>2. pc' \in [Procs -> Pcs] /\ local' \in [Procs -> Locals] /\ LocalsReady'
      BY <1>1, <1>l, <1>pcs, <1>labels, <2>2, <3>1, SetHand, JumpType
         DEF GetPendingInput, TakeTurnInput
    <3> QED BY <1>1, <2>2, <3>2 DEF GetPendingInput, TakeTurnInput
  <2> QED BY <2>1, <2>2
<1>2. CASE TaskDrainMailbox(s)
  <2>1. local[s].hand \cup mailbox \in SUBSET Items
    BY <1>l, Fields DEF Items
  <2>2. pc' \in [Procs -> Pcs] /\ local' \in [Procs -> Locals] /\ LocalsReady'
    BY <1>2, <1>l, <1>pcs, <1>labels, <2>1, SetHand, JumpType DEF TaskDrainMailbox, DrainMailbox
  <2> QED BY <1>2, <2>2 DEF TaskDrainMailbox, DrainMailbox
<1>3. CASE InspectPendingInput(s)
  <2>1. pc' \in [Procs -> Pcs] /\ local' \in [Procs -> Locals] /\ LocalsReady'
    BY <1>3, <1>l, <1>pcs, <1>labels, SetHand, JumpType DEF InspectPendingInput
  <2>2. local[s].hand \subseteq Items
    BY <1>l, Fields
  <2>3. owed' \subseteq owed
    BY <1>3 DEF InspectPendingInput
  <2>4. pending_input' \in [TurnIds -> SUBSET Items]
    BY <1>3, <2>2 DEF InspectPendingInput
  <2> QED BY <1>3, <2>1, <2>3, <2>4 DEF InspectPendingInput
<1>4. CASE DeferMailbox(s)
  BY <1>4 DEF DeferMailbox, NoDeadTask, LocalsReady
<1>5. CASE AcceptMailbox(s)
  BY <1>5 DEF AcceptMailbox, NoDeadTask, LocalsReady
<1>6. CASE RequestApproval(s)
  BY <1>6, <1>goto DEF RequestApproval
<1>7. CASE ApprovalDropped(s)
  BY <1>7, <1>goto DEF ApprovalDropped
<1>8. CASE RunCancelled(s)
  <2>1. pc' \in [Procs -> Pcs] /\ local' \in [Procs -> Locals] /\ LocalsReady'
    BY <1>8, <1>l, <1>pcs, <1>labels, SetHand, JumpType DEF RunCancelled
  <2> QED BY <1>8, <2>1 DEF RunCancelled
<1>9. CASE RunReturns(s)
  BY <1>9, <1>goto DEF RunReturns
<1>10. CASE HasTurnInput(s)
  BY <1>10, <1>goto DEF HasTurnInput
<1>11. CASE HasMail(s)
  BY <1>11, <1>goto DEF HasMail
<1>12. CASE RecordInput(s) \/ GiveUpTurn(s)
  <2>1. pc' \in [Procs -> Pcs] /\ local' \in [Procs -> Locals] /\ LocalsReady'
    BY <1>12, <1>l, <1>pcs, <1>labels, SetHand, JumpType DEF RecordInput, GiveUpTurn
  <2>2. owed' \subseteq owed /\ dropped' \subseteq dropped \cup owed
    BY <1>12 DEF RecordInput, GiveUpTurn
  <2> QED BY <1>12, <2>1, <2>2 DEF RecordInput, GiveUpTurn
<1> QED BY <1>1, <1>2, <1>3, <1>4, <1>5, <1>6, <1>7, <1>8, <1>9, <1>10, <1>11, <1>12 DEF RunStep

\* A finishing task keeps the types: there is a turn to clear when it was the last
\* task of the turn in the slot.
LEMMA TypeFinish ==
    ASSUME TypeOK, NoDeadTask, NEW s \in Subs, FinishStep(s)
    PROVE  TypeOK'
<1> USE Allocation, ProcsDistinct
<1> USE DEF TypeOK, turnVars, stateVars, queueVars, taskVars
<1>pcs. {"idle", "remove", "leftover", "complete", "clear", "work"} \subseteq Pcs
  BY DEF Pcs, TaskPcs, CallPcs
<1>labels. /\ {"idle", "remove", "complete", "work"} \cap (TurnPcs \cup VictimPcs) = {}
           /\ {"leftover", "clear"} \cap VictimPcs = {}
  BY DEF TurnPcs, VictimPcs
<1>l. s \in Procs /\ local[s] \in Locals
  OBVIOUS
<1>return. Return(s) => pc' \in [Procs -> Pcs] /\ local' \in [Procs -> Locals] /\ LocalsReady'
  BY <1>l, <1>pcs, <1>labels, CleanLocals, JumpType DEF Return, Clean
<1>goto. \A label \in {"idle", "remove", "complete"} : Goto(s, label) /\ UNCHANGED local =>
              pc' \in [Procs -> Pcs] /\ local' \in [Procs -> Locals] /\ LocalsReady'
  BY <1>l, <1>pcs, <1>labels, GotoIsJump, JumpType
<1>1. CASE FinishRun(s)
  BY <1>1, <1>goto DEF FinishRun
<1>2. CASE RemoveTask(s)
  <2>1. CASE tasks = {s}
    <3>1. active_turn \in TurnIds /\ active_turn # None
      BY <2>1 DEF NoDeadTask
    <3>2. /\ [local[s] EXCEPT !.turn = active_turn] \in Locals
          /\ [local[s] EXCEPT !.turn = active_turn].turn = active_turn
      BY <1>l, <3>1, SetTurn
    <3>3. pc' \in [Procs -> Pcs] /\ local' \in [Procs -> Locals] /\ LocalsReady'
      BY <1>2, <1>l, <1>pcs, <1>labels, <2>1, <3>1, <3>2, JumpType DEF RemoveTask
    <3> QED BY <1>2, <3>3 DEF RemoveTask
  <2>2. CASE tasks # {s}
    BY <1>2, <2>2, <1>goto DEF RemoveTask
  <2> QED BY <2>1, <2>2
<1>3. CASE TakeLeftover(s)
  <2>1. local[s].turn \in TurnIds
    BY <1>3, <1>l, Fields DEF TakeLeftover, LocalsReady, TurnPcs
  <2>2. pc' \in [Procs -> Pcs] /\ local' \in [Procs -> Locals] /\ LocalsReady'
    BY <1>3, <1>l, <1>pcs, <1>labels, <2>1, SetHand, JumpType DEF TakeLeftover
  <2> QED BY <1>3, <2>1, <2>2 DEF TakeLeftover
<1>4. CASE CompleteTurn(s)
  <2>1. /\ [local[s] EXCEPT !.hand = {}] \in Locals
        /\ [local[s] EXCEPT !.hand = {}].turn = local[s].turn
    BY <1>l, SetHand
  <2>2. pc' \in [Procs -> Pcs] /\ local' \in [Procs -> Locals] /\ LocalsReady'
    BY <1>4, <1>l, <1>pcs, <1>labels, <1>return, <2>1, JumpType DEF CompleteTurn
  <2> QED BY <1>4, <2>2 DEF CompleteTurn
<1>5. CASE ClearActiveTurn(s)
  <2>1. pc' \in [Procs -> Pcs] /\ local' \in [Procs -> Locals] /\ LocalsReady'
    BY <1>5, <1>l, <1>pcs, <1>labels, <1>return, CleanLocals, JumpType DEF ClearActiveTurn, Clean
  <2> QED BY <1>5, <2>1 DEF ClearActiveTurn, EmptySlot
<1> QED BY <1>1, <1>2, <1>3, <1>4, <1>5 DEF FinishStep

\* Every step keeps the variables in their types.
LEMMA TypeStep == ASSUME TypeOK, NoDeadTask, [Next]_vars PROVE TypeOK'
<1>1. CASE UNCHANGED vars
  BY <1>1 DEF vars, TypeOK, LocalsReady, turnVars, stateVars, queueVars, taskVars
<1> QED BY <1>1, TypeOperations, TypeAbort, TypeStart, TypeGoal, TypeRun, TypeFinish DEF Next

-----------------------------------------------------------------------------
(***************************************************************************)
(* Ownership of tasks.                                                     *)
(***************************************************************************)

\* Only tasks are aborted.
LEMMA AbortingTasks == ASSUME TypeOK PROVE \A p \in Procs : Aborting(p) \subseteq Subs
<1> TAKE p \in Procs
<1>1. local[p].doomed \subseteq Subs /\ local[p].victim \in Subs \cup {None}
  BY Fields DEF TypeOK
<1> QED BY <1>1 DEF TypeOK, Aborting, LocalsReady, VictimPcs

\* A step that leaves the tasks, the tokens, the points and the locals alone, and
\* does not take the turn of a task away, keeps the owners.
LEMMA OwnedSame ==
    ASSUME Owned, UNCHANGED <<tasks, cancelled, pc, local>>, tasks # {} => active_turn' # None
    PROVE  Owned'
BY DEF Owned, NoDeadTask, TasksReachable, OneOwner, SlotUncancelled, RunsWithoutTurn, Aborting

\* A jump of a process that owns nothing before and after it, between two points
\* of a running task or two others, keeps the owners.  If the process may itself
\* be owned, it stays at a point of an owned task and without a turn.
LEMMA OwnedJump ==
    ASSUME TypeOK, Owned, NEW p \in Procs, NEW label \in Pcs, NEW l \in Locals, Jump(p, label, l),
           UNCHANGED <<tasks, cancelled>>, tasks # {} => active_turn' # None,
           pc[p] \notin {"cancel", "wait"}, label \notin {"cancel", "wait"}, l.doomed = {},
           pc[p] \in RunningPcs <=> label \in RunningPcs,
           label \in RunningPcs => l.turn = None,
           p \in Subs /\ pc[p] \in RunningPcs \cup {"complete", "idle"} /\ local[p].turn = None
              => label \in RunningPcs \cup {"complete", "idle"} /\ l.turn = None
    PROVE  Owned'
<1> USE DEF Owned, TypeOK
<1>1. /\ \A q \in Procs \ {p} : pc'[q] = pc[q] /\ local'[q] = local[q]
      /\ pc'[p] = label /\ local'[p] = l
  BY DEF Jump, Goto
<1>2. Aborting(p) = {} /\ Aborting(p)' = {}
  BY <1>1 DEF Aborting, OneOwner
<1>3. \A q \in Procs : Aborting(q)' = Aborting(q)
  BY <1>1, <1>2 DEF Aborting
<1>4. \A q \in Procs : Aborting(q) \subseteq Subs
  BY AbortingTasks
<1>5. Subs \subseteq Procs
  BY Allocation
<1>6. NoDeadTask'
  BY <1>1, <1>5 DEF NoDeadTask
<1>7. TasksReachable'
  BY <1>1, <1>3, <1>5 DEF TasksReachable
<1>8. OneOwner'
  <2> SUFFICES ASSUME NEW q \in Procs
               PROVE  /\ tasks' \cap Aborting(q)' = {}
                      /\ pc'[q] = "wait" => local'[q].victim \notin local'[q].doomed
                      /\ pc'[q] \notin {"cancel", "wait"} => local'[q].doomed = {}
                      /\ \A r \in Procs : r # q => Aborting(q)' \cap Aborting(r)' = {}
                      /\ \A s \in Aborting(q)' :
                            /\ pc'[s] \in RunningPcs \cup {"complete", "idle"}
                            /\ local'[s].turn = None
    BY DEF OneOwner
  <2>1. tasks' \cap Aborting(q)' = {}
    BY <1>3 DEF OneOwner
  <2>2. /\ pc'[q] = "wait" => local'[q].victim \notin local'[q].doomed
        /\ pc'[q] \notin {"cancel", "wait"} => local'[q].doomed = {}
    BY <1>1 DEF OneOwner
  <2>3. \A r \in Procs : r # q => Aborting(q)' \cap Aborting(r)' = {}
    BY <1>3 DEF OneOwner
  <2>4. \A s \in Aborting(q) : /\ pc[s] \in RunningPcs \cup {"complete", "idle"}
                               /\ local[s].turn = None /\ s \in Subs /\ s \in Procs
    BY <1>4, <1>5 DEF OneOwner
  <2>5. \A s \in Aborting(q)' : pc'[s] \in RunningPcs \cup {"complete", "idle"}
                                /\ local'[s].turn = None
    BY <1>1, <1>3, <2>4
  <2> QED BY <2>1, <2>2, <2>3, <2>5
<1>9. SlotUncancelled' /\ RunsWithoutTurn'
  BY <1>1, <1>5 DEF SlotUncancelled, RunsWithoutTurn
<1> QED BY <1>6, <1>7, <1>8, <1>9

\* What the submission loop and the clients do keeps the owners.  An approval is
\* delivered to a task that waits for it.
LEMMA OwnedOperations ==
    ASSUME IInv, LoopStep \/ \E c \in Clients : ClientStep(c)
    PROVE  Owned'
<1> USE Allocation, ProcsDistinct, FlagsType
<1> USE DEF IInv, turnVars, taskVars
<1>active. tasks # {} => active_turn # None
  BY DEF Owned, NoDeadTask
<1>begin. ASSUME NEW p \in {Loop} \cup Clients, NEW label \in {"take", "work", "take_if"}, NEW l,
                 Clean(l), Begin(p, label, l), UNCHANGED <<turnVars, cancelled>>
          PROVE  Owned'
  <2>1. p \notin Subs /\ p \in Procs /\ pc[p] = "idle" /\ label \in Pcs
    BY <1>begin DEF Begin, Pcs, CallPcs
  <2>2. "idle" \notin RunningPcs /\ label \notin RunningPcs
    BY DEF RunningPcs
  <2> QED BY <1>active, <1>begin, <2>1, <2>2, OwnedJump DEF Begin, Clean
<1>1. ASSUME NEW i \in UserItems, SteerInput(i) PROVE Owned'
  BY <1>1, <1>active, OwnedSame DEF SteerInput
<1>2. ASSUME NEW i \in UserItems, SpawnForInput(i) PROVE Owned'
  BY <1>2, <1>begin, CleanLocals DEF SpawnForInput
<1>3. ASSUME NEW k \in SpawnKinds, SpawnTask(k) PROVE Owned'
  BY <1>3, <1>begin, CleanLocals DEF SpawnTask
<1>4. CASE Interrupt
  BY <1>4, <1>begin, CleanLocals DEF Interrupt
<1>5. ASSUME NEW i \in MailItems, InterAgentCommunication(i) PROVE Owned'
  BY <1>5, <1>active, <1>begin, CleanLocals, OwnedSame DEF InterAgentCommunication
<1>6. ASSUME NEW i \in Notes, ApproveDeniedAction(i) PROVE Owned'
  BY <1>6, <1>active, OwnedSame DEF ApproveDeniedAction
<1>7. ASSUME NEW s \in Subs, NotifyApproval(s) PROVE Owned'
  <2>1. pc[s] = "approval" /\ s \in Procs /\ local[s] \in Locals
    BY <1>7 DEF NotifyApproval, Approvals, TypeOK
  <2>2. {"approval", "run"} \subseteq RunningPcs /\ "run" \in Pcs
    BY DEF RunningPcs, Pcs, TaskPcs
  <2>3. local[s].turn = None /\ local[s].doomed = {}
    BY <2>1, <2>2 DEF Owned, RunsWithoutTurn, OneOwner
  <2>4. Jump(s, "run", local[s])
    BY <1>7, <2>1, GotoIsJump DEF NotifyApproval, TypeOK
  <2> QED BY <1>7, <1>active, <2>1, <2>2, <2>3, <2>4, OwnedJump DEF NotifyApproval
<1>8. ASSUME NEW c \in Clients, NEW i \in Notes, InjectNote(c, i) PROVE Owned'
  BY <1>8, <1>active, OwnedSame DEF InjectNote
<1>9. ASSUME NEW c \in Clients, ContinueIfIdle(c) PROVE Owned'
  BY <1>9, <1>begin, CleanLocals DEF ContinueIfIdle
<1>10. ASSUME NEW c \in Clients, NEW s \in Subs, GuardianInterrupt(c, s) PROVE Owned'
  BY <1>10, <1>begin, CleanLocals DEF GuardianInterrupt
<1> QED BY <1>1, <1>2, <1>3, <1>4, <1>5, <1>6, <1>7, <1>8, <1>9, <1>10 DEF LoopStep, ClientStep

\* Starting a turn keeps the owners until the task is launched.
LEMMA OwnedBeforeLaunch ==
    ASSUME IInv, NEW p \in Procs, StartStep(p), ~LaunchTask(p)
    PROVE  Owned'
<1> USE DEF IInv, turnVars, taskVars
<1>active. tasks # {} => active_turn # None
  BY DEF Owned, NoDeadTask
<1>l. local[p] \in Locals
  BY DEF TypeOK
<1>jump. ASSUME NEW label \in {"candidate", "reserve", "queued", "turn_input", "mail", "join", "push",
                               "launch", "idle"},
                NEW l \in Locals, Jump(p, label, l), l.doomed = {},
                pc[p] \in {"work", "reserve", "queued", "turn_input", "mail", "join", "push"},
                UNCHANGED <<tasks, cancelled>>, tasks # {} => active_turn' # None
         PROVE  Owned'
  <2>1. /\ label \in Pcs /\ label \notin RunningPcs /\ label \notin {"cancel", "wait"}
        /\ pc[p] \notin RunningPcs \cup {"complete", "idle", "cancel", "wait"}
    BY <1>jump DEF Pcs, CallPcs, RunningPcs
  <2> QED BY <1>jump, <2>1, OwnedJump
<1>doomed. pc[p] \in {"work", "reserve", "queued", "turn_input", "mail", "join", "push"}
             => local[p].doomed = {}
  BY DEF Owned, OneOwner
<1>goto. ASSUME NEW label \in {"reserve", "queued", "mail"}, Goto(p, label), UNCHANGED local,
                pc[p] \in {"work", "reserve", "queued", "turn_input", "mail", "join", "push"},
                UNCHANGED <<tasks, cancelled>>, tasks # {} => active_turn' # None
         PROVE  Owned'
  <2>1. Jump(p, label, local[p])
    BY <1>goto, GotoIsJump DEF TypeOK
  <2> QED BY <1>goto, <1>l, <1>doomed, <1>jump, <2>1
<1>leave. ASSUME Leave(p), pc[p] \in {"work", "reserve"}, UNCHANGED <<turnVars, cancelled>>
          PROVE  Owned'
  BY <1>leave, <1>active, <1>jump, CleanLocals DEF Leave, Return, Clean
<1>1. CASE CheckPendingWork(p)
  BY <1>1, <1>active, <1>leave, <1>goto DEF CheckPendingWork
<1>2. CASE ReserveTurn(p)
  <2>1. CASE active_turn # None
    BY <1>2, <2>1, <1>leave DEF ReserveTurn
  <2>2. CASE active_turn = None
    BY <1>2, <2>2, <1>active, <1>goto DEF ReserveTurn
  <2> QED BY <2>1, <2>2
<1>3. CASE TakeQueuedItems(p)
  <2>1. idle_pending_input \in SUBSET Items
    BY DEF TypeOK
  <2> QED BY <1>3, <1>active, <1>l, <1>doomed, <1>jump, <2>1, SetHand DEF TakeQueuedItems
<1>4. CASE StartTakeTurnInput(p)
  <2>1. CASE active_turn = None
    BY <1>4, <2>1, <1>active, <1>goto DEF StartTakeTurnInput, TakeTurnInput
  <2>2. CASE active_turn # None
    <3>1. local[p].hand \cup pending_input[active_turn] \in SUBSET Items
      BY <1>l, <2>2, Fields DEF TypeOK
    <3> QED BY <1>4, <2>2, <3>1, <1>active, <1>l, <1>doomed, <1>jump, SetHand
            DEF StartTakeTurnInput, TakeTurnInput
  <2> QED BY <2>1, <2>2
<1>5. CASE StartDrainMailbox(p)
  <2>1. local[p].hand \cup mailbox \in SUBSET Items
    BY <1>l, Fields DEF TypeOK, Items
  <2> QED BY <1>5, <2>1, <1>active, <1>l, <1>doomed, <1>jump, SetHand
          DEF StartDrainMailbox, DrainMailbox
<1>6. CASE JoinTurn(p)
  <2>1. PICK o \in TurnIds :
           /\ Jump(p, "push", [local[p] EXCEPT !.turn = o])
           /\ active_turn' = o
    BY <1>6, Allocation DEF JoinTurn, InstallTurn, TypeOK
  <2>2. [local[p] EXCEPT !.turn = o] \in Locals /\ [local[p] EXCEPT !.turn = o].doomed = {}
    BY <1>6, <1>l, <1>doomed, SetTurn DEF JoinTurn
  <2>3. o # None
    BY ProcsDistinct
  <2> QED BY <1>6, <1>jump, <2>1, <2>2, <2>3 DEF JoinTurn
<1>7. CASE PushItems(p)
  <2>1. [local[p] EXCEPT !.hand = {}] \in Locals /\ [local[p] EXCEPT !.hand = {}].doomed = {}
    BY <1>7, <1>l, <1>doomed, SetHand DEF PushItems
  <2> QED BY <1>7, <2>1, <1>active, <1>jump DEF PushItems
<1> QED BY <1>1, <1>2, <1>3, <1>4, <1>5, <1>6, <1>7 DEF StartStep

\* Continuing a goal keeps the owners: a reserved turn is given up only while it
\* has no task.
LEMMA OwnedGoal ==
    ASSUME IInv, NEW p \in Procs, GoalStep(p)
    PROVE  Owned'
<1> USE DEF IInv, turnVars, taskVars
<1>active. tasks # {} => active_turn # None
  BY DEF Owned, NoDeadTask
<1>l. local[p] \in Locals
  BY DEF TypeOK
<1>jump. ASSUME NEW label \in {"goal_reserve", "reread", "reserved", "unreserve", "queued", "idle"},
                NEW l \in Locals, Jump(p, label, l), l.doomed = {},
                pc[p] \in {"candidate", "goal_reserve", "reread", "reserved", "unreserve"},
                UNCHANGED <<tasks, cancelled>>, tasks # {} => active_turn' # None
         PROVE  Owned'
  <2>1. /\ label \in Pcs /\ label \notin RunningPcs /\ label \notin {"cancel", "wait"}
        /\ pc[p] \notin RunningPcs \cup {"complete", "idle", "cancel", "wait"}
    BY <1>jump DEF Pcs, CallPcs, RunningPcs
  <2> QED BY <1>jump, <2>1, OwnedJump
<1>doomed. pc[p] \in {"candidate", "goal_reserve", "reread", "reserved", "unreserve"}
             => local[p].doomed = {}
  BY DEF Owned, OneOwner
<1>goto. ASSUME NEW label \in {"reserved", "unreserve"}, Goto(p, label), UNCHANGED local,
                pc[p] \in {"reread", "reserved"}, UNCHANGED <<turnVars, cancelled>>
         PROVE  Owned'
  <2>1. Jump(p, label, local[p])
    BY <1>goto, GotoIsJump DEF TypeOK
  <2> QED BY <1>goto, <1>active, <1>l, <1>doomed, <1>jump, <2>1
<1>1. CASE GoalCandidate(p)
  BY <1>1, <1>active, <1>jump, CleanLocals DEF GoalCandidate, Return, Clean
<1>2. CASE GoalReserve(p)
  <2>1. CASE active_turn # None
    BY <1>2, <2>1, <1>jump, CleanLocals DEF GoalReserve, Return, Clean
  <2>2. CASE active_turn = None
    <3>1. PICK o \in TurnIds : Jump(p, "reread", [local[p] EXCEPT !.turn = o])
      BY <1>2, <2>2, Allocation DEF GoalReserve
    <3>2. [local[p] EXCEPT !.turn = o] \in Locals /\ [local[p] EXCEPT !.turn = o].doomed = {}
      BY <1>2, <1>l, <1>doomed, SetTurn DEF GoalReserve
    <3> QED BY <1>2, <2>2, <3>1, <3>2, <1>active, <1>jump DEF GoalReserve
  <2> QED BY <2>1, <2>2
<1>3. CASE GoalReread(p)
  BY <1>3, <1>goto DEF GoalReread
<1>4. CASE StillReserved(p)
  <2>1. /\ [local[p] EXCEPT !.turn = None] \in Locals
        /\ [local[p] EXCEPT !.turn = None].doomed = {}
    BY <1>4, <1>l, <1>doomed, SetTurn DEF StillReserved
  <2> QED BY <1>4, <1>active, <1>goto, <1>jump, <2>1 DEF StillReserved
<1>5. CASE ClearReserved(p)
  <2>1. UNCHANGED tasks /\ (tasks # {} => active_turn' # None)
    BY <1>5, <1>active DEF ClearReserved, EmptyTurn, EmptySlot
  <2> QED BY <1>5, <1>jump, <2>1, CleanLocals DEF ClearReserved, Return, Clean
<1> QED BY <1>1, <1>2, <1>3, <1>4, <1>5 DEF GoalStep

\* A running task keeps the owners.
LEMMA OwnedRun ==
    ASSUME IInv, NEW s \in Subs, RunStep(s)
    PROVE  Owned'
<1> USE DEF IInv, turnVars, taskVars
<1>active. tasks # {} => active_turn # None
  BY DEF Owned, NoDeadTask
<1>l. s \in Procs /\ local[s] \in Locals
  BY Allocation DEF TypeOK
<1>clean. pc[s] \in RunningPcs => local[s].doomed = {} /\ local[s].turn = None
  BY <1>l DEF Owned, OneOwner, RunsWithoutTurn, RunningPcs
<1>jump. ASSUME NEW label \in RunningPcs, NEW l \in Locals, Jump(s, label, l), pc[s] \in RunningPcs,
                l.doomed = {}, l.turn = None, UNCHANGED <<turnVars, cancelled>>
         PROVE  Owned'
  <2>1. RunningPcs \subseteq Pcs /\ RunningPcs \cap {"cancel", "wait"} = {}
    BY DEF RunningPcs, Pcs, TaskPcs
  <2> QED BY <1>jump, <1>active, <1>l, <2>1, OwnedJump
<1>goto. ASSUME NEW label \in RunningPcs, Goto(s, label), UNCHANGED local, pc[s] \in RunningPcs,
                UNCHANGED <<turnVars, cancelled>>
         PROVE  Owned'
  <2>1. Jump(s, label, local[s])
    BY <1>goto, <1>l, GotoIsJump DEF TypeOK
  <2> QED BY <1>goto, <1>l, <1>clean, <1>jump, <2>1
<1>hand. ASSUME NEW label \in RunningPcs, NEW h \in SUBSET Items, pc[s] \in RunningPcs,
                Jump(s, label, [local[s] EXCEPT !.hand = h]), UNCHANGED <<turnVars, cancelled>>
         PROVE  Owned'
  <2>1. /\ [local[s] EXCEPT !.hand = h] \in Locals
        /\ [local[s] EXCEPT !.hand = h].doomed = {} /\ [local[s] EXCEPT !.hand = h].turn = None
    BY <1>hand, <1>l, <1>clean, SetHand
  <2> QED BY <1>hand, <1>jump, <2>1
<1>pcs. RunningPcs = {"begin", "run", "drain_mail", "inspect", "approval", "check_mail", "finish",
                      "remove"}
  BY DEF RunningPcs
<1>1. CASE GetPendingInput(s)
  <2>1. CASE active_turn = None
    BY <1>1, <1>pcs, <2>1, <1>goto DEF GetPendingInput, TakeTurnInput
  <2>2. CASE active_turn # None
    <3>1. local[s].hand \cup pending_input[active_turn] \in SUBSET Items
      BY <1>l, <2>2, Fields DEF TypeOK
    <3> QED BY <1>1, <1>pcs, <2>2, <3>1, <1>hand DEF GetPendingInput, TakeTurnInput
  <2> QED BY <2>1, <2>2
<1>2. CASE TaskDrainMailbox(s)
  <2>1. local[s].hand \cup mailbox \in SUBSET Items
    BY <1>l, Fields DEF TypeOK, Items
  <2> QED BY <1>2, <1>pcs, <2>1, <1>hand DEF TaskDrainMailbox, DrainMailbox
<1>3. CASE InspectPendingInput(s)
  BY <1>3, <1>pcs, <1>hand DEF InspectPendingInput
<1>4. CASE DeferMailbox(s)
  BY <1>4, <1>active, OwnedSame DEF DeferMailbox
<1>5. CASE AcceptMailbox(s)
  BY <1>5, <1>active, OwnedSame DEF AcceptMailbox
<1>6. CASE RequestApproval(s)
  BY <1>6, <1>pcs, <1>goto DEF RequestApproval
<1>7. CASE ApprovalDropped(s)
  BY <1>7, <1>pcs, <1>goto DEF ApprovalDropped
<1>8. CASE RunCancelled(s)
  BY <1>8, <1>pcs, <1>hand DEF RunCancelled
<1>9. CASE RunReturns(s)
  BY <1>9, <1>pcs, <1>goto DEF RunReturns
<1>10. CASE HasTurnInput(s)
  BY <1>10, <1>pcs, <1>goto DEF HasTurnInput
<1>11. CASE HasMail(s)
  BY <1>11, <1>pcs, <1>goto DEF HasMail
<1>12. CASE RecordInput(s) \/ GiveUpTurn(s)
  BY <1>12, <1>pcs, <1>hand DEF RecordInput, GiveUpTurn
<1> QED BY <1>1, <1>2, <1>3, <1>4, <1>5, <1>6, <1>7, <1>8, <1>9, <1>10, <1>11, <1>12 DEF RunStep

\* A jump of a running task to the point after it was removed, which takes it out
\* of the slot if it was there, keeps the owners.  Only a task that nobody aborts
\* carries a turn away.
LEMMA OwnedExit ==
    ASSUME IInv, NEW s \in Subs, NEW label \in {"idle", "leftover", "complete"}, NEW l \in Locals,
           Jump(s, label, l), pc[s] \in RunningPcs, l.doomed = {},
           tasks' = tasks \ {s}, UNCHANGED <<active_turn, cancelled>>,
           s \notin tasks => label # "leftover" /\ l.turn = None
    PROVE  Owned'
<1> USE DEF IInv, Owned
<1>1. /\ \A q \in Procs \ {s} : pc'[q] = pc[q] /\ local'[q] = local[q]
      /\ pc'[s] = label /\ local'[s] = l /\ s \in Procs
  BY Allocation DEF TypeOK, Jump, Goto
<1>2. label \notin RunningPcs
  BY DEF RunningPcs
<1>3. \A q \in Procs : Aborting(q)' = Aborting(q)
  BY <1>1 DEF Aborting, OneOwner, RunningPcs
<1>4. \A q \in Procs : Aborting(q) \subseteq Subs
  BY AbortingTasks
<1>5. NoDeadTask'
  BY <1>1, Allocation DEF NoDeadTask, TypeOK
<1>6. TasksReachable'
  BY <1>1, <1>2, <1>3, Allocation DEF TasksReachable
<1>7. OneOwner'
  <2> SUFFICES ASSUME NEW q \in Procs
               PROVE  /\ tasks' \cap Aborting(q)' = {}
                      /\ pc'[q] = "wait" => local'[q].victim \notin local'[q].doomed
                      /\ pc'[q] \notin {"cancel", "wait"} => local'[q].doomed = {}
                      /\ \A r \in Procs : r # q => Aborting(q)' \cap Aborting(r)' = {}
                      /\ \A t \in Aborting(q)' :
                            /\ pc'[t] \in RunningPcs \cup {"complete", "idle"}
                            /\ local'[t].turn = None
    BY DEF OneOwner
  <2>1. tasks' \cap Aborting(q)' = {}
    BY <1>3 DEF OneOwner
  <2>2. /\ pc'[q] = "wait" => local'[q].victim \notin local'[q].doomed
        /\ pc'[q] \notin {"cancel", "wait"} => local'[q].doomed = {}
    BY <1>1 DEF OneOwner
  <2>3. \A r \in Procs : r # q => Aborting(q)' \cap Aborting(r)' = {}
    BY <1>3 DEF OneOwner
  <2>4. \A t \in Aborting(q) : /\ pc[t] \in RunningPcs \cup {"complete", "idle"}
                               /\ local[t].turn = None /\ t \in Procs /\ t \notin tasks
    BY <1>4, Allocation DEF OneOwner
  <2>5. \A t \in Aborting(q)' : pc'[t] \in RunningPcs \cup {"complete", "idle"}
                                /\ local'[t].turn = None
    BY <1>1, <1>3, <2>4
  <2> QED BY <2>1, <2>2, <2>3, <2>5
<1>8. SlotUncancelled' /\ RunsWithoutTurn'
  BY <1>1, <1>2, Allocation DEF SlotUncancelled, RunsWithoutTurn
<1> QED BY <1>5, <1>6, <1>7, <1>8

\* A finishing task keeps the owners.  A task whose token fired is not in the slot
\* any more, and a slot is emptied only while it has no task.
LEMMA OwnedFinish ==
    ASSUME IInv, NEW s \in Subs, FinishStep(s)
    PROVE  Owned'
<1> USE DEF IInv, turnVars, taskVars
<1>active. tasks # {} => active_turn # None
  BY DEF Owned, NoDeadTask
<1>l. s \in Procs /\ local[s] \in Locals
  BY Allocation DEF TypeOK
<1>doomed. pc[s] \notin {"cancel", "wait"} => local[s].doomed = {}
  BY <1>l DEF Owned, OneOwner
<1>running. pc[s] \in RunningPcs => local[s].turn = None
  BY DEF Owned, RunsWithoutTurn
<1>1. CASE FinishRun(s)
  <2>1. pc[s] \in RunningPcs
    BY <1>1 DEF FinishRun, RunningPcs
  <2>2. CASE s \in cancelled
    <3>1. s \notin tasks
      BY <2>2 DEF Owned, SlotUncancelled
    <3>2. Jump(s, "idle", local[s]) /\ tasks' = tasks \ {s} /\ UNCHANGED <<active_turn, cancelled>>
      BY <1>1, <1>l, <2>2, <3>1, GotoIsJump DEF FinishRun, TypeOK
    <3>3. local[s].doomed = {}
      BY <1>1, <1>doomed DEF FinishRun
    <3> QED BY <1>l, <1>running, <2>1, <3>2, <3>3, OwnedExit
  <2>3. CASE s \notin cancelled
    <3>1. Jump(s, "remove", local[s])
      BY <1>1, <1>l, <2>3, GotoIsJump DEF FinishRun, TypeOK
    <3>2. {"finish", "remove"} \subseteq RunningPcs /\ "remove" \in Pcs
      BY DEF RunningPcs, Pcs, TaskPcs
    <3> QED BY <1>1, <1>l, <1>active, <1>doomed, <1>running, <3>1, <3>2, OwnedJump DEF FinishRun
  <2> QED BY <2>2, <2>3
<1>2. CASE RemoveTask(s)
  <2>1. pc[s] \in RunningPcs /\ pc[s] \notin {"cancel", "wait"}
    BY <1>2 DEF RemoveTask, RunningPcs
  <2>2. CASE tasks = {s}
    <3>1. active_turn \in TurnIds \cup {None}
      BY DEF TypeOK
    <3>2. /\ [local[s] EXCEPT !.turn = active_turn] \in Locals
          /\ [local[s] EXCEPT !.turn = active_turn].doomed = {}
      BY <1>l, <1>doomed, <2>1, <3>1, SetTurn
    <3> QED BY <1>2, <2>1, <2>2, <3>2, OwnedExit DEF RemoveTask
  <2>3. CASE tasks # {s}
    <3>1. Jump(s, "complete", local[s])
      BY <1>2, <1>l, <2>3, GotoIsJump DEF RemoveTask, TypeOK
    <3> QED BY <1>2, <1>l, <1>doomed, <1>running, <2>1, <3>1, OwnedExit DEF RemoveTask
  <2> QED BY <2>2, <2>3
<1>jump. ASSUME NEW label \in {"complete", "clear", "work", "idle"}, NEW l \in Locals,
                Jump(s, label, l), l.doomed = {}, pc[s] \in {"leftover", "complete", "clear"},
                pc[s] = "complete" /\ local[s].turn = None => label = "idle" /\ l.turn = None,
                UNCHANGED <<tasks, cancelled>>, tasks # {} => active_turn' # None
         PROVE  Owned'
  <2>1. /\ label \in Pcs /\ label \notin RunningPcs /\ label \notin {"cancel", "wait"}
        /\ pc[s] \notin RunningPcs \cup {"idle", "cancel", "wait"}
        /\ "complete" \notin RunningPcs
    BY <1>jump DEF Pcs, CallPcs, TaskPcs, RunningPcs
  <2> QED BY <1>jump, <1>l, <2>1, OwnedJump
<1>3. CASE TakeLeftover(s)
  <2>1. pending_input[local[s].turn] \in SUBSET Items
    BY <1>3, <1>l, Fields DEF TakeLeftover, TypeOK, LocalsReady, TurnPcs
  <2>2. /\ [local[s] EXCEPT !.hand = pending_input[local[s].turn]] \in Locals
        /\ [local[s] EXCEPT !.hand = pending_input[local[s].turn]].doomed = {}
    BY <1>3, <1>l, <1>doomed, <2>1, SetHand DEF TakeLeftover
  <2> QED BY <1>3, <1>active, <1>jump, <2>2 DEF TakeLeftover
<1>4. CASE CompleteTurn(s)
  <2>1. CASE local[s].turn = None
    BY <1>4, <2>1, <1>active, <1>jump, CleanLocals DEF CompleteTurn, Return, Clean
  <2>2. CASE local[s].turn # None
    <3>1. [local[s] EXCEPT !.hand = {}] \in Locals /\ [local[s] EXCEPT !.hand = {}].doomed = {}
      BY <1>4, <1>l, <1>doomed, SetHand DEF CompleteTurn
    <3> QED BY <1>4, <2>2, <1>active, <1>jump, <3>1 DEF CompleteTurn
  <2> QED BY <2>1, <2>2
<1>5. CASE ClearActiveTurn(s)
  <2>1. UNCHANGED tasks /\ (tasks # {} => active_turn' # None)
    BY <1>5, <1>active DEF ClearActiveTurn, EmptyTurn, EmptySlot
  <2> QED BY <1>5, <1>jump, <2>1, CleanLocals DEF ClearActiveTurn, Return, Clean
<1> QED BY <1>1, <1>2, <1>3, <1>4, <1>5 DEF FinishStep

\* Draining the slot hands its tasks to the call, which owned nothing before.
LEMMA OwnedDrain ==
    ASSUME IInv, NEW p \in Procs, pc[p] \in {"take", "take_if"}, Drain(p), UNCHANGED cancelled
    PROVE  Owned'
<1> USE DEF IInv, Owned
<1>1. PICK l \in Locals : /\ Jump(p, IF tasks = {} THEN "clear_pending" ELSE "cancel", l)
                          /\ l.doomed = tasks
  <2>1. /\ local[p] \in Locals /\ tasks \in SUBSET Subs
        /\ (IF tasks = {} THEN None ELSE active_turn) \in TurnIds \cup {None}
    BY DEF TypeOK
  <2>2. PICK o \in TurnIds \cup {None} :
           Jump(p, IF tasks = {} THEN "clear_pending" ELSE "cancel",
                [local[p] EXCEPT !.doomed = tasks, !.victim = None, !.turn = o])
    BY <2>1 DEF Drain
  <2>3. /\ [local[p] EXCEPT !.doomed = tasks, !.victim = None, !.turn = o] \in Locals
        /\ [local[p] EXCEPT !.doomed = tasks, !.victim = None, !.turn = o].doomed = tasks
    BY <2>1, SetDoomed
  <2> QED BY <2>2, <2>3
<1>2. /\ \A q \in Procs \ {p} : pc'[q] = pc[q] /\ local'[q] = local[q]
      /\ pc'[p] = (IF tasks = {} THEN "clear_pending" ELSE "cancel") /\ local'[p] = l
      /\ tasks' = {}
  BY <1>1 DEF TypeOK, Jump, Goto, Drain, EmptySlot
<1>3. Aborting(p) = {} /\ Aborting(p)' = tasks
  BY <1>1, <1>2 DEF Aborting, OneOwner
<1>4. \A q \in Procs \ {p} : Aborting(q)' = Aborting(q)
  BY <1>2 DEF Aborting
<1>5. \A q \in Procs : Aborting(q) \subseteq Subs
  BY AbortingTasks
<1>6. p \notin tasks /\ pc[p] \notin RunningPcs \cup {"complete", "idle"} /\ pc'[p] \notin RunningPcs
  BY <1>2 DEF NoDeadTask, RunningPcs
<1>7. NoDeadTask' /\ SlotUncancelled'
  BY <1>2 DEF NoDeadTask, SlotUncancelled
<1>8. TasksReachable'
  BY <1>2, <1>3, <1>4, <1>6, Allocation DEF TasksReachable
<1>9. OneOwner'
  <2> SUFFICES ASSUME NEW q \in Procs
               PROVE  /\ tasks' \cap Aborting(q)' = {}
                      /\ pc'[q] = "wait" => local'[q].victim \notin local'[q].doomed
                      /\ pc'[q] \notin {"cancel", "wait"} => local'[q].doomed = {}
                      /\ \A r \in Procs : r # q => Aborting(q)' \cap Aborting(r)' = {}
                      /\ \A t \in Aborting(q)' :
                            /\ pc'[t] \in RunningPcs \cup {"complete", "idle"}
                            /\ local'[t].turn = None
    BY DEF OneOwner
  <2>1. tasks' \cap Aborting(q)' = {}
    BY <1>2
  <2>2. /\ pc'[q] = "wait" => local'[q].victim \notin local'[q].doomed
        /\ pc'[q] \notin {"cancel", "wait"} => local'[q].doomed = {}
    BY <1>1, <1>2 DEF OneOwner
  <2>3. \A r \in Procs : r # q => Aborting(q)' \cap Aborting(r)' = {}
    BY <1>3, <1>4 DEF OneOwner
  <2>4. \A t \in tasks : pc[t] \in RunningPcs /\ local[t].turn = None /\ t \in Procs /\ t # p
    BY <1>6, Allocation DEF NoDeadTask, RunsWithoutTurn, TypeOK
  <2>5. \A t \in Aborting(q) : /\ pc[t] \in RunningPcs \cup {"complete", "idle"}
                               /\ local[t].turn = None /\ t \in Procs /\ t # p
    BY <1>5, <1>6, Allocation DEF OneOwner
  <2>6. \A t \in Aborting(q)' : pc'[t] \in RunningPcs \cup {"complete", "idle"}
                                /\ local'[t].turn = None
    BY <1>2, <1>3, <1>4, <2>4, <2>5
  <2> QED BY <2>1, <2>2, <2>3, <2>6
<1>10. RunsWithoutTurn'
  BY <1>2, <1>6, Allocation DEF RunsWithoutTurn
<1> QED BY <1>7, <1>8, <1>9, <1>10

\* Firing the token of a drained task, which is in nobody else's hands.
LEMMA OwnedCancel ==
    ASSUME IInv, NEW p \in Procs, CancelTask(p)
    PROVE  Owned'
<1> USE DEF IInv, Owned
<1>1. PICK s \in local[p].doomed :
         /\ cancelled' = cancelled \cup {s}
         /\ Jump(p, "wait", [local[p] EXCEPT !.victim = s, !.doomed = local[p].doomed \ {s}])
  BY DEF CancelTask
<1>2. PICK l \in Locals : Jump(p, "wait", l) /\ l.victim = s /\ l.doomed = local[p].doomed \ {s}
  <2>1. local[p] \in Locals /\ s \in Subs \cup {None}
    BY Fields DEF TypeOK
  <2>2. /\ [local[p] EXCEPT !.victim = s, !.doomed = local[p].doomed \ {s}] \in Locals
        /\ [local[p] EXCEPT !.victim = s, !.doomed = local[p].doomed \ {s}].victim = s
        /\ [local[p] EXCEPT !.victim = s, !.doomed = local[p].doomed \ {s}].doomed
             = local[p].doomed \ {s}
    BY <2>1, NextVictim
  <2> QED BY <1>1, <2>2
<1>3. /\ \A q \in Procs \ {p} : pc'[q] = pc[q] /\ local'[q] = local[q]
      /\ pc[p] = "cancel" /\ pc'[p] = "wait" /\ local'[p] = l
      /\ UNCHANGED <<tasks, active_turn>>
  BY <1>2 DEF CancelTask, TypeOK, Jump, Goto, turnVars
<1>4. s \in Aborting(p)
  BY DEF Aborting
<1>5. \A q \in Procs : Aborting(q)' = Aborting(q)
  BY <1>2, <1>3 DEF Aborting
<1>6. \A q \in Procs : Aborting(q) \subseteq Subs
  BY AbortingTasks
<1>7. {"cancel", "wait"} \cap (RunningPcs \cup {"complete", "idle"}) = {}
  BY DEF RunningPcs
<1>8. NoDeadTask' /\ SlotUncancelled'
  BY <1>1, <1>3, <1>4, <1>7, Allocation DEF NoDeadTask, SlotUncancelled, OneOwner, TypeOK
<1>9. TasksReachable'
  BY <1>3, <1>5, <1>7, Allocation DEF TasksReachable
<1>10. OneOwner'
  <2> SUFFICES ASSUME NEW q \in Procs
               PROVE  /\ tasks' \cap Aborting(q)' = {}
                      /\ pc'[q] = "wait" => local'[q].victim \notin local'[q].doomed
                      /\ pc'[q] \notin {"cancel", "wait"} => local'[q].doomed = {}
                      /\ \A r \in Procs : r # q => Aborting(q)' \cap Aborting(r)' = {}
                      /\ \A t \in Aborting(q)' :
                            /\ pc'[t] \in RunningPcs \cup {"complete", "idle"}
                            /\ local'[t].turn = None
    BY DEF OneOwner
  <2>1. tasks' \cap Aborting(q)' = {}
    BY <1>3, <1>5 DEF OneOwner
  <2>2. /\ pc'[q] = "wait" => local'[q].victim \notin local'[q].doomed
        /\ pc'[q] \notin {"cancel", "wait"} => local'[q].doomed = {}
    BY <1>2, <1>3 DEF OneOwner
  <2>3. \A r \in Procs : r # q => Aborting(q)' \cap Aborting(r)' = {}
    BY <1>5 DEF OneOwner
  <2>4. \A t \in Aborting(q) : /\ pc[t] \in RunningPcs \cup {"complete", "idle"}
                               /\ local[t].turn = None /\ t \in Procs /\ t # p
    BY <1>3, <1>6, <1>7, Allocation DEF OneOwner
  <2>5. \A t \in Aborting(q)' : pc'[t] \in RunningPcs \cup {"complete", "idle"}
                                /\ local'[t].turn = None
    BY <1>3, <1>5, <2>4
  <2> QED BY <2>1, <2>2, <2>3, <2>5
<1>11. RunsWithoutTurn'
  BY <1>3, <1>7, Allocation DEF RunsWithoutTurn
<1> QED BY <1>8, <1>9, <1>10, <1>11

\* Killing the task a call waits for.  The task owns nothing, and the call gives
\* up no other task.
LEMMA OwnedAbort ==
    ASSUME IInv, NEW p \in Procs, AbortTask(p)
    PROVE  Owned'
<1> USE DEF IInv, Owned
<1>1. PICK s \in Aborting(p) : s = local[p].victim /\ pc[p] = "wait" /\ local[p] \in Locals
  BY DEF AbortTask, TypeOK, Aborting
<1>2. s \in Subs /\ s \in Procs
  BY <1>1, AbortingTasks, Allocation
<1>3. pc[s] \in RunningPcs \cup {"complete", "idle"} /\ s \notin tasks
  BY <1>1 DEF OneOwner
<1>4. {"cancel", "wait", "idle", "clear_pending"} \cap RunningPcs = {}
      /\ {"cancel", "wait"} \cap (RunningPcs \cup {"complete", "idle"}) = {}
  BY DEF RunningPcs
<1>5. s # p /\ Aborting(s) = {}
  BY <1>1, <1>2, <1>3, <1>4 DEF Aborting, OneOwner
<1>6. PICK l \in Locals : /\ local' = [local EXCEPT ![s] = Blank, ![p] = l]
                          /\ l.doomed = local[p].doomed /\ l.victim = None
  BY <1>1, SetVictim DEF AbortTask
<1>7. /\ \A q \in Procs \ {p, s} : pc'[q] = pc[q] /\ local'[q] = local[q]
      /\ pc'[p] = (IF local[p].doomed = {} THEN "clear_pending" ELSE "cancel")
      /\ local'[p] = l /\ pc'[s] = "idle" /\ local'[s] = Blank
      /\ UNCHANGED <<tasks, active_turn, cancelled>>
  BY <1>1, <1>2, <1>5, <1>6 DEF AbortTask, TypeOK, turnVars
<1>8. Blank.doomed = {} /\ Blank.turn = None
  BY CleanLocals DEF Clean
<1>9. Aborting(s)' = {} /\ Aborting(p)' = Aborting(p) \ {s}
  BY <1>1, <1>6, <1>7, <1>8 DEF Aborting, OneOwner
<1>10. \A q \in Procs \ {p, s} : Aborting(q)' = Aborting(q)
  BY <1>7 DEF Aborting
<1>11. \A q \in Procs : Aborting(q) \subseteq Subs /\ Aborting(q)' \subseteq Aborting(q)
  BY <1>5, <1>9, <1>10, AbortingTasks
<1>12. NoDeadTask' /\ SlotUncancelled'
  BY <1>1, <1>3, <1>4, <1>7, Allocation DEF NoDeadTask, SlotUncancelled, TypeOK
<1>13. TasksReachable'
  <2> SUFFICES ASSUME NEW t \in Subs, pc'[t] \in RunningPcs
               PROVE  t \in tasks' \/ \E q \in Procs : t \in Aborting(q)'
    BY DEF TasksReachable
  <2>1. t # s /\ t # p /\ pc[t] \in RunningPcs
    BY <1>4, <1>7, Allocation
  <2>2. CASE t \in tasks
    BY <1>7, <2>2
  <2>3. CASE \E q \in Procs : t \in Aborting(q)
    BY <1>5, <1>9, <1>10, <2>1, <2>3
  <2> QED BY <2>1, <2>2, <2>3 DEF TasksReachable
<1>14. OneOwner'
  <2> SUFFICES ASSUME NEW q \in Procs
               PROVE  /\ tasks' \cap Aborting(q)' = {}
                      /\ pc'[q] = "wait" => local'[q].victim \notin local'[q].doomed
                      /\ pc'[q] \notin {"cancel", "wait"} => local'[q].doomed = {}
                      /\ \A r \in Procs : r # q => Aborting(q)' \cap Aborting(r)' = {}
                      /\ \A t \in Aborting(q)' :
                            /\ pc'[t] \in RunningPcs \cup {"complete", "idle"}
                            /\ local'[t].turn = None
    BY DEF OneOwner
  <2>1. tasks' \cap Aborting(q)' = {}
    BY <1>7, <1>11 DEF OneOwner
  <2>2. /\ pc'[q] = "wait" => local'[q].victim \notin local'[q].doomed
        /\ pc'[q] \notin {"cancel", "wait"} => local'[q].doomed = {}
    BY <1>6, <1>7, <1>8 DEF OneOwner
  <2>3. \A r \in Procs : r # q => Aborting(q)' \cap Aborting(r)' = {}
    BY <1>11 DEF OneOwner
  <2>4. \A t \in Aborting(q) : /\ pc[t] \in RunningPcs \cup {"complete", "idle"}
                               /\ local[t].turn = None /\ t \in Procs /\ t # p
    BY <1>1, <1>4, <1>11, Allocation DEF OneOwner
  <2>5. \A t \in Aborting(q)' : pc'[t] \in RunningPcs \cup {"complete", "idle"}
                                /\ local'[t].turn = None
    BY <1>7, <1>8, <1>11, <2>4
  <2> QED BY <2>1, <2>2, <2>3, <2>5
<1>15. RunsWithoutTurn'
  BY <1>4, <1>7, Allocation DEF RunsWithoutTurn
<1> QED BY <1>12, <1>13, <1>14, <1>15

\* Launching a task puts it into the slot.  Its id belonged to nobody.
LEMMA OwnedLaunch ==
    ASSUME IInv, NEW p \in Procs, LaunchTask(p)
    PROVE  Owned'
<1> USE DEF IInv, Owned
<1>1. PICK s \in Subs :
         /\ FreeSub(s)
         /\ tasks' = tasks \cup {s}
         /\ cancelled' = cancelled \ {s}
         /\ pc' = [pc EXCEPT ![s] = IF local[p].input = {} THEN "run" ELSE "begin",
                             ![p] = IF local[p].continue THEN "candidate" ELSE "idle"]
         /\ local' = [local EXCEPT ![s] = [Blank EXCEPT !.hand = local[p].input],
                                   ![p] = [Blank EXCEPT !.continue = local[p].continue]]
  BY DEF LaunchTask
<1>2. pc[p] = "launch" /\ pc[s] = "idle" /\ s \in Procs /\ s # p /\ local[p] \in Locals
  BY <1>1, Allocation DEF LaunchTask, FreeSub, TypeOK
<1>3. Clean([Blank EXCEPT !.hand = local[p].input])
  BY <1>2, Fields, CleanLocals DEF Items
<1>4. Clean([Blank EXCEPT !.continue = local[p].continue])
  BY <1>2, Fields, CleanLocals
<1>5. /\ \A q \in Procs \ {p, s} : pc'[q] = pc[q] /\ local'[q] = local[q]
      /\ pc'[p] \in {"candidate", "idle"} /\ pc'[s] \in {"run", "begin"}
      /\ Clean(local'[p]) /\ Clean(local'[s])
  BY <1>1, <1>2, <1>3, <1>4 DEF TypeOK
<1>6. active_turn' # None
  BY Allocation, ProcsDistinct DEF LaunchTask, InstallTurn
<1>7. Aborting(p) = {} /\ Aborting(s) = {} /\ Aborting(p)' = {} /\ Aborting(s)' = {}
  BY <1>2, <1>5 DEF Aborting, OneOwner, Clean
<1>8. \A q \in Procs : Aborting(q)' = Aborting(q)
  BY <1>5, <1>7 DEF Aborting
<1>9. \A q \in Procs : Aborting(q) \subseteq Subs /\ s \notin Aborting(q)
  BY <1>1, AbortingTasks DEF FreeSub, Aborting
<1>10. /\ {"run", "begin"} \subseteq RunningPcs
       /\ {"launch", "candidate", "idle"} \cap RunningPcs = {}
  BY DEF RunningPcs
<1>11. NoDeadTask' /\ SlotUncancelled'
  BY <1>1, <1>2, <1>5, <1>6, <1>10, Allocation DEF NoDeadTask, SlotUncancelled, TypeOK
<1>12. TasksReachable'
  BY <1>1, <1>5, <1>8, <1>10, Allocation DEF TasksReachable
<1>13. OneOwner'
  <2> SUFFICES ASSUME NEW q \in Procs
               PROVE  /\ tasks' \cap Aborting(q)' = {}
                      /\ pc'[q] = "wait" => local'[q].victim \notin local'[q].doomed
                      /\ pc'[q] \notin {"cancel", "wait"} => local'[q].doomed = {}
                      /\ \A r \in Procs : r # q => Aborting(q)' \cap Aborting(r)' = {}
                      /\ \A t \in Aborting(q)' :
                            /\ pc'[t] \in RunningPcs \cup {"complete", "idle"}
                            /\ local'[t].turn = None
    BY DEF OneOwner
  <2>1. tasks' \cap Aborting(q)' = {}
    BY <1>1, <1>8, <1>9 DEF OneOwner
  <2>2. /\ pc'[q] = "wait" => local'[q].victim \notin local'[q].doomed
        /\ pc'[q] \notin {"cancel", "wait"} => local'[q].doomed = {}
    BY <1>5 DEF OneOwner, Clean
  <2>3. \A r \in Procs : r # q => Aborting(q)' \cap Aborting(r)' = {}
    BY <1>8 DEF OneOwner
  <2>4. \A t \in Aborting(q) : /\ pc[t] \in RunningPcs \cup {"complete", "idle"}
                               /\ local[t].turn = None /\ t \in Procs /\ t # p /\ t # s
    BY <1>2, <1>9, <1>10, Allocation DEF OneOwner
  <2>5. \A t \in Aborting(q)' : pc'[t] \in RunningPcs \cup {"complete", "idle"}
                                /\ local'[t].turn = None
    BY <1>5, <1>8, <2>4
  <2> QED BY <2>1, <2>2, <2>3, <2>5
<1>14. RunsWithoutTurn'
  BY <1>5, <1>10, Allocation DEF RunsWithoutTurn, Clean
<1> QED BY <1>11, <1>12, <1>13, <1>14

\* Every step keeps the owners of the tasks.
LEMMA OwnedStep == ASSUME IInv, [Next]_vars PROVE Owned'
<1>active. tasks # {} => active_turn # None
  BY DEF IInv, Owned, NoDeadTask
<1>1. ASSUME NEW p \in Procs, AbortStep(p) PROVE Owned'
  <2> USE <1>active DEF IInv, turnVars, taskVars
  <2>l. local[p] \in Locals /\ "idle" \notin RunningPcs
    BY DEF TypeOK, RunningPcs
  <2>jump. ASSUME NEW label \in {"idle", "queued", "work"}, NEW l \in Locals, Jump(p, label, l),
                  l.doomed = {}, pc[p] \in {"take_if", "clear_pending"},
                  UNCHANGED <<turnVars, cancelled>>
           PROVE  Owned'
    <3>1. /\ label \in Pcs /\ label \notin RunningPcs /\ label \notin {"cancel", "wait"}
          /\ pc[p] \notin RunningPcs \cup {"complete", "idle", "cancel", "wait"}
      BY <2>jump DEF Pcs, CallPcs, RunningPcs
    <3> QED BY <2>jump, <3>1, OwnedJump
  <2>1. CASE TakeActiveTurn(p)
    BY <2>1, OwnedDrain DEF TakeActiveTurn
  <2>2. CASE TakeIfActive(p)
    BY <2>2, <2>jump, OwnedDrain, CleanLocals DEF TakeIfActive, Return, Clean
  <2>3. CASE ClearPending(p)
    <3>1. /\ [local[p] EXCEPT !.turn = None] \in Locals
          /\ [local[p] EXCEPT !.turn = None].doomed = {}
      BY <2>3, <2>l, SetTurn DEF ClearPending, Owned, OneOwner
    <3> QED BY <2>3, <2>jump, <3>1, CleanLocals DEF ClearPending, AfterAbort, Return, Clean
  <2> QED BY <1>1, <2>1, <2>2, <2>3, OwnedCancel, OwnedAbort DEF AbortStep
<1>2. CASE UNCHANGED vars
  BY <1>2, <1>active, OwnedSame DEF vars, IInv, turnVars, taskVars
<1> QED BY <1>1, <1>2, OwnedOperations, OwnedBeforeLaunch, OwnedLaunch, OwnedGoal, OwnedRun,
           OwnedFinish DEF Next

-----------------------------------------------------------------------------
(***************************************************************************)
(* Approvals.                                                              *)
(***************************************************************************)

\* A step that adds no sender, and after which no sender is left of a task that
\* has stopped waiting, keeps the approvals in order.
LEMMA ApprovalsShrink ==
    ASSUME Approvals,
           \A o \in TurnIds : pending_approvals'[o] \subseteq pending_approvals[o],
           \A s \in Subs : pc[s] = "approval" => \/ pc'[s] = "approval"
                                                 \/ \A o \in TurnIds : s \notin pending_approvals'[o]
    PROVE  Approvals'
BY DEF Approvals

\* Every step keeps the approvals in order.
LEMMA ApprovalsStep == ASSUME IInv, [Next]_vars PROVE Approvals'
<1> USE Allocation DEF IInv, turnVars, stateVars, TypeOK
<1>install. ASSUME NEW o \in TurnIds, InstallTurn(o)
            PROVE  \A q \in TurnIds : pending_approvals'[q] \subseteq pending_approvals[q]
  BY <1>install DEF InstallTurn
<1>moves. ASSUME NEW p \in Procs, NEW label, Goto(p, label), pc[p] # "approval"
          PROVE  \A s \in Subs : pc[s] = "approval" => pc'[s] = "approval"
  BY <1>moves DEF Goto
<1>1. CASE LoopStep
  <2>1. ASSUME NEW s \in Subs, NotifyApproval(s) PROVE Approvals'
    <3>1. \A o \in TurnIds : s \notin pending_approvals'[o]
      BY <2>1 DEF NotifyApproval, Approvals
    <3>2. \A o \in TurnIds : pending_approvals'[o] \subseteq pending_approvals[o]
      BY <2>1 DEF NotifyApproval
    <3>3. \A t \in Subs \ {s} : pc'[t] = pc[t]
      BY <2>1 DEF NotifyApproval, Goto
    <3> QED BY <3>1, <3>2, <3>3, ApprovalsShrink
  <2>2. CASE ~\E s \in Subs : NotifyApproval(s)
    <3>1. UNCHANGED pending_approvals
      BY <1>1, <2>2 DEF LoopStep, SteerInput, SpawnForInput, SpawnTask, Interrupt,
                        InterAgentCommunication, ApproveDeniedAction
    <3>2. \A s \in Subs : pc[s] = "approval" => pc'[s] = "approval"
      BY <1>1, <2>2 DEF LoopStep, SteerInput, SpawnForInput, SpawnTask, Interrupt,
                        InterAgentCommunication, ApproveDeniedAction, Begin, Jump, Goto
    <3> QED BY <3>1, <3>2, ApprovalsShrink
  <2> QED BY <2>1, <2>2
<1>2. ASSUME NEW c \in Clients, ClientStep(c) PROVE Approvals'
  <2>1. UNCHANGED pending_approvals
    BY <1>2 DEF ClientStep, InjectNote, ContinueIfIdle, GuardianInterrupt
  <2>2. \A s \in Subs : pc[s] = "approval" => pc'[s] = "approval"
    BY <1>2 DEF ClientStep, InjectNote, ContinueIfIdle, GuardianInterrupt, Begin, Jump, Goto
  <2> QED BY <2>1, <2>2, ApprovalsShrink
<1>3. ASSUME NEW p \in Procs, AbortStep(p) PROVE Approvals'
  <2>1. CASE AbortTask(p)
    <3>1. PICK s \in Procs : /\ pending_approvals' = [o \in TurnIds |-> pending_approvals[o] \ {s}]
                             /\ \A t \in Subs : pc[t] = "approval" /\ t # s => pc'[t] = "approval"
      <4>1. local[p].victim \in Procs
        BY <2>1, Fields DEF AbortTask, LocalsReady, VictimPcs
      <4> QED BY <2>1, <4>1 DEF AbortTask
    <3> QED BY <3>1, ApprovalsShrink
  <2>2. CASE ~AbortTask(p)
    <3>1. pc[p] # "approval" /\ \E label : Goto(p, label)
      BY <1>3, <2>2 DEF AbortStep, TakeActiveTurn, TakeIfActive, CancelTask, ClearPending,
                        Drain, AfterAbort, Return, Jump
    <3>2. \A o \in TurnIds : pending_approvals'[o] \subseteq pending_approvals[o]
      BY <1>3, <2>2 DEF AbortStep, TakeActiveTurn, TakeIfActive, CancelTask, ClearPending
    <3> QED BY <3>1, <3>2, <1>moves, ApprovalsShrink
  <2> QED BY <2>1, <2>2
<1>4. ASSUME NEW p \in Procs, StartStep(p) PROVE Approvals'
  <2>1. \A o \in TurnIds : pending_approvals'[o] \subseteq pending_approvals[o]
    BY <1>4, <1>install DEF StartStep, CheckPendingWork, ReserveTurn, TakeQueuedItems,
       StartTakeTurnInput, StartDrainMailbox, JoinTurn, PushItems, LaunchTask, TakeTurnInput,
       DrainMailbox
  <2>2. CASE LaunchTask(p)
    <3>1. \A s \in Subs : pc[s] = "approval" => pc'[s] = "approval"
      BY <2>2 DEF LaunchTask, FreeSub
    <3> QED BY <2>1, <3>1, ApprovalsShrink
  <2>3. CASE ~LaunchTask(p)
    <3>1. pc[p] # "approval" /\ \E label : Goto(p, label)
      BY <1>4, <2>3 DEF StartStep, CheckPendingWork, ReserveTurn, TakeQueuedItems,
         StartTakeTurnInput, StartDrainMailbox, JoinTurn, PushItems, TakeTurnInput,
         DrainMailbox, Leave, Return, Jump
    <3> QED BY <2>1, <3>1, <1>moves, ApprovalsShrink
  <2> QED BY <2>2, <2>3
<1>5. ASSUME NEW p \in Procs, GoalStep(p) PROVE Approvals'
  <2>1. \A o \in TurnIds : pending_approvals'[o] \subseteq pending_approvals[o]
    BY <1>5, <1>install DEF GoalStep, GoalCandidate, GoalReserve, GoalReread, StillReserved,
       ClearReserved
  <2>2. pc[p] # "approval" /\ \E label : Goto(p, label)
    BY <1>5 DEF GoalStep, GoalCandidate, GoalReserve, GoalReread, StillReserved, ClearReserved,
       Return, Jump
  <2> QED BY <2>1, <2>2, <1>moves, ApprovalsShrink
<1>6. ASSUME NEW s \in Subs, RunStep(s) PROVE Approvals'
  <2>1. CASE RequestApproval(s)
    <3>1. \A o \in TurnIds : s \notin pending_approvals[o]
      BY <2>1 DEF RequestApproval, Approvals
    <3>2. \A t \in Subs \ {s} : pc'[t] = pc[t]
      BY <2>1 DEF RequestApproval, Goto
    <3>3. pc'[s] = "approval"
      BY <2>1 DEF RequestApproval, Goto
    <3>4. \A o \in TurnIds : pending_approvals'[o] =
             IF o = active_turn THEN pending_approvals[o] \cup {s} ELSE pending_approvals[o]
      BY <2>1 DEF RequestApproval
    <3>5. \A o \in TurnIds : s \in pending_approvals'[o] => o = active_turn
      BY <3>1, <3>4
    <3>6. \A t \in Subs \ {s}, o \in TurnIds : t \in pending_approvals'[o] <=> t \in pending_approvals[o]
      BY <3>4
    <3> SUFFICES ASSUME NEW t \in Subs, NEW o \in TurnIds, t \in pending_approvals'[o]
                 PROVE  /\ pc'[t] = "approval"
                        /\ \A q \in TurnIds : t \in pending_approvals'[q] => q = o
      BY DEF Approvals
    <3>7. CASE t = s
      BY <3>3, <3>5, <3>7
    <3>8. CASE t # s
      BY <3>2, <3>6, <3>8 DEF Approvals
    <3> QED BY <3>7, <3>8
  <2>2. CASE ApprovalDropped(s) \/ RunCancelled(s)
    <3>1. /\ pending_approvals' = [o \in TurnIds |-> pending_approvals[o] \ {s}]
          /\ \A t \in Subs \ {s} : pc'[t] = pc[t]
      BY <2>2 DEF ApprovalDropped, RunCancelled, Jump, Goto
    <3> QED BY <3>1, ApprovalsShrink
  <2>3. CASE ~RequestApproval(s) /\ ~ApprovalDropped(s) /\ ~RunCancelled(s)
    <3>1. UNCHANGED pending_approvals
      BY <1>6, <2>3 DEF RunStep, RecordInput, GiveUpTurn, GetPendingInput,
         TaskDrainMailbox, InspectPendingInput,
         DeferMailbox, AcceptMailbox, RunReturns, HasTurnInput, HasMail, TakeTurnInput,
         DrainMailbox
    <3>2. \A t \in Subs : pc[t] = "approval" => pc'[t] = "approval"
      BY <1>6, <2>3 DEF RunStep, RecordInput, GiveUpTurn, GetPendingInput,
         TaskDrainMailbox, InspectPendingInput,
         DeferMailbox, AcceptMailbox, RunReturns, HasTurnInput, HasMail, TakeTurnInput,
         DrainMailbox, Jump, Goto
    <3> QED BY <3>1, <3>2, ApprovalsShrink
  <2> QED BY <2>1, <2>2, <2>3
<1>7. ASSUME NEW s \in Subs, FinishStep(s) PROVE Approvals'
  <2>1. UNCHANGED pending_approvals
    BY <1>7 DEF FinishStep, FinishRun, RemoveTask, TakeLeftover, CompleteTurn, ClearActiveTurn
  <2>2. pc[s] # "approval" /\ \E label : Goto(s, label)
    BY <1>7 DEF FinishStep, FinishRun, RemoveTask, TakeLeftover, CompleteTurn, ClearActiveTurn,
       Return, Jump
  <2>3. \A t \in Subs : pc[t] = "approval" => pc'[t] = "approval"
    BY <2>2, <1>moves
  <2> QED BY <2>1, <2>3, ApprovalsShrink
<1>8. CASE UNCHANGED vars
  BY <1>8 DEF vars, Approvals
<1> QED BY <1>1, <1>2, <1>3, <1>4, <1>5, <1>6, <1>7, <1>8 DEF Next


\* What happens to the slot in one step: nothing, it is emptied, or a turn that
\* no process refers to is put into an empty slot.
SlotMove == \/ active_turn' = active_turn
            \/ active_turn' = None
            \/ active_turn = None /\ active_turn' \in TurnIds /\ Unused(active_turn')

\* A fresh turn is one that no process refers to.
LEMMA FreshUnused == Allocatable => FreshTurn \in TurnIds /\ Unused(FreshTurn)
BY DEF Allocatable, FreshTurn

\* The slot moves like that in every step.
LEMMA SlotMoves == ASSUME [Next]_vars PROVE SlotMove
<1> USE DEF SlotMove, turnVars
<1>1. CASE LoopStep
  BY <1>1 DEF LoopStep, SteerInput, SpawnForInput, SpawnTask, Interrupt, InterAgentCommunication,
     ApproveDeniedAction, NotifyApproval
<1>2. ASSUME NEW c \in Clients, ClientStep(c) PROVE SlotMove
  BY <1>2 DEF ClientStep, InjectNote, ContinueIfIdle, GuardianInterrupt
<1>3. ASSUME NEW p \in Procs, AbortStep(p) PROVE SlotMove
  BY <1>3 DEF AbortStep, TakeActiveTurn, TakeIfActive, CancelTask, AbortTask, ClearPending, Drain,
     EmptySlot
<1>4. ASSUME NEW p \in Procs, StartStep(p) PROVE SlotMove
  BY <1>4, FreshUnused DEF StartStep, CheckPendingWork, ReserveTurn, TakeQueuedItems,
     StartTakeTurnInput, StartDrainMailbox, JoinTurn, PushItems, LaunchTask, TakeTurnInput,
     DrainMailbox, InstallTurn
<1>5. ASSUME NEW p \in Procs, GoalStep(p) PROVE SlotMove
  BY <1>5, FreshUnused DEF GoalStep, GoalCandidate, GoalReserve, GoalReread, StillReserved,
     ClearReserved, InstallTurn, EmptySlot
<1>6. ASSUME NEW s \in Subs, RunStep(s) PROVE SlotMove
  BY <1>6 DEF RunStep, RecordInput, GiveUpTurn, GetPendingInput,
     TaskDrainMailbox, InspectPendingInput, DeferMailbox,
     AcceptMailbox, RequestApproval, ApprovalDropped, RunCancelled, RunReturns, HasTurnInput,
     HasMail, TakeTurnInput, DrainMailbox
<1>7. ASSUME NEW s \in Subs, FinishStep(s) PROVE SlotMove
  BY <1>7 DEF FinishStep, FinishRun, RemoveTask, TakeLeftover, CompleteTurn, ClearActiveTurn,
     EmptySlot
<1>8. CASE UNCHANGED vars
  BY <1>8 DEF vars
<1> QED BY <1>1, <1>2, <1>3, <1>4, <1>5, <1>6, <1>7, <1>8 DEF Next

\* A call keeps the turn it took while it aborts the turn's tasks.
LEMMA AbortKeepsTurn ==
    ASSUME TypeOK, [Next]_vars, active_turn' # None, NEW p \in Procs, pc'[p] \in AbortPcs
    PROVE  pc[p] \in AbortPcs /\ local'[p].turn = local[p].turn
<1> USE Allocation DEF TypeOK, AbortPcs
<1> DEFINE Kept == pc[p] \in AbortPcs /\ local'[p].turn = local[p].turn
<1>goto. ASSUME NEW q \in Procs, NEW label, Goto(q, label), label \notin AbortPcs
         PROVE  p # q /\ pc'[p] = pc[p]
  BY <1>goto DEF Goto
<1>jump. ASSUME NEW q \in Procs, NEW label, NEW l, Jump(q, label, l), label \notin AbortPcs
         PROVE  Kept
  BY <1>jump, <1>goto DEF Jump
<1>begin. ASSUME NEW q \in Procs, NEW label \in {"take", "take_if", "work"}, NEW l, Begin(q, label, l)
          PROVE  Kept
  BY <1>begin, <1>jump DEF Begin
<1>1. CASE LoopStep
  <2>1. ASSUME NEW i \in UserItems, SteerInput(i) \/ SpawnForInput(i) PROVE Kept
    BY <2>1, <1>begin DEF SteerInput, SpawnForInput
  <2>2. ASSUME NEW k \in SpawnKinds, SpawnTask(k) PROVE Kept
    BY <2>2, <1>begin DEF SpawnTask
  <2>3. CASE Interrupt
    BY <2>3, <1>begin DEF Interrupt
  <2>4. ASSUME NEW i \in MailItems, InterAgentCommunication(i) PROVE Kept
    BY <2>4, <1>begin DEF InterAgentCommunication
  <2>5. ASSUME NEW i \in Notes, ApproveDeniedAction(i) PROVE Kept
    BY <2>5 DEF ApproveDeniedAction
  <2>6. ASSUME NEW s \in Subs, NotifyApproval(s) PROVE Kept
    BY <2>6, <1>goto DEF NotifyApproval
  <2> QED BY <1>1, <2>1, <2>2, <2>3, <2>4, <2>5, <2>6 DEF LoopStep
<1>2. ASSUME NEW c \in Clients, ClientStep(c) PROVE Kept
  <2>1. ASSUME NEW i \in Notes, InjectNote(c, i) PROVE Kept
    BY <2>1 DEF InjectNote
  <2>2. CASE ContinueIfIdle(c)
    BY <2>2, <1>begin DEF ContinueIfIdle
  <2>3. ASSUME NEW s \in Subs, GuardianInterrupt(c, s) PROVE Kept
    BY <2>3, <1>begin DEF GuardianInterrupt
  <2> QED BY <1>2, <2>1, <2>2, <2>3 DEF ClientStep
<1>3. ASSUME NEW q \in Procs, AbortStep(q) PROVE Kept
  <2>1. CASE TakeActiveTurn(q) \/ TakeIfActive(q)
    BY <2>1, <1>jump DEF TakeActiveTurn, TakeIfActive, Drain, EmptySlot, Return
  <2>2. CASE CancelTask(q)
    <3>1. PICK s \in local[q].doomed :
             Jump(q, "wait", [local[q] EXCEPT !.victim = s, !.doomed = local[q].doomed \ {s}])
      BY <2>2 DEF CancelTask
    <3>2. [local[q] EXCEPT !.victim = s, !.doomed = local[q].doomed \ {s}].turn = local[q].turn
      BY Fields, NextVictim
    <3>3. pc[q] = "cancel"
      BY <2>2 DEF CancelTask
    <3> QED BY <3>1, <3>2, <3>3 DEF Jump, Goto
  <2>3. CASE AbortTask(q)
    <3>1. [local[q] EXCEPT !.victim = None].turn = local[q].turn
      BY SetVictim
    <3>2. pc[q] = "wait"
      BY <2>3 DEF AbortTask
    <3> QED BY <2>3, <3>1, <3>2 DEF AbortTask
  <2>4. CASE ClearPending(q)
    BY <2>4, <1>jump DEF ClearPending, AfterAbort, Return
  <2> QED BY <1>3, <2>1, <2>2, <2>3, <2>4 DEF AbortStep
<1>4. ASSUME NEW q \in Procs, StartStep(q) PROVE Kept
  <2>1. CASE LaunchTask(q)
    BY <2>1 DEF LaunchTask
  <2>2. CASE ~LaunchTask(q)
    BY <1>4, <2>2, <1>jump, <1>goto DEF StartStep, CheckPendingWork, ReserveTurn, TakeQueuedItems,
       StartTakeTurnInput, StartDrainMailbox, JoinTurn, PushItems, TakeTurnInput, DrainMailbox,
       Leave, Return
  <2> QED BY <2>1, <2>2
<1>5. ASSUME NEW q \in Procs, GoalStep(q) PROVE Kept
  BY <1>5, <1>jump, <1>goto DEF GoalStep, GoalCandidate, GoalReserve, GoalReread, StillReserved,
     ClearReserved, Return
<1>6. ASSUME NEW s \in Subs, RunStep(s) PROVE Kept
  BY <1>6, <1>jump, <1>goto DEF RunStep, RecordInput, GiveUpTurn, GetPendingInput,
     TaskDrainMailbox, InspectPendingInput,
     DeferMailbox, AcceptMailbox, RequestApproval, ApprovalDropped, RunCancelled, RunReturns,
     HasTurnInput, HasMail, TakeTurnInput, DrainMailbox
<1>7. ASSUME NEW s \in Subs, FinishStep(s) PROVE Kept
  BY <1>7, <1>jump, <1>goto DEF FinishStep, FinishRun, RemoveTask, TakeLeftover, CompleteTurn,
     ClearActiveTurn, Return
<1>8. CASE UNCHANGED vars
  BY <1>8 DEF vars
<1> QED BY <1>1, <1>2, <1>3, <1>4, <1>5, <1>6, <1>7, <1>8 DEF Next

\* The turn a call clears does not become active again.
LEMMA GoneStep == ASSUME TypeOK, AbortedTurnGone, [Next]_vars PROVE AbortedTurnGone'
<1> SUFFICES ASSUME NEW p \in Procs, pc'[p] \in AbortPcs
             PROVE  local'[p].turn = None \/ local'[p].turn # active_turn'
  BY DEF AbortedTurnGone
<1>1. CASE active_turn' = None
  BY <1>1
<1>2. CASE active_turn' # None
  <2>1. pc[p] \in AbortPcs /\ local'[p].turn = local[p].turn
    BY <1>2, AbortKeepsTurn
  <2> QED BY <1>2, <2>1, SlotMoves DEF SlotMove, Unused, AbortedTurnGone
<1> QED BY <1>1, <1>2

\* A step that leaves the turn of the slot's tasks, and the senders of those that
\* wait, where they are keeps approvals answerable.
LEMMA AnswerableKept ==
    ASSUME IInv, ApprovalAnswerable,
           \A t \in tasks' : pc'[t] = "approval" =>
              /\ t \in tasks /\ pc[t] = "approval" /\ active_turn' = active_turn
              /\ t \in pending_approvals[active_turn] => t \in pending_approvals'[active_turn]
    PROVE  ApprovalAnswerable'
BY DEF ApprovalAnswerable

\* Every step keeps approvals answerable.
LEMMA AnswerableStep == ASSUME AnswerInv, [Next]_vars PROVE ApprovalAnswerable'
<1> USE DEF AnswerInv, IInv, turnVars, stateVars
<1>slot. tasks # {} => active_turn \in TurnIds /\ active_turn # None
  BY DEF Owned, NoDeadTask, TypeOK
<1>others. ASSUME NEW p \in Procs, NEW label, Goto(p, label), label # "approval",
                  UNCHANGED pending_approvals, tasks' = {} \/ UNCHANGED active_turn,
                  tasks' \subseteq tasks
           PROVE  ApprovalAnswerable'
  <2>1. \A t \in tasks : t \in Procs
    BY Allocation DEF TypeOK
  <2>2. \A t \in tasks' : pc'[t] = "approval" => pc[t] = "approval"
    BY <1>others, <2>1 DEF Goto, TypeOK
  <2> QED BY <1>others, <2>2, AnswerableKept
<1>same. UNCHANGED <<tasks, active_turn, pc, pending_approvals>> => ApprovalAnswerable'
  BY AnswerableKept
<1>empty. tasks = {} /\ UNCHANGED tasks => ApprovalAnswerable'
  BY DEF ApprovalAnswerable
<1>1. CASE LoopStep
  <2>1. ASSUME NEW i \in UserItems, SteerInput(i) \/ SpawnForInput(i) PROVE ApprovalAnswerable'
    BY <2>1, <1>same, <1>others, Allocation DEF SteerInput, SpawnForInput, Begin, Jump
  <2>2. ASSUME NEW k \in SpawnKinds, SpawnTask(k) PROVE ApprovalAnswerable'
    BY <2>2, <1>others, Allocation DEF SpawnTask, Begin, Jump
  <2>3. CASE Interrupt
    BY <2>3, <1>others, Allocation DEF Interrupt, Begin, Jump
  <2>4. ASSUME NEW i \in MailItems, InterAgentCommunication(i) PROVE ApprovalAnswerable'
    BY <2>4, <1>same, <1>others, Allocation DEF InterAgentCommunication, Begin, Jump
  <2>5. ASSUME NEW i \in Notes, ApproveDeniedAction(i) PROVE ApprovalAnswerable'
    BY <2>5, <1>same DEF ApproveDeniedAction
  <2>6. ASSUME NEW s \in Subs, NotifyApproval(s) PROVE ApprovalAnswerable'
    <3>1. s \in Procs /\ \A t \in tasks : t \in Procs
      BY Allocation DEF TypeOK
    <3>2. \A t \in tasks : pc'[t] = "approval" => pc[t] = "approval" /\ t # s
      BY <2>6, <3>1 DEF NotifyApproval, Goto, TypeOK
    <3>3. \A t : t # s /\ t \in pending_approvals[active_turn] => t \in pending_approvals'[active_turn]
      BY <2>6 DEF NotifyApproval, TypeOK
    <3> QED BY <2>6, <3>2, <3>3, AnswerableKept DEF NotifyApproval
  <2> QED BY <1>1, <2>1, <2>2, <2>3, <2>4, <2>5, <2>6 DEF LoopStep
<1>2. ASSUME NEW c \in Clients, ClientStep(c) PROVE ApprovalAnswerable'
  <2>1. ASSUME NEW i \in Notes, InjectNote(c, i) PROVE ApprovalAnswerable'
    BY <2>1, <1>same DEF InjectNote
  <2>2. CASE ContinueIfIdle(c)
    BY <2>2, <1>others, Allocation DEF ContinueIfIdle, Begin, Jump
  <2>3. ASSUME NEW s \in Subs, GuardianInterrupt(c, s) PROVE ApprovalAnswerable'
    BY <2>3, <1>others, Allocation DEF GuardianInterrupt, Begin, Jump
  <2> QED BY <1>2, <2>1, <2>2, <2>3 DEF ClientStep
<1>3. ASSUME NEW p \in Procs, AbortStep(p) PROVE ApprovalAnswerable'
  <2>1. CASE TakeActiveTurn(p)
    BY <2>1, <1>others DEF TakeActiveTurn, Drain, EmptySlot, Jump
  <2>2. CASE TakeIfActive(p)
    BY <2>2, <1>others DEF TakeIfActive, Drain, EmptySlot, Return, Jump
  <2>3. CASE CancelTask(p)
    BY <2>3, <1>others DEF CancelTask, Jump
  <2>4. CASE AbortTask(p)
    <3>1. PICK s \in Aborting(p) : s = local[p].victim /\ s \notin tasks
      BY <2>4 DEF AbortTask, Aborting, Owned, OneOwner
    <3>2. \A t \in tasks : t \in Procs /\ t # s
      BY <3>1, Allocation DEF TypeOK
    <3>3. \A t \in tasks : pc'[t] = "approval" => pc[t] = "approval"
      BY <2>4, <3>1, <3>2 DEF AbortTask, TypeOK
    <3>4. \A t \in tasks : t \in pending_approvals[active_turn] => t \in pending_approvals'[active_turn]
      BY <2>4, <3>1, <3>2, <1>slot DEF AbortTask
    <3> QED BY <2>4, <3>3, <3>4, AnswerableKept DEF AbortTask
  <2>5. CASE ClearPending(p)
    <3>1. \E label \in {"queued", "work", "idle"} : Goto(p, label)
      BY <2>5 DEF ClearPending, AfterAbort, Return, Jump
    <3>2. CASE local[p].turn = None
      BY <2>5, <3>1, <3>2, <1>others DEF ClearPending
    <3>3. CASE local[p].turn # None
      <4>1. local[p].turn # active_turn /\ local[p].turn \in TurnIds
        <5>1. local[p] \in Locals
          BY DEF TypeOK
        <5> QED BY <2>5, <3>3, <5>1, Fields DEF ClearPending, AbortedTurnGone, AbortPcs
      <4>2. \A t \in tasks : t \in Procs
        BY Allocation DEF TypeOK
      <4>3. \A t \in tasks : pc'[t] = "approval" => pc[t] = "approval"
        BY <3>1, <4>2 DEF Goto, TypeOK
      <4>4. tasks # {} => pending_approvals'[active_turn] = pending_approvals[active_turn]
        BY <2>5, <3>3, <4>1, <1>slot DEF ClearPending, TypeOK
      <4> QED BY <2>5, <4>3, <4>4, AnswerableKept DEF ClearPending
    <3> QED BY <3>2, <3>3
  <2> QED BY <1>3, <2>1, <2>2, <2>3, <2>4, <2>5 DEF AbortStep
<1>4. ASSUME NEW p \in Procs, StartStep(p) PROVE ApprovalAnswerable'
  <2>1. CASE CheckPendingWork(p)
    BY <2>1, <1>others DEF CheckPendingWork, Leave, Return, Jump
  <2>2. CASE ReserveTurn(p)
    BY <2>2, <1>slot, <1>empty, <1>others DEF ReserveTurn, Leave, Return, Jump
  <2>3. CASE TakeQueuedItems(p) \/ StartTakeTurnInput(p) \/ StartDrainMailbox(p) \/ PushItems(p)
    BY <2>3, <1>others DEF TakeQueuedItems, StartTakeTurnInput, TakeTurnInput, StartDrainMailbox,
       DrainMailbox, PushItems, Jump
  <2>4. CASE JoinTurn(p)
    BY <2>4, <1>slot, <1>empty, <1>others DEF JoinTurn, Jump
  <2>5. CASE LaunchTask(p)
    <3>1. PICK s \in Subs :
             /\ tasks' = tasks \cup {s}
             /\ pc' = [pc EXCEPT ![s] = IF local[p].input = {} THEN "run" ELSE "begin",
                                 ![p] = IF local[p].continue THEN "candidate" ELSE "idle"]
      BY <2>5 DEF LaunchTask
    <3>2. s \in Procs /\ \A t \in tasks : t \in Procs
      BY Allocation DEF TypeOK
    <3>3. \A t \in tasks' : pc'[t] = "approval" => pc[t] = "approval" /\ t \in tasks
      BY <3>1, <3>2 DEF TypeOK
    <3>4. tasks # {} => UNCHANGED <<active_turn, pending_approvals>>
      BY <2>5, <1>slot DEF LaunchTask
    <3> QED BY <3>3, <3>4, AnswerableKept
  <2> QED BY <1>4, <2>1, <2>2, <2>3, <2>4, <2>5 DEF StartStep
<1>5. ASSUME NEW p \in Procs, GoalStep(p) PROVE ApprovalAnswerable'
  <2>1. CASE GoalCandidate(p) \/ GoalReread(p) \/ StillReserved(p)
    BY <2>1, <1>others DEF GoalCandidate, GoalReread, StillReserved, Return, Jump
  <2>2. CASE GoalReserve(p)
    BY <2>2, <1>slot, <1>empty, <1>others DEF GoalReserve, Return, Jump
  <2>3. CASE ClearReserved(p)
    BY <2>3, <1>others DEF ClearReserved, EmptySlot, Return, Jump
  <2> QED BY <1>5, <2>1, <2>2, <2>3 DEF GoalStep
<1>6. ASSUME NEW s \in Subs, RunStep(s) PROVE ApprovalAnswerable'
  <2>0. s \in Procs
    BY Allocation
  <2>1. CASE \/ RecordInput(s) \/ GiveUpTurn(s)
             \/ GetPendingInput(s) \/ TaskDrainMailbox(s) \/ InspectPendingInput(s)
    BY <2>0, <2>1, <1>others DEF RecordInput, GiveUpTurn, GetPendingInput,
       TakeTurnInput, TaskDrainMailbox, DrainMailbox,
       InspectPendingInput, Jump
  <2>2. CASE DeferMailbox(s) \/ AcceptMailbox(s)
    BY <2>2, <1>same DEF DeferMailbox, AcceptMailbox
  <2>3. CASE RunReturns(s) \/ HasTurnInput(s) \/ HasMail(s)
    BY <2>0, <2>3, <1>others DEF RunReturns, HasTurnInput, HasMail
  <2>4. CASE RequestApproval(s)
    <3>1. \A t \in tasks : t \in Procs
      BY Allocation DEF TypeOK
    <3>2. \A t \in tasks \ {s} : pc'[t] = pc[t]
      BY <2>4, <3>1 DEF RequestApproval, Goto, TypeOK
    <3>3. pending_approvals'[active_turn] = pending_approvals[active_turn] \cup {s}
      BY <2>4 DEF RequestApproval, TypeOK
    <3> QED BY <2>4, <3>2, <3>3 DEF RequestApproval, ApprovalAnswerable
  <2>5. CASE ApprovalDropped(s) \/ RunCancelled(s)
    <3>1. /\ pending_approvals' = [o \in TurnIds |-> pending_approvals[o] \ {s}]
          /\ UNCHANGED <<tasks, active_turn>>
          /\ Goto(s, "run") \/ Goto(s, "finish")
      BY <2>5 DEF ApprovalDropped, RunCancelled, Jump
    <3>2. \A t \in tasks : t \in Procs
      BY Allocation DEF TypeOK
    <3>3. \A t \in tasks : pc'[t] = "approval" => pc[t] = "approval" /\ t # s
      BY <2>0, <3>1, <3>2 DEF Goto, TypeOK
    <3> QED BY <3>1, <3>3, <1>slot, AnswerableKept
  <2> QED BY <1>6, <2>1, <2>2, <2>3, <2>4, <2>5 DEF RunStep
<1>7. ASSUME NEW s \in Subs, FinishStep(s) PROVE ApprovalAnswerable'
  <2>0. s \in Procs
    BY Allocation
  <2>1. CASE FinishRun(s) \/ RemoveTask(s) \/ TakeLeftover(s) \/ CompleteTurn(s)
    BY <2>0, <2>1, <1>others DEF FinishRun, RemoveTask, TakeLeftover, CompleteTurn, Return, Jump
  <2>2. CASE ClearActiveTurn(s)
    BY <2>0, <2>2, <1>others DEF ClearActiveTurn, EmptySlot, Return, Jump
  <2> QED BY <1>7, <2>1, <2>2 DEF FinishStep
<1>8. CASE UNCHANGED vars
  BY <1>8, <1>same DEF vars
<1> QED BY <1>1, <1>2, <1>3, <1>4, <1>5, <1>6, <1>7, <1>8 DEF Next

-----------------------------------------------------------------------------
(***************************************************************************)
(* A task that ends has reported it, or is left to who aborts it.          *)
(***************************************************************************)

\* A task that is about to clear the slot has reported its end.
ClearReported == \A s \in Subs : pc[s] = "clear" => reported[s] # {}

\* What a step must do for every task.
EndsWell ==
    \A s \in Subs :
       /\ pc[s] \in TaskPcs /\ pc'[s] \notin TaskPcs =>
             reported'[s] # {} \/ \E p \in Procs : s \in Aborting(p)'
       /\ pc'[s] = "clear" => reported'[s] # {}

\* Labels of a task and of a call are different.
LEMMA Labels ==
    /\ TaskPcs \cap CallPcs = {} /\ "idle" \notin TaskPcs \cup CallPcs
    /\ "clear" \in TaskPcs /\ RunningPcs \subseteq TaskPcs
BY DEF TaskPcs, CallPcs, RunningPcs

\* A call that moves ends no task.
LEMMA CallMoves ==
    ASSUME TypeOK, ClearReported, NEW p \in Procs, NEW x \in CallPcs \cup {"idle"},
           pc[p] \in CallPcs \cup {"idle"}, pc' = [pc EXCEPT ![p] = x], UNCHANGED reported
    PROVE  EndsWell
<1>1. \A s \in Subs : s # p => pc'[s] = pc[s]
  BY Allocation DEF TypeOK
<1>2. pc'[p] = x
  BY DEF TypeOK
<1> QED BY <1>1, <1>2, Labels DEF EndsWell, ClearReported

\* A task that goes on running.
LEMMA RunMoves ==
    ASSUME TypeOK, ClearReported, NEW p \in Subs, NEW x \in TaskPcs \ {"clear"},
           pc' = [pc EXCEPT ![p] = x], UNCHANGED reported
    PROVE  EndsWell
<1>1. \A s \in Subs : pc'[s] = IF s = p THEN x ELSE pc[s]
  BY Allocation DEF TypeOK
<1> QED BY <1>1 DEF EndsWell, ClearReported

\* An operation that begins, or an answer to an approval, ends no task.
LEMMA EndsOperations ==
    ASSUME IInv, ClearReported, LoopStep \/ \E c \in Clients : ClientStep(c)
    PROVE  EndsWell
<1>0. TypeOK
  BY DEF IInv
<1>1. CASE UNCHANGED <<pc, reported>>
  BY <1>1 DEF EndsWell, ClearReported
<1>2. ASSUME NEW p \in Procs, NEW label \in CallPcs, NEW l, Begin(p, label, l), UNCHANGED reported
      PROVE  EndsWell
  <2>1. pc[p] = "idle" /\ pc' = [pc EXCEPT ![p] = label]
    BY <1>2 DEF Begin, Jump, Goto
  <2> QED BY <1>0, <1>2, <2>1, CallMoves
<1>3. ASSUME NEW s \in Subs, NotifyApproval(s)
      PROVE  EndsWell
  BY <1>0, <1>3, RunMoves DEF NotifyApproval, Goto, taskVars, TaskPcs
<1>4. ASSUME NEW i \in UserItems, SteerInput(i) \/ SpawnForInput(i)
      PROVE  EndsWell
  BY <1>1, <1>2, <1>4, Allocation DEF SteerInput, SpawnForInput, taskVars, CallPcs
<1>5. ASSUME NEW k \in SpawnKinds, SpawnTask(k)
      PROVE  EndsWell
  BY <1>2, <1>5, Allocation DEF SpawnTask, taskVars, CallPcs
<1>6. CASE Interrupt
  BY <1>2, <1>6, Allocation DEF Interrupt, taskVars, CallPcs
<1>7. ASSUME NEW i \in MailItems, InterAgentCommunication(i)
      PROVE  EndsWell
  BY <1>1, <1>2, <1>7, Allocation DEF InterAgentCommunication, taskVars, CallPcs
<1>8. ASSUME NEW i \in Notes, ApproveDeniedAction(i)
      PROVE  EndsWell
  BY <1>1, <1>8 DEF ApproveDeniedAction, taskVars
<1>9. ASSUME NEW c \in Clients, ClientStep(c)
      PROVE  EndsWell
  BY <1>1, <1>2, <1>9, Allocation
     DEF ClientStep, InjectNote, ContinueIfIdle, GuardianInterrupt, taskVars, CallPcs
<1> QED BY <1>3, <1>4, <1>5, <1>6, <1>7, <1>8, <1>9 DEF LoopStep

\* An abort reports the task whose handle it aborts.
LEMMA EndsAbort ==
    ASSUME IInv, ClearReported, NEW p \in Procs, AbortStep(p)
    PROVE  EndsWell
<1>0. TypeOK
  BY DEF IInv
<1>1. CASE AbortTask(p)
  <2>1. PICK s : s = local[p].victim
    OBVIOUS
  <2>2. pc[p] = "wait" /\ s \in Subs
    BY <1>1, <2>1, <1>0, Fields DEF AbortTask, TypeOK, LocalsReady, VictimPcs
  <2>3. PICK x \in {"clear_pending", "cancel"} : pc' = [pc EXCEPT ![s] = "idle", ![p] = x]
    BY <1>1, <2>1 DEF AbortTask
  <2>4. reported' = [reported EXCEPT ![s] = reported[s] \cup {"aborted"}]
    BY <1>1, <2>1 DEF AbortTask
  <2>5. reported'[s] # {} /\ \A t \in Subs : t # s => reported'[t] = reported[t]
    BY <1>0, <2>2, <2>4 DEF TypeOK
  <2>6. \A t \in Subs : t # s /\ t # p => pc'[t] = pc[t]
    BY <1>0, <2>2, <2>3, Allocation DEF TypeOK
  <2>7. pc'[p] = x
    BY <1>0, <2>2, <2>3, Allocation DEF TypeOK
  <2> QED BY <2>2, <2>5, <2>6, <2>7 DEF EndsWell, ClearReported, TaskPcs
<1>2. CASE TakeActiveTurn(p) \/ TakeIfActive(p) \/ CancelTask(p) \/ ClearPending(p)
  <2>1. PICK x \in CallPcs \cup {"idle"} :
          pc' = [pc EXCEPT ![p] = x] /\ pc[p] \in CallPcs /\ UNCHANGED reported
    <3>1. UNCHANGED reported /\ pc[p] \in CallPcs
      BY <1>2 DEF TakeActiveTurn, TakeIfActive, CancelTask, ClearPending, taskVars, CallPcs
    <3>2. \E x \in {"idle", "clear_pending", "cancel", "wait", "queued", "work"} :
             pc' = [pc EXCEPT ![p] = x]
      BY <1>2 DEF TakeActiveTurn, TakeIfActive, CancelTask, ClearPending, AfterAbort, Drain, Return,
                  Jump, Goto
    <3> QED BY <3>1, <3>2 DEF CallPcs
  <2> QED BY <1>0, <2>1, CallMoves
<1> QED BY <1>1, <1>2 DEF AbortStep

\* A start launches a task and ends none.
LEMMA EndsStart ==
    ASSUME IInv, ClearReported, NEW p \in Procs, StartStep(p) \/ GoalStep(p)
    PROVE  EndsWell
<1>0. TypeOK
  BY DEF IInv
<1>1. CASE LaunchTask(p)
  <2>1. PICK s : s = CHOOSE t \in Subs : FreeSub(t)
    OBVIOUS
  <2>2. s \in Subs /\ pc[s] = "idle" /\ pc[p] = "launch"
    BY <1>1, <2>1 DEF LaunchTask, FreeSub
  <2>3. PICK x \in {"run", "begin"}, y \in {"candidate", "idle"} :
          pc' = [pc EXCEPT ![s] = x, ![p] = y]
    BY <1>1, <2>1 DEF LaunchTask
  <2>4. reported' = [reported EXCEPT ![s] = {}]
    BY <1>1, <2>1 DEF LaunchTask
  <2>5. /\ \A t \in Subs : t # s /\ t # p => pc'[t] = pc[t] /\ reported'[t] = reported[t]
        /\ pc'[s] = x /\ pc'[p] = y
    BY <1>0, <2>2, <2>3, <2>4, Allocation DEF TypeOK
  <2> QED BY <2>2, <2>5 DEF EndsWell, ClearReported, TaskPcs
<1>2. CASE \/ CheckPendingWork(p) \/ ReserveTurn(p) \/ TakeQueuedItems(p) \/ StartTakeTurnInput(p)
           \/ StartDrainMailbox(p) \/ JoinTurn(p) \/ PushItems(p)
  <2>1. UNCHANGED reported /\ pc[p] \in CallPcs
    BY <1>2 DEF CheckPendingWork, ReserveTurn, TakeQueuedItems, StartTakeTurnInput, StartDrainMailbox,
                JoinTurn, PushItems, TakeTurnInput, DrainMailbox, taskVars, CallPcs
  <2>2. \E x \in {"idle", "candidate", "reserve", "queued", "turn_input", "mail", "join", "push", "launch"} :
           pc' = [pc EXCEPT ![p] = x]
    BY <1>2 DEF CheckPendingWork, ReserveTurn, TakeQueuedItems, StartTakeTurnInput, StartDrainMailbox,
                JoinTurn, PushItems, TakeTurnInput, DrainMailbox, Leave, Return, Jump, Goto
  <2>3. PICK x \in CallPcs \cup {"idle"} : pc' = [pc EXCEPT ![p] = x]
    BY <2>2 DEF CallPcs
  <2> QED BY <1>0, <2>1, <2>3, CallMoves
<1>3. CASE GoalStep(p)
  <2>1. UNCHANGED reported /\ pc[p] \in CallPcs
    BY <1>3 DEF GoalStep, GoalCandidate, GoalReserve, GoalReread, StillReserved, ClearReserved,
                taskVars, CallPcs
  <2>2. \E x \in {"idle", "goal_reserve", "reread", "reserved", "unreserve", "queued"} :
           pc' = [pc EXCEPT ![p] = x]
    BY <1>3 DEF GoalStep, GoalCandidate, GoalReserve, GoalReread, StillReserved, ClearReserved,
                Return, Jump, Goto
  <2>3. PICK x \in CallPcs \cup {"idle"} : pc' = [pc EXCEPT ![p] = x]
    BY <2>2 DEF CallPcs
  <2> QED BY <1>0, <2>1, <2>3, CallMoves
<1> QED BY <1>1, <1>2, <1>3 DEF StartStep

\* A task that runs does not end before on_task_finished.
LEMMA EndsRun ==
    ASSUME IInv, ClearReported, NEW s \in Subs, RunStep(s)
    PROVE  EndsWell
<1>0. TypeOK
  BY DEF IInv
<1>1. CASE DeferMailbox(s) \/ AcceptMailbox(s)
  BY <1>1 DEF DeferMailbox, AcceptMailbox, taskVars, EndsWell, ClearReported
<1>2. CASE \/ RecordInput(s) \/ GiveUpTurn(s)
           \/ GetPendingInput(s) \/ TaskDrainMailbox(s) \/ InspectPendingInput(s)
           \/ RequestApproval(s) \/ ApprovalDropped(s) \/ RunCancelled(s) \/ RunReturns(s)
           \/ HasTurnInput(s) \/ HasMail(s)
  <2>1. UNCHANGED reported
    BY <1>2 DEF RecordInput, GiveUpTurn, GetPendingInput, TaskDrainMailbox, InspectPendingInput,
                RequestApproval,
                ApprovalDropped, RunCancelled, RunReturns, HasTurnInput, HasMail, TakeTurnInput,
                DrainMailbox, taskVars
  <2>2. \E x \in {"run", "drain_mail", "inspect", "approval", "check_mail", "finish"} :
           pc' = [pc EXCEPT ![s] = x]
    BY <1>2 DEF RecordInput, GiveUpTurn, GetPendingInput, TaskDrainMailbox, InspectPendingInput,
                RequestApproval,
                ApprovalDropped, RunCancelled, RunReturns, HasTurnInput, HasMail, TakeTurnInput,
                DrainMailbox, Jump, Goto
  <2>3. PICK x \in TaskPcs \ {"clear"} : pc' = [pc EXCEPT ![s] = x]
    BY <2>2 DEF TaskPcs
  <2> QED BY <1>0, <2>1, <2>3, RunMoves
<1> QED BY <1>1, <1>2 DEF RunStep

\* A cancelled task ends silently, but it is not in the slot, and so a call aborts it.
LEMMA EndsFinish ==
    ASSUME IInv, ClearReported, NEW s \in Subs, FinishStep(s)
    PROVE  EndsWell
<1>0. TypeOK /\ s \in Procs
  BY Allocation DEF IInv
<1>1. CASE FinishRun(s)
  <2>1. pc[s] = "finish" /\ UNCHANGED <<local, reported>>
    BY <1>1 DEF FinishRun, taskVars
  <2>2. CASE s \notin cancelled
    <3>1. "remove" \in TaskPcs \ {"clear"} /\ pc' = [pc EXCEPT ![s] = "remove"]
      BY <1>1, <2>2 DEF FinishRun, Goto, TaskPcs
    <3> QED BY <1>0, <2>1, <3>1, RunMoves
  <2>3. CASE s \in cancelled
    <3>1. pc' = [pc EXCEPT ![s] = "idle"]
      BY <1>1, <2>3 DEF FinishRun, Goto
    <3>2. \A q \in Procs : pc'[q] = IF q = s THEN "idle" ELSE pc[q]
      BY <1>0, <3>1 DEF TypeOK
    <3>3. s \notin tasks
      BY <2>3 DEF IInv, Owned, SlotUncancelled
    <3>4. PICK p \in Procs : s \in Aborting(p)
      BY <2>1, <3>3 DEF IInv, Owned, TasksReachable, RunningPcs
    <3>5. s \in Aborting(p)'
      BY <2>1, <3>2, <3>4 DEF Aborting
    <3> QED BY <2>1, <3>2, <3>5, Allocation DEF EndsWell, ClearReported
  <2> QED BY <2>2, <2>3
<1>2. CASE RemoveTask(s) \/ TakeLeftover(s)
  <2>1. UNCHANGED reported
    BY <1>2 DEF RemoveTask, TakeLeftover, taskVars
  <2>2. \E x \in {"leftover", "complete"} : pc' = [pc EXCEPT ![s] = x]
    BY <1>2 DEF RemoveTask, TakeLeftover, Jump, Goto
  <2>3. PICK x \in TaskPcs \ {"clear"} : pc' = [pc EXCEPT ![s] = x]
    BY <2>2 DEF TaskPcs
  <2> QED BY <1>0, <2>1, <2>3, RunMoves
<1>3. CASE CompleteTurn(s)
  <2>1. reported' = [reported EXCEPT ![s] = reported[s] \cup {"complete"}]
    BY <1>3 DEF CompleteTurn
  <2>2. reported'[s] # {} /\ \A t \in Subs : t # s => reported'[t] = reported[t]
    BY <1>0, <2>1 DEF TypeOK
  <2>3. \E x \in {"idle", "clear"} : pc' = [pc EXCEPT ![s] = x]
    BY <1>3 DEF CompleteTurn, Return, Jump, Goto
  <2>4. \A t \in Subs : t # s => pc'[t] = pc[t]
    BY <1>0, <2>3, Allocation DEF TypeOK
  <2> QED BY <2>2, <2>4 DEF EndsWell, ClearReported
<1>4. CASE ClearActiveTurn(s)
  <2>1. UNCHANGED reported /\ pc[s] = "clear"
    BY <1>4 DEF ClearActiveTurn, taskVars
  <2>2. \E x \in {"idle", "work"} : pc' = [pc EXCEPT ![s] = x]
    BY <1>4 DEF ClearActiveTurn, Return, Jump, Goto
  <2>3. \A t \in Subs : t # s => pc'[t] = pc[t]
    BY <1>0, <2>2, Allocation DEF TypeOK
  <2> QED BY <2>1, <2>3 DEF EndsWell, ClearReported
<1> QED BY <1>1, <1>2, <1>3, <1>4 DEF FinishStep

\* Every step ends tasks well.
LEMMA EndsStep == ASSUME IInv, ClearReported, [Next]_vars PROVE EndsWell
<1>1. CASE UNCHANGED vars
  BY <1>1 DEF vars, taskVars, EndsWell, ClearReported
<1>2. CASE LoopStep \/ \E c \in Clients : ClientStep(c)
  BY <1>2, EndsOperations
<1>3. ASSUME NEW p \in Procs, AbortStep(p) \/ StartStep(p) \/ GoalStep(p)
      PROVE  EndsWell
  BY <1>3, EndsAbort, EndsStart
<1>4. ASSUME NEW s \in Subs, RunStep(s) \/ FinishStep(s)
      PROVE  EndsWell
  BY <1>4, EndsRun, EndsFinish
<1> QED BY <1>1, <1>2, <1>3, <1>4 DEF Next

-----------------------------------------------------------------------------
(***************************************************************************)
(* The theorems.                                                           *)
(***************************************************************************)

\* The invariant holds initially: the session is idle.
LEMMA InitIInv == Init => IInv
<1> SUFFICES ASSUME Init PROVE IInv
  OBVIOUS
<1> USE DEF Init
<1>1. Clean(Blank) /\ "idle" \in Pcs /\ "idle" \notin RunningPcs \cup TurnPcs \cup VictimPcs
      /\ "regular" \in Kinds
  BY CleanLocals DEF Pcs, RunningPcs, TurnPcs, VictimPcs, Kinds
<1>2. TypeOK
  BY <1>1 DEF TypeOK, LocalsReady, Clean
<1>3. \A p \in Procs : Aborting(p) = {} /\ local[p].doomed = {} /\ pc[p] = "idle"
  BY <1>1 DEF Aborting, Clean
<1>4. Owned
  BY <1>1, <1>3, Allocation DEF Owned, NoDeadTask, TasksReachable, OneOwner, SlotUncancelled,
     RunsWithoutTurn
<1>5. Approvals
  BY DEF Approvals
<1> QED BY <1>2, <1>4, <1>5 DEF IInv

\* Every reachable state satisfies the inductive invariant.
LEMMA Invariance == Spec => []IInv
<1>1. IInv /\ [Next]_vars => IInv'
  BY TypeStep, OwnedStep, ApprovalsStep DEF IInv, Owned
<1> QED BY InitIInv, <1>1, PTL DEF Spec

\* Every reachable state is well typed: in particular start_task, the goal
\* continuation and a finishing task always have the turn they look at.
THEOREM TypeCorrect == Spec => []TypeOK
<1>1. IInv => TypeOK
  BY DEF IInv
<1> QED BY Invariance, <1>1, PTL

\* However many clients, tasks and turns there are, and however starts, finishes
\* and aborts interleave, a running task is in the slot or being aborted.
THEOREM RunningTasksReachable == Spec => []TasksReachable
<1>1. IInv => TasksReachable
  BY DEF IInv, Owned
<1> QED BY Invariance, <1>1, PTL

\* The slot never holds a task that has ended, and no task without a turn.
THEOREM SlotAlive == Spec => []NoDeadTask
<1>1. IInv => NoDeadTask
  BY DEF IInv, Owned
<1> QED BY Invariance, <1>1, PTL

\* A task of the active turn that waits for an approval has its sender in the
\* state of that turn, whatever other calls clear in the meantime.
THEOREM ApprovalsAnswerable == Spec => []ApprovalAnswerable
<1>1. Init => AbortedTurnGone /\ ApprovalAnswerable
  BY DEF Init, AbortedTurnGone, AbortPcs, ApprovalAnswerable
<1>2. IInv /\ AbortedTurnGone /\ ApprovalAnswerable /\ [Next]_vars
        => AbortedTurnGone' /\ ApprovalAnswerable'
  BY GoneStep, AnswerableStep DEF IInv, AnswerInv
<1>3. Spec => [](AbortedTurnGone /\ ApprovalAnswerable)
  BY Invariance, <1>1, <1>2, PTL DEF Spec
<1> QED BY <1>3, PTL

\* No turn ends silently: whatever ends a task, its end has been reported then, or a
\* call that has not reported it yet is aborting it.
THEOREM EndsReported == Spec => EndReported
<1>1. Init => ClearReported
  BY Allocation DEF Init, ClearReported
<1>2. IInv /\ ClearReported /\ [Next]_vars => ClearReported'
  BY EndsStep DEF EndsWell, ClearReported
<1>3. IInv /\ ClearReported /\ [Next]_vars =>
        [\A s \in Subs : pc[s] \in TaskPcs /\ pc'[s] \notin TaskPcs =>
            reported'[s] # {} \/ \E p \in Procs : s \in Aborting(p)']_vars
  BY EndsStep DEF EndsWell
<1> QED BY Invariance, <1>1, <1>2, <1>3, PTL DEF Spec, EndReported
=============================================================================
