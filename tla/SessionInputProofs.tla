-------------------------- MODULE SessionInputProofs --------------------------
(***************************************************************************)
(* Proofs about SessionTurns while only the submission loop starts turns:  *)
(* no trigger mail, no items injected by services and no goals, which the  *)
(* wakeups of an idle session come from.  Then a session runs at most one  *)
(* task, and no user input is lost, for every number of tasks, turns,      *)
(* inputs and clients, whatever the guardian aborts from its own task.     *)
(*                                                                         *)
(* The argument has two parts.  Nobody but the loop gets to the steps that *)
(* install a turn or launch a task, so that from the abort to the launch   *)
(* the slot stays empty (Solo).  And an input that is owed is always in    *)
(* one of four places that only a step which also settles it clears        *)
(* (Where); that a place merely exists is not inductive.                   *)
(***************************************************************************)
EXTENDS SessionTurnsProofs, FiniteSetTheorems

LoopStartsOnly == TriggerMail = {} /\ Notes = {} /\ ~GoalsEnabled

\* Points that only the loop, and that nobody, gets to
StartPcs == {"take", "reserve", "queued", "turn_input", "mail", "join", "push", "launch",
             "goal_reserve", "reread", "reserved", "unreserve"}
NeverPcs == {"take_if", "reserve", "goal_reserve", "reread", "reserved", "unreserve"}

\* Points of the loop from the abort of what runs to the launch of its task
EmptyPcs == AbortPcs \cup {"queued", "turn_input", "mail", "join"}
LaunchPcs == EmptyPcs \cup {"push", "launch"}

\* Points at which a task has nothing in hand
HandlessPcs == {"run", "approval", "check_mail", "finish", "remove"}

Solo ==
    /\ idle_pending_input = {}
    /\ \A p \in Procs : p # Loop => pc[p] \notin StartPcs /\ local[p].replace = FALSE
    /\ pc[Loop] \notin NeverPcs
    /\ pc[Loop] \in LaunchPcs => tasks = {}
    /\ pc[Loop] \in EmptyPcs => active_turn = None
    /\ \A s, t \in tasks : s = t
    /\ local[Loop].input # {} => local[Loop].replace = TRUE
    /\ local[Loop].replace = TRUE => pc[Loop] \in {"take"} \cup LaunchPcs
    /\ \A s \in Subs : pc[s] \in HandlessPcs => local[s].hand = {}

\* Where an input that is owed may be: in the hand of a task in the slot or of one that
\* records it, with the loop on its way to a task, in the active turn, or in a turn
\* whose last task will look there
InHand(i) == \E s \in Subs : i \in local[s].hand /\ (s \in tasks \/ pc[s] = "complete")
InInput(i) == i \in local[Loop].input
InTurn(i) == active_turn # None /\ tasks # {} /\ i \in pending_input[active_turn]
InLeftover(i) == \E s \in Subs : pc[s] = "leftover" /\ i \in pending_input[local[s].turn]
Found(i) == InHand(i) \/ InInput(i) \/ InTurn(i) \/ InLeftover(i)
\* What nobody has lost yet: what is owed without what turns gave up unread
Due == owed \ dropped
Where == \A i \in Due : Found(i)

-----------------------------------------------------------------------------
(***************************************************************************)
(* Nobody but the loop starts turns.                                       *)
(***************************************************************************)

\* Where a process is and what its locals are after a jump.
LEMMA Jumped ==
    ASSUME TypeOK, NEW p \in Procs, NEW x, NEW l, Jump(p, x, l)
    PROVE  /\ pc'[p] = x /\ local'[p] = l
           /\ \A q \in Procs : q # p => pc'[q] = pc[q] /\ local'[q] = local[q]
BY DEF TypeOK, Jump, Goto

\* The loop is no task and no client.
LEMMA LoopAlone == Loop \notin Subs /\ Loop \notin Clients
BY ProcsDistinct

\* A process other than the loop moves on without coming to a start.
LEMMA SoloOther ==
    ASSUME TypeOK, Solo, NEW p \in Procs, p # Loop, NEW x, NEW l, Jump(p, x, l),
           x \notin StartPcs, l.replace = FALSE, x \in HandlessPcs => l.hand = {},
           idle_pending_input' = {}, tasks' \subseteq tasks, active_turn' \in {active_turn, None}
    PROVE  Solo'
<1>1. /\ pc'[p] = x /\ local'[p] = l
      /\ \A q \in Procs : q # p => pc'[q] = pc[q] /\ local'[q] = local[q]
  BY Jumped
<1>2. pc'[Loop] = pc[Loop] /\ local'[Loop] = local[Loop]
  BY <1>1, Allocation
<1>3. \A q \in Procs : q # Loop => pc'[q] \notin StartPcs /\ local'[q].replace = FALSE
  BY <1>1 DEF Solo
<1>4. \A s \in Subs : pc'[s] \in HandlessPcs => local'[s].hand = {}
  BY <1>1, Allocation DEF Solo
<1>5. /\ pc'[Loop] \in LaunchPcs => tasks' = {}
      /\ pc'[Loop] \in EmptyPcs => active_turn' = None
      /\ \A s, t \in tasks' : s = t
  BY <1>2 DEF Solo
<1> QED BY <1>2, <1>3, <1>4, <1>5 DEF Solo

\* The loop moves: it starts a task only once the slot has been emptied.
LEMMA SoloLoop ==
    ASSUME TypeOK, Solo, NEW x, NEW l, Jump(Loop, x, l), x \notin NeverPcs,
           x \in EmptyPcs => active_turn' = None, x \in LaunchPcs => tasks' = {},
           l.input # {} => l.replace = TRUE, l.replace = TRUE => x \in {"take"} \cup LaunchPcs,
           idle_pending_input' = {}, tasks' \subseteq tasks
    PROVE  Solo'
<1>1. /\ pc'[Loop] = x /\ local'[Loop] = l
      /\ \A q \in Procs : q # Loop => pc'[q] = pc[q] /\ local'[q] = local[q]
  BY Jumped, Allocation
<1>3. \A q \in Procs : q # Loop => pc'[q] \notin StartPcs /\ local'[q].replace = FALSE
  BY <1>1 DEF Solo
<1>4. \A s \in Subs : pc'[s] \in HandlessPcs => local'[s].hand = {}
  BY <1>1, Allocation, LoopAlone DEF Solo
<1>5. \A s, t \in tasks' : s = t
  BY DEF Solo
<1> QED BY <1>1, <1>3, <1>4, <1>5 DEF Solo

\* Nobody moves.
LEMMA SoloStill ==
    ASSUME Solo, UNCHANGED <<idle_pending_input, tasks, active_turn, pc, local>>
    PROVE  Solo'
BY DEF Solo

\* A call ends, or goes on to look for a goal to continue.
LEMMA SoloReturn ==
    ASSUME TypeOK, Solo, NEW p \in Procs, NEW x \in {"idle", "candidate", "work"}, NEW l,
           Jump(p, x, l), l.input = {}, l.replace = FALSE, idle_pending_input' = {},
           tasks' \subseteq tasks, active_turn' \in {active_turn, None}
    PROVE  Solo'
<1>1. /\ x \notin StartPcs /\ x \notin HandlessPcs
      /\ x \notin NeverPcs /\ x \notin LaunchPcs /\ x \notin EmptyPcs
  BY DEF StartPcs, HandlessPcs, NeverPcs, LaunchPcs, EmptyPcs, AbortPcs
<1>2. CASE p = Loop
  BY <1>1, <1>2, SoloLoop
<1>3. CASE p # Loop
  BY <1>1, <1>3, SoloOther
<1> QED BY <1>2, <1>3

\* Assignments that leave the input to start with, and why something is aborted, alone.
LEMMA OtherFields ==
    ASSUME NEW l \in Locals
    PROVE  /\ \A o : /\ [l EXCEPT !.turn = o].hand = l.hand
                     /\ [l EXCEPT !.turn = o].input = l.input
                     /\ [l EXCEPT !.turn = o].replace = l.replace
           /\ \A h : /\ [l EXCEPT !.hand = h].hand = h
                     /\ [l EXCEPT !.hand = h].input = l.input
                     /\ [l EXCEPT !.hand = h].replace = l.replace
           /\ \A v : /\ [l EXCEPT !.victim = v].hand = l.hand
                     /\ [l EXCEPT !.victim = v].input = l.input
                     /\ [l EXCEPT !.victim = v].replace = l.replace
           /\ \A v, d : /\ [l EXCEPT !.victim = v, !.doomed = d].hand = l.hand
                        /\ [l EXCEPT !.victim = v, !.doomed = d].input = l.input
                        /\ [l EXCEPT !.victim = v, !.doomed = d].replace = l.replace
           /\ \A v, d, o : /\ [l EXCEPT !.doomed = d, !.victim = v, !.turn = o].hand = l.hand
                           /\ [l EXCEPT !.doomed = d, !.victim = v, !.turn = o].input = l.input
                           /\ [l EXCEPT !.doomed = d, !.victim = v, !.turn = o].replace = l.replace
BY DEF Locals

\* The locals an operation begins with.
LEMMA FirstLocals ==
    /\ Blank.hand = {} /\ Blank.input = {} /\ Blank.replace = FALSE
    /\ \A c : LET l == [Blank EXCEPT !.continue = c]
              IN  l.hand = {} /\ l.input = {} /\ l.replace = FALSE
    /\ \A v : LET l == [Blank EXCEPT !.victim = v]
              IN  l.hand = {} /\ l.input = {} /\ l.replace = FALSE
    /\ \A h : LET l == [Blank EXCEPT !.hand = h]
              IN  l.hand = h /\ l.input = {} /\ l.replace = FALSE
    /\ \A i : LET l == [Blank EXCEPT !.input = {i}, !.replace = TRUE]
              IN  l.hand = {} /\ l.input = {i} /\ l.replace = TRUE
    /\ \A k : LET l == [Blank EXCEPT !.kind = k, !.replace = TRUE]
              IN  l.hand = {} /\ l.input = {} /\ l.replace = TRUE
BY DEF Blank

\* An operation begins: the loop may go to an abort, and a client to that of the guardian.
LEMMA SoloOperations ==
    ASSUME LoopStartsOnly, IInv, Solo, LoopStep \/ \E c \in Clients : ClientStep(c)
    PROVE  Solo'
<1>0. TypeOK /\ idle_pending_input = {}
  BY DEF IInv, Solo
<1> USE DEF turnVars, queueVars, taskVars
<1>begin. ASSUME NEW l, Jump(Loop, "take", l), l.input # {} => l.replace = TRUE,
                 UNCHANGED <<tasks, idle_pending_input>>
          PROVE  Solo'
  BY <1>0, <1>begin, SoloLoop DEF NeverPcs, LaunchPcs, EmptyPcs, AbortPcs
<1>1. ASSUME NEW i \in UserItems, SteerInput(i) PROVE Solo'
  BY <1>1, SoloStill DEF SteerInput
<1>2. ASSUME NEW i \in UserItems, SpawnForInput(i) PROVE Solo'
  BY <1>2, <1>begin, FirstLocals DEF SpawnForInput, Begin
<1>3. ASSUME NEW k \in SpawnKinds, SpawnTask(k) PROVE Solo'
  BY <1>3, <1>begin, FirstLocals DEF SpawnTask, Begin
<1>4. CASE Interrupt
  BY <1>4, <1>begin, FirstLocals DEF Interrupt, Begin
<1>5. ASSUME NEW i \in MailItems, InterAgentCommunication(i) PROVE Solo'
  BY <1>5, SoloStill DEF InterAgentCommunication, LoopStartsOnly
<1>6. ASSUME NEW i \in Notes, ApproveDeniedAction(i) PROVE Solo'
  BY DEF LoopStartsOnly
<1>7. ASSUME NEW s \in Subs, NotifyApproval(s) PROVE Solo'
  <2>1. active_turn \in TurnIds /\ s \in pending_approvals[active_turn]
    BY <1>0, <1>7 DEF NotifyApproval, TypeOK
  <2>2. pc[s] = "approval"
    BY <2>1 DEF IInv, Approvals
  <2>3. s \in Procs /\ s # Loop /\ local[s].hand = {} /\ local[s].replace = FALSE
    BY <2>2, Allocation, LoopAlone DEF Solo, HandlessPcs
  <2>4. Jump(s, "run", local[s])
    BY <1>0, <1>7, <2>3, GotoIsJump DEF NotifyApproval, TypeOK
  <2> QED BY <1>0, <1>7, <2>3, <2>4, SoloOther DEF NotifyApproval, StartPcs
<1>8. ASSUME NEW c \in Clients, NEW i \in Notes, InjectNote(c, i) PROVE Solo'
  BY DEF LoopStartsOnly
<1>9. ASSUME NEW c \in Clients, ContinueIfIdle(c) PROVE Solo'
  BY <1>9 DEF ContinueIfIdle, LoopStartsOnly
<1>10. ASSUME NEW c \in Clients, NEW s \in Subs, GuardianInterrupt(c, s) PROVE Solo'
  BY <1>0, <1>10, Allocation, LoopAlone, FirstLocals, SoloOther DEF GuardianInterrupt, Begin, StartPcs
<1> QED BY <1>1, <1>2, <1>3, <1>4, <1>5, <1>6, <1>7, <1>8, <1>9, <1>10 DEF LoopStep, ClientStep

\* An abort empties the slot, and goes on to a start only in the loop.
LEMMA SoloAbort ==
    ASSUME LoopStartsOnly, IInv, Solo, NEW p \in Procs, AbortStep(p)
    PROVE  Solo'
<1>0. TypeOK /\ idle_pending_input = {} /\ local[p] \in Locals
  BY DEF IInv, Solo, TypeOK
<1> USE DEF turnVars, queueVars, taskVars
<1>keep. ASSUME NEW x \in {"cancel", "wait", "clear_pending"}, NEW l, Jump(p, x, l),
                l.input = local[p].input, l.replace = local[p].replace,
                UNCHANGED idle_pending_input, tasks' \subseteq tasks,
                active_turn' \in {active_turn, None},
                p = Loop => tasks' = {} /\ active_turn' = None
         PROVE  Solo'
  <2>1. CASE p = Loop
    <3>1. x \in EmptyPcs /\ x \in LaunchPcs /\ x \notin NeverPcs
      BY DEF EmptyPcs, LaunchPcs, AbortPcs, NeverPcs
    <3>2. l.input # {} => l.replace = TRUE
      BY <1>keep, <2>1 DEF Solo
    <3> QED BY <1>0, <1>keep, <2>1, <3>1, <3>2, SoloLoop
  <2>2. CASE p # Loop
    <3>1. x \notin StartPcs /\ x \notin HandlessPcs
      BY DEF StartPcs, HandlessPcs
    <3>2. l.replace = FALSE
      BY <1>keep, <2>2 DEF Solo
    <3> QED BY <1>0, <1>keep, <2>2, <3>1, <3>2, SoloOther
  <2> QED BY <2>1, <2>2
<1>drain. ASSUME Drain(p), UNCHANGED idle_pending_input PROVE Solo'
  <2>1. PICK o : o = IF tasks = {} THEN None ELSE active_turn
    OBVIOUS
  <2>2. PICK l : l = [local[p] EXCEPT !.doomed = tasks, !.victim = None, !.turn = o]
    OBVIOUS
  <2>3. l.input = local[p].input /\ l.replace = local[p].replace
    BY <1>0, <2>2, OtherFields
  <2>4. \E x \in {"cancel", "clear_pending"} : Jump(p, x, l)
    BY <1>drain, <2>1, <2>2 DEF Drain
  <2>5. tasks' = {} /\ active_turn' = None
    BY <1>drain DEF Drain, EmptySlot
  <2> QED BY <1>drain, <2>3, <2>4, <2>5, <1>keep
<1>return. ASSUME Return(p), UNCHANGED <<idle_pending_input, tasks, active_turn>> PROVE Solo'
  BY <1>0, <1>return, SoloReturn, FirstLocals DEF Return
<1>inside. p = Loop /\ pc[p] \in AbortPcs => tasks = {} /\ active_turn = None
  BY DEF Solo, LaunchPcs, EmptyPcs
<1>1. CASE TakeActiveTurn(p)
  BY <1>1, <1>drain DEF TakeActiveTurn
<1>2. CASE TakeIfActive(p)
  BY <1>2, <1>drain, <1>return DEF TakeIfActive
<1>3. CASE CancelTask(p)
  <2>1. PICK s \in local[p].doomed :
           Jump(p, "wait", [local[p] EXCEPT !.victim = s, !.doomed = local[p].doomed \ {s}])
    BY <1>3 DEF CancelTask
  <2>2. PICK l : l = [local[p] EXCEPT !.victim = s, !.doomed = local[p].doomed \ {s}]
    OBVIOUS
  <2>3. l.input = local[p].input /\ l.replace = local[p].replace
    BY <1>0, <2>2, OtherFields
  <2>4. UNCHANGED <<idle_pending_input, tasks, active_turn>> /\ pc[p] \in AbortPcs
    BY <1>3 DEF CancelTask, AbortPcs
  <2> QED BY <2>1, <2>2, <2>3, <2>4, <1>keep, <1>inside
<1>4. CASE AbortTask(p)
  <2>1. PICK s : s = local[p].victim
    OBVIOUS
  <2>2. s \in Subs /\ s # p /\ s \in Procs /\ s # Loop
    <3>1. s \in Subs /\ s \in Aborting(p)
      BY <1>0, <1>4, <2>1, Fields DEF AbortTask, TypeOK, LocalsReady, VictimPcs, Aborting
    <3>2. pc[s] \in RunningPcs \cup {"complete", "idle"}
      BY <3>1 DEF IInv, Owned, OneOwner
    <3> QED BY <1>4, <3>1, <3>2, Allocation, LoopAlone DEF AbortTask, RunningPcs
  <2>3. PICK x \in {"clear_pending", "cancel"} : pc' = [pc EXCEPT ![s] = "idle", ![p] = x]
    BY <1>4, <2>1 DEF AbortTask
  <2>4. PICK l : l = [local[p] EXCEPT !.victim = None]
    OBVIOUS
  <2>5. local' = [local EXCEPT ![s] = Blank, ![p] = l]
    BY <1>4, <2>1, <2>4 DEF AbortTask
  <2>6. l.hand = local[p].hand /\ l.input = local[p].input /\ l.replace = local[p].replace
    BY <1>0, <2>4, OtherFields
  <2>7. /\ pc'[s] = "idle" /\ local'[s] = Blank /\ pc'[p] = x /\ local'[p] = l
        /\ \A q \in Procs : q # p /\ q # s => pc'[q] = pc[q] /\ local'[q] = local[q]
    BY <1>0, <2>2, <2>3, <2>5 DEF TypeOK
  <2>8. \A q \in Procs : q # Loop => pc'[q] \notin StartPcs /\ local'[q].replace = FALSE
    BY <2>6, <2>7, FirstLocals DEF Solo, StartPcs
  <2>9. \A t \in Subs : pc'[t] \in HandlessPcs => local'[t].hand = {}
    BY <2>7, Allocation DEF Solo, HandlessPcs
  <2>10. /\ pc'[Loop] = IF p = Loop THEN x ELSE pc[Loop]
         /\ local'[Loop].input = local[Loop].input /\ local'[Loop].replace = local[Loop].replace
    BY <2>2, <2>6, <2>7, Allocation
  <2>11. UNCHANGED <<idle_pending_input, tasks, active_turn>>
    BY <1>4 DEF AbortTask
  <2>12. x \in EmptyPcs /\ x \in LaunchPcs /\ x \notin NeverPcs
    BY DEF EmptyPcs, LaunchPcs, AbortPcs, NeverPcs
  <2>13. p = Loop => tasks = {} /\ active_turn = None
    BY <1>4, <1>inside DEF AbortTask, AbortPcs
  <2> QED BY <2>8, <2>9, <2>10, <2>11, <2>12, <2>13 DEF Solo
<1>5. CASE ClearPending(p)
  <2>1. UNCHANGED <<idle_pending_input, tasks, active_turn>> /\ AfterAbort(p) /\ pc[p] = "clear_pending"
    BY <1>5 DEF ClearPending
  <2>2. CASE Return(p)
    BY <2>1, <2>2, <1>return
  <2>3. CASE ~Return(p)
    <3>1. PICK l : l = [local[p] EXCEPT !.turn = None]
      OBVIOUS
    <3>2. l.hand = local[p].hand /\ l.input = local[p].input /\ l.replace = local[p].replace
      BY <1>0, <3>1, OtherFields
    <3>3. \/ local[p].replace = TRUE /\ Jump(p, "queued", l)
          \/ local[p].replace = FALSE /\ Jump(p, "work", l)
      BY <1>0, <2>1, <2>3, <3>1, Fields DEF AfterAbort
    <3>4. CASE p = Loop
      <4>1. tasks = {} /\ active_turn = None /\ (l.input # {} => l.replace = TRUE)
        BY <2>1, <3>2, <3>4, <1>inside DEF AbortPcs, Solo
      <4>2. /\ "queued" \in LaunchPcs /\ {"queued", "work"} \cap NeverPcs = {}
        BY DEF LaunchPcs, EmptyPcs, NeverPcs
      <4> QED BY <1>0, <2>1, <3>2, <3>3, <3>4, <4>1, <4>2, SoloLoop
    <3>5. CASE p # Loop
      <4>1. Jump(p, "work", l) /\ l.replace = FALSE
        BY <3>2, <3>3, <3>5 DEF Solo
      <4> QED BY <1>0, <2>1, <3>5, <4>1, SoloOther DEF StartPcs, HandlessPcs
    <3> QED BY <3>4, <3>5
  <2> QED BY <2>2, <2>3
<1> QED BY <1>1, <1>2, <1>3, <1>4, <1>5 DEF AbortStep

\* Nobody finds work in an idle session, and no goal: a start is the loop's.
LEMMA SoloStart ==
    ASSUME LoopStartsOnly, IInv, Solo, NEW p \in Procs, StartStep(p) \/ GoalStep(p)
    PROVE  Solo'
<1>0. TypeOK /\ idle_pending_input = {} /\ local[p] \in Locals
  BY DEF IInv, Solo, TypeOK
<1> USE DEF turnVars, queueVars, taskVars
<1>loop. pc[p] \in StartPcs => p = Loop
  BY DEF Solo
<1>never. pc[p] \in NeverPcs /\ pc[p] \in StartPcs => FALSE
  BY <1>loop DEF Solo
<1>move. ASSUME p = Loop, pc[p] \in LaunchPcs, NEW x, NEW l, Jump(p, x, l), x \in LaunchPcs,
                x \in EmptyPcs => active_turn' = None, l.input = local[p].input,
                l.replace = local[p].replace, idle_pending_input' = {}, UNCHANGED tasks
         PROVE  Solo'
  <2>1. tasks = {} /\ x \notin NeverPcs
    BY <1>move DEF Solo, LaunchPcs, EmptyPcs, AbortPcs, NeverPcs
  <2>2. l.input # {} => l.replace = TRUE
    BY <1>move DEF Solo
  <2> QED BY <1>0, <1>move, <2>1, <2>2, SoloLoop
<1>empty. p = Loop /\ pc[p] \in EmptyPcs => active_turn = None
  BY DEF Solo
<1>1. CASE CheckPendingWork(p)
  <2>1. ~PendingWork
    BY <1>0 DEF PendingWork, LoopStartsOnly
  <2>2. Leave(p) /\ UNCHANGED <<tasks, active_turn, idle_pending_input>>
    BY <1>1, <2>1 DEF CheckPendingWork
  <2>3. \E x \in {"idle", "candidate"}, l \in {Blank, [Blank EXCEPT !.continue = TRUE]} : Jump(p, x, l)
    BY <2>2 DEF Leave, Return
  <2>4. \A l \in {Blank, [Blank EXCEPT !.continue = TRUE]} : l.input = {} /\ l.replace = FALSE
    BY FirstLocals
  <2> QED BY <1>0, <2>2, <2>3, <2>4, SoloReturn
<1>2. CASE ReserveTurn(p)
  BY <1>2, <1>never DEF ReserveTurn, NeverPcs, StartPcs
<1>3. CASE TakeQueuedItems(p)
  <2>1. /\ p = Loop /\ pc[p] \in EmptyPcs /\ pc[p] \in LaunchPcs
        /\ "turn_input" \in EmptyPcs /\ "turn_input" \in LaunchPcs
    BY <1>3, <1>loop DEF TakeQueuedItems, StartPcs, EmptyPcs, LaunchPcs
  <2>2. PICK l : Jump(p, "turn_input", l) /\ l = [local[p] EXCEPT !.hand = idle_pending_input]
    BY <1>3 DEF TakeQueuedItems
  <2>3. l.input = local[p].input /\ l.replace = local[p].replace
    BY <1>0, <2>2, OtherFields
  <2> QED BY <1>3, <2>1, <2>2, <2>3, <1>move, <1>empty DEF TakeQueuedItems
<1>4. CASE StartTakeTurnInput(p)
  <2>1. /\ p = Loop /\ pc[p] \in EmptyPcs /\ pc[p] \in LaunchPcs
        /\ "mail" \in EmptyPcs /\ "mail" \in LaunchPcs
    BY <1>4, <1>loop DEF StartTakeTurnInput, StartPcs, EmptyPcs, LaunchPcs
  <2>2. active_turn = None
    BY <2>1, <1>empty
  <2>3. Jump(p, "mail", local[p]) /\ UNCHANGED <<tasks, active_turn, idle_pending_input>>
    BY <1>0, <1>4, <2>2, GotoIsJump DEF StartTakeTurnInput, TakeTurnInput, TypeOK
  <2> QED BY <1>0, <2>1, <2>2, <2>3, <1>move
<1>5. CASE StartDrainMailbox(p)
  <2>1. /\ p = Loop /\ pc[p] \in EmptyPcs /\ pc[p] \in LaunchPcs
        /\ "join" \in EmptyPcs /\ "join" \in LaunchPcs
    BY <1>5, <1>loop DEF StartDrainMailbox, StartPcs, EmptyPcs, LaunchPcs
  <2>2. PICK l : Jump(p, "join", l) /\ l = [local[p] EXCEPT !.hand = local[p].hand \cup mailbox]
    BY <1>5 DEF StartDrainMailbox, DrainMailbox
  <2>3. l.input = local[p].input /\ l.replace = local[p].replace
    BY <1>0, <2>2, OtherFields
  <2> QED BY <1>0, <1>5, <2>1, <2>2, <2>3, <1>move, <1>empty DEF StartDrainMailbox, DrainMailbox
<1>6. CASE JoinTurn(p)
  <2>1. /\ p = Loop /\ pc[p] \in LaunchPcs /\ "push" \in LaunchPcs /\ "push" \notin EmptyPcs
    BY <1>6, <1>loop DEF JoinTurn, StartPcs, EmptyPcs, LaunchPcs, AbortPcs
  <2>2. PICK o : Jump(p, "push", [local[p] EXCEPT !.turn = o])
    BY <1>6 DEF JoinTurn
  <2>3. PICK l : Jump(p, "push", l) /\ l = [local[p] EXCEPT !.turn = o]
    BY <2>2
  <2>4. l.input = local[p].input /\ l.replace = local[p].replace
    BY <1>0, <2>3, OtherFields
  <2> QED BY <1>0, <1>6, <2>1, <2>3, <2>4, <1>move DEF JoinTurn
<1>7. CASE PushItems(p)
  <2>1. /\ p = Loop /\ pc[p] \in LaunchPcs /\ "launch" \in LaunchPcs /\ "launch" \notin EmptyPcs
    BY <1>7, <1>loop DEF PushItems, StartPcs, EmptyPcs, LaunchPcs, AbortPcs
  <2>2. PICK l : Jump(p, "launch", l) /\ l = [local[p] EXCEPT !.hand = {}]
    BY <1>7 DEF PushItems
  <2>3. l.input = local[p].input /\ l.replace = local[p].replace
    BY <1>0, <2>2, OtherFields
  <2> QED BY <1>0, <1>7, <2>1, <2>2, <2>3, <1>move DEF PushItems
<1>8. CASE LaunchTask(p)
  <2>1. p = Loop /\ tasks = {}
    BY <1>8, <1>loop DEF LaunchTask, StartPcs, LaunchPcs, Solo
  <2>2. PICK s : s = CHOOSE t \in Subs : FreeSub(t)
    OBVIOUS
  <2>3. s \in Subs /\ s \in Procs /\ s # Loop
    BY <1>8, <2>2, Allocation, LoopAlone DEF LaunchTask
  <2>4. PICK x \in {"run", "begin"}, y \in {"candidate", "idle"} :
           /\ x = IF local[p].input = {} THEN "run" ELSE "begin"
           /\ pc' = [pc EXCEPT ![s] = x, ![p] = y]
    BY <1>8, <2>2 DEF LaunchTask
  <2>5. PICK l, m : /\ l = [Blank EXCEPT !.hand = local[p].input]
                    /\ m = [Blank EXCEPT !.continue = local[p].continue]
    OBVIOUS
  <2>6. local' = [local EXCEPT ![s] = l, ![p] = m]
    BY <1>8, <2>2, <2>5 DEF LaunchTask
  <2>7. /\ l.hand = local[p].input /\ l.replace = FALSE
        /\ m.input = {} /\ m.replace = FALSE
    BY <2>5, FirstLocals
  <2>8. /\ pc'[s] = x /\ local'[s] = l /\ pc'[Loop] = y /\ local'[Loop] = m
        /\ \A q \in Procs : q # Loop /\ q # s => pc'[q] = pc[q] /\ local'[q] = local[q]
    BY <1>0, <2>1, <2>3, <2>4, <2>6 DEF TypeOK
  <2>9. tasks' = {s} /\ idle_pending_input' = {}
    BY <1>0, <1>8, <2>1, <2>2 DEF LaunchTask
  <2>10. \A q \in Procs : q # Loop => pc'[q] \notin StartPcs /\ local'[q].replace = FALSE
    BY <2>7, <2>8 DEF Solo, StartPcs
  <2>11. \A t \in Subs : pc'[t] \in HandlessPcs => local'[t].hand = {}
    BY <2>4, <2>7, <2>8, Allocation, LoopAlone DEF Solo, HandlessPcs
  <2>12. y \notin NeverPcs /\ y \notin LaunchPcs /\ y \notin EmptyPcs
    BY DEF NeverPcs, LaunchPcs, EmptyPcs, AbortPcs
  <2> QED BY <2>7, <2>8, <2>9, <2>10, <2>11, <2>12 DEF Solo
<1>9. CASE GoalCandidate(p)
  <2>1. Return(p) /\ UNCHANGED <<tasks, active_turn, idle_pending_input>>
    BY <1>9 DEF GoalCandidate, LoopStartsOnly
  <2> QED BY <1>0, <2>1, FirstLocals, SoloReturn DEF Return
<1>10. CASE GoalReserve(p) \/ GoalReread(p) \/ StillReserved(p) \/ ClearReserved(p)
  BY <1>10, <1>never DEF GoalReserve, GoalReread, StillReserved, ClearReserved, NeverPcs, StartPcs
<1> QED BY <1>1, <1>2, <1>3, <1>4, <1>5, <1>6, <1>7, <1>8, <1>9, <1>10 DEF StartStep, GoalStep

\* A task runs and finishes: it starts nothing, and has something in hand only on its way
\* to the history.
LEMMA SoloTask ==
    ASSUME LoopStartsOnly, IInv, Solo, NEW s \in Subs, RunStep(s) \/ FinishStep(s)
    PROVE  Solo'
<1>0. /\ TypeOK /\ idle_pending_input = {} /\ s \in Procs /\ s # Loop /\ local[s] \in Locals
      /\ local[s].replace = FALSE
  BY Allocation, LoopAlone DEF IInv, Solo, TypeOK
<1> USE DEF turnVars, queueVars, taskVars
<1>same. ASSUME NEW x \in TaskPcs, Goto(s, x), UNCHANGED local, pc[s] \in HandlessPcs,
                UNCHANGED <<tasks, active_turn, idle_pending_input>>
         PROVE  Solo'
  <2>1. Jump(s, x, local[s]) /\ local[s].hand = {}
    BY <1>0, <1>same, GotoIsJump DEF Solo, TypeOK
  <2> QED BY <1>0, <1>same, <2>1, SoloOther DEF TaskPcs, StartPcs
<1>hand. ASSUME NEW x \in TaskPcs, NEW h, Jump(s, x, [local[s] EXCEPT !.hand = h]),
                x \in HandlessPcs => h = {}, UNCHANGED <<tasks, active_turn, idle_pending_input>>
         PROVE  Solo'
  <2>1. PICK l : l = [local[s] EXCEPT !.hand = h]
    OBVIOUS
  <2>2. l.hand = h /\ l.replace = FALSE
    BY <1>0, <2>1, OtherFields
  <2> QED BY <1>0, <1>hand, <2>1, <2>2, SoloOther DEF TaskPcs, StartPcs
<1>1. CASE GetPendingInput(s)
  <2>1. CASE active_turn = None
    <3>1. Jump(s, "drain_mail", local[s]) /\ UNCHANGED <<tasks, active_turn, idle_pending_input>>
      BY <1>0, <1>1, <2>1, GotoIsJump DEF GetPendingInput, TakeTurnInput, TypeOK
    <3> QED BY <1>0, <3>1, SoloOther DEF HandlessPcs, StartPcs
  <2>2. CASE active_turn # None
    <3>1. \E x \in {"drain_mail", "inspect"} :
             Jump(s, x, [local[s] EXCEPT !.hand = local[s].hand \cup pending_input[active_turn]])
      BY <1>1, <2>2 DEF GetPendingInput, TakeTurnInput
    <3> QED BY <1>1, <3>1, <1>hand DEF GetPendingInput, TakeTurnInput, TaskPcs, HandlessPcs
  <2> QED BY <2>1, <2>2
<1>2. CASE TaskDrainMailbox(s)
  BY <1>2, <1>hand DEF TaskDrainMailbox, DrainMailbox, TaskPcs, HandlessPcs
<1>3. CASE InspectPendingInput(s)
  BY <1>3, <1>hand DEF InspectPendingInput, TaskPcs
<1>4. CASE DeferMailbox(s) \/ AcceptMailbox(s)
  BY <1>4, SoloStill DEF DeferMailbox, AcceptMailbox
<1>5. CASE \/ RequestApproval(s) \/ ApprovalDropped(s) \/ RunReturns(s)
           \/ HasTurnInput(s) \/ HasMail(s)
  <2>1. PICK x : x \in {"run", "approval", "finish", "check_mail"} /\ Goto(s, x)
    BY <1>5 DEF RequestApproval, ApprovalDropped, RunReturns, HasTurnInput, HasMail
  <2>2. /\ UNCHANGED <<local, tasks, active_turn, idle_pending_input>>
        /\ pc[s] \in {"run", "approval", "check_mail"}
    BY <1>5 DEF RequestApproval, ApprovalDropped, RunReturns, HasTurnInput, HasMail
  <2> QED BY <2>1, <2>2, <1>same DEF TaskPcs, HandlessPcs
<1>6. CASE FinishRun(s)
  <2>1. pc[s] = "finish" /\ UNCHANGED <<local, tasks, active_turn, idle_pending_input>>
    BY <1>6 DEF FinishRun
  <2>2. Goto(s, "idle") \/ Goto(s, "remove")
    BY <1>6 DEF FinishRun
  <2>3. Jump(s, "idle", local[s]) \/ Jump(s, "remove", local[s])
    BY <1>0, <2>1, <2>2, GotoIsJump DEF TypeOK
  <2>4. local[s].hand = {}
    BY <2>1 DEF Solo, HandlessPcs
  <2> QED BY <1>0, <2>1, <2>3, <2>4, SoloOther DEF StartPcs
<1>7. CASE RemoveTask(s)
  <2>0. PICK m : m = [local[s] EXCEPT !.turn = active_turn]
    OBVIOUS
  <2>1. PICK x \in {"leftover", "complete"}, l \in {local[s], m} : Jump(s, x, l)
    BY <1>0, <1>7, <2>0, GotoIsJump DEF RemoveTask, TypeOK
  <2>2. l.replace = FALSE
    <3>1. m.replace = local[s].replace
      BY <1>0, <2>0, OtherFields
    <3> QED BY <1>0, <3>1
  <2> QED BY <1>0, <1>7, <2>1, <2>2, SoloOther DEF RemoveTask, StartPcs, HandlessPcs
<1>8. CASE TakeLeftover(s)
  BY <1>8, <1>hand DEF TakeLeftover, TaskPcs, HandlessPcs
<1>9. CASE CompleteTurn(s)
  <2>1. CASE Return(s)
    <3>1. Jump(s, "idle", Blank) /\ UNCHANGED <<tasks, active_turn, idle_pending_input>>
      BY <1>9, <2>1 DEF CompleteTurn, Return
    <3> QED BY <1>0, <3>1, FirstLocals, SoloReturn
  <2>2. CASE ~Return(s)
    <3>1. Jump(s, "clear", [local[s] EXCEPT !.hand = {}])
      BY <1>9, <2>2 DEF CompleteTurn
    <3>2. "clear" \in TaskPcs /\ UNCHANGED <<tasks, active_turn, idle_pending_input>>
      BY <1>9 DEF CompleteTurn, TaskPcs
    <3> QED BY <3>1, <3>2, <1>hand
  <2> QED BY <2>1, <2>2
<1>10. CASE ClearActiveTurn(s)
  <2>1. PICK x \in {"idle", "work"}, l \in {Blank, [Blank EXCEPT !.continue = TRUE]} : Jump(s, x, l)
    BY <1>10 DEF ClearActiveTurn, Return
  <2>2. l.input = {} /\ l.replace = FALSE
    BY FirstLocals
  <2>3. /\ tasks' \subseteq tasks /\ active_turn' \in {active_turn, None}
        /\ UNCHANGED idle_pending_input
    BY <1>10 DEF ClearActiveTurn, EmptySlot
  <2> QED BY <1>0, <2>1, <2>2, <2>3, SoloReturn
<1>11. CASE RecordInput(s) \/ GiveUpTurn(s) \/ RunCancelled(s)
  BY <1>11, <1>hand DEF RecordInput, GiveUpTurn, RunCancelled, TaskPcs
<1> QED BY <1>1, <1>2, <1>3, <1>4, <1>5, <1>6, <1>7, <1>8, <1>9, <1>10, <1>11 DEF RunStep, FinishStep

\* Every step keeps the starts to the loop.
LEMMA SoloStep == ASSUME LoopStartsOnly, IInv, Solo, [Next]_vars PROVE Solo'
<1>1. CASE UNCHANGED vars
  BY <1>1, SoloStill DEF vars, turnVars, queueVars
<1> QED BY <1>1, SoloOperations, SoloAbort, SoloStart, SoloTask DEF Next

-----------------------------------------------------------------------------
(***************************************************************************)
(* An input that is owed can be found.                                     *)
(***************************************************************************)

\* One process moves.  What is owed stays where it is, or is found again.
LEMMA Kept ==
    ASSUME TypeOK, NEW p \in Procs, NEW x, NEW l, Jump(p, x, l), NEW i, Found(i),
           i \in local[p].hand /\ (p \in tasks \/ pc[p] = "complete") => Found(i)',
           p = Loop /\ i \in local[p].input => Found(i)',
           InTurn(i) => Found(i)',
           pc[p] = "leftover" /\ i \in pending_input[local[p].turn] => Found(i)',
           \A s \in tasks : s # p /\ i \in local[s].hand => s \in tasks',
           \A o \in TurnIds : ~Unused(o) /\ i \in pending_input[o]
                                => i \in pending_input'[o] \/ Found(i)'
    PROVE  Found(i)'
<1>1. \A q \in Procs : q # p => pc'[q] = pc[q] /\ local'[q] = local[q]
  BY Jumped
<1>2. CASE InHand(i)
  <2>1. PICK s \in Subs : i \in local[s].hand /\ (s \in tasks \/ pc[s] = "complete")
    BY <1>2 DEF InHand
  <2>2. s # p => InHand(i)'
    BY <1>1, <2>1, Allocation DEF InHand
  <2> QED BY <2>1, <2>2 DEF Found
<1>3. CASE InInput(i)
  <2>1. p # Loop => InInput(i)'
    BY <1>1, <1>3, Allocation DEF InInput
  <2> QED BY <1>3, <2>1 DEF InInput, Found
<1>4. CASE InLeftover(i)
  <2>1. PICK s \in Subs : pc[s] = "leftover" /\ i \in pending_input[local[s].turn]
    BY <1>4 DEF InLeftover
  <2>2. local[s].turn \in TurnIds /\ ~Unused(local[s].turn)
    BY <2>1, Allocation, Fields DEF TypeOK, LocalsReady, TurnPcs, Unused
  <2>3. s # p /\ i \in pending_input'[local[s].turn] => InLeftover(i)'
    BY <1>1, <2>1, Allocation DEF InLeftover
  <2> QED BY <2>1, <2>2, <2>3 DEF Found
<1> QED BY <1>2, <1>3, <1>4 DEF Found

\* One process moves and takes nothing from anywhere.
LEMMA Steady ==
    ASSUME TypeOK, Where, NEW p \in Procs, NEW x, NEW l, Jump(p, x, l),
           pc[p] \notin {"complete", "leftover"},
           p \in tasks => local[p].hand \subseteq l.hand,
           p = Loop => local[p].input \subseteq l.input,
           UNCHANGED tasks, tasks # {} => active_turn' = active_turn,
           \A o \in TurnIds : Unused(o) \/ pending_input[o] \cap Due' \subseteq pending_input'[o],
           Due' \subseteq Due
    PROVE  Where'
<1> SUFFICES ASSUME NEW i \in Due' PROVE Found(i)'
  BY DEF Where
<1>1. local'[p] = l
  BY Jumped
<1>2. Found(i)
  BY DEF Where
<1>3. i \in local[p].hand /\ p \in tasks => Found(i)'
  <2> SUFFICES ASSUME i \in local[p].hand, p \in tasks PROVE InHand(i)'
    BY DEF Found
  <2> QED BY <1>1 DEF InHand, TypeOK
<1>4. p = Loop /\ i \in local[p].input => Found(i)'
  BY <1>1 DEF InInput, Found
<1>5. InTurn(i) => Found(i)'
  BY DEF InTurn, Found, TypeOK, Unused
<1> QED BY <1>2, <1>3, <1>4, <1>5, Kept

\* Nobody moves.
LEMMA Still ==
    ASSUME TypeOK, Where, UNCHANGED <<tasks, active_turn, pc, local, pending_input, Due>>
    PROVE  Where'
BY DEF Where, Found, InHand, InInput, InTurn, InLeftover

\* A call has no input in hand that would be lost with it.
LEMMA Call ==
    ASSUME IInv, Where, NEW p \in Procs, NEW x, NEW l, Jump(p, x, l),
           pc[p] \in CallPcs \cup {"idle", "clear"},
           p = Loop => local[p].input \subseteq l.input,
           UNCHANGED tasks, tasks # {} => active_turn' = active_turn,
           \A o \in TurnIds : Unused(o) \/ pending_input[o] \cap Due' \subseteq pending_input'[o],
           Due' \subseteq Due
    PROVE  Where'
<1>1. pc[p] \notin {"complete", "leftover"} /\ pc[p] \notin RunningPcs
  BY DEF CallPcs, RunningPcs
<1>2. p \notin tasks
  BY <1>1 DEF IInv, Owned, NoDeadTask
<1> QED BY <1>1, <1>2, Steady DEF IInv

\* What the loop accepts is in the active turn or goes with the loop.
LEMMA WhereOperations ==
    ASSUME LoopStartsOnly, IInv, Solo, Where, LoopStep \/ \E c \in Clients : ClientStep(c)
    PROVE  Where'
<1>0. TypeOK /\ Loop \in Procs
  BY Allocation DEF IInv
<1> USE DEF turnVars, stateVars, queueVars, taskVars, Due
<1>idle. pc[Loop] = "idle" => local[Loop].input = {}
  BY DEF Solo, LaunchPcs, EmptyPcs, AbortPcs
<1>grow. ASSUME \A o \in TurnIds : pending_input[o] \subseteq pending_input'[o],
                UNCHANGED <<tasks, active_turn>>,
                NEW p \in Procs, NEW x, NEW l, Begin(p, x, l), NEW i \in Due
         PROVE  Found(i)'
  <2>1. Jump(p, x, l) /\ pc[p] = "idle" /\ Found(i)
    BY <1>grow DEF Begin, Where
  <2>2. p \notin tasks
    BY <2>1 DEF IInv, Owned, NoDeadTask, RunningPcs
  <2>3. InTurn(i) => Found(i)'
    BY <1>0, <1>grow DEF InTurn, Found, TypeOK
  <2> QED BY <1>0, <1>grow, <1>idle, <2>1, <2>2, <2>3, Kept
<1>begin. ASSUME NEW p \in Procs, NEW x, NEW l, Begin(p, x, l),
                 UNCHANGED <<tasks, active_turn, pending_input, Due>>
          PROVE  Where'
  BY <1>begin, <1>grow DEF Where
<1>1. ASSUME NEW i \in UserItems, SteerInput(i) PROVE Where'
  <2>1. active_turn \in TurnIds /\ tasks # {} /\ Due' \subseteq Due \cup {i}
        /\ UNCHANGED <<tasks, active_turn, pc, local>>
    BY <1>0, <1>1 DEF SteerInput, TypeOK
  <2>2. /\ i \in pending_input'[active_turn]
        /\ \A o \in TurnIds : pending_input[o] \subseteq pending_input'[o]
    BY <1>0, <1>1, <2>1 DEF SteerInput, TypeOK
  <2>3. Found(i)'
    BY <2>1, <2>2, ProcsDistinct DEF Found, InTurn
  <2>4. ASSUME NEW j \in Due PROVE Found(j)'
    <3>1. Found(j)
      BY DEF Where
    <3>2. /\ InHand(j) => InHand(j)'
          /\ InInput(j) => InInput(j)'
          /\ InTurn(j) => InTurn(j)'
      BY <2>1, <2>2 DEF InHand, InInput, InTurn
    <3>3. \A t \in Subs : pc[t] = "leftover" => local[t].turn \in TurnIds
      BY <1>0, Allocation, Fields DEF TypeOK, LocalsReady, TurnPcs
    <3>4. InLeftover(j) => InLeftover(j)'
      BY <2>1, <2>2, <3>3 DEF InLeftover
    <3> QED BY <3>1, <3>2, <3>4 DEF Found
  <2> QED BY <2>1, <2>3, <2>4 DEF Where
<1>2. ASSUME NEW i \in UserItems, SpawnForInput(i) PROVE Where'
  <2>1. PICK l : l = [Blank EXCEPT !.input = {i}, !.replace = TRUE]
    OBVIOUS
  <2>2. l.input = {i}
    BY <2>1, FirstLocals
  <2>3. /\ Begin(Loop, "take", l) /\ Due' \subseteq Due \cup {i}
        /\ UNCHANGED <<tasks, active_turn, pending_input>>
    BY <1>2, <2>1 DEF SpawnForInput
  <2>4. Found(i)'
    BY <1>0, <2>2, <2>3, Jumped DEF Begin, Found, InInput
  <2>5. \A j \in Due : Found(j)'
    BY <1>0, <2>3, <1>grow
  <2> QED BY <2>3, <2>4, <2>5 DEF Where
<1>3. ASSUME NEW k \in SpawnKinds, SpawnTask(k) PROVE Where'
  BY <1>0, <1>3, <1>begin DEF SpawnTask
<1>4. CASE Interrupt
  BY <1>0, <1>4, <1>begin DEF Interrupt
<1>5. ASSUME NEW i \in MailItems, InterAgentCommunication(i) PROVE Where'
  BY <1>0, <1>5, Still DEF InterAgentCommunication, LoopStartsOnly
<1>6. ASSUME NEW i \in Notes, ApproveDeniedAction(i) PROVE Where'
  BY DEF LoopStartsOnly
<1>7. ASSUME NEW s \in Subs, NotifyApproval(s) PROVE Where'
  <2>1. active_turn \in TurnIds /\ s \in pending_approvals[active_turn]
    BY <1>0, <1>7 DEF NotifyApproval, TypeOK
  <2>2. pc[s] = "approval" /\ s \in Procs /\ s # Loop
    BY <2>1, Allocation, LoopAlone DEF IInv, Approvals
  <2>3. Jump(s, "run", local[s])
    BY <1>0, <1>7, <2>2, GotoIsJump DEF NotifyApproval, TypeOK
  <2> QED BY <1>0, <1>7, <2>2, <2>3, Steady DEF NotifyApproval
<1>8. ASSUME NEW c \in Clients, NEW i \in Notes, InjectNote(c, i) PROVE Where'
  BY DEF LoopStartsOnly
<1>9. ASSUME NEW c \in Clients, ContinueIfIdle(c) PROVE Where'
  BY <1>9 DEF ContinueIfIdle, LoopStartsOnly
<1>10. ASSUME NEW c \in Clients, NEW s \in Subs, GuardianInterrupt(c, s) PROVE Where'
  BY <1>10, <1>begin, Allocation DEF GuardianInterrupt
<1> QED BY <1>1, <1>2, <1>3, <1>4, <1>5, <1>6, <1>7, <1>8, <1>9, <1>10 DEF LoopStep, ClientStep

\* What an abort takes away with a turn or a task is not owed any more.
LEMMA WhereAbort ==
    ASSUME LoopStartsOnly, IInv, Solo, Where, NEW p \in Procs, AbortStep(p)
    PROVE  Where'
<1>0. TypeOK /\ local[p] \in Locals
  BY DEF IInv, TypeOK
<1> USE DEF turnVars, stateVars, queueVars, taskVars, Due
<1>call. pc[p] \in CallPcs
  BY DEF AbortStep, TakeActiveTurn, TakeIfActive, CancelTask, AbortTask, ClearPending, CallPcs
<1>drain. ASSUME Drain(p), UNCHANGED <<pending_input, dropped>> PROVE Where'
  <2>1. PICK o : o = IF tasks = {} THEN None ELSE active_turn
    OBVIOUS
  <2>2. PICK l : l = [local[p] EXCEPT !.doomed = tasks, !.victim = None, !.turn = o]
    OBVIOUS
  <2>3. l.input = local[p].input
    BY <1>0, <2>2, OtherFields
  <2>4. PICK x : Jump(p, x, l)
    BY <1>drain, <2>1, <2>2 DEF Drain
  <2>5. tasks' = {} /\ active_turn' = None
    BY <1>drain DEF Drain, EmptySlot
  <2>6. CASE tasks = {}
    BY <1>drain, <1>call, <2>3, <2>4, <2>5, <2>6, Call DEF Drain
  <2>7. CASE tasks # {}
    <3> SUFFICES ASSUME NEW i \in Due' PROVE Found(i)'
      BY DEF Where
    <3>1. Due' = Due \ (pending_input[active_turn] \cup UNION {local[s].hand : s \in tasks})
      BY <1>drain, <2>7 DEF Drain
    <3>2. /\ Found(i) /\ i \notin pending_input[active_turn]
          /\ \A s \in tasks : i \notin local[s].hand
      BY <3>1 DEF Where
    <3>3. p = Loop /\ i \in local[p].input => Found(i)'
      BY <1>0, <2>3, <2>4, Jumped DEF Found, InInput
    <3>4. ~InTurn(i) /\ pc[p] # "complete" /\ pc[p] # "leftover"
      BY <3>2, <1>call DEF InTurn, CallPcs
    <3> QED BY <1>0, <1>drain, <2>4, <3>2, <3>3, <3>4, Kept
  <2> QED BY <2>6, <2>7
<1>1. CASE TakeActiveTurn(p)
  BY <1>1, <1>drain DEF TakeActiveTurn
<1>2. CASE TakeIfActive(p)
  <2>1. CASE local[p].victim \in tasks
    BY <1>2, <2>1, <1>drain DEF TakeIfActive
  <2>2. CASE local[p].victim \notin tasks
    <3>1. p # Loop
      BY <1>2 DEF TakeIfActive, Solo, NeverPcs
    <3> QED BY <1>2, <1>call, <2>2, <3>1, Call DEF TakeIfActive, Return
  <2> QED BY <2>1, <2>2
<1>3. CASE CancelTask(p)
  <2>1. PICK s \in local[p].doomed :
           Jump(p, "wait", [local[p] EXCEPT !.victim = s, !.doomed = local[p].doomed \ {s}])
    BY <1>3 DEF CancelTask
  <2>2. PICK l : l = [local[p] EXCEPT !.victim = s, !.doomed = local[p].doomed \ {s}]
    OBVIOUS
  <2>3. l.input = local[p].input
    BY <1>0, <2>2, OtherFields
  <2> QED BY <1>3, <1>call, <2>1, <2>2, <2>3, Call DEF CancelTask
<1>4. CASE AbortTask(p)
  <2>1. PICK s : s = local[p].victim
    OBVIOUS
  <2>2. /\ s \in Subs /\ s # p /\ s \in Procs /\ s # Loop /\ s \notin tasks
        /\ pc[s] # "leftover"
    <3>1. s \in Subs /\ s \in Aborting(p)
      BY <1>0, <1>4, <2>1, Fields DEF AbortTask, TypeOK, LocalsReady, VictimPcs, Aborting
    <3>2. pc[s] \in RunningPcs \cup {"complete", "idle"} /\ s \notin tasks
      BY <3>1 DEF IInv, Owned, OneOwner
    <3> QED BY <1>4, <3>1, <3>2, Allocation, LoopAlone DEF AbortTask, RunningPcs
  <2>3. PICK x \in {"clear_pending", "cancel"} : pc' = [pc EXCEPT ![s] = "idle", ![p] = x]
    BY <1>4, <2>1 DEF AbortTask
  <2>4. PICK l : l = [local[p] EXCEPT !.victim = None]
    OBVIOUS
  <2>5. local' = [local EXCEPT ![s] = Blank, ![p] = l]
    BY <1>4, <2>1, <2>4 DEF AbortTask
  <2>6. l.input = local[p].input
    BY <1>0, <2>4, OtherFields
  <2>7. /\ local'[p] = l
        /\ \A q \in Procs : q # p /\ q # s => pc'[q] = pc[q] /\ local'[q] = local[q]
    BY <1>0, <2>2, <2>3, <2>5 DEF TypeOK
  <2>8. UNCHANGED <<tasks, active_turn, pending_input>> /\ Due' = Due \ local[s].hand
    BY <1>4, <2>1 DEF AbortTask
  <2>9. p \notin tasks /\ pc[p] # "complete" /\ pc[p] # "leftover"
    BY <1>4 DEF AbortTask, IInv, Owned, NoDeadTask, RunningPcs
  <2> SUFFICES ASSUME NEW i \in Due' PROVE Found(i)'
    BY DEF Where
  <2>10. Found(i) /\ i \notin local[s].hand
    BY <2>8 DEF Where
  <2>11. InHand(i) => InHand(i)'
    BY <2>7, <2>8, <2>9, <2>10, Allocation DEF InHand
  <2>12. InInput(i) => InInput(i)'
    BY <2>2, <2>6, <2>7, Allocation DEF InInput
  <2>13. InTurn(i) => InTurn(i)'
    BY <2>8 DEF InTurn
  <2>14. InLeftover(i) => InLeftover(i)'
    BY <2>2, <2>7, <2>8, <2>9, Allocation DEF InLeftover
  <2> QED BY <2>10, <2>11, <2>12, <2>13, <2>14 DEF Found
<1>5. CASE ClearPending(p)
  <2>1. UNCHANGED <<tasks, active_turn>> /\ AfterAbort(p) /\ pc[p] = "clear_pending"
    BY <1>5 DEF ClearPending
  <2>2. PICK x, l : Jump(p, x, l) /\ (p = Loop => local[p].input \subseteq l.input)
    <3>1. CASE Return(p)
      <4>1. p = Loop /\ local[p].input # {} => local[p].replace = TRUE
        BY DEF Solo
      <4>2. CASE local[p].input = {}
        BY <3>1, <4>2 DEF Return
      <4>3. CASE p # Loop
        BY <3>1, <4>3 DEF Return
      <4>4. CASE local[p].replace = TRUE
        <5>1. PICK m : m = [local[p] EXCEPT !.turn = None]
          OBVIOUS
        <5>2. Jump(p, "queued", m) /\ m.input = local[p].input
          BY <1>0, <2>1, <4>4, <5>1, OtherFields DEF AfterAbort
        <5> QED BY <5>2
      <4> QED BY <4>1, <4>2, <4>3, <4>4
    <3>2. CASE ~Return(p)
      <4>1. PICK m : m = [local[p] EXCEPT !.turn = None]
        OBVIOUS
      <4>2. m.input = local[p].input /\ \E y : Jump(p, y, m)
        BY <1>0, <2>1, <3>2, <4>1, OtherFields DEF AfterAbort
      <4> QED BY <4>2
    <3> QED BY <3>1, <3>2
  <2>3. /\ Due' \subseteq Due
        /\ \A o \in TurnIds : pending_input[o] \cap Due' \subseteq pending_input'[o]
    <3>1. CASE local[p].turn = None
      BY <1>5, <3>1 DEF ClearPending
    <3>2. CASE local[p].turn # None
      <4>1. local[p].turn \in TurnIds
        BY <1>0, <3>2, Fields
      <4>2. /\ pending_input' = [pending_input EXCEPT ![local[p].turn] = {}]
            /\ Due' = Due \ pending_input[local[p].turn]
        BY <1>5, <3>2 DEF ClearPending
      <4> QED BY <1>0, <4>1, <4>2 DEF TypeOK
    <3> QED BY <3>1, <3>2
  <2> QED BY <1>call, <2>1, <2>2, <2>3, Call
<1> QED BY <1>1, <1>2, <1>3, <1>4, <1>5 DEF AbortStep

\* From the abort to the launch, the loop keeps its input, and then hands it to the task.
LEMMA WhereStart ==
    ASSUME LoopStartsOnly, IInv, Solo, Where, NEW p \in Procs, StartStep(p) \/ GoalStep(p)
    PROVE  Where'
<1>0. TypeOK /\ local[p] \in Locals
  BY DEF IInv, TypeOK
<1> USE DEF turnVars, stateVars, queueVars, taskVars, Due
<1>call. pc[p] \in CallPcs
  BY DEF StartStep, GoalStep, CheckPendingWork, ReserveTurn, TakeQueuedItems, StartTakeTurnInput,
         StartDrainMailbox, JoinTurn, PushItems, LaunchTask, GoalCandidate, GoalReserve, GoalReread,
         StillReserved, ClearReserved, CallPcs
<1>loop. pc[p] \in StartPcs => p = Loop
  BY DEF Solo
<1>never. pc[p] \in NeverPcs /\ pc[p] \in StartPcs => FALSE
  BY <1>loop DEF Solo
<1>hand. ASSUME NEW x, NEW h, Jump(p, x, [local[p] EXCEPT !.hand = h]),
                \A o \in TurnIds : pending_input[o] \subseteq pending_input'[o],
                UNCHANGED <<tasks, active_turn, Due>>
         PROVE  Where'
  <2>1. PICK l : l = [local[p] EXCEPT !.hand = h]
    OBVIOUS
  <2>2. l.input = local[p].input
    BY <1>0, <2>1, OtherFields
  <2> QED BY <1>hand, <1>call, <2>1, <2>2, Call
<1>1. CASE CheckPendingWork(p)
  <2>1. ~PendingWork
    BY DEF PendingWork, LoopStartsOnly, Solo
  <2>2. Leave(p) /\ UNCHANGED <<tasks, active_turn, pending_input, Due>> /\ pc[p] = "work"
    BY <1>1, <2>1 DEF CheckPendingWork
  <2>3. PICK x, l : Jump(p, x, l)
    BY <2>2 DEF Leave, Return
  <2>4. p = Loop => local[p].input = {}
    BY <2>2 DEF Solo, LaunchPcs, EmptyPcs, AbortPcs
  <2> QED BY <1>call, <2>2, <2>3, <2>4, Call
<1>2. CASE ReserveTurn(p)
  BY <1>2, <1>never DEF ReserveTurn, NeverPcs, StartPcs
<1>3. CASE TakeQueuedItems(p)
  BY <1>3, <1>hand DEF TakeQueuedItems
<1>4. CASE StartTakeTurnInput(p)
  <2>1. active_turn = None
    BY <1>4, <1>loop DEF StartTakeTurnInput, StartPcs, EmptyPcs, Solo
  <2>2. Jump(p, "mail", local[p]) /\ UNCHANGED <<tasks, active_turn, pending_input, Due>>
    BY <1>0, <1>4, <2>1, GotoIsJump DEF StartTakeTurnInput, TakeTurnInput, TypeOK
  <2> QED BY <1>call, <2>2, Call
<1>5. CASE StartDrainMailbox(p)
  BY <1>5, <1>hand DEF StartDrainMailbox, DrainMailbox
<1>6. CASE JoinTurn(p)
  <2>1. active_turn = None /\ tasks = {}
    BY <1>6, <1>loop DEF JoinTurn, StartPcs, EmptyPcs, LaunchPcs, Solo
  <2>2. PICK o : o = FreshTurn
    OBVIOUS
  <2>3. Jump(p, "push", [local[p] EXCEPT !.turn = o]) /\ InstallTurn(o) /\ Allocatable
    BY <1>6, <2>1, <2>2 DEF JoinTurn
  <2>4. PICK l : l = [local[p] EXCEPT !.turn = o]
    OBVIOUS
  <2>5. l.input = local[p].input
    BY <1>0, <2>4, OtherFields
  <2>6. o \in TurnIds /\ Unused(o)
    BY <2>2, <2>3, FreshUnused
  <2>7. \A q \in TurnIds : Unused(q) \/ pending_input'[q] = pending_input[q]
    BY <1>0, <2>3, <2>6 DEF InstallTurn, TypeOK
  <2> QED BY <1>6, <1>call, <2>1, <2>3, <2>4, <2>5, <2>7, Call DEF JoinTurn
<1>7. CASE PushItems(p)
  <2>1. local[p].turn \in TurnIds
    BY <1>0, <1>7, Fields DEF PushItems, TypeOK, LocalsReady, TurnPcs
  <2>2. \A o \in TurnIds : pending_input[o] \subseteq pending_input'[o]
    BY <1>0, <1>7, <2>1 DEF PushItems, TypeOK
  <2> QED BY <1>7, <1>hand, <2>2 DEF PushItems
<1>8. CASE LaunchTask(p)
  <2>1. p = Loop /\ tasks = {} /\ Loop \in Procs
    BY <1>8, <1>loop DEF LaunchTask, StartPcs, LaunchPcs, Solo
  <2>2. PICK s : s = CHOOSE t \in Subs : FreeSub(t)
    OBVIOUS
  <2>3. s \in Subs /\ s \in Procs /\ s # Loop /\ pc[s] = "idle"
    BY <1>8, <2>2, Allocation, LoopAlone DEF LaunchTask, FreeSub
  <2>4. PICK x, y : pc' = [pc EXCEPT ![s] = x, ![p] = y]
    BY <1>8, <2>2 DEF LaunchTask
  <2>5. PICK l, m : l = [Blank EXCEPT !.hand = local[p].input] /\
                    m = [Blank EXCEPT !.continue = local[p].continue]
    OBVIOUS
  <2>6. local' = [local EXCEPT ![s] = l, ![p] = m]
    BY <1>8, <2>2, <2>5 DEF LaunchTask
  <2>7. l.hand = local[Loop].input
    BY <2>1, <2>5, FirstLocals
  <2>8. /\ local'[s] = l
        /\ \A q \in Procs : q # Loop /\ q # s => pc'[q] = pc[q] /\ local'[q] = local[q]
    BY <1>0, <2>1, <2>3, <2>4, <2>6 DEF TypeOK
  <2>9. tasks' = {s} /\ UNCHANGED Due
    BY <1>8, <2>1, <2>2 DEF LaunchTask
  <2>10. \A o \in TurnIds : Unused(o) \/ pending_input'[o] = pending_input[o]
    BY <1>0, <1>8, FreshUnused DEF LaunchTask, InstallTurn, TypeOK
  <2> SUFFICES ASSUME NEW i \in Due' PROVE Found(i)'
    BY DEF Where
  <2>11. Found(i) /\ ~InTurn(i)
    BY <2>1, <2>9 DEF Where, InTurn
  <2>12. InHand(i) => InHand(i)'
    BY <2>1, <2>3, <2>8, Allocation, LoopAlone DEF InHand
  <2>13. InInput(i) => InHand(i)'
    BY <2>3, <2>7, <2>8, <2>9 DEF InInput, InHand
  <2>14. InLeftover(i) => InLeftover(i)'
    <3> SUFFICES ASSUME NEW t \in Subs, pc[t] = "leftover", i \in pending_input[local[t].turn]
                 PROVE  InLeftover(i)'
      BY DEF InLeftover
    <3>1. local[t].turn \in TurnIds /\ ~Unused(local[t].turn)
      BY <1>0, Allocation, Fields DEF TypeOK, LocalsReady, TurnPcs, Unused
    <3>2. t # s /\ t # Loop /\ t \in Procs
      BY <2>3, Allocation, LoopAlone
    <3> QED BY <2>8, <2>10, <3>1, <3>2 DEF InLeftover
  <2> QED BY <2>11, <2>12, <2>13, <2>14 DEF Found
<1>9. CASE GoalCandidate(p)
  <2>1. /\ Return(p) /\ UNCHANGED <<tasks, active_turn, pending_input, Due>>
        /\ pc[p] = "candidate"
    BY <1>9 DEF GoalCandidate, LoopStartsOnly
  <2>2. p = Loop => local[p].input = {}
    BY <2>1 DEF Solo, LaunchPcs, EmptyPcs, AbortPcs
  <2> QED BY <1>call, <2>1, <2>2, Call DEF Return
<1>10. CASE GoalReserve(p) \/ GoalReread(p) \/ StillReserved(p) \/ ClearReserved(p)
  BY <1>10, <1>never DEF GoalReserve, GoalReread, StillReserved, ClearReserved, NeverPcs, StartPcs
<1> QED BY <1>1, <1>2, <1>3, <1>4, <1>5, <1>6, <1>7, <1>8, <1>9, <1>10 DEF StartStep, GoalStep

\* A task takes input from its turn and records it, gives it back or takes it into what it
\* records when it finishes.
LEMMA WhereTask ==
    ASSUME LoopStartsOnly, IInv, Solo, Where, NEW s \in Subs, RunStep(s) \/ FinishStep(s)
    PROVE  Where'
<1>0. TypeOK /\ s \in Procs /\ s # Loop /\ local[s] \in Locals
  BY Allocation, LoopAlone DEF IInv, TypeOK
<1> USE DEF turnVars, stateVars, queueVars, taskVars, Due
<1>same. ASSUME NEW x, Goto(s, x), UNCHANGED <<local, tasks, active_turn, pending_input, Due>>,
                pc[s] \notin {"complete", "leftover"}
         PROVE  Where'
  <2>1. Jump(s, x, local[s])
    BY <1>0, <1>same, GotoIsJump DEF TypeOK
  <2> QED BY <1>0, <1>same, <2>1, Steady
<1>1. CASE GetPendingInput(s)
  <2>1. CASE active_turn = None
    BY <1>1, <2>1, <1>same DEF GetPendingInput, TakeTurnInput
  <2>2. CASE active_turn # None
    <3>1. PICK l : l = [local[s] EXCEPT !.hand = local[s].hand \cup pending_input[active_turn]]
      OBVIOUS
    <3>2. l.hand = local[s].hand \cup pending_input[active_turn]
      BY <1>0, <3>1, OtherFields
    <3>3. PICK x : Jump(s, x, l)
      BY <1>1, <2>2, <3>1 DEF GetPendingInput, TakeTurnInput
    <3>4. /\ UNCHANGED <<tasks, active_turn>> /\ pc[s] = "run"
          /\ pending_input' = [pending_input EXCEPT ![active_turn] = {}]
          /\ Due' = IF s \in tasks THEN Due ELSE Due \ pending_input[active_turn]
      BY <1>1, <2>2 DEF GetPendingInput, TakeTurnInput
    <3> SUFFICES ASSUME NEW i \in Due' PROVE Found(i)'
      BY DEF Where
    <3>5. Found(i)
      BY <3>4 DEF Where
    <3>6. s \in tasks /\ i \in local[s].hand \cup pending_input[active_turn] => Found(i)'
      BY <1>0, <3>2, <3>3, <3>4, Jumped DEF InHand, Found
    <3>7. InTurn(i) => Found(i)'
      BY <3>4, <3>6 DEF InTurn
    <3>8. \A o \in TurnIds : i \in pending_input[o] => i \in pending_input'[o] \/ Found(i)'
      BY <1>0, <3>4, <3>6 DEF TypeOK
    <3> QED BY <1>0, <3>3, <3>4, <3>5, <3>6, <3>7, <3>8, Kept
  <2> QED BY <2>1, <2>2
<1>2. CASE TaskDrainMailbox(s)
  <2>1. PICK l : l = [local[s] EXCEPT !.hand = local[s].hand \cup mailbox]
    OBVIOUS
  <2>2. l.hand = local[s].hand \cup mailbox
    BY <1>0, <2>1, OtherFields
  <2>3. /\ Jump(s, "inspect", l) /\ pc[s] = "drain_mail"
        /\ UNCHANGED <<tasks, active_turn, pending_input, Due>>
    BY <1>2, <2>1 DEF TaskDrainMailbox, DrainMailbox
  <2> QED BY <1>0, <2>2, <2>3, Steady
<1>3. CASE InspectPendingInput(s)
  <2>1. PICK requeued \in SUBSET local[s].hand :
           /\ \/ requeued = {} /\ Due' = Due \ local[s].hand
              \/ /\ requeued # {}
                 /\ Due' = Due \ ((local[s].hand \ requeued)
                                      \cup IF active_turn = None THEN requeued ELSE {})
           /\ pending_input' = IF active_turn = None \/ requeued = {} THEN pending_input
                               ELSE [pending_input EXCEPT ![active_turn] = @ \cup requeued]
    BY <1>3 DEF InspectPendingInput
  <2>2. PICK l : Jump(s, "run", l)
    BY <1>3 DEF InspectPendingInput
  <2>3. UNCHANGED <<tasks, active_turn>> /\ pc[s] = "inspect"
    BY <1>3 DEF InspectPendingInput
  <2> SUFFICES ASSUME NEW i \in Due' PROVE Found(i)'
    BY DEF Where
  <2>4. Found(i)
    BY <2>1 DEF Where
  <2>5. \A o \in TurnIds : pending_input[o] \subseteq pending_input'[o]
    BY <1>0, <2>1 DEF TypeOK
  <2>6. i \in local[s].hand => active_turn # None /\ i \in pending_input'[active_turn]
    BY <1>0, <2>1 DEF TypeOK
  <2>7. i \in local[s].hand /\ s \in tasks => Found(i)'
    BY <2>3, <2>6 DEF Found, InTurn
  <2>8. InTurn(i) => Found(i)'
    BY <1>0, <2>3, <2>5 DEF Found, InTurn, TypeOK
  <2> QED BY <1>0, <2>2, <2>3, <2>4, <2>5, <2>7, <2>8, Kept
<1>4. CASE DeferMailbox(s) \/ AcceptMailbox(s)
  BY <1>0, <1>4, Still DEF DeferMailbox, AcceptMailbox
<1>5. CASE \/ RequestApproval(s) \/ ApprovalDropped(s) \/ RunReturns(s)
           \/ HasTurnInput(s) \/ HasMail(s) \/ FinishRun(s)
  <2>1. PICK x : Goto(s, x)
    BY <1>5 DEF RequestApproval, ApprovalDropped, RunReturns, HasTurnInput, HasMail, FinishRun
  <2>2. /\ UNCHANGED <<local, tasks, active_turn, pending_input, Due>>
        /\ pc[s] \in {"run", "approval", "check_mail", "finish"}
    BY <1>5 DEF RequestApproval, ApprovalDropped, RunReturns, HasTurnInput, HasMail, FinishRun
  <2> QED BY <2>1, <2>2, <1>same
<1>6. CASE RemoveTask(s)
  <2>1. /\ UNCHANGED <<active_turn, pending_input, Due>> /\ tasks' = tasks \ {s}
        /\ pc[s] = "remove" /\ local[s].hand = {}
    BY <1>6 DEF RemoveTask, Solo, HandlessPcs
  <2>2. CASE s \in tasks
    <3>1. tasks = {s}
      BY <2>2 DEF Solo
    <3>2. PICK l : l = [local[s] EXCEPT !.turn = active_turn]
      OBVIOUS
    <3>3. l.turn = active_turn /\ Jump(s, "leftover", l)
      BY <1>0, <1>6, <3>1, <3>2, SetTurn DEF RemoveTask, TypeOK
    <3> SUFFICES ASSUME NEW i \in Due' PROVE Found(i)'
      BY DEF Where
    <3>4. Found(i)
      BY <2>1 DEF Where
    <3>5. InTurn(i) => Found(i)'
      BY <1>0, <2>1, <3>3, Jumped DEF InTurn, InLeftover, Found
    <3> QED BY <1>0, <2>1, <3>1, <3>3, <3>4, <3>5, Kept
  <2>3. CASE s \notin tasks
    <3>1. tasks' = tasks /\ Goto(s, "complete") /\ UNCHANGED local
      BY <1>6, <2>1, <2>3 DEF RemoveTask
    <3> QED BY <2>1, <3>1, <1>same
  <2> QED BY <2>2, <2>3
<1>7. CASE TakeLeftover(s)
  <2>1. PICK o : o = local[s].turn
    OBVIOUS
  <2>2. o \in TurnIds /\ pc[s] = "leftover"
    BY <1>0, <1>7, <2>1, Fields DEF TakeLeftover, TypeOK, LocalsReady, TurnPcs
  <2>3. PICK l : l = [local[s] EXCEPT !.hand = pending_input[o]]
    OBVIOUS
  <2>4. l.hand = pending_input[o]
    BY <1>0, <2>3, OtherFields
  <2>5. /\ Jump(s, "complete", l) /\ UNCHANGED <<tasks, active_turn, Due>>
        /\ pending_input' = [pending_input EXCEPT ![o] = {}]
    BY <1>7, <2>1, <2>3 DEF TakeLeftover
  <2> SUFFICES ASSUME NEW i \in Due' PROVE Found(i)'
    BY DEF Where
  <2>6. Found(i)
    BY <2>5 DEF Where
  <2>7. i \in pending_input[o] => Found(i)'
    BY <1>0, <2>4, <2>5, Jumped DEF InHand, Found
  <2>8. \A q \in TurnIds : i \in pending_input[q] => i \in pending_input'[q] \/ Found(i)'
    BY <1>0, <2>2, <2>5, <2>7 DEF TypeOK
  <2>9. InTurn(i) => Found(i)'
    BY <1>0, <2>5, <2>8 DEF InTurn, Found, TypeOK
  <2>10. s \notin tasks
    BY <2>2 DEF IInv, Owned, NoDeadTask, RunningPcs
  <2> QED BY <1>0, <2>1, <2>2, <2>5, <2>6, <2>7, <2>8, <2>9, <2>10, Kept
<1>8. CASE CompleteTurn(s)
  <2>1. PICK x, l : Jump(s, x, l)
    BY <1>8 DEF CompleteTurn, Return
  <2>2. /\ UNCHANGED <<tasks, active_turn, pending_input>> /\ Due' = Due \ local[s].hand
        /\ pc[s] = "complete"
    BY <1>8 DEF CompleteTurn
  <2> SUFFICES ASSUME NEW i \in Due' PROVE Found(i)'
    BY DEF Where
  <2>3. Found(i) /\ i \notin local[s].hand
    BY <2>2 DEF Where
  <2>4. InTurn(i) => Found(i)'
    BY <2>2 DEF InTurn, Found
  <2> QED BY <1>0, <2>1, <2>2, <2>3, <2>4, Kept
<1>9. CASE ClearActiveTurn(s)
  <2>1. PICK x, l : Jump(s, x, l)
    BY <1>9 DEF ClearActiveTurn, Return
  <2>2. /\ UNCHANGED <<tasks, pending_input, Due>> /\ (tasks # {} => active_turn' = active_turn)
        /\ pc[s] = "clear"
    BY <1>9 DEF ClearActiveTurn, EmptyTurn, EmptySlot
  <2> QED BY <1>0, <2>1, <2>2, Call
<1>10. CASE RecordInput(s) \/ GiveUpTurn(s)
  <2>1. PICK x, l : Jump(s, x, l)
    BY <1>10 DEF RecordInput, GiveUpTurn
  <2>2. /\ UNCHANGED <<tasks, active_turn, pending_input>> /\ Due' \subseteq Due \ local[s].hand
        /\ pc[s] = "begin"
    BY <1>10 DEF RecordInput, GiveUpTurn
  <2> SUFFICES ASSUME NEW i \in Due' PROVE Found(i)'
    BY DEF Where
  <2>3. Found(i) /\ i \notin local[s].hand
    BY <2>2 DEF Where
  <2>4. InTurn(i) => Found(i)'
    BY <2>2 DEF InTurn, Found
  <2> QED BY <1>0, <2>1, <2>2, <2>3, <2>4, Kept
<1>11. CASE RunCancelled(s)
  <2>1. PICK x, l : Jump(s, x, l)
    BY <1>11 DEF RunCancelled
  <2>2. /\ UNCHANGED <<tasks, active_turn, pending_input, Due>>
        /\ pc[s] \in {"begin", "run", "approval"} /\ s \in cancelled
    BY <1>11 DEF RunCancelled
  <2>3. s \notin tasks
    BY <2>2 DEF IInv, Owned, SlotUncancelled
  <2> QED BY <1>0, <2>1, <2>2, <2>3, Steady
<1> QED BY <1>1, <1>2, <1>3, <1>4, <1>5, <1>6, <1>7, <1>8, <1>9, <1>10, <1>11 DEF RunStep, FinishStep

\* Every step keeps what is owed where it can be found.
LEMMA WhereStep == ASSUME LoopStartsOnly, IInv, Solo, Where, [Next]_vars PROVE Where'
<1>1. CASE UNCHANGED vars
  BY <1>1, Still DEF vars, turnVars, stateVars, IInv, Due
<1> QED BY <1>1, WhereOperations, WhereAbort, WhereStart, WhereTask DEF Next

-----------------------------------------------------------------------------
(***************************************************************************)
(* The theorems.                                                           *)
(***************************************************************************)

\* Nobody but the loop is at a start, and what is owed can be found.
LEMMA LoopInvariance == ASSUME LoopStartsOnly PROVE Spec => [](IInv /\ Solo /\ Where)
<1>1. Init => Solo
  BY FirstLocals, Allocation
     DEF Init, Solo, StartPcs, NeverPcs, LaunchPcs, EmptyPcs, AbortPcs, HandlessPcs
<1>2. Init => Where
  BY DEF Init, Where, Due
<1>3. IInv /\ Solo /\ Where /\ [Next]_vars => Solo' /\ Where'
  BY SoloStep, WhereStep
<1> QED BY Invariance, <1>1, <1>2, <1>3, PTL DEF Spec

\* "Session has at most one Task running at a time": so it is while only the submission
\* loop starts turns, however the guardian's aborts and finishing tasks interleave with it.
THEOREM OneTask == ASSUME LoopStartsOnly PROVE Spec => []OneTaskAtATime
<1>1. Solo => OneTaskAtATime
  <2> SUFFICES ASSUME Solo PROVE Cardinality(tasks) =< 1
    BY DEF OneTaskAtATime
  <2>1. CASE tasks = {}
    BY <2>1, FS_EmptySet
  <2>2. CASE tasks # {}
    <3>1. PICK s : tasks = {s}
      BY <2>2 DEF Solo
    <3>2. Cardinality(tasks) = 1
      BY <3>1, FS_Singleton, Zenon
    <3> QED BY <3>2
  <2> QED BY <2>1, <2>2
<1> QED BY LoopInvariance, <1>1, PTL

\* While only the submission loop starts turns, an input that the session accepted is
\* recorded, blocked or discarded with what an abort takes away, and until then it is in
\* the hand of a task or of the loop, or in a turn that somebody will look at; all but the
\* initial input of a turn that run_turn gives up before it has recorded it.
THEOREM InputKept == ASSUME LoopStartsOnly PROVE Spec => []UserInputKept
<1>1. IInv /\ Where => UserInputKept
  <2> SUFFICES ASSUME IInv, NEW i \in Due, Found(i) PROVE i \in InPlace
    BY DEF UserInputKept, Where, Due
  <2>turn. (\E o \in TurnIds : ~Unused(o) /\ i \in pending_input[o]) => i \in InPlace
    <3>1. (\E o \in TurnIds : ~Unused(o) /\ i \in pending_input[o]) => i \in Pending
      BY DEF Pending
    <3> QED BY <3>1 DEF InPlace
  <2>1. CASE InHand(i) \/ InInput(i)
    <3>1. \E p \in Procs : i \in local[p].hand \cup local[p].input
      BY <2>1, Allocation DEF InHand, InInput
    <3>2. i \in Taken
      BY <3>1 DEF Taken
    <3> QED BY <3>2 DEF InPlace
  <2>2. CASE InTurn(i)
    <3>1. active_turn \in TurnIds /\ ~Unused(active_turn) /\ i \in pending_input[active_turn]
      BY <2>2 DEF InTurn, Unused, IInv, TypeOK
    <3> QED BY <3>1, <2>turn
  <2>3. CASE InLeftover(i)
    <3>1. PICK s \in Subs : pc[s] = "leftover" /\ i \in pending_input[local[s].turn]
      BY <2>3 DEF InLeftover
    <3>2. local[s].turn \in TurnIds /\ ~Unused(local[s].turn)
      BY <3>1, Allocation, Fields DEF IInv, TypeOK, LocalsReady, TurnPcs, Unused
    <3> QED BY <3>1, <3>2, <2>turn
  <2> QED BY <2>1, <2>2, <2>3 DEF Found
<1> QED BY LoopInvariance, <1>1, PTL
=============================================================================
