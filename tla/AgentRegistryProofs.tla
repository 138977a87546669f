------------------------- MODULE AgentRegistryProofs -------------------------
(***************************************************************************)
(* Proofs about AgentRegistry, for every set of calls, threads and paths,  *)
(* every limit and both values of the multi_agent_v2 flag.                 *)
(*                                                                         *)
(* SlotAccounting is not inductive by itself: a commit must be known to    *)
(* register a thread under a key of the tree, and a release to have a      *)
(* thread to look for.  LocalsOK says so.  That nicknames are distinct     *)
(* (NicknamesDistinct) speaks of agents that are registered; it is kept    *)
(* because every name has one bearer before that too, in a call or in the  *)
(* database (OneBearer), and the pool knows the names that are borne       *)
(* (Spent).                                                                *)
(***************************************************************************)
EXTENDS AgentRegistry, FiniteSetTheorems, TLAPS

HoldPcs == ReservationPcs \cup {"fetch_sub"}

\* The sets that SlotAccounting counts are finite: they are subsets of the
\* calls and of the tree's keys.
LEMMA CountedSetsFinite == /\ IsFiniteSet(CountedKeys) /\ Cardinality(CountedKeys) \in Nat
                    /\ IsFiniteSet(HoldingCalls) /\ Cardinality(HoldingCalls) \in Nat
<1>1. IsFiniteSet(Keys)
  <2>1. IsFiniteSet(Paths \cup ThreadIds)
    BY KeysFinite, FS_Union
  <2>2. Keys = (Paths \cup ThreadIds) \cup {RootPath}
    BY DEF Keys
  <2> QED BY <2>1, <2>2, FS_AddElement
<1>2. IsFiniteSet(CountedKeys)
  BY <1>1, FS_Subset DEF CountedKeys
<1>3. IsFiniteSet(HoldingCalls)
  BY CallsFinite, FS_Subset DEF HoldingCalls
<1> QED BY <1>2, <1>3, FS_CardinalityType

\* A call that moves to another point starts or stops holding a slot according
\* to that point alone (SpawnReservation::active, or a release on its way to
\* fetch_sub); the other calls are not affected.
LEMMA HoldingAfterGoto ==
    ASSUME TypeOK, NEW c \in Calls, NEW label \in Pcs, Goto(c, label)
    PROVE  HoldingCalls' = IF label \in HoldPcs THEN HoldingCalls \cup {c}
                                                ELSE HoldingCalls \ {c}
BY DEF TypeOK, Goto, HoldingCalls, HoldPcs

\* The same, as arithmetic on the number of slots held by calls.
LEMMA HoldingCount ==
    ASSUME TypeOK, NEW c \in Calls, NEW label \in Pcs, Goto(c, label)
    PROVE  Cardinality(HoldingCalls') = Cardinality(HoldingCalls)
              + (IF label \in HoldPcs THEN 1 ELSE 0) - (IF pc[c] \in HoldPcs THEN 1 ELSE 0)
<1>1. HoldingCalls' = IF label \in HoldPcs THEN HoldingCalls \cup {c} ELSE HoldingCalls \ {c}
  BY HoldingAfterGoto
<1>2. c \in HoldingCalls <=> pc[c] \in HoldPcs
  BY DEF HoldingCalls, HoldPcs
<1>3. IsFiniteSet(HoldingCalls) /\ Cardinality(HoldingCalls) \in Nat
  BY CountedSetsFinite
<1>4. Cardinality(HoldingCalls \cup {c}) =
        IF c \in HoldingCalls THEN Cardinality(HoldingCalls) ELSE Cardinality(HoldingCalls) + 1
  BY <1>3, FS_AddElement
<1>5. Cardinality(HoldingCalls \ {c}) =
        IF c \in HoldingCalls THEN Cardinality(HoldingCalls) - 1 ELSE Cardinality(HoldingCalls)
  BY <1>3, FS_RemoveElement
<1> QED BY <1>1, <1>2, <1>3, <1>4, <1>5

\* The effect of rewriting one entry of the tree on the number of counted
\* agents: it depends on the old and the new entry only.
LEMMA CountedCount ==
    ASSUME TypeOK, NEW k \in Keys, NEW e \in AgentMetadata \cup {None},
           agent_tree' = [agent_tree EXCEPT ![k] = e]
    PROVE  Cardinality(CountedKeys') = Cardinality(CountedKeys)
              + (IF Counted(e) THEN 1 ELSE 0) - (IF Counted(agent_tree[k]) THEN 1 ELSE 0)
<1>1. CountedKeys' = IF Counted(e) THEN CountedKeys \cup {k} ELSE CountedKeys \ {k}
  BY DEF TypeOK, CountedKeys
<1>2. k \in CountedKeys <=> Counted(agent_tree[k])
  BY DEF CountedKeys
<1>3. IsFiniteSet(CountedKeys) /\ Cardinality(CountedKeys) \in Nat
  BY CountedSetsFinite
<1>4. Cardinality(CountedKeys \cup {k}) =
        IF k \in CountedKeys THEN Cardinality(CountedKeys) ELSE Cardinality(CountedKeys) + 1
  BY <1>3, FS_AddElement
<1>5. Cardinality(CountedKeys \ {k}) =
        IF k \in CountedKeys THEN Cardinality(CountedKeys) - 1 ELSE Cardinality(CountedKeys)
  BY <1>3, FS_RemoveElement
<1> QED BY <1>1, <1>2, <1>3, <1>4, <1>5

\* A step that leaves the tree alone leaves the counted agents alone.
LEMMA CountedSame == ASSUME UNCHANGED agent_tree PROVE CountedKeys' = CountedKeys
BY DEF CountedKeys

-----------------------------------------------------------------------------
(***************************************************************************)
(* Type correctness and the shape of a call's locals.                      *)
(***************************************************************************)

\* Moving a call to a point, and returning from it, keeps pc and the locals typed.
LEMMA ControlType ==
    ASSUME TypeOK, NEW c \in Calls
    PROVE  /\ \A label \in Pcs : Goto(c, label) => pc' \in [Calls -> Pcs]
           /\ \A l \in Locals : call' = [call EXCEPT ![c] = l] => call' \in [Calls -> Locals]
           /\ Return(c) => pc' \in [Calls -> Pcs] /\ call' \in [Calls -> Locals]
           /\ \A label \in Pcs, l \in Locals :
                 Begin(c, label, l) => pc' \in [Calls -> Pcs] /\ call' \in [Calls -> Locals]
<1>1. Blank \in Locals
  BY DEF Blank, Locals
<1>2. "idle" \in Pcs
  BY DEF Pcs
<1> QED BY <1>1, <1>2 DEF TypeOK, Goto, Return, Begin

\* Assigning one of a call's locals keeps the locals typed.
LEMMA LocalsType ==
    ASSUME NEW l \in Locals
    PROVE  /\ [l EXCEPT !.reserved_agent_path = TRUE] \in Locals
           /\ [l EXCEPT !.reserved_agent_path = FALSE] \in Locals
           /\ \A n \in Nicknames : [l EXCEPT !.agent_nickname = n] \in Locals
           /\ \A t \in ThreadIds : [l EXCEPT !.thread_id = t] \in Locals
BY DEF Locals, AgentIds

\* Every step of a call keeps the variables in their types.  The counter stays a
\* natural number because a call at fetch_sub is one of the slots it counts.
LEMMA TypeStep ==
    ASSUME TypeOK, LocalsOK, SlotAccounting, NEW c \in Calls, Step(c)
    PROVE  TypeOK'
<1> USE ConstantsDistinct
<1> USE DEF TypeOK, registryVars, managerVars, AgentIds
<1>locals. /\ call[c] \in Locals
           /\ [call[c] EXCEPT !.reserved_agent_path = TRUE] \in Locals
           /\ [call[c] EXCEPT !.reserved_agent_path = FALSE] \in Locals
           /\ \A n \in Nicknames : [call[c] EXCEPT !.agent_nickname = n] \in Locals
           /\ \A t \in ThreadIds : [call[c] EXCEPT !.thread_id = t] \in Locals
  BY LocalsType
<1>1. CASE SpawnAgent(c)
  <2>1. PICK p \in Paths \cup {None} : Begin(c, "slot", [Blank EXCEPT !.kind = "spawn", !.agent_path = p])
    BY <1>1 DEF SpawnAgent
  <2>2. [Blank EXCEPT !.kind = "spawn", !.agent_path = p] \in Locals
    BY DEF Blank, Locals
  <2> QED BY <1>1, <2>1, <2>2, ControlType DEF SpawnAgent, Pcs
<1>2. CASE SpawnJobWorker(c)
  <2>1. [Blank EXCEPT !.kind = "job"] \in Locals
    BY DEF Blank, Locals
  <2> QED BY <1>2, <2>1, ControlType DEF SpawnJobWorker, Pcs
<1>3. CASE ResumeAgent(c)
  <2>1. PICK t \in ThreadIds : Begin(c, "slot", [Blank EXCEPT !.kind = "resume", !.thread_id = t])
    BY <1>3 DEF ResumeAgent
  <2>2. [Blank EXCEPT !.kind = "resume", !.thread_id = t] \in Locals
    BY DEF Blank, Locals
  <2> QED BY <1>3, <2>1, <2>2, ControlType DEF ResumeAgent, Pcs
<1>4. CASE ReserveSpawnSlot(c)
  BY <1>4, ControlType DEF ReserveSpawnSlot, Pcs
<1>5. CASE RegisterRoot(c)
  BY <1>5, ControlType DEF RegisterRoot, Keys, AgentMetadata, Pcs
<1>6. CASE ReserveAgentPath(c)
  <2> DEFINE p == call[c].agent_path
  <2>1. pc' \in [Calls -> Pcs]
    BY <1>6, ControlType DEF ReserveAgentPath, Pcs
  <2>2. call' \in [Calls -> Locals]
    <3>1. call' = call \/ call' = [call EXCEPT ![c].reserved_agent_path = TRUE]
      BY <1>6 DEF ReserveAgentPath
    <3> QED BY <3>1, <1>locals
  <2>3. agent_tree' \in [Keys -> AgentMetadata \cup {None}]
    <3>1. p \in Paths \cup {None}
      BY DEF Locals
    <3>2. p # None => p \in Keys /\ [agent_id |-> None, agent_path |-> p, agent_nickname |-> None] \in AgentMetadata
      BY <3>1 DEF Keys, AgentMetadata
    <3> HIDE DEF p
    <3> QED BY <1>6, <3>2 DEF ReserveAgentPath, p
  <2> QED BY <1>6, <2>1, <2>2, <2>3 DEF ReserveAgentPath
<1>7. CASE PreferredNickname(c)
  BY <1>7, ControlType, <1>locals DEF PreferredNickname, TakeNickname, Pcs, LocalsOK
<1>8. CASE PooledNickname(c)
  <2>1. PICK n \in Nicknames :
           TakeNickname(c, n) /\ used_agent_nicknames' = used_agent_nicknames \cup {n}
    BY <1>8 DEF PooledNickname, Available, Nicknames, Names
  <2> QED BY <1>8, <2>1, ControlType, <1>locals DEF PooledNickname, TakeNickname, Pcs
<1>9. CASE ResetNicknamePool(c)
  <2>1. PICK n \in Nicknames : TakeNickname(c, n) /\ used_agent_nicknames' = {n}
    BY <1>9 DEF ResetNicknamePool, Nicknames, Names
  <2> QED BY <1>9, <2>1, ControlType, <1>locals DEF ResetNicknamePool, TakeNickname, Pcs
<1>10. CASE CreateThread(c)
  <2>1. PICK t \in ThreadIds :
           /\ threads' = threads \cup {t}
           /\ created' = created \cup {t}
           /\ db_nickname' = IF t \in created THEN db_nickname
                               ELSE [db_nickname EXCEPT ![t] = call[c].agent_nickname]
           /\ call' = [call EXCEPT ![c].thread_id = t]
    BY <1>10 DEF CreateThread, LocalsOK
  <2>2. db_nickname' \in [ThreadIds -> Nicknames \cup {None}]
    BY <2>1 DEF Locals
  <2> QED BY <1>10, <2>1, <2>2, ControlType, <1>locals DEF CreateThread, Pcs
<1>11. CASE AbandonSpawn(c)
  BY <1>11, ControlType DEF AbandonSpawn, Pcs
<1>12. CASE Commit(c)
  <2> DEFINE l == call[c]
             key == IF l.agent_path = None THEN l.thread_id ELSE l.agent_path
             entry == [agent_id |-> l.thread_id, agent_path |-> l.agent_path,
                       agent_nickname |-> l.agent_nickname]
  <2>1. key \in Keys /\ entry \in AgentMetadata
    BY <1>12 DEF Commit, LocalsOK, Locals, Keys, AgentMetadata
  <2>2. agent_tree' \in [Keys -> AgentMetadata \cup {None}]
    BY <1>12, <2>1 DEF Commit
  <2>3. pc' \in [Calls -> Pcs] /\ call' \in [Calls -> Locals]
    <3>1. \/ Return(c)
          \/ Goto(c, "input") /\ call' = [call EXCEPT ![c].reserved_agent_path = FALSE]
      BY <1>12 DEF Commit
    <3> QED BY <3>1, ControlType, <1>locals DEF Pcs
  <2>4. used_agent_nicknames' \subseteq Nicknames /\ overwritten' \in Nat
    BY <1>12 DEF Commit, Locals
  <2> QED BY <1>12, <2>2, <2>3, <2>4 DEF Commit
<1>13. CASE SendInput(c)
  BY <1>13, ControlType DEF SendInput
<1>14. CASE AgentDied(c)
  BY <1>14, ControlType DEF AgentDied, Pcs
<1>15. CASE DropReservation(c)
  <2>1. agent_tree' \in [Keys -> AgentMetadata \cup {None}]
    BY <1>15 DEF DropReservation
  <2>2. pc' \in [Calls -> Pcs] /\ call' \in [Calls -> Locals]
    BY <1>15, ControlType, <1>locals DEF DropReservation, Pcs
  <2> QED BY <1>15, <2>1, <2>2 DEF DropReservation
<1>16. CASE ShutdownLiveAgent(c)
  <2>1. PICK t \in AgentIds : Begin(c, "remove", [Blank EXCEPT !.kind = "close", !.thread_id = t])
    BY <1>16 DEF ShutdownLiveAgent
  <2>2. [Blank EXCEPT !.kind = "close", !.thread_id = t] \in Locals
    BY DEF Blank, Locals
  <2> QED BY <1>16, <2>1, <2>2, ControlType DEF ShutdownLiveAgent, Pcs
<1>17. CASE AbandonShutdown(c)
  BY <1>17, ControlType DEF AbandonShutdown
<1>18. CASE RemoveThread(c)
  BY <1>18, ControlType DEF RemoveThread, Pcs
<1>19. CASE ReleaseSpawnedThread(c)
  <2>1. PICK k \in Keys : agent_tree' = [agent_tree EXCEPT ![k] = None]
    BY <1>19 DEF ReleaseSpawnedThread, KeysOf
  <2>2. pc' \in [Calls -> Pcs] /\ call' \in [Calls -> Locals]
    BY <1>19, ControlType DEF ReleaseSpawnedThread, Pcs
  <2> QED BY <1>19, <2>1, <2>2 DEF ReleaseSpawnedThread
<1>20. CASE ReleaseUnknownThread(c)
  BY <1>20, ControlType DEF ReleaseUnknownThread
<1>21. CASE FetchSub(c)
  <2>1. total_count >= 1
    <3>1. c \in HoldingCalls
      BY <1>21 DEF FetchSub, HoldingCalls
    <3>2. Cardinality(HoldingCalls) # 0
      BY <3>1, CountedSetsFinite, FS_EmptySet
    <3> QED BY <3>2, CountedSetsFinite DEF SlotAccounting
  <2> QED BY <1>21, <2>1, ControlType DEF FetchSub
<1> QED BY <1>1, <1>2, <1>3, <1>4, <1>5, <1>6, <1>7, <1>8, <1>9, <1>10, <1>11, <1>12, <1>13, <1>14, <1>15, <1>16, <1>17, <1>18, <1>19, <1>20, <1>21 DEF Step

\* Every step of a call keeps LocalsOK.
LEMMA LocalsStep ==
    ASSUME TypeOK, LocalsOK, NEW c \in Calls, Step(c)
    PROVE  LocalsOK'
<1> USE ConstantsDistinct
<1> USE DEF TypeOK, LocalsOK, registryVars, managerVars, Goto, Return, Begin, Blank, Locals, Pcs,
            AgentIds
<1>1. CASE SpawnAgent(c)
  BY <1>1 DEF SpawnAgent
<1>2. CASE SpawnJobWorker(c)
  BY <1>2 DEF SpawnJobWorker
<1>3. CASE ResumeAgent(c)
  BY <1>3 DEF ResumeAgent
<1>4. CASE ReserveSpawnSlot(c)
  BY <1>4 DEF ReserveSpawnSlot
<1>5. CASE RegisterRoot(c)
  BY <1>5 DEF RegisterRoot
<1>6. CASE ReserveAgentPath(c)
  BY <1>6 DEF ReserveAgentPath
<1>7. CASE PreferredNickname(c)
  BY <1>7 DEF PreferredNickname, TakeNickname
<1>8. CASE PooledNickname(c)
  BY <1>8 DEF PooledNickname, TakeNickname
<1>9. CASE ResetNicknamePool(c)
  BY <1>9 DEF ResetNicknamePool, TakeNickname
<1>10. CASE CreateThread(c)
  BY <1>10 DEF CreateThread, CreatePc
<1>11. CASE AbandonSpawn(c)
  BY <1>11 DEF AbandonSpawn, Abandonable
<1>12. CASE Commit(c)
  BY <1>12 DEF Commit
<1>13. CASE SendInput(c)
  BY <1>13 DEF SendInput
<1>14. CASE AgentDied(c)
  BY <1>14 DEF AgentDied
<1>15. CASE DropReservation(c)
  BY <1>15 DEF DropReservation
<1>16. CASE ShutdownLiveAgent(c)
  BY <1>16 DEF ShutdownLiveAgent
<1>17. CASE AbandonShutdown(c)
  BY <1>17 DEF AbandonShutdown
<1>18. CASE RemoveThread(c)
  BY <1>18 DEF RemoveThread
<1>19. CASE ReleaseSpawnedThread(c)
  BY <1>19 DEF ReleaseSpawnedThread
<1>20. CASE ReleaseUnknownThread(c)
  BY <1>20 DEF ReleaseUnknownThread
<1>21. CASE FetchSub(c)
  BY <1>21 DEF FetchSub
<1> QED BY <1>1, <1>2, <1>3, <1>4, <1>5, <1>6, <1>7, <1>8, <1>9, <1>10, <1>11, <1>12, <1>13, <1>14, <1>15, <1>16, <1>17, <1>18, <1>19, <1>20, <1>21 DEF Step

-----------------------------------------------------------------------------
(***************************************************************************)
(* The accounting of slots.                                                *)
(***************************************************************************)

\* Every step of a call keeps SlotAccounting: an action moves a slot between the
\* counter, a reservation, the tree and a pending fetch_sub, and the one commit
\* that loses an entry is recorded in overwritten.
LEMMA SlotStep ==
    ASSUME TypeOK, LocalsOK, SlotAccounting, NEW c \in Calls, Step(c)
    PROVE  SlotAccounting'
<1> USE ConstantsDistinct, CountedSetsFinite
<1>types. total_count \in Nat /\ overwritten \in Nat
  BY DEF TypeOK
<1>count. total_count = Cardinality(CountedKeys) + Cardinality(HoldingCalls) + overwritten
  BY DEF SlotAccounting
\* Steps that change neither the tree nor the counter nor who holds a slot.
<1>quiet. ASSUME UNCHANGED <<agent_tree, total_count, overwritten>>, NEW label \in Pcs,
                 Goto(c, label), pc[c] \in HoldPcs <=> label \in HoldPcs
          PROVE  SlotAccounting'
  <2>1. CountedKeys' = CountedKeys
    BY <1>quiet, CountedSame
  <2>2. Cardinality(HoldingCalls') = Cardinality(HoldingCalls)
    BY <1>quiet, HoldingCount
  <2> QED BY <1>quiet, <1>count, <2>1, <2>2 DEF SlotAccounting
<1>1. CASE SpawnAgent(c)
  <2>1. Goto(c, "slot") /\ UNCHANGED <<agent_tree, total_count, overwritten>>
    BY <1>1 DEF SpawnAgent, Begin, registryVars
  <2>2. "slot" \in Pcs /\ (pc[c] \in HoldPcs <=> "slot" \in HoldPcs)
    BY <1>1 DEF SpawnAgent, Begin, Pcs, HoldPcs, ReservationPcs
  <2> QED BY <1>quiet, <2>1, <2>2
<1>2. CASE SpawnJobWorker(c)
  <2>1. Goto(c, "slot") /\ UNCHANGED <<agent_tree, total_count, overwritten>>
    BY <1>2 DEF SpawnJobWorker, Begin, registryVars
  <2>2. "slot" \in Pcs /\ (pc[c] \in HoldPcs <=> "slot" \in HoldPcs)
    BY <1>2 DEF SpawnJobWorker, Begin, Pcs, HoldPcs, ReservationPcs
  <2> QED BY <1>quiet, <2>1, <2>2
<1>3. CASE ResumeAgent(c)
  <2>1. Goto(c, "slot") /\ UNCHANGED <<agent_tree, total_count, overwritten>>
    BY <1>3 DEF ResumeAgent, Begin, registryVars
  <2>2. "slot" \in Pcs /\ (pc[c] \in HoldPcs <=> "slot" \in HoldPcs)
    BY <1>3 DEF ResumeAgent, Begin, Pcs, HoldPcs, ReservationPcs
  <2> QED BY <1>quiet, <2>1, <2>2
<1>4. CASE ReserveSpawnSlot(c)
  <2>1. CountedKeys' = CountedKeys /\ overwritten' = overwritten
    BY <1>4, CountedSame DEF ReserveSpawnSlot
  <2>2. CASE HasRoom
    <3>1. Goto(c, "reserved") /\ total_count' = total_count + 1
      BY <1>4, <2>2 DEF ReserveSpawnSlot
    <3>2. pc[c] \notin HoldPcs /\ "reserved" \in HoldPcs /\ "reserved" \in Pcs
      BY <1>4 DEF ReserveSpawnSlot, HoldPcs, ReservationPcs, Pcs
    <3>3. Cardinality(HoldingCalls') = Cardinality(HoldingCalls) + 1
      BY <3>1, <3>2, HoldingCount
    <3> QED BY <1>types, <1>count, <2>1, <3>1, <3>3 DEF SlotAccounting
  <2>3. CASE ~HasRoom
    <3>1. Goto(c, "idle") /\ UNCHANGED <<agent_tree, total_count, overwritten>>
      BY <1>4, <2>3 DEF ReserveSpawnSlot, Return
    <3>2. "idle" \in Pcs /\ (pc[c] \in HoldPcs <=> "idle" \in HoldPcs)
      BY <1>4 DEF ReserveSpawnSlot, HoldPcs, ReservationPcs, Pcs
    <3> QED BY <1>quiet, <3>1, <3>2
  <2> QED BY <2>2, <2>3
<1>5. CASE RegisterRoot(c)
  <2>1. CountedKeys' = CountedKeys
    BY <1>5 DEF RegisterRoot, CountedKeys, Counted, Registered, TypeOK, Keys
  <2>2. "path" \in Pcs /\ "path" \in HoldPcs /\ pc[c] \in HoldPcs
    BY <1>5 DEF RegisterRoot, HoldPcs, ReservationPcs, Pcs
  <2>3. Cardinality(HoldingCalls') = Cardinality(HoldingCalls)
    BY <1>5, <2>2, HoldingCount DEF RegisterRoot
  <2> QED BY <1>5, <1>types, <1>count, <2>1, <2>3 DEF RegisterRoot, SlotAccounting
<1>6. CASE ReserveAgentPath(c)
  <2>1. CountedKeys' = CountedKeys
    BY <1>6 DEF ReserveAgentPath, CountedKeys, Counted, Registered, TypeOK, Keys
  <2>2. PICK label \in {"nickname", "drop"} : Goto(c, label)
    BY <1>6 DEF ReserveAgentPath
  <2>3. label \in Pcs /\ label \in HoldPcs /\ pc[c] \in HoldPcs
    BY <1>6 DEF ReserveAgentPath, HoldPcs, ReservationPcs, Pcs
  <2>4. Cardinality(HoldingCalls') = Cardinality(HoldingCalls)
    BY <2>2, <2>3, HoldingCount
  <2> QED BY <1>6, <1>types, <1>count, <2>1, <2>4 DEF ReserveAgentPath, SlotAccounting
<1>7. CASE PreferredNickname(c)
  <2>1. Goto(c, "create") /\ UNCHANGED <<agent_tree, total_count, overwritten>>
    BY <1>7 DEF PreferredNickname, TakeNickname, registryVars
  <2>2. "create" \in Pcs /\ (pc[c] \in HoldPcs <=> "create" \in HoldPcs)
    BY <1>7 DEF PreferredNickname, Pcs, HoldPcs, ReservationPcs
  <2> QED BY <1>quiet, <2>1, <2>2
<1>8. CASE PooledNickname(c)
  <2>1. Goto(c, "create") /\ UNCHANGED <<agent_tree, total_count, overwritten>>
    BY <1>8 DEF PooledNickname, TakeNickname, registryVars
  <2>2. "create" \in Pcs /\ (pc[c] \in HoldPcs <=> "create" \in HoldPcs)
    BY <1>8 DEF PooledNickname, Pcs, HoldPcs, ReservationPcs
  <2> QED BY <1>quiet, <2>1, <2>2
<1>9. CASE ResetNicknamePool(c)
  <2>1. Goto(c, "create") /\ UNCHANGED <<agent_tree, total_count, overwritten>>
    BY <1>9 DEF ResetNicknamePool, TakeNickname, registryVars
  <2>2. "create" \in Pcs /\ (pc[c] \in HoldPcs <=> "create" \in HoldPcs)
    BY <1>9 DEF ResetNicknamePool, Pcs, HoldPcs, ReservationPcs
  <2> QED BY <1>quiet, <2>1, <2>2
<1>10. CASE CreateThread(c)
  <2>1. Goto(c, "commit") /\ UNCHANGED <<agent_tree, total_count, overwritten>>
    BY <1>10 DEF CreateThread, CreatePc, registryVars
  <2>2. "commit" \in Pcs /\ (pc[c] \in HoldPcs <=> "commit" \in HoldPcs)
    BY <1>10 DEF CreateThread, CreatePc, Pcs, HoldPcs, ReservationPcs
  <2> QED BY <1>quiet, <2>1, <2>2
<1>11. CASE AbandonSpawn(c)
  <2>1. Goto(c, "drop") /\ UNCHANGED <<agent_tree, total_count, overwritten>>
    BY <1>11 DEF AbandonSpawn, registryVars
  <2>2. "drop" \in Pcs /\ (pc[c] \in HoldPcs <=> "drop" \in HoldPcs)
    BY <1>11 DEF AbandonSpawn, Abandonable, Pcs, HoldPcs, ReservationPcs
  <2> QED BY <1>quiet, <2>1, <2>2
<1>12. CASE Commit(c)
  <2> DEFINE l == call[c]
             key == IF l.agent_path = None THEN l.thread_id ELSE l.agent_path
             entry == [agent_id |-> l.thread_id, agent_path |-> l.agent_path,
                       agent_nickname |-> l.agent_nickname]
  <2>1. key \in Keys /\ entry \in AgentMetadata
    BY <1>12 DEF Commit, LocalsOK, Locals, Keys, AgentMetadata, TypeOK
  <2>2. Counted(entry)
    BY <1>12, <2>1, NoneIsNoEntry DEF Commit, LocalsOK, Locals, TypeOK, Counted, AgentIds
  <2>3. /\ agent_tree' = [agent_tree EXCEPT ![key] = entry]
        /\ overwritten' = overwritten + (IF Counted(agent_tree[key]) THEN 1 ELSE 0)
        /\ total_count' = total_count
    BY <1>12 DEF Commit
  <2>4. PICK label \in {"idle", "input"} : Goto(c, label)
    BY <1>12 DEF Commit, Return
  <2>5. label \in Pcs /\ label \notin HoldPcs /\ pc[c] \in HoldPcs
    BY <1>12 DEF Commit, HoldPcs, ReservationPcs, Pcs
  <2>6. Cardinality(HoldingCalls') = Cardinality(HoldingCalls) - 1
    BY <2>4, <2>5, HoldingCount
  <2> HIDE DEF key, entry
  <2>7. Cardinality(CountedKeys') =
          Cardinality(CountedKeys) + 1 - (IF Counted(agent_tree[key]) THEN 1 ELSE 0)
    BY <2>1, <2>2, <2>3, CountedCount
  <2> QED BY <1>types, <1>count, <2>3, <2>6, <2>7 DEF SlotAccounting
<1>13. CASE SendInput(c)
  <2>1. Goto(c, "idle") /\ UNCHANGED <<agent_tree, total_count, overwritten>>
    BY <1>13 DEF SendInput, Return, registryVars
  <2>2. "idle" \in Pcs /\ (pc[c] \in HoldPcs <=> "idle" \in HoldPcs)
    BY <1>13 DEF SendInput, Return, Pcs, HoldPcs, ReservationPcs
  <2> QED BY <1>quiet, <2>1, <2>2
<1>14. CASE AgentDied(c)
  <2>1. Goto(c, "remove") /\ UNCHANGED <<agent_tree, total_count, overwritten>>
    BY <1>14 DEF AgentDied, registryVars
  <2>2. "remove" \in Pcs /\ (pc[c] \in HoldPcs <=> "remove" \in HoldPcs)
    BY <1>14 DEF AgentDied, Pcs, HoldPcs, ReservationPcs
  <2> QED BY <1>quiet, <2>1, <2>2
<1>15. CASE DropReservation(c)
  <2>1. CountedKeys' = CountedKeys
    BY <1>15 DEF DropReservation, CountedKeys, Counted, Registered, TypeOK
  <2>2. "fetch_sub" \in Pcs /\ "fetch_sub" \in HoldPcs /\ pc[c] \in HoldPcs
    BY <1>15 DEF DropReservation, HoldPcs, ReservationPcs, Pcs
  <2>3. Cardinality(HoldingCalls') = Cardinality(HoldingCalls)
    BY <1>15, <2>2, HoldingCount DEF DropReservation
  <2> QED BY <1>15, <1>types, <1>count, <2>1, <2>3 DEF DropReservation, SlotAccounting
<1>16. CASE ShutdownLiveAgent(c)
  <2>1. Goto(c, "remove") /\ UNCHANGED <<agent_tree, total_count, overwritten>>
    BY <1>16 DEF ShutdownLiveAgent, Begin, registryVars
  <2>2. "remove" \in Pcs /\ (pc[c] \in HoldPcs <=> "remove" \in HoldPcs)
    BY <1>16 DEF ShutdownLiveAgent, Begin, Pcs, HoldPcs, ReservationPcs
  <2> QED BY <1>quiet, <2>1, <2>2
<1>17. CASE AbandonShutdown(c)
  <2>1. Goto(c, "idle") /\ UNCHANGED <<agent_tree, total_count, overwritten>>
    BY <1>17 DEF AbandonShutdown, Return, registryVars
  <2>2. "idle" \in Pcs /\ (pc[c] \in HoldPcs <=> "idle" \in HoldPcs)
    BY <1>17 DEF AbandonShutdown, Return, Pcs, HoldPcs, ReservationPcs
  <2> QED BY <1>quiet, <2>1, <2>2
<1>18. CASE RemoveThread(c)
  <2>1. Goto(c, "release") /\ UNCHANGED <<agent_tree, total_count, overwritten>>
    BY <1>18 DEF RemoveThread, registryVars
  <2>2. "release" \in Pcs /\ (pc[c] \in HoldPcs <=> "release" \in HoldPcs)
    BY <1>18 DEF RemoveThread, Pcs, HoldPcs, ReservationPcs
  <2> QED BY <1>quiet, <2>1, <2>2
<1>19. CASE ReleaseSpawnedThread(c)
  <2>1. PICK k \in KeysOf(call[c].thread_id) :
           /\ agent_tree' = [agent_tree EXCEPT ![k] = None]
           /\ IF agent_tree[k].agent_path # RootPath
                THEN Goto(c, "fetch_sub") /\ UNCHANGED call
                ELSE Return(c)
    BY <1>19 DEF ReleaseSpawnedThread
  <2>2. k \in Keys /\ (Counted(agent_tree[k]) <=> agent_tree[k].agent_path # RootPath)
    BY <1>19 DEF ReleaseSpawnedThread, KeysOf, Registered, LocalsOK, Counted, AgentIds
  <2>3. ~Counted(None)
    BY DEF Counted
  <2>4. Cardinality(CountedKeys') =
          Cardinality(CountedKeys) - (IF Counted(agent_tree[k]) THEN 1 ELSE 0)
    <3>1. Cardinality(CountedKeys') = Cardinality(CountedKeys)
            + (IF Counted(None) THEN 1 ELSE 0) - (IF Counted(agent_tree[k]) THEN 1 ELSE 0)
      BY <2>1, <2>2, CountedCount
    <3> QED BY <3>1, <2>3
  <2>5. pc[c] \notin HoldPcs /\ "fetch_sub" \in HoldPcs /\ "idle" \notin HoldPcs
        /\ {"idle", "fetch_sub"} \subseteq Pcs
    BY <1>19 DEF ReleaseSpawnedThread, HoldPcs, ReservationPcs, Pcs
  <2>6. Cardinality(HoldingCalls') =
          Cardinality(HoldingCalls) + (IF Counted(agent_tree[k]) THEN 1 ELSE 0)
    BY <2>1, <2>2, <2>5, HoldingCount DEF Return
  <2> QED BY <1>19, <1>types, <1>count, <2>4, <2>6 DEF ReleaseSpawnedThread, SlotAccounting
<1>20. CASE ReleaseUnknownThread(c)
  <2>1. Goto(c, "idle") /\ UNCHANGED <<agent_tree, total_count, overwritten>>
    BY <1>20 DEF ReleaseUnknownThread, Return, registryVars
  <2>2. "idle" \in Pcs /\ (pc[c] \in HoldPcs <=> "idle" \in HoldPcs)
    BY <1>20 DEF ReleaseUnknownThread, Return, Pcs, HoldPcs, ReservationPcs
  <2> QED BY <1>quiet, <2>1, <2>2
<1>21. CASE FetchSub(c)
  <2>1. CountedKeys' = CountedKeys
    BY <1>21, CountedSame DEF FetchSub
  <2>2. "idle" \in Pcs /\ "idle" \notin HoldPcs /\ pc[c] \in HoldPcs
    BY <1>21 DEF FetchSub, HoldPcs, ReservationPcs, Pcs
  <2>3. Cardinality(HoldingCalls') = Cardinality(HoldingCalls) - 1
    BY <1>21, <2>2, HoldingCount DEF FetchSub, Return
  <2> QED BY <1>21, <1>types, <1>count, <2>1, <2>3 DEF FetchSub, SlotAccounting
<1> QED BY <1>1, <1>2, <1>3, <1>4, <1>5, <1>6, <1>7, <1>8, <1>9, <1>10, <1>11, <1>12, <1>13, <1>14, <1>15, <1>16, <1>17, <1>18, <1>19, <1>20, <1>21 DEF Step

-----------------------------------------------------------------------------
(***************************************************************************)
(* Reserved paths.                                                         *)
(***************************************************************************)

\* Every step of a call keeps PlaceholdersHeld.
LEMMA PlaceStep ==
    ASSUME TypeOK, LocalsOK, PlaceholdersHeld, NEW c \in Calls, Step(c)
    PROVE  PlaceholdersHeld'
<1> USE ConstantsDistinct
<1> DEFINE Reserves(d) == call[d].reserved_agent_path
\* Steps after which every call holds the paths it held, and the entries of the
\* paths are as they were.
<1>quiet. ASSUME \A p \in Paths : agent_tree'[p] = agent_tree[p],
                 \A p \in Paths : PathHolders(p)' = PathHolders(p)
          PROVE  PlaceholdersHeld'
  BY <1>quiet DEF PlaceholdersHeld
<1>1. CASE SpawnAgent(c)
  <2>1. \A p \in Paths : agent_tree'[p] = agent_tree[p]
    BY <1>1 DEF SpawnAgent, registryVars, TypeOK
  <2>2. \A p \in Paths : PathHolders(p)' = PathHolders(p)
    BY <1>1 DEF SpawnAgent, Begin, Blank, LocalsOK, PathHolders, TypeOK, Locals
  <2> QED BY <1>quiet, <2>1, <2>2
<1>2. CASE SpawnJobWorker(c)
  <2>1. \A p \in Paths : agent_tree'[p] = agent_tree[p]
    BY <1>2 DEF SpawnJobWorker, registryVars, TypeOK
  <2>2. \A p \in Paths : PathHolders(p)' = PathHolders(p)
    BY <1>2 DEF SpawnJobWorker, Begin, Blank, LocalsOK, PathHolders, TypeOK, Locals
  <2> QED BY <1>quiet, <2>1, <2>2
<1>3. CASE ResumeAgent(c)
  <2>1. \A p \in Paths : agent_tree'[p] = agent_tree[p]
    BY <1>3 DEF ResumeAgent, registryVars, TypeOK
  <2>2. \A p \in Paths : PathHolders(p)' = PathHolders(p)
    BY <1>3 DEF ResumeAgent, Begin, Blank, LocalsOK, PathHolders, TypeOK, Locals
  <2> QED BY <1>quiet, <2>1, <2>2
<1>4. CASE ReserveSpawnSlot(c)
  <2>1. \A p \in Paths : agent_tree'[p] = agent_tree[p]
    BY <1>4 DEF ReserveSpawnSlot, registryVars, TypeOK
  <2>2. \A p \in Paths : PathHolders(p)' = PathHolders(p)
    BY <1>4 DEF ReserveSpawnSlot, Return, Blank, LocalsOK, PathHolders, TypeOK, Locals
  <2> QED BY <1>quiet, <2>1, <2>2
<1>5. CASE RegisterRoot(c)
  <2>1. \A p \in Paths : agent_tree'[p] = agent_tree[p]
    BY <1>5 DEF RegisterRoot, registryVars, TypeOK, Keys
  <2>2. \A p \in Paths : PathHolders(p)' = PathHolders(p)
    BY <1>5 DEF RegisterRoot, PathHolders, TypeOK, Locals
  <2> QED BY <1>quiet, <2>1, <2>2
<1>6. CASE ReserveAgentPath(c)
  <2>1. PICK p \in Paths \cup {None} : p = call[c].agent_path /\ ~call[c].reserved_agent_path
    BY <1>6 DEF ReserveAgentPath, LocalsOK, TypeOK, Locals
  <2>2. CASE p = None \/ Registered(p)
    <3>1. agent_tree' = agent_tree /\ call' = call
      BY <1>6, <2>1, <2>2 DEF ReserveAgentPath
    <3> QED BY <1>quiet, <3>1 DEF PathHolders
  <2>3. CASE p # None /\ ~Registered(p)
    <3>1. /\ agent_tree' = [agent_tree EXCEPT ![p] =
                 [agent_id |-> None, agent_path |-> p, agent_nickname |-> None]]
          /\ call' = [call EXCEPT ![c].reserved_agent_path = TRUE]
      BY <1>6, <2>1, <2>3 DEF ReserveAgentPath
    <3>2. p \in Paths /\ p \in Keys
      BY <2>1, <2>3 DEF Keys
    <3>3. [agent_id |-> None, agent_path |-> p, agent_nickname |-> None] # None
      BY <3>2, NoneIsNoEntry DEF AgentMetadata
    <3>4. Placeholder(agent_tree'[p])
      BY <3>1, <3>2, <3>3 DEF Placeholder, TypeOK
    <3>5. \A q \in Paths : q # p => agent_tree'[q] = agent_tree[q] /\ PathHolders(q)' = PathHolders(q)
      BY <2>1, <3>1 DEF TypeOK, PathHolders, Locals
    <3>6. PathHolders(p) = {}
      BY <2>3, <3>2 DEF PlaceholdersHeld, Placeholder, Registered
    <3>7. PathHolders(p)' = {c}
      BY <2>1, <3>1, <3>6 DEF PathHolders, TypeOK, Locals
    <3> QED BY <3>2, <3>4, <3>5, <3>7 DEF PlaceholdersHeld
  <2> QED BY <2>2, <2>3
<1>7. CASE PreferredNickname(c)
  <2>1. \A p \in Paths : agent_tree'[p] = agent_tree[p]
    BY <1>7 DEF PreferredNickname, registryVars, TypeOK
  <2>2. \A p \in Paths : PathHolders(p)' = PathHolders(p)
    BY <1>7 DEF PreferredNickname, TakeNickname, PathHolders, TypeOK, Locals
  <2> QED BY <1>quiet, <2>1, <2>2
<1>8. CASE PooledNickname(c)
  <2>1. \A p \in Paths : agent_tree'[p] = agent_tree[p]
    BY <1>8 DEF PooledNickname, registryVars, TypeOK
  <2>2. \A p \in Paths : PathHolders(p)' = PathHolders(p)
    BY <1>8 DEF PooledNickname, TakeNickname, PathHolders, TypeOK, Locals
  <2> QED BY <1>quiet, <2>1, <2>2
<1>9. CASE ResetNicknamePool(c)
  <2>1. \A p \in Paths : agent_tree'[p] = agent_tree[p]
    BY <1>9 DEF ResetNicknamePool, registryVars, TypeOK
  <2>2. \A p \in Paths : PathHolders(p)' = PathHolders(p)
    BY <1>9 DEF ResetNicknamePool, TakeNickname, PathHolders, TypeOK, Locals
  <2> QED BY <1>quiet, <2>1, <2>2
<1>10. CASE CreateThread(c)
  <2>1. \A p \in Paths : agent_tree'[p] = agent_tree[p]
    BY <1>10 DEF CreateThread, registryVars, TypeOK
  <2>2. \A p \in Paths : PathHolders(p)' = PathHolders(p)
    BY <1>10 DEF CreateThread, PathHolders, TypeOK, Locals
  <2> QED BY <1>quiet, <2>1, <2>2
<1>11. CASE AbandonSpawn(c)
  <2>1. \A p \in Paths : agent_tree'[p] = agent_tree[p]
    BY <1>11 DEF AbandonSpawn, registryVars, TypeOK
  <2>2. \A p \in Paths : PathHolders(p)' = PathHolders(p)
    BY <1>11 DEF AbandonSpawn, PathHolders, TypeOK, Locals
  <2> QED BY <1>quiet, <2>1, <2>2
<1>12. CASE Commit(c)
  <2> DEFINE l == call[c]
             key == IF l.agent_path = None THEN l.thread_id ELSE l.agent_path
             entry == [agent_id |-> l.thread_id, agent_path |-> l.agent_path,
                       agent_nickname |-> l.agent_nickname]
  <2>1. agent_tree' = [agent_tree EXCEPT ![key] = entry]
    BY <1>12 DEF Commit
  <2>2. \/ call' = [call EXCEPT ![c] = Blank]
        \/ call' = [call EXCEPT ![c].reserved_agent_path = FALSE]
    BY <1>12 DEF Commit, Return
  <2>3. l.thread_id \in ThreadIds /\ l.agent_path \in Paths \cup {None}
        /\ (l.agent_path \in Paths <=> l.reserved_agent_path)
    BY <1>12 DEF Commit, LocalsOK, TypeOK, Locals
  <2>4. \A d \in Calls : call'[d].reserved_agent_path <=> (d # c /\ Reserves(d))
    BY <2>2 DEF TypeOK, Locals, Blank
  <2>5. \A d \in Calls : d # c => call'[d] = call[d]
    BY <2>2 DEF TypeOK
  <2>6. \A p \in Paths : PathHolders(p)' = PathHolders(p) \ {c}
    BY <2>4, <2>5 DEF PathHolders
  <2>7. ~Placeholder(entry)
    BY <2>3 DEF Placeholder
  <2>8. \A p \in Paths : p # l.agent_path => agent_tree'[p] = agent_tree[p] /\ c \notin PathHolders(p)
    BY <2>1, <2>3 DEF TypeOK, PathHolders
  <2>9. l.agent_path \in Paths => agent_tree'[l.agent_path] = entry /\ PathHolders(l.agent_path) = {c}
    <3>1. l.agent_path \in Paths => c \in PathHolders(l.agent_path)
      BY <2>3 DEF PathHolders
    <3> QED BY <2>1, <2>3, <3>1 DEF TypeOK, PlaceholdersHeld, Keys
  <2> HIDE DEF l, key, entry
  <2> QED BY <2>6, <2>7, <2>8, <2>9 DEF PlaceholdersHeld
<1>13. CASE SendInput(c)
  <2>1. \A p \in Paths : agent_tree'[p] = agent_tree[p]
    BY <1>13 DEF SendInput, registryVars, TypeOK
  <2>2. \A p \in Paths : PathHolders(p)' = PathHolders(p)
    BY <1>13 DEF SendInput, Return, Blank, LocalsOK, PathHolders, TypeOK, Locals
  <2> QED BY <1>quiet, <2>1, <2>2
<1>14. CASE AgentDied(c)
  <2>1. \A p \in Paths : agent_tree'[p] = agent_tree[p]
    BY <1>14 DEF AgentDied, registryVars, TypeOK
  <2>2. \A p \in Paths : PathHolders(p)' = PathHolders(p)
    BY <1>14 DEF AgentDied, PathHolders, TypeOK, Locals
  <2> QED BY <1>quiet, <2>1, <2>2
<1>15. CASE DropReservation(c)
  <2> DEFINE p == call[c].agent_path
  <2>1. call' = [call EXCEPT ![c].reserved_agent_path = FALSE]
    BY <1>15 DEF DropReservation
  <2>2. \A q \in Paths : PathHolders(q)' = PathHolders(q) \ {c}
    BY <2>1 DEF PathHolders, TypeOK, Locals
  <2>3. CASE Reserves(c)
    <3>1. p \in Paths /\ c \in PathHolders(p)
      BY <2>3 DEF LocalsOK, PathHolders
    <3>2. PathHolders(p) = {c} /\ Placeholder(agent_tree[p])
      BY <3>1 DEF PlaceholdersHeld
    <3>3. agent_tree' = [agent_tree EXCEPT ![p] = None]
      BY <1>15, <2>3, <3>2 DEF DropReservation, Registered, Placeholder
    <3>4. ~Placeholder(agent_tree'[p])
      BY <3>1, <3>3 DEF TypeOK, Placeholder, Keys
    <3>5. \A q \in Paths : q # p => agent_tree'[q] = agent_tree[q] /\ c \notin PathHolders(q)
      BY <3>3 DEF TypeOK, PathHolders
    <3> HIDE DEF p
    <3> QED BY <2>2, <3>2, <3>4, <3>5 DEF PlaceholdersHeld
  <2>4. CASE ~Reserves(c)
    <3>1. agent_tree' = agent_tree
      BY <1>15, <2>4 DEF DropReservation
    <3>2. \A q \in Paths : c \notin PathHolders(q)
      BY <2>4 DEF PathHolders
    <3> QED BY <1>quiet, <2>2, <3>1, <3>2
  <2> QED BY <2>3, <2>4
<1>16. CASE ShutdownLiveAgent(c)
  <2>1. \A p \in Paths : agent_tree'[p] = agent_tree[p]
    BY <1>16 DEF ShutdownLiveAgent, registryVars, TypeOK
  <2>2. \A p \in Paths : PathHolders(p)' = PathHolders(p)
    BY <1>16 DEF ShutdownLiveAgent, Begin, Blank, LocalsOK, PathHolders, TypeOK, Locals
  <2> QED BY <1>quiet, <2>1, <2>2
<1>17. CASE AbandonShutdown(c)
  <2>1. \A p \in Paths : agent_tree'[p] = agent_tree[p]
    BY <1>17 DEF AbandonShutdown, registryVars, TypeOK
  <2>2. \A p \in Paths : PathHolders(p)' = PathHolders(p)
    BY <1>17 DEF AbandonShutdown, Return, Blank, LocalsOK, PathHolders, TypeOK, Locals
  <2> QED BY <1>quiet, <2>1, <2>2
<1>18. CASE RemoveThread(c)
  <2>1. \A p \in Paths : agent_tree'[p] = agent_tree[p]
    BY <1>18 DEF RemoveThread, registryVars, TypeOK
  <2>2. \A p \in Paths : PathHolders(p)' = PathHolders(p)
    BY <1>18 DEF RemoveThread, PathHolders, TypeOK, Locals
  <2> QED BY <1>quiet, <2>1, <2>2
<1>19. CASE ReleaseSpawnedThread(c)
  <2>1. PICK k \in KeysOf(call[c].thread_id) :
           /\ agent_tree' = [agent_tree EXCEPT ![k] = None]
           /\ call' = call \/ call' = [call EXCEPT ![c] = Blank]
    BY <1>19 DEF ReleaseSpawnedThread, Return
  <2>2. k \in Keys /\ ~Placeholder(agent_tree[k])
    BY <1>19 DEF ReleaseSpawnedThread, KeysOf, Registered, LocalsOK, Placeholder, AgentIds
  <2>3. ~Reserves(c)
    BY <1>19 DEF ReleaseSpawnedThread, LocalsOK
  <2>4. \A p \in Paths : PathHolders(p)' = PathHolders(p)
    BY <2>1, <2>3 DEF PathHolders, TypeOK, Blank
  <2>5. \A p \in Paths : Placeholder(agent_tree'[p]) <=> Placeholder(agent_tree[p])
    BY <2>1, <2>2 DEF TypeOK, Placeholder, Keys
  <2> QED BY <2>4, <2>5 DEF PlaceholdersHeld
<1>20. CASE ReleaseUnknownThread(c)
  <2>1. \A p \in Paths : agent_tree'[p] = agent_tree[p]
    BY <1>20 DEF ReleaseUnknownThread, registryVars, TypeOK
  <2>2. \A p \in Paths : PathHolders(p)' = PathHolders(p)
    BY <1>20 DEF ReleaseUnknownThread, Return, Blank, LocalsOK, PathHolders, TypeOK, Locals
  <2> QED BY <1>quiet, <2>1, <2>2
<1>21. CASE FetchSub(c)
  <2>1. \A p \in Paths : agent_tree'[p] = agent_tree[p]
    BY <1>21 DEF FetchSub, registryVars, TypeOK
  <2>2. \A p \in Paths : PathHolders(p)' = PathHolders(p)
    BY <1>21 DEF FetchSub, Return, Blank, LocalsOK, PathHolders, TypeOK, Locals
  <2> QED BY <1>quiet, <2>1, <2>2
<1> QED BY <1>1, <1>2, <1>3, <1>4, <1>5, <1>6, <1>7, <1>8, <1>9, <1>10, <1>11, <1>12, <1>13, <1>14, <1>15, <1>16, <1>17, <1>18, <1>19, <1>20, <1>21 DEF Step

\* The counter never exceeds the limit: only reserve_spawn_slot increments it.
LEMMA LimitStep ==
    ASSUME TypeOK, CountWithinLimit, NEW c \in Calls, Step(c)
    PROVE  CountWithinLimit'
<1>1. \/ total_count' = total_count
      \/ total_count' = total_count - 1
      \/ HasRoom /\ total_count' = total_count + 1
  BY DEF Step, SpawnAgent, SpawnJobWorker, ResumeAgent, ReserveSpawnSlot, RegisterRoot,
         ReserveAgentPath, PreferredNickname, PooledNickname, ResetNicknamePool, CreateThread,
         AbandonSpawn, Commit, SendInput, AgentDied, DropReservation, ShutdownLiveAgent,
         AbandonShutdown, RemoveThread, ReleaseSpawnedThread, ReleaseUnknownThread, FetchSub,
         registryVars
<1> QED BY <1>1, MaxThreadsType DEF CountWithinLimit, HasRoom, TypeOK

-----------------------------------------------------------------------------
(***************************************************************************)
(* Nicknames.  A nickname is borne by a thread of this process (its entry, *)
(* its row in the database, a call that resumes it or has created it) or   *)
(* by a call that will create one.  No two bear the same, because the pool *)
(* gives out only what nobody bears: what is borne is from an earlier      *)
(* round, or still marked as used in this one.                             *)
(***************************************************************************)
Excluded == IF multi_agent_v2 THEN {} ELSE Recorded
Owner(c) == IF call[c].thread_id = None THEN <<"call", c>> ELSE <<"thread", call[c].thread_id>>
Owners == ({"call"} \X Calls) \cup ({"thread"} \X AgentIds)

RowBears(n, o) == \E t \in ThreadIds \ Recorded : db_nickname[t] = n /\ o = <<"thread", t>>
CallBears(n, o) == \E c \in Calls : call[c].agent_nickname = n /\ o = Owner(c)
EntryBears(n, o) ==
    \E k \in CountedKeys :
        agent_tree[k].agent_nickname = n /\ o = <<"thread", agent_tree[k].agent_id>>
Bears(n, o) ==
    /\ n # None
    /\ RowBears(n, o) \/ CallBears(n, o) \/ EntryBears(n, o)
    /\ \A t \in Excluded : o # <<"thread", t>>

OneBearer == \A n \in Nicknames : \A o, q \in Owners : Bears(n, o) /\ Bears(n, q) => o = q
Spent ==
    \A n \in Nicknames : \A o \in Owners : Bears(n, o) =>
        n[2] < nickname_reset_count \/ (n[2] = nickname_reset_count /\ n \in used_agent_nicknames)

\* A call that has not created its thread has none, unless it resumes one; there is
\* no resume with task names.
PreCreatePcs == {"slot", "reserved", "path", "nickname", "create"}
CreatesOK ==
    \A c \in Calls :
        /\ call[c].kind = "resume" => ~multi_agent_v2
        /\ pc[c] \in PreCreatePcs => call[c].kind = "resume" \/ call[c].thread_id = None

NicknameInv == OneBearer /\ Spent /\ CreatesOK

\* The locals a call begins with.
LEMMA SpawnLocals ==
    ASSUME NEW c
    PROVE  /\ SpawnAgent(c) \/ SpawnJobWorker(c) =>
                \E l : /\ Begin(c, "slot", l) /\ UNCHANGED multi_agent_v2
                      /\ l.kind # "resume" /\ l.thread_id = None /\ l.agent_nickname = None
           /\ ResumeAgent(c) => \E l : Begin(c, "slot", l) /\ l.agent_nickname = None
           /\ ShutdownLiveAgent(c) =>
                \E l : /\ Begin(c, "remove", l) /\ UNCHANGED multi_agent_v2
                      /\ l.kind = "close" /\ l.agent_nickname = None
<1>1. ASSUME SpawnAgent(c)
      PROVE  \E l : /\ Begin(c, "slot", l) /\ UNCHANGED multi_agent_v2
                   /\ l.kind # "resume" /\ l.thread_id = None /\ l.agent_nickname = None
  <2>1. PICK p : Begin(c, "slot", [Blank EXCEPT !.kind = "spawn", !.agent_path = p])
    BY <1>1 DEF SpawnAgent
  <2> WITNESS [Blank EXCEPT !.kind = "spawn", !.agent_path = p]
  <2> QED BY <1>1, <2>1 DEF SpawnAgent, managerVars, Blank
<1>2. ASSUME SpawnJobWorker(c)
      PROVE  \E l : /\ Begin(c, "slot", l) /\ UNCHANGED multi_agent_v2
                   /\ l.kind # "resume" /\ l.thread_id = None /\ l.agent_nickname = None
  <2> WITNESS [Blank EXCEPT !.kind = "job"]
  <2> QED BY <1>2 DEF SpawnJobWorker, managerVars, Blank
<1>3. ASSUME ResumeAgent(c)
      PROVE  \E l : Begin(c, "slot", l) /\ l.agent_nickname = None
  <2>1. PICK t : Begin(c, "slot", [Blank EXCEPT !.kind = "resume", !.thread_id = t])
    BY <1>3 DEF ResumeAgent
  <2> WITNESS [Blank EXCEPT !.kind = "resume", !.thread_id = t]
  <2> QED BY <2>1 DEF Blank
<1>4. ASSUME ShutdownLiveAgent(c)
      PROVE  \E l : /\ Begin(c, "remove", l) /\ UNCHANGED multi_agent_v2
                   /\ l.kind = "close" /\ l.agent_nickname = None
  <2>1. PICK t : Begin(c, "remove", [Blank EXCEPT !.kind = "close", !.thread_id = t])
    BY <1>4 DEF ShutdownLiveAgent
  <2> WITNESS [Blank EXCEPT !.kind = "close", !.thread_id = t]
  <2> QED BY <1>4, <2>1 DEF ShutdownLiveAgent, managerVars, Blank
<1> QED BY <1>1, <1>2, <1>3, <1>4

\* Every step of a call keeps CreatesOK.
LEMMA CreatesStep ==
    ASSUME TypeOK, CreatesOK, NEW c \in Calls, Step(c)
    PROVE  CreatesOK'
<1> USE ConstantsDistinct
<1> USE DEF TypeOK, CreatesOK, PreCreatePcs, registryVars, managerVars, Goto, Return, Begin, Blank,
            Locals, Pcs
<1>1. CASE SpawnAgent(c) \/ SpawnJobWorker(c)
  <2>1. PICK l : /\ Begin(c, "slot", l) /\ UNCHANGED multi_agent_v2
                 /\ l.kind # "resume" /\ l.thread_id = None
    BY <1>1, SpawnLocals
  <2> QED BY <2>1
<1>2. CASE ResumeAgent(c)
  BY <1>2 DEF ResumeAgent
<1>3. CASE ReserveSpawnSlot(c) \/ RegisterRoot(c)
  BY <1>3 DEF ReserveSpawnSlot, RegisterRoot
<1>4. CASE ReserveAgentPath(c)
  BY <1>4 DEF ReserveAgentPath
<1>5. CASE PreferredNickname(c) \/ PooledNickname(c)
  BY <1>5 DEF PreferredNickname, PooledNickname, TakeNickname
<1>6. CASE ResetNicknamePool(c)
  BY <1>6 DEF ResetNicknamePool, TakeNickname
<1>7. CASE CreateThread(c)
  BY <1>7 DEF CreateThread, CreatePc
<1>8. CASE Commit(c)
  BY <1>8 DEF Commit
<1>9. CASE AbandonSpawn(c) \/ SendInput(c) \/ AgentDied(c) \/ DropReservation(c)
  BY <1>9 DEF AbandonSpawn, SendInput, AgentDied, DropReservation
<1>10. CASE ShutdownLiveAgent(c) \/ AbandonShutdown(c) \/ RemoveThread(c)
  <2>1. CASE ShutdownLiveAgent(c)
    <3>1. PICK l : Begin(c, "remove", l) /\ UNCHANGED multi_agent_v2 /\ l.kind = "close"
      BY <2>1, SpawnLocals
    <3> QED BY <3>1
  <2>2. CASE AbandonShutdown(c) \/ RemoveThread(c)
    BY <2>2 DEF AbandonShutdown, RemoveThread
  <2> QED BY <1>10, <2>1, <2>2
<1>11. CASE ReleaseSpawnedThread(c) \/ ReleaseUnknownThread(c) \/ FetchSub(c)
  BY <1>11 DEF ReleaseSpawnedThread, ReleaseUnknownThread, FetchSub
<1> QED BY <1>1, <1>2, <1>3, <1>4, <1>5, <1>6, <1>7, <1>8, <1>9, <1>10, <1>11 DEF Step

\* When nobody new bears a nickname, both parts stay.
LEMMA NobodyNew ==
    ASSUME OneBearer, Spent, \A n \in Nicknames : \A o \in Owners : Bears(n, o)' => Bears(n, o),
           UNCHANGED nickname_reset_count, used_agent_nicknames \subseteq used_agent_nicknames'
    PROVE  OneBearer' /\ Spent'
<1>1. OneBearer'
  BY DEF OneBearer, Owners
<1>2. Spent'
  BY DEF Spent, Owners
<1> QED BY <1>1, <1>2

\* Calls drop nicknames or keep them, entries go or are no agents': nobody new.
LEMMA Shrinks ==
    ASSUME TypeOK, UNCHANGED <<db_nickname, multi_agent_v2>>,
           \A c \in Calls : call'[c].agent_nickname # None =>
               /\ call'[c].agent_nickname = call[c].agent_nickname
               /\ call'[c].thread_id = call[c].thread_id,
           \A k \in Keys : Counted(agent_tree'[k]) => agent_tree'[k] = agent_tree[k]
    PROVE  \A n \in Nicknames : \A o \in Owners : Bears(n, o)' => Bears(n, o)
<1> SUFFICES ASSUME NEW n \in Nicknames, NEW o \in Owners, Bears(n, o)'
             PROVE  Bears(n, o)
  OBVIOUS
<1>1. n # None /\ \A t \in Excluded : o # <<"thread", t>>
  BY DEF Bears, Excluded
<1>2. RowBears(n, o)' => RowBears(n, o)
  BY DEF RowBears
<1>3. CallBears(n, o)' => CallBears(n, o)
  BY <1>1 DEF CallBears, Owner
<1>4. EntryBears(n, o)' => EntryBears(n, o)
  BY DEF EntryBears, CountedKeys
<1> QED BY <1>1, <1>2, <1>3, <1>4 DEF Bears

\* The steps that give nobody a nickname.
LEMMA QuietSteps ==
    ASSUME TypeOK, OneBearer, Spent, NEW c \in Calls, Step(c),
           ~PreferredNickname(c), ~PooledNickname(c), ~ResetNicknamePool(c), ~CreateThread(c),
           ~Commit(c)
    PROVE  OneBearer' /\ Spent'
<1>1. UNCHANGED <<db_nickname, multi_agent_v2, nickname_reset_count, used_agent_nicknames>>
  BY DEF Step, SpawnAgent, SpawnJobWorker, ResumeAgent, ReserveSpawnSlot, RegisterRoot,
         ReserveAgentPath, AbandonSpawn, SendInput, AgentDied, DropReservation, ShutdownLiveAgent,
         AbandonShutdown, RemoveThread, ReleaseSpawnedThread, ReleaseUnknownThread, FetchSub,
         registryVars, managerVars
<1>2. \A d \in Calls : call'[d].agent_nickname # None =>
          /\ call'[d].agent_nickname = call[d].agent_nickname
          /\ call'[d].thread_id = call[d].thread_id
  <2> USE DEF TypeOK, Return, Begin, Blank, Locals
  <2>1. CASE SpawnAgent(c) \/ SpawnJobWorker(c) \/ ResumeAgent(c) \/ ShutdownLiveAgent(c)
    <3>1. PICK l, label : Begin(c, label, l) /\ l.agent_nickname = None
      BY <2>1, SpawnLocals
    <3> QED BY <3>1
  <2>2. CASE ReserveSpawnSlot(c) \/ RegisterRoot(c) \/ ReserveAgentPath(c)
    BY <2>2 DEF ReserveSpawnSlot, RegisterRoot, ReserveAgentPath
  <2>3. CASE AbandonSpawn(c) \/ SendInput(c) \/ AgentDied(c) \/ DropReservation(c)
    BY <2>3 DEF AbandonSpawn, SendInput, AgentDied, DropReservation
  <2>4. CASE AbandonShutdown(c) \/ RemoveThread(c) \/ ReleaseSpawnedThread(c)
             \/ ReleaseUnknownThread(c) \/ FetchSub(c)
    BY <2>4 DEF AbandonShutdown, RemoveThread, ReleaseSpawnedThread, ReleaseUnknownThread, FetchSub
  <2> QED BY <2>1, <2>2, <2>3, <2>4 DEF Step
<1>3. \A k \in Keys : Counted(agent_tree'[k]) => agent_tree'[k] = agent_tree[k]
  <2>1. CASE UNCHANGED agent_tree
    BY <2>1
  <2>2. CASE RegisterRoot(c)
    BY <2>2 DEF RegisterRoot, TypeOK, Counted
  <2>3. CASE ReserveAgentPath(c)
    BY <2>3 DEF ReserveAgentPath, TypeOK, Counted
  <2>4. CASE DropReservation(c)
    BY <2>4 DEF DropReservation, TypeOK, Counted
  <2>5. CASE ReleaseSpawnedThread(c)
    BY <2>5 DEF ReleaseSpawnedThread, TypeOK, Counted
  <2> QED BY <2>1, <2>2, <2>3, <2>4, <2>5
          DEF Step, SpawnAgent, SpawnJobWorker, ResumeAgent, ReserveSpawnSlot, AbandonSpawn, SendInput,
              AgentDied, ShutdownLiveAgent, AbandonShutdown, RemoveThread, ReleaseUnknownThread,
              FetchSub, registryVars
<1> QED BY <1>1, <1>2, <1>3, Shrinks, NobodyNew

\* A call that takes a nickname: nobody else changes.
LEMMA Taken ==
    ASSUME TypeOK, NEW c \in Calls, NEW m \in Nicknames, TakeNickname(c, m),
           UNCHANGED <<agent_tree, managerVars>>,
           NEW n \in Nicknames, NEW o \in Owners, Bears(n, o)'
    PROVE  /\ Bears(n, o) \/ (n = m /\ o = Owner(c))
           /\ n # None /\ \A t \in Excluded : o # <<"thread", t>>
<1>1. \A d \in Calls : /\ call'[d].thread_id = call[d].thread_id
                       /\ call'[d].agent_nickname = IF d = c THEN m ELSE call[d].agent_nickname
  BY DEF TakeNickname, TypeOK, Locals
<1>2. n # None /\ \A t \in Excluded : o # <<"thread", t>>
  BY DEF Bears, Excluded, managerVars
<1>3. RowBears(n, o)' => RowBears(n, o)
  BY DEF RowBears, managerVars
<1>4. EntryBears(n, o)' => EntryBears(n, o)
  BY DEF EntryBears, CountedKeys
<1>5. CallBears(n, o)' => CallBears(n, o) \/ (n = m /\ o = Owner(c))
  BY <1>1 DEF CallBears, Owner
<1> QED BY <1>2, <1>3, <1>4, <1>5 DEF Bears

\* The nickname of the database is borne by the thread already, or the thread is
\* an earlier process's.
LEMMA PreferredStep ==
    ASSUME TypeOK, LocalsOK, NicknameInv, NEW c \in Calls, PreferredNickname(c)
    PROVE  OneBearer' /\ Spent'
<1>1. PICK t : t = call[c].thread_id
  OBVIOUS
<1>2. PICK m : m = db_nickname[t]
  OBVIOUS
<1>3. call[c].kind = "resume" /\ t \in ThreadIds /\ ~multi_agent_v2
  BY <1>1 DEF PreferredNickname, LocalsOK, NicknameInv, CreatesOK
<1>4. /\ m # None /\ TakeNickname(c, m) /\ UNCHANGED <<agent_tree, managerVars, nickname_reset_count>>
      /\ used_agent_nicknames \subseteq used_agent_nicknames'
  BY <1>1, <1>2 DEF PreferredNickname
<1>5. m \in Nicknames
  BY <1>2, <1>3, <1>4 DEF TypeOK
<1>6. Owner(c) = <<"thread", t>>
  BY <1>1, <1>3, ConstantsDistinct DEF Owner
<1>7. ASSUME NEW n \in Nicknames, NEW o \in Owners, Bears(n, o)' PROVE Bears(n, o)
  <2>1. /\ Bears(n, o) \/ (n = m /\ o = <<"thread", t>>)
        /\ n # None /\ \A s \in Excluded : o # <<"thread", s>>
    BY <1>4, <1>5, <1>6, <1>7, Taken
  <2>2. ASSUME n = m, o = <<"thread", t>> PROVE Bears(n, o)
    <3>1. t \notin Recorded
      BY <1>3, <2>1, <2>2 DEF Excluded
    <3>2. RowBears(n, o)
      BY <1>2, <1>3, <2>2, <3>1 DEF RowBears
    <3> QED BY <2>1, <3>2 DEF Bears
  <2> QED BY <2>1, <2>2
<1> QED BY <1>4, <1>7, NobodyNew DEF NicknameInv

\* Owners are owners.
LEMMA OwnerType == ASSUME TypeOK, NEW c \in Calls PROVE Owner(c) \in Owners
<1>1. call[c].thread_id \in AgentIds \cup {None}
  BY DEF TypeOK, Locals
<1> QED BY <1>1 DEF Owner, Owners

\* A nickname that nobody bears is given to one call.
LEMMA FreshTaken ==
    ASSUME TypeOK, OneBearer, NEW c \in Calls, NEW m \in Nicknames, TakeNickname(c, m),
           UNCHANGED <<agent_tree, managerVars>>, \A o \in Owners : ~Bears(m, o)
    PROVE  OneBearer'
<1>1. \A n \in Nicknames : \A o \in Owners : Bears(n, o)' => Bears(n, o) \/ (n = m /\ o = Owner(c))
  BY Taken
<1> SUFFICES ASSUME NEW n \in Nicknames, NEW o \in Owners, NEW q \in Owners, Bears(n, o)', Bears(n, q)'
             PROVE  o = q
  BY DEF OneBearer, Owners
<1> QED BY <1>1 DEF OneBearer

\* A nickname taken from the pool is borne by nobody else, and is marked as used.
LEMMA PooledStep ==
    ASSUME TypeOK, NicknameInv, NEW c \in Calls, PooledNickname(c)
    PROVE  OneBearer' /\ Spent'
<1>1. PICK names \in RoleNames : \E m \in Available(names) :
         TakeNickname(c, m) /\ used_agent_nicknames' = used_agent_nicknames \cup {m}
  BY DEF PooledNickname
<1>2. PICK m \in Available(names) :
         TakeNickname(c, m) /\ used_agent_nicknames' = used_agent_nicknames \cup {m}
  BY <1>1
<1>3. /\ UNCHANGED <<agent_tree, managerVars>>
      /\ nickname_reset_count' = nickname_reset_count /\ nickname_reset_count \in Nat
  BY DEF PooledNickname, TypeOK
<1>4. PICK name \in names : m = <<name, nickname_reset_count>>
  BY <1>2 DEF Available
<1>5. m \in Nicknames /\ m[2] = nickname_reset_count /\ m \notin used_agent_nicknames
  BY <1>1, <1>2, <1>3, <1>4 DEF Available, Nicknames, Names
<1>6. \A o \in Owners : ~Bears(m, o)
  BY <1>3, <1>5 DEF NicknameInv, Spent
<1>7. OneBearer'
  BY <1>2, <1>3, <1>5, <1>6, FreshTaken DEF NicknameInv
<1>8. ASSUME NEW n \in Nicknames, NEW o \in Owners, Bears(n, o)'
      PROVE  n[2] < nickname_reset_count' \/ (n[2] = nickname_reset_count' /\ n \in used_agent_nicknames')
  <2>1. Bears(n, o) \/ n = m
    BY <1>2, <1>3, <1>5, <1>8, Taken
  <2> QED BY <1>2, <1>3, <1>5, <2>1 DEF NicknameInv, Spent
<1> QED BY <1>7, <1>8 DEF Spent, Owners

\* The pool forgets, but the next round has a number of its own.
LEMMA ResetStep ==
    ASSUME TypeOK, NicknameInv, NEW c \in Calls, ResetNicknamePool(c)
    PROVE  OneBearer' /\ Spent'
<1>1. PICK names \in RoleNames : \E name \in names :
         /\ TakeNickname(c, <<name, nickname_reset_count + 1>>)
         /\ used_agent_nicknames' = {<<name, nickname_reset_count + 1>>}
  BY DEF ResetNicknamePool
<1>2. PICK name \in names :
         /\ TakeNickname(c, <<name, nickname_reset_count + 1>>)
         /\ used_agent_nicknames' = {<<name, nickname_reset_count + 1>>}
  BY <1>1
<1>3. PICK m : m = <<name, nickname_reset_count + 1>>
  OBVIOUS
<1>4. /\ UNCHANGED <<agent_tree, managerVars>>
      /\ nickname_reset_count' = nickname_reset_count + 1 /\ nickname_reset_count \in Nat
  BY DEF ResetNicknamePool, TypeOK
<1>5. m \in Nicknames /\ m[2] = nickname_reset_count + 1
  BY <1>1, <1>2, <1>3, <1>4 DEF Nicknames, Names
<1>6. \A n \in Nicknames : n[2] \in Nat
  BY DEF Nicknames
<1>7. \A o \in Owners : ~Bears(m, o)
  BY <1>4, <1>5 DEF NicknameInv, Spent
<1>8. OneBearer'
  BY <1>2, <1>3, <1>4, <1>5, <1>7, FreshTaken DEF NicknameInv
<1>9. ASSUME NEW n \in Nicknames, NEW o \in Owners, Bears(n, o)'
      PROVE  n[2] < nickname_reset_count' \/ (n[2] = nickname_reset_count' /\ n \in used_agent_nicknames')
  <2>1. Bears(n, o) \/ n = m
    BY <1>2, <1>3, <1>4, <1>5, <1>9, Taken
  <2>2. CASE n = m
    BY <1>2, <1>3, <1>4, <1>5, <2>2
  <2>3. CASE Bears(n, o)
    <3>1. n[2] < nickname_reset_count \/ n[2] = nickname_reset_count
      BY <2>3 DEF NicknameInv, Spent
    <3> QED BY <1>4, <1>6, <3>1
  <2> QED BY <2>1, <2>2, <2>3
<1> QED BY <1>8, <1>9 DEF Spent, Owners

\* The entry has the nickname of the call that commits, and its thread.
LEMMA CommitStep ==
    ASSUME TypeOK, LocalsOK, NicknameInv, NEW c \in Calls, Commit(c)
    PROVE  OneBearer' /\ Spent'
<1>1. PICK l : l = call[c]
  OBVIOUS
<1>2. PICK key : key = IF l.agent_path = None THEN l.thread_id ELSE l.agent_path
  OBVIOUS
<1>3. l \in Locals /\ l.thread_id \in ThreadIds
  BY <1>1 DEF TypeOK, LocalsOK, Commit
<1>4. key \in Keys
  BY <1>2, <1>3 DEF Locals, Keys
<1>5. PICK e : e = [agent_id |-> l.thread_id, agent_path |-> l.agent_path,
                    agent_nickname |-> l.agent_nickname]
  OBVIOUS
<1>6. agent_tree' = [agent_tree EXCEPT ![key] = e]
  BY <1>1, <1>2, <1>5 DEF Commit
<1>7. UNCHANGED <<managerVars, nickname_reset_count>> /\ used_agent_nicknames \subseteq used_agent_nicknames'
  BY DEF Commit
<1>8. \A d \in Calls : call'[d].agent_nickname # None =>
          /\ call'[d].agent_nickname = call[d].agent_nickname
          /\ call'[d].thread_id = call[d].thread_id
  BY DEF Commit, Return, Blank, TypeOK, Locals
<1>9. e.agent_nickname = l.agent_nickname /\ e.agent_id = l.thread_id
  BY <1>5
<1>10. Owner(c) = <<"thread", l.thread_id>>
  BY <1>1, <1>3, ConstantsDistinct DEF Owner
<1>11. ASSUME NEW n \in Nicknames, NEW o \in Owners, Bears(n, o)' PROVE Bears(n, o)
  <2>1. n # None /\ \A t \in Excluded : o # <<"thread", t>>
    BY <1>7, <1>11 DEF Bears, Excluded, managerVars
  <2>2. RowBears(n, o)' => RowBears(n, o)
    BY <1>7 DEF RowBears, managerVars
  <2>3. CallBears(n, o)' => CallBears(n, o)
    BY <1>8, <2>1 DEF CallBears, Owner
  <2>4. ASSUME EntryBears(n, o)' PROVE EntryBears(n, o) \/ CallBears(n, o)
    <3>1. PICK k \in Keys : /\ Counted(agent_tree'[k])
                            /\ agent_tree'[k].agent_nickname = n
                            /\ o = <<"thread", agent_tree'[k].agent_id>>
      BY <2>4 DEF EntryBears, CountedKeys
    <3>2. CASE k # key
      <4>1. agent_tree'[k] = agent_tree[k]
        BY <1>6, <3>2 DEF TypeOK
      <4> QED BY <3>1, <4>1 DEF EntryBears, CountedKeys
    <3>3. CASE k = key
      <4>1. agent_tree'[k] = e
        BY <1>4, <1>6, <3>3 DEF TypeOK
      <4> QED BY <1>1, <1>9, <1>10, <3>1, <4>1 DEF CallBears
    <3> QED BY <3>2, <3>3
  <2> QED BY <1>11, <2>1, <2>2, <2>3, <2>4 DEF Bears
<1> QED BY <1>7, <1>11, NobodyNew DEF NicknameInv

\* The nickname passes from the call to the thread it creates, or stays with the
\* thread it resumes.
LEMMA CreateStep ==
    ASSUME TypeOK, LocalsOK, NicknameInv, NEW c \in Calls, CreateThread(c)
    PROVE  OneBearer' /\ Spent'
<1>1. PICK m : m = call[c].agent_nickname
  OBVIOUS
<1>2. PICK t \in IF call[c].kind = "resume" THEN {call[c].thread_id} ELSE ThreadIds \ created :
         /\ db_nickname' = IF t \in created THEN db_nickname ELSE [db_nickname EXCEPT ![t] = m]
         /\ call' = [call EXCEPT ![c].thread_id = t]
  BY <1>1 DEF CreateThread
<1>3. t \in ThreadIds /\ t # None
  BY <1>2, ConstantsDistinct DEF LocalsOK
<1>4. UNCHANGED <<agent_tree, used_agent_nicknames, nickname_reset_count, multi_agent_v2>>
  BY DEF CreateThread, registryVars
<1>5. \A d \in Calls : /\ call'[d].agent_nickname = call[d].agent_nickname
                       /\ call'[d].thread_id = IF d = c THEN t ELSE call[d].thread_id
  BY <1>2 DEF TypeOK, Locals
<1>6. \A s \in ThreadIds : db_nickname'[s] = db_nickname[s] \/ (s = t /\ db_nickname'[s] = m)
  BY <1>2 DEF TypeOK
<1>7. ASSUME NEW n \in Nicknames, NEW o \in Owners, Bears(n, o)'
      PROVE  /\ Bears(n, o) \/ (n = m /\ o = <<"thread", t>>)
             /\ n # None /\ \A s \in Excluded : o # <<"thread", s>>
  <2>1. n # None /\ \A s \in Excluded : o # <<"thread", s>>
    BY <1>4, <1>7 DEF Bears, Excluded
  <2>2. RowBears(n, o)' => RowBears(n, o) \/ (n = m /\ o = <<"thread", t>>)
    BY <1>6 DEF RowBears
  <2>3. CallBears(n, o)' => CallBears(n, o) \/ (n = m /\ o = <<"thread", t>>)
    BY <1>1, <1>3, <1>5 DEF CallBears, Owner
  <2>4. EntryBears(n, o)' => EntryBears(n, o)
    BY <1>4 DEF EntryBears, CountedKeys
  <2> QED BY <1>7, <2>1, <2>2, <2>3, <2>4 DEF Bears
<1>8. CASE call[c].kind = "resume"
  <2>1. call[c].thread_id = t
    BY <1>2, <1>8
  <2>2. Owner(c) = <<"thread", t>>
    BY <1>3, <2>1 DEF Owner
  <2>3. ASSUME NEW n \in Nicknames, NEW o \in Owners, Bears(n, o)' PROVE Bears(n, o)
    BY <1>1, <1>7, <2>2, <2>3 DEF Bears, CallBears
  <2> QED BY <1>4, <2>3, NobodyNew DEF NicknameInv
<1>9. CASE call[c].kind # "resume"
  <2>1. call[c].thread_id = None
    BY <1>9 DEF NicknameInv, CreatesOK, CreateThread, CreatePc, PreCreatePcs
  <2>2. Owner(c) = <<"call", c>> /\ <<"call", c>> \in Owners
    BY <2>1 DEF Owner, Owners
  <2>3. m \in Nicknames /\ m # None => Bears(m, <<"call", c>>)
    BY <1>1, <2>2 DEF Bears, CallBears
  <2>4. ASSUME NEW n \in Nicknames, NEW o \in Owners, Bears(n, o)' PROVE o # <<"call", c>>
    <3>1. CASE RowBears(n, o)' \/ EntryBears(n, o)'
      BY <3>1 DEF RowBears, EntryBears
    <3>2. CASE CallBears(n, o)'
      <4>1. PICK d \in Calls : o = Owner(d)'
        BY <3>2 DEF CallBears
      <4>2. CASE d = c
        BY <1>3, <1>5, <4>1, <4>2 DEF Owner
      <4>3. CASE d # c
        BY <4>1, <4>3 DEF Owner
      <4> QED BY <4>2, <4>3
    <3> QED BY <2>4, <3>1, <3>2 DEF Bears
  <2>5. ASSUME NEW n \in Nicknames, NEW o \in Owners, Bears(n, o)', n = m PROVE o = <<"thread", t>>
    BY <1>7, <2>2, <2>3, <2>4, <2>5 DEF NicknameInv, OneBearer
  <2>6. ASSUME NEW n \in Nicknames, NEW o \in Owners, NEW q \in Owners, Bears(n, o)', Bears(n, q)'
        PROVE  o = q
    BY <1>7, <2>5, <2>6 DEF NicknameInv, OneBearer
  <2>7. ASSUME NEW n \in Nicknames, NEW o \in Owners, Bears(n, o)'
        PROVE  \/ n[2] < nickname_reset_count'
               \/ n[2] = nickname_reset_count' /\ n \in used_agent_nicknames'
    <3>1. \E q \in Owners : Bears(n, q)
      BY <1>7, <2>2, <2>3, <2>7
    <3> QED BY <1>4, <3>1 DEF NicknameInv, Spent
  <2> QED BY <2>6, <2>7 DEF OneBearer, Spent, Owners
<1> QED BY <1>8, <1>9

\* Every step of a call keeps the nickname invariant.
LEMMA NicknameStep ==
    ASSUME TypeOK, LocalsOK, NicknameInv, NEW c \in Calls, Step(c)
    PROVE  NicknameInv'
<1>1. CreatesOK'
  BY CreatesStep DEF NicknameInv
<1>2. OneBearer' /\ Spent'
  BY PreferredStep, PooledStep, ResetStep, CommitStep, CreateStep, QuietSteps DEF NicknameInv
<1> QED BY <1>1, <1>2 DEF NicknameInv

\* Agents with one nickname bear it both.
LEMMA OneBearerDistinct == TypeOK /\ OneBearer => NicknamesDistinct
<1> SUFFICES ASSUME TypeOK, OneBearer, NEW j \in CountedKeys, NEW k \in CountedKeys,
                    agent_tree[j].agent_id \notin Excluded, agent_tree[k].agent_id \notin Excluded,
                    agent_tree[j].agent_nickname # None,
                    agent_tree[j].agent_nickname = agent_tree[k].agent_nickname
             PROVE  agent_tree[j].agent_id = agent_tree[k].agent_id
  BY DEF NicknamesDistinct, Excluded
<1>1. PICK n : n = agent_tree[j].agent_nickname
  OBVIOUS
<1>2. PICK a, b : a = agent_tree[j].agent_id /\ b = agent_tree[k].agent_id
  OBVIOUS
<1>3. agent_tree[j] \in AgentMetadata /\ agent_tree[k] \in AgentMetadata
  BY DEF CountedKeys, Counted, TypeOK
<1>4. n \in Nicknames /\ a \in AgentIds /\ b \in AgentIds
  BY <1>1, <1>2, <1>3 DEF AgentMetadata, CountedKeys, Counted
<1>5. <<"thread", a>> \in Owners /\ <<"thread", b>> \in Owners
  BY <1>4 DEF Owners
<1>6. Bears(n, <<"thread", a>>) /\ Bears(n, <<"thread", b>>)
  BY <1>1, <1>2 DEF Bears, EntryBears
<1>7. <<"thread", a>> = <<"thread", b>>
  BY <1>4, <1>5, <1>6 DEF OneBearer
<1> QED BY <1>2, <1>7

-----------------------------------------------------------------------------
(***************************************************************************)
(* The inductive invariant and the theorems.                               *)
(***************************************************************************)
IndInv == /\ TypeOK
          /\ LocalsOK
          /\ SlotAccounting
          /\ CountWithinLimit
          /\ PlaceholdersHeld

\* IndInv holds of the empty registry.
LEMMA IndInvInit == Init => IndInv
<1> SUFFICES ASSUME Init PROVE IndInv
  OBVIOUS
<1> USE ConstantsDistinct DEF Init
<1>1. TypeOK
  BY DEF TypeOK, Pcs, Blank, Locals, AgentIds, Nicknames
<1>2. LocalsOK
  BY DEF LocalsOK, Blank
<1>3. CountedKeys = {} /\ HoldingCalls = {}
  BY DEF CountedKeys, HoldingCalls, Counted, ReservationPcs
<1>4. SlotAccounting
  BY <1>3, FS_EmptySet DEF SlotAccounting
<1>5. CountWithinLimit
  BY MaxThreadsType DEF CountWithinLimit
<1>6. PlaceholdersHeld
  BY DEF PlaceholdersHeld, PathHolders, Placeholder, Blank, Keys
<1> QED BY <1>1, <1>2, <1>4, <1>5, <1>6 DEF IndInv

\* Every step, and every stuttering step, keeps IndInv.
LEMMA IndInvStep == IndInv /\ [Next]_vars => IndInv'
<1> SUFFICES ASSUME IndInv, [Next]_vars PROVE IndInv'
  OBVIOUS
<1>1. ASSUME NEW c \in Calls, Step(c) PROVE IndInv'
  BY <1>1, TypeStep, LocalsStep, SlotStep, LimitStep, PlaceStep DEF IndInv
<1>2. ASSUME NEW t \in AgentIds, UnloadThread(t) PROVE IndInv'
  <2>1. TypeOK'
    BY <1>2 DEF UnloadThread, registryVars, IndInv, TypeOK
  <2> QED BY <1>2, <2>1 DEF UnloadThread, registryVars, IndInv, LocalsOK, SlotAccounting,
              CountWithinLimit, PlaceholdersHeld, CountedKeys, HoldingCalls, PathHolders
<1>3. CASE UNCHANGED vars
  BY <1>3 DEF vars, registryVars, managerVars, IndInv, TypeOK, LocalsOK, SlotAccounting,
              CountWithinLimit, PlaceholdersHeld, CountedKeys, HoldingCalls, PathHolders
<1> QED BY <1>1, <1>2, <1>3 DEF Next

\* IndInv is an invariant of the registry.
THEOREM Invariance == Spec => []IndInv
BY IndInvInit, IndInvStep, PTL DEF Spec

\* The variables keep their types; in particular the unsigned counter of
\* registry.rs never wraps below zero.
THEOREM TypeCorrect == Spec => []TypeOK
BY Invariance, PTL DEF IndInv

\* Every counted slot belongs to a registered agent, an unfinished reservation, a
\* pending fetch_sub or a replaced entry (reserve_spawn_slot, commit, drop and
\* release_spawned_thread in any interleaving).
THEOREM SlotsAccounted == Spec => []SlotAccounting
BY Invariance, PTL DEF IndInv

\* The registered agents and the spawns in progress never exceed
\* agent_max_threads.
THEOREM WithinLimit == Spec => []AgentsWithinLimit
<1>1. IndInv => AgentsWithinLimit
  BY CountedSetsFinite, MaxThreadsType
  DEF IndInv, AgentsWithinLimit, SlotAccounting, CountWithinLimit, TypeOK
<1> QED BY <1>1, Invariance, PTL

\* A placeholder path belongs to exactly one spawn in progress.
THEOREM ReservedPathsExclusive == Spec => []PlaceholdersHeld
BY Invariance, PTL DEF IndInv

\* A path that resolves to an agent is never taken over by another spawn: commit
\* writes only the placeholder it reserved.
THEOREM PathsKept == Spec => PathNeverTakenOver
<1> DEFINE Kept == \A p \in Paths :
             (Registered(p) /\ agent_tree[p].agent_id # None)
               => agent_tree'[p] \in {agent_tree[p], None}
<1>1. ASSUME IndInv, [Next]_vars PROVE [Kept]_vars
  <2>1. CASE UNCHANGED vars
    BY <2>1
  <2>2. ASSUME NEW c \in Calls, Step(c) PROVE Kept
    <3> USE ConstantsDistinct, <1>1, <2>2 DEF IndInv, TypeOK
    <3>1. CASE ReserveAgentPath(c)
      BY <3>1 DEF ReserveAgentPath, Registered, Locals, Keys
    <3>2. CASE Commit(c)
      <4>1. PICK p \in Paths \cup {None} : p = call[c].agent_path
        BY DEF Locals
      <4>2. p \in Paths => c \in PathHolders(p)
        BY <3>2, <4>1 DEF Commit, LocalsOK, PathHolders
      <4>3. p \in Paths => Placeholder(agent_tree[p])
        BY <4>2 DEF PlaceholdersHeld
      <4>4. \A q \in Paths : q # p => agent_tree'[q] = agent_tree[q]
        BY <3>2, <4>1 DEF Commit, LocalsOK
      <4> QED BY <4>3, <4>4 DEF Placeholder
    <3>3. CASE DropReservation(c)
      BY <3>3 DEF DropReservation
    <3>4. CASE ReleaseSpawnedThread(c)
      BY <3>4 DEF ReleaseSpawnedThread, KeysOf
    <3>5. CASE RegisterRoot(c)
      BY <3>5 DEF RegisterRoot
    <3>6. CASE UNCHANGED agent_tree
      BY <3>6
    <3> QED BY <3>1, <3>2, <3>3, <3>4, <3>5, <3>6
            DEF Step, SpawnAgent, SpawnJobWorker, ResumeAgent, ReserveSpawnSlot,
                PreferredNickname, PooledNickname, ResetNicknamePool, CreateThread,
                AbandonSpawn, SendInput, AgentDied, ShutdownLiveAgent, AbandonShutdown,
                RemoveThread, ReleaseUnknownThread, FetchSub, registryVars
  <2>3. ASSUME NEW t \in AgentIds, UnloadThread(t) PROVE Kept
    BY <2>3 DEF UnloadThread, registryVars
  <2> QED BY <1>1, <2>1, <2>2, <2>3 DEF Next
<1> QED BY <1>1, Invariance, PTL DEF Spec, PathNeverTakenOver

\* Two agents that this process spawned never have the same nickname: the pool
\* forgets what is in use when a role exhausts it, but the next round of names has
\* a suffix that nobody bears, and a resumed agent prefers a nickname of its own.
THEOREM NicknamesUnique == Spec => []NicknamesDistinct
<1>1. Init => NicknameInv
  <2> SUFFICES ASSUME Init PROVE NicknameInv
    OBVIOUS
  <2>1. \A n, o : ~Bears(n, o)
    BY ConstantsDistinct DEF Init, Bears, RowBears, CallBears, EntryBears, CountedKeys, Counted, Blank
  <2>2. CreatesOK
    BY DEF Init, CreatesOK, Blank, PreCreatePcs
  <2> QED BY <2>1, <2>2 DEF NicknameInv, OneBearer, Spent
<1>2. IndInv /\ NicknameInv /\ [Next]_vars => NicknameInv'
  <2> SUFFICES ASSUME IndInv, NicknameInv, [Next]_vars PROVE NicknameInv'
    OBVIOUS
  <2>1. CASE UNCHANGED vars
    BY <2>1 DEF vars, registryVars, managerVars, NicknameInv, OneBearer, Spent, CreatesOK, Bears,
                RowBears, CallBears, EntryBears, Owner, CountedKeys, Excluded
  <2>2. ASSUME NEW c \in Calls, Step(c) PROVE NicknameInv'
    BY <2>2, NicknameStep DEF IndInv
  <2>3. ASSUME NEW t \in AgentIds, UnloadThread(t) PROVE NicknameInv'
    BY <2>3 DEF UnloadThread, registryVars, NicknameInv, OneBearer, Spent, CreatesOK, Bears,
                RowBears, CallBears, EntryBears, Owner, CountedKeys, Excluded
  <2> QED BY <2>1, <2>2, <2>3 DEF Next
<1>3. Spec => []NicknameInv
  BY Invariance, <1>1, <1>2, PTL DEF Spec
<1>4. IndInv /\ NicknameInv => NicknamesDistinct
  BY OneBearerDistinct DEF IndInv, NicknameInv
<1> QED BY Invariance, <1>3, <1>4, PTL
=============================================================================
