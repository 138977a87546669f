---------------------------- MODULE AgentRegistry ----------------------------
(***************************************************************************)
(* The registry of sub-agents shared by one tree of sessions               *)
(* (core/src/agent/registry.rs), driven by the tool calls that spawn,      *)
(* resume and shut down agents (core/src/agent/control.rs).                *)
(*                                                                         *)
(* `total_count` is an atomic; `agent_tree` and the nickname pool are      *)
(* behind one mutex; the thread manager's map is behind its own lock.  A   *)
(* call holds at most one of them at a time, so each action below is what  *)
(* one call does between two such accesses, and calls interleave freely.   *)
(***************************************************************************)
EXTENDS Integers, FiniteSets

CONSTANTS
    Calls,         \* tool calls that may be in flight at the same time
    ThreadIds,     \* ids of spawned agent threads
    RootThread,    \* id of the root thread of the session tree
    Paths,         \* agent paths other than the root path
    RootPath,      \* AgentPath::ROOT
    RoleNames,     \* the nickname candidates of each role that may be spawned
    MaxThreads,    \* config.agent_max_threads, None when unset
    Recorded,      \* threads an earlier process may have recorded: they can be resumed
    Cancellable,   \* kinds of call that may fail, or be cancelled, with a reservation
    MaxResets,     \* bound on nickname_reset_count
    None           \* Option::None

ASSUME CallsFinite == IsFiniteSet(Calls)
ASSUME KeysFinite == IsFiniteSet(ThreadIds) /\ IsFiniteSet(Paths)
ASSUME ConstantsDistinct ==
    /\ ThreadIds \cap Paths = {}
    /\ RootPath \notin ThreadIds \cup Paths
    /\ RootThread \notin ThreadIds
    /\ None \notin ThreadIds \cup Paths \cup {RootPath, RootThread}
    /\ Recorded \subseteq ThreadIds
ASSUME MaxThreadsType == MaxThreads \in Nat \cup {None} /\ None \notin Nat
ASSUME RoleNamesType == \A names \in RoleNames : names # {}
ASSUME MaxResetsType == MaxResets \in Nat

VARIABLES
    agent_tree,            \* key -> AgentMetadata, None where there is no entry
    total_count,           \* AtomicUsize
    used_agent_nicknames,
    nickname_reset_count,
    threads,               \* ThreadManagerState::threads, the open threads
    created,               \* threads that have a rollout on disk
    db_nickname,           \* agent_nickname the state database has for a thread
    multi_agent_v2,        \* Feature::MultiAgentV2, fixed: task names (paths), no resume tool
    pc,                    \* where each call is
    call,                  \* the call's locals, its SpawnReservation included
    overwritten            \* history: commits that replaced a registered agent

registryVars == <<agent_tree, total_count, used_agent_nicknames, nickname_reset_count>>
managerVars == <<threads, created, db_nickname, multi_agent_v2>>
vars == <<registryVars, managerVars, pc, call, overwritten>>

(***************************************************************************)
(* An entry's key is its path, or "thread:<id>" when it has none.          *)
(***************************************************************************)
Keys == {RootPath} \cup Paths \cup ThreadIds
AgentIds == ThreadIds \cup {RootThread}
Names == UNION RoleNames
Nicknames == Names \X Nat

AgentMetadata ==
    [agent_id : AgentIds \cup {None},
     agent_path : Paths \cup {RootPath, None},
     agent_nickname : Nicknames \cup {None}]

ASSUME NoneIsNoEntry == None \notin AgentMetadata

Locals ==
    [kind : {"spawn", "job", "resume", "close"},
     thread_id : AgentIds \cup {None},
     agent_path : Paths \cup {None},
     agent_nickname : Nicknames \cup {None},
     reserved_agent_path : BOOLEAN]

Blank == [kind |-> "close", thread_id |-> None, agent_path |-> None,
          agent_nickname |-> None, reserved_agent_path |-> FALSE]

Pcs == {"idle", "slot", "reserved", "path", "nickname", "create", "commit",
        "input", "drop", "remove", "release", "fetch_sub"}

(***************************************************************************)
(* The reservation is active (SpawnReservation::active) at these points.   *)
(***************************************************************************)
ReservationPcs == {"reserved", "path", "nickname", "create", "commit", "drop"}

Registered(k) == agent_tree[k] # None
\* live_agents counts these; so does total_count
Counted(entry) == /\ entry # None
                  /\ entry.agent_id # None
                  /\ entry.agent_path # RootPath

CountedKeys == {k \in Keys : Counted(agent_tree[k])}
HoldingCalls == {c \in Calls : pc[c] \in ReservationPcs \cup {"fetch_sub"}}

TypeOK ==
    /\ agent_tree \in [Keys -> AgentMetadata \cup {None}]
    /\ total_count \in Nat
    /\ used_agent_nicknames \subseteq Nicknames
    /\ nickname_reset_count \in Nat
    /\ threads \subseteq AgentIds
    /\ created \subseteq ThreadIds
    /\ db_nickname \in [ThreadIds -> Nicknames \cup {None}]
    /\ multi_agent_v2 \in BOOLEAN
    /\ pc \in [Calls -> Pcs]
    /\ call \in [Calls -> Locals]
    /\ overwritten \in Nat

Init ==
    /\ agent_tree = [k \in Keys |-> None]
    /\ total_count = 0
    /\ used_agent_nicknames = {}
    /\ nickname_reset_count = 0
    /\ threads = {RootThread}
    /\ created \in SUBSET Recorded
    /\ db_nickname \in [ThreadIds -> (Names \X (0..MaxResets)) \cup {None}]
    /\ \A t \in ThreadIds \ created : db_nickname[t] = None
    /\ multi_agent_v2 \in BOOLEAN
    /\ pc = [c \in Calls |-> "idle"]
    /\ call = [c \in Calls |-> Blank]
    /\ overwritten = 0

-----------------------------------------------------------------------------
(***************************************************************************)
(* Control flow of a call.                                                 *)
(***************************************************************************)
Goto(c, label) == pc' = [pc EXCEPT ![c] = label]
Return(c) == Goto(c, "idle") /\ call' = [call EXCEPT ![c] = Blank]
Begin(c, label, locals) ==
    /\ pc[c] = "idle"
    /\ Goto(c, label)
    /\ call' = [call EXCEPT ![c] = locals]

\* Bound: a call starts only while its own reset of the nickname pool and those
\* of the calls in flight leave nickname_reset_count within MaxResets
ResetsLeft ==
    nickname_reset_count
      + Cardinality({c \in Calls : pc[c] \in {"slot", "reserved", "path", "nickname"}}) < MaxResets

\* The spawn_agent tool; with MultiAgentV2 the child has a path
SpawnAgent(c) ==
    /\ ResetsLeft
    /\ \E p \in (IF multi_agent_v2 THEN Paths ELSE {None}) :
          Begin(c, "slot", [Blank EXCEPT !.kind = "spawn", !.agent_path = p])
    /\ UNCHANGED <<registryVars, managerVars, overwritten>>

\* A worker of an agent job: SubAgentSource::Other, no path and no nickname
SpawnJobWorker(c) ==
    /\ Begin(c, "slot", [Blank EXCEPT !.kind = "job"])
    /\ UNCHANGED <<registryVars, managerVars, overwritten>>

(***************************************************************************)
(* The resume_agent tool and the loop that resumes descendants both look   *)
(* the thread up first and resume it only when the manager has no such     *)
(* thread.  Nothing keeps that answer true until the thread is created.    *)
(***************************************************************************)
ResumeAgent(c) ==
    /\ ~multi_agent_v2
    /\ ResetsLeft
    /\ \E t \in created \ threads :
          Begin(c, "slot", [Blank EXCEPT !.kind = "resume", !.thread_id = t])
    /\ UNCHANGED <<registryVars, managerVars, overwritten>>

\* Variant with a bug: one thread too many is admitted
HasRoom_OffByOne == IF MaxThreads = None THEN TRUE ELSE total_count =< MaxThreads

\* reserve_spawn_slot: a compare-and-swap loop, atomic as a whole
HasRoom == IF MaxThreads = None THEN TRUE ELSE total_count < MaxThreads
ReserveSpawnSlot(c) ==
    /\ pc[c] = "slot"
    /\ IF HasRoom
         THEN total_count' = total_count + 1 /\ Goto(c, "reserved") /\ UNCHANGED call
         ELSE Return(c) /\ UNCHANGED total_count
    /\ UNCHANGED <<agent_tree, used_agent_nicknames, nickname_reset_count, managerVars, overwritten>>

\* prepare_thread_spawn registers the root for a child of depth 1; a job skips it
RegisterRoot(c) ==
    /\ pc[c] = "reserved"
    /\ call[c].kind # "job"
    /\ \E depthIsOne \in BOOLEAN :
          agent_tree' = IF depthIsOne /\ ~Registered(RootPath)
                          THEN [agent_tree EXCEPT ![RootPath] =
                                  [agent_id |-> RootThread, agent_path |-> RootPath,
                                   agent_nickname |-> None]]
                          ELSE agent_tree
    /\ Goto(c, "path")
    /\ UNCHANGED <<total_count, used_agent_nicknames, nickname_reset_count,
                   managerVars, call, overwritten>>

\* Variant with a bug: the path is not looked up before it is taken
ReserveAgentPath_NoCheck(c) ==
    /\ pc[c] = "path"
    /\ LET p == call[c].agent_path IN
         IF p = None
           THEN Goto(c, "nickname") /\ UNCHANGED <<agent_tree, call>>
         ELSE /\ agent_tree' = [agent_tree EXCEPT ![p] =
                   [agent_id |-> None, agent_path |-> p, agent_nickname |-> None]]
              /\ call' = [call EXCEPT ![c].reserved_agent_path = TRUE]
              /\ Goto(c, "nickname")
    /\ UNCHANGED <<total_count, used_agent_nicknames, nickname_reset_count,
                   managerVars, overwritten>>

\* A placeholder entry, unless the path has an entry already
ReserveAgentPath(c) ==
    /\ pc[c] = "path"
    /\ LET p == call[c].agent_path IN
         IF p = None
           THEN Goto(c, "nickname") /\ UNCHANGED <<agent_tree, call>>
         ELSE IF Registered(p)
           THEN Goto(c, "drop") /\ UNCHANGED <<agent_tree, call>>
         ELSE /\ agent_tree' = [agent_tree EXCEPT ![p] =
                   [agent_id |-> None, agent_path |-> p, agent_nickname |-> None]]
              /\ call' = [call EXCEPT ![c].reserved_agent_path = TRUE]
              /\ Goto(c, "nickname")
    /\ UNCHANGED <<total_count, used_agent_nicknames, nickname_reset_count,
                   managerVars, overwritten>>

-----------------------------------------------------------------------------
(***************************************************************************)
(* reserve_agent_nickname.  A nickname is a name and the reset count it    *)
(* was formatted with.  A resumed thread prefers the nickname the state    *)
(* database has for it, when the lookup succeeds.  Roles with different    *)
(* candidates share one pool: a role that has used up its own resets it.   *)
(***************************************************************************)
Available(names) == (names \X {nickname_reset_count}) \ used_agent_nicknames

TakeNickname(c, n) ==
    /\ call' = [call EXCEPT ![c].agent_nickname = n]
    /\ Goto(c, "create")

PreferredNickname(c) ==
    /\ pc[c] = "nickname"
    /\ call[c].kind = "resume"
    /\ LET n == db_nickname[call[c].thread_id] IN
         /\ n # None
         /\ TakeNickname(c, n)
         /\ used_agent_nicknames' = used_agent_nicknames \cup {n}
    /\ UNCHANGED <<agent_tree, total_count, nickname_reset_count, managerVars, overwritten>>

PooledNickname(c) ==
    /\ pc[c] = "nickname"
    /\ \E names \in RoleNames : \E n \in Available(names) :
         /\ TakeNickname(c, n)
         /\ used_agent_nicknames' = used_agent_nicknames \cup {n}
    /\ UNCHANGED <<agent_tree, total_count, nickname_reset_count, managerVars, overwritten>>

\* Variant with a bug: the nicknames of the new round have the old suffix
ResetNicknamePool_SameCount(c) ==
    /\ pc[c] = "nickname"
    /\ \E names \in RoleNames : Available(names) = {} /\ \E name \in names :
         /\ TakeNickname(c, <<name, nickname_reset_count>>)
         /\ used_agent_nicknames' = {<<name, nickname_reset_count>>}
    /\ UNCHANGED <<agent_tree, total_count, nickname_reset_count, managerVars, overwritten>>

ResetNicknamePool(c) ==
    /\ pc[c] = "nickname"
    /\ nickname_reset_count' = nickname_reset_count + 1
    /\ \E names \in RoleNames : Available(names) = {} /\ \E name \in names :
         /\ TakeNickname(c, <<name, nickname_reset_count + 1>>)
         /\ used_agent_nicknames' = {<<name, nickname_reset_count + 1>>}
    /\ UNCHANGED <<agent_tree, total_count, managerVars, overwritten>>

-----------------------------------------------------------------------------
(***************************************************************************)
(* Thread creation inserts into the manager's map (finalize_thread_spawn)  *)
(* and fails, or is cancelled with the tool call, at any await before it.  *)
(* A resume also waits after it, for the effects on the thread's goal.     *)
(***************************************************************************)
CreatePc(c) == pc[c] = "create" \/ (pc[c] = "reserved" /\ call[c].kind = "job")

CreateThread(c) ==
    /\ CreatePc(c)
    /\ \E t \in IF call[c].kind = "resume" THEN {call[c].thread_id} ELSE ThreadIds \ created :
         /\ threads' = threads \cup {t}
         /\ created' = created \cup {t}
         /\ db_nickname' = IF t \in created THEN db_nickname
                             ELSE [db_nickname EXCEPT ![t] = call[c].agent_nickname]
         /\ call' = [call EXCEPT ![c].thread_id = t]
    /\ Goto(c, "commit")
    /\ UNCHANGED <<registryVars, multi_agent_v2, overwritten>>

Abandonable(c) ==
    /\ call[c].kind \in Cancellable
    /\ pc[c] \in {"reserved", "create"} \/ (pc[c] = "commit" /\ call[c].kind = "resume")

\* Variant with a bug: the reservation is leaked
AbandonSpawn_ForgetsSlot(c) ==
    /\ Abandonable(c)
    /\ Return(c)
    /\ UNCHANGED <<registryVars, managerVars, overwritten>>

\* Thread creation fails, or the tool call is cancelled while it waits.  A thread that
\* was resumed by then stays open, without an entry or a slot
AbandonSpawn(c) ==
    /\ Abandonable(c)
    /\ Goto(c, "drop")
    /\ UNCHANGED <<registryVars, managerVars, call, overwritten>>

\* SpawnReservation::commit and register_spawned_thread
Commit(c) ==
    /\ pc[c] = "commit"
    /\ LET l == call[c]
           key == IF l.agent_path = None THEN l.thread_id ELSE l.agent_path
       IN /\ agent_tree' = [agent_tree EXCEPT ![key] =
               [agent_id |-> l.thread_id, agent_path |-> l.agent_path,
                agent_nickname |-> l.agent_nickname]]
          /\ used_agent_nicknames' =
               used_agent_nicknames \cup ({l.agent_nickname} \ {None})
          /\ overwritten' = overwritten + (IF Counted(agent_tree[key]) THEN 1 ELSE 0)
          /\ IF l.kind = "resume" THEN Return(c)
               ELSE Goto(c, "input") /\ call' = [call EXCEPT ![c].reserved_agent_path = FALSE]
    /\ UNCHANGED <<total_count, nickname_reset_count, managerVars>>

\* send_input: the operation is submitted, or the thread is not in the map
SendInput(c) ==
    /\ pc[c] = "input"
    /\ Return(c)
    /\ UNCHANGED <<registryVars, managerVars, overwritten>>

\* handle_thread_request_result: the submission loop of an open thread is gone
AgentDied(c) ==
    /\ pc[c] = "input"
    /\ call[c].thread_id \in threads
    /\ Goto(c, "remove")
    /\ UNCHANGED <<registryVars, managerVars, call, overwritten>>

\* Variant with a bug: the placeholder entry stays
DropReservation_KeepsPath(c) ==
    /\ pc[c] = "drop"
    /\ Goto(c, "fetch_sub")
    /\ call' = [call EXCEPT ![c].reserved_agent_path = FALSE]
    /\ UNCHANGED <<registryVars, managerVars, overwritten>>

\* SpawnReservation::drop, first the reserved path, then the count
DropReservation(c) ==
    /\ pc[c] = "drop"
    /\ LET p == call[c].agent_path IN
         agent_tree' =
           IF call[c].reserved_agent_path /\ Registered(p) /\ agent_tree[p].agent_id = None
             THEN [agent_tree EXCEPT ![p] = None] ELSE agent_tree
    /\ Goto(c, "fetch_sub")
    /\ call' = [call EXCEPT ![c].reserved_agent_path = FALSE]
    /\ UNCHANGED <<total_count, used_agent_nicknames, nickname_reset_count,
                   managerVars, overwritten>>

-----------------------------------------------------------------------------
(***************************************************************************)
(* shutdown_live_agent for one id.  The thread is open when close_agent    *)
(* looks it up or lists it as a descendant; the ids are then shut down one *)
(* by one, each whether or not its thread is still open.  With             *)
(* MultiAgentV2 the tool refuses the root.                                 *)
(***************************************************************************)
ShutdownLiveAgent(c) ==
    /\ \E t \in (IF multi_agent_v2 THEN threads \ {RootThread} ELSE threads) :
          Begin(c, "remove", [Blank EXCEPT !.kind = "close", !.thread_id = t])
    /\ UNCHANGED <<registryVars, managerVars, overwritten>>

\* flush_rollout failed, or the call was cancelled before it removed the thread
AbandonShutdown(c) ==
    /\ pc[c] = "remove"
    /\ call[c].kind = "close"
    /\ Return(c)
    /\ UNCHANGED <<registryVars, managerVars, overwritten>>

RemoveThread(c) ==
    /\ pc[c] = "remove"
    /\ threads' = threads \ {call[c].thread_id}
    /\ Goto(c, "release")
    /\ UNCHANGED <<registryVars, created, db_nickname, multi_agent_v2, call, overwritten>>

\* release_spawned_thread: some entry with this id, in the map's own order
KeysOf(t) == {k \in Keys : Registered(k) /\ agent_tree[k].agent_id = t}

ReleaseSpawnedThread(c) ==
    /\ pc[c] = "release"
    /\ \E k \in KeysOf(call[c].thread_id) :
         /\ agent_tree' = [agent_tree EXCEPT ![k] = None]
         /\ IF agent_tree[k].agent_path # RootPath
              THEN Goto(c, "fetch_sub") /\ UNCHANGED call
              ELSE Return(c)
    /\ UNCHANGED <<total_count, used_agent_nicknames, nickname_reset_count,
                   managerVars, overwritten>>

\* Variant with a bug: the count is decremented for an unknown thread too
ReleaseUnknownThread_Subtracts(c) ==
    /\ pc[c] = "release"
    /\ KeysOf(call[c].thread_id) = {}
    /\ Goto(c, "fetch_sub")
    /\ UNCHANGED <<registryVars, managerVars, call, overwritten>>

\* No entry has this id: an earlier release removed it
ReleaseUnknownThread(c) ==
    /\ pc[c] = "release"
    /\ KeysOf(call[c].thread_id) = {}
    /\ Return(c)
    /\ UNCHANGED <<registryVars, managerVars, overwritten>>

\* total_count.fetch_sub, after the mutex is unlocked
FetchSub(c) ==
    /\ pc[c] = "fetch_sub"
    /\ total_count' = total_count - 1
    /\ Return(c)
    /\ UNCHANGED <<agent_tree, used_agent_nicknames, nickname_reset_count,
                   managerVars, overwritten>>

\* ThreadManager::remove_thread by the app server, which unloads a thread that nobody
\* has used for a while, or archives it: the registry is not told
UnloadThread(t) ==
    /\ t \in threads
    /\ threads' = threads \ {t}
    /\ UNCHANGED <<registryVars, created, db_nickname, multi_agent_v2, pc, call, overwritten>>

Step(c) ==
    \/ SpawnAgent(c) \/ SpawnJobWorker(c) \/ ResumeAgent(c)
    \/ ReserveSpawnSlot(c) \/ RegisterRoot(c) \/ ReserveAgentPath(c)
    \/ PreferredNickname(c) \/ PooledNickname(c) \/ ResetNicknamePool(c)
    \/ CreateThread(c) \/ AbandonSpawn(c) \/ Commit(c)
    \/ SendInput(c) \/ AgentDied(c) \/ DropReservation(c)
    \/ ShutdownLiveAgent(c) \/ AbandonShutdown(c) \/ RemoveThread(c)
    \/ ReleaseSpawnedThread(c) \/ ReleaseUnknownThread(c) \/ FetchSub(c)

Next == \/ \E c \in Calls : Step(c)
        \/ \E t \in AgentIds : UnloadThread(t)

Spec == Init /\ [][Next]_vars

-----------------------------------------------------------------------------
(***************************************************************************)
(* Properties.                                                             *)
(***************************************************************************)

\* Every slot counted in total_count belongs to one registered agent, one
\* unfinished reservation or one release that has not reached its fetch_sub, or
\* it was an agent's whose entry a commit replaced: two resumes of one thread, or
\* a resume of a thread that the app server had unloaded without a release.  In
\* particular the unsigned counter never goes below zero.
SlotAccounting ==
    total_count = Cardinality(CountedKeys) + Cardinality(HoldingCalls) + overwritten

\* What a call's locals are at each of its points: the part of the inductive
\* invariant that ties the other parts together.
LocalsOK ==
    \A c \in Calls :
        /\ pc[c] \in {"remove", "release"} => call[c].thread_id \in AgentIds
        /\ pc[c] = "commit" => call[c].thread_id \in ThreadIds
        /\ call[c].kind = "resume" => call[c].thread_id \in ThreadIds
        /\ call[c].kind = "job" => call[c].agent_path = None
        /\ call[c].reserved_agent_path =>
              pc[c] \in {"nickname", "create", "commit", "drop"} /\ call[c].agent_path \in Paths
        /\ (pc[c] \in {"nickname", "create", "commit"} /\ call[c].agent_path # None)
              => call[c].reserved_agent_path

CountWithinLimit == MaxThreads # None => total_count =< MaxThreads

\* However spawns, resumes and shutdowns interleave, the registered agents and
\* the spawns in progress never exceed agent_max_threads.
AgentsWithinLimit ==
    MaxThreads # None =>
        Cardinality(CountedKeys) + Cardinality(HoldingCalls) =< MaxThreads

\* A placeholder in the tree belongs to exactly one spawn in progress, and that
\* spawn's reserved path is a placeholder: a failed or cancelled spawn leaves no
\* path blocked, and no other call can free or take a path being spawned.
PathHolders(p) == {c \in Calls : call[c].reserved_agent_path /\ call[c].agent_path = p}
Placeholder(entry) == entry # None /\ entry.agent_id = None
PlaceholdersHeld ==
    \A p \in Paths :
        /\ \A c, d \in PathHolders(p) : c = d
        /\ Placeholder(agent_tree[p]) <=> PathHolders(p) # {}

\* A path that resolves to an agent keeps resolving to it until the agent is
\* released; no spawn takes it over.
PathNeverTakenOver ==
    [][\A p \in Paths :
          (Registered(p) /\ agent_tree[p].agent_id # None)
            => agent_tree'[p] \in {agent_tree[p], None}]_vars

\* Two agents spawned by this process never have the same nickname (a resumed one
\* may have a nickname of an earlier process), although the pool forgets which
\* nicknames are in use whenever a role exhausts it.
NicknamesDistinct ==
    \A j, k \in CountedKeys :
        LET a == agent_tree[j]
            b == agent_tree[k]
        IN  ( /\ a.agent_id # b.agent_id
              /\ {a.agent_id, b.agent_id} \cap (IF multi_agent_v2 THEN {} ELSE Recorded) = {}
              /\ a.agent_nickname # None ) => a.agent_nickname # b.agent_nickname

\* "Maximum number of agent threads that can be open concurrently"
\* (core/src/config/mod.rs on agent_max_threads): the spawned threads in the
\* manager's map never exceed the limit.
OpenThreadsWithinLimit ==
    MaxThreads # None => Cardinality(threads \ {RootThread}) =< MaxThreads

=============================================================================
