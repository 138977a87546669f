# Verification of OpenAgere

TLA+ models of the concurrent core of OpenAgere, an agent runtime written in
Rust: a session engine that runs turns against a model, a tree of sub-agents,
and an app server that exposes sessions to clients.  Modules are translated from
the source; `PROJECT.json` ("map") gives the lines behind every definition.

- [Inventory](#inventory)
- [Modules](#modules)
- [Runs](#runs), [Bounds](#bounds), [Fairness](#fairness)
- [Proofs](#proofs)
- [Findings](#findings)
- [Only model-checked](#only-model-checked), [Not modelled](#not-modelled)
- [Plan](#plan)

## Inventory

Everything runs on tokio.  State is shared behind async mutexes, atomics and
watch channels; processes meet at awaits.  The parts with protocols of their own:

| Component | State | Operations | Interacts with | Hard behaviour | What makes it correct |
|---|---|---|---|---|---|
| Agent registry and control (`core/src/agent`) | tree of agents by path, slot counter, used nicknames | reserve, commit, drop, release; spawn, resume, close | thread manager, state database, tool handlers | three locks, cancellation at any await, resume racing close | slots neither leak nor are given back twice; paths exclusive; limit held |
| Session turns (`core/src/tasks`, `core/src/state/turn.rs`, `core/src/session`) | active turn, its tasks, pending input and approvals; idle queue; mailbox | start, finish, abort a task; steer, inject, interrupt; wake for pending work | submission loop, guardian, goals, app server | several starters and enders of turns at once | one task; a running task can be aborted; accepted input is not lost; approvals stay answerable |
| Goals (`core/src/goals.rs`) | goal in the state database, continuation lock, accounting | continue when idle, pause, account tokens and time | session turns | reservation of a turn, then a re-read of the goal | a reserved turn is launched or given up |
| Remote control transport (`app-server/src/transport/remote_control`) | sequence numbers, bounded buffer, virtual connections | offer, number, send, acknowledge, reconnect, replay; open and close clients | app server processor, backend | lost links, late frames, full buffer | each stream arrives in order, once, without gaps; bounded memory |
| Approvals and pending answers (`session/mod.rs`, `network_approval.rs`) | oneshot senders per turn, per host, per call | request, answer, clear | turns, tools, proxy | answer after abort, two waiters of one host | a waiter is answered or dropped, never left |
| Tool orchestrator and parallel runtime (`core/src/tools`) | read/write lock, sandbox attempt | approve, run, retry without sandbox | approvals, exec | cancellation during a retry | no unsandboxed attempt without consent; exclusive tools alone |
| Guardian (`core/src/guardian`) | review sessions, denial counters | review, record denial, trip | turns | trips from its own task | a turn is interrupted once |
| Unified exec (`core/src/unified_exec`) | process table, head/tail buffer | spawn, write, poll, prune | tools, pty | exit racing poll, pruning at the limit | bounded; output not lost between polls |
| Exec server (`exec-server`) | sessions, processes, retained output | attach, detach, resume, read | clients | resume racing expiry | output by sequence number without gaps |
| Agent jobs (`tools/handlers/agent_jobs.rs`, `state`) | items with status and lease | fan out, report, reap, stop | registry, database | worker ends without a report; timeout racing a report | an item is finished once |
| Rollout recorder (`rollout`) | queue of items, open file | append, flush, retry | session | I/O error in the middle of a batch | order kept; no item twice |
| State database (`state`) | jobs with leases, threads, goals | claim, heartbeat, finish | memories, agent jobs | lease expiry, two workers | one owner |
| Context manager (`core/src/context_manager`) | history | record, normalise, truncate, roll back | turns | aborted calls without output | each call has one output |
| Virtual clients of remote control (`client_tracker.rs`) | connection, last number and last activity per client and stream; outbound tasks | initialize, message, ping, close, sweep; join, disconnect, shut down | websocket reader, processor | re-initialise racing the end of the old task; idle sweep; shutdown with tasks that wait | app server and tracker agree on the connections; nothing is forwarded twice; every disconnect is reported |
| App server threads (`thread_state.rs`, `agere_message_processor.rs`) | subscriptions, listener task and generation per thread, closing marks | resume, unsubscribe, archive, attach, unload; connection opened, closed | thread manager, core's agents, transports | a thread unloaded while it is resumed; listeners replaced; late attachments | no subscription outlives its connection; a named listener runs; closing ends; a resume is answered |
| App server requests (`outgoing_message.rs`) | callbacks of requests to clients, contexts of requests from clients | send, answer, replay, cancel | threads, transports | disconnect or turn end racing an answer | one answer per request |
| apply-patch, execpolicy | none | match and replace; decide | tools | none: pure | agree with a reference definition |

The remaining crates (terminal UI, CLI, configuration, login, API clients, MCP,
telemetry, skills, generated protocol types) are I/O, data conversion or display
and are listed in `PROJECT.json` with the reason they are left out.

## Modules

| Module | Models |
|---|---|
| `AgentRegistry`, `MCAgentRegistry`, `AgentRegistryProofs` | registry and control of the sub-agent tree |
| `SessionTurns`, `MCSessionTurns`, `SessionTurnsProofs`, `SessionInputProofs` | life of a turn in a session |
| `ReliableStreams` | abstract: a log per stream, received in order |
| `RemoteControlOutbound`, `MCRemoteControlOutbound`, `RemoteControlOutboundProofs` | outgoing messages over replaced websockets |
| `ClientTracker`, `MCClientTracker`, `ClientTrackerProofs` | the virtual clients of remote control and their connections |
| `ThreadListeners`, `MCThreadListeners`, `ThreadListenersProofs` | subscriptions, listeners and unloading of one thread of the app server |

A definition `X_Y` next to `X`, commented as a variant with a bug, is not part of
the specification: it replaces `X` to see that a property notices.

### AgentRegistry

`agent_tree`, `total_count` and the nickname pool are the fields of
`AgentRegistry`; `threads` is the thread manager's map.  `total_count` is an
atomic, the tree and the pool share a mutex, the map has its own lock, and a call
never holds two of them: one action is what a tool call does between two such
accesses.  A call's `SpawnReservation` is in its locals.  `AbandonSpawn` is
the early returns and cancellations between the slot and the commit, for the kinds
of call in `Cancellable`.  A spawn waits for nothing once its thread is in the map; a
resume still waits for the effects on the thread's goal, and one that is cancelled
there leaves its thread open, without an entry and without a slot.  The `Drop` of the
reservation is two actions, as in the code, the path under the mutex and then the
counter.  `UnloadThread` is the app server, which takes an unused or archived thread
out of the manager's map and does not tell the registry.  A nickname is a pair of a candidate and the number
of pool resets, which stands for the ordinal suffix.  The depth check and the
spawn-edge records are left out: they neither read nor change this state.
`overwritten` counts commits that replace an entry (two resumes of one thread, or
the resume of an unloaded one), whose slot the code never gives back.  `multi_agent_v2` is the feature flag of the
session tree; it is a variable that no step changes, so that one run has both
values.

### SessionTurns

The slot (`active_turn` with its `tasks`), each turn's `TurnState`, the idle
queue and the mailbox are behind separate mutexes; an action is one critical
section, or the code between two awaits.  Processes are the submission loop, the
clients (other tokio tasks that call into the session: guardian, goals,
services) and the spawned task of each turn.  A process's control point is the
next critical section of the function it is in:

- `abort_all_tasks` / `abort_turn_if_active`: `take`, `take_if`, then per drained
  task `cancel`, `wait`, then `clear_pending`.  The 100 ms of
  `handle_task_abort` may pass at any time; `handle.abort()` is atomic with the
  report of `TurnAborted`.
- `maybe_start_turn_for_pending_work` and `start_task`: `work`, `reserve`,
  `queued`, `turn_input`, `mail`, `join`, `push`, `launch`.
- goal continuation: `candidate`, `goal_reserve`, `reread`, `reserved`,
  `unreserve`, under `continuation_lock`.
- a task: `begin` (a turn with input of its own, before `run_turn` has recorded it),
  `run`, `drain_mail`, `inspect`, `approval`, `check_mail`, and
  `on_task_finished` as `finish`, `remove`, `leftover`, `complete`, `clear`.

Input queues are sets: no property is about the order of items within a turn.
The map of tasks is a set for the same reason.  Permission, elicitation,
dynamic-tool and user-input requests behave like approvals and are not repeated.
A task id or turn that nobody refers to is fresh again, so long runs need few of
them.  `owed` is the user input that was accepted and not yet recorded, blocked or
discarded; what a turn and its tasks hold is discarded when an abort takes the
turn.  `run_turn` may return before it has recorded the turn's initial input: the
compaction before the first request fails, the tool listing is cancelled, or a
session-start hook stops the turn.  `GiveUpTurn` is that return; the input stays
owed, nobody has it any more, and `dropped` keeps account of it.  Input is steered
into a task at any time, by the loop and by `turn/steer` of the app server, which does
not go through the loop.  Two reads in a row whose results are used together, in
`CheckPendingWork` and `GoalCandidate`, are one action.

### RemoteControlOutbound

The writer receives an envelope and numbers and buffers it under the mutex;
nothing else of the connection can look in between, so this is one action
(`Number`).  The buffer is a set of envelopes; a stream's order is the order of
its numbers, and the order of streams in the replay is arbitrary, as in the
`HashMap`.  `Ack(s, n)` takes any `n` that the backend has received, so
acknowledgements may be old or repeated.  `used_changed` is the version of the
watch channel as the writer's receiver sees it; a new connection clones the first
receiver, which has seen nothing.  Each websocket has its own wire, and a
replaced one may deliver late or break at any time.  The network and the backend are external: the backend takes a frame
with a number above its cursor and ignores the others.  It is not assumed to
check for gaps; that there are none is a property.  The subscribe cursor,
`write_complete_tx`, pings and the published status are left out.

`ReliableStreams` has the two histories `log` and `got`; `Number` refines
`Accept`, `Receive` of a new frame refines `Deliver`, everything else stutters.

### ClientTracker

The reader of the current websocket keeps the tracker's mutex for its whole life,
so a branch of its `select!` is one action with everything the handler does:
`Initialize` closes the old connection of the key, opens a new one and sets the
legacy stream; `CloseExpiredClients` closes all idle clients.  When the app
server no longer takes events the handler returns `Stopped`, which ends the
reader; a new websocket starts another one over the same tracker, as long as remote
control is enabled (`SetEnabled` follows the configuration at any time, and
disabling cancels the reader).  A connection is
numbered and never used twice; its outbound task is `select`, `send`, `ended`,
`joined`.  The token of a connection fires when its client is closed, when the
app server disconnects it or when remote control shuts down, and the task notices
later, possibly after it has taken another message.  `reported` is what the app
server was told last; `inbound` is what was forwarded on an open connection.
Idleness is a set: the timeout of a client may pass at any time, and any message
or ping takes the client out.  Pongs are left out, as the status they carry is
read and not kept.  The app server may stop between two actions, not in the middle
of one, and before or after the shutdown is requested: the processor requests it
itself when a graceful restart is finished, and `run_main` does once the processor has
ended for another reason.  `app_server` is that the processor still has the receiver
of the events; while it drains they are queued, and `reported` counts them.

### ThreadListeners

One thread id.  The objects that come and go under it are numbered: the loaded
`AgereThread`, the `ThreadEntry` of the state manager with its watcher and
`ThreadState`, and listener tasks; a number that nothing refers to is used again.
Requests that name the thread by its id run one after the other (`request`); beside
them run `thread/turns/list`, which is not serialised and may make the state, the
processor loop (`loop`), which attaches every connection to a thread that core
created, one clean-up per closed connection, the listeners, and the task that each
unloading listener spawns.  An action is what the code does under one lock, and
the order of a function's awaits is its sequence of control points: a resume of a
loaded thread is `find`, `state`, `watch`, `listen`, `tx`, `send`, and a cold one
`find`, `load`, `attach`, `subscribe`, `attach_watch`, `attach_listen`.

The listener's `select!` is biased, so a cancelled listener reads no more commands
and one with a command does not unload.  It is untimed: the unload delay of thirty
minutes may pass whenever there is no subscriber, except within the handler that
started the listener (`own`), which takes far less.  Thread activity only
postpones the trigger.  A session that ends keeps its event channel open as long
as somebody has the `AgereThread`, and submitting to a dead session is not an
error, so `next_event` never fails and `SubmitFailed` does not happen.  `owed` is
the requests without a final answer.  A closed connection comes back as a new one
once nothing refers to its id.

## Runs

| Run | Checks | Shows |
|---|---|---|
| `agents` | `TypeOK`, `SlotAccounting`, `AgentsWithinLimit`, `NicknamesDistinct`, `PlaceholdersHeld`, `PathNeverTakenOver` | with and without task names, each slot of the counter has an owner and the limit holds; a path is held by one spawn and never taken over; nicknames stay distinct over resets of the pool |
| `agents_open_limit` | `OpenThreadsWithinLimit` (violated) | finding 1 |
| `turns_user` | `TypeOK`, `OneTaskAtATime`, `UserInputKept`, `ApprovalAnswerable` | while only the submission loop starts turns, and the guardian may abort them from its own tokio task, one task runs, no accepted input is lost except the initial one of a turn that gives up, and the next turn's approvals are kept |
| `turns_wakeups` | `TasksReachable`, `NoDeadTask`, `EndReported` | with concurrent starters, two tasks in one turn included, a running task can be aborted, the slot has no dead task and no turn ends silently |
| `turns_goals` | `AbortEnds`, `EmptyTurnSettles` | aborts end, and a reserved turn is launched or given up |
| `turns_two_tasks` | `OneTaskAtATime` (violated) | finding 2 |
| `turns_followup` | `TriggerMailStartsTurn` (violated) | finding 3 |
| `remote_outbound` | `TypeOK`, `BufferBound`, `UnackedKept`, `StreamsReliable`, `Delivered` | the buffer is bounded and keeps what the backend lacks; streams are reliable; everything offered arrives |
| `client_tracker` | `TypeOK`, `OpenConnectionsTracked`, `InboundOnce`, `LegacyStreamKnown`, `DisconnectReported`, `IdleClosed`, `ShutdownEnds` | app server and tracker agree on what is open; numbers are forwarded once; the shutdown drains, also while remote control is disabled; as long as websockets are opened, a disconnect is reported and an idle client closed |
| `client_tracker_reopen` | `EndClosesOwnConnection` (violated) | finding 4 |
| `thread_listeners` | `TypeOK`, `ClosedNotSubscribed`, `ListenerRuns`, `ClosingOwned` | no subscription of a closed connection, whoever attached it last; a state that names a listener has one that runs, and no second one takes its events; a closing mark has somebody who will remove it |
| `thread_listeners_resume` | `ResumeAnswerable` (violated) | finding 5 |

`OneTaskAtATime` holds in `turns_user` and is violated in `turns_two_tasks`: the
difference is a second starter of turns, and that is the point of both runs.

## Bounds

- Registry: two calls (three for the finding) and two threads; a slot, a path and
  a nickname can each be contended by two calls, and a thread closed and resumed
  while another call holds its id.  `MaxResets` bounds the nickname ordinals, so
  that a pool can run out twice; there is one role with one candidate name.  Two roles
  are beyond what TLC finishes: that one role's reset clears the nicknames of another
  is covered by the proof of `NicknamesUnique`, which has any roles.  Calls are
  symmetric.  In the run of the finding no resume is cancelled.
- Turns: three or four task ids and four turns (a task id is fresh again once its
  task is over).  A call starts only when an id
  and a turn are free (`RoomToStart`), so the bound delays a start and never
  leaves a call stuck; deadlock is checked.  With four ids the guardian's abort and
  the loop's next start overlap (`turns_user`), with three a wake-up and a user's
  input do (`turns_wakeups`).  Both runs compare states by `Live`, which leaves out
  what a free id or an unused turn held before: it is overwritten before it is
  read.  One or two items per class are
  enough: properties speak of one item, and a second tells "take one" from "take
  all" and lets a hook block one item and send the other back; the two are
  symmetric.  Mail and goals are enabled in separate runs because together they exceed
  what TLC finishes: a wake-up by mail racing a goal continuation is covered by the
  proofs, which have both, and not by a run, and `EmptyTurnSettles` is checked for
  turns reserved for a goal and not for those reserved for mail.
- Remote control: two streams, four messages of which one cannot be encoded, a
  capacity of two and two websockets.  Both the channel and the buffer fill up,
  one stream can hold the buffer against the other, and the second connection
  starts with a full buffer.  The last websocket stays up (`MaxConns`):
  otherwise nothing could be required to arrive.
- Client tracker: one client (clients meet only in the join set and the sweep), two
  streams, so that a legacy stream and a given one exist together, two connections
  in all, so that a stream can be initialised again, and one number beside messages
  without one: a repetition of it is a duplicate, and that larger numbers stay in order
  is in the proof.
- Thread listeners: one connection, two entries, two listeners; a root thread can
  be replaced by a second object while the first is still in use, a sub-agent's
  thread is loaded once, by core.  One connection is enough for the properties,
  which speak of one subscription, one state or one mark; it may have a resume in a
  listener's channel, an attachment by the loop and a clean-up at the same time.
  Where an entry or a listener is needed and all are in use, the step waits, which
  delays it; deadlock is checked.  States are compared by `Live`, which leaves out the
  watcher of a removed entry that no listener is about to check.

## Fairness

`SessionTurns`: weak fairness on the steps of calls in progress (abort, start,
goal) and of finishing tasks: tokio runs them, their locks are held over bounded
code, and the abort waits at most 100 ms.  None on a running turn: the model may
never answer and a user may never approve.

`RemoteControlOutbound`: weak fairness on the writer, on the reader once it is
cancelled, on the cancellation of a connection one of whose tasks has ended, and
on reconnecting (the code retries with back-off for ever).  The last assumes that
remote control stays enabled and the backend can be reached: this module has no
switch, and nothing is delivered while it is off.  The writer's ping every ten seconds
would also wake it up; it is left out, so `Delivered` does not lean on it.  That frames on a
live link arrive and that the backend acknowledges what it received is an
assumption on the backend, not a promise of this code; without it a full buffer
stays full.  The safety properties do not use it.

`ClientTracker`: weak fairness on the outbound tasks once their token has fired,
on the end of a reader after remote control was disabled or a shutdown requested,
and on the steps of the shutdown; strong fairness on joining a task that
has ended and on the sweep, since the reader may be replaced any number of times,
each has both in its `select!`, both are ready as soon as it starts, and tokio's
choice among ready branches is random.
None on messages, disconnects or forwarding: the channel to the websocket may stay
full.  None on the start of a reader either: the loop waits while remote control is
disabled, the URL may be invalid and the backend out of reach.  Tasks are joined and
clients swept by readers only, so `DisconnectReported` and `IdleClosed` have the
premise that websockets are opened again and again until the shutdown
(`Reconnects`).  While remote control stays disabled, a disconnect is not reported
and an idle client not closed.  `ShutdownEnds` has no premise.

`ThreadListeners` has safety properties only.

## Proofs

The proofs hold for every value of the constants, under the named assumptions of
the modules: the finite sets of calls, threads and paths of the registry,
distinct kinds of model values, a positive capacity, natural numbers of
websockets, connections, sequence numbers, state entries and listeners, and at
least one load of each kind of thread.  Every invariant and every action property
that a passing run checks is stated by a theorem.

`AgentRegistryProofs`: `TypeCorrect`, `SlotsAccounted`, `WithinLimit`,
`ReservedPathsExclusive`, `PathsKept`, `NicknamesUnique`.  The accounting equation is not inductive
alone: a commit must be known to write a key of the tree and a release to have a
thread.  `LocalsOK` says so.  Two lemmas turn a step into arithmetic, on
the number of calls that hold a slot and on the number of counted entries, and
each action then adds up.  For nicknames, a name is borne by a registered agent, by
a row of the database or by a call that will create an agent; the invariant is
that a name has one bearer (`OneBearer`) and that the pool will not give out
a name that is borne: it is from an earlier round, or marked as used in this one
(`Spent`).  Agents of an earlier process, whose names the database already has, are
left out of both, as in the property.

`SessionTurnsProofs`: `TypeCorrect`, `RunningTasksReachable`, `SlotAlive`,
`ApprovalsAnswerable`, `EndsReported`.  None is inductive.  A running task stays reachable
because it has one owner, the slot or one aborting call, and such a call is never
itself killed (`OneOwner`); a task in the slot lives because its token has not
fired (`SlotUncancelled`) and a pending approval belongs to a waiting task of one
turn (`Approvals`).  An approval stays answerable because a call clears a turn only
after that turn has left the slot for good (`AbortedTurnGone`).  `EndsReported` is
an action property: a task that clears the slot has reported its end
(`ClearReported`), and a cancelled one, which ends without a word, is not in the
slot, hence owned by a call that aborts it and reports it afterwards.

`SessionInputProofs`: `OneTask` and `InputKept`, under the assumption
`LoopStartsOnly` (no trigger mail, no items injected by services, no goals), which
is the setting of `turns_user` with any number of tasks, turns, inputs and clients.
`InputKept` allows the one loss that `dropped` accounts for, the initial input of a
turn that gives up; what was steered into that turn is kept.
Without the assumption both fail (finding 2).  `Solo` says that nobody but the loop gets to the
steps that install a turn or launch a task, that the slot is empty while the loop
goes from its abort to its launch, and that the loop carries input only on that way.
`Where` says in which of four places an input that is owed and not dropped is: in the hand of a task
that is in the slot or about to record it, with the loop, in the active turn
under a task, or in the turn of a task that is about to take what was left over.  That
it is somewhere (`UserInputKept`) would not be inductive: the items in an aborted
turn, or in the hand of a killed task, are also somewhere, and vanish in the
next step.

`RemoteControlOutboundProofs`: `TypeCorrect`, `BufferBounded`, `NothingLost`,
`ImplementsReliableStreams`.  The invariant has four ideas.  Envelopes carry the
message that has their number in the log.  The buffer has what the
backend lacks (`UnackedKept`).  Hence, on a live connection past its snapshot,
what the backend lacks is in the replay, in the writer's hand or on the wire
(`OnTheWay`).  Hence a frame on a wire, old websockets included, is next for the
backend or has its predecessor ahead of it (`NoGaps`), so the first frame of a
wire is old or the very next of its stream.  Each idea needs the one
before it when the link breaks or a new writer starts.

`ClientTrackerProofs`: `TypeCorrect`, `ConnectionsTracked`, `LegacyStreams`,
`InboundOrdered`.  The tracker closes clients by key only, so the heart is that a
connection belongs to one key (`OpenConnectionsTracked`): closing keys then touches
no other client's connection (`CloseEffect`), whatever ended task named the key.
What has to be added: a client's connection has been opened, so a new one has a
fresh number (`Started`); once the shutdown drains, tasks are joined without
closing anybody, and there must be nobody left (`Drained`); and the last number of
a client bounds all that its connection got (`WithinLast`), without which a
duplicate could pass.  An `initialize` that the app server does not take is shown to
be a close.

`ThreadListenersProofs`: `TypeCorrect`, `SubscribersLive`, `NamedListenersRun`,
`ClosingHasOwner`.  The invariant has one part for each group of variables
(`ThreadOK`, `StateOK`, `ListenersOK`, `UnloadOK`, `ProcsOK`), and a step is
shown to keep each part.  What the properties do not say and the proof needs: a
listener has had a state from its start, and one that takes events is the one its
state names unless its token has fired (`Serving`); a state that names a listener is the
one that the listener serves; a handler at a step that uses the thread's state, a
client or a listener's channel has got it (`Ready`); and a connection that is being
cleaned up is closed already.

## Findings

1. `agents_open_limit`: closing a thread removes it from the manager and later
   releases its slot by id.  If the thread is resumed in between, the release hits
   the new incarnation, which stays open without a slot.  `core/src/config/mod.rs`
   promises a maximum of threads "that can be open concurrently".  The run lets no
   resume be cancelled: a resume cancelled after the insertion of its thread
   (`thread_manager.rs`, `apply_goal_resume_runtime_effects`) is a second way to an
   open thread that no slot counts.
2. `turns_two_tasks`: a turn reserved for pending mail has no task yet; a user
   input replaces it with its own turn and task, and the first start then adds a
   second task.  `docs/protocol_v1.md` and two `debug_assert!`s say one.
3. `turns_followup`: an interrupt that takes the turn of a task just removed
   aborts nothing and wakes nothing; the finishing task finds the slot empty and
   wakes nothing either.  The queued followup does not start a turn.
4. `client_tracker_reopen`: an `initialize` on an open stream closes the old
   connection and opens a new one under the same key.  The outbound task of the old
   one ends because of that, and when it is joined the client under its key, now the
   new one, is closed.
5. `thread_listeners_resume`: the answer to a `thread/resume` of a loaded thread is
   a command to its listener.  A listener that has begun to unload the thread
   exits without reading it: the client gets neither a response nor the "thread is
   closing" error.

Also visible in the models, and not contradicted by a promise of the repository: a
task past its cancellation check can be drained by an interrupt, and then both
`TurnComplete` and `TurnAborted` are sent; a task that was taken out of the slot
and has not noticed it yet takes the input of the turn that replaced its own
(`GetPendingInput`), and loses it when it is aborted, which is why such input is no
longer counted as owed; a turn whose `run_turn` returns before it has recorded its
initial input loses it, and the client sees the error of the failed compaction, if
it was that, and the end of the turn (`GiveUpTurn`); an unload removes the state entry and
the thread that have the id when it gets to them, which may be newer than the ones
it set out to remove.

## Only model-checked

The liveness properties `AbortEnds`, `EmptyTurnSettles`, `Delivered`,
`DisconnectReported`, `IdleClosed` and `ShutdownEnds`: liveness under fairness is
outside what the prover handles.  The five findings are counterexamples of TLC.

## Not modelled

In the registry: the completion watcher, listing, status, spawn edges.  In
sessions: shutdown, rollback, compaction's effect on the history, settings,
realtime.  In remote control: enrollment, status, the composition of the tracker with
the outgoing streams (they meet in one channel, whose fullness both models have).
In the app server: the translation of events, callbacks of outgoing requests, the
other listener commands, the archiving of descendants from the queue of another
thread, a sub-agent's thread loaded by core a second time, clean-up at shutdown, and
two requests that run beside the serialised ones: a `thread/resume` that gives a path
and no id is queued by that path, and `thread/start` has no scope and attaches the
connection to its new thread as the loop does to one of core's.
The other rows of the inventory, for which the plan has modules, are not
modelled yet.  The crates left out for good are in `PROJECT.json`.

## Plan

In this order; the first group is what users notice when it breaks.

1. `OneTurnAtATime`, an abstract session that `SessionTurns` implements when only
   the loop starts turns; `Solo` and `Where` of `SessionInputProofs` are what its
   proof needs.
2. `OutgoingRequests` (app server), to be composed with `ThreadListeners`, and
   `Approvals` (session, network): waiters and answers, with an abstract
   specification "answered once or dropped" that both implement.
3. `UnifiedExec` (process table, watcher, polling) and `HeadTailBuffer` as pure
   operators against a reference definition; `ExecSession` for the exec server.
4. `AgentJobs` and `JobLeases` (state database) with worker crashes and expiry; an
   abstract lease.
5. `RolloutWriter` with I/O errors; `ContextHistory` normalisation and
   `SeekSequence` of apply-patch as pure operators.
6. `ToolRuntime` (approval, sandbox, retry, parallel lock) and the guardian's
   circuit breaker.

Theorems to add: type and safety invariants of each new module, and the refinements
above.  Runs of one module are
merged where their bounds allow, to keep the set small.
