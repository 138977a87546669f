------------------------ MODULE RemoteControlOutbound ------------------------
(***************************************************************************)
(* The way of an outgoing message to the remote-control backend:           *)
(* app-server/src/transport/remote_control/websocket.rs, and the outbound  *)
(* tasks of client_tracker.rs that feed it.                                *)
(*                                                                         *)
(* Messages of all virtual clients go through one bounded channel to the   *)
(* writer task of the current websocket, which numbers them per stream,    *)
(* keeps them in a bounded buffer until they are acknowledged and sends    *)
(* them.  The reader task of the same websocket handles acknowledgements.  *)
(* The two share the state behind one mutex, and a watch channel with the  *)
(* number of buffered envelopes.  When one of them ends, or remote control *)
(* is disabled, the other is stopped and a new websocket is opened, whose  *)
(* writer first sends the whole buffer again.  A replaced websocket may    *)
(* still deliver, late, what was sent on it.                               *)
(***************************************************************************)
EXTENDS Integers, Sequences, FiniteSets

CONSTANTS
    Streams,        \* pairs of a ClientId and a StreamId
    Messages,       \* outgoing messages
    Unserializable, \* those that serde_json cannot encode
    Capacity,       \* CHANNEL_CAPACITY
    MaxConns,       \* bound: websockets opened; the last one stays up
    None

ASSUME CapacityAssumption == Capacity \in Nat \ {0}
ASSUME MaxConnsAssumption == MaxConns \in Nat
ASSUME UnserializableAssumption == Unserializable \subseteq Messages
ASSUME NoneAssumption == None \notin [stream : Streams, seq_id : Nat, message : Messages]

Conns == 1..MaxConns
Items == [stream : Streams, message : Messages]                      \* QueuedServerEnvelope
Envelopes == [stream : Streams, seq_id : Nat, message : Messages]    \* ServerEnvelope

VARIABLES
    queue,           \* the server_event channel
    next_seq_id,     \* next_seq_id_by_stream
    outbound_buffer, \* BoundedOutboundBuffer; a stream's queue is in the order of seq_id
    used,            \* the value of the watch channel
    used_changed,    \* used_rx.changed() would return
    conn,            \* the websocket that was opened last, 0 before the first
    alive,           \* websockets whose link still carries data
    cancelled,       \* shutdown_token of the current connection
    writer,          \* where run_server_writer is
    reader,          \* run_websocket_reader is running
    replay,          \* buffered envelopes that the writer has yet to send again
    sending,         \* the envelope the writer has numbered and not sent
    wire,            \* frames on the way to the backend, per websocket
    received,        \* the backend's cursor on each stream (external)
    got,             \* history: messages the backend took, per stream
    log,             \* history: messages in the order of their numbers, per stream
    offered          \* history: messages put into the channel

bufferVars == <<next_seq_id, outbound_buffer, used, used_changed, log>>
connVars == <<conn, cancelled>>
writerVars == <<writer, replay, sending>>
backendVars == <<received, got>>
vars == <<queue, bufferVars, connVars, alive, writerVars, reader, wire, backendVars, offered>>

WriterPcs == {"off", "snapshot", "replay", "top", "recv", "full", "send"}

TypeOK ==
    /\ queue \in Seq(Items)
    /\ next_seq_id \in [Streams -> Nat \ {0}]
    /\ outbound_buffer \subseteq Envelopes
    /\ used \in Nat
    /\ used_changed \in BOOLEAN
    /\ conn \in 0..MaxConns
    /\ alive \subseteq 1..conn
    /\ cancelled \in BOOLEAN
    /\ writer \in WriterPcs
    /\ reader \in BOOLEAN
    /\ writer # "off" \/ reader => conn \in Conns
    /\ replay \subseteq Envelopes
    /\ replay # {} => writer = "replay"
    /\ IF writer = "send" THEN sending \in Envelopes ELSE sending = None
    /\ wire \in [Conns -> Seq(Envelopes)]
    /\ received \in [Streams -> Nat]
    /\ got \in [Streams -> Seq(Messages)]
    /\ log \in [Streams -> Seq(Messages)]
    /\ offered \subseteq Messages

Init ==
    /\ queue = <<>>
    /\ next_seq_id = [s \in Streams |-> 1]
    /\ outbound_buffer = {}
    /\ used = 0
    /\ used_changed = FALSE
    /\ conn = 0
    /\ alive = {}
    /\ cancelled = FALSE
    /\ writer = "off"
    /\ reader = FALSE
    /\ replay = {}
    /\ sending = None
    /\ wire = [c \in Conns |-> <<>>]
    /\ received = [s \in Streams |-> 0]
    /\ got = [s \in Streams |-> <<>>]
    /\ log = [s \in Streams |-> <<>>]
    /\ offered = {}

-----------------------------------------------------------------------------
(***************************************************************************)
(* run_client_outbound: the outbound task of a client puts a message, or a *)
(* pong, into the channel.                                                 *)
(***************************************************************************)
Offer(s, m) ==
    /\ m \notin offered
    /\ Len(queue) < Capacity
    /\ queue' = Append(queue, [stream |-> s, message |-> m])
    /\ offered' = offered \cup {m}
    /\ UNCHANGED <<bufferVars, connVars, alive, writerVars, reader, wire, backendVars>>

-----------------------------------------------------------------------------
(***************************************************************************)
(* run and run_connection.                                                 *)
(***************************************************************************)
\* Both tasks of the last websocket have been joined; a new one is open.  used_rx
\* is a clone of a receiver that has seen no change yet
Connect ==
    /\ writer = "off" /\ ~reader
    /\ conn < MaxConns
    /\ conn' = conn + 1
    /\ alive' = alive \cup {conn + 1}
    /\ cancelled' = FALSE
    /\ writer' = "snapshot"
    /\ reader' = TRUE
    /\ used_changed' = (\E s \in Streams : next_seq_id[s] > 1)
    /\ UNCHANGED <<queue, next_seq_id, outbound_buffer, used, log, replay, sending, wire,
                   backendVars, offered>>

TaskEnded == (writer = "off") # ~reader

\* One of the tasks has ended, or remote control was disabled
Cancel ==
    /\ ~cancelled
    /\ writer # "off" \/ reader
    /\ TaskEnded \/ conn < MaxConns
    /\ cancelled' = TRUE
    /\ UNCHANGED <<queue, bufferVars, conn, alive, writerVars, reader, wire, backendVars, offered>>

\* A link breaks: what is on the way is lost, and so is what is still sent on it
LinkFails(c) ==
    /\ c \in alive
    /\ c < MaxConns
    /\ alive' = alive \ {c}
    /\ wire' = [wire EXCEPT ![c] = <<>>]
    /\ UNCHANGED <<queue, bufferVars, connVars, writerVars, reader, backendVars, offered>>

-----------------------------------------------------------------------------
(***************************************************************************)
(* run_server_writer_inner.                                                *)
(***************************************************************************)
PutOnWire(e) ==
    wire' = IF conn \in alive THEN [wire EXCEPT ![conn] = Append(wire[conn], e)] ELSE wire

\* Variant with a bug: a new connection starts with the messages to come
Snapshot_Empty ==
    /\ writer = "snapshot"
    /\ writer' = "replay"
    /\ replay' = {}
    /\ UNCHANGED <<queue, bufferVars, connVars, alive, reader, sending, wire, backendVars, offered>>

Snapshot ==
    /\ writer = "snapshot"
    /\ writer' = "replay"
    /\ replay' = outbound_buffer
    /\ UNCHANGED <<queue, bufferVars, connVars, alive, reader, sending, wire, backendVars, offered>>

\* Envelopes that may be the next to send again: streams are in no order, and each
\* stream's envelopes in the order of their numbers
NextReplayed ==
    {e \in replay : \A f \in replay : f.stream = e.stream => e.seq_id =< f.seq_id}

Replay ==
    /\ writer = "replay"
    /\ \E e \in NextReplayed : PutOnWire(e) /\ replay' = replay \ {e}
    /\ UNCHANGED <<queue, bufferVars, connVars, alive, writer, reader, sending, backendVars,
                   offered>>

ReplayDone ==
    /\ writer = "replay" /\ replay = {}
    /\ writer' = "top"
    /\ UNCHANGED <<queue, bufferVars, connVars, alive, reader, replay, sending, wire, backendVars,
                   offered>>

\* Variant with a bug: one envelope too many
CheckCapacity_OffByOne ==
    /\ writer = "top"
    /\ writer' = IF used =< Capacity THEN "recv" ELSE "full"
    /\ UNCHANGED <<queue, bufferVars, connVars, alive, reader, replay, sending, wire, backendVars,
                   offered>>

\* outbound_has_capacity decides what this round of the loop waits for
CheckCapacity ==
    /\ writer = "top"
    /\ writer' = IF used < Capacity THEN "recv" ELSE "full"
    /\ UNCHANGED <<queue, bufferVars, connVars, alive, reader, replay, sending, wire, backendVars,
                   offered>>

\* used_rx.changed(), also for the writer's own insertion
UsedChanged ==
    /\ writer = "full"
    /\ used_changed
    /\ used_changed' = FALSE
    /\ writer' = "top"
    /\ UNCHANGED <<queue, next_seq_id, outbound_buffer, used, log, connVars, alive, reader, replay,
                   sending, wire, backendVars, offered>>

\* An envelope is received and, under the mutex, numbered and buffered
Number ==
    /\ writer = "recv"
    /\ queue # <<>>
    /\ Head(queue).message \notin Unserializable
    /\ queue' = Tail(queue)
    /\ LET s == Head(queue).stream
           e == [stream |-> s, seq_id |-> next_seq_id[s], message |-> Head(queue).message] IN
          /\ next_seq_id' = [next_seq_id EXCEPT ![s] = next_seq_id[s] + 1]
          /\ log' = [log EXCEPT ![s] = Append(log[s], e.message)]
          /\ outbound_buffer' = outbound_buffer \cup {e}
          /\ sending' = e
    /\ used' = used + 1
    /\ used_changed' = TRUE
    /\ writer' = "send"
    /\ UNCHANGED <<connVars, alive, reader, replay, wire, backendVars, offered>>

\* An envelope that cannot be encoded is dropped before its number is taken
DropUnserializable ==
    /\ writer = "recv"
    /\ queue # <<>>
    /\ Head(queue).message \in Unserializable
    /\ queue' = Tail(queue)
    /\ writer' = "top"
    /\ UNCHANGED <<bufferVars, connVars, alive, reader, replay, sending, wire, backendVars, offered>>

Send ==
    /\ writer = "send"
    /\ PutOnWire(sending)
    /\ sending' = None
    /\ writer' = "top"
    /\ UNCHANGED <<queue, bufferVars, connVars, alive, reader, replay, backendVars, offered>>

BeingSent == NextReplayed \cup (IF sending = None THEN {} ELSE {sending})

\* Variant with a bug: the envelope is still to be sent
WriterEnds_KeepsSending ==
    /\ writer \in {"replay", "recv", "full", "send"}
    /\ cancelled \/ conn \notin alive
    /\ UNCHANGED wire \/ \E e \in BeingSent : PutOnWire(e)
    /\ writer' = "off"
    /\ replay' = {}
    /\ UNCHANGED <<queue, bufferVars, connVars, alive, reader, sending, backendVars, offered>>

\* Where the writer waits, it sees the token or the failure of a send or ping.  A
\* frame that was being sent may have gone out
WriterEnds ==
    /\ writer \in {"replay", "recv", "full", "send"}
    /\ cancelled \/ conn \notin alive
    /\ UNCHANGED wire \/ \E e \in BeingSent : PutOnWire(e)
    /\ writer' = "off"
    /\ replay' = {}
    /\ sending' = None
    /\ UNCHANGED <<queue, bufferVars, connVars, alive, reader, backendVars, offered>>

-----------------------------------------------------------------------------
(***************************************************************************)
(* run_websocket_reader_inner.                                             *)
(***************************************************************************)
Acked(s, n) == {e \in outbound_buffer : e.stream = s /\ e.seq_id =< n}

\* Variant with a bug: the envelope after the acknowledged one goes too
Ack_OffByOne(s, n) ==
    /\ reader
    /\ n =< received[s]
    /\ outbound_buffer' = outbound_buffer \ Acked(s, n + 1)
    /\ used' = used - Cardinality(Acked(s, n + 1))
    /\ used_changed' = (used_changed \/ Acked(s, n + 1) # {})
    /\ UNCHANGED <<queue, next_seq_id, log, connVars, alive, writerVars, reader, wire, backendVars,
                   offered>>

\* Variant with a bug: the writer is not told that there is room
Ack_Silent(s, n) ==
    /\ reader
    /\ n =< received[s]
    /\ outbound_buffer' = outbound_buffer \ Acked(s, n)
    /\ used' = used - Cardinality(Acked(s, n))
    /\ UNCHANGED <<queue, next_seq_id, used_changed, log, connVars, alive, writerVars, reader, wire,
                   backendVars, offered>>

\* An acknowledgement that the backend sent some time ago, on this connection
Ack(s, n) ==
    /\ reader
    /\ n =< received[s]
    /\ outbound_buffer' = outbound_buffer \ Acked(s, n)
    /\ used' = used - Cardinality(Acked(s, n))
    /\ used_changed' = (used_changed \/ Acked(s, n) # {})
    /\ UNCHANGED <<queue, next_seq_id, log, connVars, alive, writerVars, reader, wire, backendVars,
                   offered>>

\* The token, the end of the stream, a read error or the pong timeout
ReaderEnds ==
    /\ reader
    /\ cancelled \/ conn < MaxConns
    /\ reader' = FALSE
    /\ UNCHANGED <<queue, bufferVars, connVars, alive, writerVars, wire, backendVars, offered>>

-----------------------------------------------------------------------------
(***************************************************************************)
(* The backend (external): it takes what is new on a stream and moves its  *)
(* cursor, from whichever websocket the frame comes.                       *)
(***************************************************************************)
Receive(c) ==
    /\ wire[c] # <<>>
    /\ wire' = [wire EXCEPT ![c] = Tail(wire[c])]
    /\ LET e == Head(wire[c]) IN
          IF e.seq_id > received[e.stream]
          THEN /\ received' = [received EXCEPT ![e.stream] = e.seq_id]
               /\ got' = [got EXCEPT ![e.stream] = Append(got[e.stream], e.message)]
          ELSE UNCHANGED backendVars
    /\ UNCHANGED <<queue, bufferVars, connVars, alive, writerVars, reader, offered>>

-----------------------------------------------------------------------------
WriterStep == \/ Snapshot \/ Replay \/ ReplayDone \/ CheckCapacity \/ UsedChanged \/ Number
              \/ DropUnserializable \/ Send \/ WriterEnds

Next ==
    \/ \E s \in Streams, m \in Messages : Offer(s, m)
    \/ Connect \/ Cancel
    \/ \E c \in Conns : LinkFails(c) \/ Receive(c)
    \/ WriterStep
    \/ \E s \in Streams : \E n \in 1..received[s] : Ack(s, n)
    \/ ReaderEnds

Spec == Init /\ [][Next]_vars

\* The tasks run, a lost connection is replaced after the back-off, the frames of a
\* live link arrive, and the backend acknowledges what it has received.  This assumes
\* that remote control stays enabled and that the backend can be reached
Fairness ==
    /\ WF_vars(WriterStep)
    /\ WF_vars(cancelled /\ ReaderEnds)
    /\ WF_vars(TaskEnded /\ Cancel)
    /\ WF_vars(Connect)
    /\ \A c \in Conns : WF_vars(Receive(c))
    /\ \A s \in Streams : WF_vars(Ack(s, received[s]))

FairSpec == Spec /\ Fairness

-----------------------------------------------------------------------------
(***************************************************************************)
(* Properties.                                                             *)
(***************************************************************************)

\* The value of the watch channel is the number of buffered envelopes, whichever
\* task changed the buffer last, and never exceeds CHANNEL_CAPACITY.
BufferBound == used = Cardinality(outbound_buffer) /\ used =< Capacity

\* Until the backend has a message, the buffer keeps it: an acknowledgement, a
\* writer that ends in the middle of a send or a lost frame never loses the only
\* copy.
UnackedKept ==
    \A s \in Streams : \A n \in (received[s] + 1)..(next_seq_id[s] - 1) :
        \E e \in outbound_buffer : e.stream = s /\ e.seq_id = n

\* The backend receives every stream in order, once and without gaps, over any
\* number of replaced connections and late frames: the transport implements
\* reliable streams.
Reliable == INSTANCE ReliableStreams WITH log <- log, got <- got
StreamsReliable == Reliable!Spec

\* A message that was put into the channel reaches the backend: no connection loss
\* leaves the writer waiting for room that it will not be told of.
Delivered ==
    \A m \in Messages \ Unserializable :
        m \in offered ~> \E s \in Streams : \E n \in 1..Len(got[s]) : got[s][n] = m

=============================================================================
