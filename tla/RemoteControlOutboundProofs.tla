--------------------- MODULE RemoteControlOutboundProofs ---------------------
(***************************************************************************)
(* For any streams, messages, capacity and number of connections: the      *)
(* buffer is bounded and keeps what the backend has not received, and the  *)
(* transport implements reliable streams.                                  *)
(*                                                                         *)
(* The argument: whatever is on a wire follows without a gap on what the   *)
(* backend has (NoGaps), because a live connection has, between the wire,  *)
(* the replay and the envelope being sent, everything the backend lacks    *)
(* (OnTheWay), because the buffer has it (UnackedKept).                    *)
(***************************************************************************)
EXTENDS RemoteControlOutbound, FiniteSetTheorems, SequenceTheorems, TLAPS

\* An envelope carries the message that has its number in the log of its stream
Genuine(e) ==
    /\ e.seq_id \in 1..Len(log[e.stream])
    /\ e.message = log[e.stream][e.seq_id]

EnvelopesGenuine ==
    /\ \A s \in Streams : Len(log[s]) = next_seq_id[s] - 1
    /\ \A e \in outbound_buffer : Genuine(e)
    /\ \A e \in replay : Genuine(e)
    /\ sending # None => Genuine(sending) /\ sending.seq_id = Len(log[sending.stream])
    /\ \A c \in Conns : \A i \in 1..Len(wire[c]) : Genuine(wire[c][i])

\* The backend's cursor is at the end of a prefix of the log
GotPrefix ==
    \A s \in Streams :
        /\ received[s] = Len(got[s])
        /\ received[s] =< Len(log[s])
        /\ \A n \in 1..received[s] : got[s][n] = log[s][n]

\* A message waits in the channel once, and has no number yet
QueueFresh ==
    /\ \A i \in 1..Len(queue) : queue[i].message \in offered
    /\ \A s \in Streams : \A n \in 1..Len(log[s]) : log[s][n] \in offered
    /\ \A i, j \in 1..Len(queue) : queue[i].message = queue[j].message => i = j
    /\ \A i \in 1..Len(queue) : \A s \in Streams : \A n \in 1..Len(log[s]) :
          log[s][n] # queue[i].message

\* Number n of stream s is e's
Has(e, s, n) == e.stream = s /\ e.seq_id = n

OnTheWay ==
    writer \notin {"off", "snapshot"} /\ conn \in alive =>
        \A s \in Streams : \A n \in (received[s] + 1)..Len(log[s]) :
            \/ \E e \in replay : Has(e, s, n)
            \/ sending # None /\ Has(sending, s, n)
            \/ \E i \in 1..Len(wire[conn]) : Has(wire[conn][i], s, n)

\* The i-th frame of a wire is the next for the backend, or follows on an earlier one
Follows(w, i) ==
    \/ w[i].seq_id =< received[w[i].stream] + 1
    \/ \E j \in 1..(i - 1) : Has(w[j], w[i].stream, w[i].seq_id - 1)

NoGaps == \A c \in Conns : \A i \in 1..Len(wire[c]) : Follows(wire[c], i)

Bounded ==
    /\ IsFiniteSet(outbound_buffer)
    /\ BufferBound
    /\ writer = "recv" => used < Capacity

StreamInv == EnvelopesGenuine /\ GotPrefix /\ UnackedKept /\ OnTheWay /\ NoGaps
IInv == TypeOK /\ Bounded /\ StreamInv /\ QueueFresh

-----------------------------------------------------------------------------
(***************************************************************************)
(* Sequences, element by element.                                          *)
(***************************************************************************)

\* What Append does to the channel, the wires and the logs.
LEMMA AppendElements ==
    ASSUME NEW S, NEW w \in Seq(S), NEW e \in S
    PROVE  /\ Append(w, e) \in Seq(S)
           /\ Len(w) \in Nat
           /\ Len(Append(w, e)) = Len(w) + 1
           /\ \A i \in 1..Len(w) : Append(w, e)[i] = w[i]
           /\ Append(w, e)[Len(w) + 1] = e
OBVIOUS

\* What receiving the first element does to the channel and the wires.
LEMMA TailElements ==
    ASSUME NEW S, NEW w \in Seq(S), w # <<>>
    PROVE  /\ Tail(w) \in Seq(S)
           /\ Head(w) \in S
           /\ Head(w) = w[1]
           /\ Len(w) \in Nat \ {0}
           /\ Len(Tail(w)) = Len(w) - 1
           /\ \A i \in 1..Len(Tail(w)) : Tail(w)[i] = w[i + 1]
OBVIOUS

-----------------------------------------------------------------------------
(***************************************************************************)
(* Types.                                                                  *)
(***************************************************************************)

\* The envelopes that may be on their way when the writer stops are envelopes.
LEMMA BeingSentType ==
    ASSUME TypeOK, NEW e \in BeingSent
    PROVE  e \in Envelopes
BY DEF TypeOK, BeingSent, NextReplayed

\* A frame is put on the current wire, or nowhere.
LEMMA PutOnWireType ==
    ASSUME TypeOK, NEW e \in Envelopes, conn \in Conns, PutOnWire(e)
    PROVE  wire' \in [Conns -> Seq(Envelopes)]
<1>1. wire[conn] \in Seq(Envelopes)
  BY DEF TypeOK
<1>2. Append(wire[conn], e) \in Seq(Envelopes)
  BY <1>1, AppendElements
<1> QED
  BY <1>2 DEF TypeOK, PutOnWire

\* The initial state is well typed.
LEMMA InitType == Init => TypeOK
<1> SUFFICES ASSUME Init  PROVE TypeOK
  OBVIOUS
<1>1. queue \in Seq(Items) /\ wire \in [Conns -> Seq(Envelopes)]
  BY DEF Init
<1>2. got \in [Streams -> Seq(Messages)] /\ log \in [Streams -> Seq(Messages)]
  BY DEF Init
<1>3. /\ next_seq_id \in [Streams -> Nat \ {0}] /\ received \in [Streams -> Nat]
      /\ conn \in 0..MaxConns /\ used \in Nat /\ alive \subseteq 1..conn
  BY MaxConnsAssumption DEF Init
<1> QED
  BY <1>1, <1>2, <1>3 DEF Init, TypeOK, WriterPcs

\* Every step of the transport keeps the state well typed.
LEMMA NextType ==
    ASSUME TypeOK, Bounded, [Next]_vars
    PROVE  TypeOK'
<1> USE MaxConnsAssumption, CapacityAssumption DEF WriterPcs
<1>1. ASSUME NEW s \in Streams, NEW m \in Messages, Offer(s, m)  PROVE TypeOK'
  <2>1. [stream |-> s, message |-> m] \in Items
    BY DEF Items
  <2>2. queue' \in Seq(Items)
    BY <1>1, <2>1, AppendElements DEF TypeOK, Offer
  <2> QED
    BY <1>1, <2>2 DEF TypeOK, Offer, bufferVars, connVars, writerVars, backendVars
<1>2. CASE Connect
  <2>1. conn + 1 \in Conns /\ conn' \in 0..MaxConns /\ alive' \subseteq 1..conn'
    BY <1>2 DEF TypeOK, Connect, Conns
  <2> QED
    BY <1>2, <2>1 DEF TypeOK, Connect, bufferVars, connVars, writerVars, backendVars
<1>3. CASE Cancel
  BY <1>3 DEF TypeOK, Cancel, bufferVars, connVars, writerVars, backendVars
<1>4. ASSUME NEW c \in Conns, LinkFails(c)  PROVE TypeOK'
  <2>1. wire' \in [Conns -> Seq(Envelopes)]
    BY <1>4 DEF TypeOK, LinkFails
  <2> QED
    BY <1>4, <2>1 DEF TypeOK, LinkFails, bufferVars, connVars, writerVars, backendVars
<1>5. ASSUME NEW c \in Conns, Receive(c)  PROVE TypeOK'
  <2>1. /\ wire[c] \in Seq(Envelopes) /\ wire[c] # <<>>
        /\ Tail(wire[c]) \in Seq(Envelopes) /\ Head(wire[c]) \in Envelopes
    BY <1>5, TailElements DEF TypeOK, Receive
  <2>2. wire' \in [Conns -> Seq(Envelopes)]
    BY <1>5, <2>1 DEF TypeOK, Receive
  <2>3. PICK e \in Envelopes : e = Head(wire[c])
    BY <2>1
  <2>4. e.stream \in Streams /\ e.seq_id \in Nat /\ e.message \in Messages
    BY DEF Envelopes
  <2>5. Append(got[e.stream], e.message) \in Seq(Messages)
    BY <2>4, AppendElements DEF TypeOK
  <2>6. received' \in [Streams -> Nat] /\ got' \in [Streams -> Seq(Messages)]
    BY <1>5, <2>3, <2>4, <2>5 DEF TypeOK, Receive, backendVars
  <2> QED
    BY <1>5, <2>2, <2>6 DEF TypeOK, Receive, bufferVars, connVars, writerVars, backendVars
<1>6. CASE Snapshot
  BY <1>6 DEF TypeOK, Snapshot, bufferVars, connVars, writerVars, backendVars
<1>7. CASE Replay
  <2>1. PICK e \in NextReplayed : PutOnWire(e) /\ replay' = replay \ {e}
    BY <1>7 DEF Replay
  <2>2. e \in Envelopes /\ conn \in Conns
    BY <1>7 DEF TypeOK, NextReplayed, Replay
  <2>3. wire' \in [Conns -> Seq(Envelopes)]
    BY <2>1, <2>2, PutOnWireType
  <2> QED
    BY <1>7, <2>1, <2>3 DEF TypeOK, Replay, bufferVars, connVars, writerVars, backendVars
<1>8. CASE ReplayDone
  BY <1>8 DEF TypeOK, ReplayDone, bufferVars, connVars, writerVars, backendVars
<1>9. CASE CheckCapacity
  BY <1>9 DEF TypeOK, CheckCapacity, bufferVars, connVars, writerVars, backendVars
<1>10. CASE UsedChanged
  BY <1>10 DEF TypeOK, UsedChanged, bufferVars, connVars, writerVars, backendVars
<1>11. CASE Number
  <2>1. Tail(queue) \in Seq(Items) /\ Head(queue) \in Items
    BY <1>11, TailElements DEF TypeOK, Number
  <2>2. PICK q \in Items : q = Head(queue)
    BY <2>1
  <2>3. q.stream \in Streams /\ q.message \in Messages
    BY DEF Items
  <2>4. next_seq_id[q.stream] \in Nat \ {0} /\ log[q.stream] \in Seq(Messages)
    BY <2>3 DEF TypeOK
  <2>5. [stream |-> q.stream, seq_id |-> next_seq_id[q.stream], message |-> q.message]
           \in Envelopes
    BY <2>3, <2>4 DEF Envelopes
  <2>6. Append(log[q.stream], q.message) \in Seq(Messages)
    BY <2>3, <2>4, AppendElements
  <2>7. /\ next_seq_id' = [next_seq_id EXCEPT ![q.stream] = next_seq_id[q.stream] + 1]
        /\ log' = [log EXCEPT ![q.stream] = Append(log[q.stream], q.message)]
        /\ sending' = [stream |-> q.stream, seq_id |-> next_seq_id[q.stream],
                       message |-> q.message]
        /\ outbound_buffer' = outbound_buffer \cup {sending'}
    BY <1>11, <2>2 DEF Number
  <2>8. next_seq_id' \in [Streams -> Nat \ {0}] /\ log' \in [Streams -> Seq(Messages)]
    <3>1. next_seq_id' \in [Streams -> Nat \ {0}]
      <4>1. next_seq_id \in [Streams -> Nat \ {0}] /\ next_seq_id[q.stream] + 1 \in Nat \ {0}
        BY <2>4 DEF TypeOK
      <4> QED
        BY <2>7, <4>1
    <3>2. log' \in [Streams -> Seq(Messages)]
      BY <2>6, <2>7 DEF TypeOK
    <3> QED
      BY <3>1, <3>2
  <2>9. sending' \in Envelopes /\ outbound_buffer' \subseteq Envelopes
    BY <2>5, <2>7 DEF TypeOK
  <2>10. /\ queue' \in Seq(Items) /\ used' \in Nat /\ used_changed' \in BOOLEAN
         /\ writer' = "send" /\ conn' \in Conns /\ conn' \in 0..MaxConns
         /\ replay' = {}
    BY <1>11, <2>1 DEF TypeOK, Number, connVars
  <2>11. UNCHANGED <<alive, conn, cancelled, reader, wire, received, got, offered>>
    BY <1>11 DEF Number, connVars, backendVars
  <2> QED
    BY <2>8, <2>9, <2>10, <2>11 DEF TypeOK
<1>12. CASE DropUnserializable
  <2>1. Tail(queue) \in Seq(Items)
    BY <1>12, TailElements DEF TypeOK, DropUnserializable
  <2> QED
    BY <1>12, <2>1 DEF TypeOK, DropUnserializable, bufferVars, connVars, writerVars, backendVars
<1>13. CASE Send
  <2>1. sending \in Envelopes /\ conn \in Conns
    BY <1>13 DEF TypeOK, Send
  <2>2. wire' \in [Conns -> Seq(Envelopes)]
    BY <1>13, <2>1, PutOnWireType DEF Send
  <2> QED
    BY <1>13, <2>2 DEF TypeOK, Send, bufferVars, connVars, writerVars, backendVars
<1>14. CASE WriterEnds
  <2>1. wire' \in [Conns -> Seq(Envelopes)]
    BY <1>14, BeingSentType, PutOnWireType DEF TypeOK, WriterEnds
  <2> QED
    BY <1>14, <2>1 DEF TypeOK, WriterEnds, bufferVars, connVars, writerVars, backendVars
<1>15. ASSUME NEW s \in Streams, NEW n \in 1..received[s], Ack(s, n)  PROVE TypeOK'
  <2>1. Acked(s, n) \subseteq outbound_buffer
    BY DEF Acked
  <2>2. IsFiniteSet(outbound_buffer) /\ used = Cardinality(outbound_buffer)
    BY DEF Bounded, BufferBound
  <2>3. /\ Cardinality(Acked(s, n)) \in Nat /\ Cardinality(outbound_buffer) \in Nat
        /\ Cardinality(Acked(s, n)) =< Cardinality(outbound_buffer)
    BY <2>1, <2>2, FS_Subset, FS_CardinalityType
  <2>4. used' \in Nat
    BY <1>15, <2>2, <2>3 DEF Ack
  <2> QED
    BY <1>15, <2>4 DEF TypeOK, Ack, bufferVars, connVars, writerVars, backendVars
<1>16. CASE ReaderEnds
  BY <1>16 DEF TypeOK, ReaderEnds, bufferVars, connVars, writerVars, backendVars
<1>17. CASE UNCHANGED vars
  BY <1>17 DEF TypeOK, vars, bufferVars, connVars, writerVars, backendVars
<1> QED
  BY <1>1, <1>2, <1>3, <1>4, <1>5, <1>6, <1>7, <1>8, <1>9, <1>10, <1>11, <1>12, <1>13, <1>14,
     <1>15, <1>16, <1>17 DEF Next, WriterStep

-----------------------------------------------------------------------------
(***************************************************************************)
(* The bound of the buffer.                                                *)
(***************************************************************************)

\* A number is given once: the envelope that is numbered is not in the buffer yet.
LEMMA NextBounded ==
    ASSUME TypeOK, Bounded, EnvelopesGenuine, [Next]_vars
    PROVE  Bounded'
<1> USE CapacityAssumption
<1>1. IsFiniteSet(outbound_buffer) /\ used = Cardinality(outbound_buffer) /\ used =< Capacity
      /\ used \in Nat
  BY DEF Bounded, BufferBound, TypeOK
<1>2. CASE Number
  <2>1. Head(queue) \in Items
    BY <1>2, TailElements DEF TypeOK, Number
  <2>2. PICK s \in Streams, e \in Envelopes :
           /\ e.stream = s /\ e.seq_id = next_seq_id[s]
           /\ outbound_buffer' = outbound_buffer \cup {e}
    <3>1. Head(queue).stream \in Streams /\ Head(queue).message \in Messages
      BY <2>1 DEF Items
    <3>2. next_seq_id[Head(queue).stream] \in Nat
      BY <3>1 DEF TypeOK
    <3> QED
      BY <1>2, <3>1, <3>2 DEF Number, Envelopes
  <2>3. e \notin outbound_buffer
    <3>1. Len(log[s]) = next_seq_id[s] - 1 /\ next_seq_id[s] \in Nat
      BY DEF EnvelopesGenuine, TypeOK
    <3> QED
      BY <2>2, <3>1 DEF EnvelopesGenuine, Genuine
  <2>4. IsFiniteSet(outbound_buffer') /\ Cardinality(outbound_buffer') = used + 1
    BY <1>1, <2>2, <2>3, FS_AddElement
  <2> QED
    BY <1>1, <1>2, <2>4 DEF Number, Bounded, BufferBound
<1>3. ASSUME NEW s \in Streams, NEW n \in 1..received[s], Ack(s, n)  PROVE Bounded'
  <2>1. Acked(s, n) \subseteq outbound_buffer
    BY DEF Acked
  <2>2. IsFiniteSet(Acked(s, n)) /\ Cardinality(Acked(s, n)) \in Nat
    BY <1>1, <2>1, FS_Subset, FS_CardinalityType
  <2>3. /\ IsFiniteSet(outbound_buffer \ Acked(s, n))
        /\ Cardinality(outbound_buffer \ Acked(s, n))
              = Cardinality(outbound_buffer) - Cardinality(outbound_buffer \cap Acked(s, n))
    BY <1>1, <2>2, FS_Difference
  <2>4. outbound_buffer \cap Acked(s, n) = Acked(s, n)
    BY <2>1
  <2>5. IsFiniteSet(outbound_buffer') /\ used' = Cardinality(outbound_buffer')
    BY <1>1, <1>3, <2>3, <2>4 DEF Ack
  <2>6. used' =< used
    BY <1>1, <1>3, <2>2 DEF Ack
  <2> QED
    BY <1>1, <1>3, <2>2, <2>5, <2>6 DEF Ack, Bounded, BufferBound, writerVars
<1>4. CASE CheckCapacity
  BY <1>1, <1>4 DEF CheckCapacity, bufferVars, Bounded, BufferBound
<1>5. ASSUME UNCHANGED <<outbound_buffer, used>>, writer' # "recv" \/ writer' = writer
      PROVE  Bounded'
  BY <1>5 DEF Bounded, BufferBound
<1> QED
  BY <1>2, <1>3, <1>4, <1>5 DEF Next, WriterStep, Offer, Connect, Cancel, LinkFails, Receive,
     Snapshot, Replay, ReplayDone, UsedChanged, DropUnserializable, Send, WriterEnds, ReaderEnds,
     vars, bufferVars, writerVars

-----------------------------------------------------------------------------
(***************************************************************************)
(* Streams.                                                                *)
(***************************************************************************)

\* Types of what the stream invariant speaks about.
LEMMA StreamTypes ==
    ASSUME TypeOK, EnvelopesGenuine
    PROVE  /\ \A s \in Streams : /\ received[s] \in Nat /\ next_seq_id[s] \in Nat \ {0}
                                 /\ log[s] \in Seq(Messages) /\ Len(log[s]) \in Nat
                                 /\ got[s] \in Seq(Messages) /\ Len(got[s]) \in Nat
                                 /\ next_seq_id[s] = Len(log[s]) + 1
           /\ \A c \in Conns : wire[c] \in Seq(Envelopes) /\ Len(wire[c]) \in Nat
           /\ \A c \in Conns : \A i \in 1..Len(wire[c]) : wire[c][i] \in Envelopes
<1>1. \A s \in Streams : /\ received[s] \in Nat /\ next_seq_id[s] \in Nat \ {0}
                         /\ log[s] \in Seq(Messages) /\ got[s] \in Seq(Messages)
  BY DEF TypeOK
<1>2. \A c \in Conns : wire[c] \in Seq(Envelopes)
  BY DEF TypeOK
<1>3. \A s \in Streams : Len(log[s]) = next_seq_id[s] - 1
  BY DEF EnvelopesGenuine
<1> QED
  BY <1>1, <1>2, <1>3

\* An envelope's parts.
LEMMA EnvelopeParts ==
    ASSUME NEW e \in Envelopes
    PROVE  e.stream \in Streams /\ e.seq_id \in Nat /\ e.message \in Messages
BY DEF Envelopes

\* What the writer is about to send follows on what is on the wire.
LEMMA SentInOrder ==
    ASSUME TypeOK, StreamInv, NEW e \in BeingSent, conn \in alive
    PROVE  \/ e.seq_id =< received[e.stream] + 1
           \/ \E j \in 1..Len(wire[conn]) : Has(wire[conn][j], e.stream, e.seq_id - 1)
<1> SUFFICES ASSUME ~(e.seq_id =< received[e.stream] + 1)
             PROVE  \E j \in 1..Len(wire[conn]) : Has(wire[conn][j], e.stream, e.seq_id - 1)
  OBVIOUS
<1>1. e \in Envelopes
  BY BeingSentType
<1>2. PICK s \in Streams, n \in Nat : s = e.stream /\ n = e.seq_id
  BY <1>1, EnvelopeParts
<1>3. received[s] \in Nat /\ Len(log[s]) \in Nat
  BY StreamTypes DEF StreamInv
<1>4. \/ writer = "replay" /\ e \in NextReplayed /\ sending = None
      \/ writer = "send" /\ e = sending /\ sending # None /\ replay = {}
  <2>1. CASE e \in NextReplayed
    <3>1. e \in replay
      BY <2>1 DEF NextReplayed
    <3>2. writer = "replay"
      BY <3>1 DEF TypeOK
    <3>3. sending = None
      BY <3>2 DEF TypeOK
    <3> QED
      BY <2>1, <3>2, <3>3
  <2>2. CASE e \notin NextReplayed
    <3>1. sending # None /\ e = sending
      BY <2>2 DEF BeingSent
    <3>2. writer = "send"
      BY <3>1 DEF TypeOK
    <3> QED
      BY <3>1, <3>2 DEF TypeOK
  <2> QED
    BY <2>1, <2>2
<1>5. n =< Len(log[s])
  BY <1>2, <1>4 DEF StreamInv, EnvelopesGenuine, Genuine, NextReplayed
<1>6. n - 1 \in (received[s] + 1)..Len(log[s])
  BY <1>2, <1>3, <1>5
<1>7. \/ \E f \in replay : Has(f, s, n - 1)
      \/ sending # None /\ Has(sending, s, n - 1)
      \/ \E i \in 1..Len(wire[conn]) : Has(wire[conn][i], s, n - 1)
  BY <1>4, <1>6 DEF StreamInv, OnTheWay
<1>8. ~ \E f \in replay : Has(f, s, n - 1)
  BY <1>2, <1>4 DEF NextReplayed, Has
<1>9. ~ (sending # None /\ Has(sending, s, n - 1))
  BY <1>2, <1>4 DEF Has
<1> QED
  BY <1>2, <1>7, <1>8, <1>9

\* Sending the next envelope keeps the wires genuine and without gaps, and moves no
\* frame.
LEMMA PutOnWireKeeps ==
    ASSUME TypeOK, StreamInv, NEW e \in BeingSent, PutOnWire(e), conn \in Conns,
           UNCHANGED <<log, received>>
    PROVE  /\ \A c \in Conns : \A i \in 1..Len(wire'[c]) : Genuine(wire[c][i])'
           /\ NoGaps'
           /\ Len(wire[conn]) =< Len(wire'[conn])
           /\ \A i \in 1..Len(wire[conn]) : wire'[conn][i] = wire[conn][i]
           /\ conn \in alive =>
                 Len(wire[conn]) + 1 \in 1..Len(wire'[conn]) /\ wire'[conn][Len(wire[conn]) + 1] = e
<1>1. \A c \in Conns : wire[c] \in Seq(Envelopes) /\ Len(wire[c]) \in Nat
  BY StreamTypes DEF StreamInv
<1>2. CASE conn \notin alive
  <2>1. wire' = wire
    BY <1>2 DEF PutOnWire
  <2>2. \A c \in Conns : \A i \in 1..Len(wire'[c]) : Genuine(wire[c][i])'
    BY <2>1 DEF StreamInv, EnvelopesGenuine, Genuine
  <2>3. NoGaps'
    BY <2>1 DEF StreamInv, NoGaps, Follows
  <2> QED
    BY <1>1, <1>2, <2>1, <2>2, <2>3
<1>3. CASE conn \in alive
  <2>1. e \in Envelopes
    BY BeingSentType
  <2>2. PICK w \in Seq(Envelopes) : w = wire[conn]
    BY <1>1
  <2>3. PICK v \in Seq(Envelopes) : v = Append(w, e)
    BY <2>1, <2>2, AppendElements
  <2>4. /\ Len(w) \in Nat /\ Len(v) = Len(w) + 1 /\ v[Len(w) + 1] = e
        /\ \A i \in 1..Len(w) : v[i] = w[i]
    BY <2>1, <2>3, AppendElements
  <2>5. wire'[conn] = v /\ \A c \in Conns : c # conn => wire'[c] = wire[c]
    BY <1>3, <2>2, <2>3 DEF PutOnWire, TypeOK
  <2>6. Genuine(e)
    BY NoneAssumption DEF StreamInv, EnvelopesGenuine, BeingSent, NextReplayed
  <2>7. \/ e.seq_id =< received[e.stream] + 1
        \/ \E j \in 1..Len(w) : Has(w[j], e.stream, e.seq_id - 1)
    BY <1>3, <2>2, SentInOrder
  <2>8. ASSUME NEW c \in Conns, NEW i \in 1..Len(wire'[c])
        PROVE  Genuine(wire[c][i])' /\ Follows(wire[c], i)'
    <3>1. CASE c # conn
      <4>1. wire'[c] = wire[c]
        BY <2>5, <3>1
      <4>2. Genuine(wire[c][i]) /\ Follows(wire[c], i)
        BY <2>8, <4>1 DEF StreamInv, EnvelopesGenuine, NoGaps
      <4> QED
        BY <4>1, <4>2 DEF Genuine, Follows
    <3>2. CASE c = conn /\ i = Len(w) + 1
      <4>1. wire'[c] = v /\ v[i] = e
        BY <2>4, <2>5, <3>2
      <4>2. i - 1 = Len(w) /\ \A j \in 1..(i - 1) : v[j] = w[j]
        BY <2>4, <3>2
      <4>3. Genuine(wire[c][i])'
        BY <2>6, <4>1 DEF Genuine
      <4>4. Follows(wire[c], i)'
        BY <2>7, <4>1, <4>2 DEF Follows, Has
      <4> QED
        BY <4>3, <4>4
    <3>3. CASE c = conn /\ i # Len(w) + 1
      <4>1. i \in 1..Len(w) /\ wire'[c] = v /\ wire[c] = w
        BY <2>2, <2>4, <2>5, <3>3
      <4>2. v[i] = w[i] /\ \A j \in 1..(i - 1) : v[j] = w[j]
        BY <2>4, <4>1
      <4>3. Genuine(w[i]) /\ Follows(w, i)
        BY <4>1 DEF StreamInv, EnvelopesGenuine, NoGaps
      <4> QED
        BY <4>1, <4>2, <4>3 DEF Genuine, Follows
    <3> QED
      BY <3>1, <3>2, <3>3
  <2> QED
    BY <1>3, <2>2, <2>4, <2>5, <2>8 DEF NoGaps
<1> QED
  BY <1>2, <1>3

\* Steps that leave the streams alone: at most the writer moves on.
LEMMA QuietKeepsStreams ==
    ASSUME TypeOK, StreamInv,
           UNCHANGED <<next_seq_id, outbound_buffer, log, received, got, wire, replay, sending>>,
           \/ writer' \in {"off", "snapshot"}
           \/ writer \notin {"off", "snapshot"} /\ UNCHANGED <<conn, alive>>
    PROVE  StreamInv'
<1>1. EnvelopesGenuine' /\ GotPrefix' /\ UnackedKept'
  BY DEF StreamInv, EnvelopesGenuine, Genuine, GotPrefix, UnackedKept
<1>2. NoGaps'
  BY DEF StreamInv, NoGaps, Follows
<1>3. OnTheWay'
  BY DEF StreamInv, OnTheWay
<1> QED
  BY <1>1, <1>2, <1>3 DEF StreamInv

\* A new writer starts from the whole buffer, which has what the backend lacks.
LEMMA SnapshotKeepsStreams ==
    ASSUME TypeOK, StreamInv, Snapshot
    PROVE  StreamInv'
<1>1. UNCHANGED <<next_seq_id, outbound_buffer, log, received, got, wire, sending>>
      /\ replay' = outbound_buffer
  BY DEF Snapshot, bufferVars, backendVars
<1>2. EnvelopesGenuine' /\ GotPrefix' /\ UnackedKept'
  BY <1>1 DEF StreamInv, EnvelopesGenuine, Genuine, GotPrefix, UnackedKept
<1>3. NoGaps'
  BY <1>1 DEF StreamInv, NoGaps, Follows
<1>4. ASSUME NEW s \in Streams, NEW n \in (received[s] + 1)..Len(log[s])
      PROVE  \E e \in replay' : Has(e, s, n)
  <2>1. n \in (received[s] + 1)..(next_seq_id[s] - 1)
    BY <1>4 DEF StreamInv, EnvelopesGenuine
  <2> QED
    BY <1>1, <2>1 DEF StreamInv, UnackedKept, Has
<1>5. OnTheWay'
  BY <1>1, <1>4 DEF OnTheWay
<1> QED
  BY <1>2, <1>3, <1>5 DEF StreamInv

\* An envelope moves from the replay to the wire.
LEMMA ReplayKeepsStreams ==
    ASSUME TypeOK, StreamInv, Replay
    PROVE  StreamInv'
<1>1. PICK e \in NextReplayed : PutOnWire(e) /\ replay' = replay \ {e}
  BY DEF Replay
<1>2. UNCHANGED <<next_seq_id, outbound_buffer, log, received, got, sending, conn, alive, writer>>
  BY DEF Replay, bufferVars, backendVars, connVars
<1>3. e \in BeingSent /\ conn \in Conns /\ writer = "replay"
  BY DEF BeingSent, Replay, TypeOK
<1>4. /\ \A c \in Conns : \A i \in 1..Len(wire'[c]) : Genuine(wire[c][i])'
      /\ NoGaps'
      /\ Len(wire[conn]) =< Len(wire'[conn])
      /\ \A i \in 1..Len(wire[conn]) : wire'[conn][i] = wire[conn][i]
      /\ conn \in alive =>
            Len(wire[conn]) + 1 \in 1..Len(wire'[conn]) /\ wire'[conn][Len(wire[conn]) + 1] = e
  BY <1>1, <1>2, <1>3, PutOnWireKeeps
<1>5. Len(wire[conn]) \in Nat /\ Len(wire'[conn]) \in Nat
  <2>1. e \in Envelopes
    BY <1>3, BeingSentType
  <2>2. wire' \in [Conns -> Seq(Envelopes)] /\ wire \in [Conns -> Seq(Envelopes)]
    BY <1>1, <1>3, <2>1, PutOnWireType DEF TypeOK
  <2> QED
    BY <1>3, <2>2
<1>6. EnvelopesGenuine'
  BY <1>1, <1>2, <1>4 DEF StreamInv, EnvelopesGenuine, Genuine
<1>7. GotPrefix' /\ UnackedKept'
  BY <1>2 DEF StreamInv, GotPrefix, UnackedKept
<1>8. ASSUME conn \in alive, NEW s \in Streams, NEW n \in (received[s] + 1)..Len(log[s])
      PROVE  \/ \E f \in replay' : Has(f, s, n)
             \/ sending # None /\ Has(sending, s, n)
             \/ \E i \in 1..Len(wire'[conn]) : Has(wire'[conn][i], s, n)
  <2>1. \/ \E f \in replay : Has(f, s, n)
        \/ sending # None /\ Has(sending, s, n)
        \/ \E i \in 1..Len(wire[conn]) : Has(wire[conn][i], s, n)
    BY <1>3, <1>8 DEF StreamInv, OnTheWay
  <2>2. CASE \E i \in 1..Len(wire[conn]) : Has(wire[conn][i], s, n)
    <3>1. PICK i \in 1..Len(wire[conn]) : Has(wire[conn][i], s, n)
      BY <2>2
    <3>2. i \in 1..Len(wire'[conn]) /\ wire'[conn][i] = wire[conn][i]
      BY <1>4, <1>5
    <3> QED
      BY <3>1, <3>2
  <2>3. CASE \E f \in replay : Has(f, s, n)
    BY <1>1, <1>4, <1>8, <2>3
  <2> QED
    BY <2>1, <2>2, <2>3
<1>9. OnTheWay'
  BY <1>2, <1>8 DEF OnTheWay
<1> QED
  BY <1>4, <1>6, <1>7, <1>9 DEF StreamInv

\* The numbered envelope moves to the wire.
LEMMA SendKeepsStreams ==
    ASSUME TypeOK, StreamInv, Send
    PROVE  StreamInv'
<1>1. PutOnWire(sending) /\ sending' = None
  BY DEF Send
<1>2. UNCHANGED <<next_seq_id, outbound_buffer, log, received, got, replay, conn, alive>>
  BY DEF Send, bufferVars, backendVars, connVars
<1>3. sending \in Envelopes /\ conn \in Conns /\ writer = "send"
  BY DEF Send, TypeOK
<1>4. sending \in BeingSent
  BY <1>3, NoneAssumption DEF BeingSent, Envelopes
<1>5. /\ \A c \in Conns : \A i \in 1..Len(wire'[c]) : Genuine(wire[c][i])'
      /\ NoGaps'
      /\ Len(wire[conn]) =< Len(wire'[conn])
      /\ \A i \in 1..Len(wire[conn]) : wire'[conn][i] = wire[conn][i]
      /\ conn \in alive => /\ Len(wire[conn]) + 1 \in 1..Len(wire'[conn])
                           /\ wire'[conn][Len(wire[conn]) + 1] = sending
  BY <1>1, <1>2, <1>3, <1>4, PutOnWireKeeps
<1>6. Len(wire[conn]) \in Nat /\ Len(wire'[conn]) \in Nat
  <2>1. wire' \in [Conns -> Seq(Envelopes)] /\ wire \in [Conns -> Seq(Envelopes)]
    BY <1>1, <1>3, PutOnWireType DEF TypeOK
  <2> QED
    BY <1>3, <2>1
<1>7. EnvelopesGenuine'
  BY <1>1, <1>2, <1>5 DEF StreamInv, EnvelopesGenuine, Genuine
<1>8. GotPrefix' /\ UnackedKept'
  BY <1>2 DEF StreamInv, GotPrefix, UnackedKept
<1>9. ASSUME conn \in alive, NEW s \in Streams, NEW n \in (received[s] + 1)..Len(log[s])
      PROVE  \/ \E f \in replay' : Has(f, s, n)
             \/ \E i \in 1..Len(wire'[conn]) : Has(wire'[conn][i], s, n)
  <2>1. \/ \E f \in replay : Has(f, s, n)
        \/ sending # None /\ Has(sending, s, n)
        \/ \E i \in 1..Len(wire[conn]) : Has(wire[conn][i], s, n)
    BY <1>3, <1>9 DEF StreamInv, OnTheWay
  <2>2. CASE \E i \in 1..Len(wire[conn]) : Has(wire[conn][i], s, n)
    <3>1. PICK i \in 1..Len(wire[conn]) : Has(wire[conn][i], s, n)
      BY <2>2
    <3>2. i \in 1..Len(wire'[conn]) /\ wire'[conn][i] = wire[conn][i]
      BY <1>5, <1>6
    <3> QED
      BY <3>1, <3>2
  <2>3. CASE Has(sending, s, n)
    BY <1>5, <1>9, <2>3
  <2> QED
    BY <1>2, <2>1, <2>2, <2>3
<1>10. OnTheWay'
  BY <1>2, <1>9 DEF OnTheWay
<1> QED
  BY <1>5, <1>7, <1>8, <1>10 DEF StreamInv

\* A writer that stops may have sent one more envelope.
LEMMA WriterEndsKeepsStreams ==
    ASSUME TypeOK, StreamInv, WriterEnds
    PROVE  StreamInv'
<1>1. /\ UNCHANGED <<next_seq_id, outbound_buffer, log, received, got, conn, alive>>
      /\ replay' = {} /\ sending' = None /\ writer' = "off" /\ conn \in Conns
  BY DEF WriterEnds, bufferVars, backendVars, connVars, TypeOK
<1>2. (\A c \in Conns : \A i \in 1..Len(wire'[c]) : Genuine(wire[c][i])') /\ NoGaps'
  <2>1. CASE UNCHANGED wire
    <3>1. \A c \in Conns : \A i \in 1..Len(wire'[c]) : Genuine(wire[c][i])'
      BY <1>1, <2>1 DEF StreamInv, EnvelopesGenuine, Genuine
    <3>2. NoGaps'
      BY <1>1, <2>1 DEF StreamInv, NoGaps, Follows
    <3> QED
      BY <3>1, <3>2
  <2>2. ASSUME NEW e \in BeingSent, PutOnWire(e)
        PROVE  (\A c \in Conns : \A i \in 1..Len(wire'[c]) : Genuine(wire[c][i])') /\ NoGaps'
    BY <1>1, <2>2, PutOnWireKeeps
  <2> QED
    BY <2>1, <2>2 DEF WriterEnds
<1>3. EnvelopesGenuine'
  BY <1>1, <1>2 DEF StreamInv, EnvelopesGenuine, Genuine
<1>4. GotPrefix' /\ UnackedKept' /\ OnTheWay'
  BY <1>1 DEF StreamInv, GotPrefix, UnackedKept, OnTheWay
<1> QED
  BY <1>2, <1>3, <1>4 DEF StreamInv

\* The log of a stream and its last number grow together, and the envelope being
\* sent has that number.
LEMMA NumberKeepsStreams ==
    ASSUME TypeOK, StreamInv, Number
    PROVE  StreamInv'
<1>1. Head(queue) \in Items
  BY TailElements DEF TypeOK, Number
<1>2. PICK s \in Streams, m \in Messages : s = Head(queue).stream /\ m = Head(queue).message
  BY <1>1 DEF Items
<1>3. /\ next_seq_id[s] \in Nat /\ next_seq_id[s] = Len(log[s]) + 1 /\ log[s] \in Seq(Messages)
      /\ \A t \in Streams : Len(log[t]) \in Nat /\ received[t] \in Nat
  BY StreamTypes DEF StreamInv
<1>4. PICK e \in Envelopes : e = [stream |-> s, seq_id |-> next_seq_id[s], message |-> m]
  BY <1>2, <1>3 DEF Envelopes
<1>5. /\ next_seq_id' = [next_seq_id EXCEPT ![s] = next_seq_id[s] + 1]
      /\ log' = [log EXCEPT ![s] = Append(log[s], m)]
      /\ outbound_buffer' = outbound_buffer \cup {e}
      /\ sending' = e
  BY <1>2, <1>4 DEF Number
<1>6. UNCHANGED <<received, got, wire, replay, conn, alive>>
  BY DEF Number, connVars, backendVars
<1>7. sending = None /\ writer = "recv"
  BY DEF TypeOK, Number
<1>8. /\ Len(log'[s]) = Len(log[s]) + 1 /\ log'[s][Len(log[s]) + 1] = m
      /\ \A n \in 1..Len(log[s]) : log'[s][n] = log[s][n]
      /\ \A t \in Streams \ {s} : log'[t] = log[t] /\ next_seq_id'[t] = next_seq_id[t]
      /\ next_seq_id'[s] = Len(log'[s]) + 1
  BY <1>2, <1>3, <1>5, AppendElements DEF TypeOK
<1>9. \A t \in Streams : /\ Len(log[t]) =< Len(log'[t])
                         /\ \A n \in 1..Len(log[t]) : log'[t][n] = log[t][n]
  BY <1>3, <1>8
<1>10. ASSUME NEW f \in Envelopes, Genuine(f)  PROVE Genuine(f)'
  BY <1>3, <1>8, <1>9, <1>10, EnvelopeParts DEF Genuine
<1>11. Genuine(e)' /\ e.seq_id = Len(log'[e.stream])
  BY <1>3, <1>4, <1>8 DEF Genuine
<1>12. EnvelopesGenuine'
  <2>1. \A t \in Streams : Len(log'[t]) = next_seq_id'[t] - 1
    BY <1>3, <1>8 DEF StreamInv, EnvelopesGenuine
  <2>2. \A f \in outbound_buffer' : Genuine(f)'
    BY <1>5, <1>10, <1>11 DEF StreamInv, EnvelopesGenuine, TypeOK
  <2>3. \A f \in replay' : Genuine(f)'
    BY <1>6, <1>10 DEF StreamInv, EnvelopesGenuine, TypeOK
  <2>4. \A c \in Conns : \A i \in 1..Len(wire'[c]) : Genuine(wire[c][i])'
    <3> SUFFICES ASSUME NEW c \in Conns, NEW i \in 1..Len(wire[c])  PROVE Genuine(wire[c][i])'
      BY <1>6
    <3>1. PICK f \in Envelopes : f = wire[c][i]
      BY StreamTypes DEF StreamInv
    <3>2. Genuine(f)
      BY <3>1 DEF StreamInv, EnvelopesGenuine
    <3> QED
      BY <1>6, <1>10, <3>1, <3>2 DEF Genuine
  <2>5. Genuine(sending)' /\ sending'.seq_id = Len(log'[sending'.stream])
    BY <1>5, <1>11 DEF Genuine
  <2> QED
    BY <2>1, <2>2, <2>3, <2>4, <2>5 DEF EnvelopesGenuine
<1>13. GotPrefix'
  <2> SUFFICES ASSUME NEW t \in Streams
               PROVE  /\ received[t] = Len(got[t]) /\ received[t] =< Len(log'[t])
                      /\ \A n \in 1..received[t] : got[t][n] = log'[t][n]
    BY <1>6 DEF GotPrefix
  <2>1. /\ received[t] = Len(got[t]) /\ received[t] =< Len(log[t])
        /\ \A n \in 1..received[t] : got[t][n] = log[t][n]
    BY DEF StreamInv, GotPrefix
  <2>2. \A n \in 1..received[t] : n \in 1..Len(log[t])
    BY <1>3, <2>1
  <2>3. received[t] =< Len(log'[t])
    <3>1. Len(log'[t]) \in Nat
      BY <1>3, <1>8
    <3> QED
      BY <1>3, <1>9, <2>1, <3>1
  <2> QED
    BY <1>9, <2>1, <2>2, <2>3
<1>14. UnackedKept'
  <2> SUFFICES ASSUME NEW t \in Streams, NEW n \in (received[t] + 1)..(next_seq_id'[t] - 1)
               PROVE  \E f \in outbound_buffer' : f.stream = t /\ f.seq_id = n
    BY <1>6 DEF UnackedKept
  <2>1. CASE t = s /\ n = next_seq_id[s]
    BY <1>4, <1>5, <2>1
  <2>2. CASE ~ (t = s /\ n = next_seq_id[s])
    <3>1. n \in (received[t] + 1)..(next_seq_id[t] - 1)
      BY <1>3, <1>8, <2>2 DEF TypeOK
    <3> QED
      BY <1>5, <3>1 DEF StreamInv, UnackedKept
  <2> QED
    BY <2>1, <2>2
<1>15. OnTheWay'
  <2> SUFFICES ASSUME conn \in alive, NEW t \in Streams,
                      NEW n \in (received[t] + 1)..Len(log'[t])
               PROVE  \/ \E f \in replay : Has(f, t, n)
                      \/ sending' # None /\ Has(sending', t, n)
                      \/ \E i \in 1..Len(wire[conn]) : Has(wire[conn][i], t, n)
    BY <1>6 DEF OnTheWay
  <2>1. CASE t = s /\ n = next_seq_id[s]
    <3>1. sending' # None
      BY <1>5, NoneAssumption DEF Envelopes
    <3> QED
      BY <1>4, <1>5, <2>1, <3>1 DEF Has
  <2>2. CASE ~ (t = s /\ n = next_seq_id[s])
    <3>1. n \in (received[t] + 1)..Len(log[t])
      BY <1>3, <1>8, <2>2
    <3> QED
      BY <1>7, <3>1 DEF StreamInv, OnTheWay
  <2> QED
    BY <2>1, <2>2
<1>16. NoGaps'
  BY <1>6 DEF StreamInv, NoGaps, Follows
<1> QED
  BY <1>12, <1>13, <1>14, <1>15, <1>16 DEF StreamInv

\* The buffer gives up only what the backend has.
LEMMA AckKeepsStreams ==
    ASSUME TypeOK, StreamInv, NEW s \in Streams, NEW n \in 1..received[s], Ack(s, n)
    PROVE  StreamInv'
<1>1. UNCHANGED <<next_seq_id, log, received, got, wire, replay, sending, writer, conn, alive>>
      /\ outbound_buffer' = outbound_buffer \ Acked(s, n)
  BY DEF Ack, connVars, writerVars, backendVars
<1>2. EnvelopesGenuine' /\ GotPrefix'
  BY <1>1 DEF StreamInv, EnvelopesGenuine, Genuine, GotPrefix
<1>3. NoGaps'
  BY <1>1 DEF StreamInv, NoGaps, Follows
<1>4. OnTheWay'
  BY <1>1 DEF StreamInv, OnTheWay
<1>5. UnackedKept'
  <2> SUFFICES ASSUME NEW t \in Streams, NEW k \in (received[t] + 1)..(next_seq_id[t] - 1)
               PROVE  \E e \in outbound_buffer' : e.stream = t /\ e.seq_id = k
    BY <1>1 DEF UnackedKept
  <2>1. PICK e \in outbound_buffer : e.stream = t /\ e.seq_id = k
    BY DEF StreamInv, UnackedKept
  <2>2. e \notin Acked(s, n)
    BY <2>1 DEF Acked, TypeOK
  <2> QED
    BY <1>1, <2>1, <2>2
<1> QED
  BY <1>2, <1>3, <1>4, <1>5 DEF StreamInv

\* A link that breaks takes its wire along.
LEMMA LinkFailsKeepsStreams ==
    ASSUME TypeOK, StreamInv, NEW c \in Conns, LinkFails(c)
    PROVE  StreamInv'
<1>1. /\ UNCHANGED <<next_seq_id, outbound_buffer, log, received, got, replay, sending, writer, conn>>
      /\ alive' = alive \ {c}
      /\ wire'[c] = <<>> /\ \A d \in Conns \ {c} : wire'[d] = wire[d]
  BY DEF LinkFails, bufferVars, connVars, writerVars, backendVars, TypeOK
<1>2. Len(wire'[c]) = 0
  BY <1>1
<1>3. \A d \in Conns : \A i \in 1..Len(wire'[d]) : wire'[d] = wire[d]
  BY <1>1, <1>2
<1>4. EnvelopesGenuine'
  <2>1. ASSUME NEW d \in Conns, NEW i \in 1..Len(wire'[d])  PROVE Genuine(wire[d][i])'
    <3>1. wire'[d] = wire[d]
      BY <1>3, <2>1
    <3>2. Genuine(wire[d][i])
      BY <2>1, <3>1 DEF StreamInv, EnvelopesGenuine
    <3> QED
      BY <1>1, <3>1, <3>2 DEF Genuine
  <2> QED
    BY <1>1, <2>1 DEF StreamInv, EnvelopesGenuine, Genuine
<1>5. GotPrefix' /\ UnackedKept'
  BY <1>1 DEF StreamInv, GotPrefix, UnackedKept
<1>6. NoGaps'
  BY <1>1, <1>3 DEF StreamInv, NoGaps, Follows
<1>7. OnTheWay'
  <2>1. conn \in alive' => conn \in alive /\ conn \in Conns /\ wire'[conn] = wire[conn]
    BY <1>1, MaxConnsAssumption DEF TypeOK, Conns
  <2> QED
    BY <1>1, <2>1 DEF StreamInv, OnTheWay
<1> QED
  BY <1>4, <1>5, <1>6, <1>7 DEF StreamInv

\* The first frame of a wire is old, or the very next of its stream.
LEMMA ReceiveKeepsStreams ==
    ASSUME TypeOK, StreamInv, NEW c \in Conns, Receive(c)
    PROVE  StreamInv'
<1>1. PICK w \in Seq(Envelopes) : w = wire[c] /\ w # <<>>
  BY DEF TypeOK, Receive
<1>2. PICK v \in Seq(Envelopes) : v = Tail(w)
  BY <1>1, TailElements
<1>3. PICK e \in Envelopes : e = Head(w)
  BY <1>1, TailElements
<1>4. /\ Len(w) \in Nat \ {0} /\ Len(v) = Len(w) - 1 /\ e = w[1]
      /\ \A i \in 1..Len(v) : v[i] = w[i + 1]
  BY <1>1, <1>2, <1>3, TailElements
<1>5. wire'[c] = v /\ \A d \in Conns \ {c} : wire'[d] = wire[d]
  BY <1>1, <1>2 DEF Receive, TypeOK
<1>6. UNCHANGED <<next_seq_id, outbound_buffer, log, replay, sending, writer, conn, alive>>
  BY DEF Receive, bufferVars, connVars, writerVars
<1>7. PICK s \in Streams, q \in Nat : s = e.stream /\ q = e.seq_id
  BY EnvelopeParts
<1>8. \A t \in Streams : /\ received[t] \in Nat /\ Len(log[t]) \in Nat
                         /\ next_seq_id[t] = Len(log[t]) + 1 /\ got[t] \in Seq(Messages)
  BY StreamTypes DEF StreamInv
<1>9. q =< received[s] + 1 /\ q \in 1..Len(log[s]) /\ e.message = log[s][q]
  <2>1. Genuine(w[1]) /\ Follows(w, 1)
    BY <1>1, <1>4 DEF StreamInv, EnvelopesGenuine, NoGaps
  <2> QED
    BY <1>4, <1>7, <2>1 DEF Follows, Genuine
<1>10. \/ q =< received[s] /\ UNCHANGED <<received, got>>
       \/ /\ q = received[s] + 1
          /\ received' = [received EXCEPT ![s] = q]
          /\ got' = [got EXCEPT ![s] = Append(got[s], log[s][q])]
  <2>1. received[s] \in Nat /\ e = Head(wire[c])
    BY <1>1, <1>3, <1>8
  <2>2. CASE q > received[s]
    <3>1. /\ received' = [received EXCEPT ![s] = q]
          /\ got' = [got EXCEPT ![s] = Append(got[s], log[s][q])]
      BY <1>7, <1>9, <2>1, <2>2 DEF Receive
    <3> QED
      BY <1>9, <2>1, <2>2, <3>1
  <2>3. CASE ~ (q > received[s])
    <3>1. UNCHANGED <<received, got>>
      BY <1>7, <2>1, <2>3 DEF Receive, backendVars
    <3> QED
      BY <2>1, <2>3, <3>1
  <2> QED
    BY <2>2, <2>3
<1>11. /\ q =< received'[s] /\ received'[s] \in Nat
       /\ \A t \in Streams : received'[t] \in Nat /\ received[t] =< received'[t]
  <2>1. received \in [Streams -> Nat]
    BY DEF TypeOK
  <2>2. CASE q =< received[s] /\ received' = received
    BY <2>1, <2>2
  <2>3. CASE q = received[s] + 1 /\ received' = [received EXCEPT ![s] = q]
    <3>1. received'[s] = q /\ \A t \in Streams \ {s} : received'[t] = received[t]
      BY <2>1, <2>3
    <3> QED
      BY <1>8, <2>3, <3>1
  <2> QED
    BY <1>10, <2>2, <2>3
<1>12. EnvelopesGenuine'
  <2>1. ASSUME NEW d \in Conns, NEW i \in 1..Len(wire'[d])  PROVE Genuine(wire[d][i])'
    <3>1. CASE d # c
      <4>1. wire'[d] = wire[d]
        BY <1>5, <3>1
      <4> QED
        BY <1>6, <2>1, <4>1 DEF StreamInv, EnvelopesGenuine, Genuine
    <3>2. CASE d = c
      <4>1. i + 1 \in 1..Len(wire[c]) /\ wire'[d][i] = wire[c][i + 1]
        BY <1>1, <1>4, <1>5, <2>1, <3>2
      <4>2. Genuine(wire[c][i + 1])
        BY <4>1 DEF StreamInv, EnvelopesGenuine
      <4> QED
        BY <1>6, <4>1, <4>2 DEF Genuine
    <3> QED
      BY <3>1, <3>2
  <2> QED
    BY <1>6, <2>1 DEF StreamInv, EnvelopesGenuine, Genuine
<1>13. GotPrefix'
  <2> SUFFICES ASSUME NEW t \in Streams
               PROVE  /\ received'[t] = Len(got'[t])
                      /\ received'[t] =< Len(log[t])
                      /\ \A n \in 1..received'[t] : got'[t][n] = log[t][n]
    BY <1>6 DEF GotPrefix
  <2>1. /\ received[t] = Len(got[t]) /\ received[t] =< Len(log[t])
        /\ \A n \in 1..received[t] : got[t][n] = log[t][n]
    BY DEF StreamInv, GotPrefix
  <2>2. CASE received'[t] = received[t] /\ got'[t] = got[t]
    BY <2>1, <2>2
  <2>3. CASE /\ t = s /\ q = received[s] + 1
             /\ received'[s] = q /\ got'[s] = Append(got[s], log[s][q])
    <3>1. log[s][q] \in Messages
      BY <1>3, <1>9, EnvelopeParts
    <3>2. /\ Len(got'[s]) = Len(got[s]) + 1 /\ got'[s][Len(got[s]) + 1] = log[s][q]
          /\ \A n \in 1..Len(got[s]) : got'[s][n] = got[s][n]
      BY <1>8, <2>3, <3>1, AppendElements
    <3> QED
      BY <1>8, <1>9, <2>1, <2>3, <3>2
  <2> QED
    BY <1>10, <2>2, <2>3 DEF TypeOK
<1>14. UnackedKept'
  <2> SUFFICES ASSUME NEW t \in Streams, NEW n \in (received'[t] + 1)..(next_seq_id[t] - 1)
               PROVE  \E f \in outbound_buffer : f.stream = t /\ f.seq_id = n
    BY <1>6 DEF UnackedKept
  <2>1. n \in (received[t] + 1)..(next_seq_id[t] - 1)
    BY <1>8, <1>11
  <2> QED
    BY <2>1 DEF StreamInv, UnackedKept
<1>15. OnTheWay'
  <2> SUFFICES ASSUME writer \notin {"off", "snapshot"}, conn \in alive, NEW t \in Streams,
                      NEW n \in (received'[t] + 1)..Len(log[t])
               PROVE  \/ \E f \in replay : Has(f, t, n)
                      \/ sending # None /\ Has(sending, t, n)
                      \/ \E i \in 1..Len(wire'[conn]) : Has(wire'[conn][i], t, n)
    BY <1>6 DEF OnTheWay
  <2>1. n \in (received[t] + 1)..Len(log[t])
    BY <1>8, <1>11
  <2>2. \/ \E f \in replay : Has(f, t, n)
        \/ sending # None /\ Has(sending, t, n)
        \/ \E i \in 1..Len(wire[conn]) : Has(wire[conn][i], t, n)
    BY <2>1 DEF StreamInv, OnTheWay
  <2>3. ASSUME NEW i \in 1..Len(wire[conn]), Has(wire[conn][i], t, n)
        PROVE  \E j \in 1..Len(wire'[conn]) : Has(wire'[conn][j], t, n)
    <3>1. CASE conn # c
      <4>1. conn \in Conns
        BY MaxConnsAssumption DEF TypeOK, Conns
      <4> QED
        BY <1>5, <2>3, <3>1, <4>1
    <3>2. CASE conn = c
      <4>1. i # 1
        BY <1>1, <1>4, <1>7, <1>11, <2>3, <3>2 DEF Has
      <4>2. i - 1 \in 1..Len(v) /\ v[i - 1] = w[i]
        BY <1>1, <1>4, <2>3, <3>2, <4>1
      <4> QED
        BY <1>1, <1>5, <2>3, <3>2, <4>2
    <3> QED
      BY <3>1, <3>2
  <2> QED
    BY <2>2, <2>3
<1>16. NoGaps'
  <2> SUFFICES ASSUME NEW d \in Conns, NEW i \in 1..Len(wire'[d])  PROVE Follows(wire[d], i)'
    BY DEF NoGaps
  <2>1. CASE d # c
    <3>1. PICK u \in Seq(Envelopes) : u = wire[d] /\ wire'[d] = u /\ u[i] \in Envelopes
      BY <1>5, <2>1, StreamTypes DEF StreamInv
    <3>2. Follows(u, i)
      BY <3>1 DEF StreamInv, NoGaps
    <3>3. u[i].stream \in Streams /\ u[i].seq_id \in Nat
      BY <3>1, EnvelopeParts
    <3>4. u[i].seq_id =< received[u[i].stream] + 1 => u[i].seq_id =< received'[u[i].stream] + 1
      <4>1. PICK t \in Streams, n \in Nat : t = u[i].stream /\ n = u[i].seq_id
        BY <3>3
      <4>2. received[t] \in Nat /\ received'[t] \in Nat /\ received[t] =< received'[t]
        BY <1>8, <1>11
      <4> QED
        BY <4>1, <4>2
    <3> QED
      BY <3>1, <3>2, <3>4 DEF Follows
  <2>2. CASE d = c
    <3>1. i \in 1..Len(v) /\ i + 1 \in 1..Len(w) /\ v[i] = w[i + 1] /\ wire'[d] = v
      BY <1>4, <1>5, <2>2
    <3>2. PICK f \in Envelopes : f = w[i + 1]
      BY <1>1, <3>1
    <3>3. PICK t \in Streams, n \in Nat : f.stream = t /\ f.seq_id = n
      BY EnvelopeParts
    <3>4. Follows(w, i + 1)
      BY <1>1, <3>1 DEF StreamInv, NoGaps
    <3>5. \/ n =< received[t] + 1
          \/ \E j \in 1..i : Has(w[j], t, n - 1)
      BY <3>1, <3>2, <3>3, <3>4 DEF Follows
    <3>6. \/ n =< received'[t] + 1
          \/ \E j \in 1..(i - 1) : Has(v[j], t, n - 1)
      <4>1. CASE n =< received[t] + 1
        BY <1>8, <1>11, <4>1
      <4>2. CASE \E j \in 1..i : Has(w[j], t, n - 1)
        <5>1. PICK j \in 1..i : Has(w[j], t, n - 1)
          BY <4>2
        <5>2. CASE j = 1
          BY <1>4, <1>7, <1>11, <5>1, <5>2 DEF Has
        <5>3. CASE j # 1
          <6>1. j - 1 \in 1..(i - 1) /\ v[j - 1] = w[j]
            BY <1>4, <3>1, <5>3
          <6> QED
            BY <5>1, <6>1
        <5> QED
          BY <5>2, <5>3
      <4> QED
        BY <3>5, <4>1, <4>2
    <3> QED
      BY <3>1, <3>2, <3>3, <3>6 DEF Follows
  <2> QED
    BY <2>1, <2>2
<1> QED
  BY <1>12, <1>13, <1>14, <1>15, <1>16 DEF StreamInv

\* Every step keeps the stream invariant.
LEMMA NextStreams ==
    ASSUME TypeOK, StreamInv, [Next]_vars
    PROVE  StreamInv'
<1>1. CASE \/ \E s \in Streams, m \in Messages : Offer(s, m)
           \/ Cancel \/ ReaderEnds \/ UsedChanged \/ CheckCapacity \/ DropUnserializable
           \/ ReplayDone \/ UNCHANGED vars \/ Connect
  <2>1. UNCHANGED <<next_seq_id, outbound_buffer, log, received, got, wire, replay, sending>>
    BY <1>1 DEF Offer, Cancel, ReaderEnds, UsedChanged, CheckCapacity, DropUnserializable,
       ReplayDone, Connect, vars, bufferVars, connVars, writerVars, backendVars
  <2>2. \/ writer' \in {"off", "snapshot"}
        \/ writer \notin {"off", "snapshot"} /\ UNCHANGED <<conn, alive>>
    BY <1>1 DEF Offer, Cancel, ReaderEnds, UsedChanged, CheckCapacity, DropUnserializable,
       ReplayDone, Connect, vars, connVars, writerVars
  <2> QED
    BY <2>1, <2>2, QuietKeepsStreams
<1> QED
  BY <1>1, SnapshotKeepsStreams, ReplayKeepsStreams, SendKeepsStreams, WriterEndsKeepsStreams,
     NumberKeepsStreams, AckKeepsStreams, LinkFailsKeepsStreams, ReceiveKeepsStreams
     DEF Next, WriterStep

-----------------------------------------------------------------------------
(***************************************************************************)
(* The channel.                                                            *)
(***************************************************************************)

\* A message enters the channel once, and leaves it when it is numbered or dropped.
LEMMA NextQueueFresh ==
    ASSUME TypeOK, QueueFresh, [Next]_vars
    PROVE  QueueFresh'
<1>1. queue \in Seq(Items) /\ Len(queue) \in Nat
  BY DEF TypeOK
<1>2. \A t \in Streams : log[t] \in Seq(Messages) /\ Len(log[t]) \in Nat
  BY DEF TypeOK
<1>3. ASSUME NEW s \in Streams, NEW m \in Messages, Offer(s, m)  PROVE QueueFresh'
  <2>1. PICK q \in Items : q = [stream |-> s, message |-> m]
    BY DEF Items
  <2>2. /\ Len(queue') = Len(queue) + 1 /\ queue'[Len(queue) + 1] = q
        /\ \A i \in 1..Len(queue) : queue'[i] = queue[i]
    BY <1>1, <1>3, <2>1, AppendElements DEF Offer
  <2>3. log' = log /\ m \notin offered /\ offered' = offered \cup {m} /\ q.message = m
    BY <1>3, <2>1 DEF Offer, bufferVars
  <2>4. \A i \in 1..Len(queue') :
           \/ i \in 1..Len(queue) /\ queue'[i] = queue[i]
           \/ i = Len(queue) + 1 /\ queue'[i] = q
    BY <1>1, <2>2
  <2>5. \A i \in 1..Len(queue') : queue'[i].message \in offered'
    BY <2>3, <2>4 DEF QueueFresh
  <2>6. \A t \in Streams : \A n \in 1..Len(log'[t]) : log'[t][n] \in offered'
    BY <2>3 DEF QueueFresh
  <2>7. \A i, j \in 1..Len(queue') : queue'[i].message = queue'[j].message => i = j
    BY <2>3, <2>4 DEF QueueFresh
  <2>8. \A i \in 1..Len(queue') : \A t \in Streams : \A n \in 1..Len(log'[t]) :
           log'[t][n] # queue'[i].message
    BY <2>3, <2>4 DEF QueueFresh
  <2> QED
    BY <2>5, <2>6, <2>7, <2>8 DEF QueueFresh
<1>4. CASE Number
  <2>1. PICK q \in Items : q = Head(queue) /\ q = queue[1]
    BY <1>1, <1>4, TailElements DEF Number
  <2>2. PICK s \in Streams, m \in Messages : s = q.stream /\ m = q.message
    BY DEF Items
  <2>3. /\ Len(queue) \in Nat \ {0} /\ Len(queue') = Len(queue) - 1
        /\ \A i \in 1..Len(queue') : queue'[i] = queue[i + 1]
    BY <1>1, <1>4, TailElements DEF Number
  <2>4. log' = [log EXCEPT ![s] = Append(log[s], m)] /\ offered' = offered
    BY <1>4, <2>1, <2>2 DEF Number
  <2>5. \A t \in Streams : \A n \in 1..Len(log'[t]) :
           \/ n \in 1..Len(log[t]) /\ log'[t][n] = log[t][n]
           \/ log'[t][n] = m
    <3>1. /\ Len(log'[s]) = Len(log[s]) + 1 /\ log'[s][Len(log[s]) + 1] = m
          /\ \A n \in 1..Len(log[s]) : log'[s][n] = log[s][n]
          /\ \A t \in Streams \ {s} : log'[t] = log[t]
      BY <1>2, <2>4, AppendElements DEF TypeOK
    <3> QED
      BY <1>2, <3>1
  <2>6. \A i \in 1..Len(queue') : /\ i + 1 \in 1..Len(queue) /\ i + 1 # 1
                                  /\ queue'[i].message = queue[i + 1].message
    BY <2>3
  <2>7. 1 \in 1..Len(queue) /\ queue[1].message = m
    BY <2>1, <2>2, <2>3
  <2>8. \A i \in 1..Len(queue') : queue'[i].message \in offered'
    BY <2>4, <2>6 DEF QueueFresh
  <2>9. \A t \in Streams : \A n \in 1..Len(log'[t]) : log'[t][n] \in offered'
    BY <2>4, <2>5, <2>7 DEF QueueFresh
  <2>10. \A i, j \in 1..Len(queue') : queue'[i].message = queue'[j].message => i = j
    <3>1. \A i, j \in 1..Len(queue') : queue'[i].message = queue'[j].message => i + 1 = j + 1
      BY <2>6 DEF QueueFresh
    <3> QED
      BY <3>1
  <2>11. \A i \in 1..Len(queue') : \A t \in Streams : \A n \in 1..Len(log'[t]) :
            log'[t][n] # queue'[i].message
    BY <2>5, <2>6, <2>7 DEF QueueFresh
  <2> QED
    BY <2>8, <2>9, <2>10, <2>11 DEF QueueFresh
<1>5. CASE DropUnserializable
  <2>1. \A i \in 1..Len(queue') : i + 1 \in 1..Len(queue) /\ queue'[i] = queue[i + 1]
    BY <1>1, <1>5, TailElements DEF DropUnserializable
  <2>2. log' = log /\ offered' = offered
    BY <1>5 DEF DropUnserializable, bufferVars
  <2>3. \A i, j \in 1..Len(queue') : queue'[i].message = queue'[j].message => i = j
    <3>1. \A i, j \in 1..Len(queue') : queue'[i].message = queue'[j].message => i + 1 = j + 1
      BY <2>1 DEF QueueFresh
    <3> QED
      BY <3>1
  <2>4. \A i \in 1..Len(queue') : /\ queue'[i].message \in offered
                                  /\ \A t \in Streams : \A n \in 1..Len(log[t]) :
                                        log[t][n] # queue'[i].message
    BY <2>1 DEF QueueFresh
  <2> QED
    BY <2>2, <2>3, <2>4 DEF QueueFresh
<1>6. CASE UNCHANGED <<queue, log, offered>>
  BY <1>6 DEF QueueFresh
<1> QED
  BY <1>3, <1>4, <1>5, <1>6 DEF Next, WriterStep, Connect, Cancel, LinkFails, Receive, Snapshot,
     Replay, ReplayDone, CheckCapacity, UsedChanged, Send, WriterEnds, Ack, ReaderEnds, vars,
     bufferVars

-----------------------------------------------------------------------------
(***************************************************************************)
(* Theorems.                                                               *)
(***************************************************************************)

\* Nothing is offered, numbered or sent at first.
LEMMA InitInv == Init => IInv
<1> SUFFICES ASSUME Init  PROVE IInv
  OBVIOUS
<1>1. TypeOK
  BY InitType
<1>2. Bounded
  BY CapacityAssumption, FS_EmptySet DEF Init, Bounded, BufferBound
<1>3. /\ \A s \in Streams : /\ log[s] = <<>> /\ got[s] = <<>> /\ received[s] = 0
                            /\ next_seq_id[s] = 1
      /\ \A c \in Conns : wire[c] = <<>>
      /\ queue = <<>>
  BY DEF Init
<1>4. EnvelopesGenuine /\ GotPrefix /\ UnackedKept
  BY <1>3 DEF Init, EnvelopesGenuine, GotPrefix, UnackedKept
<1>5. OnTheWay /\ NoGaps /\ QueueFresh
  BY <1>3 DEF Init, OnTheWay, NoGaps, QueueFresh
<1> QED
  BY <1>1, <1>2, <1>4, <1>5 DEF IInv, StreamInv

\* The inductive invariant holds throughout.
LEMMA Invariance == Spec => []IInv
<1>1. IInv /\ [Next]_vars => IInv'
  BY NextType, NextBounded, NextStreams, NextQueueFresh DEF IInv, StreamInv
<1> QED
  BY InitInv, <1>1, PTL DEF Spec

\* The state of run_server_writer and its shared state is well typed: a writer that
\* has stopped holds no envelope, whatever interrupted it.
THEOREM TypeCorrect == Spec => []TypeOK
BY Invariance, PTL DEF IInv

\* BoundedOutboundBuffer: the watch channel counts the buffered envelopes, and there
\* are at most CHANNEL_CAPACITY, for any interleaving of insertions and
\* acknowledgements over any number of connections.
THEOREM BufferBounded == Spec => []BufferBound
<1>1. IInv => BufferBound
  BY DEF IInv, Bounded
<1> QED
  BY <1>1, Invariance, PTL

\* run_server_writer and BoundedOutboundBuffer::ack: the buffer has every envelope
\* that the backend lacks.
THEOREM NothingLost == Spec => []UnackedKept
<1>1. IInv => UnackedKept
  BY DEF IInv, StreamInv
<1> QED
  BY <1>1, Invariance, PTL

\* A step of the transport is a step of the abstract streams, or none.
LEMMA StepRefines ==
    ASSUME IInv, [Next]_vars
    PROVE  [Reliable!Next]_(Reliable!vars)
<1> USE DEF IInv
<1>1. CASE Number
  <2>1. PICK q \in Items : q = Head(queue) /\ q = queue[1] /\ Len(queue) \in Nat \ {0}
    BY <1>1, TailElements DEF Number, TypeOK
  <2>2. PICK s \in Streams, m \in Messages : s = q.stream /\ m = q.message
    BY DEF Items
  <2>3. log' = [log EXCEPT ![s] = Append(log[s], m)] /\ UNCHANGED got
    BY <1>1, <2>1, <2>2 DEF Number, backendVars
  <2>4. m \notin Reliable!Accepted
    BY <2>1, <2>2 DEF QueueFresh, Reliable!Accepted
  <2> QED
    BY <2>3, <2>4 DEF Reliable!Next, Reliable!Accept
<1>2. ASSUME NEW c \in Conns, Receive(c), ~ UNCHANGED got
      PROVE  [Reliable!Next]_(Reliable!vars)
  <2>1. PICK e \in Envelopes : e = Head(wire[c]) /\ e = wire[c][1] /\ Len(wire[c]) \in Nat \ {0}
    BY <1>2, TailElements DEF Receive, TypeOK
  <2>2. PICK s \in Streams, n \in Nat : s = e.stream /\ n = e.seq_id
    BY EnvelopeParts
  <2>3. n > received[s] /\ got' = [got EXCEPT ![s] = Append(got[s], e.message)]
    BY <1>2, <2>1, <2>2 DEF Receive, backendVars
  <2>4. Genuine(wire[c][1]) /\ Follows(wire[c], 1)
    BY <2>1 DEF StreamInv, EnvelopesGenuine, NoGaps
  <2>5. n =< received[s] + 1 /\ n \in 1..Len(log[s]) /\ e.message = log[s][n]
    BY <2>1, <2>2, <2>4 DEF Follows, Genuine
  <2>6. received[s] = Len(got[s]) /\ received[s] \in Nat /\ Len(log[s]) \in Nat
    BY StreamTypes DEF StreamInv, GotPrefix
  <2>7. n = Len(got[s]) + 1 /\ Len(got[s]) < Len(log[s])
    BY <2>3, <2>5, <2>6
  <2>8. UNCHANGED log
    BY <1>2 DEF Receive, bufferVars
  <2>9. Reliable!Deliver(s)
    BY <2>3, <2>5, <2>7, <2>8 DEF Reliable!Deliver
  <2> QED
    BY <2>9 DEF Reliable!Next
<1>3. CASE UNCHANGED <<log, got>>
  BY <1>3 DEF Reliable!vars
<1> QED
  BY <1>1, <1>2, <1>3 DEF Next, WriterStep, Offer, Connect, Cancel, LinkFails, Receive, Snapshot,
     Replay, ReplayDone, CheckCapacity, UsedChanged, DropUnserializable, Send, WriterEnds, Ack,
     ReaderEnds, vars, bufferVars, backendVars

\* The transport implements reliable streams: numbering, buffering, replay on a new
\* websocket and late frames of an old one never show the backend a gap, a
\* duplicate or a change of order.
THEOREM ImplementsReliableStreams == Spec => StreamsReliable
<1>1. Init => Reliable!Init
  BY DEF Init, Reliable!Init
<1>2. IInv /\ [Next]_vars => [Reliable!Next]_(Reliable!vars)
  BY StepRefines
<1> QED
  BY <1>1, <1>2, Invariance, PTL DEF Spec, StreamsReliable, Reliable!Spec

=============================================================================
