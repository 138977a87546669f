--------------------------- MODULE ReliableStreams ---------------------------
(***************************************************************************)
(* What the remote-control transport promises to the backend: every stream *)
(* is a log, and the backend receives each log in order, once, without     *)
(* gaps, however often the websocket is replaced.                          *)
(***************************************************************************)
EXTENDS Naturals, Sequences

CONSTANTS Streams, Messages

VARIABLES log,  \* messages of each stream in the order of their numbers
          got   \* messages of each stream that the backend has received

vars == <<log, got>>

Accepted == {m \in Messages : \E s \in Streams : \E n \in 1..Len(log[s]) : log[s][n] = m}

Init ==
    /\ log = [s \in Streams |-> <<>>]
    /\ got = [s \in Streams |-> <<>>]

\* A message gets the next number of its stream, and never a second one
Accept(s, m) ==
    /\ m \notin Accepted
    /\ log' = [log EXCEPT ![s] = Append(log[s], m)]
    /\ UNCHANGED got

\* The backend gets the first message it has not got
Deliver(s) ==
    /\ Len(got[s]) < Len(log[s])
    /\ got' = [got EXCEPT ![s] = Append(got[s], log[s][Len(got[s]) + 1])]
    /\ UNCHANGED log

Next == \E s \in Streams : Deliver(s) \/ \E m \in Messages : Accept(s, m)

Spec == Init /\ [][Next]_vars

=============================================================================
