---------------------------- MODULE MCSessionTurns ----------------------------
(***************************************************************************)
(* Small instances of SessionTurns.                                        *)
(***************************************************************************)
EXTENDS SessionTurns, TLC

CONSTANTS s1, s2, s3, s4, i1, i2

\* User inputs are told apart by nothing: no CHOOSE ranges over them
SameInputs == Permutations(UserItems)

\* Two states are the same to TLC when they differ only in what a free task id or an
\* unused turn held before: LaunchTask and InstallTurn overwrite it, and no guard and
\* no property reads it earlier
Live ==
    <<active_turn, tasks, queueVars, continuation_lock, pc, local, owed, dropped,
      [s \in Subs |-> IF FreeSub(s) THEN <<>> ELSE <<kind[s], s \in cancelled, reported[s]>>],
      [o \in TurnIds |-> IF Unused(o) THEN <<>>
                         ELSE <<pending_input[o], next_turn_mail[o], pending_approvals[o]>>]>>
=============================================================================
