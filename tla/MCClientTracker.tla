--------------------------- MODULE MCClientTracker ---------------------------
(***************************************************************************)
(* A small instance of ClientTracker.                                      *)
(***************************************************************************)
EXTENDS ClientTracker
=============================================================================
