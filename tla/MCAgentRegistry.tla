--------------------------- MODULE MCAgentRegistry ---------------------------
(***************************************************************************)
(* Small instances of AgentRegistry.                                       *)
(***************************************************************************)
EXTENDS AgentRegistry, TLC

CONSTANTS c1, c2, c3, t1, t2, alpha, beta

OneRole == {{alpha}}
TwoRoles == {{alpha}, {alpha, beta}}
Symm == Permutations(Calls)
=============================================================================
