------------------------- MODULE MCAgentCredentials -------------------------
(* Small instances of AgentCredentials for TLC. *)
EXTENDS AgentCredentials, TLC

Symmetry == Permutations(Acts) \cup Permutations(Handles) \cup Permutations(People)
=============================================================================
