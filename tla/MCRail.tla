-------------------------------- MODULE MCRail --------------------------------
(* A small instance of Rail for TLC: an agent that is declared twice. *)
EXTENDS Rail

Spec == Init /\ [][Next]_vars
=============================================================================
