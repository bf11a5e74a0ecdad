----------------------------- MODULE MCSessions -----------------------------
(* Small instances of Sessions for TLC: the constants are model values. *)
EXTENDS Sessions
=============================================================================
