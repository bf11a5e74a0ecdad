------------------------------ MODULE MCThreads ------------------------------
(* A long instance of Threads for TLC. *)
EXTENDS Threads

\* One long exchange: each message answers the one before it.
LastOnly(n) == {IF n = 1 THEN None ELSE n - 1}
=============================================================================
