----------------------------- MODULE MCReadings -----------------------------
(* Small instances of Readings for TLC. *)
EXTENDS Readings, MCStoreWalk

\* Anything: no message, an earlier one, itself, or an op held elsewhere.
AnyAnchor(n) == (1 .. n) \cup {None, Elsewhere}

\* Three people, two of one name, which is the beginning of the third's.
NameOf(p) == IF p = "bea" THEN "Avery Blake" ELSE "Avery"
ReadOutOf(name) == IF name = "Avery Blake" THEN {"Avery", name} ELSE {name}
WordFits(q, name) == q = "a" /\ name \notin {"bea", "cy"}

\* Bound: only the store is read with a filter.
SmallInit == ReadingsInit /\ (desk # "store" => filter = <<>>)

SmallSpec == SmallInit /\ [][ReadingsNext]_readingsVars
=============================================================================
