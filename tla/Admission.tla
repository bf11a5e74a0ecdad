----------------------------- MODULE Admission -----------------------------
(***************************************************************************)
(* What the shell promises the support layers that hang something off a    *)
(* session (the SessionHook contract in shell/session.go): each hook opens *)
(* once, before the session is admitted; while the session is in, all of   *)
(* it stays open; when the session is over it is drained, once, and the    *)
(* session never comes back.                                               *)
(***************************************************************************)
EXTENDS Naturals

CONSTANTS People, NHooks

Hooks == 1 .. NHooks

VARIABLES
    life,       \* "out": not admitted yet, "in", "over"
    opened      \* what is open for each of them now

vars == <<life, opened>>

Init ==
    /\ life = [p \in People |-> "out"]
    /\ opened = [p \in People |-> {}]

\* The hooks are called in order.
Opens(p) ==
    /\ life[p] = "out"
    /\ \E h \in Hooks : /\ opened[p] = 1 .. (h - 1)
                        /\ opened' = [opened EXCEPT ![p] = 1 .. h]
    /\ UNCHANGED life

\* The sign-in fails, and what it opened is drained with it.
Refuses(p) ==
    /\ life[p] = "out"
    /\ life' = [life EXCEPT ![p] = "over"]
    /\ opened' = [opened EXCEPT ![p] = {}]

Admits(p) ==
    /\ life[p] = "out"
    /\ opened[p] = Hooks
    /\ life' = [life EXCEPT ![p] = "in"]
    /\ UNCHANGED opened

\* Sessions end, one by one or all at once, and are drained in the same step
\* or by whoever ended them later.
Ends(S, drained) ==
    /\ \A p \in S : life[p] = "in"
    /\ life' = [p \in People |-> IF p \in S THEN "over" ELSE life[p]]
    /\ opened' = [p \in People |-> IF p \in S /\ drained THEN {} ELSE opened[p]]

Drains(p) ==
    /\ life[p] = "over"
    /\ opened' = [opened EXCEPT ![p] = {}]
    /\ UNCHANGED life

Next ==
    \/ \E p \in People : Opens(p) \/ Refuses(p) \/ Admits(p) \/ Drains(p)
    \/ \E S \in SUBSET People, drained \in BOOLEAN : Ends(S, drained)

Spec == Init /\ [][Next]_vars
=============================================================================
