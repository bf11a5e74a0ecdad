------------------------------ MODULE Mentions ------------------------------
(***************************************************************************)
(* What the tray promises the person whose tray it is: a slip in their     *)
(* inbox raises one mark, the mark stands until they look at its           *)
(* conversation, which takes all the marks of that conversation and no     *)
(* other, and it is never raised again, however often the slip comes.      *)
(***************************************************************************)
CONSTANTS Slips, Topics, TopicOf(_)

VARIABLE
    life        \* of each slip: "none", "inbox", "unread", "read"

Init == life = [s \in Slips |-> "none"]

\* Whoever drops it.
Arrives(s) ==
    /\ life[s] = "none"
    /\ life' = [life EXCEPT ![s] = "inbox"]

\* The follower comes to it, in the inbox of this sitting or replayed.
Marks(s) ==
    /\ life[s] = "inbox"
    /\ life' = [life EXCEPT ![s] = "unread"]

\* A conversation is looked at.
Read(t) ==
    life' = [s \in Slips |-> IF TopicOf(s) = t /\ life[s] = "unread" THEN "read"
                             ELSE life[s]]

Next ==
    \/ \E s \in Slips : Arrives(s) \/ Marks(s)
    \/ \E t \in Topics : Read(t)

Spec == Init /\ [][Next]_life
=============================================================================
