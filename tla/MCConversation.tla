--------------------------- MODULE MCConversation ---------------------------
(* Small instances of Conversation for TLC: the constants are model values. *)
EXTENDS Conversation, TLC

\* Conversations, where none is machinery, and texts are interchangeable:
\* used where no liveness is checked.
Symmetry == Permutations(Topics) \cup Permutations(Texts)

\* Bound: an act is followed up only while nothing is typed, chosen or sent;
\* MCRooms has the acts with everything else a screen does meanwhile.
ActsAlone ==
    acts # {} => draft = None /\ reply = 0 /\ \A p \in Posts : post[p] = NoPost
=============================================================================
