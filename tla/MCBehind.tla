------------------------------ MODULE MCBehind ------------------------------
(***************************************************************************)
(* Behind with two streams: one whose address names a conversation, and    *)
(* the front page's, which settles on one at each tick.                    *)
(***************************************************************************)
EXTENDS Behind

CONSTANTS page, front, topic

MCScreens == {page, front}
MCAddress == [v \in MCScreens |-> IF v = page THEN topic ELSE None]
=============================================================================
