------------------------------ MODULE LiveList ------------------------------
(***************************************************************************)
(* One list on one open screen, and everything that writes it: the page,   *)
(* the stream that reads what is true every few seconds and writes it      *)
(* whole (shell/sse.go Stream), and the answers of the person's own acts,  *)
(* which read it again and hand it back (Patch).  Reading and writing are  *)
(* steps of their own, and the frames of a stream and the answers of acts  *)
(* travel over different connections: only a stream keeps its own order.   *)
(* A reading may fail, whoever makes it: its words stand where the list    *)
(* would.                                                                  *)
(***************************************************************************)
EXTENDS Naturals

CONSTANTS
    Calls,  \* acts of this person that may be under way at once
    Failed, \* the words of a reading that failed
    None    \* no page; nothing read

VARIABLES
    truth,      \* what the list is a reading of
    shown,      \* the list on the screen
    frame,      \* what the stream read and has not written yet
    replies     \* what the answer to each act carries, read and under way

Init ==
    /\ shown = None
    /\ frame = None
    /\ replies = [c \in Calls |-> None]

\* What a reading of the list may come to.
Readings == {truth, Failed}

\* The page is rendered with the list as it stands.
Opens ==
    /\ shown = None
    /\ shown' \in Readings
    /\ UNCHANGED <<frame, replies>>

\* The person goes elsewhere: the stream ends with its request, and answers
\* find no page.
Leaves ==
    /\ shown # None
    /\ shown' = None
    /\ frame' = None
    /\ UNCHANGED replies

\* The stream's tick reads.
TickReads ==
    /\ shown # None
    /\ frame = None
    /\ frame' \in Readings
    /\ UNCHANGED <<shown, replies>>

\* Faulty variant of TickWrites: the frame is read and never flushed.
TickDrops ==
    /\ frame # None
    /\ frame' = None
    /\ UNCHANGED <<shown, replies>>

\* And what it read reaches the screen.
TickWrites ==
    /\ frame # None
    /\ shown' = frame
    /\ frame' = None
    /\ UNCHANGED replies

\* An act's answer reads the list again,
Rereads(c) ==
    /\ replies[c] = None
    /\ \E list \in Readings : replies' = [replies EXCEPT ![c] = list]
    /\ UNCHANGED <<shown, frame>>

\* and is applied where the page still stands.
ReplyArrives(c) ==
    /\ replies[c] # None
    /\ shown' = IF shown = None THEN None ELSE replies[c]
    /\ replies' = [replies EXCEPT ![c] = None]
    /\ UNCHANGED frame
=============================================================================
