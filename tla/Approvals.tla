------------------------------ MODULE Approvals -----------------------------
(***************************************************************************)
(* One person at the approvals (modules/approvals, soulstream/tools.go):   *)
(* requests the guardrail held for a human, the list of those that wait,   *)
(* read again every five seconds, and the taps that answer them.  A tap    *)
(* signs an answer on the person's session, carries it to the asker's own  *)
(* tail and reads the list again.  The plane is another component: it      *)
(* takes an answer to a request that still waits, from somebody its rule   *)
(* names, and refuses every other.                                         *)
(***************************************************************************)
EXTENDS Naturals

CONSTANTS
    Requests,   \* invocations, each of one asker under one rule
    Mine,       \* those whose rule names this person as an approver
    IsAdmin,    \* what this person's token says
    Calls,      \* taps that may be under way at once
    Failed,     \* the words of a reading that failed
    None

\* Assumed of the constants by whoever instantiates this module.
ApprovalsAssumption == Mine \subseteq Requests /\ IsAdmin \in BOOLEAN

VARIABLES
    tickets,    \* the plane: where each request stands
    taps,       \* each tap: [request, yes, at]
    line,       \* the result line: <<what it says, of which request>>
    shown, frame, replies

List == INSTANCE LiveList WITH truth <- {r \in Requests : tickets[r] = "waits"}

vars == <<tickets, taps, line, shown, frame, replies>>

Verdicts == {"approved by me", "denied by me", "answered", "expired"}
Free == [request |-> None, yes |-> FALSE, at |-> "free"]

TypeOK ==
    /\ tickets \in [Requests -> {"unasked", "waits"} \cup Verdicts]
    /\ taps \in [Calls -> {Free} \cup
            [request : Requests, yes : BOOLEAN,
             at : {"tapped", "signed", "taken", "refused"}]]
    /\ line \in {"nothing", "approved", "denied", "refused", "not signed"} \X
                (Requests \cup {None})
    /\ shown \in (SUBSET Requests) \cup {None, Failed}
    /\ frame \in (SUBSET Requests) \cup {None, Failed}
    /\ replies \in [Calls -> (SUBSET Requests) \cup {None, Failed}]

Init ==
    /\ tickets = [r \in Requests |-> "unasked"]
    /\ taps = [c \in Calls |-> Free]
    /\ line = <<"nothing", None>>
    /\ List!Init

\* What waits: Support.PendingApprovals.
Pending == {r \in Requests : tickets[r] = "waits"}

\* mayAct: an administrator, or anybody some standing rule names; the key on
\* the spine and the taps of every row go by it.
MayAct == IsAdmin \/ Mine # {}

\* ticketRow: the two taps, on every row or on none; a failed reading has no rows.
Offered == IF shown \in {None, Failed} \/ ~MayAct THEN {} ELSE shown

-----------------------------------------------------------------------------
(* The plane and its other approvers. *)

Asked(r) == tickets[r] = "unasked" /\ tickets' = [tickets EXCEPT ![r] = "waits"]

\* The window runs out, or somebody else answers.
Settled(r) ==
    /\ tickets[r] = "waits"
    /\ \E verdict \in {"expired", "answered"} :
        tickets' = [tickets EXCEPT ![r] = verdict]

Plane ==
    /\ \E r \in Requests : Asked(r) \/ Settled(r)
    /\ UNCHANGED <<taps, line, shown, frame, replies>>

-----------------------------------------------------------------------------
(* The screen. *)

\* approvals: the page.  Acts end with the page they were asked on: a person is
\* back only when those left under way are over.
Opens ==
    /\ taps = [c \in Calls |-> Free]
    /\ List!Opens
    /\ line' = <<"nothing", None>>
    /\ UNCHANGED <<tickets, taps>>

Leaves == List!Leaves /\ UNCHANGED <<tickets, taps, line>>

\* live: a tick reads what waits, or fails to, and writes it; never the result
\* line.
TickReads == List!TickReads /\ UNCHANGED <<tickets, taps, line>>

TickWrites == List!TickWrites /\ UNCHANGED <<tickets, taps, line>>

-----------------------------------------------------------------------------
(* actAnswer. *)

Taps(c, r, yes) ==
    /\ taps[c] = Free
    /\ r \in Offered
    /\ taps' = [taps EXCEPT ![c] = [request |-> r, yes |-> yes, at |-> "tapped"]]
    /\ UNCHANGED <<tickets, line, shown, frame, replies>>

\* MintApproval: an answer to this request and no other, good for minutes.
Signs(c) ==
    /\ taps[c].at = "tapped"
    /\ taps' = [taps EXCEPT ![c].at = "signed"]
    /\ UNCHANGED <<tickets, line, shown, frame, replies>>

\* It cannot be signed: the answer says so, and the list is not read again.
CannotSign(c) ==
    /\ taps[c].at = "tapped"
    /\ taps' = [taps EXCEPT ![c] = Free]
    /\ line' = IF shown = None THEN line ELSE <<"not signed", taps[c].request>>
    /\ UNCHANGED <<tickets, shown, frame, replies>>

\* What the plane does with an answer carried to it.
Takes(c) == taps[c].request \in Mine /\ tickets[taps[c].request] = "waits"

Verdict(c) == IF taps[c].yes THEN "approved by me" ELSE "denied by me"

\* Faulty variant of Delivers: whatever the plane says is taken for a yes.
DeliversBlindly(c) ==
    /\ taps[c].at = "signed"
    /\ taps' = [taps EXCEPT ![c].at = "taken"]
    /\ tickets' = IF Takes(c) THEN [tickets EXCEPT ![taps[c].request] = Verdict(c)]
                  ELSE tickets
    /\ UNCHANGED <<line, shown, frame, replies>>

\* Deliver: carried to the asker's tail.
Delivers(c) ==
    /\ taps[c].at = "signed"
    /\ taps' = [taps EXCEPT ![c].at = IF Takes(c) THEN "taken" ELSE "refused"]
    /\ tickets' = IF Takes(c) THEN [tickets EXCEPT ![taps[c].request] = Verdict(c)]
                  ELSE tickets
    /\ UNCHANGED <<line, shown, frame, replies>>

\* Ten seconds pass without an answer, with or without effect: it reads as a
\* refusal.
DeliveryLost(c) ==
    /\ taps[c].at = "signed"
    /\ taps' = [taps EXCEPT ![c].at = "refused"]
    /\ \/ UNCHANGED tickets
       \/ Takes(c) /\ tickets' = [tickets EXCEPT ![taps[c].request] = Verdict(c)]
    /\ UNCHANGED <<line, shown, frame, replies>>

\* Either way the list is read again
Rereads(c) ==
    /\ taps[c].at \in {"taken", "refused"}
    /\ List!Rereads(c)
    /\ UNCHANGED <<tickets, taps, line>>

\* and the answer reaches the screen, if it is still there.
Answered(c) ==
    /\ List!ReplyArrives(c)
    /\ taps' = [taps EXCEPT ![c] = Free]
    /\ line' = IF shown = None THEN line
               ELSE << IF taps[c].at = "refused" THEN "refused"
                       ELSE IF taps[c].yes THEN "approved" ELSE "denied",
                       taps[c].request >>
    /\ UNCHANGED tickets

Call(c) ==
    \/ Signs(c) \/ CannotSign(c) \/ Delivers(c) \/ DeliveryLost(c)
    \/ Rereads(c) \/ Answered(c)

Next ==
    \/ Plane \/ Opens \/ Leaves \/ TickReads \/ TickWrites
    \/ \E c \in Calls : Call(c) \/ \E r \in Requests, yes \in BOOLEAN : Taps(c, r, yes)

-----------------------------------------------------------------------------
(* What must hold. *)

\* "Approved." stands over a request this person's own yes let through, and
\* "Denied." over one it stopped, whatever the plane made meanwhile of other
\* answers: the screen never takes a refusal for a verdict, nor the verdict on
\* one request for another's.
SaidIsSo ==
    /\ line[1] = "approved" => tickets[line[2]] = "approved by me"
    /\ line[1] = "denied" => tickets[line[2]] = "denied by me"

\* A list left open always comes round to what waits, or to saying that it could
\* not be read, however its frames and the answers to taps overtake one another.
ListSettles == []<>(shown = Pending \/ shown \in {None, Failed})
=============================================================================
