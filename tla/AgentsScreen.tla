---------------------------- MODULE AgentsScreen ----------------------------
(***************************************************************************)
(* The Agents screen (modules/agents agents.go, render.go): the three acts *)
(* on the roster, the question one of them stands behind, and the result   *)
(* line, where a credential is shown the one time it ever is.  The acts of *)
(* one person may overlap, on one handle too.  Their calls to the store,   *)
(* of which module AgentCredentials says more, are steps of their own:     *)
(* what an act finds, makes and takes away may each be overtaken by        *)
(* another act.  The roster is read and written as the list of Approvals   *)
(* is (LiveList); here a row may be as old as it likes.                    *)
(***************************************************************************)
EXTENDS Naturals

CONSTANTS
    Agents,     \* handles
    Calls,      \* acts that may be under way at once
    MaxMints,   \* bound: credentials minted
    None

VARIABLES
    accepted,   \* the credential store: what each handle gets in with
    entered,    \* the handles with a card on the record: the roster
    minted,     \* credentials minted so far: the next one's number
    calls,      \* each act: [does, who, at, old, secret]
    line,       \* the result line: [says, who, blocks]
    panel,      \* is the slide-over out?
    gone,       \* credentials taken away by others, before the act that minted
                \* them was answered, or by an act whose answer was lost
    shown       \* is the page on the screen?

storeVars == <<accepted, entered, minted>>
screenVars == <<line, panel, gone, shown>>
vars == <<storeVars, calls, screenVars>>

Free == [does |-> "nothing", who |-> None, at |-> "free", old |-> 0, secret |-> 0]
Says(what, who) == [says |-> what, who |-> who, blocks |-> [b \in {} |-> 0]]

TypeOK ==
    /\ accepted \in [Agents -> SUBSET (1 .. MaxMints)]
    /\ entered \subseteq Agents /\ minted \in 0 .. MaxMints
    /\ calls \in [Calls -> {Free} \cup
            [does : {"add", "credential", "revoke"}, who : Agents,
             at : {"sent", "found", "due", "undo", "done", "half", "failed"},
             old : 0 .. MaxMints, secret : 0 .. MaxMints]]
    /\ line.says \in {"nothing", "ask", "card", "old one too", "revoked", "failed"}
    /\ line.who \in Agents \cup {None}
    /\ panel \in BOOLEAN /\ shown \in BOOLEAN /\ gone \subseteq 0 .. MaxMints

Init ==
    /\ accepted = [a \in Agents |-> {}] /\ entered = {} /\ minted = 0
    /\ calls = [c \in Calls |-> Free]
    /\ line = Says("nothing", None) /\ panel = FALSE /\ gone = {} /\ shown = FALSE

-----------------------------------------------------------------------------
(* The facility, and what others do to it. *)

\* Somebody else, or the command line, takes a credential away.
OthersRevoke(a, t) ==
    /\ t \in accepted[a]
    /\ accepted' = [accepted EXCEPT ![a] = @ \ {t}]
    /\ gone' = gone \cup {t}
    /\ UNCHANGED <<entered, minted, calls, line, panel, shown>>

-----------------------------------------------------------------------------
(* Create, Remint and TakeAway, a call to the store or the record at a time. *)

page == <<line, panel, shown>>

Goes(c, at) == calls' = [calls EXCEPT ![c].at = at]

\* registry.Lookup and standing: nobody may bear the name yet, or the agent is
\* there; of the credentials of a handle the last read is the old one.
Finds(c) ==
    LET a == calls[c].who
        spares == calls[c].does = "add" \/ (calls[c].does = "credential" /\ accepted[a] = {})
    IN  /\ calls[c].at = "sent"
        /\ calls[c].does = "add" => a \notin entered
        /\ calls[c].does = "credential" => a \in entered
        /\ \E old \in IF spares THEN {0} ELSE accepted[a] :
               calls' = [calls EXCEPT ![c].old = old,
                   ![c].at = IF calls[c].does = "revoke" THEN "due" ELSE "found"]
        /\ UNCHANGED <<storeVars, gone, page>>

\* What cannot be read, or is not as it has to be, ends an act that made nothing.
Refuses(c) ==
    /\ calls[c].at \in {"sent", "found"}
    /\ Goes(c, "failed")
    /\ UNCHANGED <<storeVars, gone, page>>

\* CreateToken; an answer that is lost leaves a credential nobody holds.
Mints(c, answered) ==
    /\ calls[c].at = "found"
    /\ minted < MaxMints
    /\ minted' = minted + 1
    /\ accepted' = [accepted EXCEPT ![calls[c].who] = @ \cup {minted'}]
    /\ calls' = [calls EXCEPT ![c].at = IF answered THEN "due" ELSE "failed",
                              ![c].secret = IF answered THEN minted' ELSE 0]
    /\ UNCHANGED <<entered, gone, page>>

\* found: the new agent publishes its card, or does not get that far; its
\* credential is then to be taken back.
Founds(c, answered) ==
    /\ calls[c].does = "add" /\ calls[c].at = "due"
    /\ \/ entered' = entered \cup {calls[c].who}
       \/ ~answered /\ UNCHANGED entered
    /\ Goes(c, IF answered THEN "done" ELSE "undo")
    /\ UNCHANGED <<accepted, minted, gone, page>>

Undoes(c) ==
    /\ calls[c].at = "undo"
    /\ \/ accepted' = [accepted EXCEPT ![calls[c].who] = @ \ {calls[c].secret}]
       \/ UNCHANGED accepted
    /\ Goes(c, "failed")
    /\ UNCHANGED <<entered, minted, gone, page>>

\* RevokeToken of the old credential, where there is one; without an answer it
\* may be gone nonetheless.
TakesOld(c, answered) ==
    LET call == calls[c]
        taken == {call.old} \cap accepted[call.who]
    IN  /\ call.does # "add" /\ call.at = "due"
        /\ call.old = 0 => answered
        /\ \/ /\ accepted' = [accepted EXCEPT ![call.who] = @ \ taken]
              /\ gone' = gone \cup {t \in taken : \E d \in Calls : calls[d].secret = t}
           \/ ~answered /\ UNCHANGED <<accepted, gone>>
        /\ Goes(c, IF answered THEN "done"
                   ELSE IF call.does = "credential" THEN "half" ELSE "failed")
        /\ UNCHANGED <<entered, minted, page>>

-----------------------------------------------------------------------------
(* The page and its stream. *)

others == <<storeVars, calls>>

\* A person is back only when the acts they left under way are over.
Opens ==
    /\ ~shown /\ calls = [c \in Calls |-> Free]
    /\ shown' = TRUE
    /\ UNCHANGED <<others, line, panel, gone>>

\* Reloading or leaving: the page takes its result line with it.
Leaves ==
    /\ shown
    /\ shown' = FALSE /\ line' = Says("nothing", None) /\ panel' = FALSE
    /\ UNCHANGED <<others, gone>>

\* actKeys, slideBody.
PullsPanel ==
    /\ shown /\ ~panel
    /\ panel' = TRUE
    /\ UNCHANGED <<others, line, gone, shown>>

\* agentRow: whose row may be there.
Listed(a) == shown /\ a \in entered

\* askRevoke, revokeConfirm.
AsksRevoke(a) ==
    /\ Listed(a)
    /\ line' = Says("ask", a)
    /\ UNCHANGED <<others, panel, gone, shown>>

KeepsIt ==
    /\ line.says = "ask"
    /\ line' = Says("nothing", None)
    /\ UNCHANGED <<others, panel, gone, shown>>

Sends(c, does, a) ==
    /\ calls[c] = Free
    /\ calls' = [calls EXCEPT ![c] =
            [does |-> does, who |-> a, at |-> "sent", old |-> 0, secret |-> 0]]
    /\ UNCHANGED <<storeVars, screenVars>>

\* addPanel, actAdd: under whatever name is typed.
Adds(c, a) == panel /\ Sends(c, "add", a)

\* actCredential.
Remints(c, a) == Listed(a) /\ Sends(c, "credential", a)

\* revokeConfirm, actRevoke: from the question alone.
Revokes(c, a) == line.says = "ask" /\ line.who = a /\ Sends(c, "revoke", a)

-----------------------------------------------------------------------------
(* The answers: actAdd, actCredential, actRevoke. *)

\* The names every door reads: mcpConfig, codexConfig and wrapBlock spell them.
Spelled(call) == [token |-> call.secret, persona |-> call.who]

\* renderRunIt: the paste block.
RunIt == {"wrap"}

\* renderOtherWays: the folds that carry the secret; the others do not.
OtherWays == {"mcp", "codex"}

\* renderCredential.
Card(call) ==
    [says |-> IF call.at = "half" THEN "old one too" ELSE "card", who |-> call.who,
     blocks |-> [b \in RunIt \cup OtherWays |-> Spelled(call)]]

\* Faulty variant of Line: a new credential is only told of in the list.
LineWithoutNew(call) ==
    IF call.does = "credential" /\ line.says = "card" THEN line
    ELSE IF call.at = "failed" THEN Says("failed", call.who)
    ELSE IF call.does = "revoke" THEN Says("revoked", call.who) ELSE Card(call)

\* A failed adding is told in the slide-over, everything else in the line.
Line(call) ==
    IF call.at = "failed" THEN IF call.does = "add" THEN line ELSE Says("failed", call.who)
    ELSE IF call.does = "revoke" THEN Says("revoked", call.who) ELSE Card(call)

\* The line, where there is still a page.
Answers(c) ==
    /\ calls[c].at \in {"done", "half", "failed"}
    /\ line' = IF shown THEN Line(calls[c]) ELSE line
    /\ panel' = (panel /\ (calls[c].does # "add" \/ calls[c].at = "failed"))
    /\ calls' = [calls EXCEPT ![c] = Free]
    /\ UNCHANGED <<storeVars, gone, shown>>

AnswerLost(c) ==
    /\ calls[c].at \in {"done", "half", "failed"}
    /\ calls' = [calls EXCEPT ![c] = Free]
    /\ gone' = gone \cup ({calls[c].old} \ accepted[calls[c].who])
    /\ UNCHANGED <<storeVars, line, panel, shown>>

Next ==
    \/ \E a \in Agents : AsksRevoke(a)
    \/ \E a \in Agents, t \in 1 .. MaxMints : OthersRevoke(a, t)
    \/ \E c \in Calls, a \in Agents : Adds(c, a) \/ Remints(c, a) \/ Revokes(c, a)
    \/ \E c \in Calls : Finds(c) \/ Refuses(c) \/ Undoes(c)
    \/ \E c \in Calls, answered \in BOOLEAN :
          Mints(c, answered) \/ Founds(c, answered) \/ TakesOld(c, answered)
    \/ \E c \in Calls : Answers(c) \/ AnswerLost(c)
    \/ Opens \/ Leaves \/ PullsPanel \/ KeepsIt

-----------------------------------------------------------------------------
(* What must hold. *)

\* The credential on the screen is one its agent gets in with, in every block
\* it is spelled in, however the acts of this person overlap: else an act that
\* takes it away is still to be answered, and its answer takes the card's place.
\* Not so one that others took away, that another act took before its own was
\* answered, or that an act took whose answer was lost.
CardAdmits ==
    \A b \in DOMAIN line.blocks :
        LET shownOnce == line.blocks[b]
        IN  \/ shownOnce.token \in accepted[shownOnce.persona] \cup gone
            \/ \E c \in Calls : /\ calls[c].who = shownOnce.persona
                               /\ calls[c].old = shownOnce.token
=============================================================================
