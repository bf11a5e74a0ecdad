------------------------------ MODULE Declaring ------------------------------
(***************************************************************************)
(* Declaring an agent (modules/agents declare.go, declarerender.go): one   *)
(* form in three steps, the document it describes, shown as JSON for       *)
(* reading and placed by the act, and the table of what is placed.  The    *)
(* form only shapes; what is accepted is the declaration package's to say, *)
(* and the act asks it after it has started a home the form left open.     *)
(* Where the document lands is module Placements.                          *)
(***************************************************************************)
EXTENDS Naturals, Sequences, SequencesExt

CONSTANTS
    Forms,      \* what may be filled in: [name, home, mention, topic, schedule,
                \* subject, told, model, tools, most, per]
    Blank,      \* the form as it is served, one of Forms
    HasRole,    \* does the deployment declare a signing role?
    MaxPlaced,  \* bound: placements
    MaxHomes,   \* bound: homes started
    None        \* a field left empty

VARIABLES
    form,       \* the fields as they stand
    step,       \* the step of the form that is shown, 0 .. 2
    panel,      \* is the slide-over out?
    note,       \* the form's own result line
    json,       \* the document on the screen, its form, and what was said of it
    act,        \* the act under way: [at, form, doc]
    line,       \* the screen's result line
    homes,      \* homes started by acts
    placed,     \* the record: <<[doc, state]>>
    table       \* the declared agents on the screen

formVars == <<form, step, panel, json>>
vars == <<formVars, note, act, line, homes, placed, table>>

Unshown == [doc |-> None, of |-> None, said |-> "nothing"]
Idle == [at |-> "idle", form |-> None, doc |-> None]

-----------------------------------------------------------------------------
(* The document a form describes: declarationFrom. *)

\* wakeFrom: one entry per way that was filled in.
Wakes(f) ==
    {k \in {"mention", "topic", "schedule", "subject"} :
        CASE k = "mention" -> f.mention
          [] k = "topic" -> f.topic # None
          [] k = "schedule" -> f.schedule # None
          [] k = "subject" -> f.subject # None}

\* budgetFrom: a limit that was cleared is carried as none.
Window(f) == IF f.most = 0 /\ f.per = None THEN None ELSE [max |-> f.most, per |-> f.per]

\* Tools ride on the role; with none declared there is nothing to write.
Capabilities(f) == IF HasRole THEN f.tools ELSE {}

DocOf(f) ==
    [persona |-> f.name, topic |-> f.home, wakes |-> Wakes(f), schedule |-> f.schedule,
     told |-> f.told, model |-> f.model, tools |-> Capabilities(f), window |-> <<Window(f)>>]

\* declaration.Validate, of what this form can get wrong.
Accepted(d) == d.persona # None /\ d.topic # None /\ d.schedule # "unreadable"

-----------------------------------------------------------------------------
(* The table: renderDeclared. *)

\* declaredRow, wakeCell, stateCell: the one way that can lose a wake is
\* marked.
RowOf(item) ==
    [name |-> item.doc.persona, wakes |-> item.doc.wakes,
     lossy |-> "subject" \in item.doc.wakes, model |-> item.doc.model, state |-> item.state]

\* waitingNote: said once, if anything waits.
Table == [rows |-> [i \in 1 .. Len(placed) |-> RowOf(placed[i])],
          waiting |-> \E i \in 1 .. Len(placed) : placed[i].state = "open"]

-----------------------------------------------------------------------------

TypeOK ==
    /\ form \in Forms /\ step \in 0 .. 2 /\ panel \in BOOLEAN
    /\ note \in {"nothing", "refused", "home comes later", "failed"}
    /\ json.of = None \/ (json.of \in Forms /\ json.doc = DocOf(json.of))
    /\ act.at \in {"idle", "home", "judge", "submit", "answer"}
    /\ line \in {"nothing", "declared", "declared in a new home"}
    /\ homes \in 0 .. MaxHomes
    /\ \A i \in 1 .. Len(placed) : placed[i].state \in {"open", "claimed", "done"}
    /\ Len(table.rows) <= Len(placed)

Init ==
    /\ form = Blank /\ step = 0 /\ panel = FALSE /\ note = "nothing" /\ json = Unshown
    /\ act = Idle /\ line = "nothing"
    /\ homes = 0 /\ placed = <<>> /\ table = Table

-----------------------------------------------------------------------------
(* The form: declarePanel. *)

Fills(f) ==
    /\ panel /\ f # form
    /\ form' = f
    /\ UNCHANGED <<step, panel, json, note, act, line, homes, placed, table>>

Turns(to) ==
    /\ panel /\ to \in {step - 1, step + 1} \cap 0 .. 2
    /\ step' = to
    /\ UNCHANGED <<form, panel, json, note, act, line, homes, placed, table>>

\* actKeys: the key of this lane, and the one that puts the panel away.
Toggles ==
    /\ panel' = ~panel
    /\ UNCHANGED <<form, step, json, note, act, line, homes, placed, table>>

\* Faulty variant of Judges: what is shown is not judged.
JudgesNothing(d) ==
    IF d.topic = None /\ d.persona # None THEN "home comes later" ELSE "nothing"

\* declareJSON: the form read back, and what is said of it.
Judges(d) ==
    IF d.topic = None /\ d.persona # None THEN "home comes later"
    ELSE IF Accepted(d) THEN "nothing" ELSE "refused"

ShowsJSON ==
    /\ panel /\ step = 2
    /\ note' = Judges(DocOf(form))
    /\ json' = [doc |-> DocOf(form), of |-> form, said |-> note']
    /\ UNCHANGED <<form, step, panel, act, line, homes, placed, table>>

-----------------------------------------------------------------------------
(* actDeclare. *)

\* The name is a field the browser will not send empty.
Submits ==
    /\ panel /\ step = 2 /\ act = Idle /\ form.name # None
    /\ act' = [at |-> IF form.home = None THEN "home" ELSE "judge",
               form |-> form, doc |-> DocOf(form)]
    /\ UNCHANGED <<formVars, note, line, homes, placed, table>>

StartsHome ==
    /\ act.at = "home" /\ homes < MaxHomes
    /\ homes' = homes + 1
    /\ act' = [act EXCEPT !.at = "judge", !.doc.topic = [new |-> homes + 1]]
    /\ UNCHANGED <<formVars, note, line, placed, table>>

\* The home cannot be started, the document is refused, or the record does not
\* take it; a home that was started stays.
Fails(says) ==
    /\ \/ act.at \in {"home", "submit"} /\ says = "failed"
       \/ act.at = "judge" /\ ~Accepted(act.doc) /\ says = "refused"
    /\ note' = says /\ act' = Idle
    /\ UNCHANGED <<formVars, line, homes, placed, table>>

Passes ==
    /\ act.at = "judge" /\ Accepted(act.doc)
    /\ act' = [act EXCEPT !.at = "submit"]
    /\ UNCHANGED <<formVars, note, line, homes, placed, table>>

Places ==
    /\ act.at = "submit" /\ Len(placed) < MaxPlaced
    /\ placed' = Append(placed, [doc |-> act.doc, state |-> "open"])
    /\ act' = [act EXCEPT !.at = "answer"]
    /\ UNCHANGED <<formVars, note, line, homes, table>>

\* The panel goes away, the line says so, and the table is read again.
Answers ==
    /\ act.at = "answer"
    /\ panel' = FALSE /\ note' = "nothing"
    /\ line' = IF act.form.home = None THEN "declared in a new home" ELSE "declared"
    /\ table' = Table /\ act' = Idle
    /\ UNCHANGED <<form, step, json, homes, placed>>

\* The dispatcher, and the stream's tick.
Moves(i, state) ==
    /\ <<placed[i].state, state>> \in {<<"open", "claimed">>, <<"claimed", "done">>}
    /\ placed' = [placed EXCEPT ![i].state = state]
    /\ UNCHANGED <<formVars, note, act, line, homes, table>>

Ticks ==
    /\ table # Table
    /\ table' = Table
    /\ UNCHANGED <<formVars, note, act, line, homes, placed>>

Next ==
    \/ \E f \in Forms : Fills(f)
    \/ \E to \in 0 .. 2 : Turns(to)
    \/ Toggles \/ ShowsJSON \/ Submits \/ StartsHome \/ Passes \/ Places \/ Answers \/ Ticks
    \/ \E says \in {"failed", "refused"} : Fails(says)
    \/ \E i \in 1 .. Len(placed), state \in {"claimed", "done"} : Moves(i, state)

-----------------------------------------------------------------------------
(* What must hold. *)

\* "What the JSON view shows and what the act submits are the same thing": the
\* document placed for a form that was read back is the one that was shown, but
\* for the home the act fills in; and one shown with nothing said against it is
\* not refused.
ShownIsPlaced ==
    [][json.of # None /\ json.of = act.form =>
        /\ Len(placed') > Len(placed) =>
            Last(placed').doc = [json.doc EXCEPT !.topic = act.doc.topic]
        /\ act.at = "judge" /\ act' = Idle => json.said # "nothing"
        /\ act.at = "submit" => json.doc.topic \in {None, act.doc.topic}]_vars
=============================================================================
