----------------------------- MODULE ModelNames -----------------------------
(***************************************************************************)
(* One administrator at the model names (modules/models, soulstream/       *)
(* models.go): a bucket of entries others write too, and one form for      *)
(* naming a model and for pointing its name elsewhere.  The form is a      *)
(* slide-over of the page: it keeps what it holds when it is put away, and *)
(* a form served anew is morphed into it, which gives an input the value   *)
(* served only where that differs from the one served before: what was     *)
(* typed in a field stays when the same is served again.  The list beside  *)
(* it is read and written as the one of Approvals is (LiveList); here a    *)
(* row may be as old as it likes: any name can be asked for.               *)
(***************************************************************************)
EXTENDS Naturals, FiniteSets

CONSTANTS
    Names,      \* of models
    Pins,       \* models a name may be pinned to
    Tags,       \* key:value pairs
    Calls,      \* acts that may be under way at once
    MaxWrites,  \* bound: how often others write the bucket
    None

VARIABLES
    bucket,     \* the entries by name, None where there is none
    founded,    \* does the bucket exist?
    form,       \* what the form holds: [name, points, pin, tags]
    served,     \* the form as it was served last
    filled,     \* the entry it was served from, None for a first name
    typed,      \* the fields somebody typed in since they were given a value
    open,       \* is the slide-over open?
    asked,      \* the name the result line asks about, None when it says
                \* something else
    acts,       \* each act: [does, name, entry, at]
    writes      \* how often others wrote (bounded by MaxWrites)

formVars == <<form, served, filled, typed, open>>
storeVars == <<bucket, founded, writes>>
vars == <<storeVars, formVars, asked, acts>>

\* infercat.Entry, but for the capability, which the codec requires and the
\* form keeps.
Entries == [pin : Pins \cup {None}, tags : SUBSET Tags]
Buckets == [Names -> Entries \cup {None}]
Forms == [name : Names \cup {None}, points : {"any", "model", "tags"},
          pin : Pins \cup {None}, tags : SUBSET Tags]
Free == [does |-> "nothing", name |-> None, entry |-> None, at |-> "free"]

TypeOK ==
    /\ bucket \in Buckets
    /\ founded \in BOOLEAN
    /\ {form, served} \subseteq Forms
    /\ typed \subseteq {"name", "points", "pin", "tags"}
    /\ filled \in Entries \cup {None}
    /\ open \in BOOLEAN
    /\ asked \in Names \cup {None}
    /\ acts \in [Calls -> {Free} \cup
            [does : {"set", "remove"}, name : Names, entry : Entries \cup {None},
             at : {"sent", "reached", "done", "failed"}]]
    /\ writes \in 0 .. MaxWrites

-----------------------------------------------------------------------------
(* The form. *)

\* pointsMode: a pin before tags before neither.
PointsMode(e) ==
    IF e.pin # None THEN "model" ELSE IF e.tags # {} THEN "tags" ELSE "any"

\* Faulty variant of Prefill: the tags are not carried.
PrefillTagless(name, e) ==
    [name |-> name, points |-> PointsMode(e), pin |-> e.pin, tags |-> {}]

\* formPanel filled from a standing entry.
Prefill(name, e) ==
    [name |-> name, points |-> PointsMode(e), pin |-> e.pin, tags |-> e.tags]

Blank == [name |-> None, points |-> "any", pin |-> None, tags |-> {}]

\* actSet: the field of the way it points is read, and no other.
EntryOf(f) ==
    [pin |-> IF f.points = "model" THEN f.pin ELSE None,
     tags |-> IF f.points = "tags" THEN f.tags ELSE {}]

\* parseTags: pointing at tags needs at least one.
Refused(f) == f.name = None \/ (f.points = "tags" /\ f.tags = {})

\* The default morph of a served form, and the signal that comes with it: of
\* the inputs, those are given a value whose value attribute changed.
Morphed(new) ==
    [name |-> IF served.name = new.name THEN form.name ELSE new.name,
     points |-> new.points,
     pin |-> IF served.pin = new.pin THEN form.pin ELSE new.pin,
     tags |-> IF served.tags = new.tags THEN form.tags ELSE new.tags]

\* An entry this form can say whole: others may write a pin and tags at once.
Sayable(e) == e.pin = None \/ e.tags = {}

Init ==
    /\ bucket = [n \in Names |-> None]
    /\ founded = FALSE
    /\ writes = 0
    /\ form = Blank /\ served = Blank /\ filled = None /\ typed = {} /\ open = FALSE
    /\ asked = None
    /\ acts = [c \in Calls |-> Free]

-----------------------------------------------------------------------------
(* The deployment's own verb, and other administrators. *)

OthersWrite(n, e) ==
    /\ writes < MaxWrites
    /\ writes' = writes + 1
    /\ founded' = TRUE
    /\ bucket' = [bucket EXCEPT ![n] = e]
    /\ UNCHANGED <<formVars, asked, acts>>

-----------------------------------------------------------------------------
(* The screen. *)

\* models: the page, with the form as if for a first name; a person is back
\* only when the acts they left under way are over.
Opens ==
    /\ acts = [c \in Calls |-> Free]
    /\ form' = Blank /\ served' = Blank /\ filled' = None /\ typed' = {}
    /\ open' = FALSE
    /\ asked' = None
    /\ UNCHANGED <<storeVars, acts>>

\* edit: the form served from the entry as it stands, and opened.
Edits(n) ==
    /\ bucket[n] # None
    /\ served' = Prefill(n, bucket[n])
    /\ form' = Morphed(served')
    /\ typed' = {f \in typed \ {"points"} : served[f] = served'[f]}
    /\ filled' = bucket[n]
    /\ open' = TRUE
    /\ UNCHANGED <<storeVars, asked, acts>>

\* The bucket is out of reach, or holds no such entry now: the line says so.
EditsNothing ==
    /\ asked' = None
    /\ UNCHANGED <<storeVars, formVars, acts>>

\* The key that opens the slide-over, and the one that closes it.
Toggles ==
    /\ open' = ~open
    /\ UNCHANGED <<storeVars, form, served, filled, typed, asked, acts>>

\* Somebody types in a field of the open form.
Types(f) ==
    LET written == {k \in DOMAIN f : f[k] # form[k]}
    IN  /\ open
        /\ Cardinality(written) = 1
        /\ form' = f
        /\ typed' = typed \cup written
        /\ UNCHANGED <<storeVars, served, filled, open, asked, acts>>

\* askRemove, and "Keep it".
AsksRemove(n) ==
    /\ asked' = n
    /\ UNCHANGED <<storeVars, formVars, acts>>

KeepsIt ==
    /\ asked # None
    /\ asked' = None
    /\ UNCHANGED <<storeVars, formVars, acts>>

-----------------------------------------------------------------------------
(* actSet and actRemove. *)

Sends(c, does, n, e) ==
    /\ acts[c] = Free
    /\ acts' = [acts EXCEPT ![c] = [does |-> does, name |-> n, entry |-> e, at |-> "sent"]]
    /\ UNCHANGED <<storeVars, formVars, asked>>

Saves(c) == open /\ ~Refused(form) /\ Sends(c, "set", form.name, EntryOf(form))

Removes(c) == asked # None /\ Sends(c, "remove", asked, None)

\* The bucket is looked for, and founded for a first name; a removal that
\* finds none is done.
Reaches(c) ==
    /\ acts[c].at = "sent"
    /\ IF acts[c].does = "set"
       THEN founded' = TRUE /\ acts' = [acts EXCEPT ![c].at = "reached"]
       ELSE /\ acts' = [acts EXCEPT ![c].at = IF founded THEN "reached" ELSE "done"]
            /\ UNCHANGED founded
    /\ UNCHANGED <<bucket, writes, formVars, asked>>

\* infercat.Set and infercat.Delete.
Writes(c) ==
    /\ acts[c].at = "reached"
    /\ bucket' = [bucket EXCEPT ![acts[c].name] = acts[c].entry]
    /\ acts' = [acts EXCEPT ![c].at = "done"]
    /\ UNCHANGED <<founded, writes, formVars, asked>>

\* The bucket is out of reach, or the write's answer is lost.
WriteFails(c) ==
    /\ acts[c].at \in {"sent", "reached"}
    /\ \/ UNCHANGED bucket
       \/ acts[c].at = "reached" /\ bucket' = [bucket EXCEPT ![acts[c].name] = acts[c].entry]
    /\ acts' = [acts EXCEPT ![c].at = "failed"]
    /\ UNCHANGED <<founded, writes, formVars, asked>>

\* Said beside the form or on the result line; the list is not read again.
SaysFailed(c) ==
    /\ acts[c].at = "failed"
    /\ acts' = [acts EXCEPT ![c] = Free]
    /\ asked' = IF acts[c].does = "remove" THEN None ELSE asked
    /\ UNCHANGED <<storeVars, formVars>>

\* The answer: a save puts the slide-over away, whatever it holds by now.
Answered(c) ==
    /\ acts[c].at = "done"
    /\ acts' = [acts EXCEPT ![c] = Free]
    /\ open' = (open /\ acts[c].does # "set")
    /\ asked' = None
    /\ UNCHANGED <<storeVars, form, served, filled, typed>>

Act(c) ==
    \/ Saves(c) \/ Removes(c) \/ Reaches(c) \/ Writes(c) \/ WriteFails(c)
    \/ SaysFailed(c) \/ Answered(c)

Next ==
    \/ Opens \/ Toggles \/ KeepsIt \/ EditsNothing
    \/ \E n \in Names : Edits(n) \/ AsksRemove(n)
    \/ \E n \in Names, e \in Entries \cup {None} : OthersWrite(n, e)
    \/ \E f \in Forms : Types(f)
    \/ \E c \in Calls : Act(c)

-----------------------------------------------------------------------------
(* What must hold. *)

\* The fields an act reads: the way it points, and what that way asks for.
Read == {"points"} \cup (IF form.points = "model" THEN {"pin"} ELSE {})
                  \cup (IF form.points = "tags" THEN {"tags"} ELSE {})

\* "The same form": served from an entry it can say, it sends that entry unless
\* a field the act reads holds what somebody typed, for this name or another.
UntouchedSaysTheSame ==
    filled # None /\ Sayable(filled) /\ typed \cap Read = {} =>
        /\ EntryOf(form) = filled
        /\ "name" \notin typed => ~Refused(form)
=============================================================================
