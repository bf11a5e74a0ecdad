------------------------------- MODULE Picker -------------------------------
(***************************************************************************)
(* Who is in a conversation, whom the composer offers while @ is typed,    *)
(* and whom a message then taps (modules/conversations picker.go,          *)
(* details.go).  What is written stays as it was written; whom it is about *)
(* is decided at the post, against the record: the picks the form carries  *)
(* and the names the text carries.  Where the record cannot be read then,  *)
(* the message goes out all the same, and every pick is dropped.           *)
(*                                                                         *)
(* A name is a value; Begins says which names are read out of one that was *)
(* written, itself and those it goes on from at the end of a word          *)
(* (namedIn): "@Avery Blake" is read as Avery Blake and as Avery.          *)
(***************************************************************************)
EXTENDS Naturals, Sequences, SequencesExt, FiniteSets, FiniteSetsExt

CONSTANTS
    Personas,   \* ids on the record, the handles people can be typed by
    Me,         \* whose composer it is
    Called(_),  \* the display name of each, once the directory answers
    Begins(_),  \* the names read out of a written one
    Fragments,  \* what may be typed after the @
    FitsName(_, _), \* does a fragment begin a word of a name, or a handle?
    Limit,      \* suggestLimit
    Workers,    \* who opens or takes on work
    MaxWork,    \* bound: work items
    None

\* Assumed of the constants by whoever instantiates this module: whoever works
\* is a persona, and a name is read out of itself.
PickerAssumption ==
    /\ Workers \subseteq Personas /\ None \notin Personas
    /\ \A p \in Personas : \A name \in {p, Called(p)} : name \in Begins(name)

VARIABLES
    said,       \* the authors of the contributions, as first heard
    work,       \* <<[author, owner]>>
    named,      \* the personas the directory answers for
    offer,      \* the rows under the box: [persona, name]
    body,       \* the mentions in the text: [says, of]
    picks,      \* the personas the form carries
    tapped      \* whom the message just posted tapped

vars == <<said, work, named, offer, body, picks, tapped>>

Name(p) == IF p \in named THEN Called(p) ELSE p
Names == Personas \cup {Called(p) : p \in Personas}

TypeOK ==
    /\ said \in Seq(Personas) /\ IsInjective(said)
    /\ work \in Seq([author : Workers, owner : Workers \cup {None}])
    /\ named \subseteq Personas
    /\ offer \subseteq [persona : Personas \ {Me}, name : Names]
    /\ body \subseteq [says : Names, of : Personas]
    /\ picks \subseteq Personas
    /\ tapped \subseteq Personas

Init ==
    /\ said = <<>> /\ work = <<>> /\ named = {}
    /\ offer = {} /\ body = {} /\ picks = {} /\ tapped = {}

-----------------------------------------------------------------------------
(* The room. *)

\* Where the record speaks of somebody: what they said first, then what work they
\* opened or took on.
Heard(p) ==
    {i \in DOMAIN said : said[i] = p}
    \cup {Len(said) + 2 * i - 1 : i \in {j \in DOMAIN work : work[j].author = p}}
    \cup {Len(said) + 2 * i : i \in {j \in DOMAIN work : work[j].owner = p}}

\* participants: everybody it speaks of.
Room == {p \in Personas : Heard(p) # {}}

\* suggestions: of the others whom the fragment fits, the few first heard.
Suggestions(q) ==
    LET fits == {p \in Room \ {Me} : FitsName(q, Name(p)) \/ FitsName(q, p)}
    IN  {p \in fits : Cardinality({r \in fits : Min(Heard(r)) < Min(Heard(p))}) < Limit}

\* namedIn: the text carries the name, whole or at the beginning of a longer.
NamedIn(text, name) == \E m \in text : name \in Begins(m.says)

Answering(people, name) == {p \in people : Name(p) = name}

\* Faulty variant of ResolveMentions: a pick is taken on the form's word.
ResolveMentionsFromForm(text, picked, people) ==
    (picked \cap people) \cup
    {p \in people : Answering(people, Name(p)) = {p} /\ NamedIn(text, Name(p))}

\* resolveMentions: a pick while the text carries its name, a name by hand
\* where one person answers to it, among the people read.
ResolveMentions(text, picked, people) ==
    {p \in picked \cap people : NamedIn(text, Name(p))} \cup
    {p \in people : Answering(people, Name(p)) = {p} /\ NamedIn(text, Name(p))}

\* The library's own reading of the text: handles.
Handles(text) == {p \in Personas : \E m \in text : m.says = p}

-----------------------------------------------------------------------------
(* The record grows, the directory answers. *)

Speaks(p) ==
    /\ p \notin Range(said)
    /\ said' = Append(said, p)
    /\ UNCHANGED <<work, named, offer, body, picks, tapped>>

TakesOnWork(p, owner) ==
    /\ Len(work) < MaxWork
    /\ work' = Append(work, [author |-> p, owner |-> owner])
    /\ UNCHANGED <<said, named, offer, body, picks, tapped>>

Named(p) ==
    /\ p \notin named
    /\ named' = named \cup {p}
    /\ UNCHANGED <<said, work, offer, body, picks, tapped>>

\* A look-up made again fails, and its miss stands for a minute.
Unnamed(p) ==
    /\ p \in named
    /\ named' = named \ {p}
    /\ UNCHANGED <<said, work, offer, body, picks, tapped>>

-----------------------------------------------------------------------------
(* The composer. *)

\* renderSuggest: a row carries the persona and the name it is offered under.
Offer(people) == {[persona |-> p, name |-> Name(p)] : p \in people}

\* composerSuggest: the list for what has been typed; nobody, where the
\* conversation cannot be read.
Suggests(q) ==
    /\ offer' \in {Offer(Suggestions(q)), {}}
    /\ UNCHANGED <<said, work, named, body, picks, tapped>>

\* mentionPick: the name goes into the text and the persona into the form.
Picks(row) ==
    /\ body' = body \cup {[says |-> row.name, of |-> row.persona]}
    /\ picks' = picks \cup {row.persona}
    /\ offer' = {} /\ tapped' = {}
    /\ UNCHANGED <<said, work, named>>

\* A name typed by hand, of somebody whose name one person answers to.
TypesName(p) ==
    /\ p \in Room /\ Answering(Room, Name(p)) = {p}
    /\ body' = body \cup {[says |-> Name(p), of |-> p]}
    /\ tapped' = {}
    /\ UNCHANGED <<said, work, named, offer, picks>>

\* Thought better of: the text loses it, the form does not.
Deletes(m) ==
    /\ body' = body \ {m}
    /\ UNCHANGED <<said, work, named, offer, picks, tapped>>

\* peopleIn: who is in the conversation, or nobody where it cannot be read.
PeopleIn == {Room, {}}

\* actPostTurn: the message taps whom it names, and the composer is emptied.
Posts(people) ==
    /\ body # {}
    /\ tapped' = ResolveMentions(body, picks, people) \cup Handles(body)
    /\ body' = {} /\ picks' = {} /\ offer' = {}
    /\ UNCHANGED <<said, work, named>>

Next ==
    \/ \E p \in Personas : Speaks(p) \/ Named(p) \/ Unnamed(p) \/ TypesName(p)
    \/ \E p \in Workers, owner \in Workers \cup {None} : TakesOnWork(p, owner)
    \/ \E q \in Fragments : Suggests(q)
    \/ \E row \in offer : Picks(row)
    \/ \E m \in body : Deletes(m)
    \/ \E people \in PeopleIn : Posts(people)

-----------------------------------------------------------------------------
(* What must hold. *)

\* The names somebody goes by: what they are called now, what the text says.
GoesBy(p) == {Name(p)} \cup {m.says : m \in {n \in body : n.of = p}}

\* No name of somebody in the room is another's handle, or is read out of the
\* handle or of a name of another in it.
Plain ==
    \A q \in Room :
        /\ GoesBy(q) \cap Personas \subseteq {q}
        /\ \A p \in Room \ {q} : \A name \in GoesBy(p) \cup {p} : Name(q) \notin Begins(name)

\* Whom the text is about: those in it by their handle, or by what still reads as
\* what they are called.
Meant == {m.of : m \in {n \in body : n.says = n.of \/ Name(n.of) \in Begins(n.says)}}

\* A message taps whoever was picked for it and is still named in it, whoever
\* else shares the name, if the people could be read.  Where the names of the
\* room are plain it taps no one it was not meant for (not a pick whose name was
\* deleted again, nor anybody whose name was not written), and exactly those it
\* was meant for if the people could be read.
TapsWhoWasMeant ==
    [][\A people \in PeopleIn : Posts(people) =>
        /\ \A m \in body :
            m.of \in picks \cap people /\ m.says = Name(m.of) => m.of \in tapped'
        /\ Plain => tapped' \subseteq Meant /\ (people = Room => tapped' = Meant)]_vars
=============================================================================
