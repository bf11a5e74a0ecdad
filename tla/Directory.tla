------------------------------ MODULE Directory -----------------------------
(***************************************************************************)
(* What an id is called and whose key it signs with (soulstream/           *)
(* directory.go, support.go, session.go ScreenName): three caches over the *)
(* record's profiles and the plane's open directory, each filled by        *)
(* whoever asks first, none of them held locked while it asks.  A name     *)
(* that was found is kept for good; that nothing was found is kept for a   *)
(* minute.  Profiles and keys are published by others.                     *)
(***************************************************************************)
EXTENDS Naturals

CONSTANTS
    Ids,        \* personas on the record
    Labels,     \* display names and, for a key, its versions
    Readers,    \* screens that ask for names, one look-up at a time each
    MaxMisses,  \* bound: how often a look-up goes unanswered
    None

VARIABLES
    profiles,   \* the record: the display name published, "" for a nameless
                \* profile, None for none
    keys,       \* the open directory: the key an id signs with
    cards,      \* cardCache: [name, fresh] or None; name is None for a miss
    asking,     \* each reader's look-up: [id, at, card]
    own,        \* what each id's own session calls it (Session.name)
    held,       \* keyCache
    misses      \* look-ups that went unanswered (bounded by MaxMisses)

vars == <<profiles, keys, cards, asking, own, held, misses>>

Card == [name : Labels \cup {None}, fresh : BOOLEAN]
Free == [id |-> None, at |-> "free", card |-> None]

TypeOK ==
    /\ profiles \in [Ids -> Labels \cup {"", None}]
    /\ keys \in [Ids -> Labels \cup {None}]
    /\ cards \in [Ids -> Card \cup {None}]
    /\ asking \in [Readers -> {Free} \cup
            [id : Ids, at : {"asks", "knows"}, card : Card \cup {None}]]
    /\ own \in [Ids -> Labels \cup {None}]
    /\ held \in [Ids -> Labels \cup {None}]
    /\ misses \in 0 .. MaxMisses

Init ==
    /\ profiles = [i \in Ids |-> None]
    /\ keys = [i \in Ids |-> None]
    /\ cards = [i \in Ids |-> None]
    /\ asking = [r \in Readers |-> Free]
    /\ own = [i \in Ids |-> None]
    /\ held = [i \in Ids |-> None]
    /\ misses = 0

-----------------------------------------------------------------------------
(* The record, the open directory and the clock. *)

\* A profile is published, or published again under another name.
Publishes(i, label) ==
    /\ profiles[i] # label
    /\ profiles' = [profiles EXCEPT ![i] = label]
    /\ UNCHANGED <<keys, cards, asking, own, held, misses>>

TakesKey(i, k) ==
    /\ keys[i] # k
    /\ keys' = [keys EXCEPT ![i] = k]
    /\ UNCHANGED <<profiles, cards, asking, own, held, misses>>

\* What was filed is a minute old.
MinutePasses ==
    /\ \E i \in Ids : cards[i] # None /\ cards[i].fresh
    /\ cards' = [i \in Ids |->
            IF cards[i] = None THEN None ELSE [cards[i] EXCEPT !.fresh = FALSE]]
    /\ UNCHANGED <<profiles, keys, asking, own, held, misses>>

-----------------------------------------------------------------------------
(* Support.Card. *)

Found(i) == cards[i] # None /\ cards[i].name # None

\* Faulty variant of Answers: what was once filed answers for good.
AnswersForGood(i) == cards[i] # None

\* The cache answers: a name for good, a miss for a minute.
Answers(i) == Found(i) \/ (cards[i] # None /\ cards[i].fresh)

\* Anything else is looked up, with the cache unlocked.
Asks(r, i) ==
    /\ asking[r] = Free
    /\ ~Answers(i)
    /\ asking' = [asking EXCEPT ![r] = [id |-> i, at |-> "asks", card |-> None]]
    /\ UNCHANGED <<profiles, keys, cards, own, held, misses>>

Named(label) == IF label = "" THEN None ELSE label

Knows(r, name) ==
    /\ asking[r].at = "asks"
    /\ asking' = [asking EXCEPT ![r].at = "knows",
                                ![r].card = [name |-> name, fresh |-> TRUE]]

LooksUp(r) ==
    /\ Knows(r, Named(profiles[asking[r].id]))
    /\ UNCHANGED <<profiles, keys, cards, own, held, misses>>

\* A directory that does not answer reads as a miss.
Unanswered(r) ==
    /\ misses < MaxMisses
    /\ misses' = misses + 1
    /\ Knows(r, None)
    /\ UNCHANGED <<profiles, keys, cards, own, held>>

\* And the answer is filed over whatever was filed meanwhile.
Files(r) ==
    /\ asking[r].at = "knows"
    /\ cards' = [cards EXCEPT ![asking[r].id] = asking[r].card]
    /\ asking' = [asking EXCEPT ![r] = Free]
    /\ UNCHANGED <<profiles, keys, own, held, misses>>

-----------------------------------------------------------------------------
(* A person's own name, and the keys messages are verified with. *)

\* ScreenName, nameIs: settled on the session by the first answer.
ScreenName(i) ==
    /\ own[i] = None
    /\ Named(profiles[i]) # None
    /\ own' = [own EXCEPT ![i] = profiles[i]]
    /\ UNCHANGED <<profiles, keys, cards, asking, held, misses>>

\* personaKey: nothing found is not remembered, a key is for good.
PersonaKey(i) ==
    /\ held[i] = None
    /\ keys[i] # None
    /\ held' = [held EXCEPT ![i] = keys[i]]
    /\ UNCHANGED <<profiles, keys, cards, asking, own, misses>>

\* Keyring and KeyringFor: who of these voices can be verified, with what.
KeyringFor(voices) == [i \in {v \in voices : held[v] # None} |-> held[i]]

\* One look-up, whatever comes of it.
LookUp(r) ==
    \/ \E i \in Ids : Asks(r, i)
    \/ LooksUp(r) \/ Unanswered(r) \/ Files(r)

Next ==
    \/ MinutePasses
    \/ \E i \in Ids :
        \/ \E label \in Labels \cup {""} : Publishes(i, label)
        \/ \E k \in Labels : TakesKey(i, k)
        \/ ScreenName(i) \/ PersonaKey(i)
    \/ \E r \in Readers : LookUp(r)

-----------------------------------------------------------------------------
(* What must hold. *)

\* "And still appears when it is published": an id that comes to have a display
\* name, and keeps one, is called by a name on every screen from some time on,
\* and by its own session, however look-ups overlapped, went unanswered or had
\* been answered before.  The keyring comes to hold a key of every id that signs.
KnownInTheEnd ==
    \A i \in Ids :
        /\ \/ []<>(profiles[i] \in {"", None})
           \/ <>[](Found(i) /\ own[i] # None)
        /\ [](keys[i] = None) \/ <>[](i \in DOMAIN KeyringFor(Ids))
=============================================================================
