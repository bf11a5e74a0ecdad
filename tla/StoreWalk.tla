------------------------------ MODULE StoreWalk ------------------------------
(***************************************************************************)
(* A person reading a store page by page (modules/storage: read, the Older *)
(* key of renderReach, the tail).  Each page walks back from a sequence,   *)
(* one message at a time, over a store that grows and compacts meanwhile.  *)
(***************************************************************************)
EXTENDS Subjects, FiniteSets, FiniteSetsExt

CONSTANTS
    SubjectsWritten, \* subjects of the messages that are written
    Filters,        \* what is typed in the box; <<>>: nothing
    Space,          \* the pattern of the whole store
    PageSize, TailSize, ScanLimit,
    Befores,        \* the sequences a link may carry, 0: none
    MaxLog          \* bound: messages ever written

ASSUME SizesAssumption ==
    {PageSize, TailSize, ScanLimit} \subseteq Nat \ {0} /\ MaxLog \in Nat
ASSUME AsksAssumption == Befores \subseteq Nat
\* Subjects and patterns are sequences of words, and the space of a store ends
\* with its only ">", if it has one (realm.StreamSubject).
ASSUME PatternsAssumption ==
    /\ SubjectsWritten \cup Filters \subseteq Seq(STRING)
    /\ Space \in Seq(STRING) \ {<<>>} /\ CheckPattern(Space)

VARIABLES
    log,        \* the subjects of the messages ever written, by sequence
    live,       \* the sequences the store still holds
    at,         \* where the read stands
    filter, before, limit,      \* what it was asked
    first, last,                \* the store's bounds when it looked
    seq, examined, oldest,      \* the walk
    ops,        \* the messages on the page
    capped,     \* view.Capped
    top,        \* where the newest of these pages began, 0: not yet known
    shown,      \* the messages on the pages before this one
    lapsed      \* has a message of these pages failed to be read?

askVars == <<filter, before, limit>>
walkVars == <<first, last, seq, examined, oldest, ops, capped>>
historyVars == <<top, shown, lapsed>>
vars == <<log, live, at, askVars, walkVars, historyVars>>

Sequences0 == 0 .. MaxLog + 1

TypeOK ==
    /\ log \in Seq(SubjectsWritten) /\ Len(log) <= MaxLog
    /\ live \subseteq 1 .. Len(log)
    /\ at \in {"idle", "asked", "walking", "read", "empty", "refused"}
    /\ filter \in Filters
    /\ before \in Sequences0 \cup Befores
    /\ limit \in {PageSize, TailSize}
    /\ {first, last, seq, oldest, top} \subseteq Sequences0
    /\ examined \in 0 .. ScanLimit
    /\ ops \subseteq 1 .. Len(log) /\ Cardinality(ops) <= limit
    /\ capped \in BOOLEAN
    /\ shown \subseteq 1 .. Len(log)
    /\ lapsed \in BOOLEAN

Init ==
    /\ log = <<>>
    /\ live = {}
    /\ at = "idle"
    /\ filter \in Filters
    /\ before = 0
    /\ limit = PageSize
    /\ first = 0 /\ last = 0 /\ seq = 0 /\ examined = 0 /\ oldest = 0
    /\ ops = {}
    /\ capped = FALSE
    /\ top = 0
    /\ shown = {}
    /\ lapsed = FALSE

-----------------------------------------------------------------------------
(* The store. *)

Appends(subject) ==
    /\ Len(log) < MaxLog
    /\ log' = Append(log, subject)
    /\ live' = live \cup {Len(log) + 1}
    /\ UNCHANGED <<at, askVars, walkVars, historyVars>>

\* A rollup, or the inbox's limit, deletes a message.
Compacts(s) ==
    /\ s \in live
    /\ live' = live \ {s}
    /\ UNCHANGED <<log, at, askVars, walkVars, historyVars>>

FirstSeq == IF live = {} THEN Len(log) + 1 ELSE Min(live)

-----------------------------------------------------------------------------
(* One page. *)

\* read: the space of the store when nothing was typed.
Pattern == IF filter = <<>> THEN Space ELSE filter

\* A page, or a tick of the tail, from the newest or from the sequence of a
\* link.
Asks(f, b, n) ==
    /\ at \notin {"asked", "walking"}
    /\ n = TailSize => b = 0
    /\ at' = "asked"
    /\ filter' = f
    /\ before' = b
    /\ limit' = n
    /\ ops' = {}
    /\ top' = 0
    /\ shown' = {}
    /\ lapsed' = FALSE
    /\ UNCHANGED <<log, live, first, last, seq, examined, oldest, capped>>

\* Faulty variant of Older: offered at the first sequence too.
OlderAtFirst == oldest >= first

\* Faulty variant of Older: only a page that was cut short is said to be.
OlderWhenCapped == capped

\* renderReach offers the key that reads further back.
Older == oldest > first /\ oldest > 1

\* It is pressed.
AsksOlder ==
    /\ at = "read" /\ Older
    /\ at' = "asked"
    /\ before' = oldest - 1
    /\ limit' = PageSize
    /\ ops' = {}
    /\ shown' = shown \cup ops
    /\ UNCHANGED <<log, live, filter, first, last, seq, examined, oldest, capped, top,
                   lapsed>>

\* A pattern that is none, or a store that cannot be reached.
Refuses ==
    /\ at = "asked"
    /\ at' = "refused"
    /\ UNCHANGED <<log, live, askVars, walkVars, historyVars>>

\* The store's state is read once, at the start of the walk.
Looks ==
    /\ at = "asked"
    /\ filter = <<>> \/ CheckPattern(filter)
    /\ first' = FirstSeq
    /\ last' = Len(log)
    /\ IF live = {}
       THEN /\ at' = "empty"
            /\ UNCHANGED <<seq, oldest, top>>
       ELSE LET ceiling == IF before = 0 \/ before > Len(log) THEN Len(log) ELSE before IN
            /\ at' = "walking"
            /\ seq' = ceiling
            /\ oldest' = ceiling + 1
            /\ top' = IF top = 0 THEN ceiling ELSE top
    /\ examined' = 0
    /\ capped' = FALSE
    /\ UNCHANGED <<log, live, askVars, ops, shown, lapsed>>

InRange == seq >= first /\ seq > 0
Full == Cardinality(ops) >= limit

\* Faulty variant of Walks: a full page does not end it.
WalksPastFull == at = "walking" /\ InRange /\ examined < ScanLimit

Walks == at = "walking" /\ InRange /\ ~Full /\ examined < ScanLimit

Examined ==
    /\ examined' = examined + 1
    /\ oldest' = seq
    /\ seq' = seq - 1

\* GetMsg: one sequence, which the store may hold no longer.
Examines ==
    /\ Walks
    /\ Examined
    /\ ops' = IF seq \in live /\ SubjectMatches(Pattern, log[seq])
              THEN ops \cup {seq} ELSE ops
    /\ UNCHANGED <<log, live, at, askVars, first, last, capped, historyVars>>

\* GetMsg fails for another reason: passed over like one that is gone.
ExaminesNothing ==
    /\ Walks
    /\ Examined
    /\ lapsed' = TRUE
    /\ UNCHANGED <<log, live, at, askVars, first, last, ops, capped, top, shown>>

\* The end of the loop: the page is full, the limit is reached, or it is all.
Stops ==
    /\ at = "walking" /\ ~Walks
    /\ at' = "read"
    /\ capped' = (InRange /\ ~Full)
    /\ UNCHANGED <<log, live, askVars, first, last, seq, examined, oldest, ops, historyVars>>

Next ==
    \/ \E s \in SubjectsWritten : Appends(s)
    \/ \E s \in live : Compacts(s)
    \/ \E f \in Filters, b \in Befores, n \in {PageSize, TailSize} : Asks(f, b, n)
    \/ AsksOlder \/ Refuses \/ Looks \/ Examines \/ ExaminesNothing \/ Stops

Spec == Init /\ [][Next]_vars

-----------------------------------------------------------------------------
(* What must hold. *)

\* What a pattern stands for among the messages still in the store.
Wanted == {s \in live : Covers(Pattern, log[s])}

Reached == {s \in Wanted : oldest <= s /\ s <= top}

\* Page after page, nothing between where the reading began and where it has
\* got to is left out, whatever is written or compacted meanwhile; and nothing
\* the pattern does not stand for is put in.
PagesAreWholeAnyway ==
    at = "read" =>
        /\ Reached \subseteq shown \cup ops
        /\ \A s \in shown \cup ops : Covers(Pattern, log[s]) /\ oldest <= s /\ s <= top

\* So it is as long as every message of these pages could be read.
PagesAreWhole == ~lapsed => PagesAreWholeAnyway

\* A page is never a silent truncation: if something older is still there the
\* key to it is offered, and if the page had room for it the limit is said.
TruncationIsSaid ==
    at = "read" /\ (\E s \in Wanted : s < oldest) =>
        Older /\ (Cardinality(ops) < limit => capped)

\* Reading further back goes back: no message comes twice, and no key leads
\* round to the newest page again.
ReadsBackwards ==
    /\ shown \cap ops = {}
    /\ at = "asked" /\ top # 0 => before # 0 /\ \A s \in shown : before < s
=============================================================================
