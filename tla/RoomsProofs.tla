----------------------------- MODULE RoomsProofs -----------------------------
(***************************************************************************)
(* Proofs about RoomsTogether: of the watch, for any number of acts, agents *)
(* and placements and a board that lags by any number of topics; of the    *)
(* conversations, from ConversationProofs.                                 *)
(***************************************************************************)
EXTENDS RoomsTogether, ConversationProofs, SequenceTheorems, TLAPS

-----------------------------------------------------------------------------
(* The inductive invariant.  A placement is listed if it is on the first    *)
(* topic of the name.  That all are is not inductive alone: an act that is  *)
(* to start the topic has already looked, and one that is to submit has     *)
(* already resolved it.  Others may bear the name, as long as they come     *)
(* later.                                                                   *)

NamesPlacements == {p \in 1 .. Len(topics) : topics[p] = PlacementsName}

\* An act that is to submit, or has, knows the home and the topic it placed on.
Resolved(a) ==
    /\ at[a] \notin {"new", "home", "failed"} => form[a].home # 0
    /\ at[a] \in {"submit", "declared", "answered"} => path[a] # 0

\* What an act submitted is among the placements.
IsPlaced(a) ==
    at[a] \in {"declared", "answered"} =>
        \E i \in 1 .. Len(items) :
            items[i].agent = form[a].agent /\ items[i].home = form[a].home

\* The first topic that bears the name.
First(p) == p \in NamesPlacements /\ \A q \in NamesPlacements : p <= q

\* In turn, one act at most is to start the topic, and no topic bears the name.
OneStarts ==
    /\ \A a \in Acts : at[a] = "start" => NamesPlacements = {}
    /\ \A a, b \in Acts : at[a] = "start" /\ at[b] = "start" => a = b

\* In turn, every placement is on the first, and every act that is to submit
\* knows that one.
AllOnFirst ==
    /\ \A i \in 1 .. Len(items) : First(items[i].on)
    /\ \A a \in Acts : at[a] = "submit" => First(path[a])

WatchInv ==
    /\ P!TypeOK
    /\ \A a \in Acts : Resolved(a) /\ IsPlaced(a)
    /\ ~raced => OneStarts /\ AllOnFirst /\ P!LineIsBelow

-----------------------------------------------------------------------------
(* Lemmas about the operators. *)

\* The least element of a set of numbers is one of it.
LEMMA MinProperty ==
  ASSUME NEW S \in SUBSET Nat, S # {}
  PROVE  P!Min(S) \in S /\ \A y \in S : P!Min(S) <= y
<1>1. PICK x \in S : \A y \in S : ~(<<y, x>> \in OpToRel(<, Nat))
  BY WFMin, NatLessThanWellFounded
<1>2. \A y \in S : x <= y
  <2> SUFFICES ASSUME NEW y \in S PROVE x <= y
    OBVIOUS
  <2>1. ~(y < x)
    BY <1>1 DEF OpToRel
  <2> QED
    BY <2>1
<1> QED
  BY <1>2 DEF P!Min

\* The board is a beginning of the record.
LEMMA BoardIsABeginning ==
  ASSUME P!TypeOK
  PROVE  /\ Len(P!Board) \in 0 .. Len(topics)
         /\ \A p \in 1 .. Len(P!Board) : P!Board[p] = topics[p]
<1>1. known \in 0 .. Len(topics) /\ Len(topics) \in Nat
  BY DEF P!TypeOK, P!Paths
<1>2. CASE watch = "cold"
  BY <1>1, <1>2 DEF P!Board
<1>3. CASE watch # "cold"
  BY <1>1, <1>3 DEF P!Board, P!TypeOK
<1> QED
  BY <1>2, <1>3

\* What is resolved is the first topic of the name, and none is resolved only if
\* the board knows of none.
LEMMA ResolvesTheName ==
  ASSUME P!TypeOK
  PROVE  /\ P!PlacementsPath \in 0 .. Len(P!Board)
         /\ P!PlacementsPath # 0 => P!PlacementsPath \in NamesPlacements
         /\ P!PlacementsPath = 0 => \A p \in NamesPlacements : p > Len(P!Board)
         /\ P!PlacementsPath # 0 => \A p \in NamesPlacements : P!PlacementsPath <= p
<1> DEFINE I == {i \in 1 .. Len(P!Board) : P!Board[i] = PlacementsName}
<1>1. P!PlacementsPath = IF I # {} THEN P!Min(I) ELSE 0
  BY Zenon DEF P!PlacementsPath, P!SelectInSeq
<1>2. Len(P!Board) \in 0 .. Len(topics) /\ Len(topics) \in Nat
  BY BoardIsABeginning DEF P!TypeOK
<1>3. \A p \in I : p \in NamesPlacements
  BY <1>2, BoardIsABeginning DEF NamesPlacements
<1>4. \A p \in NamesPlacements : p <= Len(P!Board) => p \in I
  BY <1>2, BoardIsABeginning DEF NamesPlacements
<1>5. I \in SUBSET Nat /\ I \subseteq 1 .. Len(P!Board)
  BY <1>2
<1> HIDE DEF I
<1>6. CASE I = {}
  <2>1. P!PlacementsPath = 0
    BY <1>1, <1>6
  <2> QED
    BY <1>2, <1>4, <1>6, <2>1 DEF NamesPlacements
<1>7. CASE I # {}
  <2>1. P!PlacementsPath \in I /\ \A p \in I : P!PlacementsPath <= p
    BY <1>1, <1>5, <1>7, MinProperty
  <2>2. \A p \in NamesPlacements : P!PlacementsPath <= p
    BY <1>2, <1>4, <1>5, <2>1 DEF NamesPlacements
  <2> QED
    BY <1>2, <1>3, <1>5, <2>1, <2>2
<1> QED
  BY <1>6, <1>7

\* With the board caught up, none resolved means there is none.
LEMMA ResolvedInTurn ==
  ASSUME P!TypeOK, ~P!Behind
  PROVE  P!PlacementsPath = 0 <=> NamesPlacements = {}
<1>1. Len(P!Board) = Len(topics)
  BY BoardIsABeginning DEF P!Behind, P!TypeOK
<1> QED
  BY <1>1, ResolvesTheName DEF NamesPlacements, P!TypeOK

\* In turn, what is declared is every placement.
LEMMA DeclaredInTurn ==
  ASSUME WatchInv, ~raced, ~P!Behind
  PROVE  P!Declared = 1 .. Len(items)
<1>1. P!TypeOK /\ OneStarts /\ AllOnFirst
  BY DEF WatchInv
<1>2. CASE P!PlacementsPath = 0
  BY <1>1, <1>2, ResolvedInTurn DEF P!Declared, AllOnFirst, First, P!TypeOK
<1>3. CASE P!PlacementsPath # 0
  <2>1. NamesPlacements \subseteq Nat
    BY DEF NamesPlacements
  <2>2. First(P!PlacementsPath)
    BY <1>1, <1>3, ResolvesTheName DEF First
  <2>3. \A p, q : First(p) /\ First(q) => p = q
    BY <2>1 DEF First
  <2>4. \A i \in 1 .. Len(items) : items[i].on = P!PlacementsPath
    BY <1>1, <2>2, <2>3 DEF AllOnFirst
  <2> QED
    BY <1>3, <2>4 DEF P!Declared, P!On
<1> QED
  BY <1>2, <1>3

-----------------------------------------------------------------------------
(* The acts, step by step. *)

\* A step of an act that writes nothing to the record and resolves nothing.
LEMMA QuietActKeeps ==
  ASSUME WatchInv, NEW a \in Acts, P!Submitted(a) \/ P!Judged(a) \/ P!Fails(a)
  PROVE  WatchInv'
<1>1. UNCHANGED <<topics, items, form, path, list, raced, watch, known, watched,
                  placements, lapses>>
  BY DEF P!Submitted, P!Judged, P!Fails, P!recordVars, P!watchVars
<1>2. /\ at' \in [Acts -> P!ActAt]
      /\ \A b \in Acts : b # a => at'[b] = at[b]
      /\ at'[a] \in {"home", "judge", "resolve", "failed"}
      /\ at'[a] = "judge" => form[a].home # 0
      /\ at'[a] = "resolve" => at[a] = "judge"
  BY DEF WatchInv, P!TypeOK, P!Submitted, P!Judged, P!Fails, P!Goes, P!ActAt
<1>3. P!TypeOK'
  BY <1>1, <1>2 DEF WatchInv, P!TypeOK, P!Paths, P!Forms
<1>4. \A b \in Acts : Resolved(b)' /\ IsPlaced(b)'
  BY <1>1, <1>2 DEF WatchInv, Resolved, IsPlaced
<1>5. NamesPlacements' = NamesPlacements
  BY <1>1 DEF NamesPlacements
<1>6. ~raced' => OneStarts' /\ AllOnFirst' /\ P!LineIsBelow'
  BY <1>1, <1>2, <1>5 DEF WatchInv, OneStarts, AllOnFirst, First, P!LineIsBelow
<1> QED
  BY <1>3, <1>4, <1>6 DEF WatchInv

\* What fits the record fits a longer one.
LEMMA LongerRecord ==
  ASSUME P!TypeOK, UNCHANGED <<items, known, watched>>, P!Paths \subseteq P!Paths'
  PROVE  /\ items' \in Seq([agent : Agents, home : P!Paths' \ {0}, on : P!Paths' \ {0}])
         /\ path \in [Acts -> P!Paths'] /\ known' \in P!Paths' /\ watched' \in P!Paths'
<1>1. [agent : Agents, home : P!Paths \ {0}, on : P!Paths \ {0}]
        \subseteq [agent : Agents, home : P!Paths' \ {0}, on : P!Paths' \ {0}]
  OBVIOUS
<1>2. items' \in Seq([agent : Agents, home : P!Paths' \ {0}, on : P!Paths' \ {0}])
  BY <1>1, SeqMonotonic DEF P!TypeOK
<1> QED
  BY <1>2 DEF P!TypeOK

\* A new home is a topic of another name, or of that name and, in turn, not the
\* first of it that anybody is to submit on.
LEMMA StartsHomeKeeps ==
  ASSUME WatchInv, NEW a \in Acts, P!StartsHome(a)
  PROVE  WatchInv'
<1>1. /\ at[a] = "home" /\ at' = [at EXCEPT ![a] = "judge"]
      /\ topics' = Append(topics, form[a].agent)
      /\ form' = [form EXCEPT ![a].home = Len(topics) + 1]
      /\ raced' = (raced \/ (form[a].agent = PlacementsName /\ P!Starting))
      /\ UNCHANGED <<items, path, list, watch, known, watched, placements, lapses>>
  BY DEF P!StartsHome, P!Goes, P!recordVars, P!watchVars
<1>2. /\ Len(topics) \in Nat /\ Len(topics') = Len(topics) + 1
      /\ topics' \in Seq(Agents \cup {PlacementsName, Hall})
      /\ \A p \in 1 .. Len(topics) : topics'[p] = topics[p]
      /\ topics'[Len(topics) + 1] = form[a].agent
  BY <1>1 DEF WatchInv, P!TypeOK, P!Forms
<1>3. P!Paths \subseteq P!Paths' /\ Len(topics) + 1 \in P!Paths'
  BY <1>2 DEF P!Paths
<1>4. /\ at' \in [Acts -> P!ActAt] /\ form' \in [Acts -> P!Forms']
      /\ at'[a] = "judge" /\ form'[a].home # 0
      /\ \A b \in Acts : b # a => at'[b] = at[b] /\ form'[b] = form[b]
  BY <1>1, <1>2, <1>3 DEF WatchInv, P!TypeOK, P!ActAt, P!Forms
<1>5. P!TypeOK'
  BY <1>1, <1>2, <1>3, <1>4, LongerRecord DEF WatchInv, P!TypeOK
<1>6. \A b \in Acts : Resolved(b)' /\ IsPlaced(b)'
  BY <1>1, <1>4 DEF WatchInv, Resolved, IsPlaced
<1>7. NamesPlacements' = IF form[a].agent = PlacementsName
                          THEN NamesPlacements \cup {Len(topics) + 1}
                          ELSE NamesPlacements
  BY <1>2 DEF NamesPlacements
<1>8. ASSUME ~raced'
      PROVE  OneStarts' /\ AllOnFirst' /\ P!LineIsBelow'
  <2>1. OneStarts /\ AllOnFirst /\ P!LineIsBelow
    BY <1>1, <1>8 DEF WatchInv
  <2>2. form[a].agent = PlacementsName => \A b \in Acts : at[b] # "start"
    BY <1>1, <1>8 DEF P!Starting
  <2>3. OneStarts'
    BY <1>4, <1>7, <2>1, <2>2 DEF OneStarts
  <2>4. \A p : First(p) => First(p)'
    BY <1>2, <1>7 DEF First, NamesPlacements
  <2>5. AllOnFirst'
    BY <1>1, <1>4, <2>1, <2>4 DEF AllOnFirst
  <2>6. P!LineIsBelow'
    BY <1>1, <1>4, <2>1 DEF P!LineIsBelow
  <2> QED
    BY <2>3, <2>5, <2>6
<1> QED
  BY <1>5, <1>6, <1>8 DEF WatchInv

\* An act that finds no topic with the board caught up and nobody else about to
\* start one is the only one to start it.
LEMMA ResolvesTopicKeeps ==
  ASSUME WatchInv, NEW a \in Acts, P!Resolves(a)
  PROVE  WatchInv'
<1>1. /\ at[a] = "resolve"
      /\ at' = [at EXCEPT ![a] = IF P!PlacementsPath = 0 THEN "start" ELSE "submit"]
      /\ path' = [path EXCEPT ![a] = P!PlacementsPath]
      /\ raced' = (raced \/ P!Behind \/ P!Starting)
      /\ UNCHANGED <<topics, items, form, list, watch, known, watched, placements, lapses>>
  BY DEF P!Resolves, P!Goes, P!recordVars, P!watchVars
<1>2. P!PlacementsPath \in P!Paths
  <2>1. P!TypeOK /\ Len(topics) \in Nat
    BY DEF WatchInv, P!TypeOK
  <2>2. Len(P!Board) \in 0 .. Len(topics) /\ P!PlacementsPath \in 0 .. Len(P!Board)
    BY <2>1, BoardIsABeginning, ResolvesTheName
  <2> QED
    BY <2>1, <2>2 DEF P!Paths
<1>3. /\ at' \in [Acts -> P!ActAt] /\ path' \in [Acts -> P!Paths]
      /\ at'[a] = (IF P!PlacementsPath = 0 THEN "start" ELSE "submit")
      /\ path'[a] = P!PlacementsPath
      /\ \A b \in Acts : b # a => at'[b] = at[b] /\ path'[b] = path[b]
  BY <1>1, <1>2 DEF WatchInv, P!TypeOK, P!ActAt
<1>4. P!TypeOK'
  BY <1>1, <1>3 DEF WatchInv, P!TypeOK, P!Paths, P!Forms
<1>5. \A b \in Acts : Resolved(b)' /\ IsPlaced(b)'
  BY <1>1, <1>3 DEF WatchInv, Resolved, IsPlaced
<1>6. NamesPlacements' = NamesPlacements
  BY <1>1 DEF NamesPlacements
<1>7. ASSUME ~raced'
      PROVE  OneStarts' /\ AllOnFirst' /\ P!LineIsBelow'
  <2>1. ~raced /\ ~P!Behind /\ \A b \in Acts : at[b] # "start"
    BY <1>1, <1>7 DEF P!Starting
  <2>2. OneStarts /\ AllOnFirst /\ P!LineIsBelow
    BY <2>1 DEF WatchInv
  <2>3. P!PlacementsPath = 0 => NamesPlacements = {}
    BY <2>1, ResolvedInTurn DEF WatchInv
  <2>4. P!PlacementsPath # 0 => First(P!PlacementsPath)
    BY ResolvesTheName DEF WatchInv, First
  <2>5. OneStarts'
    BY <1>3, <1>6, <2>1, <2>2, <2>3 DEF OneStarts
  <2>6. AllOnFirst'
    BY <1>1, <1>3, <1>6, <2>2, <2>4 DEF AllOnFirst, First
  <2>7. P!LineIsBelow'
    BY <1>1, <1>3, <2>2 DEF P!LineIsBelow
  <2> QED
    BY <2>5, <2>6, <2>7
<1> QED
  BY <1>4, <1>5, <1>7 DEF WatchInv

\* It starts the first.
LEMMA StartsPlacementsKeeps ==
  ASSUME WatchInv, NEW a \in Acts, P!StartsPlacements(a)
  PROVE  WatchInv'
<1>1. /\ at[a] = "start" /\ at' = [at EXCEPT ![a] = "submit"]
      /\ topics' = Append(topics, PlacementsName)
      /\ path' = [path EXCEPT ![a] = Len(topics) + 1]
      /\ UNCHANGED <<items, form, list, raced, watch, known, watched, placements, lapses>>
  BY DEF P!StartsPlacements, P!Goes, P!recordVars, P!watchVars
<1>2. /\ Len(topics) \in Nat /\ Len(topics') = Len(topics) + 1
      /\ topics' \in Seq(Agents \cup {PlacementsName, Hall})
      /\ \A p \in 1 .. Len(topics) : topics'[p] = topics[p]
      /\ topics'[Len(topics) + 1] = PlacementsName
  BY <1>1 DEF WatchInv, P!TypeOK
<1>3. P!Paths \subseteq P!Paths' /\ Len(topics) + 1 \in P!Paths'
  BY <1>2 DEF P!Paths
<1>4. /\ at' \in [Acts -> P!ActAt] /\ path' \in [Acts -> P!Paths']
      /\ at'[a] = "submit" /\ path'[a] = Len(topics) + 1
      /\ \A b \in Acts : b # a => at'[b] = at[b] /\ path'[b] = path[b]
  BY <1>1, <1>2, <1>3 DEF WatchInv, P!TypeOK, P!ActAt
<1>5. P!TypeOK'
  <2>1. P!Forms \subseteq P!Forms'
    BY <1>3 DEF P!Forms
  <2>2. P!TypeOK /\ UNCHANGED <<form, list, watch, placements, lapses, raced>>
    BY <1>1 DEF WatchInv
  <2>3. form' \in [Acts -> P!Forms'] /\ list' \in [Acts -> SUBSET (1 .. Len(items'))]
        /\ placements' \in 0 .. Len(items')
    BY <1>1, <2>1, <2>2 DEF P!TypeOK
  <2>4. /\ items' \in Seq([agent : Agents, home : P!Paths' \ {0}, on : P!Paths' \ {0}])
        /\ known' \in P!Paths' /\ watched' \in P!Paths'
    BY <1>1, <1>3, <2>2, LongerRecord
  <2> QED
    BY <1>2, <1>4, <2>2, <2>3, <2>4 DEF P!TypeOK
<1>6. \A b \in Acts : Resolved(b)' /\ IsPlaced(b)'
  BY <1>1, <1>2, <1>4 DEF WatchInv, Resolved, IsPlaced
<1>7. NamesPlacements' = NamesPlacements \cup {Len(topics) + 1}
  BY <1>2 DEF NamesPlacements
<1>8. ~raced' => OneStarts' /\ AllOnFirst' /\ P!LineIsBelow'
  BY <1>1, <1>4, <1>7 DEF WatchInv, OneStarts, AllOnFirst, First, P!LineIsBelow
<1> QED
  BY <1>5, <1>6, <1>8 DEF WatchInv

\* A declaration goes on the topic its act resolved.
LEMMA SubmitsKeeps ==
  ASSUME WatchInv, NEW a \in Acts, P!Submits(a)
  PROVE  WatchInv'
<1> DEFINE item == [agent |-> form[a].agent, home |-> form[a].home, on |-> path[a]]
<1>1. /\ at[a] = "submit" /\ at' = [at EXCEPT ![a] = "declared"]
      /\ items' = Append(items, item)
      /\ UNCHANGED <<topics, form, path, list, raced, watch, known, watched, placements,
                     lapses>>
  BY DEF P!Submits, P!Goes, P!watchVars
<1>2. item \in [agent : Agents, home : P!Paths \ {0}, on : P!Paths \ {0}]
  BY <1>1 DEF WatchInv, P!TypeOK, P!Forms, Resolved
<1>3. /\ Len(items) \in Nat /\ Len(items') = Len(items) + 1
      /\ items' \in Seq([agent : Agents, home : P!Paths \ {0}, on : P!Paths \ {0}])
      /\ \A i \in 1 .. Len(items) : items'[i] = items[i]
      /\ items'[Len(items) + 1] = item
  BY <1>1, <1>2 DEF WatchInv, P!TypeOK
<1>4. /\ at' \in [Acts -> P!ActAt] /\ at'[a] = "declared"
      /\ \A b \in Acts : b # a => at'[b] = at[b]
  BY <1>1 DEF WatchInv, P!TypeOK, P!ActAt
<1>5. P!Paths' = P!Paths /\ P!Forms' = P!Forms
  BY <1>1 DEF P!Paths, P!Forms
<1>6. P!TypeOK'
  <2>1. 1 .. Len(items) \subseteq 1 .. Len(items') /\ 0 .. Len(items) \subseteq 0 .. Len(items')
    BY <1>3
  <2>2. list' \in [Acts -> SUBSET (1 .. Len(items'))] /\ placements' \in 0 .. Len(items')
    BY <1>1, <2>1 DEF WatchInv, P!TypeOK
  <2> QED
    BY <1>1, <1>3, <1>4, <1>5, <2>2 DEF WatchInv, P!TypeOK
<1>7. \A b \in Acts : Resolved(b)' /\ IsPlaced(b)'
  <2> SUFFICES ASSUME NEW b \in Acts PROVE Resolved(b)' /\ IsPlaced(b)'
    OBVIOUS
  <2>1. Resolved(b) /\ IsPlaced(b)
    BY DEF WatchInv
  <2>2. Resolved(b)'
    BY <1>1, <1>4, <2>1 DEF Resolved
  <2>3. CASE b = a
    BY <1>1, <1>3, <2>2, <2>3 DEF IsPlaced
  <2>4. CASE b # a
    BY <1>1, <1>3, <1>4, <2>1, <2>2, <2>4 DEF IsPlaced
  <2> QED
    BY <2>3, <2>4
<1>8. NamesPlacements' = NamesPlacements
  BY <1>1 DEF NamesPlacements
<1>9. ASSUME ~raced'
      PROVE  OneStarts' /\ AllOnFirst' /\ P!LineIsBelow'
  <2>1. OneStarts /\ AllOnFirst /\ P!LineIsBelow
    BY <1>1, <1>9 DEF WatchInv
  <2>2. OneStarts'
    BY <1>4, <1>8, <2>1 DEF OneStarts
  <2>3. AllOnFirst'
    <3>1. \A i \in 1 .. Len(items') : i \in 1 .. Len(items) \/ i = Len(items) + 1
      BY <1>3
    <3> QED
      BY <1>1, <1>3, <1>4, <1>8, <2>1, <3>1 DEF AllOnFirst, First
  <2>4. P!LineIsBelow'
    <3>1. \A b \in Acts : list[b] \subseteq 1 .. Len(items)
      BY DEF WatchInv, P!TypeOK
    <3> QED
      BY <1>1, <1>3, <1>4, <2>1, <3>1 DEF P!LineIsBelow
  <2> QED
    BY <2>2, <2>3, <2>4
<1> QED
  BY <1>6, <1>7, <1>9 DEF WatchInv

\* With the board caught up, the answer lists everything, so what was placed.
LEMMA AnswersListKeeps ==
  ASSUME WatchInv, NEW a \in Acts, P!Answers(a)
  PROVE  WatchInv'
<1>1. /\ at[a] = "declared" /\ at' = [at EXCEPT ![a] = "answered"]
      /\ list' = [list EXCEPT ![a] = P!Declared]
      /\ raced' = (raced \/ P!Behind)
      /\ UNCHANGED <<topics, items, form, path, watch, known, watched, placements, lapses>>
  BY DEF P!Answers, P!Goes, P!recordVars, P!watchVars
<1>2. P!Declared \subseteq 1 .. Len(items)
  BY DEF P!Declared, P!On
<1>3. /\ at' \in [Acts -> P!ActAt] /\ list' \in [Acts -> SUBSET (1 .. Len(items))]
      /\ at'[a] = "answered" /\ list'[a] = P!Declared
      /\ \A b \in Acts : b # a => at'[b] = at[b] /\ list'[b] = list[b]
  BY <1>1, <1>2 DEF WatchInv, P!TypeOK, P!ActAt
<1>4. P!TypeOK'
  BY <1>1, <1>3 DEF WatchInv, P!TypeOK, P!Paths, P!Forms
<1>5. \A b \in Acts : Resolved(b)' /\ IsPlaced(b)'
  BY <1>1, <1>3 DEF WatchInv, Resolved, IsPlaced
<1>6. NamesPlacements' = NamesPlacements
  BY <1>1 DEF NamesPlacements
<1>7. ASSUME ~raced'
      PROVE  OneStarts' /\ AllOnFirst' /\ P!LineIsBelow'
  <2>1. ~raced /\ ~P!Behind
    BY <1>1, <1>7
  <2>2. OneStarts /\ AllOnFirst /\ P!LineIsBelow /\ P!Declared = 1 .. Len(items)
    BY <2>1, DeclaredInTurn DEF WatchInv
  <2>3. OneStarts' /\ AllOnFirst'
    BY <1>1, <1>3, <1>6, <2>2 DEF OneStarts, AllOnFirst, First
  <2>4. IsPlaced(a)
    BY DEF WatchInv
  <2>5. P!LineIsBelow'
    BY <1>1, <1>3, <2>2, <2>4 DEF P!LineIsBelow, IsPlaced
  <2> QED
    BY <2>3, <2>5
<1> QED
  BY <1>4, <1>5, <1>7 DEF WatchInv

\* The watch writes nothing to the record, and the acts do not ask it.
LEMMA WatchStepKeeps ==
  ASSUME WatchInv, P!Watch
  PROVE  WatchInv'
<1>1. UNCHANGED <<topics, items, at, form, path, list, raced>>
  BY DEF P!Watch, P!FollowsBoard, P!BoardLearns, P!FollowsPlacements, P!Materialises,
         P!PlacementLearned, P!FollowEnds, P!Ends, P!WatchesAgain, P!recordVars, P!actVars
<1>2. P!Paths' = P!Paths /\ P!Forms' = P!Forms /\ NamesPlacements' = NamesPlacements
  BY <1>1 DEF P!Paths, P!Forms, NamesPlacements
<1>3. /\ watch' \in {"cold", "resolving", "opening", "following", "waiting"}
      /\ known' \in P!Paths /\ watched' \in P!Paths
      /\ placements' \in 0 .. Len(items) /\ lapses' \in 0 .. MaxLapses
  <2>1. P!TypeOK /\ Len(topics) \in Nat /\ Len(items) \in Nat
    BY DEF WatchInv, P!TypeOK
  <2>2. CASE P!FollowsPlacements
    <3>1. P!PlacementsPath \in P!Paths
      BY <2>1, BoardIsABeginning, ResolvesTheName DEF P!Paths
    <3> QED
      BY <2>1, <2>2, <3>1 DEF P!FollowsPlacements, P!TypeOK
  <2>3. CASE ~P!FollowsPlacements
    <3>1. /\ watch \in {"cold", "resolving", "opening", "following", "waiting"}
          /\ known \in 0 .. Len(topics) /\ watched \in 0 .. Len(topics)
          /\ placements \in 0 .. Len(items) /\ lapses \in 0 .. MaxLapses
      BY <2>1 DEF P!TypeOK, P!Paths
    <3>2. CASE P!FollowsBoard \/ P!BoardLearns
      BY <2>1, <3>1, <3>2 DEF P!Paths, P!FollowsBoard, P!BoardLearns
    <3>3. CASE P!Materialises \/ P!PlacementLearned
      BY <2>1, <3>1, <3>3 DEF P!Paths, P!Materialises, P!PlacementLearned
    <3>4. CASE P!FollowEnds \/ P!WatchesAgain
      BY <2>1, <3>1, <3>4, RoomsAssumption
         DEF P!PlacementsAssumption, P!Paths, P!FollowEnds, P!Ends, P!WatchesAgain
    <3> QED
      BY <2>3, <3>2, <3>3, <3>4 DEF P!Watch
  <2> QED
    BY <2>2, <2>3
<1>4. P!TypeOK'
  BY <1>1, <1>2, <1>3 DEF WatchInv, P!TypeOK
<1>5. \A b \in Acts : Resolved(b)' /\ IsPlaced(b)'
  BY <1>1 DEF WatchInv, Resolved, IsPlaced
<1>6. ~raced' => OneStarts' /\ AllOnFirst' /\ P!LineIsBelow'
  BY <1>1, <1>2 DEF WatchInv, OneStarts, AllOnFirst, First, P!LineIsBelow
<1> QED
  BY <1>4, <1>5, <1>6 DEF WatchInv

\* Nothing is declared and no act is under way at first.
LEMMA WatchStarts == P!Init => WatchInv
<1> SUFFICES ASSUME P!Init PROVE WatchInv
  OBVIOUS
<1>1. /\ topics \in Seq(Agents \cup {PlacementsName, Hall}) /\ Len(topics) = 1
      /\ topics[1] = Hall /\ items = <<>> /\ Len(items) = 0
  BY DEF P!Init
<1>2. P!TypeOK
  <2>1. P!Paths = {0, 1}
    BY <1>1 DEF P!Paths
  <2>2. items \in Seq([agent : Agents, home : P!Paths \ {0}, on : P!Paths \ {0}])
    BY <1>1
  <2>3. lapses \in 0 .. MaxLapses /\ placements \in 0 .. Len(items)
    BY <1>1, RoomsAssumption DEF P!PlacementsAssumption, P!Init
  <2> QED
    <3>1. form \in [Acts -> P!Forms]
      BY <2>1 DEF P!Init, P!Forms
    <3>2. at \in [Acts -> P!ActAt] /\ path \in [Acts -> P!Paths]
          /\ list \in [Acts -> SUBSET (1 .. Len(items))] /\ known \in P!Paths /\ watched \in P!Paths
      BY <2>1 DEF P!Init, P!ActAt
    <3> QED
      BY <1>1, <2>2, <2>3, <3>1, <3>2 DEF P!Init, P!TypeOK
<1>3. \A a \in Acts : at[a] = "new"
  BY DEF P!Init
<1> QED
  BY <1>1, <1>2, <1>3
     DEF WatchInv, Resolved, IsPlaced, OneStarts, AllOnFirst, First, P!LineIsBelow

\* Every step keeps the invariant.
LEMMA WatchSteps == WatchInv /\ [P!Next]_(P!vars) => WatchInv'
<1> SUFFICES ASSUME WatchInv, [P!Next]_(P!vars) PROVE WatchInv'
  OBVIOUS
<1>1. ASSUME NEW a \in Acts, P!Act(a)
      PROVE  WatchInv'
  BY <1>1, QuietActKeeps, StartsHomeKeeps, ResolvesTopicKeeps, StartsPlacementsKeeps,
     SubmitsKeeps, AnswersListKeeps DEF P!Act
<1>2. CASE P!Watch
  BY <1>2, WatchStepKeeps
<1>3. CASE UNCHANGED P!vars
  BY <1>3 DEF P!vars, P!recordVars, P!actVars, P!watchVars, WatchInv, P!TypeOK, P!Paths, P!Forms, Resolved,
              IsPlaced, OneStarts, AllOnFirst, First, P!LineIsBelow, NamesPlacements
<1> QED
  BY <1>1, <1>2, <1>3 DEF P!Next

-----------------------------------------------------------------------------
(* The topic the watch follows.  Several may bear the name, and the board    *)
(* may know of some; it is the first there is all the same, for good.        *)

WatchesTheFirst ==
    watched # 0 =>
        /\ watch # "cold" /\ watched <= known
        /\ watched \in NamesPlacements /\ \A p \in NamesPlacements : watched <= p

\* A topic started later comes later, and the board forgets none.
LEMMA WatchesOn ==
  ASSUME WatchInv, WatchesTheFirst, [P!Next]_(P!vars)
  PROVE  WatchesTheFirst'
<1>1. /\ topics \in Seq(Agents \cup {PlacementsName, Hall}) /\ Len(topics) \in Nat
      /\ known \in 0 .. Len(topics) /\ watched \in 0 .. Len(topics) /\ P!TypeOK
  BY DEF WatchInv, P!TypeOK, P!Paths
<1>2. ASSUME NEW name, topics' = Append(topics, name), UNCHANGED <<watch, known, watched>>
      PROVE  WatchesTheFirst'
  <2>1. /\ Len(topics') = Len(topics) + 1
        /\ \A p \in 1 .. Len(topics) : topics'[p] = topics[p]
    BY <1>1, <1>2
  <2>2. /\ NamesPlacements \subseteq NamesPlacements'
        /\ \A p \in NamesPlacements' : p \in NamesPlacements \/ p = Len(topics) + 1
    BY <1>1, <2>1 DEF NamesPlacements
  <2> QED
    BY <1>1, <1>2, <2>2 DEF WatchesTheFirst
<1>3. CASE UNCHANGED <<topics, watch, known, watched>>
  BY <1>3 DEF WatchesTheFirst, NamesPlacements
<1>4. ASSUME NEW a \in Acts, P!Act(a) PROVE WatchesTheFirst'
  <2>1. CASE P!StartsHome(a) \/ P!StartsPlacements(a)
    BY <1>2, <2>1 DEF P!StartsHome, P!StartsPlacements, P!watchVars
  <2>2. CASE ~(P!StartsHome(a) \/ P!StartsPlacements(a))
    BY <1>3, <1>4, <2>2 DEF P!Act, P!Submitted, P!Judged, P!Fails, P!Resolves, P!Submits,
                            P!Answers, P!recordVars, P!watchVars
  <2> QED
    BY <2>1, <2>2
<1>5. CASE P!FollowsPlacements
  <2>1. /\ watch # "cold" /\ P!PlacementsPath # 0 /\ watched' = P!PlacementsPath
        /\ watch' = "opening" /\ UNCHANGED <<topics, known>>
    BY <1>5 DEF P!FollowsPlacements, P!recordVars
  <2>2. Len(P!Board) = known
    BY <1>1, <2>1 DEF P!Board
  <2>3. NamesPlacements' = NamesPlacements
    BY <2>1 DEF NamesPlacements
  <2> QED
    BY <1>1, <2>1, <2>2, <2>3, ResolvesTheName DEF WatchesTheFirst
<1>6. CASE P!Watch /\ ~P!FollowsPlacements
  <2>1. /\ UNCHANGED <<topics, watched>>
        /\ \/ watch = "cold"
           \/ watch' # "cold" /\ (known' = known \/ known' = known + 1)
    BY <1>6 DEF P!Watch, P!FollowsBoard, P!BoardLearns, P!Materialises, P!PlacementLearned,
                P!FollowEnds, P!Ends, P!WatchesAgain, P!recordVars
  <2>2. NamesPlacements' = NamesPlacements
    BY <2>1 DEF NamesPlacements
  <2> QED
    BY <1>1, <2>1, <2>2 DEF WatchesTheFirst
<1>7. CASE UNCHANGED P!vars
  BY <1>3, <1>7 DEF P!vars, P!recordVars, P!watchVars
<1> QED
  BY <1>4, <1>5, <1>6, <1>7 DEF P!Next

\* What holds when the watch has every placement there is.
WatchAgrees ==
    watched # 0 /\ placements = Len(items) =>
        \A g \in Agents : P!HomeOf(g) = P!RoomShown(g)

\* The topic followed is the one an act or a reading resolves on its own.
LEMMA FollowsWhatIsRead == WatchInv /\ WatchesTheFirst => WatchAgrees
<1> SUFFICES ASSUME WatchInv, WatchesTheFirst, watched # 0, placements = Len(items),
                    NEW g \in Agents
             PROVE  P!HomeOf(g) = P!RoomShown(g)
  BY DEF WatchAgrees
<1>1. /\ P!TypeOK /\ Len(topics) \in Nat /\ Len(items) \in Nat
      /\ known \in 0 .. Len(topics)
  BY DEF WatchInv, P!TypeOK, P!Paths
<1>2. Len(P!Board) = known
  BY <1>1 DEF P!Board, WatchesTheFirst
<1>3. P!PlacementsPath # 0
  BY <1>1, <1>2, ResolvesTheName DEF WatchesTheFirst, NamesPlacements
<1>4. P!PlacementsPath = watched
  BY <1>1, <1>2, <1>3, ResolvesTheName DEF WatchesTheFirst, NamesPlacements
<1>5. P!Watched = P!Declared
  BY <1>1, <1>3, <1>4 DEF P!Watched, P!Declared, P!On
<1> QED
  BY <1>5 DEF P!HomeOf, P!RoomShown

-----------------------------------------------------------------------------
(* Nothing un-places. *)

ResolvesFirst ==
    /\ P!PlacementsPath \in 0 .. Len(P!Board)
    /\ P!PlacementsPath # 0 => P!PlacementsPath \in NamesPlacements
    /\ P!PlacementsPath = 0 => \A p \in NamesPlacements : p > Len(P!Board)
    /\ P!PlacementsPath # 0 => \A p \in NamesPlacements : P!PlacementsPath <= p

\* What is resolved, before a step and after it.
LEMMA ResolvesTheNameNow == P!TypeOK => ResolvesFirst
BY ResolvesTheName DEF ResolvesFirst

\* After it.
LEMMA ResolvesTheNameNext == (P!TypeOK => ResolvesFirst)'
BY ResolvesTheNameNow, PTL

\* The record and the board only grow, and so does what the watch has of them.
LEMMA RecordGrows ==
  ASSUME WatchInv, WatchInv', [P!Next]_(P!vars)
  PROVE  /\ Len(topics) <= Len(topics') /\ Len(items) <= Len(items')
         /\ \A p \in 1 .. Len(topics) : topics'[p] = topics[p]
         /\ \A i \in 1 .. Len(items) : items'[i] = items[i]
         /\ placements <= placements'
         /\ watched' = watched \/ P!FollowsPlacements
         /\ watch # "cold" => watch' # "cold" /\ known <= known'
         /\ watch = "cold" => watch' = "cold" \/ known' = Len(topics')
<1>1. /\ topics \in Seq(Agents \cup {PlacementsName, Hall}) /\ Len(topics) \in Nat
      /\ items \in Seq([agent : Agents, home : P!Paths \ {0}, on : P!Paths \ {0}])
      /\ Len(items) \in Nat /\ placements \in 0 .. Len(items) /\ known \in 0 .. Len(topics)
  BY DEF WatchInv, P!TypeOK, P!Paths
<1>2. ASSUME NEW a \in Acts, P!Act(a)
      PROVE  /\ UNCHANGED <<watch, known, watched, placements>>
             /\ topics' = topics \/ \E name : topics' = Append(topics, name)
             /\ items' = items \/ \E item : items' = Append(items, item)
  BY <1>2 DEF P!Act, P!Submitted, P!StartsHome, P!Judged, P!Fails, P!Resolves,
              P!StartsPlacements, P!Submits, P!Answers, P!recordVars, P!watchVars
<1>3. ASSUME NEW a \in Acts, P!Act(a)
      PROVE  /\ Len(topics) <= Len(topics') /\ Len(items) <= Len(items')
             /\ \A p \in 1 .. Len(topics) : topics'[p] = topics[p]
             /\ \A i \in 1 .. Len(items) : items'[i] = items[i]
  <2>1. Len(topics) <= Len(topics') /\ \A p \in 1 .. Len(topics) : topics'[p] = topics[p]
    BY <1>1, <1>2, <1>3
  <2>2. Len(items) <= Len(items') /\ \A i \in 1 .. Len(items) : items'[i] = items[i]
    BY <1>1, <1>2, <1>3
  <2> QED
    BY <2>1, <2>2
<1>4. CASE P!Watch
  <2>1. UNCHANGED <<topics, items>>
    BY <1>4 DEF P!Watch, P!FollowsBoard, P!BoardLearns, P!FollowsPlacements, P!Materialises,
                P!PlacementLearned, P!FollowEnds, P!Ends, P!WatchesAgain, P!recordVars
  <2>2. /\ placements <= placements'
        /\ watched' = watched \/ P!FollowsPlacements
        /\ watch # "cold" => watch' # "cold" /\ known <= known'
        /\ watch = "cold" => known' = Len(topics)
    BY <1>1, <1>4 DEF P!Watch, P!FollowsBoard, P!BoardLearns, P!FollowsPlacements,
                      P!Materialises, P!PlacementLearned, P!FollowEnds, P!Ends, P!WatchesAgain
  <2> QED
    BY <1>1, <2>1, <2>2
<1>5. CASE UNCHANGED P!vars
  BY <1>1, <1>5 DEF P!vars, P!recordVars, P!watchVars
<1> QED
  BY <1>1, <1>2, <1>3, <1>4, <1>5 DEF P!Next

\* A topic once resolved is resolved for good, by the watch and by the acts.
LEMMA ResolvedForGood ==
  ASSUME WatchInv, WatchInv', WatchesTheFirst, WatchesTheFirst', [P!Next]_(P!vars)
  PROVE  /\ watched # 0 => watched' = watched
         /\ P!PlacementsPath # 0 => P!PlacementsPath' = P!PlacementsPath
<1>1. /\ Len(topics) \in Nat /\ Len(topics') \in Nat /\ Len(topics) <= Len(topics')
      /\ P!TypeOK /\ P!TypeOK' /\ known \in 0 .. Len(topics) /\ known' \in 0 .. Len(topics')
      /\ watched \in Nat /\ watched' \in Nat
  <2>1. /\ P!TypeOK /\ P!TypeOK' /\ Len(topics) <= Len(topics')
    BY RecordGrows DEF WatchInv
  <2>2. Len(topics) \in Nat /\ known \in 0 .. Len(topics) /\ watched \in 0 .. Len(topics)
    BY <2>1 DEF P!TypeOK, P!Paths
  <2>3. Len(topics') \in Nat /\ known' \in 0 .. Len(topics') /\ watched' \in 0 .. Len(topics')
    BY <2>1 DEF P!TypeOK, P!Paths
  <2> QED
    BY <2>1, <2>2, <2>3
<1>2. \A p \in 1 .. Len(topics) : p \in NamesPlacements <=> p \in NamesPlacements'
  BY <1>1, RecordGrows DEF NamesPlacements
<1>3. NamesPlacements \subseteq 1 .. Len(topics) /\ NamesPlacements' \subseteq 1 .. Len(topics')
  BY DEF NamesPlacements
<1>4. watched # 0 => watched' = watched
  <2> SUFFICES ASSUME watched # 0, P!FollowsPlacements PROVE watched' = watched
    BY RecordGrows
  <2>1. watched' # 0 /\ UNCHANGED topics
    BY DEF P!FollowsPlacements, P!recordVars
  <2>2. watched \in NamesPlacements /\ watched' \in NamesPlacements
        /\ watched <= watched' /\ watched' <= watched
    BY <2>1 DEF WatchesTheFirst, NamesPlacements
  <2> QED
    BY <1>1, <2>2
<1>5. /\ Len(P!Board) \in 0 .. Len(topics) /\ Len(P!Board)' \in Nat
      /\ Len(P!Board) <= Len(P!Board)'
  <2>1. Len(P!Board) = IF watch = "cold" THEN Len(topics) ELSE known
    BY <1>1 DEF P!Board, P!TypeOK
  <2>2. Len(P!Board)' = IF watch' = "cold" THEN Len(topics') ELSE known'
    BY <1>1 DEF P!Board, P!TypeOK
  <2> QED
    BY <1>1, <2>1, <2>2, RecordGrows
<1>6. ASSUME P!PlacementsPath # 0 PROVE P!PlacementsPath' = P!PlacementsPath
  <2> DEFINE p == P!PlacementsPath
             q == P!PlacementsPath'
  <2>1. p \in 1 .. Len(P!Board) /\ p \in NamesPlacements /\ \A x \in NamesPlacements : p <= x
    BY <1>1, <1>5, <1>6, ResolvesTheName
  <2>2. p \in NamesPlacements' /\ p <= Len(P!Board)'
    BY <1>2, <1>3, <1>5, <2>1
  <2>3. q # 0 /\ q \in NamesPlacements' /\ q <= p
    BY <1>1, <1>3, <1>5, <2>1, <2>2, ResolvesTheNameNext DEF ResolvesFirst
  <2>4. q \in NamesPlacements
    BY <1>1, <1>2, <1>3, <2>1, <2>3
  <2> QED
    BY <1>1, <1>3, <2>1, <2>3, <2>4
<1> QED
  BY <1>4, <1>6

\* Rooms stay rooms, and placements stay declared.
LEMMA StepUnplacesNothing ==
  ASSUME WatchInv, WatchInv', WatchesTheFirst, WatchesTheFirst', [P!Next]_(P!vars)
  PROVE  P!Machinery \subseteq P!Machinery' /\ P!Declared \subseteq P!Declared'
<1>1. /\ Len(items) \in Nat /\ Len(items') \in Nat /\ Len(items) <= Len(items')
      /\ placements \in 0 .. Len(items) /\ placements' \in 0 .. Len(items')
      /\ placements <= placements'
      /\ \A i \in 1 .. Len(items) : items'[i] = items[i] /\ items[i].on # 0
  <2>1. /\ Len(items) <= Len(items') /\ placements <= placements'
        /\ \A i \in 1 .. Len(items) : items'[i] = items[i]
    BY RecordGrows
  <2>2. /\ Len(items) \in Nat /\ placements \in 0 .. Len(items)
        /\ items \in Seq([agent : Agents, home : P!Paths \ {0}, on : P!Paths \ {0}])
    BY DEF WatchInv, P!TypeOK
  <2>3. ASSUME NEW i \in 1 .. Len(items) PROVE items[i].on # 0
    <3>1. items[i] \in [agent : Agents, home : P!Paths \ {0}, on : P!Paths \ {0}]
      BY <2>2, ElementOfSeq
    <3> QED
      BY <3>1
  <2>4. Len(items') \in Nat /\ placements' \in 0 .. Len(items')
    BY DEF WatchInv, P!TypeOK
  <2> QED
    BY <2>1, <2>2, <2>3, <2>4
<1>2. \A p : P!On(p) \subseteq P!On(p)'
  BY <1>1 DEF P!On
<1>3. P!Declared \subseteq P!Declared'
  BY <1>2, ResolvedForGood DEF P!Declared
<1>4. watched # 0 => watched' = watched
  BY ResolvedForGood
<1>5. P!Watched \subseteq P!Watched' /\ \A i \in P!Watched : items'[i] = items[i]
  <2> SUFFICES ASSUME NEW i \in P!Watched
               PROVE  i \in P!Watched' /\ items'[i] = items[i]
    OBVIOUS
  <2>1. i \in 1 .. Len(items) /\ items[i].on = watched /\ i <= placements
    BY DEF P!Watched, P!On
  <2>2. watched' = watched /\ items'[i] = items[i] /\ i \in 1 .. Len(items')
    BY <1>1, <1>4, <2>1
  <2> QED
    BY <1>1, <2>1, <2>2 DEF P!Watched, P!On
<1> QED
  BY <1>3, <1>4, <1>5 DEF P!Machinery

-----------------------------------------------------------------------------
(* The two together. *)

RoomsInv == IInv /\ WatchInv /\ WatchesTheFirst

\* Both begin well.
LEMMA RoomsStart == RoomsInit => RoomsInv
<1>1. P!Init => WatchesTheFirst
  BY DEF P!Init, WatchesTheFirst
<1> QED
  BY <1>1, StartsWell, WatchStarts DEF RoomsInit, RoomsInv

\* A step is of one of them, and the other stands.
LEMMA RoomsKeep == RoomsInv /\ [RoomsNext]_roomsVars => RoomsInv'
<1> SUFFICES ASSUME RoomsInv, [RoomsNext]_roomsVars PROVE RoomsInv'
  OBVIOUS
<1>1. [Next]_vars /\ [P!Next]_placementVars
  BY DEF RoomsNext, WatchNext, ScreenNext, roomsVars
<1>2. [P!Next]_(P!vars)
  BY <1>1 DEF placementVars, P!vars, P!recordVars, P!actVars, P!watchVars
<1> QED
  BY <1>1, <1>2, StepsKeep, WatchSteps, WatchesOn DEF RoomsInv

\* The invariants of both, always.
LEMMA RoomsAlways == RoomsSpec => []RoomsInv
BY RoomsStart, RoomsKeep, PTL DEF RoomsSpec

\* Every field of both keeps its type: no act submits without a home and a topic,
\* what a page shows and answers are messages there have been.
THEOREM RoomsTypeCorrect == RoomsSpec => []RoomsTypeOK
<1>1. RoomsInv => RoomsTypeOK
  BY KeptIsTyped DEF RoomsInv, WatchInv, RoomsTypeOK
<1> QED
  BY <1>1, RoomsAlways, PTL

\* "Declared lists every agent placed on this deployment", and the answer to a
\* Declare lists what it placed, whatever the agents and the conversation there
\* was are named, as long as no Declare, a lone one included, resolved or answered
\* over a board that was behind, and none resolved the name, nor began a home of
\* that name, while another was starting the topic.
THEOREM PlacedIsListed == RoomsSpec => []ListedInTurn
<1>1. WatchInv => ListedInTurn
  BY DeclaredInTurn DEF WatchInv, ListedInTurn, P!ListedInTurn, P!EveryPlacementIsListed
<1>2. RoomsInv => ListedInTurn
  BY <1>1 DEF RoomsInv
<1> QED
  BY <1>2, RoomsAlways, PTL

\* The safety half of RoomsAgree.  Once the watch has found the placements topic
\* and has every placement, the room a message to an agent is posted in is the
\* room its screen shows: also while a follow has ended and is resumed, while the
\* board is behind, and where acts that raced started several such topics.
THEOREM WatchAgreesWithTheRecord == RoomsSpec => []WatchAgrees
<1>1. RoomsInv => WatchAgrees
  BY FollowsWhatIsRead DEF RoomsInv
<1> QED
  BY <1>1, RoomsAlways, PTL

\* Nothing un-places: no step takes a room back into the lists of conversations,
\* nor a placement off what is declared; with any number of topics of the name,
\* however far the board is behind and however often the follow ends.
THEOREM NeverUnplaced == RoomsSpec => NothingUnplaces
<1>1. /\ RoomsInv /\ RoomsInv' /\ [RoomsNext]_roomsVars
      => [P!Machinery \subseteq P!Machinery' /\ P!Declared \subseteq P!Declared']_(P!vars)
  <2> SUFFICES ASSUME RoomsInv, RoomsInv', [RoomsNext]_roomsVars
               PROVE  P!Machinery \subseteq P!Machinery' /\ P!Declared \subseteq P!Declared'
    OBVIOUS
  <2>1. [P!Next]_placementVars
    BY DEF RoomsNext, WatchNext, ScreenNext, roomsVars
  <2>2. [P!Next]_(P!vars)
    BY <2>1 DEF placementVars, P!vars, P!recordVars, P!actVars, P!watchVars
  <2> QED
    BY <2>2, StepUnplacesNothing DEF RoomsInv
<1> QED
  BY <1>1, RoomsAlways, PTL DEF RoomsSpec, NothingUnplaces, P!NothingUnplaces

\* What a step does to the conversations a step of theirs alone does.
LEMMA RoomsStepsConverse == [RoomsNext]_roomsVars => [Next]_vars
BY DEF RoomsNext, WatchNext, ScreenNext, roomsVars

\* A page that names no conversation opens onto the newest living one that the
\* watch does not know for a room, beside any number of acts and placements.
THEOREM OpensOntoNewest == RoomsSpec => LandsOnNewest
BY TicksOntoNewest, RoomsStepsConverse, RoomsAlways, PTL
   DEF RoomsSpec, RoomsInv, LandsOnNewest

\* No act archives but the conversation its person was asked about and said yes
\* to, which the page named if it named one; beside the same.
THEOREM ArchivesOnPurpose == RoomsSpec => ArchivedOnPurpose
BY ArchivesWhatWasAsked, RoomsStepsConverse, RoomsAlways, PTL
   DEF RoomsSpec, RoomsInv, ArchivedOnPurpose
=============================================================================
