---------------------------- MODULE ScreensProofs -----------------------------
(***************************************************************************)
(* Proofs about Screens: a section for each screen, with what it keeps of  *)
(* the others' doings, and at the end the screens together.                *)
(***************************************************************************)
EXTENDS Screens, FiniteSetTheorems, SequenceTheorems, TLAPS

-----------------------------------------------------------------------------
(* Tools.  An act that nobody came between has done its first half by the   *)
(* time it writes the second.                                               *)

ToolAct == [does : T!Acts, tool : ToolNames, at : {"plane", "catalog", "done", "failed"}]

HalfDone(a) ==
    doing[a].at = "catalog" /\ a \notin mixed =>
        /\ doing[a].does = "add remote" => T!OnPlane(doing[a].tool)
        /\ doing[a].does = "remove" => ~T!OnPlane(doing[a].tool)

AllDone(a) ==
    doing[a].at = "done" /\ a \notin mixed => T!Stands(doing[a].does, doing[a].tool)

ToolsInv == T!TypeOK /\ \A a \in ToolAdmins : HalfDone(a) /\ AllDone(a)

\* There is no act at first.
LEMMA ToolsStart == T!Init => ToolsInv
<1> SUFFICES ASSUME T!Init PROVE ToolsInv
  OBVIOUS
<1>1. T!TypeOK
  BY DEF T!Init, T!TypeOK
<1>2. \A a \in ToolAdmins : doing[a].at = "idle"
  BY DEF T!Init, T!Idle
<1> QED
  BY <1>1, <1>2 DEF ToolsInv, HalfDone, AllDone

\* Nothing of it depends on anything else.
LEMMA ToolsStand ==
  ASSUME ToolsInv, UNCHANGED <<resources, catalog, doing, mixed>>,
         grants' \in SUBSET (ToolPeople \X ToolNames), links' \in SUBSET (ToolPeople \X ToolNames)
  PROVE  ToolsInv'
BY DEF ToolsInv, T!TypeOK, HalfDone, AllDone, T!OnPlane, T!Stands, T!Idle

\* An act under way is one.
LEMMA ToolActIsAct ==
  ASSUME ToolsInv, NEW a \in ToolAdmins, doing[a].at # "idle"
  PROVE  doing[a] \in ToolAct
BY DEF ToolsInv, T!TypeOK, T!Idle, ToolAct

\* An act's step leaves every other that it did not come between as it was.
LEMMA ToolActMoves ==
  ASSUME ToolsInv, NEW a \in ToolAdmins, doing[a].at \in {"plane", "catalog"},
         NEW to \in {"catalog", "done", "failed"},
         doing' = [doing EXCEPT ![a].at = to], T!Touches(a), UNCHANGED <<grants, links>>,
         resources' \subseteq resources \cup ({doing[a].tool} \ ToolsDeclared),
         resources \subseteq resources' \cup {doing[a].tool},
         catalog' = catalog \/ \E k \in T!Kinds \cup {"absent"} :
                                  catalog' = [catalog EXCEPT ![doing[a].tool] = k],
         HalfDone(a)', AllDone(a)'
  PROVE  ToolsInv'
<1>1. /\ doing \in [ToolAdmins -> {T!Idle} \cup ToolAct]
      /\ catalog \in [ToolNames -> T!Kinds \cup {"absent"}]
      /\ resources \in SUBSET (ToolNames \ ToolsDeclared) /\ mixed \in SUBSET ToolAdmins
  BY DEF ToolsInv, T!TypeOK, ToolAct
<1>2. doing[a] \in ToolAct
  BY <1>1 DEF T!Idle
<1>3. [doing[a] EXCEPT !.at = to] \in ToolAct /\ doing[a].tool \in ToolNames
  BY <1>2 DEF ToolAct
<1>4. /\ doing' \in [ToolAdmins -> {T!Idle} \cup ToolAct]
      /\ \A b \in ToolAdmins \ {a} : doing'[b] = doing[b]
  BY <1>1, <1>3
<1>5. /\ mixed' \in SUBSET ToolAdmins
      /\ \A b \in ToolAdmins \ {a} : b \notin mixed' =>
            b \notin mixed /\ doing[b].tool # doing[a].tool
  BY <1>1 DEF T!Touches
<1>6. /\ catalog' \in [ToolNames -> T!Kinds \cup {"absent"}]
      /\ \A n \in ToolNames : n # doing[a].tool => catalog'[n] = catalog[n]
  BY <1>1, <1>3
<1>7. /\ resources' \in SUBSET (ToolNames \ ToolsDeclared)
      /\ \A n : n # doing[a].tool => (n \in resources' <=> n \in resources)
  BY <1>1, <1>3
<1>8. T!TypeOK'
  BY <1>4, <1>5, <1>6, <1>7 DEF ToolsInv, T!TypeOK, ToolAct
<1>9. ASSUME NEW b \in ToolAdmins, b # a PROVE HalfDone(b)' /\ AllDone(b)'
  <2>1. CASE b \in mixed' \/ doing[b] = T!Idle
    <3>1. b \in mixed' \/ doing'[b].at = "idle"
      BY <1>4, <1>9, <2>1 DEF T!Idle
    <3> QED
      BY <3>1 DEF HalfDone, AllDone
  <2>2. CASE b \notin mixed' /\ doing[b] # T!Idle
    <3>1. doing[b] \in ToolAct /\ doing'[b] = doing[b] /\ doing[b].tool \in ToolNames
      BY <1>1, <1>4, <1>9, <2>2 DEF ToolAct
    <3>2. b \notin mixed /\ doing[b].tool # doing[a].tool
      BY <1>5, <1>9, <2>2
    <3>3. /\ T!OnPlane(doing[b].tool)' <=> T!OnPlane(doing[b].tool)
          /\ catalog'[doing[b].tool] = catalog[doing[b].tool]
      BY <1>6, <1>7, <3>1, <3>2 DEF T!OnPlane
    <3>4. HalfDone(b) /\ AllDone(b)
      BY DEF ToolsInv
    <3> QED
      BY <3>1, <3>2, <3>3, <3>4 DEF HalfDone, AllDone, T!Stands, T!OnPlane
  <2> QED
    BY <2>1, <2>2
<1> QED
  BY <1>8, <1>9 DEF ToolsInv

\* Every act, and the people who connect their accounts.
LEMMA ToolsKeep ==
  ASSUME ToolsInv, T!Next
  PROVE  ToolsInv'
<1>1. /\ doing \in [ToolAdmins -> {T!Idle} \cup ToolAct] /\ mixed \in SUBSET ToolAdmins
      /\ grants \in SUBSET (ToolPeople \X ToolNames)
      /\ links \in SUBSET (ToolPeople \X ToolNames)
      /\ catalog \in [ToolNames -> T!Kinds \cup {"absent"}]
  BY DEF ToolsInv, T!TypeOK, ToolAct
<1>2. CASE \E p \in ToolPeople, n \in ToolNames : T!Connects(p, n) \/ T!Disconnects(p, n)
  BY <1>1, <1>2, ToolsStand DEF T!Connects, T!Disconnects
<1>3. CASE \E p \in ToolPeople, link \in links : T!ComesBack(p, link)
  BY <1>1, <1>3, ToolsStand DEF T!ComesBack
<1>4. ASSUME NEW a \in ToolAdmins, NEW does \in T!Acts, NEW n \in ToolNames,
             T!Begins(a, does, n)
      PROVE  ToolsInv'
  <2> DEFINE new == [does |-> does, tool |-> n,
                     at |-> IF does = "add workload" THEN "catalog" ELSE "plane"]
  <2>1. /\ doing' = [doing EXCEPT ![a] = new] /\ mixed' = mixed \ {a}
        /\ UNCHANGED <<resources, catalog, grants, links>>
    BY <1>4 DEF T!Begins
  <2>2. new \in ToolAct
    BY DEF ToolAct
  <2>3. /\ doing' \in [ToolAdmins -> {T!Idle} \cup ToolAct] /\ doing'[a] = new
        /\ \A b \in ToolAdmins \ {a} : doing'[b] = doing[b]
    BY <1>1, <2>1, <2>2
  <2>4. T!TypeOK'
    BY <1>1, <2>1, <2>3 DEF ToolsInv, T!TypeOK, ToolAct
  <2>5. HalfDone(a)' /\ AllDone(a)'
    <3>1. new.at # "done" /\ (new.at = "catalog" => new.does = "add workload")
      OBVIOUS
    <3> HIDE DEF new
    <3>2. /\ doing'[a].at # "done"
          /\ doing'[a].at = "catalog" => doing'[a].does = "add workload"
      BY <2>3, <3>1
    <3> QED
      BY <3>2 DEF HalfDone, AllDone
  <2>6. \A b \in ToolAdmins \ {a} : HalfDone(b)' /\ AllDone(b)'
    BY <2>1, <2>3 DEF ToolsInv, HalfDone, AllDone, T!Stands, T!OnPlane
  <2> QED
    BY <2>4, <2>5, <2>6 DEF ToolsInv
<1>5. ASSUME NEW a \in ToolAdmins, T!Answers(a)
      PROVE  ToolsInv'
  <2>1. /\ doing' = [doing EXCEPT ![a] = T!Idle] /\ mixed' = mixed \ {a}
        /\ UNCHANGED <<resources, catalog, grants, links>>
    BY <1>5 DEF T!Answers
  <2>2. /\ doing' \in [ToolAdmins -> {T!Idle} \cup ToolAct] /\ doing'[a].at = "idle"
        /\ \A b \in ToolAdmins \ {a} : doing'[b] = doing[b]
    BY <1>1, <2>1 DEF T!Idle
  <2>3. T!TypeOK'
    BY <1>1, <2>1, <2>2 DEF ToolsInv, T!TypeOK, ToolAct
  <2>4. HalfDone(a)' /\ AllDone(a)'
    BY <2>2 DEF HalfDone, AllDone
  <2>5. \A b \in ToolAdmins \ {a} : HalfDone(b)' /\ AllDone(b)'
    BY <2>1, <2>2 DEF ToolsInv, HalfDone, AllDone, T!Stands, T!OnPlane
  <2> QED
    BY <2>3, <2>4, <2>5 DEF ToolsInv
<1>6. ASSUME NEW a \in ToolAdmins, T!AddsResource(a) \/ T!RemovesResource(a)
      PROVE  ToolsInv'
  <2>1. /\ doing[a].at = "plane" /\ doing' = [doing EXCEPT ![a].at = "catalog"]
        /\ T!Touches(a) /\ UNCHANGED <<catalog, grants, links>>
        /\ \/ /\ doing[a].does = "add remote"
              /\ resources' = resources \cup ({doing[a].tool} \ ToolsDeclared)
           \/ /\ doing[a].does = "remove" /\ doing[a].tool \notin ToolsDeclared
              /\ resources' = resources \ {doing[a].tool}
    BY <1>6 DEF T!AddsResource, T!RemovesResource, T!Goes
  <2>2. doing[a] \in ToolAct
    BY <2>1, ToolActIsAct
  <2>3. /\ doing'[a].at = "catalog" /\ doing'[a].does = doing[a].does
        /\ doing'[a].tool = doing[a].tool
    BY <1>1, <2>1, <2>2 DEF ToolAct
  <2>4. HalfDone(a)' /\ AllDone(a)'
    BY <2>1, <2>3 DEF HalfDone, AllDone, T!OnPlane
  <2> QED
    BY <2>1, <2>4, ToolActMoves
<1>7. ASSUME NEW a \in ToolAdmins, T!PlaneFails(a)
      PROVE  ToolsInv'
  <2>1. /\ doing[a].at = "plane" /\ doing' = [doing EXCEPT ![a].at = "failed"]
        /\ T!Touches(a) /\ UNCHANGED <<catalog, grants, links>>
        /\ resources' \subseteq resources \cup ({doing[a].tool} \ ToolsDeclared)
        /\ resources \subseteq resources' \cup {doing[a].tool}
    BY <1>7 DEF T!PlaneFails, T!Goes
  <2>2. doing[a] \in ToolAct
    BY <2>1, ToolActIsAct
  <2>3. doing'[a].at = "failed"
    BY <1>1, <2>1, <2>2 DEF ToolAct
  <2>4. HalfDone(a)' /\ AllDone(a)'
    BY <2>3 DEF HalfDone, AllDone
  <2> QED
    BY <2>1, <2>4, ToolActMoves
<1>8. ASSUME NEW a \in ToolAdmins, T!WritesCatalog(a) \/ T!CatalogFails(a)
      PROVE  ToolsInv'
  <2> DEFINE kind == T!KindWritten[doing[a].does]
  <2>1. doing[a].at = "catalog" /\ doing[a] \in ToolAct
    BY <1>8, ToolActIsAct DEF T!WritesCatalog, T!CatalogFails, T!Goes
  <2>2. PICK to \in {"done", "failed"} :
           /\ doing' = [doing EXCEPT ![a].at = to]
           /\ catalog' = catalog \/ catalog' = [catalog EXCEPT ![doing[a].tool] = kind]
           /\ to = "done" => catalog' = [catalog EXCEPT ![doing[a].tool] = kind]
    BY <1>8 DEF T!WritesCatalog, T!CatalogFails, T!Goes
  <2>3. T!Touches(a) /\ UNCHANGED <<resources, grants, links>>
    BY <1>8 DEF T!WritesCatalog, T!CatalogFails
  <2>4. doing[a].does \in T!Acts /\ doing[a].tool \in ToolNames
    BY <2>1 DEF ToolAct
  <2>5. /\ kind \in T!Kinds \cup {"absent"}
        /\ doing[a].does = "add remote" => kind = "remote"
        /\ doing[a].does = "add workload" => kind = "workload"
        /\ doing[a].does = "remove" => kind = "absent"
    BY <2>4 DEF T!KindWritten, T!Acts, T!Kinds
  <2>6. /\ doing'[a].at = to /\ doing'[a].does = doing[a].does
        /\ doing'[a].tool = doing[a].tool
    BY <1>1, <2>1, <2>2 DEF ToolAct
  <2>7. HalfDone(a)'
    BY <2>6 DEF HalfDone
  <2>8. AllDone(a)'
    <3>1. CASE to = "done" /\ a \notin mixed'
      <4>1. catalog'[doing[a].tool] = kind
        BY <1>1, <2>2, <2>4, <3>1
      <4>2. a \notin mixed
        BY <2>3, <3>1 DEF T!Touches
      <4>3. /\ doing[a].does = "add remote" => T!OnPlane(doing[a].tool)
            /\ doing[a].does = "remove" => ~T!OnPlane(doing[a].tool)
        BY <2>1, <4>2 DEF ToolsInv, HalfDone
      <4>4. T!OnPlane(doing[a].tool)' <=> T!OnPlane(doing[a].tool)
        BY <2>3, <2>6 DEF T!OnPlane
      <4>5. T!Stands(doing[a].does, doing[a].tool)'
        BY <2>4, <2>5, <2>6, <4>1, <4>3, <4>4 DEF T!Stands, T!Acts, T!OnPlane
      <4> QED
        BY <2>6, <4>5 DEF AllDone, T!Stands, T!OnPlane
    <3> QED
      BY <2>6, <3>1 DEF AllDone
  <2> QED
    BY <2>1, <2>2, <2>3, <2>5, <2>7, <2>8, ToolActMoves
<1> QED
  BY <1>2, <1>3, <1>4, <1>5, <1>6, <1>7, <1>8 DEF T!Next
-----------------------------------------------------------------------------
(* Rail.  What a page counts is a subset of the board it was read from, and *)
(* every topic of a board has a row or is the record's own.                 *)

Marker == [board : SUBSET Paths, archived : SUBSET Paths, machinery : SUBSET Paths,
           at : Paths \cup {None}, link : Agents \cup {None}, known : 0 .. MaxDecls]

RailPage == [rows : SUBSET Paths, fold : SUBSET Paths, marked : SUBSET Paths,
             rooms : SUBSET Paths, link : Agents \cup {None},
             note : {"none", "placements", "home"}, tally : 0 .. Cardinality(Paths),
             known : 0 .. MaxDecls]

RailInv == L!TypeOK /\ Len(decls) <= MaxDecls /\ L!CountLandsSomewhere

\* The module counts as this one does.
LEMMA SameCount == \A S : L!Cardinality(S) = Cardinality(S)
BY DEF L!Cardinality, Cardinality

\* Nothing is counted at first.
LEMMA RailStart == L!Init => RailInv
BY ScreensAssumption DEF L!Init, RailInv, L!TypeOK, L!CountLandsSomewhere

\* The rail is as it was while its variables are.
LEMMA RailStand == ASSUME RailInv, UNCHANGED railVars PROVE RailInv'
BY DEF RailInv, railVars, L!TypeOK, L!CountLandsSomewhere

\* The machinery is topics.
LEMMA MachineryIsTopics ==
  ASSUME RailInv
  PROVE  L!Machinery \subseteq Paths
<1>1. /\ board \subseteq Paths
      /\ decls \in Seq([agent : Agents, home : Paths])
  BY DEF RailInv, L!TypeOK
<1>2. \A i \in 1 .. Len(decls) : decls[i] \in [agent : Agents, home : Paths]
  BY <1>1, ElementOfSeq
<1>3. \A i \in 1 .. Len(decls) : decls[i].home \in Paths
  BY <1>2
<1> QED
  BY <1>1, <1>3 DEF L!Machinery, L!Homes

\* A page counts each message it shows once.
LEMMA RailCounts ==
  ASSUME NEW v \in Marker, NEW standing \in SUBSET v.board
  PROVE  /\ L!Rail(v, standing) \in RailPage
         /\ L!Rail(v, standing).marked
                \subseteq L!Rail(v, standing).rows \cup L!Rail(v, standing).fold
         /\ L!Rail(v, standing).tally
                = Cardinality(L!Rail(v, standing).marked)
                  + Cardinality(L!Rail(v, standing).rooms)
<1> DEFINE human == v.board \ v.machinery
           marked == standing \cap human
           rooms == standing \cap v.machinery
<1>1. /\ v.board \in SUBSET Paths /\ v.archived \in SUBSET Paths
      /\ v.machinery \in SUBSET Paths /\ v.link \in Agents \cup {None}
      /\ v.known \in 0 .. MaxDecls
  BY DEF Marker
<1>2. IsFiniteSet(Paths) /\ IsFiniteSet(standing)
  BY <1>1, FS_Subset, ScreensAssumption
<1>3. Cardinality(standing) \in 0 .. Cardinality(Paths)
  <2>1. Cardinality(standing) \in Nat /\ Cardinality(Paths) \in Nat
    BY <1>2, FS_CardinalityType
  <2>2. Cardinality(standing) <= Cardinality(Paths)
    BY <1>1, <1>2, FS_Subset
  <2> QED
    BY <2>1, <2>2
<1>4. Cardinality(standing) = Cardinality(marked) + Cardinality(rooms)
  <2>1. IsFiniteSet(marked) /\ IsFiniteSet(rooms)
    BY <1>2, FS_Subset
  <2>2. marked \cup rooms = standing /\ marked \cap rooms = {}
    OBVIOUS
  <2>3. Cardinality(marked \cup rooms)
            = Cardinality(marked) + Cardinality(rooms) - Cardinality(marked \cap rooms)
    BY <2>1, FS_Union
  <2>4. Cardinality(marked) \in Nat /\ Cardinality(rooms) \in Nat
    BY <2>1, FS_CardinalityType
  <2> QED
    <3>1. Cardinality(marked \cap rooms) = 0
      BY <2>2, FS_EmptySet
    <3>2. Cardinality(standing)
              = Cardinality(marked) + Cardinality(rooms) - Cardinality(marked \cap rooms)
      BY <2>2, <2>3
    <3> HIDE DEF marked, rooms
    <3> QED
      BY <2>4, <3>1, <3>2
<1>5. L!Rail(v, standing) =
        [rows |-> human \ v.archived, fold |-> human \cap v.archived,
         marked |-> marked, rooms |-> rooms,
         link |-> IF rooms = {} THEN None ELSE v.link,
         note |-> L!RoomNote(v), tally |-> Cardinality(standing), known |-> v.known]
  BY SameCount DEF L!Rail, L!Human, L!RoomsWaiting
<1>6. L!RoomNote(v) \in {"none", "placements", "home"}
  BY DEF L!RoomNote
<1>7. /\ human \ v.archived \in SUBSET Paths /\ human \cap v.archived \in SUBSET Paths
      /\ marked \in SUBSET Paths /\ rooms \in SUBSET Paths
      /\ marked \subseteq (human \ v.archived) \cup (human \cap v.archived)
      /\ (IF rooms = {} THEN None ELSE v.link) \in Agents \cup {None}
  BY <1>1
<1> HIDE DEF human, marked, rooms
<1>8. L!Rail(v, standing) \in RailPage
  BY <1>1, <1>3, <1>5, <1>6, <1>7 DEF RailPage
<1> QED
  BY <1>4, <1>5, <1>7, <1>8

\* A tick observes what there is, and renders it.
LEMMA RailKeeps ==
  ASSUME RailInv, L!Next
  PROVE  RailInv'
<1>1. /\ board \subseteq Paths /\ archived \subseteq board
      /\ decls \in Seq([agent : Agents, home : Paths]) /\ Len(decls) <= MaxDecls
      /\ unread \subseteq Paths /\ at \in Paths \cup {None}
      /\ view \in {None} \cup Marker /\ page \in {None} \cup RailPage
      /\ L!CountLandsSomewhere
  <2>1. L!TypeOK /\ Len(decls) <= MaxDecls /\ L!CountLandsSomewhere
    BY DEF RailInv
  <2>2. view \in {None} \cup Marker
    BY <2>1 DEF L!TypeOK, Marker
  <2>3. page \in {None} \cup RailPage
    BY <2>1, SameCount DEF L!TypeOK, RailPage
  <2> QED
    BY <2>1, <2>2, <2>3 DEF L!TypeOK
<1>2. CASE \E p \in Paths : L!Starts(p) \/ L!Archives(p) \/ L!Taps(p) \/ L!OpensTopic(p)
  <2>1. /\ board' \subseteq Paths /\ archived' \subseteq board' /\ unread' \subseteq Paths
        /\ decls' = decls /\ at' \in Paths \cup {None} /\ view' = view
        /\ page' = page \/ page' = None
    BY <1>1, <1>2 DEF L!Starts, L!Archives, L!Taps, L!OpensTopic, L!recordVars
  <2> QED
    BY <1>1, <2>1 DEF RailInv, L!TypeOK, L!CountLandsSomewhere, Marker, RailPage
<1>3. ASSUME NEW a \in Agents, NEW p \in Paths, L!Declares(a, p) PROVE RailInv'
  <2>1. /\ Len(decls) < MaxDecls /\ decls' = Append(decls, [agent |-> a, home |-> p])
        /\ UNCHANGED <<board, archived, unread, at, view, page>>
    BY <1>3 DEF L!Declares
  <2>2. decls' \in Seq([agent : Agents, home : Paths]) /\ Len(decls') <= MaxDecls
    BY <1>1, <2>1, ScreensAssumption
  <2> QED
    BY <1>1, <2>1, <2>2 DEF RailInv, L!TypeOK, L!CountLandsSomewhere, Marker, RailPage
<1>4. CASE L!Observes
  <2>1. PICK where \in L!Landing, way \in IF L!Ways = {} THEN {None} ELSE L!Ways :
           view' = [board |-> board, archived |-> archived, machinery |-> L!Machinery,
                    at |-> where, link |-> way, known |-> Len(decls)]
    BY <1>4 DEF L!Observes
  <2>2. UNCHANGED <<board, archived, decls, unread, at, page>>
    BY <1>4 DEF L!Observes, L!recordVars
  <2>3. where \in Paths \cup {None}
    BY <1>1 DEF L!Landing, L!Human
  <2>4. way \in Agents \cup {None}
    BY DEF L!Ways
  <2>5. Len(decls) \in 0 .. MaxDecls
    BY <1>1, ScreensAssumption
  <2>6. view' \in Marker
    BY <1>1, <2>1, <2>3, <2>4, <2>5, MachineryIsTopics DEF Marker
  <2> QED
    BY <1>1, <2>2, <2>6 DEF RailInv, L!TypeOK, L!CountLandsSomewhere, Marker, RailPage
<1>5. CASE L!Renders
  <2>1. /\ view # None /\ unread' = unread \ {view.at} /\ view' = None
        /\ page' = L!Rail(view, unread' \cap view.board)
        /\ UNCHANGED <<board, archived, decls, at>>
    BY <1>5 DEF L!Renders, L!recordVars
  <2>2. view \in Marker /\ unread' \cap view.board \in SUBSET view.board
    BY <1>1, <2>1
  <2>3. /\ page' \in RailPage /\ page'.marked \subseteq page'.rows \cup page'.fold
        /\ page'.tally = Cardinality(page'.marked) + Cardinality(page'.rooms)
    BY <2>1, <2>2, RailCounts
  <2> QED
    BY <1>1, <2>1, <2>3, SameCount DEF RailInv, L!TypeOK, L!CountLandsSomewhere, RailPage
<1>6. CASE L!FollowsLink
  <2>1. /\ page' = None /\ unread' \subseteq unread
        /\ UNCHANGED <<board, archived, decls, at, view>>
    BY <1>6 DEF L!FollowsLink, L!recordVars
  <2> QED
    BY <1>1, <2>1 DEF RailInv, L!TypeOK, L!CountLandsSomewhere, Marker, RailPage
<1> QED
  BY <1>2, <1>3, <1>4, <1>5, <1>6 DEF L!Next
-----------------------------------------------------------------------------
(* ModelNames.  A field nobody typed in holds what was served, and what was *)
(* served last says what it was served from.                                *)

Act == [does : {"set", "remove"}, name : Models, entry : M!Entries \cup {None},
        at : {"sent", "reached", "done", "failed"}]

Untouched ==
    /\ "name" \notin typed => form.name = served.name
    /\ "points" \notin typed => form.points = served.points
    /\ "pin" \notin typed => form.pin = served.pin
    /\ "tags" \notin typed => form.tags = served.tags
    /\ filled # None => \E n \in Models : served = M!Prefill(n, filled)

ModelsInv == M!TypeOK /\ Untouched

\* No form is filled at first.
LEMMA ModelsStart == M!Init => ModelsInv
<1> SUFFICES ASSUME M!Init PROVE ModelsInv
  OBVIOUS
<1>1. /\ bucket = [n \in Models |-> None] /\ founded = FALSE /\ writes = 0
      /\ form = M!Blank /\ served = M!Blank /\ filled = None /\ typed = {}
      /\ open = FALSE /\ asked = None /\ acts = [c \in Calls |-> M!Free]
  BY DEF M!Init
<1>2. writes \in 0 .. MaxWrites
  BY <1>1, ScreensAssumption
<1>3. M!Blank \in M!Forms
  BY DEF M!Blank, M!Forms
<1>4. bucket \in M!Buckets
  BY <1>1 DEF M!Buckets
<1>5. M!TypeOK
  BY <1>1, <1>2, <1>3, <1>4 DEF M!TypeOK
<1> QED
  BY <1>1, <1>5 DEF ModelsInv, Untouched

\* The page of models is as it was while its variables are.
LEMMA ModelsStand == ASSUME ModelsInv, UNCHANGED modelVars PROVE ModelsInv'
BY DEF ModelsInv, modelVars, M!TypeOK, Untouched

\* A form served from an entry it can say, and sent with no word of anybody's in
\* the fields that count, sends that entry.
LEMMA FilledIsSaid == ModelsInv => M!UntouchedSaysTheSame
<1> SUFFICES ASSUME ModelsInv, filled # None, M!Sayable(filled), typed \cap M!Read = {}
             PROVE  M!EntryOf(form) = filled /\ ("name" \notin typed => ~M!Refused(form))
  BY DEF M!UntouchedSaysTheSame
<1>1. filled \in M!Entries
  BY DEF ModelsInv, M!TypeOK
<1>2. PICK n \in Models : served = M!Prefill(n, filled)
  BY DEF ModelsInv, Untouched
<1>3. /\ served.name = n /\ served.points = M!PointsMode(filled)
      /\ served.pin = filled.pin /\ served.tags = filled.tags
  BY <1>2 DEF M!Prefill
<1>4. form.points = M!PointsMode(filled)
  BY <1>3 DEF M!Read, ModelsInv, Untouched
<1>5. /\ form.points = "model" => form.pin = filled.pin
      /\ form.points = "tags" => form.tags = filled.tags
  BY <1>3 DEF M!Read, ModelsInv, Untouched
<1>6. /\ (IF form.points = "model" THEN form.pin ELSE None) = filled.pin
      /\ (IF form.points = "tags" THEN form.tags ELSE {}) = filled.tags
  BY <1>4, <1>5 DEF M!PointsMode, M!Sayable
<1>7. filled = [pin |-> filled.pin, tags |-> filled.tags]
  BY <1>1 DEF M!Entries
<1>8. M!EntryOf(form) = filled
  BY <1>6, <1>7 DEF M!EntryOf
<1>9. ASSUME "name" \notin typed PROVE ~M!Refused(form)
  <2>1. form.name = n
    BY <1>3, <1>9 DEF ModelsInv, Untouched
  <2>2. n # None
    BY ScreensAssumption
  <2> QED
    BY <1>4, <1>5, <2>1, <2>2 DEF M!Refused, M!PointsMode
<1> QED
  BY <1>8, <1>9

\* An act that moves on keeps its types.
LEMMA ActStaysAct ==
  ASSUME NEW c \in Calls, acts \in [Calls -> {M!Free} \cup Act],
         acts[c].at # "free", NEW to \in {"reached", "done", "failed"},
         acts' = [acts EXCEPT ![c].at = to]
  PROVE  acts[c] \in Act /\ acts' \in [Calls -> {M!Free} \cup Act]
<1>1. acts[c] \in Act
  BY DEF M!Free
<1>2. [acts[c] EXCEPT !.at = to] \in Act
  BY <1>1 DEF Act
<1> QED
  BY <1>1, <1>2

\* A form served anew, morphed into the one that was there: a form, and each
\* field of it the one served or the one that was there while nothing changed.
LEMMA MorphKeeps ==
  ASSUME ModelsInv, NEW n \in Models, bucket[n] # None, M!Edits(n)
  PROVE  /\ {form', served'} \subseteq M!Forms /\ Untouched'
         /\ typed' \subseteq {"name", "points", "pin", "tags"}
         /\ filled' \in M!Entries /\ open' = TRUE
         /\ UNCHANGED <<bucket, founded, writes, asked, acts>>
<1> DEFINE new == M!Prefill(n, bucket[n])
<1>1. /\ served' = new /\ form' = M!Morphed(served') /\ filled' = bucket[n] /\ open' = TRUE
      /\ typed' = {f \in typed \ {"points"} : served[f] = served'[f]}
      /\ UNCHANGED <<bucket, founded, writes, asked, acts>>
  BY DEF M!Edits, M!storeVars
<1>2. /\ bucket \in [Models -> M!Entries \cup {None}] /\ form \in M!Forms
      /\ typed \subseteq {"name", "points", "pin", "tags"}
  BY DEF ModelsInv, M!TypeOK, M!Buckets
<1>3. bucket[n] \in M!Entries
  BY <1>2
<1>4. /\ bucket[n].pin \in Pins \cup {None} /\ bucket[n].tags \in SUBSET Tags
      /\ M!PointsMode(bucket[n]) \in {"any", "model", "tags"}
  BY <1>3 DEF M!Entries, M!PointsMode
<1>5. new \in M!Forms
  BY <1>4 DEF M!Forms, M!Prefill
<1>6. served' = M!Prefill(n, filled')
  BY <1>1
<1> HIDE DEF new
<1>7. /\ new.name \in Models \cup {None} /\ new.points \in {"any", "model", "tags"}
      /\ new.pin \in Pins \cup {None} /\ new.tags \in SUBSET Tags
      /\ form.name \in Models \cup {None} /\ form.pin \in Pins \cup {None}
      /\ form.tags \in SUBSET Tags
  BY <1>2, <1>5 DEF M!Forms
<1>8. form' = [name |-> IF served.name = new.name THEN form.name ELSE new.name,
               points |-> new.points,
               pin |-> IF served.pin = new.pin THEN form.pin ELSE new.pin,
               tags |-> IF served.tags = new.tags THEN form.tags ELSE new.tags]
  BY <1>1 DEF M!Morphed
<1>9. /\ form'.name = IF served.name = new.name THEN form.name ELSE new.name
      /\ form'.points = new.points
      /\ form'.pin = IF served.pin = new.pin THEN form.pin ELSE new.pin
      /\ form'.tags = IF served.tags = new.tags THEN form.tags ELSE new.tags
  BY <1>8
<1>10. form' \in M!Forms
  <2> DEFINE a == IF served.name = new.name THEN form.name ELSE new.name
             b == IF served.pin = new.pin THEN form.pin ELSE new.pin
             d == IF served.tags = new.tags THEN form.tags ELSE new.tags
  <2>1. a \in Models \cup {None} /\ b \in Pins \cup {None} /\ d \in SUBSET Tags
    BY <1>7
  <2>2. form' = [name |-> a, points |-> new.points, pin |-> b, tags |-> d]
    BY <1>8
  <2> HIDE DEF a, b, d
  <2> QED
    BY <1>7, <2>1, <2>2 DEF M!Forms
<1>11. /\ "name" \notin typed' => "name" \notin typed \/ served.name # new.name
       /\ "pin" \notin typed' => "pin" \notin typed \/ served.pin # new.pin
       /\ "tags" \notin typed' => "tags" \notin typed \/ served.tags # new.tags
  BY <1>1
<1>12. /\ "name" \notin typed => form.name = served.name
       /\ "pin" \notin typed => form.pin = served.pin
       /\ "tags" \notin typed => form.tags = served.tags
  BY DEF ModelsInv, Untouched
<1>13. /\ "name" \notin typed' => form'.name = new.name
       /\ "pin" \notin typed' => form'.pin = new.pin
       /\ "tags" \notin typed' => form'.tags = new.tags
  BY <1>9, <1>11, <1>12
<1>14. Untouched'
  BY <1>1, <1>6, <1>9, <1>13 DEF Untouched
<1> QED
  BY <1>1, <1>2, <1>3, <1>5, <1>10, <1>14

\* The page, the form, the acts and the writes of others.
LEMMA ModelsKeep ==
  ASSUME ModelsInv, M!Next
  PROVE  ModelsInv'
<1>1. /\ bucket \in [Models -> M!Entries \cup {None}] /\ founded \in BOOLEAN
      /\ {form, served} \subseteq M!Forms /\ filled \in M!Entries \cup {None}
      /\ typed \subseteq {"name", "points", "pin", "tags"} /\ open \in BOOLEAN
      /\ asked \in Models \cup {None}
      /\ acts \in [Calls -> {M!Free} \cup Act] /\ writes \in 0 .. MaxWrites
  BY DEF ModelsInv, M!TypeOK, M!Buckets, Act
<1>2. Untouched
  BY DEF ModelsInv
<1> DEFINE Typed ==
      /\ bucket' \in [Models -> M!Entries \cup {None}] /\ founded' \in BOOLEAN
      /\ asked' \in Models \cup {None}
      /\ acts' \in [Calls -> {M!Free} \cup Act] /\ writes' \in 0 .. MaxWrites
<1>3. ASSUME Typed, UNCHANGED <<form, served, filled, typed>>, open' \in BOOLEAN
      PROVE  ModelsInv'
  BY <1>1, <1>2, <1>3 DEF ModelsInv, M!TypeOK, M!Buckets, Act, Untouched
<1>4. CASE M!Opens
  <2>1. /\ form' = M!Blank /\ served' = M!Blank /\ filled' = None /\ typed' = {}
        /\ open' = FALSE /\ asked' = None
        /\ UNCHANGED <<bucket, founded, writes, acts>>
    BY <1>4 DEF M!Opens, M!storeVars
  <2>2. M!Blank \in M!Forms
    BY DEF M!Blank, M!Forms
  <2> QED
    BY <1>1, <2>1, <2>2 DEF ModelsInv, M!TypeOK, M!Buckets, Act, Untouched
<1>5. CASE M!Toggles
  <2>1. /\ open' \in BOOLEAN
        /\ UNCHANGED <<bucket, founded, writes, form, served, filled, typed, asked, acts>>
    BY <1>1, <1>5 DEF M!Toggles, M!storeVars
  <2> QED
    BY <1>1, <1>3, <2>1
<1>6. CASE M!KeepsIt \/ M!EditsNothing
  <2>1. /\ asked' = None
        /\ UNCHANGED <<bucket, founded, writes, form, served, filled, typed, open, acts>>
    BY <1>6 DEF M!KeepsIt, M!EditsNothing, M!storeVars, M!formVars
  <2> QED
    BY <1>1, <1>3, <2>1
<1>7. ASSUME NEW n \in Models, M!Edits(n) PROVE ModelsInv'
  <2>1. bucket[n] # None
    BY <1>7 DEF M!Edits
  <2> QED
    BY <1>1, <1>7, <2>1, MorphKeeps DEF ModelsInv, M!TypeOK, M!Buckets, Act
<1>8. ASSUME NEW n \in Models, M!AsksRemove(n) PROVE ModelsInv'
  <2>1. /\ asked' = n
        /\ UNCHANGED <<bucket, founded, writes, form, served, filled, typed, open, acts>>
    BY <1>8 DEF M!AsksRemove, M!storeVars, M!formVars
  <2> QED
    BY <1>1, <1>3, <2>1
<1>9. ASSUME NEW n \in Models, NEW e \in M!Entries \cup {None}, M!OthersWrite(n, e)
      PROVE  ModelsInv'
  <2>1. /\ writes < MaxWrites /\ writes' = writes + 1 /\ founded' = TRUE
        /\ bucket' = [bucket EXCEPT ![n] = e]
        /\ UNCHANGED <<form, served, filled, typed, open, asked, acts>>
    BY <1>9 DEF M!OthersWrite, M!formVars
  <2>2. writes' \in 0 .. MaxWrites
    BY <1>1, <2>1, ScreensAssumption
  <2>3. bucket' \in [Models -> M!Entries \cup {None}]
    BY <1>1, <2>1
  <2> QED
    BY <1>1, <1>3, <2>1, <2>2, <2>3
<1>10. ASSUME NEW f \in M!Forms, M!Types(f) PROVE ModelsInv'
  <2>1. /\ form' = f /\ typed' = typed \cup {k \in DOMAIN f : f[k] # form[k]}
        /\ UNCHANGED <<bucket, founded, writes, served, filled, open, asked, acts>>
    BY <1>10 DEF M!Types, M!storeVars
  <2>2. DOMAIN f = {"name", "points", "pin", "tags"}
    BY DEF M!Forms
  <2>3. typed' \subseteq {"name", "points", "pin", "tags"}
    BY <1>1, <2>1, <2>2
  <2>4. /\ "name" \notin typed' => "name" \notin typed /\ f.name = form.name
        /\ "points" \notin typed' => "points" \notin typed /\ f.points = form.points
        /\ "pin" \notin typed' => "pin" \notin typed /\ f.pin = form.pin
        /\ "tags" \notin typed' => "tags" \notin typed /\ f.tags = form.tags
    BY <2>1, <2>2
  <2>5. Untouched'
    BY <1>2, <2>1, <2>4 DEF Untouched, M!Prefill, M!PointsMode
  <2> QED
    BY <1>1, <2>1, <2>3, <2>5 DEF ModelsInv, M!TypeOK, M!Buckets, Act
<1>11. ASSUME NEW c \in Calls, NEW does \in {"set", "remove"}, NEW n \in Models,
              NEW e \in M!Entries \cup {None}, M!Sends(c, does, n, e)
       PROVE  ModelsInv'
  <2> DEFINE new == [does |-> does, name |-> n, entry |-> e, at |-> "sent"]
  <2>1. /\ acts' = [acts EXCEPT ![c] = new]
        /\ UNCHANGED <<bucket, founded, writes, form, served, filled, typed, open, asked>>
    BY <1>11 DEF M!Sends, M!storeVars, M!formVars
  <2>2. new \in Act
    BY DEF Act
  <2>3. acts' \in [Calls -> {M!Free} \cup Act]
    BY <1>1, <2>1, <2>2
  <2> QED
    BY <1>1, <1>2, <1>3, <2>1, <2>3
<1>12. ASSUME NEW c \in Calls, M!Saves(c) PROVE ModelsInv'
  <2>1. form.name \in Models /\ M!EntryOf(form) \in M!Entries
    BY <1>1, <1>12 DEF M!Saves, M!Refused, M!Forms, M!EntryOf, M!Entries
  <2> QED
    BY <1>11, <1>12, <2>1 DEF M!Saves
<1>13. ASSUME NEW c \in Calls, M!Removes(c) PROVE ModelsInv'
  BY <1>1, <1>11, <1>13 DEF M!Removes
<1>14. ASSUME NEW c \in Calls, M!Reaches(c) PROVE ModelsInv'
  <2>1. PICK to \in {"reached", "done"} : acts' = [acts EXCEPT ![c].at = to]
    BY <1>14 DEF M!Reaches
  <2>2. /\ acts[c].at # "free" /\ founded' \in BOOLEAN
        /\ UNCHANGED <<bucket, writes, form, served, filled, typed, open, asked>>
    BY <1>1, <1>14 DEF M!Reaches, M!formVars
  <2>3. acts' \in [Calls -> {M!Free} \cup Act]
    BY <1>1, <2>1, <2>2, ActStaysAct
  <2> QED
    BY <1>1, <1>2, <1>3, <2>2, <2>3
<1>15. ASSUME NEW c \in Calls, M!Writes(c) \/ M!WriteFails(c) PROVE ModelsInv'
  <2>1. PICK to \in {"done", "failed"} : acts' = [acts EXCEPT ![c].at = to]
    BY <1>15 DEF M!Writes, M!WriteFails
  <2>2. /\ acts[c].at # "free"
        /\ UNCHANGED <<founded, writes, form, served, filled, typed, open, asked>>
    BY <1>15 DEF M!Writes, M!WriteFails, M!formVars
  <2>3. acts[c] \in Act /\ acts' \in [Calls -> {M!Free} \cup Act]
    BY <1>1, <2>1, <2>2, ActStaysAct
  <2>4. acts[c].entry \in M!Entries \cup {None}
    BY <2>3 DEF Act
  <2>5. bucket' = bucket \/ bucket' = [bucket EXCEPT ![acts[c].name] = acts[c].entry]
    BY <1>15 DEF M!Writes, M!WriteFails
  <2>6. bucket' \in [Models -> M!Entries \cup {None}]
    BY <1>1, <2>4, <2>5
  <2> QED
    BY <1>1, <1>2, <1>3, <2>2, <2>3, <2>6
<1>16. ASSUME NEW c \in Calls, M!SaysFailed(c) \/ M!Answered(c) PROVE ModelsInv'
  <2>1. /\ acts[c].at # "free" /\ acts' = [acts EXCEPT ![c] = M!Free]
        /\ open' \in BOOLEAN /\ UNCHANGED <<bucket, founded, writes, form, served, filled, typed>>
        /\ asked' \in {asked, None}
    BY <1>1, <1>16 DEF M!SaysFailed, M!Answered, M!storeVars, M!formVars
  <2>2. acts' \in [Calls -> {M!Free} \cup Act]
    BY <1>1, <2>1
  <2> QED
    BY <1>1, <1>3, <2>1, <2>2
<1> QED
  BY <1>4, <1>5, <1>6, <1>7, <1>8, <1>9, <1>10, <1>12, <1>13, <1>14, <1>15, <1>16
  DEF M!Next, M!Act
-----------------------------------------------------------------------------
(* Administration.  A call that had the screen to itself owes it the list   *)
(* it changed, and carries it once it has read.                             *)

AdminCall == [does : A!PersonActs \cup A!AppActs, who : Names \cup Apps,
              at : {"sent", "done", "refused", "read"},
              read : [people : A!Users, apps : SUBSET Apps] \cup {None}]

Unread(c) ==
    /\ calls[c].at \in {"sent", "done", "refused"} => calls[c].read = None
    /\ calls[c].does \in A!AppActs => calls[c].who \in Apps

Owed(c) ==
    /\ calls[c].at \in {"sent", "refused"} \/ calls[c].does \in A!AppActs \cup {"invite"}
            => people = users
    /\ calls[c].at \in {"sent", "refused"} \/ calls[c].does \notin A!AppActs
            => apps = clients
    /\ calls[c].at = "read" =>
            calls[c].read = IF calls[c].does = "invite" THEN None
                            ELSE [people |-> users, apps |-> clients]

OneAtATime == \A c, d \in A!UnderWay : c = d

InTurn ==
    /\ OneAtATime
    /\ \A c \in A!UnderWay : Owed(c)
    /\ A!UnderWay = {} => people = users /\ apps = clients

AdminInv ==
    /\ A!TypeOK
    /\ \A c \in Calls : Unread(c)
    /\ ~late => InTurn

\* No call is under way at first, and nothing was read.
LEMMA AdminStart == A!Init => AdminInv
<1> SUFFICES ASSUME A!Init PROVE AdminInv
  OBVIOUS
<1>1. /\ users \in A!Users /\ clients = {} /\ people = users /\ apps = clients
      /\ calls = [c \in Calls |-> A!Free] /\ result = <<"nothing", None>>
      /\ others = 0 /\ late = FALSE
  BY DEF A!Init, A!Users, A!Standings
<1>2. A!TypeOK
  <2>1. others \in 0 .. MaxOthers
    BY <1>1, ScreensAssumption
  <2>2. result \in {"nothing", "ask", "done", "refused", "invite"} \X
                   (Names \cup Apps \cup {None})
    BY <1>1
  <2> QED
    BY <1>1, <2>1, <2>2 DEF A!TypeOK
<1>3. \A c \in Calls : calls[c] = A!Free
  BY <1>1
<1>4. \A c \in Calls : Unread(c)
  BY <1>3 DEF Unread, A!Free, A!AppActs
<1>5. A!UnderWay = {}
  BY <1>3 DEF A!UnderWay
<1> QED
  BY <1>1, <1>2, <1>4, <1>5 DEF AdminInv, InTurn, OneAtATime

\* The administration is as it was while its variables are.
LEMMA AdminStand == ASSUME AdminInv, UNCHANGED adminVars PROVE AdminInv'
BY DEF AdminInv, adminVars, A!TypeOK, Unread, InTurn, OneAtATime, A!UnderWay, Owed

\* What the surface does to the people and the applications keeps their types,
\* and changes one of the two lists at most; an invite changes neither.
LEMMA EffectsAreOnOneList ==
  ASSUME AdminInv, NEW does \in A!PersonActs \cup A!AppActs, NEW n,
         does \in A!AppActs => n \in Apps, A!Effect(does, n)
  PROVE  /\ users' \in A!Users /\ clients' \in SUBSET Apps
         /\ does \in A!AppActs \cup {"invite"} => users' = users
         /\ does \notin A!AppActs => clients' = clients
<1>1. users \in [Names -> A!Standings] /\ clients \in SUBSET Apps
  BY DEF AdminInv, A!TypeOK, A!Users
<1>2. ASSUME NEW m \in Names
      PROVE  /\ [users[m] EXCEPT !.status = "disabled"] \in A!Standings
             /\ [users[m] EXCEPT !.status = "active"] \in A!Standings
             /\ [users[m] EXCEPT !.admin = TRUE] \in A!Standings
             /\ [users[m] EXCEPT !.admin = FALSE] \in A!Standings
  <2>1. users[m] \in A!Standings
    BY <1>1
  <2> QED
    BY <2>1 DEF A!Standings
<1>3. [status |-> "active", admin |-> FALSE] \in A!Standings
  BY DEF A!Standings
<1>4. /\ [users EXCEPT ![n] = [status |-> "active", admin |-> FALSE]] \in A!Users
      /\ [users EXCEPT ![n].status = "disabled"] \in A!Users
      /\ [users EXCEPT ![n].status = "active"] \in A!Users
      /\ [users EXCEPT ![n].admin = TRUE] \in A!Users
      /\ [users EXCEPT ![n].admin = FALSE] \in A!Users
  BY <1>1, <1>2, <1>3 DEF A!Users
<1>5. A!Asked(does, n) \in A!Users
  BY <1>1, <1>4 DEF A!Asked, A!Users
<1>6. does = "invite" => A!Asked(does, n) = users
  BY DEF A!Asked
<1>7. users' \in A!Users /\ (does \in A!AppActs \cup {"invite"} => users' = users)
  BY <1>1, <1>5, <1>6 DEF A!Effect, A!PersonActs, A!AppActs, A!Users
<1>8. clients' \in SUBSET Apps /\ (does \notin A!AppActs => clients' = clients)
  BY <1>1 DEF A!Effect, A!PersonActs, A!AppActs
<1> QED
  BY <1>7, <1>8

\* A call's step: whoever had the screen to itself before has it still.
LEMMA CallGoes ==
  ASSUME AdminInv, NEW c \in Calls, NEW new \in {A!Free} \cup AdminCall,
         calls' = [calls EXCEPT ![c] = new],
         users' \in A!Users, clients' \in SUBSET Apps,
         people' \in A!Users, apps' \in SUBSET Apps, UNCHANGED others, late' \in BOOLEAN,
         result' \in {"nothing", "ask", "done", "refused", "invite"} \X
                     (Names \cup Apps \cup {None}),
         Unread(c)',
         ~late' => /\ ~late /\ (calls[c] # A!Free \/ A!UnderWay = {})
                   /\ IF new = A!Free THEN people' = users' /\ apps' = clients'
                      ELSE Owed(c)'
  PROVE  AdminInv'
<1>1. calls \in [Calls -> {A!Free} \cup AdminCall] /\ others \in 0 .. MaxOthers
  BY DEF AdminInv, A!TypeOK, AdminCall
<1>2. /\ calls' \in [Calls -> {A!Free} \cup AdminCall] /\ calls'[c] = new
      /\ \A b \in Calls : b # c => calls'[b] = calls[b]
  BY <1>1
<1>3. A!TypeOK'
  BY <1>1, <1>2 DEF A!TypeOK, AdminCall
<1>4. \A b \in Calls : Unread(b)'
  BY <1>2 DEF AdminInv, Unread
<1>5. ASSUME ~late' PROVE InTurn'
  <2>1. InTurn /\ (calls[c] # A!Free \/ A!UnderWay = {})
    BY <1>5 DEF AdminInv
  <2>2. \A b \in Calls : b # c => calls[b] = A!Free
    BY <2>1 DEF InTurn, OneAtATime, A!UnderWay
  <2>3. A!UnderWay' = IF new = A!Free THEN {} ELSE {c}
    BY <1>2, <2>2 DEF A!UnderWay
  <2> QED
    BY <1>5, <2>3 DEF InTurn, OneAtATime
<1> QED
  BY <1>3, <1>4, <1>5 DEF AdminInv

\* What is done beside the calls keeps what they owe.
LEMMA CallsStand ==
  ASSUME AdminInv, UNCHANGED <<calls, people, apps>>,
         users' \in A!Users, clients' \in SUBSET Apps, others' \in 0 .. MaxOthers,
         late' \in BOOLEAN,
         result' \in {"nothing", "ask", "done", "refused", "invite"} \X
                     (Names \cup Apps \cup {None}),
         ~late' => ~late /\ UNCHANGED <<users, clients>>
  PROVE  AdminInv'
<1>1. A!TypeOK'
  BY DEF AdminInv, A!TypeOK
<1>2. \A b \in Calls : Unread(b)'
  BY DEF AdminInv, Unread
<1>3. ~late' => InTurn'
  BY DEF AdminInv, InTurn, OneAtATime, A!UnderWay, Owed
<1> QED
  BY <1>1, <1>2, <1>3 DEF AdminInv

\* The page, its questions, the calls, and what somebody else changes.
LEMMA AdminKeeps ==
  ASSUME AdminInv, A!Next
  PROVE  AdminInv'
<1> DEFINE Results == {"nothing", "ask", "done", "refused", "invite"} \X
                      (Names \cup Apps \cup {None})
<1>1. /\ users \in A!Users /\ clients \in SUBSET Apps /\ people \in A!Users
      /\ apps \in SUBSET Apps /\ others \in 0 .. MaxOthers /\ late \in BOOLEAN
      /\ result \in Results
      /\ calls \in [Calls -> {A!Free} \cup AdminCall]
  BY DEF AdminInv, A!TypeOK, AdminCall
<1>2. /\ \A c \in Calls : Unread(c)
      /\ ~late => OneAtATime /\ (\A c \in A!UnderWay : Owed(c))
      /\ ~late /\ A!UnderWay = {} => people = users /\ apps = clients
  BY DEF AdminInv, InTurn
<1>3. CASE A!Opens
  <2>1. /\ A!UnderWay = {} /\ people' = users /\ apps' = clients
        /\ result' = <<"nothing", None>> /\ late' = FALSE
        /\ UNCHANGED <<users, clients, calls, others>>
    BY <1>3 DEF A!Opens
  <2>2. A!TypeOK'
    BY <1>1, <2>1 DEF A!TypeOK, AdminCall
  <2>3. A!UnderWay' = {} /\ \A c \in Calls : Unread(c)'
    BY <1>2, <2>1 DEF A!UnderWay, Unread
  <2> QED
    BY <2>1, <2>2, <2>3 DEF AdminInv, InTurn, OneAtATime
<1>4. ASSUME NEW w \in Results, result' = w,
             UNCHANGED <<users, clients, calls, people, apps, others, late>>
      PROVE  AdminInv'
  BY <1>1, <1>4, CallsStand
<1>5. CASE A!KeepsIt
  <2>1. /\ result' = <<"nothing", None>> /\ <<"nothing", None>> \in Results
        /\ UNCHANGED <<users, clients, calls, people, apps, others, late>>
    BY <1>5 DEF A!KeepsIt
  <2> QED
    BY <1>4, <2>1
<1>6. ASSUME NEW n \in Names \cup Apps, A!Asks(n) PROVE AdminInv'
  <2>1. /\ result' = <<"ask", n>> /\ <<"ask", n>> \in Results
        /\ UNCHANGED <<users, clients, calls, people, apps, others, late>>
    BY <1>6 DEF A!Asks
  <2> QED
    BY <1>4, <2>1
<1>7. ASSUME NEW does \in A!PersonActs \cup A!AppActs, NEW n,
             does \in A!AppActs => n \in Apps, A!OthersChange(does, n)
      PROVE  AdminInv'
  <2>1. /\ others < MaxOthers /\ others' = others + 1 /\ A!Effect(does, n)
        /\ late' = TRUE /\ UNCHANGED <<calls, result, people, apps>>
    BY <1>7 DEF A!OthersChange
  <2>2. users' \in A!Users /\ clients' \in SUBSET Apps
    BY <1>7, <2>1, EffectsAreOnOneList
  <2>3. others' \in 0 .. MaxOthers
    BY <1>1, <2>1, ScreensAssumption
  <2> QED
    BY <1>1, <2>1, <2>2, <2>3, CallsStand
<1>8. ASSUME NEW c \in Calls, NEW does \in A!PersonActs \cup A!AppActs,
             NEW n \in Names \cup Apps,
             does \in A!AppActs => n \in Apps, A!Begins(c, does, n)
      PROVE  AdminInv'
  <2> DEFINE new == [does |-> does, who |-> n, at |-> "sent", read |-> None]
  <2>1. /\ calls[c] = A!Free /\ calls' = [calls EXCEPT ![c] = new]
        /\ late' = (late \/ A!UnderWay # {})
        /\ UNCHANGED <<users, clients, result, people, apps, others>>
    BY <1>8 DEF A!Begins
  <2>2. /\ new \in AdminCall /\ new.does = does /\ new.who = n /\ new.at = "sent"
        /\ new.read = None /\ calls'[c] = new
    BY <1>1, <2>1 DEF AdminCall
  <2> HIDE DEF new
  <2>3. Unread(c)'
    BY <1>8, <2>2 DEF Unread
  <2>4. ~late' => /\ ~late /\ A!UnderWay = {} /\ Owed(c)'
                  /\ (new = A!Free => people' = users' /\ apps' = clients')
    <3>1. ~late' => ~late /\ A!UnderWay = {}
      BY <1>1, <2>1
    <3>2. ~late' => people' = users' /\ apps' = clients'
      BY <1>2, <2>1, <3>1
    <3> QED
      BY <2>2, <3>1, <3>2 DEF Owed
  <2>5. late' \in BOOLEAN
    BY <1>1, <2>1
  <2> QED
    BY <1>1, <2>1, <2>2, <2>3, <2>4, <2>5, CallGoes
<1>9. ASSUME NEW c \in Calls, NEW to \in {"done", "refused", "read"}, calls[c].at # "free",
             NEW list \in [people : A!Users, apps : SUBSET Apps] \cup {None},
             calls' = [calls EXCEPT ![c].at = to, ![c].read = list]
      PROVE  /\ calls[c] \in AdminCall
             /\ [calls[c] EXCEPT !.at = to, !.read = list] \in AdminCall
             /\ calls' = [calls EXCEPT ![c] = [calls[c] EXCEPT !.at = to, !.read = list]]
             /\ calls'[c].at = to /\ calls'[c].read = list
             /\ calls'[c].does = calls[c].does /\ calls'[c].who = calls[c].who
  <2>1. calls[c] \in AdminCall
    BY <1>1, <1>9 DEF A!Free
  <2>2. [calls[c] EXCEPT !.at = to, !.read = list] \in AdminCall
    BY <2>1 DEF AdminCall
  <2>3. calls' = [calls EXCEPT ![c] = [calls[c] EXCEPT !.at = to, !.read = list]]
    BY <1>1, <1>9
  <2>4. calls'[c] = [calls[c] EXCEPT !.at = to, !.read = list]
    BY <1>1, <2>3
  <2> QED
    BY <2>1, <2>2, <2>3, <2>4 DEF AdminCall
<1>10. ASSUME NEW c \in Calls, NEW to \in {"done", "refused"}, A!Moves(c, "sent", to)
       PROVE  /\ calls[c] \in AdminCall /\ calls[c].at = "sent"
              /\ calls[c].does \in A!PersonActs \cup A!AppActs
              /\ calls[c].does \in A!AppActs => calls[c].who \in Apps
              /\ [calls[c] EXCEPT !.at = to] \in AdminCall
              /\ calls' = [calls EXCEPT ![c] = [calls[c] EXCEPT !.at = to]]
              /\ calls'[c].at = to /\ calls'[c].does = calls[c].does
              /\ Unread(c)'
              /\ ~late => people = users /\ apps = clients
  <2>1. calls[c].at = "sent" /\ calls' = [calls EXCEPT ![c].at = to]
    BY <1>10 DEF A!Moves
  <2>2. calls[c] \in AdminCall
    BY <1>1, <2>1 DEF A!Free
  <2>3. [calls[c] EXCEPT !.at = to] \in AdminCall
    BY <2>2 DEF AdminCall
  <2>4. calls' = [calls EXCEPT ![c] = [calls[c] EXCEPT !.at = to]]
    BY <1>1, <2>1
  <2>5. calls'[c] = [calls[c] EXCEPT !.at = to]
    BY <1>1, <2>4
  <2>6. /\ calls'[c].at = to /\ calls'[c].does = calls[c].does
        /\ calls'[c].who = calls[c].who /\ calls'[c].read = calls[c].read
    BY <2>2, <2>5 DEF AdminCall
  <2>7. calls[c].read = None /\ (calls[c].does \in A!AppActs => calls[c].who \in Apps)
    BY <1>2, <2>1 DEF Unread
  <2>8. Unread(c)'
    BY <2>6, <2>7 DEF Unread
  <2>9. c \in A!UnderWay
    BY <2>1 DEF A!UnderWay, A!Free
  <2>10. ~late => people = users /\ apps = clients
    BY <1>2, <2>1, <2>9 DEF Owed
  <2> QED
    BY <2>1, <2>2, <2>3, <2>4, <2>6, <2>7, <2>8, <2>10 DEF AdminCall
<1>11. ASSUME NEW c \in Calls, A!Judged(c) PROVE AdminInv'
  <2> DEFINE to == IF A!Accepts(calls[c].does, calls[c].who) THEN "done" ELSE "refused"
             new == [calls[c] EXCEPT !.at = to]
  <2>1. /\ A!Moves(c, "sent", to) /\ UNCHANGED <<result, people, apps, others, late>>
        /\ IF to = "done" THEN A!Effect(calls[c].does, calls[c].who)
           ELSE UNCHANGED <<users, clients>>
    BY <1>11 DEF A!Judged
  <2>2. to \in {"done", "refused"}
    OBVIOUS
  <2> HIDE DEF to
  <2>3. /\ calls[c].at = "sent" /\ calls[c].does \in A!PersonActs \cup A!AppActs
        /\ calls[c].does \in A!AppActs => calls[c].who \in Apps
        /\ new \in AdminCall /\ calls' = [calls EXCEPT ![c] = new] /\ Unread(c)'
        /\ calls'[c].at = to /\ calls'[c].does = calls[c].does
        /\ ~late => people = users /\ apps = clients
    BY <1>10, <2>1, <2>2
  <2>4. /\ users' \in A!Users /\ clients' \in SUBSET Apps
        /\ calls[c].does \in A!AppActs \cup {"invite"} \/ to = "refused" => users' = users
        /\ calls[c].does \notin A!AppActs \/ to = "refused" => clients' = clients
    BY <1>1, <2>1, <2>2, <2>3, EffectsAreOnOneList
  <2>5. ~late' => ~late /\ Owed(c)'
    BY <2>1, <2>2, <2>3, <2>4 DEF Owed
  <2>6. calls[c] # A!Free /\ new # A!Free
    BY <2>2, <2>3 DEF A!Free, AdminCall
  <2> HIDE DEF new
  <2> QED
    BY <1>1, <2>1, <2>3, <2>4, <2>5, <2>6, CallGoes
<1>12. ASSUME NEW c \in Calls, A!Unanswered(c) PROVE AdminInv'
  <2> DEFINE new == [calls[c] EXCEPT !.at = "refused"]
  <2>1. /\ A!Moves(c, "sent", "refused") /\ UNCHANGED <<result, people, apps, others>>
        /\ \/ UNCHANGED <<users, clients, late>>
           \/ A!Effect(calls[c].does, calls[c].who) /\ late' = TRUE
    BY <1>12 DEF A!Unanswered
  <2>2. /\ calls[c].at = "sent" /\ calls[c].does \in A!PersonActs \cup A!AppActs
        /\ calls[c].does \in A!AppActs => calls[c].who \in Apps
        /\ new \in AdminCall /\ calls' = [calls EXCEPT ![c] = new] /\ Unread(c)'
        /\ calls'[c].at = "refused" /\ calls'[c].does = calls[c].does
        /\ ~late => people = users /\ apps = clients
    BY <1>10, <2>1
  <2>3. users' \in A!Users /\ clients' \in SUBSET Apps
    BY <1>1, <2>1, <2>2, EffectsAreOnOneList
  <2>4. late' \in BOOLEAN /\ (~late' => ~late /\ Owed(c)')
    <3>1. late' \in BOOLEAN
      BY <1>1, <2>1
    <3>2. ~late' => ~late /\ UNCHANGED <<users, clients>>
      BY <2>1
    <3>3. ~late' => Owed(c)'
      BY <2>1, <2>2, <3>2 DEF Owed
    <3> QED
      BY <3>1, <3>2, <3>3
  <2>5. calls[c] # A!Free /\ new # A!Free
    BY <2>2 DEF A!Free, AdminCall
  <2> HIDE DEF new
  <2> QED
    BY <1>1, <2>1, <2>2, <2>3, <2>4, <2>5, CallGoes
<1>13. ASSUME NEW c \in Calls, A!Rereads(c) PROVE AdminInv'
  <2> DEFINE list == IF calls[c].does = "invite" THEN None
                     ELSE [people |-> users, apps |-> clients]
             new == [calls[c] EXCEPT !.at = "read", !.read = list]
  <2>1. /\ calls[c].at = "done"
        /\ calls' = [calls EXCEPT ![c].at = "read", ![c].read = list]
        /\ UNCHANGED <<users, clients, result, people, apps, others, late>>
    BY <1>13 DEF A!Rereads, A!Reads
  <2>2. list \in [people : A!Users, apps : SUBSET Apps] \cup {None}
    BY <1>1
  <2>3. /\ new \in AdminCall /\ calls' = [calls EXCEPT ![c] = new]
        /\ calls'[c].at = "read" /\ calls'[c].read = list
        /\ calls'[c].does = calls[c].does /\ calls'[c].who = calls[c].who
    <3>1. calls[c].at # "free"
      BY <2>1
    <3> HIDE DEF list
    <3> QED
      BY <1>9, <2>1, <2>2, <3>1
  <2>4. Unread(c)'
    BY <1>2, <2>3 DEF Unread
  <2>5. c \in A!UnderWay /\ calls[c] # A!Free /\ new # A!Free
    BY <2>1, <2>3 DEF A!UnderWay, A!Free, AdminCall
  <2>6. ~late' => Owed(c)'
    BY <1>2, <2>1, <2>3, <2>5 DEF Owed
  <2> HIDE DEF new, list
  <2> QED
    BY <1>1, <2>1, <2>3, <2>4, <2>5, <2>6, CallGoes
<1>14. ASSUME NEW c \in Calls, A!Answered(c) PROVE AdminInv'
  <2>1. /\ calls[c].at \in {"read", "refused"} /\ calls' = [calls EXCEPT ![c] = A!Free]
        /\ UNCHANGED <<users, clients, others, late>>
        /\ IF calls[c].read = None THEN UNCHANGED <<people, apps>>
           ELSE IF calls[c].does \in A!AppActs
                THEN apps' = calls[c].read.apps /\ UNCHANGED people
                ELSE people' = calls[c].read.people /\ UNCHANGED apps
    BY <1>14 DEF A!Answered
  <2>2. calls[c] \in AdminCall
    BY <1>1, <2>1 DEF A!Free
  <2>3. /\ calls[c].who \in Names \cup Apps /\ calls[c].does \in A!PersonActs \cup A!AppActs
        /\ calls[c].read \in [people : A!Users, apps : SUBSET Apps] \cup {None}
    BY <2>2 DEF AdminCall
  <2>4. result' \in Results
    <3>1. \/ result' = result
          \/ \E w \in {"invite", "done", "refused"} : result' = <<w, calls[c].who>>
      BY <1>14 DEF A!Answered
    <3> QED
      BY <1>1, <2>3, <3>1
  <2>5. people' \in A!Users /\ apps' \in SUBSET Apps
    BY <1>1, <2>1, <2>3
  <2>6. ~late' => people' = users' /\ apps' = clients'
    <3>1. SUFFICES ASSUME ~late PROVE people' = users /\ apps' = clients
      BY <2>1
    <3>2. c \in A!UnderWay
      BY <2>1 DEF A!UnderWay, A!Free
    <3>3. Owed(c) /\ Unread(c)
      BY <1>2, <3>1, <3>2
    <3>4. CASE calls[c].at = "refused" \/ calls[c].does = "invite"
      <4>1. calls[c].read = None /\ people = users /\ apps = clients
        BY <2>1, <3>3, <3>4 DEF Owed, Unread, A!AppActs
      <4> QED
        BY <2>1, <4>1
    <3>5. CASE calls[c].at = "read" /\ calls[c].does # "invite"
      <4>1. calls[c].read = [people |-> users, apps |-> clients]
        BY <3>3, <3>5 DEF Owed
      <4>2. calls[c].read # None
        BY <1>1, <4>1, NoneIsNotRead
      <4>3. calls[c].read.people = users /\ calls[c].read.apps = clients
        BY <4>1
      <4> QED
        BY <2>1, <3>3, <4>2, <4>3 DEF Owed
    <3> QED
      BY <2>1, <3>4, <3>5
  <2>7. Unread(c)'
    <3>1. calls'[c] = A!Free
      BY <1>1, <2>1
    <3> QED
      BY <3>1 DEF Unread, A!Free, A!AppActs
  <2>8. calls[c] # A!Free
    BY <2>1 DEF A!Free
  <2> QED
    BY <1>1, <2>1, <2>4, <2>5, <2>6, <2>7, <2>8, CallGoes
<1>15. /\ {"add", "invite", "enable", "disable", "promote", "demote"} \subseteq A!PersonActs
       /\ {"register", "unregister"} \subseteq A!AppActs
       /\ A!PersonActs \cap A!AppActs = {}
  BY DEF A!PersonActs, A!AppActs
<1>16. ASSUME NEW n \in Names,
              \/ A!AsksDisable(n)
              \/ \E does \in A!PersonActs : A!OthersChange(does, n)
              \/ \E c \in Calls : \/ A!Adds(c, n) \/ A!Invites(c, n) \/ A!Enables(c, n)
                                 \/ A!SetsGroups(c, n) \/ A!Disables(c, n)
       PROVE  AdminInv'
  BY <1>6, <1>7, <1>8, <1>15, <1>16
  DEF A!AsksDisable, A!Adds, A!Invites, A!Enables, A!SetsGroups, A!Disables
<1>17. ASSUME NEW n \in Apps,
              \/ A!AsksRemove(n)
              \/ \E does \in A!AppActs : A!OthersChange(does, n)
              \/ \E c \in Calls : A!Registers(c, n) \/ A!Unregisters(c, n)
       PROVE  AdminInv'
  BY <1>6, <1>7, <1>8, <1>15, <1>17 DEF A!AsksRemove, A!Registers, A!Unregisters
<1> QED
  BY <1>3, <1>5, <1>11, <1>12, <1>13, <1>14, <1>16, <1>17 DEF A!Next, A!Call
-----------------------------------------------------------------------------
(* AgentsScreen.  The credential an act minted is one its agent gets in    *)
(* with until its answer is there, or is gone by another's doing; the card *)
(* shows it from then on, and who takes it away owes the line an answer.   *)

AgentCall == [does : {"add", "credential", "revoke"}, who : Agents,
              at : {"sent", "found", "due", "undo", "done", "half", "failed"},
              old : 0 .. MaxMints, secret : 0 .. MaxMints]

Sayings == {"nothing", "ask", "card", "old one too", "revoked", "failed"}

\* What an act minted and will show stands, or is gone.
Minted(c) ==
    minting[c].does \in {"add", "credential"} /\ minting[c].at \in {"due", "done", "half"} =>
        /\ minting[c].secret # 0
        /\ minting[c].secret \in accepted[minting[c].who] \cup gone

\* No other act minted it, and no card shows it yet.
Fresh(c) ==
    /\ minting[c].secret \in 0 .. minted
    /\ minting[c].does = "add" \/ minting[c].at = "sent" => minting[c].old = 0
    /\ minting[c].secret # 0 =>
          /\ \A d \in AgentCalls : d # c => minting[d].secret # minting[c].secret
          /\ \A b \in DOMAIN card.blocks : card.blocks[b].token # minting[c].secret

\* What the card says is what its agent gets in with, is gone, or is being taken.
CardStands ==
    \A b \in DOMAIN card.blocks :
        /\ card.blocks[b].token \in 1 .. minted
        /\ \/ card.blocks[b].token \in accepted[card.blocks[b].persona] \cup gone
           \/ \E c \in AgentCalls : /\ minting[c].who = card.blocks[b].persona
                                    /\ minting[c].old = card.blocks[b].token
        /\ card.blocks[b].persona \in Agents

AgentsInv ==
    /\ G!TypeOK
    /\ ~shown => DOMAIN card.blocks = {}
    /\ \A c \in AgentCalls : Minted(c) /\ Fresh(c)
    /\ CardStands

\* No call is under way at first, and no card stands.
LEMMA AgentsStart == G!Init => AgentsInv
<1> SUFFICES ASSUME G!Init PROVE AgentsInv
  OBVIOUS
<1>1. /\ accepted = [a \in Agents |-> {}] /\ entered = {} /\ minted = 0
      /\ minting = [c \in AgentCalls |-> G!Free]
      /\ card = G!Says("nothing", None) /\ panel = FALSE /\ gone = {} /\ shown = FALSE
  BY DEF G!Init
<1>2. card.says = "nothing" /\ card.who = None /\ DOMAIN card.blocks = {}
  BY <1>1 DEF G!Says
<1>3. minted \in 0 .. MaxMints
  BY <1>1, ScreensAssumption
<1>4. \A c \in AgentCalls : minting[c] = G!Free
  BY <1>1
<1>5. G!TypeOK
  BY <1>1, <1>2, <1>3 DEF G!TypeOK
<1>6. \A c \in AgentCalls : Minted(c) /\ Fresh(c)
  BY <1>1, <1>4 DEF Minted, Fresh, G!Free
<1> QED
  BY <1>1, <1>2, <1>5, <1>6 DEF AgentsInv, CardStands

\* The types, spelled out.
LEMMA AgentTypes ==
  ASSUME AgentsInv
  PROVE  /\ accepted \in [Agents -> SUBSET (1 .. MaxMints)] /\ entered \in SUBSET Agents
         /\ minted \in 0 .. MaxMints /\ minting \in [AgentCalls -> {G!Free} \cup AgentCall]
         /\ card.says \in Sayings /\ card.who \in Agents \cup {None}
         /\ panel \in BOOLEAN /\ shown \in BOOLEAN /\ gone \in SUBSET (0 .. MaxMints)
BY DEF AgentsInv, G!TypeOK, AgentCall, Sayings

\* The agents page is as it was while its variables are.
LEMMA AgentsStand == ASSUME AgentsInv, UNCHANGED agentVars PROVE AgentsInv'
<1>1. /\ UNCHANGED <<accepted, entered, minted, minting, card>>
      /\ UNCHANGED <<panel, gone, shown>>
  BY DEF agentVars
<1> QED
  BY <1>1 DEF AgentsInv, G!TypeOK, Minted, Fresh, CardStands

\* The store and the calls as they were, and a card without blocks or the same
\* one on a page that stands where one stood.
LEMMA ScreenMoves ==
  ASSUME AgentsInv, UNCHANGED <<accepted, entered, minted, minting, gone>>,
         card'.says \in Sayings, card'.who \in Agents \cup {None}, panel' \in BOOLEAN,
         shown' \in BOOLEAN, DOMAIN card'.blocks = {} \/ (card' = card /\ (shown => shown'))
  PROVE  AgentsInv'
<1>1. G!TypeOK'
  BY DEF AgentsInv, G!TypeOK, Sayings
<1>2. ~shown' => DOMAIN card'.blocks = {}
  BY DEF AgentsInv
<1>3. \A c \in AgentCalls : Minted(c)' /\ Fresh(c)'
  BY DEF AgentsInv, Minted, Fresh
<1>4. CardStands'
  BY DEF AgentsInv, CardStands
<1> QED
  BY <1>1, <1>2, <1>3, <1>4 DEF AgentsInv

\* An act's call to the store: what it takes away is gone, is what this act
\* minted and will not show, or is what it names as the old one.
CallsStore(c, new) ==
    /\ minting[c] \in AgentCall /\ new \in AgentCall
    /\ minting' = [minting EXCEPT ![c] = new]
    /\ new.does = minting[c].does /\ new.who = minting[c].who /\ new.at # "sent"
    /\ new.old = minting[c].old \/ (minting[c].at = "sent" /\ new.does # "add")
    /\ \/ new.secret \in {minting[c].secret, 0}
       \/ new.secret = minted + 1 /\ minted' = minted + 1
    /\ accepted' \in [Agents -> SUBSET (1 .. MaxMints)] /\ entered' \in SUBSET Agents
    /\ minted' \in 0 .. MaxMints /\ minted <= minted'
    /\ gone' \in SUBSET (0 .. MaxMints) /\ gone \subseteq gone'
    /\ UNCHANGED <<card, panel, shown>>
    /\ \A a \in Agents : \A t \in accepted[a] :
          \/ t \in accepted'[a] \cup gone'
          \/ t = minting[c].secret /\ t # 0 /\ new.at = "failed"
          \/ a = new.who /\ t = new.old /\ \A d \in AgentCalls : minting[d].secret # t
    /\ new.does \in {"add", "credential"} /\ new.at \in {"due", "done", "half"} =>
          new.secret # 0 /\ new.secret \in accepted'[new.who] \cup gone'

\* A call that stores keeps the invariant, whatever the store does of it.
LEMMA StoreStep ==
  ASSUME AgentsInv, NEW c \in AgentCalls, NEW new, CallsStore(c, new)
  PROVE  AgentsInv'
<1> USE DEF CallsStore
<1>1. minting \in [AgentCalls -> {G!Free} \cup AgentCall] /\ minted \in 0 .. MaxMints
  BY AgentTypes
<1>2. /\ minting' \in [AgentCalls -> {G!Free} \cup AgentCall] /\ minting'[c] = new
      /\ \A d \in AgentCalls : d # c => minting'[d] = minting[d]
  BY <1>1
<1>3. G!TypeOK'
  BY <1>2 DEF AgentsInv, G!TypeOK, AgentCall
<1>4. \A d \in AgentCalls : Minted(d) /\ Fresh(d)
  BY DEF AgentsInv
<1>5. ASSUME NEW d \in AgentCalls PROVE Minted(d)'
  <2>1. CASE d = c
    BY <1>2, <2>1 DEF Minted
  <2>2. CASE d # c
    <3>1. minting'[d] = minting[d]
      BY <1>2, <2>2
    <3>2. SUFFICES ASSUME minting[d].does \in {"add", "credential"},
                          minting[d].at \in {"due", "done", "half"}
                   PROVE  /\ minting[d].secret # 0
                          /\ minting[d].secret \in accepted'[minting[d].who] \cup gone'
      BY <3>1 DEF Minted
    <3>3. /\ minting[d].secret # 0
          /\ minting[d].secret \in accepted[minting[d].who] \cup gone
      BY <1>4, <3>2 DEF Minted
    <3>4. minting[d].who \in Agents
      BY <1>1, <3>2 DEF G!Free, AgentCall
    <3>5. minting[d].secret # minting[c].secret
      BY <1>4, <2>2, <3>3 DEF Fresh
    <3> QED
      BY <3>3, <3>4, <3>5
  <2> QED
    BY <2>1, <2>2
<1>6. ASSUME NEW d \in AgentCalls PROVE minting[d].secret \in 0 .. minted
  BY <1>4 DEF Fresh
<1>7. ASSUME NEW b \in DOMAIN card.blocks PROVE card.blocks[b].token \in 1 .. minted
  BY DEF AgentsInv, CardStands
<1>8. ASSUME NEW d \in AgentCalls PROVE Fresh(d)'
  <2>1. CASE d = c
    <3>1. minting'[d] = new
      BY <1>2, <2>1
    <3>2. new.secret \in 0 .. minted'
      BY <1>1, <1>6
    <3>3. new.does = "add" \/ new.at = "sent" => new.old = 0
      BY <1>4 DEF Fresh
    <3>4. CASE new.secret = 0
      BY <3>1, <3>2, <3>3, <3>4 DEF Fresh
    <3>5. CASE new.secret = minting[c].secret /\ new.secret # 0
      <4>1. /\ \A e \in AgentCalls : e # c => minting[e].secret # new.secret
            /\ \A b \in DOMAIN card.blocks : card.blocks[b].token # new.secret
        BY <1>4, <3>5 DEF Fresh
      <4>2. \A e \in AgentCalls : e # c => minting'[e].secret # new.secret
        BY <1>2, <4>1
      <4> QED
        BY <2>1, <3>1, <3>2, <3>3, <4>1, <4>2 DEF Fresh
    <3>6. CASE new.secret = minted + 1
      <4>1. /\ \A e \in AgentCalls : e # c => minting[e].secret # new.secret
            /\ \A b \in DOMAIN card.blocks : card.blocks[b].token # new.secret
        BY <1>1, <1>6, <1>7, <3>6
      <4>2. \A e \in AgentCalls : e # c => minting'[e].secret # new.secret
        BY <1>2, <4>1
      <4> QED
        BY <2>1, <3>1, <3>2, <3>3, <4>1, <4>2 DEF Fresh
    <3> QED
      BY <3>4, <3>5, <3>6
  <2>2. CASE d # c
    <3>1. minting'[d] = minting[d]
      BY <1>2, <2>2
    <3>2. minting[d].secret \in 0 .. minted'
      BY <1>1, <1>6
    <3>3. minting[d].does = "add" \/ minting[d].at = "sent" => minting[d].old = 0
      BY <1>4 DEF Fresh
    <3>4. ASSUME minting[d].secret # 0
          PROVE  /\ \A e \in AgentCalls : e # d => minting'[e].secret # minting[d].secret
                 /\ \A b \in DOMAIN card.blocks : card.blocks[b].token # minting[d].secret
      <4>1. /\ \A e \in AgentCalls : e # d => minting[e].secret # minting[d].secret
            /\ \A b \in DOMAIN card.blocks : card.blocks[b].token # minting[d].secret
        BY <1>4, <3>4 DEF Fresh
      <4>2. new.secret # minting[d].secret
        BY <1>1, <1>6, <2>2, <3>4, <4>1
      <4> QED
        BY <1>2, <4>1, <4>2
    <3> QED
      BY <3>1, <3>2, <3>3, <3>4 DEF Fresh
  <2> QED
    BY <2>1, <2>2
<1>9. ASSUME NEW b \in DOMAIN card.blocks
      PROVE  /\ card.blocks[b].token \in 1 .. minted' /\ card.blocks[b].persona \in Agents
             /\ \/ card.blocks[b].token \in accepted'[card.blocks[b].persona] \cup gone'
                \/ \E d \in AgentCalls : /\ minting'[d].who = card.blocks[b].persona
                                         /\ minting'[d].old = card.blocks[b].token
  <2> DEFINE t == card.blocks[b].token
             a == card.blocks[b].persona
  <2>1. /\ t \in 1 .. minted /\ a \in Agents
        /\ \/ t \in accepted[a] \cup gone
           \/ \E d \in AgentCalls : minting[d].who = a /\ minting[d].old = t
    BY DEF AgentsInv, CardStands
  <2>2. t = minting[c].secret => t = 0
    BY <1>4 DEF Fresh
  <2> HIDE DEF t, a
  <2>3. t \in 1 .. minted' /\ t # 0
    BY <1>1, <2>1
  <2>4. CASE t \in accepted[a] \cup gone
    BY <1>2, <2>1, <2>2, <2>3, <2>4 DEF t, a
  <2>5. CASE \E d \in AgentCalls : minting[d].who = a /\ minting[d].old = t
    <3>1. PICK d \in AgentCalls : minting[d].who = a /\ minting[d].old = t
      BY <2>5
    <3>2. d = c => minting[c].at # "sent"
      BY <1>4, <2>3, <3>1 DEF Fresh
    <3>3. minting'[d].who = a /\ minting'[d].old = t
      BY <1>2, <3>1, <3>2
    <3> QED
      BY <2>1, <2>3, <3>3 DEF t, a
  <2> QED
    BY <2>1, <2>4, <2>5
<1>10. CardStands'
  BY <1>9 DEF CardStands
<1> QED
  BY <1>3, <1>5, <1>8, <1>10 DEF AgentsInv

\* A minted credential is shown whole, in every block, as its agent's own.
LEMMA CardShowsTheCall ==
  ASSUME NEW call
  PROVE  /\ G!Card(call).says \in {"card", "old one too"} /\ G!Card(call).who = call.who
         /\ \A b \in DOMAIN G!Card(call).blocks :
                /\ G!Card(call).blocks[b].token = call.secret
                /\ G!Card(call).blocks[b].persona = call.who
<1>1. /\ G!Card(call).says = IF call.at = "half" THEN "old one too" ELSE "card"
      /\ G!Card(call).who = call.who
      /\ G!Card(call).blocks = [b \in G!RunIt \cup G!OtherWays |-> G!Spelled(call)]
  BY DEF G!Card
<1>2. \A b \in DOMAIN G!Card(call).blocks : G!Card(call).blocks[b] = G!Spelled(call)
  BY <1>1
<1>3. G!Spelled(call).token = call.secret /\ G!Spelled(call).persona = call.who
  BY DEF G!Spelled
<1> HIDE DEF G!Card, G!Spelled
<1> QED
  BY <1>1, <1>2, <1>3

\* What is said without a card has no blocks.
LEMMA SayingsHaveNoBlocks ==
  ASSUME NEW what, NEW who
  PROVE  /\ G!Says(what, who).says = what /\ G!Says(what, who).who = who
         /\ DOMAIN G!Says(what, who).blocks = {}
BY DEF G!Says

\* The calls of an act to the store and the record.
LEMMA ActsKeep ==
  ASSUME AgentsInv, NEW c \in AgentCalls,
         \/ G!Finds(c) \/ G!Refuses(c) \/ G!Undoes(c)
         \/ \E answered \in BOOLEAN :
               G!Mints(c, answered) \/ G!Founds(c, answered) \/ G!TakesOld(c, answered)
  PROVE  AgentsInv'
<1> DEFINE call == minting[c]
<1>1. /\ accepted \in [Agents -> SUBSET (1 .. MaxMints)] /\ entered \in SUBSET Agents
      /\ minted \in 0 .. MaxMints /\ minting \in [AgentCalls -> {G!Free} \cup AgentCall]
      /\ gone \in SUBSET (0 .. MaxMints) /\ MaxMints \in Nat
  BY AgentTypes, ScreensAssumption
<1>2. call.at # "free"
  BY DEF G!Finds, G!Refuses, G!Undoes, G!Mints, G!Founds, G!TakesOld
<1>3. call \in AgentCall
  BY <1>1, <1>2 DEF G!Free
<1>4. call.who \in Agents /\ call.old \in 0 .. MaxMints /\ call.secret \in 0 .. MaxMints
  BY <1>3 DEF AgentCall
<1>5. Minted(c) /\ Fresh(c)
  BY DEF AgentsInv
<1>6. ASSUME NEW stage \in {"found", "due", "undo", "done", "half", "failed"}
      PROVE  LET new == [call EXCEPT !.at = stage]
             IN  /\ new \in AgentCall /\ new.at = stage /\ new.does = call.does
                 /\ new.who = call.who /\ new.old = call.old /\ new.secret = call.secret
  BY <1>3 DEF AgentCall
<1>7. CASE G!Finds(c)
  <2> DEFINE stage == IF call.does = "revoke" THEN "due" ELSE "found"
  <2>1. /\ call.at = "sent"
        /\ UNCHANGED <<accepted, entered, minted, gone, card, panel, shown>>
    BY <1>7 DEF G!Finds, G!storeVars, G!page
  <2>2. PICK old \in IF call.does = "add" \/ (call.does = "credential" /\ accepted[call.who] = {})
                     THEN {0} ELSE accepted[call.who] :
            minting' = [minting EXCEPT ![c].old = old, ![c].at = stage]
    BY <1>7 DEF G!Finds
  <2>3. old \in 0 .. MaxMints /\ (call.does = "add" => old = 0)
    BY <1>1, <1>4, <2>2
  <2> DEFINE new == [call EXCEPT !.old = old, !.at = stage]
  <2>4. minting' = [minting EXCEPT ![c] = new]
    BY <1>1, <2>2
  <2>5. /\ new \in AgentCall /\ new.at = stage /\ new.does = call.does /\ new.who = call.who
        /\ new.old = old /\ new.secret = call.secret
    BY <1>3, <2>3 DEF AgentCall
  <2>6. new.at \in {"due", "found"} /\ (new.at = "due" => new.does = "revoke")
    BY <2>5
  <2>7. call.old = 0
    BY <1>5, <2>1 DEF Fresh
  <2>8. new.old = call.old \/ (call.at = "sent" /\ new.does # "add")
    BY <2>1, <2>3, <2>5, <2>7
  <2> HIDE DEF new, stage
  <2>9. CallsStore(c, new)
    BY <1>1, <1>3, <2>1, <2>4, <2>5, <2>6, <2>8 DEF CallsStore
  <2> QED
    BY <2>9, StoreStep
<1>8. CASE G!Refuses(c)
  <2> DEFINE new == [call EXCEPT !.at = "failed"]
  <2>1. /\ minting' = [minting EXCEPT ![c] = new]
        /\ UNCHANGED <<accepted, entered, minted, gone, card, panel, shown>>
    BY <1>8 DEF G!Refuses, G!Goes, G!storeVars, G!page
  <2>2. /\ new \in AgentCall /\ new.at = "failed" /\ new.does = call.does
        /\ new.who = call.who /\ new.old = call.old /\ new.secret = call.secret
    BY <1>6
  <2> HIDE DEF new
  <2>3. CallsStore(c, new)
    BY <1>1, <1>3, <2>1, <2>2 DEF CallsStore
  <2> QED
    BY <2>3, StoreStep
<1>9. CASE G!Undoes(c)
  <2> DEFINE new == [call EXCEPT !.at = "failed"]
  <2>1. /\ minting' = [minting EXCEPT ![c] = new]
        /\ accepted' \in {accepted, [accepted EXCEPT ![call.who] = @ \ {call.secret}]}
        /\ UNCHANGED <<entered, minted, gone, card, panel, shown>>
    BY <1>9 DEF G!Undoes, G!Goes, G!page
  <2>2. /\ new \in AgentCall /\ new.at = "failed" /\ new.does = call.does
        /\ new.who = call.who /\ new.old = call.old /\ new.secret = call.secret
    BY <1>6
  <2>3. accepted' \in [Agents -> SUBSET (1 .. MaxMints)]
    BY <1>1, <1>4, <2>1
  <2>4. \A a \in Agents : \A t \in accepted[a] :
            t \in accepted'[a] \/ (t = call.secret /\ t # 0)
    BY <1>1, <1>4, <2>1
  <2> HIDE DEF new
  <2>5. CallsStore(c, new)
    BY <1>1, <1>3, <2>1, <2>2, <2>3, <2>4 DEF CallsStore
  <2> QED
    BY <2>5, StoreStep
<1>10. ASSUME NEW answered \in BOOLEAN, G!Mints(c, answered) PROVE AgentsInv'
  <2> DEFINE stage == IF answered THEN "due" ELSE "failed"
             secret == IF answered THEN minted + 1 ELSE 0
             new == [call EXCEPT !.at = stage, !.secret = secret]
  <2>1. /\ call.at = "found" /\ minted < MaxMints /\ minted' = minted + 1
        /\ accepted' = [accepted EXCEPT ![call.who] = @ \cup {minted + 1}]
        /\ minting' = [minting EXCEPT ![c].at = stage, ![c].secret = secret]
        /\ UNCHANGED <<entered, gone, card, panel, shown>>
    BY <1>10 DEF G!Mints, G!page
  <2>2. /\ minted + 1 \in 1 .. MaxMints /\ minted' \in 0 .. MaxMints /\ minted <= minted'
        /\ secret \in 0 .. MaxMints /\ minted + 1 # 0
    BY <1>1, <2>1
  <2>3. /\ accepted' \in [Agents -> SUBSET (1 .. MaxMints)]
        /\ minted + 1 \in accepted'[call.who]
        /\ \A a \in Agents : accepted[a] \subseteq accepted'[a]
    BY <1>1, <1>4, <2>1, <2>2
  <2>4. minting' = [minting EXCEPT ![c] = new]
    BY <1>1, <2>1
  <2>5. stage \in {"due", "failed"} /\ (stage = "due" => secret = minted + 1)
        /\ secret \in {0, minted + 1}
    OBVIOUS
  <2> HIDE DEF stage, secret
  <2>6. /\ new \in AgentCall /\ new.at = stage /\ new.does = call.does /\ new.who = call.who
        /\ new.old = call.old /\ new.secret = secret
    BY <1>3, <2>2, <2>5 DEF AgentCall
  <2> HIDE DEF new
  <2>7. \A a \in Agents : \A t \in accepted[a] : t \in accepted'[a] \cup gone'
    BY <2>3
  <2>8. new.at \in {"due", "done", "half"} =>
            new.secret # 0 /\ new.secret \in accepted'[new.who] \cup gone'
    BY <2>2, <2>3, <2>5, <2>6
  <2>9. /\ new.at # "sent"
        /\ new.secret \in {minting[c].secret, 0} \/ (new.secret = minted + 1 /\ minted' = minted + 1)
    BY <2>1, <2>5, <2>6
  <2>10. gone' \in SUBSET (0 .. MaxMints) /\ gone \subseteq gone' /\ entered' \in SUBSET Agents
    BY <1>1, <2>1
  <2>11. CallsStore(c, new)
    BY <1>3, <2>1, <2>2, <2>3, <2>4, <2>6, <2>7, <2>8, <2>9, <2>10 DEF CallsStore
  <2> QED
    BY <2>11, StoreStep
<1>11. ASSUME NEW answered \in BOOLEAN, G!Founds(c, answered) PROVE AgentsInv'
  <2> DEFINE stage == IF answered THEN "done" ELSE "undo"
             new == [call EXCEPT !.at = stage]
  <2>1. /\ call.does = "add" /\ call.at = "due" /\ minting' = [minting EXCEPT ![c] = new]
        /\ entered' \in {entered, entered \cup {call.who}}
        /\ UNCHANGED <<accepted, minted, gone, card, panel, shown>>
    BY <1>11 DEF G!Founds, G!Goes, G!page
  <2>2. stage \in {"done", "undo"}
    OBVIOUS
  <2> HIDE DEF stage
  <2>3. /\ new \in AgentCall /\ new.at = stage /\ new.does = call.does
        /\ new.who = call.who /\ new.old = call.old /\ new.secret = call.secret
    BY <1>6, <2>2
  <2>4. call.secret # 0 /\ call.secret \in accepted[call.who] \cup gone
    BY <1>5, <2>1 DEF Minted
  <2>5. entered' \in SUBSET Agents
    BY <1>1, <1>4, <2>1
  <2> HIDE DEF new
  <2>6. CallsStore(c, new)
    BY <1>1, <1>3, <2>1, <2>2, <2>3, <2>4, <2>5 DEF CallsStore
  <2> QED
    BY <2>6, StoreStep
<1>12. ASSUME NEW answered \in BOOLEAN, G!TakesOld(c, answered) PROVE AgentsInv'
  <2> DEFINE taken == {call.old} \cap accepted[call.who]
             stage == IF answered THEN "done"
                   ELSE IF call.does = "credential" THEN "half" ELSE "failed"
             new == [call EXCEPT !.at = stage]
  <2>1. /\ call.does # "add" /\ call.at = "due" /\ minting' = [minting EXCEPT ![c] = new]
        /\ \/ /\ accepted' = [accepted EXCEPT ![call.who] = @ \ taken]
              /\ gone' = gone \cup {t \in taken : \E d \in AgentCalls : minting[d].secret = t}
           \/ UNCHANGED <<accepted, gone>>
        /\ UNCHANGED <<entered, minted, card, panel, shown>>
    BY <1>12 DEF G!TakesOld, G!Goes, G!page
  <2>2. stage \in {"done", "half", "failed"}
    OBVIOUS
  <2> HIDE DEF stage
  <2>3. /\ new \in AgentCall /\ new.at = stage /\ new.does = call.does
        /\ new.who = call.who /\ new.old = call.old /\ new.secret = call.secret
    BY <1>6, <2>2
  <2>4. taken \in SUBSET (0 .. MaxMints) /\ \A t \in taken : t = call.old
    BY <1>4
  <2> HIDE DEF taken, new
  <2>5. /\ accepted' \in [Agents -> SUBSET (1 .. MaxMints)]
        /\ gone' \in SUBSET (0 .. MaxMints) /\ gone \subseteq gone'
    BY <1>1, <1>4, <2>1, <2>4
  <2>6. \A a \in Agents : \A t \in accepted[a] :
            \/ t \in accepted'[a] \cup gone'
            \/ /\ a = call.who /\ t = call.old
               /\ \A d \in AgentCalls : minting[d].secret # t
    <3> SUFFICES ASSUME NEW a \in Agents, NEW t \in accepted[a], t \notin accepted'[a],
                        t \notin gone'
                 PROVE  /\ a = call.who /\ t = call.old
                        /\ \A d \in AgentCalls : minting[d].secret # t
      OBVIOUS
    <3>1. /\ accepted' = [accepted EXCEPT ![call.who] = @ \ taken]
          /\ gone' = gone \cup {s \in taken : \E d \in AgentCalls : minting[d].secret = s}
      BY <2>1
    <3>2. a = call.who /\ t \in taken
      BY <1>1, <1>4, <3>1
    <3> QED
      BY <2>4, <3>1, <3>2
  <2>7. new.does \in {"add", "credential"} =>
            new.secret # 0 /\ new.secret \in accepted'[new.who] \cup gone'
    <3> SUFFICES ASSUME call.does \in {"add", "credential"}
                 PROVE  call.secret # 0 /\ call.secret \in accepted'[call.who] \cup gone'
      BY <2>3
    <3>1. call.secret # 0 /\ call.secret \in accepted[call.who] \cup gone
      BY <1>5, <2>1 DEF Minted
    <3> QED
      BY <1>4, <2>5, <2>6, <3>1
  <2>8. CallsStore(c, new)
    BY <1>1, <1>3, <2>1, <2>2, <2>3, <2>5, <2>6, <2>7 DEF CallsStore
  <2> QED
    BY <2>8, StoreStep
<1> QED
  BY <1>7, <1>8, <1>9, <1>10, <1>11, <1>12

\* A call that is over, and what that leaves of the others.
LEMMA CallEnds ==
  ASSUME AgentsInv, NEW c \in AgentCalls, minting[c].at # "free",
         minting' = [minting EXCEPT ![c] = G!Free],
         UNCHANGED <<accepted, entered, minted, shown>>,
         gone' \in SUBSET (0 .. MaxMints), gone \subseteq gone',
         card'.says \in Sayings, card'.who \in Agents \cup {None}, panel' \in BOOLEAN,
         \/ DOMAIN card'.blocks = {}
         \/ /\ card' = card
            /\ minting[c].old # 0 =>
                    minting[c].old \in gone' \cup accepted[minting[c].who]
         \/ /\ shown /\ minting[c].secret # 0
            /\ minting[c].secret \in accepted[minting[c].who] \cup gone
            /\ \A b \in DOMAIN card'.blocks :
                  /\ card'.blocks[b].token = minting[c].secret
                  /\ card'.blocks[b].persona = minting[c].who
  PROVE  AgentsInv'
<1>1. minting \in [AgentCalls -> {G!Free} \cup AgentCall] /\ minted \in 0 .. MaxMints
  BY AgentTypes
<1>2. /\ minting' \in [AgentCalls -> {G!Free} \cup AgentCall] /\ minting'[c] = G!Free
      /\ \A d \in AgentCalls : d # c => minting'[d] = minting[d]
  BY <1>1
<1>3. G!Free.at = "free" /\ G!Free.old = 0 /\ G!Free.secret = 0 /\ G!Free.does = "nothing"
  BY DEF G!Free
<1>4. minting[c] \in AgentCall /\ minting[c].who \in Agents
  BY <1>1, <1>3 DEF AgentCall
<1>5. G!TypeOK'
  BY <1>2 DEF AgentsInv, G!TypeOK, AgentCall, Sayings
<1>6. \A d \in AgentCalls : Minted(d) /\ Fresh(d)
  BY DEF AgentsInv
<1>7. \A d \in AgentCalls : Minted(d)'
  <2> SUFFICES ASSUME NEW d \in AgentCalls PROVE Minted(d)'
    OBVIOUS
  <2>1. CASE d = c
    BY <1>2, <1>3, <2>1 DEF Minted
  <2>2. CASE d # c
    <3>1. minting'[d] = minting[d]
      BY <1>2, <2>2
    <3> QED
      BY <1>6, <3>1 DEF Minted
  <2> QED
    BY <2>1, <2>2
<1>8. ASSUME NEW d \in AgentCalls PROVE Fresh(d)'
  <2>1. CASE d = c
    BY <1>1, <1>2, <1>3, <2>1 DEF Fresh
  <2>2. CASE d # c
    <3>1. minting'[d] = minting[d]
      BY <1>2, <2>2
    <3>2. /\ minting[d].secret \in 0 .. minted
          /\ minting[d].does = "add" \/ minting[d].at = "sent" => minting[d].old = 0
      BY <1>6 DEF Fresh
    <3>3. ASSUME minting[d].secret # 0
          PROVE  /\ \A e \in AgentCalls : e # d => minting'[e].secret # minting[d].secret
                 /\ \A b \in DOMAIN card'.blocks : card'.blocks[b].token # minting[d].secret
      <4>1. /\ \A e \in AgentCalls : e # d => minting[e].secret # minting[d].secret
            /\ \A b \in DOMAIN card.blocks : card.blocks[b].token # minting[d].secret
        BY <1>6, <3>3 DEF Fresh
      <4>2. \A e \in AgentCalls : e # d => minting'[e].secret # minting[d].secret
        BY <1>2, <1>3, <3>3, <4>1
      <4>3. \A b \in DOMAIN card'.blocks : card'.blocks[b].token # minting[d].secret
        BY <2>2, <4>1
      <4> QED
        BY <4>2, <4>3
    <3> QED
      BY <3>1, <3>2, <3>3 DEF Fresh
  <2> QED
    BY <2>1, <2>2
<1>9. ~shown' => DOMAIN card'.blocks = {}
  BY DEF AgentsInv
<1>10. CardStands'
  <2>1. CASE DOMAIN card'.blocks = {}
    BY <2>1 DEF CardStands
  <2>2. CASE /\ card' = card
             /\ minting[c].old # 0 => minting[c].old \in gone' \cup accepted[minting[c].who]
    <3> SUFFICES ASSUME NEW b \in DOMAIN card.blocks
                 PROVE  /\ card.blocks[b].token \in 1 .. minted
                        /\ card.blocks[b].persona \in Agents
                        /\ \/ card.blocks[b].token \in
                                    accepted[card.blocks[b].persona] \cup gone'
                           \/ \E d \in AgentCalls :
                                 /\ minting'[d].who = card.blocks[b].persona
                                 /\ minting'[d].old = card.blocks[b].token
      BY <2>2 DEF CardStands
    <3>1. /\ card.blocks[b].token \in 1 .. minted /\ card.blocks[b].persona \in Agents
          /\ \/ card.blocks[b].token \in accepted[card.blocks[b].persona] \cup gone
             \/ \E d \in AgentCalls : /\ minting[d].who = card.blocks[b].persona
                                      /\ minting[d].old = card.blocks[b].token
      BY DEF AgentsInv, CardStands
    <3>2. card.blocks[b].token # 0
      BY <1>1, <3>1
    <3>3. ASSUME NEW d \in AgentCalls, minting[d].who = card.blocks[b].persona,
                 minting[d].old = card.blocks[b].token
          PROVE  \/ card.blocks[b].token \in accepted[card.blocks[b].persona] \cup gone'
                 \/ minting'[d].who = card.blocks[b].persona
                      /\ minting'[d].old = card.blocks[b].token
      BY <1>2, <2>2, <3>2, <3>3
    <3> QED
      BY <3>1, <3>3
  <2>3. CASE /\ shown /\ minting[c].secret # 0
             /\ minting[c].secret \in accepted[minting[c].who] \cup gone
             /\ \A b \in DOMAIN card'.blocks :
                   /\ card'.blocks[b].token = minting[c].secret
                   /\ card'.blocks[b].persona = minting[c].who
    <3>1. minting[c].secret \in 1 .. minted
      BY <1>1, <1>6, <2>3 DEF Fresh
    <3> QED
      BY <1>4, <2>3, <3>1 DEF CardStands
  <2> QED
    BY <2>1, <2>2, <2>3
<1> QED
  BY <1>5, <1>7, <1>8, <1>9, <1>10 DEF AgentsInv

\* The answers, which put the card there; and one that is lost.
LEMMA AnswersKeep ==
  ASSUME AgentsInv, NEW c \in AgentCalls, G!Answers(c) \/ G!AnswerLost(c)
  PROVE  AgentsInv'
<1> DEFINE call == minting[c]
<1>1. /\ accepted \in [Agents -> SUBSET (1 .. MaxMints)] /\ entered \in SUBSET Agents
      /\ minted \in 0 .. MaxMints /\ minting \in [AgentCalls -> {G!Free} \cup AgentCall]
      /\ card.says \in Sayings /\ card.who \in Agents \cup {None}
      /\ panel \in BOOLEAN /\ shown \in BOOLEAN /\ gone \in SUBSET (0 .. MaxMints)
  BY AgentTypes
<1>2. /\ call.at \in {"done", "half", "failed"} /\ minting' = [minting EXCEPT ![c] = G!Free]
      /\ UNCHANGED <<accepted, entered, minted, shown>>
  BY DEF G!Answers, G!AnswerLost, G!storeVars
<1>3. call \in AgentCall
  BY <1>1, <1>2 DEF G!Free
<1>4. call.who \in Agents /\ call.old \in 0 .. MaxMints
      /\ call.does \in {"add", "credential", "revoke"}
  BY <1>3 DEF AgentCall
<1>5. Minted(c) /\ Fresh(c)
  BY DEF AgentsInv
<1>6. CASE G!AnswerLost(c)
  <2>1. /\ gone' = gone \cup ({call.old} \ accepted[call.who])
        /\ UNCHANGED <<card, panel>>
    BY <1>6 DEF G!AnswerLost
  <2> QED
    BY <1>1, <1>2, <1>4, <2>1, CallEnds
<1>7. CASE G!Answers(c)
  <2>1. /\ card' = (IF shown THEN G!Line(call) ELSE card)
        /\ panel' = (panel /\ (call.does # "add" \/ call.at = "failed"))
        /\ UNCHANGED gone
    BY <1>7 DEF G!Answers
  <2>2. \/ call.at = "failed" /\ call.does = "add" /\ G!Line(call) = card
        \/ \E w \in {"failed", "revoked"} : G!Line(call) = G!Says(w, call.who)
        \/ call.at # "failed" /\ call.does # "revoke" /\ G!Line(call) = G!Card(call)
    BY DEF G!Line
  <2> HIDE DEF call
  <2>3. CASE ~shown
    <3>1. card' = card /\ DOMAIN card'.blocks = {}
      BY <2>1, <2>3 DEF AgentsInv
    <3> QED
      BY <1>1, <1>2, <2>1, <3>1, CallEnds DEF call
  <2>4. CASE shown /\ call.at = "failed" /\ call.does = "add" /\ G!Line(call) = card
    <3>1. call.old = 0
      BY <1>5, <2>4 DEF Fresh, call
    <3> QED
      BY <1>1, <1>2, <2>1, <2>4, <3>1, CallEnds DEF call
  <2>5. ASSUME shown, NEW w \in {"failed", "revoked"}, G!Line(call) = G!Says(w, call.who)
        PROVE  AgentsInv'
    <3>1. card'.says = w /\ card'.who = call.who /\ DOMAIN card'.blocks = {}
      BY <2>1, <2>5, SayingsHaveNoBlocks
    <3> QED
      BY <1>1, <1>2, <1>4, <2>1, <3>1, CallEnds DEF call, Sayings
  <2>6. CASE shown /\ call.at # "failed" /\ call.does # "revoke" /\ G!Line(call) = G!Card(call)
    <3>1. /\ card'.says \in {"card", "old one too"} /\ card'.who = call.who
          /\ \A b \in DOMAIN card'.blocks : /\ card'.blocks[b].token = call.secret
                                            /\ card'.blocks[b].persona = call.who
      BY <2>1, <2>6, CardShowsTheCall
    <3>2. call.secret # 0 /\ call.secret \in accepted[call.who] \cup gone
      BY <1>2, <1>4, <1>5, <2>6 DEF Minted, call
    <3> QED
      BY <1>1, <1>2, <1>4, <2>1, <2>6, <3>1, <3>2, CallEnds DEF call, Sayings
  <2> QED
    BY <1>1, <2>2, <2>3, <2>4, <2>5, <2>6
<1> QED
  BY <1>6, <1>7

\* An act that is sent holds nothing yet.
LEMMA SendsKeep ==
  ASSUME AgentsInv, NEW c \in AgentCalls, NEW does \in {"add", "credential", "revoke"},
         NEW a \in Agents, G!Sends(c, does, a)
  PROVE  AgentsInv'
<1> DEFINE new == [does |-> does, who |-> a, at |-> "sent", old |-> 0, secret |-> 0]
<1>1. /\ minting[c] = G!Free /\ minting' = [minting EXCEPT ![c] = new]
      /\ UNCHANGED <<accepted, entered, minted, card, panel, gone, shown>>
  BY DEF G!Sends, G!storeVars, G!screenVars
<1>2. /\ new \in AgentCall /\ new.at = "sent" /\ new.old = 0 /\ new.secret = 0
  BY ScreensAssumption DEF AgentCall
<1> HIDE DEF new
<1>3. minting \in [AgentCalls -> {G!Free} \cup AgentCall] /\ minted \in 0 .. MaxMints
  BY AgentTypes
<1>4. /\ minting' \in [AgentCalls -> {G!Free} \cup AgentCall] /\ minting'[c] = new
      /\ \A d \in AgentCalls : d # c => minting'[d] = minting[d]
  BY <1>1, <1>2, <1>3
<1>5. G!TypeOK'
  BY <1>1, <1>4 DEF AgentsInv, G!TypeOK, AgentCall
<1>6. \A d \in AgentCalls : minting'[d].secret \in {0, minting[d].secret}
  BY <1>2, <1>4
<1>7. \A d \in AgentCalls : Minted(d)' /\ Fresh(d)'
  <2> SUFFICES ASSUME NEW d \in AgentCalls PROVE Minted(d)' /\ Fresh(d)'
    OBVIOUS
  <2>1. CASE d = c
    BY <1>1, <1>2, <1>3, <1>4, <2>1 DEF Minted, Fresh
  <2>2. CASE d # c
    <3>1. minting'[d] = minting[d] /\ Minted(d) /\ Fresh(d)
      BY <1>4, <2>2 DEF AgentsInv
    <3>2. Minted(d)'
      BY <1>1, <3>1 DEF Minted
    <3>3. Fresh(d)'
      BY <1>1, <1>6, <3>1 DEF Fresh
    <3> QED
      BY <3>2, <3>3
  <2> QED
    BY <2>1, <2>2
<1>8. CardStands'
  <2> SUFFICES ASSUME NEW b \in DOMAIN card.blocks
               PROVE  /\ card.blocks[b].token \in 1 .. minted
                      /\ card.blocks[b].persona \in Agents
                      /\ \/ card.blocks[b].token \in
                                    accepted[card.blocks[b].persona] \cup gone
                         \/ \E d \in AgentCalls :
                               /\ minting'[d].who = card.blocks[b].persona
                               /\ minting'[d].old = card.blocks[b].token
    BY <1>1 DEF CardStands
  <2>1. /\ card.blocks[b].token \in 1 .. minted /\ card.blocks[b].persona \in Agents
        /\ \/ card.blocks[b].token \in accepted[card.blocks[b].persona] \cup gone
           \/ \E d \in AgentCalls : /\ minting[d].who = card.blocks[b].persona
                                    /\ minting[d].old = card.blocks[b].token
    BY DEF AgentsInv, CardStands
  <2>2. card.blocks[b].token # 0 /\ minting[c].old = 0
    BY <1>1, <1>3, <2>1 DEF G!Free
  <2> QED
    BY <1>4, <2>1, <2>2
<1> QED
  BY <1>1, <1>5, <1>7, <1>8 DEF AgentsInv

\* The page, the acts, and what others do to the store.
LEMMA AgentsKeep ==
  ASSUME AgentsInv, G!Next
  PROVE  AgentsInv'
<1>1. /\ accepted \in [Agents -> SUBSET (1 .. MaxMints)]
      /\ card.says \in Sayings /\ card.who \in Agents \cup {None}
      /\ panel \in BOOLEAN /\ shown \in BOOLEAN /\ gone \in SUBSET (0 .. MaxMints)
  BY AgentTypes
<1>2. ASSUME NEW a \in Agents, NEW t \in 1 .. MaxMints, G!OthersRevoke(a, t) PROVE AgentsInv'
  <2>1. /\ accepted' = [accepted EXCEPT ![a] = @ \ {t}] /\ gone' = gone \cup {t}
        /\ UNCHANGED <<entered, minted, minting, card, panel, shown>>
    BY <1>2 DEF G!OthersRevoke
  <2>2. /\ accepted' \in [Agents -> SUBSET (1 .. MaxMints)]
        /\ gone' \in SUBSET (0 .. MaxMints)
    BY <1>1, <2>1
  <2>3. \A h \in Agents : accepted[h] \cup gone \subseteq accepted'[h] \cup gone'
    BY <1>1, <2>1
  <2>4. G!TypeOK'
    BY <2>1, <2>2 DEF AgentsInv, G!TypeOK
  <2>5. \A c \in AgentCalls : minting[c].at # "free" => minting[c].who \in Agents
    BY AgentTypes DEF AgentCall, G!Free
  <2>6. \A c \in AgentCalls : Minted(c)' /\ Fresh(c)'
    BY <2>1, <2>3, <2>5 DEF AgentsInv, Minted, Fresh
  <2>7. CardStands'
    BY <2>1, <2>3 DEF AgentsInv, CardStands
  <2> QED
    BY <2>1, <2>4, <2>6, <2>7 DEF AgentsInv
<1>3. ASSUME NEW c \in AgentCalls, NEW a \in Agents,
             G!Adds(c, a) \/ G!Remints(c, a) \/ G!Revokes(c, a)
      PROVE  AgentsInv'
  BY <1>3, SendsKeep DEF G!Adds, G!Remints, G!Revokes
<1>4. CASE G!Opens
  <2>1. /\ shown' = TRUE
        /\ UNCHANGED <<accepted, entered, minted, minting, card, panel, gone>>
    BY <1>4 DEF G!Opens, G!others, G!storeVars
  <2> QED
    BY <1>1, <2>1, ScreenMoves
<1>5. CASE G!Leaves
  <2>1. /\ card' = G!Says("nothing", None) /\ panel' = FALSE /\ shown' = FALSE
        /\ UNCHANGED <<accepted, entered, minted, minting, gone>>
    BY <1>5 DEF G!Leaves, G!others, G!storeVars
  <2>2. card'.says = "nothing" /\ card'.who = None /\ DOMAIN card'.blocks = {}
    BY <2>1, SayingsHaveNoBlocks
  <2> QED
    BY <1>1, <2>1, <2>2, ScreenMoves DEF Sayings
<1>6. CASE G!PullsPanel
  <2>1. /\ panel' = TRUE
        /\ UNCHANGED <<accepted, entered, minted, minting, card, gone, shown>>
    BY <1>6 DEF G!PullsPanel, G!others, G!storeVars
  <2> QED
    BY <1>1, <2>1, ScreenMoves
<1>7. ASSUME NEW w \in {"ask", "nothing"}, NEW a \in Agents \cup {None},
             card' = G!Says(w, a), UNCHANGED <<G!others, panel, gone, shown>>
      PROVE  AgentsInv'
  <2>1. UNCHANGED <<accepted, entered, minted, minting, panel, gone, shown>>
    BY <1>7 DEF G!others, G!storeVars
  <2>2. card'.says = w /\ card'.who = a /\ DOMAIN card'.blocks = {}
    BY <1>7, SayingsHaveNoBlocks
  <2> QED
    BY <1>1, <2>1, <2>2, ScreenMoves DEF Sayings
<1>8. ASSUME NEW a \in Agents, G!AsksRevoke(a) PROVE AgentsInv'
  BY <1>7, <1>8 DEF G!AsksRevoke
<1>9. CASE G!KeepsIt
  BY <1>7, <1>9 DEF G!KeepsIt
<1> QED
  BY <1>2, <1>3, <1>4, <1>5, <1>6, <1>8, <1>9, ActsKeep, AnswersKeep DEF G!Next
-----------------------------------------------------------------------------
(* AgentRoom.  Marks go with the reading of their room alone.               *)

RoomReading == [home : AgentRooms \cup {None}, facts : {"placements", "elsewhere", "nobody"},
                upto : (0 .. MaxPosts) \cup {None}, live : BOOLEAN]

RoomInv ==
    /\ R!TypeOK
    /\ heard \in [AgentRooms -> Nat]
    /\ marks \in [AgentRooms -> SUBSET Nat]

\* Nobody is in a room at first.
LEMMA RoomStart == R!Init => RoomInv
<1> SUFFICES ASSUME R!Init PROVE RoomInv
  OBVIOUS
<1>1. /\ placedIn = <<>> /\ known = 0 /\ roster \in BOOLEAN /\ box = FALSE
      /\ posts = [r \in AgentRooms |-> 0] /\ heard = posts /\ marks = [r \in AgentRooms |-> {}]
      /\ reading = None /\ left = {} /\ screen = None
  BY DEF R!Init
<1>2. placedIn \in Seq(AgentRooms) /\ known \in 0 .. Len(placedIn)
  BY <1>1
<1>3. posts \in [AgentRooms -> 0 .. MaxPosts]
  BY <1>1, ScreensAssumption
<1>4. \A r \in AgentRooms : heard[r] \in 0 .. posts[r] /\ marks[r] \subseteq 1 .. heard[r]
  BY <1>1
<1>5. R!TypeOK
  BY <1>1, <1>2, <1>3, <1>4 DEF R!TypeOK
<1> QED
  BY <1>1, <1>5 DEF RoomInv

\* The room is as it was while its variables are.
LEMMA RoomStand == ASSUME RoomInv, UNCHANGED roomVars PROVE RoomInv'
BY DEF RoomInv, roomVars, R!TypeOK

\* A reading is of a room there is, and of what is in it.
LEMMA ReadingIsReading ==
  ASSUME RoomInv, NEW facts \in {"placements", "elsewhere", "nobody"},
         NEW where, NEW live \in BOOLEAN, NEW answered \in BOOLEAN,
         R!Reads(where, facts, live, answered)
  PROVE  reading' \in RoomReading
<1>1. /\ where \in {R!NewestHome(placedIn), None}
      /\ reading' = [home |-> where, facts |-> facts, live |-> live,
                     upto |-> IF where # None /\ answered THEN posts[where] ELSE None]
  BY DEF R!Reads
<1>2. placedIn \in Seq(AgentRooms) /\ posts \in [AgentRooms -> 0 .. MaxPosts]
  BY DEF RoomInv, R!TypeOK
<1>3. R!NewestHome(placedIn) \in AgentRooms \cup {None}
  <2>1. CASE placedIn = <<>>
    BY <2>1 DEF R!NewestHome
  <2>2. CASE placedIn # <<>>
    <3>1. Len(placedIn) \in 1 .. Len(placedIn)
      BY <1>2, <2>2
    <3>2. placedIn[Len(placedIn)] \in AgentRooms
      BY <1>2, <3>1, ElementOfSeq
    <3> QED
      BY <2>2, <3>2 DEF R!NewestHome, R!Last
  <2> QED
    BY <2>1, <2>2
<1>4. where \in AgentRooms \cup {None}
  BY <1>1, <1>3
<1>5. (IF where # None /\ answered THEN posts[where] ELSE None) \in (0 .. MaxPosts) \cup {None}
  BY <1>2, <1>4
<1> QED
  BY <1>1, <1>4, <1>5 DEF RoomReading

\* The record, the tray, the readings and the composer.
LEMMA RoomKeeps ==
  ASSUME RoomInv, R!Next
  PROVE  /\ RoomInv'
         /\ \A r \in AgentRooms : marks[r] \ marks'[r] # {} =>
                (screen' # None /\ screen'.home = r) \/ r \in left \ left'
<1> DEFINE Shown == \A r \in AgentRooms :
                      marks[r] \ marks'[r] # {} =>
                        (screen' # None /\ screen'.home = r) \/ r \in left \ left'
<1>1. /\ placedIn \in Seq(AgentRooms) /\ known \in 0 .. Len(placedIn)
      /\ roster \in BOOLEAN /\ box \in BOOLEAN /\ posts \in [AgentRooms -> 0 .. MaxPosts]
      /\ \A r \in AgentRooms : heard[r] \in 0 .. posts[r] /\ marks[r] \subseteq 1 .. heard[r]
      /\ reading \in {None} \cup RoomReading /\ screen \in {None} \cup RoomReading
      /\ heard \in [AgentRooms -> Nat] /\ marks \in [AgentRooms -> SUBSET Nat]
      /\ left \subseteq AgentRooms
  BY DEF RoomInv, R!TypeOK, RoomReading
<1>2. ASSUME placedIn' \in Seq(AgentRooms), known' \in 0 .. Len(placedIn'),
             box' \in BOOLEAN, UNCHANGED <<roster, posts, heard>>,
             reading' \in {None} \cup RoomReading, screen' \in {None} \cup RoomReading,
             left' \subseteq AgentRooms,
             marks' \in [AgentRooms -> SUBSET Nat], \A r \in AgentRooms : marks'[r] \subseteq marks[r]
      PROVE  RoomInv'
  <2>1. \A r \in AgentRooms : heard'[r] \in 0 .. posts'[r] /\ marks'[r] \subseteq 1 .. heard'[r]
    BY <1>1, <1>2
  <2>2. R!TypeOK'
    BY <1>1, <1>2, <2>1 DEF R!TypeOK, RoomReading
  <2> QED
    BY <1>1, <1>2, <2>2 DEF RoomInv
<1>3. ASSUME NEW r \in AgentRooms, R!IsDeclared(r) PROVE RoomInv' /\ Shown
  <2>1. /\ placedIn' = Append(placedIn, r)
        /\ UNCHANGED <<known, roster, posts, heard, marks, reading, left, screen, box>>
    BY <1>3 DEF R!IsDeclared
  <2>2. placedIn' \in Seq(AgentRooms) /\ known' \in 0 .. Len(placedIn')
    BY <1>1, <2>1
  <2> QED
    BY <1>1, <1>2, <2>1, <2>2
<1>4. ASSUME NEW r \in AgentRooms, R!SaysTheirName(r) PROVE RoomInv' /\ Shown
  <2>1. /\ posts[r] < MaxPosts /\ posts' = [posts EXCEPT ![r] = @ + 1]
        /\ UNCHANGED <<placedIn, known, roster, heard, marks, reading, left, screen, box>>
    BY <1>4 DEF R!SaysTheirName
  <2>2. posts'[r] = posts[r] + 1 /\ \A s \in AgentRooms : s # r => posts'[s] = posts[s]
    BY <1>1, <2>1
  <2>3. posts' \in [AgentRooms -> 0 .. MaxPosts]
    BY <1>1, <2>1, ScreensAssumption
  <2>4. \A s \in AgentRooms : heard'[s] \in 0 .. posts'[s] /\ marks'[s] \subseteq 1 .. heard'[s]
    BY <1>1, <2>1, <2>2, ScreensAssumption
  <2>5. R!TypeOK'
    BY <1>1, <2>1, <2>3, <2>4 DEF R!TypeOK, RoomReading
  <2> QED
    BY <1>1, <2>1, <2>5 DEF RoomInv
<1>5. ASSUME NEW r \in AgentRooms, R!TrayHears(r) PROVE RoomInv' /\ Shown
  <2>1. /\ heard[r] < posts[r] /\ heard' = [heard EXCEPT ![r] = @ + 1]
        /\ marks' = [marks EXCEPT ![r] = @ \cup {heard'[r]}]
        /\ UNCHANGED <<placedIn, known, roster, posts, reading, left, screen, box>>
    BY <1>5 DEF R!TrayHears, R!record
  <2>2. /\ heard'[r] = heard[r] + 1 /\ marks'[r] = marks[r] \cup {heard[r] + 1}
        /\ \A s \in AgentRooms : s # r => heard'[s] = heard[s] /\ marks'[s] = marks[s]
        /\ heard' \in [AgentRooms -> Nat] /\ marks' \in [AgentRooms -> SUBSET Nat]
    BY <1>1, <2>1
  <2>3. heard[r] \in Nat /\ posts[r] \in 0 .. MaxPosts /\ marks[r] \subseteq 1 .. heard[r]
    BY <1>1
  <2>4. heard'[r] \in 0 .. posts'[r]
    BY <2>1, <2>2, <2>3
  <2>5. marks'[r] \subseteq 1 .. heard'[r]
    BY <2>2, <2>3
  <2>6. \A s \in AgentRooms : heard'[s] \in 0 .. posts'[s] /\ marks'[s] \subseteq 1 .. heard'[s]
    BY <1>1, <2>1, <2>2, <2>4, <2>5
  <2>7. R!TypeOK'
    BY <1>1, <2>1, <2>6 DEF R!TypeOK, RoomReading
  <2>8. Shown
    BY <2>2
  <2> QED
    BY <2>2, <2>7, <2>8 DEF RoomInv
<1>6. CASE R!WatchLearns
  <2>1. /\ known < Len(placedIn) /\ known' = known + 1
        /\ UNCHANGED <<placedIn, roster, posts, heard, marks, reading, left, screen, box>>
    BY <1>6 DEF R!WatchLearns, R!record
  <2>2. known' \in 0 .. Len(placedIn')
    BY <1>1, <2>1
  <2> QED
    BY <1>1, <1>2, <2>1, <2>2
<1>7. ASSUME NEW where, NEW facts \in {"placements", "elsewhere", "nobody"},
             NEW live \in BOOLEAN, NEW answered \in BOOLEAN,
             R!Reads(where, facts, live, answered)
      PROVE  RoomInv' /\ Shown
  <2>1. UNCHANGED <<placedIn, known, roster, posts, heard, marks, left, screen, box>>
    BY <1>7 DEF R!Reads, R!record
  <2>2. reading' \in RoomReading
    BY <1>7, ReadingIsReading
  <2> QED
    BY <1>1, <1>2, <2>1, <2>2
<1>8. ASSUME NEW where, NEW listed \in BOOLEAN, NEW answered \in BOOLEAN,
             R!Opens(where, listed, answered) \/ R!Ticks(where, answered)
      PROVE  RoomInv' /\ Shown
  <2>1. /\ R!Facts(where, listed) \in {"placements", "elsewhere", "nobody"}
        /\ (where # None) \in BOOLEAN
    BY DEF R!Facts
  <2>2. screen # None => screen.facts \in {"placements", "elsewhere", "nobody"}
    BY <1>1 DEF RoomReading
  <2> QED
    BY <1>7, <1>8, <2>1, <2>2 DEF R!Opens, R!Ticks
<1>9. ASSUME NEW landed \in BOOLEAN, R!Says(landed) PROVE RoomInv' /\ Shown
  <2>1. /\ box' \in BOOLEAN
        /\ UNCHANGED <<placedIn, known, roster, posts, heard, marks, reading, left, screen>>
    BY <1>9 DEF R!Says, R!record
  <2> QED
    BY <1>1, <1>2, <2>1
<1>10. CASE R!Clears
  <2>1. /\ reading # None /\ screen' = reading /\ reading' = None
        /\ marks' = [r \in AgentRooms |-> IF r = reading.home THEN {} ELSE marks[r]]
        /\ UNCHANGED <<placedIn, known, roster, posts, heard, left, box>>
    BY <1>10 DEF R!Clears, R!record
  <2>2. /\ marks' \in [AgentRooms -> SUBSET Nat] /\ \A r \in AgentRooms : marks'[r] \subseteq marks[r]
        /\ Shown
    BY <1>1, <2>1
  <2> QED
    BY <1>1, <1>2, <2>1, <2>2
<1>11. CASE R!Leaves
  <2>1. /\ reading' = None /\ screen' = None /\ box' = FALSE
        /\ left' \subseteq left \cup ({reading.home} \ {None})
        /\ reading = None => left' = left
        /\ UNCHANGED <<placedIn, known, roster, posts, heard, marks>>
    BY <1>11 DEF R!Leaves, R!record
  <2>2. left' \subseteq AgentRooms
    <3>1. reading # None => reading.home \in AgentRooms \cup {None}
      BY <1>1 DEF RoomReading
    <3> QED
      BY <1>1, <2>1, <3>1
  <2> QED
    BY <1>1, <1>2, <2>1, <2>2
<1>12. CASE R!Writes
  <2>1. /\ box' \in BOOLEAN
        /\ UNCHANGED <<placedIn, known, roster, posts, heard, marks, reading, left, screen>>
    BY <1>12 DEF R!Writes, R!record
  <2> QED
    BY <1>1, <1>2, <2>1
<1>13. ASSUME NEW r \in AgentRooms, R!ClearsLeft(r) PROVE RoomInv' /\ Shown
  <2>1. /\ r \in left /\ left' = left \ {r} /\ marks' = [marks EXCEPT ![r] = {}]
        /\ UNCHANGED <<placedIn, known, roster, posts, heard, reading, screen, box>>
    BY <1>13 DEF R!ClearsLeft, R!record
  <2>2. /\ marks' \in [AgentRooms -> SUBSET Nat]
        /\ \A s \in AgentRooms : marks'[s] \subseteq marks[s] /\ (s # r => marks'[s] = marks[s])
    BY <1>1, <2>1
  <2>3. RoomInv'
    BY <1>1, <1>2, <2>1, <2>2
  <2>4. Shown
    BY <2>1, <2>2
  <2> QED
    BY <2>3, <2>4
<1> QED
  BY <1>3, <1>4, <1>5, <1>6, <1>8, <1>9, <1>10, <1>11, <1>12, <1>13 DEF R!Next
-----------------------------------------------------------------------------
(* Declaring.  The document under way is that of its form, but for the home *)
(* where the form has none.                                                 *)

DocWith(f, t) ==
    [persona |-> f.name, topic |-> t, wakes |-> D!Wakes(f), schedule |-> f.schedule,
     told |-> f.told, model |-> f.model, tools |-> D!Capabilities(f),
     window |-> <<D!Window(f)>>]

\* Where the document of a form may be for.
HomesFor(f) == {f.home} \cup IF f.home = None THEN {[new |-> k] : k \in 1 .. MaxHomes} ELSE {}

Docs == UNION {{DocWith(f, t) : t \in HomesFor(f)} : f \in DeclareForms}

States == {"open", "claimed", "done"}

UnderWayOn(f, t, s) == act = [at |-> s, form |-> f, doc |-> DocWith(f, t)]

ActInv ==
    \/ act = D!Idle
    \/ \E f \in DeclareForms : \E t \in HomesFor(f), s \in {"home", "judge", "submit", "answer"} :
            UnderWayOn(f, t, s) /\ (s = "home" => f.home = None)

JsonInv ==
    json.of # None => /\ json.of \in DeclareForms /\ json.doc = D!DocOf(json.of)
                      /\ json.said = D!Judges(json.doc)

DeclareInv ==
    /\ D!TypeOK
    /\ placed \in Seq([doc : Docs, state : States])
    /\ ActInv
    /\ JsonInv

\* A table has a row for each placement.
LEMMA TableIsOfThePlaced ==
  ASSUME placed \in Seq([doc : Docs, state : States])
  PROVE  Len(D!Table.rows) = Len(placed)
<1> DEFINE all == {D!RowOf(placed[i]) : i \in 1 .. Len(placed)}
<1>1. D!Table.rows = [i \in 1 .. Len(placed) |-> D!RowOf(placed[i])]
  BY DEF D!Table
<1>2. Len(placed) \in Nat
  OBVIOUS
<1>3. D!Table.rows \in Seq(all) /\ DOMAIN D!Table.rows = 1 .. Len(placed)
  <2>1. \A i \in 1 .. Len(placed) : D!Table.rows[i] \in all
    BY <1>1
  <2>2. D!Table.rows \in [1 .. Len(placed) -> all]
    BY <1>1, <2>1
  <2> HIDE DEF all
  <2> QED
    BY <1>2, <2>2
<1> HIDE DEF all
<1> QED
  BY <1>2, <1>3, LenProperties

\* The form is blank at first, and nothing is sent.
LEMMA DeclareStart == D!Init => DeclareInv
<1> SUFFICES ASSUME D!Init PROVE DeclareInv
  OBVIOUS
<1>1. /\ fields = EmptyForm /\ step = 0 /\ drawer = FALSE /\ note = "nothing"
      /\ json = D!Unshown /\ act = D!Idle /\ told = "nothing" /\ homes = 0
      /\ placed = <<>> /\ table = D!Table
  BY DEF D!Init
<1>2. placed \in Seq([doc : Docs, state : States]) /\ Len(placed) = 0
  BY <1>1
<1>3. Len(table.rows) <= Len(placed)
  BY <1>1, <1>2, TableIsOfThePlaced
<1>4. json.of = None /\ act.at = "idle"
  BY <1>1 DEF D!Unshown, D!Idle
<1>5. homes \in 0 .. MaxHomes
  BY <1>1, ScreensAssumption
<1>6. D!TypeOK
  <2>1. fields \in DeclareForms /\ step \in 0 .. 2 /\ drawer \in BOOLEAN
    <3>1. fields \in DeclareForms
      BY <1>1, ScreensAssumption
    <3>2. step \in 0 .. 2
      BY <1>1
    <3>3. drawer \in BOOLEAN
      BY <1>1
    <3> QED
      BY <3>1, <3>2, <3>3
  <2>2. \A i \in 1 .. Len(placed) : placed[i].state \in {"open", "claimed", "done"}
    BY <1>2
  <2> QED
    BY <1>1, <1>3, <1>4, <1>5, <2>1, <2>2 DEF D!TypeOK
<1> QED
  BY <1>1, <1>2, <1>4, <1>6 DEF DeclareInv, ActInv, JsonInv

\* The form is as it was while its variables are.
LEMMA DeclareStand == ASSUME DeclareInv, UNCHANGED formVars PROVE DeclareInv'
<1>1. UNCHANGED <<fields, step, drawer, note, json, act, told, homes, placed, table>>
  BY DEF formVars
<1>2. D!TypeOK'
  BY <1>1 DEF DeclareInv, D!TypeOK
<1>3. ActInv' /\ JsonInv'
  BY <1>1 DEF DeclareInv, ActInv, UnderWayOn, JsonInv
<1> QED
  BY <1>1, <1>2, <1>3 DEF DeclareInv

\* The document of a form is for the home it names.
LEMMA DocOfIsDocWith == \A f : D!DocOf(f) = DocWith(f, f.home)
BY DEF D!DocOf, DocWith

\* What is kept of an act, whichever step it is at.
LEMMA ActIsOfItsForm ==
  ASSUME DeclareInv, act.at # "idle"
  PROVE  \E f \in DeclareForms : \E t \in HomesFor(f) :
            /\ UnderWayOn(f, t, act.at) /\ act.at \in {"home", "judge", "submit", "answer"}
            /\ act.form = f /\ act.doc = DocWith(f, t) /\ act.doc.topic = t
            /\ act.doc.persona = f.name /\ act.doc.schedule = f.schedule
            /\ act.at = "home" => f.home = None
<1>1. PICK f \in DeclareForms : \E t \in HomesFor(f), s \in {"home", "judge", "submit", "answer"} :
            UnderWayOn(f, t, s) /\ (s = "home" => f.home = None)
  BY DEF DeclareInv, ActInv, D!Idle
<1>2. PICK t \in HomesFor(f), s \in {"home", "judge", "submit", "answer"} :
            UnderWayOn(f, t, s) /\ (s = "home" => f.home = None)
  BY <1>1
<1>3. act.at = s /\ act.form = f /\ act.doc = DocWith(f, t)
  BY <1>2 DEF UnderWayOn
<1>4. /\ DocWith(f, t).topic = t /\ DocWith(f, t).persona = f.name
      /\ DocWith(f, t).schedule = f.schedule
  BY DEF DocWith
<1> QED
  BY <1>2, <1>3, <1>4

\* The form, the act that places its document, and the table.
LEMMA DeclareKeeps ==
  ASSUME DeclareInv, D!Next
  PROVE  DeclareInv'
<1> DEFINE Notes == {"nothing", "refused", "home comes later", "failed"}
           Lines == {"nothing", "declared", "declared in a new home"}
<1>1. /\ fields \in DeclareForms /\ step \in 0 .. 2 /\ drawer \in BOOLEAN /\ note \in Notes
      /\ told \in Lines /\ homes \in 0 .. MaxHomes /\ Len(table.rows) <= Len(placed)
      /\ placed \in Seq([doc : Docs, state : States]) /\ ActInv /\ JsonInv
  BY DEF DeclareInv, D!TypeOK
<1>2. placed \in Seq([doc : Docs, state : States]) /\ Len(placed) \in Nat
  BY LenProperties DEF DeclareInv
<1>3. homes \in Nat /\ MaxHomes \in Nat
  <2>1. homes \in 0 .. MaxHomes
    BY DEF DeclareInv, D!TypeOK
  <2>2. MaxHomes \in Nat
    BY ScreensAssumption
  <2> QED
    BY <2>1, <2>2
<1>4. ASSUME fields' \in DeclareForms, step' \in 0 .. 2, drawer' \in BOOLEAN, note' \in Notes,
             told' \in Lines, homes' \in 0 .. MaxHomes, Len(table'.rows) <= Len(placed'),
             placed' \in Seq([doc : Docs, state : States]), ActInv', JsonInv'
      PROVE  DeclareInv'
  <2>1. act'.at \in {"idle", "home", "judge", "submit", "answer"}
    <3>1. CASE act' = D!Idle
      BY <3>1 DEF D!Idle
    <3>2. CASE \E f \in DeclareForms : \E t \in HomesFor(f),
                  s \in {"home", "judge", "submit", "answer"} : UnderWayOn(f, t, s)'
      <4>1. PICK f \in DeclareForms : \E t \in HomesFor(f),
                  s \in {"home", "judge", "submit", "answer"} : UnderWayOn(f, t, s)'
        BY <3>2
      <4>2. PICK t \in HomesFor(f), s \in {"home", "judge", "submit", "answer"} :
                  UnderWayOn(f, t, s)'
        BY <4>1
      <4> QED
        BY <4>2 DEF UnderWayOn
    <3> QED
      BY <1>4, <3>1, <3>2 DEF ActInv
  <2>2. json'.of = None \/ (json'.of \in DeclareForms /\ json'.doc = D!DocOf(json'.of))
    BY <1>4 DEF JsonInv
  <2>3. \A i \in 1 .. Len(placed') : placed'[i].state \in {"open", "claimed", "done"}
    <3>1. \A i \in 1 .. Len(placed') : placed'[i] \in [doc : Docs, state : States]
      BY <1>4, ElementOfSeq
    <3> QED
      BY <3>1 DEF States
  <2>4. D!TypeOK'
    BY <1>4, <2>1, <2>2, <2>3 DEF D!TypeOK
  <2> QED
    BY <1>4, <2>4 DEF DeclareInv
<1>5. UNCHANGED act => ActInv'
  BY <1>1 DEF ActInv, UnderWayOn
<1>6. UNCHANGED json => JsonInv'
  BY <1>1 DEF JsonInv
<1>7. ASSUME NEW f \in DeclareForms, D!Fills(f) PROVE DeclareInv'
  <2>1. fields' = f /\ UNCHANGED <<step, drawer, json, note, act, told, homes, placed, table>>
    BY <1>7 DEF D!Fills
  <2> QED
    BY <1>1, <1>4, <1>5, <1>6, <2>1
<1>8. ASSUME NEW to \in 0 .. 2, D!Turns(to) PROVE DeclareInv'
  <2>1. step' = to /\ UNCHANGED <<fields, drawer, json, note, act, told, homes, placed, table>>
    BY <1>8 DEF D!Turns
  <2> QED
    BY <1>1, <1>4, <1>5, <1>6, <2>1
<1>9. CASE D!Toggles
  <2>1. drawer' \in BOOLEAN /\ UNCHANGED <<fields, step, json, note, act, told, homes, placed, table>>
    BY <1>9 DEF D!Toggles
  <2> QED
    BY <1>1, <1>4, <1>5, <1>6, <2>1
<1>10. CASE D!ShowsJSON
  <2>1. /\ note' = D!Judges(D!DocOf(fields))
        /\ json' = [doc |-> D!DocOf(fields), of |-> fields, said |-> note']
        /\ UNCHANGED <<fields, step, drawer, act, told, homes, placed, table>>
    BY <1>10 DEF D!ShowsJSON
  <2>2. note' \in Notes
    BY <2>1 DEF D!Judges
  <2>3. JsonInv'
    BY <1>1, <2>1 DEF JsonInv
  <2> QED
    BY <1>1, <1>4, <1>5, <2>1, <2>2, <2>3
<1>11. CASE D!Submits
  <2>1. /\ act' = [at |-> IF fields.home = None THEN "home" ELSE "judge",
                   form |-> fields, doc |-> D!DocOf(fields)]
        /\ UNCHANGED <<fields, step, drawer, json, note, told, homes, placed, table>>
    BY <1>11 DEF D!Submits, D!formVars
  <2>2. fields.home \in HomesFor(fields)
    BY DEF HomesFor
  <2>3. PICK s \in {"home", "judge", "submit", "answer"} :
            UnderWayOn(fields, fields.home, s)' /\ (s = "home" => fields.home = None)
    BY <2>1, DocOfIsDocWith DEF UnderWayOn
  <2>4. ActInv'
    BY <1>1, <2>1, <2>2, <2>3 DEF ActInv, UnderWayOn
  <2> QED
    BY <1>1, <1>4, <1>6, <2>1, <2>4
<1>12. ASSUME NEW f \in DeclareForms, NEW t \in HomesFor(f),
              NEW s \in {"judge", "submit", "answer"},
              act' = [at |-> s, form |-> f, doc |-> DocWith(f, t)]
       PROVE  ActInv'
  BY <1>12 DEF ActInv, UnderWayOn
<1>13. act' = D!Idle => ActInv'
  BY DEF ActInv
<1>14. CASE D!StartsHome
  <2>1. /\ act.at = "home" /\ homes < MaxHomes /\ homes' = homes + 1
        /\ act' = [act EXCEPT !.at = "judge", !.doc.topic = [new |-> homes + 1]]
        /\ UNCHANGED <<fields, step, drawer, json, note, told, placed, table>>
    BY <1>14 DEF D!StartsHome, D!formVars
  <2>2. PICK f \in DeclareForms : \E t \in HomesFor(f) : UnderWayOn(f, t, "home") /\ f.home = None
    BY <2>1, ActIsOfItsForm
  <2>3. PICK t \in HomesFor(f) : UnderWayOn(f, t, "home")
    BY <2>2
  <2>4. homes' \in 1 .. MaxHomes
    <3>1. homes \in 0 .. MaxHomes
      BY <1>1
    <3> QED
      BY <1>3, <2>1, <3>1
  <2>5. [new |-> homes + 1] \in HomesFor(f)
    BY <2>1, <2>2, <2>4 DEF HomesFor
  <2>6. act' = [at |-> "judge", form |-> f, doc |-> DocWith(f, [new |-> homes + 1])]
    BY <2>1, <2>3 DEF UnderWayOn, DocWith
  <2>7. ActInv'
    BY <1>12, <2>5, <2>6
  <2>8. homes' \in 0 .. MaxHomes
    BY <1>3, <2>4
  <2>9. Len(table'.rows) <= Len(placed') /\ placed' \in Seq([doc : Docs, state : States])
    BY <1>1, <2>1
  <2> QED
    BY <1>1, <1>4, <1>6, <2>1, <2>7, <2>8, <2>9
<1>15. ASSUME NEW says \in {"failed", "refused"}, D!Fails(says) PROVE DeclareInv'
  <2>1. /\ note' = says /\ act' = D!Idle
        /\ UNCHANGED <<fields, step, drawer, json, told, homes, placed, table>>
    BY <1>15 DEF D!Fails, D!formVars
  <2> QED
    BY <1>1, <1>4, <1>6, <1>13, <2>1
<1>16. CASE D!Passes
  <2>1. /\ act.at = "judge" /\ act' = [act EXCEPT !.at = "submit"]
        /\ UNCHANGED <<fields, step, drawer, json, note, told, homes, placed, table>>
    BY <1>16 DEF D!Passes, D!formVars
  <2>2. PICK f \in DeclareForms : \E t \in HomesFor(f) : UnderWayOn(f, t, "judge")
    BY <2>1, ActIsOfItsForm
  <2>3. PICK t \in HomesFor(f) : UnderWayOn(f, t, "judge")
    BY <2>2
  <2>4. act' = [at |-> "submit", form |-> f, doc |-> DocWith(f, t)]
    BY <2>1, <2>3 DEF UnderWayOn
  <2>5. ActInv'
    BY <1>12, <2>4
  <2> QED
    BY <1>1, <1>4, <1>6, <2>1, <2>5
<1>17. CASE D!Places
  <2>1. /\ act.at = "submit" /\ act' = [act EXCEPT !.at = "answer"]
        /\ placed' = Append(placed, [doc |-> act.doc, state |-> "open"])
        /\ UNCHANGED <<fields, step, drawer, json, note, told, homes, table>>
    BY <1>17 DEF D!Places, D!formVars
  <2>2. PICK f \in DeclareForms : \E t \in HomesFor(f) : UnderWayOn(f, t, "submit")
    BY <2>1, ActIsOfItsForm
  <2>3. PICK t \in HomesFor(f) : UnderWayOn(f, t, "submit")
    BY <2>2
  <2>4. /\ act' = [at |-> "answer", form |-> f, doc |-> DocWith(f, t)]
        /\ act.doc = DocWith(f, t)
    BY <2>1, <2>3 DEF UnderWayOn
  <2>5. ActInv'
    BY <1>12, <2>4
  <2>6. [doc |-> act.doc, state |-> "open"] \in [doc : Docs, state : States]
    BY <2>4 DEF Docs, States
  <2>7. placed' \in Seq([doc : Docs, state : States]) /\ Len(placed') = Len(placed) + 1
    BY <1>2, <2>1, <2>6
  <2>8. Len(table'.rows) <= Len(placed')
    <3>1. table' = table /\ Len(table.rows) <= Len(placed)
      BY <1>1, <2>1
    <3> QED
      BY <1>2, <2>7, <3>1
  <2> QED
    BY <1>1, <1>4, <1>6, <2>1, <2>5, <2>7, <2>8
<1>18. Len(D!Table.rows) <= Len(placed)
  BY <1>2, TableIsOfThePlaced
<1>19. CASE D!Answers
  <2>1. /\ drawer' = FALSE /\ note' = "nothing" /\ told' \in Lines
        /\ table' = D!Table /\ act' = D!Idle
        /\ UNCHANGED <<fields, step, json, homes, placed>>
    BY <1>19 DEF D!Answers
  <2> QED
    BY <1>1, <1>4, <1>6, <1>13, <1>18, <2>1
<1>20. ASSUME NEW i \in 1 .. Len(placed), NEW state \in {"claimed", "done"}, D!Moves(i, state)
       PROVE  DeclareInv'
  <2> DEFINE new == [placed[i] EXCEPT !.state = state]
  <2>1. /\ placed' = [placed EXCEPT ![i].state = state]
        /\ UNCHANGED <<fields, step, drawer, json, note, act, told, homes, table>>
    BY <1>20 DEF D!Moves, D!formVars
  <2>2. placed[i] \in [doc : Docs, state : States]
    BY <1>1, ElementOfSeq
  <2>3. new \in [doc : Docs, state : States] /\ placed' = [placed EXCEPT ![i] = new]
    BY <1>1, <2>1, <2>2 DEF States
  <2> HIDE DEF new
  <2>4. placed' \in Seq([doc : Docs, state : States]) /\ Len(placed') = Len(placed)
    BY <1>2, <2>3, ExceptSeq
  <2> QED
    BY <1>1, <1>4, <1>5, <1>6, <2>1, <2>4
<1>21. CASE D!Ticks
  <2>1. table' = D!Table /\ UNCHANGED <<fields, step, drawer, json, note, act, told, homes, placed>>
    BY <1>21 DEF D!Ticks, D!formVars
  <2> QED
    BY <1>1, <1>4, <1>5, <1>6, <1>18, <2>1
<1> QED
  BY <1>7, <1>8, <1>9, <1>10, <1>11, <1>14, <1>15, <1>16, <1>17, <1>19, <1>20, <1>21 DEF D!Next

\* A step of the act, of the form or of the table keeps to what was shown.
LEMMA WhatIsShownIsPlaced ==
  ASSUME DeclareInv, D!Next, json.of # None, json.of = act.form
  PROVE  /\ Len(placed') > Len(placed) =>
                D!Last(placed').doc = [json.doc EXCEPT !.topic = act.doc.topic]
         /\ act.at = "judge" /\ act' = D!Idle => json.said # "nothing"
         /\ act.at = "submit" => json.doc.topic \in {None, act.doc.topic}
<1>1. act.at # "idle"
  BY DEF DeclareInv, ActInv, UnderWayOn, D!Idle
<1>2. PICK f \in DeclareForms : \E t \in HomesFor(f) :
            /\ act.form = f /\ act.doc = DocWith(f, t) /\ act.doc.topic = t
            /\ act.doc.persona = f.name /\ act.doc.schedule = f.schedule
  BY <1>1, ActIsOfItsForm
<1>3. PICK t \in HomesFor(f) :
            /\ act.form = f /\ act.doc = DocWith(f, t) /\ act.doc.topic = t
            /\ act.doc.persona = f.name /\ act.doc.schedule = f.schedule
  BY <1>2
<1>4. /\ json.doc = DocWith(f, f.home) /\ json.doc.topic = f.home
      /\ json.doc.persona = f.name /\ json.doc.schedule = f.schedule
      /\ json.said = D!Judges(json.doc)
  <2>1. json.doc = D!DocOf(f) /\ json.said = D!Judges(json.doc)
    BY <1>3 DEF DeclareInv, JsonInv
  <2>2. json.doc = DocWith(f, f.home)
    BY <2>1, DocOfIsDocWith
  <2>3. /\ json.doc.topic = f.home /\ json.doc.persona = f.name
        /\ json.doc.schedule = f.schedule
    BY <2>2 DEF DocWith
  <2> QED
    BY <2>1, <2>2, <2>3
<1>5. f.home # None => t = f.home
  BY DEF HomesFor
<1>6. [json.doc EXCEPT !.topic = act.doc.topic] = act.doc
  BY <1>3, <1>4 DEF DocWith
<1>7. placed \in Seq([doc : Docs, state : States]) /\ Len(placed) \in Nat
  BY LenProperties DEF DeclareInv
<1>8. ASSUME Len(placed') > Len(placed) PROVE D!Last(placed').doc = act.doc
  <2>1. CASE D!Places
    <3> DEFINE new == [doc |-> act.doc, state |-> "open"]
    <3>1. placed' = Append(placed, new)
      BY <2>1 DEF D!Places
    <3>2. new \in [doc : Docs, state : States]
      BY <1>3 DEF Docs, States
    <3>3. Len(placed') = Len(placed) + 1 /\ placed'[Len(placed) + 1] = new
      BY <1>7, <3>1, <3>2
    <3> QED
      BY <3>3 DEF D!Last
  <2>2. CASE placed' = placed
    BY <1>7, <1>8, <2>2
  <2>3. ASSUME NEW i \in 1 .. Len(placed), NEW state \in {"claimed", "done"},
               D!Moves(i, state)
        PROVE  FALSE
    <3>1. placed' = [placed EXCEPT ![i].state = state]
      BY <2>3 DEF D!Moves
    <3>2. placed[i] \in [doc : Docs, state : States]
      BY <1>7, ElementOfSeq
    <3>3. [placed[i] EXCEPT !.state = state] \in [doc : Docs, state : States]
      BY <3>2 DEF States
    <3>4. placed' = [placed EXCEPT ![i] = [placed[i] EXCEPT !.state = state]]
      BY <1>7, <3>1
    <3>5. Len(placed') = Len(placed)
      BY <1>7, <3>3, <3>4, ExceptSeq
    <3> QED
      BY <1>7, <1>8, <3>5
  <2>4. \/ placed' = placed \/ D!Places
        \/ \E i \in 1 .. Len(placed), state \in {"claimed", "done"} : D!Moves(i, state)
    BY DEF D!Next, D!Fills, D!Turns, D!Toggles, D!ShowsJSON, D!Submits, D!StartsHome,
           D!Fails, D!Passes, D!Answers, D!Ticks, D!formVars
  <2> QED
    BY <2>1, <2>2, <2>3, <2>4
<1>9. ASSUME act.at = "judge", act' = D!Idle PROVE json.said # "nothing"
  <2>1. ~D!Accepted(act.doc)
    <3>1. act'.at = "idle"
      BY <1>9 DEF D!Idle
    <3>2. act' # act
      BY <1>9, <3>1
    <3>3. \E says \in {"failed", "refused"} : D!Fails(says)
      BY <1>9, <3>1, <3>2
      DEF D!Next, D!Fills, D!Turns, D!Toggles, D!ShowsJSON, D!Submits, D!StartsHome,
          D!Passes, D!Places, D!Answers, D!Ticks, D!Moves, D!formVars, D!Idle
    <3> QED
      BY <1>9, <3>3 DEF D!Fails
  <2>2. CASE f.home = None /\ f.name # None
    BY <1>4, <2>2 DEF D!Judges
  <2>3. CASE f.home # None \/ f.name = None
    <3>1. ~D!Accepted(json.doc)
      BY <1>3, <1>4, <1>5, <2>1, <2>3 DEF D!Accepted
    <3> QED
      BY <1>4, <2>3, <3>1 DEF D!Judges
  <2> QED
    BY <2>2, <2>3
<1> QED
  BY <1>3, <1>4, <1>5, <1>6, <1>8, <1>9
-----------------------------------------------------------------------------
(* Overview.  What a step leads to is read from what Home itself was.       *)

HouseAct == [does : O!Acts, tool : HouseTools, at : {"plane", "catalog", "done", "failed"}]

HomeInv == O!TypeOK /\ O!OverviewTypeOK

\* A first look has no list.
LEMMA HomeStart == O!Init /\ O!OverviewInit => HomeInv
<1> SUFFICES ASSUME O!Init, O!OverviewInit PROVE HomeInv
  OBVIOUS
<1>1. O!TypeOK
  BY DEF O!Init, O!TypeOK
<1>2. /\ house = {} /\ named = 0 /\ home = O!Away
      /\ \E p \in HousePeople : crew = {p}
  BY DEF O!OverviewInit
<1>3. /\ O!Away.who = O!Nobody /\ DOMAIN O!Away.steps = {} /\ O!Away.list = {}
  BY DEF O!Away
<1>4. O!OverviewTypeOK
  BY <1>2, <1>3 DEF O!OverviewTypeOK
<1> QED
  BY <1>1, <1>4 DEF HomeInv

\* The home page is as it was while its variables and the tools are.
LEMMA HomeStand == ASSUME HomeInv, UNCHANGED <<toolVars, houseVars>> PROVE HomeInv'
BY DEF HomeInv, toolVars, houseVars, O!TypeOK, O!OverviewTypeOK

\* The tools of the house keep their types.
LEMMA HouseToolsKeep ==
  ASSUME O!TypeOK, O!Next
  PROVE  O!TypeOK'
<1>1. /\ resources \in SUBSET (HouseTools \ HouseDeclared)
      /\ catalog \in [HouseTools -> O!Kinds \cup {"absent"}]
      /\ grants \in SUBSET (HousePeople \X HouseTools)
      /\ links \in SUBSET (HousePeople \X HouseTools)
      /\ doing \in [HouseAdmins -> {O!Idle} \cup HouseAct] /\ mixed \in SUBSET HouseAdmins
  BY DEF O!TypeOK, HouseAct
<1>2. ASSUME resources' \in SUBSET (HouseTools \ HouseDeclared),
             catalog' \in [HouseTools -> O!Kinds \cup {"absent"}],
             grants' \in SUBSET (HousePeople \X HouseTools),
             links' \in SUBSET (HousePeople \X HouseTools),
             doing' \in [HouseAdmins -> {O!Idle} \cup HouseAct],
             mixed' \in SUBSET HouseAdmins
      PROVE  O!TypeOK'
  BY <1>2 DEF O!TypeOK, HouseAct
<1>3. ASSUME NEW p \in HousePeople, NEW n \in HouseTools, O!Connects(p, n) \/ O!Disconnects(p, n)
      PROVE  O!TypeOK'
  BY <1>1, <1>2, <1>3 DEF O!Connects, O!Disconnects
<1>4. ASSUME NEW p \in HousePeople, NEW link \in links, O!ComesBack(p, link)
      PROVE  O!TypeOK'
  BY <1>1, <1>2, <1>4 DEF O!ComesBack
<1>5. ASSUME NEW a \in HouseAdmins, NEW does \in O!Acts, NEW n \in HouseTools,
             O!Begins(a, does, n)
      PROVE  O!TypeOK'
  <2> DEFINE new == [does |-> does, tool |-> n,
                     at |-> IF does = "add workload" THEN "catalog" ELSE "plane"]
  <2>1. /\ doing' = [doing EXCEPT ![a] = new] /\ mixed' = mixed \ {a}
        /\ UNCHANGED <<resources, catalog, grants, links>>
    BY <1>5 DEF O!Begins
  <2>2. new \in HouseAct
    BY DEF HouseAct
  <2>3. doing' \in [HouseAdmins -> {O!Idle} \cup HouseAct]
    BY <1>1, <2>1, <2>2
  <2> QED
    BY <1>1, <1>2, <2>1, <2>3
<1>6. ASSUME NEW a \in HouseAdmins, O!Answers(a) PROVE O!TypeOK'
  <2>1. /\ doing' = [doing EXCEPT ![a] = O!Idle] /\ mixed' = mixed \ {a}
        /\ UNCHANGED <<resources, catalog, grants, links>>
    BY <1>6 DEF O!Answers
  <2>2. doing' \in [HouseAdmins -> {O!Idle} \cup HouseAct]
    BY <1>1, <2>1
  <2> QED
    BY <1>1, <1>2, <2>1, <2>2
<1>7. ASSUME NEW a \in HouseAdmins,
             \/ O!AddsResource(a) \/ O!RemovesResource(a) \/ O!PlaneFails(a)
             \/ O!WritesCatalog(a) \/ O!CatalogFails(a)
      PROVE  O!TypeOK'
  <2>1. PICK to \in {"catalog", "done", "failed"} : doing' = [doing EXCEPT ![a].at = to]
    BY <1>7 DEF O!AddsResource, O!RemovesResource, O!PlaneFails, O!WritesCatalog,
                O!CatalogFails, O!Goes
  <2>2. doing[a].at # "idle"
    BY <1>7 DEF O!AddsResource, O!RemovesResource, O!PlaneFails, O!WritesCatalog,
                O!CatalogFails, O!Goes
  <2>3. doing[a] \in HouseAct
    BY <1>1, <2>2 DEF O!Idle
  <2>4. [doing[a] EXCEPT !.at = to] \in HouseAct /\ doing[a].tool \in HouseTools
        /\ doing[a].does \in O!Acts
    BY <2>3 DEF HouseAct
  <2>5. doing' \in [HouseAdmins -> {O!Idle} \cup HouseAct]
    BY <1>1, <2>1, <2>4
  <2>6. O!KindWritten[doing[a].does] \in O!Kinds \cup {"absent"}
    BY <2>4 DEF O!KindWritten, O!Acts, O!Kinds
  <2>7. /\ UNCHANGED <<grants, links>> /\ O!Touches(a)
        /\ \/ resources' = resources
           \/ resources' = resources \cup ({doing[a].tool} \ HouseDeclared)
           \/ resources' = resources \ {doing[a].tool}
        /\ \/ catalog' = catalog
           \/ catalog' = [catalog EXCEPT ![doing[a].tool] = O!KindWritten[doing[a].does]]
    BY <1>7 DEF O!AddsResource, O!RemovesResource, O!PlaneFails, O!WritesCatalog, O!CatalogFails
  <2>8. mixed' \in SUBSET HouseAdmins
    BY <1>1, <2>7 DEF O!Touches
  <2>9. resources' \in SUBSET (HouseTools \ HouseDeclared)
    BY <1>1, <2>4, <2>7
  <2>10. catalog' \in [HouseTools -> O!Kinds \cup {"absent"}]
    BY <1>1, <2>6, <2>7
  <2> QED
    BY <1>1, <1>2, <2>5, <2>7, <2>8, <2>9, <2>10
<1> QED
  BY <1>3, <1>4, <1>5, <1>6, <1>7 DEF O!Next

\* A card lists steps, and of the board what is not hidden.
LEMMA HomeIsHome ==
  ASSUME house \subseteq HouseRooms, NEW p, NEW answers
  PROVE  /\ O!Home(p, answers).who = p
         /\ DOMAIN O!Home(p, answers).steps \subseteq O!StepNames
         /\ O!Home(p, answers).list \subseteq HouseRooms \ HouseHidden
<1> DEFINE v == O!Observed(answers)
           f == O!StepFacts(p, answers, v)
<1>1. v.board \subseteq HouseRooms
  BY DEF O!Observed
<1>2. DOMAIN O!Card(f) \subseteq O!StepNames
  <2>1. O!Steps(f) \subseteq O!StepNames
    BY DEF O!Steps, O!StepNames
  <2>2. DOMAIN O!Card(f) = {} \/ DOMAIN O!Card(f) = O!Steps(f)
    BY DEF O!Card
  <2> QED
    BY <2>1, <2>2
<1>3. O!Home(p, answers) =
        [who |-> p, steps |-> O!Card(f), talking |-> O!TalkingTile(v),
         agents |-> O!AgentsTile(v),
         list |-> IF v.err THEN {} ELSE v.board \ HouseHidden, slideOver |-> ~v.err]
  BY DEF O!Home
<1> HIDE DEF v, f
<1> QED
  BY <1>1, <1>2, <1>3

\* The pages of the house, and the acts on tools beside them.
LEMMA HomeKeeps ==
  ASSUME HomeInv, O!OverviewNext
  PROVE  HomeInv'
<1>1. /\ house \subseteq HouseRooms /\ named \in 0 .. 1 /\ crew \subseteq HousePeople
      /\ home.who \in HousePeople \cup {O!Nobody} /\ DOMAIN home.steps \subseteq O!StepNames
      /\ home.list \subseteq HouseRooms \ HouseHidden /\ O!TypeOK
  BY DEF HomeInv, O!OverviewTypeOK
<1>2. CASE O!Next /\ UNCHANGED O!homeVars
  <2>1. O!TypeOK'
    BY <1>1, <1>2, HouseToolsKeep
  <2> QED
    BY <1>1, <1>2, <2>1 DEF HomeInv, O!OverviewTypeOK, O!homeVars, O!houseVars
<1>3. ASSUME UNCHANGED O!vars PROVE O!TypeOK'
  BY <1>1, <1>3 DEF O!TypeOK, O!vars
<1>4. CASE O!House
  <2>1. /\ house' \subseteq HouseRooms /\ named' \in 0 .. 1 /\ crew' \subseteq HousePeople
        /\ UNCHANGED <<O!vars, home>>
    BY <1>1, <1>4 DEF O!House, O!RoomStarts, O!AgentNamed, O!SignsUp
  <2> QED
    BY <1>1, <1>3, <2>1 DEF HomeInv, O!OverviewTypeOK
<1>5. ASSUME NEW p \in crew, NEW answers, O!Serves(p, answers) PROVE HomeInv'
  <2>1. home' = O!Home(p, answers) /\ UNCHANGED <<O!vars, house, named, crew>>
    BY <1>5 DEF O!Serves, O!houseVars
  <2>2. /\ home'.who = p /\ DOMAIN home'.steps \subseteq O!StepNames
        /\ home'.list \subseteq HouseRooms \ HouseHidden
    BY <1>1, <2>1, HomeIsHome
  <2> QED
    BY <1>1, <1>3, <2>1, <2>2 DEF HomeInv, O!OverviewTypeOK
<1>6. CASE O!Leaves
  <2>1. home' = O!Away /\ UNCHANGED <<O!vars, house, named, crew>>
    BY <1>6 DEF O!Leaves, O!houseVars
  <2>2. home'.who = O!Nobody /\ DOMAIN home'.steps = {} /\ home'.list = {}
    BY <2>1 DEF O!Away
  <2> QED
    BY <1>1, <1>3, <2>1, <2>2 DEF HomeInv, O!OverviewTypeOK
<1> QED
  BY <1>2, <1>4, <1>5, <1>6 DEF O!OverviewNext

\* This module counts as well.
LEMMA HouseCount == \A S : O!Cardinality(S) = Cardinality(S)
BY DEF O!Cardinality, Cardinality

\* Where every read answers and no tool stands with one half of the two, a step
\* that is listed and not done is one that can be taken.
LEMMA StepIsADoor ==
  ASSUME O!Standing, NEW p, NEW s \in DOMAIN O!Home(p, O!Reads).steps,
         ~O!Home(p, O!Reads).steps[s]
  PROVE  O!Takable(s, p, O!Home(p, O!Reads))
<1> DEFINE v == O!Observed(O!Reads)
           f == O!StepFacts(p, O!Reads, v)
<1>1. ~v.err
  BY DEF O!Observed, O!Reads
<1>2. /\ O!Home(p, O!Reads).steps = O!Card(f)
      /\ O!Home(p, O!Reads).slideOver = ~v.err
  BY DEF O!Home
<1>3. /\ f.admin = (p \in HouseStaff) /\ f.toolsKnown = TRUE
      /\ f.remote = Cardinality(O!Services)
      /\ f.connected = (/\ p \notin HouseStaff /\ Cardinality(O!Services) > 0
                        /\ \E n \in HouseTools : <<p, n>> \in grants)
  BY HouseCount DEF O!StepFacts, O!Reads
<1> HIDE DEF v, f
<1>4. s \in O!Steps(f) /\ ~O!Done(f, s)
  BY <1>2 DEF O!Card
<1>5. CASE s # "tool"
  BY <1>1, <1>2, <1>5 DEF O!Takable
<1>6. CASE s = "tool"
  <2>1. f.admin \/ f.remote > 0
    BY <1>4, <1>6 DEF O!Steps
  <2>2. ~f.admin => ~f.connected
    BY <1>4, <1>6 DEF O!Done
  <2>3. CASE p \in HouseStaff
    BY <1>6, <2>3 DEF O!Takable
  <2>4. CASE p \notin HouseStaff
    <3>1. Cardinality(O!Services) > 0 /\ \A n \in HouseTools : <<p, n>> \notin grants
      BY <1>3, <2>1, <2>2, <2>4
    <3>2. O!Services # {}
      BY <3>1, FS_EmptySet
    <3>3. PICK n \in HouseTools : O!Row(n) = "remote"
      BY <3>2 DEF O!Services
    <3>4. O!OnPlane(n)
      BY <3>3 DEF O!Standing, O!Row
    <3>5. O!OfferedTo(p, n) = {"connect"}
      BY <3>1, <3>3, <3>4 DEF O!OfferedTo
    <3> QED
      BY <1>6, <3>5 DEF O!Takable
  <2> QED
    BY <2>3, <2>4
<1> QED
  BY <1>5, <1>6
-----------------------------------------------------------------------------
(* The screens together.  A screen keeps what it needs while it is the one  *)
(* that is followed; nothing of it moves while another is.                  *)

DeskInv ==
    /\ desk \in {"tools", "home", "models", "people", "room", "agents", "declare", "rail"}
    /\ desk = "tools" => ToolsInv
    /\ desk = "home" => HomeInv
    /\ desk = "models" => ModelsInv
    /\ desk = "people" => AdminInv
    /\ desk = "room" => RoomInv
    /\ desk = "agents" => AgentsInv
    /\ desk = "declare" => DeclareInv
    /\ desk = "rail" => RailInv

\* Whichever screen is followed begins well.
LEMMA DeskStart == Init => DeskInv
BY ToolsStart, HomeStart, ModelsStart, AdminStart, RoomStart, AgentsStart, DeclareStart,
   RailStart DEF Init, DeskInv

\* Every step is one of the followed screen, and keeps its invariant.
LEMMA DeskKeeps == DeskInv /\ [Next]_vars => DeskInv'
<1> SUFFICES ASSUME DeskInv, [Next]_vars PROVE DeskInv'
  OBVIOUS
<1>1. CASE UNCHANGED vars
  <2>1. /\ desk' = desk
        /\ UNCHANGED <<toolVars, houseVars>> /\ UNCHANGED modelVars /\ UNCHANGED adminVars
        /\ UNCHANGED roomVars /\ UNCHANGED agentVars /\ UNCHANGED formVars
        /\ UNCHANGED railVars
    BY <1>1 DEF vars
  <2>2. desk = "tools" => ToolsInv'
    <3>1. /\ UNCHANGED <<resources, catalog, doing, mixed>> /\ grants' = grants
          /\ links' = links
      BY <2>1 DEF toolVars
    <3>2. ToolsInv => /\ grants \in SUBSET (ToolPeople \X ToolNames)
                      /\ links \in SUBSET (ToolPeople \X ToolNames)
      BY DEF ToolsInv, T!TypeOK
    <3> QED
      BY <3>1, <3>2, ToolsStand DEF DeskInv
  <2> QED
    BY <2>1, <2>2, HomeStand, ModelsStand, AdminStand, RoomStand, AgentsStand,
       DeclareStand, RailStand DEF DeskInv
<1>2. CASE ToolsNext
  BY <1>2, ToolsKeep DEF ToolsNext, DeskInv
<1>3. CASE HomeNext
  BY <1>3, HomeKeeps DEF HomeNext, DeskInv
<1>4. CASE ModelsNext
  BY <1>4, ModelsKeep DEF ModelsNext, DeskInv
<1>5. CASE PeopleNext
  BY <1>5, AdminKeeps DEF PeopleNext, DeskInv
<1>6. CASE RoomNext
  BY <1>6, RoomKeeps DEF RoomNext, DeskInv
<1>7. CASE AgentsNext
  BY <1>7, AgentsKeep DEF AgentsNext, DeskInv
<1>8. CASE DeclareNext
  BY <1>8, DeclareKeeps DEF DeclareNext, DeskInv
<1>9. CASE RailNext
  BY <1>9, RailKeeps DEF RailNext, DeskInv
<1> QED
  BY <1>1, <1>2, <1>3, <1>4, <1>5, <1>6, <1>7, <1>8, <1>9 DEF Next

\* The invariant of the followed screen, always.
LEMMA DeskAlways == Spec => []DeskInv
BY DeskStart, DeskKeeps, PTL DEF Spec

\* Every screen keeps its types.
THEOREM TypeCorrect == Spec => []TypeOK
<1>1. DeskInv => TypeOK
  BY DEF DeskInv, TypeOK, ToolsInv, HomeInv, ModelsInv, AdminInv, RoomInv, AgentsInv,
         DeclareInv, RailInv
<1> QED
  BY <1>1, DeskAlways, PTL

\* Support.AddRemoteTool and RemoveTool: an act on a tool that is said to be
\* done has left both halves as it says.
THEOREM AlwaysSaidMeansDone == Spec => []SaidMeansDone
<1>1. DeskInv => SaidMeansDone
  BY DEF DeskInv, SaidMeansDone, T!SaidMeansDone, ToolsInv, AllDone
<1> QED
  BY <1>1, DeskAlways, PTL

\* formPanel, edit and actSet: a form served from a standing entry and saved sends
\* that entry, unless a field the act reads holds what somebody typed.
THEOREM AlwaysUntouchedSaysTheSame == Spec => []UntouchedSaysTheSame
<1>1. DeskInv => UntouchedSaysTheSame
  BY FilledIsSaid DEF DeskInv, UntouchedSaysTheSame
<1> QED
  BY <1>1, DeskAlways, PTL

\* patchList and patchClients: with nothing under way, and no excuse, the lists
\* of people and of applications are what the sign-in surface holds.
THEOREM ListsAreAlwaysTrueInTurn == Spec => []ListsAreTrueInTurn
<1>1. DeskInv => ListsAreTrueInTurn
  BY DEF DeskInv, ListsAreTrueInTurn, A!ListsAreTrueInTurn, AdminInv, InTurn
<1> QED
  BY <1>1, DeskAlways, PTL

\* renderCredential, actCredential and actRevoke: a credential on the screen is
\* one its agent gets in with, in every block, until the act that takes it away
\* is answered; the acts of a person may overlap.
THEOREM CardAlwaysAdmits == Spec => []CardAdmits
<1>1. AgentsInv => G!CardAdmits
  BY DEF AgentsInv, CardStands, G!CardAdmits
<1>2. DeskInv => CardAdmits
  BY <1>1 DEF DeskInv, CardAdmits
<1> QED
  BY <1>2, DeskAlways, PTL

\* renderRail and spineTally: every message that is counted is on a row or in
\* the line of the rooms, once.
THEOREM CountAlwaysLandsSomewhere == Spec => []CountLandsSomewhere
<1>1. DeskInv => CountLandsSomewhere
  BY DEF DeskInv, CountLandsSomewhere, RailInv
<1> QED
  BY <1>1, DeskAlways, PTL

\* deriveSteps: a step nobody on this session could take is never listed.
THEOREM StepsAreAlwaysDoorsInTurn == Spec => StepsAreDoorsInTurn
<1>1. [Next]_vars =>
        [home' # O!Away /\ home' = O!Home(home'.who, O!Reads) /\ O!Standing =>
            \A s \in DOMAIN home'.steps :
                home'.steps[s] \/ O!Takable(s, home'.who, home')]_home
  <2> SUFFICES ASSUME home' = O!Home(home'.who, O!Reads), O!Standing,
                      NEW s \in DOMAIN home'.steps, ~home'.steps[s]
               PROVE  O!Takable(s, home'.who, home')
    OBVIOUS
  <2> DEFINE whose == home'.who
  <2>1. home' = O!Home(whose, O!Reads)
    OBVIOUS
  <2> HIDE DEF whose
  <2>2. O!Takable(s, whose, home')
    BY <2>1, StepIsADoor
  <2> QED
    BY <2>2 DEF whose
<1> QED
  BY <1>1, PTL DEF Spec, StepsAreDoorsInTurn, O!StepsAreDoorsInTurn

\* roomRead: marks are taken off the tray by a reading of their own room, and
\* the page that comes of it is that room's, unless the page was left meanwhile.
THEOREM ClearedIsAlwaysTheRoomShown == Spec => ClearedIsTheRoomShown
<1>1. DeskInv /\ [Next]_vars =>
        [\A r \in AgentRooms : marks[r] \ marks'[r] # {} =>
            (screen' # None /\ screen'.home = r) \/ r \in left \ left']_R!vars
  <2> SUFFICES ASSUME DeskInv, [Next]_vars
               PROVE  \/ \A r \in AgentRooms : marks[r] \ marks'[r] # {} =>
                              (screen' # None /\ screen'.home = r) \/ r \in left \ left'
                      \/ UNCHANGED R!vars
    OBVIOUS
  <2>1. CASE RoomNext
    BY <2>1, RoomKeeps DEF RoomNext, DeskInv
  <2>2. CASE UNCHANGED roomVars
    BY <2>2 DEF roomVars, R!vars, R!record
  <2>3. RoomNext \/ UNCHANGED roomVars
    BY DEF Next, vars, ToolsNext, HomeNext, ModelsNext, PeopleNext, AgentsNext, DeclareNext,
           RailNext
  <2> QED
    BY <2>1, <2>2, <2>3
<1> QED
  BY <1>1, DeskAlways, PTL DEF Spec, ClearedIsTheRoomShown, R!ClearedIsTheRoomShown

\* declareJSON and actDeclare: what is shown and what is placed are the same
\* thing, but for the home.
THEOREM ShownIsAlwaysPlaced == Spec => ShownIsPlaced
<1> DEFINE Kept ==
        json.of # None /\ json.of = act.form =>
            /\ Len(placed') > Len(placed) =>
                D!Last(placed').doc = [json.doc EXCEPT !.topic = act.doc.topic]
            /\ act.at = "judge" /\ act' = D!Idle => json.said # "nothing"
            /\ act.at = "submit" => json.doc.topic \in {None, act.doc.topic}
<1>1. DeskInv /\ [Next]_vars => [Kept]_D!vars
  <2> SUFFICES ASSUME DeskInv, [Next]_vars PROVE Kept \/ UNCHANGED D!vars
    OBVIOUS
  <2>1. CASE DeclareNext
    BY <2>1, WhatIsShownIsPlaced DEF DeclareNext, DeskInv
  <2>2. CASE UNCHANGED formVars
    BY <2>2 DEF formVars, D!vars, D!formVars
  <2>3. DeclareNext \/ UNCHANGED formVars
    BY DEF Next, vars, ToolsNext, HomeNext, ModelsNext, PeopleNext, RoomNext, AgentsNext,
           RailNext
  <2> QED
    BY <2>1, <2>2, <2>3
<1> QED
  BY <1>1, DeskAlways, PTL DEF Spec, ShownIsPlaced, D!ShownIsPlaced
=============================================================================
