------------------------------ MODULE Placements -----------------------------
(***************************************************************************)
(* Placing an agent (modules/agents/declare.go actDeclare, soulstream/     *)
(* declare.go) and the watch that reads placements back (watch.go).  The   *)
(* topic placements are kept on is known by its NAME only; a Declare that  *)
(* does not find it on the board starts it, and the board is a projection  *)
(* that runs behind the record.                                            *)
(*                                                                         *)
(* A topic is known by its path, its place among all topics ever started;  *)
(* several may bear one name.  Path 0 is none.                             *)
(***************************************************************************)
EXTENDS Naturals, Sequences, FiniteSets, SequencesExt

CONSTANTS
    Acts,           \* handlers of the declare act
    Agents,         \* names of agents, which their new homes bear
    PlacementsName, \* Config.PlacementsTopic
    Hall,           \* the name of an ordinary conversation, started before
    MaxLapses       \* how often a follow ends with an error (bound)

\* Assumed of the constants by whoever instantiates this module; nothing keeps
\* an agent, or a conversation, from bearing the name of the placements topic.
PlacementsAssumption == MaxLapses \in Nat

VARIABLES
    topics,     \* the record: the names of the topics, by path
    items,      \* the record: the placements, <<[agent, home, on]>> in order
    at,         \* where each act stands
    form,       \* what it declares: [agent, home]
    path,       \* the placements topic it resolved
    list,       \* the placements its answer listed
    watch,      \* where runWatch stands
    board,      \* how many topics the board follower knows
    watched,    \* watchState.placementsPath
    placements, \* watchState.placements: how far it knows the items
    lapses,     \* follows that ended (bounded by MaxLapses)
    raced       \* has an act read a board that was behind the record, or
                \* resolved the name while another was starting it?

recordVars == <<topics, items>>
actVars == <<at, form, path, list, raced>>
watchVars == <<watch, board, watched, placements, lapses>>
vars == <<recordVars, actVars, watchVars>>

Paths == 0 .. Len(topics)
Forms == [agent : Agents, home : Paths]
ActAt == {"new", "home", "judge", "resolve", "start", "submit", "declared",
          "answered", "failed"}

TypeOK ==
    /\ topics \in Seq(Agents \cup {PlacementsName, Hall})
    /\ items \in Seq([agent : Agents, home : Paths \ {0}, on : Paths \ {0}])
    /\ at \in [Acts -> ActAt]
    /\ form \in [Acts -> Forms]
    /\ path \in [Acts -> Paths]
    /\ list \in [Acts -> SUBSET (1 .. Len(items))]
    /\ watch \in {"cold", "resolving", "opening", "following", "waiting"}
    /\ board \in Paths
    /\ watched \in Paths
    /\ placements \in 0 .. Len(items)
    /\ lapses \in 0 .. MaxLapses
    /\ raced \in BOOLEAN

Init ==
    /\ topics = <<Hall>>
    /\ items = <<>>
    /\ at = [a \in Acts |-> "new"]
    /\ form \in [Acts -> [agent : Agents, home : {0, 1}]]
    /\ path = [a \in Acts |-> 0]
    /\ list = [a \in Acts |-> {}]
    /\ watch = "cold"
    /\ board = 0
    /\ watched = 0
    /\ placements = 0
    /\ lapses = 0
    /\ raced = FALSE

-----------------------------------------------------------------------------
(* Reading. *)

\* Support.Board: the projection, or one read of the record before there is
\* one.
Board == IF watch = "cold" THEN topics ELSE SubSeq(topics, 1, board)

Behind == Len(Board) < Len(topics)

\* placementsPath and resolvePlacements: the first topic bearing the name.
PlacementsPath == SelectInSeq(Board, LAMBDA name : name = PlacementsName)

On(p) == {i \in 1 .. Len(items) : items[i].on = p}

\* Support.Declared: read from the record each time.
Declared == IF PlacementsPath = 0 THEN {} ELSE On(PlacementsPath)

\* What the watch knows of the topic it follows.
Watched == {i \in On(watched) : i <= placements}

\* Support.Machinery: the topics the lists of conversations leave out.
Machinery == ({watched} \ {0}) \cup {items[i].home : i \in Watched}

NewestHome(known, agent) ==
    LET of == {i \in known : items[i].agent = agent}
    IN  IF of = {} THEN 0
        ELSE items[CHOOSE i \in of : \A j \in of : j <= i].home

\* Support.HomeOf: the room a message to the agent is posted in.
HomeOf(agent) == NewestHome(Watched, agent)

\* roomRead: the room the agent's screen shows.
RoomShown(agent) == NewestHome(Declared, agent)

-----------------------------------------------------------------------------
(* actDeclare and Session.Declare. *)

\* Is an act about to start the placements topic, having found none?
Starting == \E b \in Acts : at[b] = "start"

Goes(a, from, to) ==
    /\ at[a] = from
    /\ at' = [at EXCEPT ![a] = to]

\* The form arrives.
Submitted(a) ==
    /\ Goes(a, "new", IF form[a].home = 0 THEN "home" ELSE "judge")
    /\ UNCHANGED <<recordVars, form, path, list, raced, watchVars>>

\* A home left as "a new one" is started, named after the agent.
StartsHome(a) ==
    /\ Goes(a, "home", "judge")
    /\ topics' = Append(topics, form[a].agent)
    /\ form' = [form EXCEPT ![a].home = Len(topics) + 1]
    /\ raced' = (raced \/ (form[a].agent = PlacementsName /\ Starting))
    /\ UNCHANGED <<items, path, list, watchVars>>

\* Validate.
Judged(a) ==
    /\ Goes(a, "judge", "resolve")
    /\ UNCHANGED <<recordVars, form, path, list, raced, watchVars>>

\* The document is refused, or a call fails; what was started stays started.
Fails(a) ==
    /\ \E s \in {"home", "judge", "resolve", "start", "submit"} : Goes(a, s, "failed")
    /\ UNCHANGED <<recordVars, form, path, list, raced, watchVars>>

\* Faulty variant of Resolves: the topic is started by every act.
ResolvesNone(a) ==
    /\ Goes(a, "resolve", "start")
    /\ raced' = (raced \/ Behind \/ Starting)
    /\ UNCHANGED <<recordVars, form, path, list, watchVars>>

\* The placements topic is looked for on the board.
Resolves(a) ==
    /\ Goes(a, "resolve", IF PlacementsPath = 0 THEN "start" ELSE "submit")
    /\ path' = [path EXCEPT ![a] = PlacementsPath]
    /\ raced' = (raced \/ Behind \/ Starting)
    /\ UNCHANGED <<recordVars, form, list, watchVars>>

\* It is not there: it is started.
StartsPlacements(a) ==
    /\ Goes(a, "start", "submit")
    /\ topics' = Append(topics, PlacementsName)
    /\ path' = [path EXCEPT ![a] = Len(topics) + 1]
    /\ UNCHANGED <<items, form, list, raced, watchVars>>

\* Faulty variant of Submits: the document goes out as it was typed.
SubmitsTyped(a) ==
    /\ Goes(a, "submit", "declared")
    /\ items' = Append(items, [agent |-> form[a].agent, home |-> 0, on |-> path[a]])
    /\ UNCHANGED <<topics, form, path, list, raced, watchVars>>

\* fleet.Submit opens the placement as a work item.
Submits(a) ==
    /\ Goes(a, "submit", "declared")
    /\ items' = Append(items, [agent |-> form[a].agent, home |-> form[a].home,
                               on |-> path[a]])
    /\ UNCHANGED <<topics, form, path, list, raced, watchVars>>

\* patchDeclared: the placed agents as they now stand.
Answers(a) ==
    /\ Goes(a, "declared", "answered")
    /\ list' = [list EXCEPT ![a] = Declared]
    /\ raced' = (raced \/ Behind)
    /\ UNCHANGED <<recordVars, form, path, watchVars>>

-----------------------------------------------------------------------------
(* runWatch. *)

\* FollowBoard answers: the projection holds what the record held.
FollowsBoard ==
    /\ watch = "cold"
    /\ watch' = "resolving"
    /\ board' = Len(topics)
    /\ UNCHANGED <<recordVars, actVars, watched, placements, lapses>>

\* An announcement reaches the projection.
BoardLearns ==
    /\ watch # "cold"
    /\ board < Len(topics)
    /\ board' = board + 1
    /\ UNCHANGED <<recordVars, actVars, watch, watched, placements, lapses>>

\* The topic is found, and from then on known.
FollowsPlacements ==
    /\ watch = "resolving"
    /\ PlacementsPath # 0
    /\ watch' = "opening"
    /\ watched' = PlacementsPath
    /\ UNCHANGED <<recordVars, actVars, board, placements, lapses>>

\* Follow begins with the topic as the record has it,
Materialises ==
    /\ watch = "opening"
    /\ watch' = "following"
    /\ placements' = Len(items)
    /\ UNCHANGED <<recordVars, actVars, board, watched, lapses>>

\* and applies each placement as it comes.
PlacementLearned ==
    /\ watch = "following"
    /\ placements < Len(items)
    /\ placements' = placements + 1
    /\ UNCHANGED <<recordVars, actVars, watch, board, watched, lapses>>

\* A follow, or the attempt at one, ends.
Ends ==
    /\ watch \in {"opening", "following"}
    /\ lapses < MaxLapses
    /\ lapses' = lapses + 1
    /\ watch' = "waiting"
    /\ UNCHANGED <<recordVars, actVars, board, watched>>

\* Faulty variant of FollowEnds: what was known goes with the follow.
FollowEndsForgetting == Ends /\ placements' = 0

\* Follow ends with an error: two seconds' wait; what was known stays.
FollowEnds == Ends /\ UNCHANGED placements

\* Faulty variant of WatchesAgain: it does not.
WatchesNoMore == watch = "waiting" /\ UNCHANGED vars

\* And the topic is resolved anew.
WatchesAgain ==
    /\ watch = "waiting"
    /\ watch' = "resolving"
    /\ UNCHANGED <<recordVars, actVars, board, watched, placements, lapses>>

-----------------------------------------------------------------------------
Act(a) ==
    \/ Submitted(a) \/ StartsHome(a) \/ Judged(a) \/ Fails(a) \/ Resolves(a)
    \/ StartsPlacements(a) \/ Submits(a) \/ Answers(a)

Watch ==
    \/ FollowsBoard \/ BoardLearns \/ FollowsPlacements \/ Materialises
    \/ PlacementLearned \/ FollowEnds \/ WatchesAgain

Next == (\E a \in Acts : Act(a)) \/ Watch

Spec == Init /\ [][Next]_vars

\* The watch's goroutine runs on, and what is written reaches it.
Fairness ==
    /\ WF_vars(FollowsBoard) /\ WF_vars(BoardLearns)
    /\ WF_vars(FollowsPlacements) /\ WF_vars(Materialises)
    /\ WF_vars(PlacementLearned) /\ WF_vars(WatchesAgain)

FairSpec == Spec /\ Fairness

-----------------------------------------------------------------------------
(* What must hold. *)

\* "Declared lists every agent placed on this deployment", once the board has
\* caught up with the record.
EveryPlacementIsListed ==
    ~Behind => Declared = 1 .. Len(items)

\* "Its line below says where it stands": the answer to a Declare that
\* succeeded lists what it placed.
LineIsBelow ==
    \A a \in Acts : at[a] = "answered" =>
        \E i \in list[a] : items[i].agent = form[a].agent /\ items[i].home = form[a].home

\* Both hold as long as no Declare, at its resolving or at its answer, looked at
\* a board that was behind, and none resolved, nor began a home of that very
\* name, while another was starting the topic.
ListedInTurn == ~raced => EveryPlacementIsListed /\ LineIsBelow

\* The room a message is posted in comes to be the room the screen shows: the
\* watch catches up with what is read from the record.
RoomsAgree == \A g \in Agents : <>[](HomeOf(g) = RoomShown(g))

\* "Submission is additive and nothing un-places": a room once left out of the
\* lists of conversations stays out, and nothing once declared goes from what the
\* record is read for; whichever topic of the name is resolved, however far the
\* board is behind and however often the follow ends.
NothingUnplaces ==
    [][Machinery \subseteq Machinery' /\ Declared \subseteq Declared']_vars
=============================================================================
