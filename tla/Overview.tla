------------------------------ MODULE Overview ------------------------------
(***************************************************************************)
(* The Home screen (modules/overview) over a house that fills up: the      *)
(* tools (module Tools), the rooms on the board, the agents named and the  *)
(* people who can sign in.  Home is read once, when it is asked for, any   *)
(* of its reads may go unanswered, and nothing is kept: the first steps    *)
(* are derived from what was read.                                         *)
(***************************************************************************)
EXTENDS Tools, FiniteSets

CONSTANTS
    Staff,      \* the people whose token administers
    Rooms,      \* paths on the board
    Hidden,     \* those of them that are the record's own rooms
    MaxUnread   \* bound: reads of one Home that go unanswered

VARIABLES
    board,      \* the rooms there are
    named,      \* how many agents the roster holds, 0 .. 1
    crew,       \* who can sign in
    home        \* the Home screen as it was served, Away before

houseVars == <<board, named, crew>>
homeVars == <<houseVars, home>>

StepNames == {"assistant", "talk", "tool", "invite"}
Reads == {"board", "topic", "agents", "tools", "grants", "people"}
Away == [who |-> Nobody, steps |-> [s \in {} |-> TRUE], talking |-> 0,
         agents |-> "no tile", list |-> {}, slideOver |-> FALSE]

OverviewTypeOK ==
    /\ board \subseteq Rooms
    /\ named \in 0 .. 1
    /\ crew \subseteq People
    /\ home.who \in People \cup {Nobody}
    /\ DOMAIN home.steps \subseteq StepNames
    /\ home.list \subseteq Rooms \ Hidden

OverviewInit ==
    /\ board = {}
    /\ named = 0
    /\ crew \in {{p} : p \in People}
    /\ home = Away

-----------------------------------------------------------------------------
(* The house fills up. *)

RoomStarts(r) == r \notin board /\ board' = board \cup {r} /\ UNCHANGED <<named, crew>>

AgentNamed == named = 0 /\ named' = 1 /\ UNCHANGED <<board, crew>>

SignsUp(p) == p \notin crew /\ crew' = crew \cup {p} /\ UNCHANGED <<board, named>>

-----------------------------------------------------------------------------
(* observe, firstSteps: what was read, of what answered. *)

\* health: the roster is asked only once the board was read.
Observed(answers) ==
    [err |-> \/ "board" \notin answers
            \/ (board \ Hidden # {} /\ "topic" \notin answers),
     board |-> IF "board" \in answers THEN board ELSE {},
     agentsOn |-> "board" \in answers,
     agentsRead |-> {"board", "agents"} \subseteq answers,
     agents |-> IF {"board", "agents"} \subseteq answers THEN named ELSE 0]

Listed == {n \in Names : Row(n) # "no row"}
Services == {n \in Names : Row(n) = "remote"}

StepFacts(p, answers, v) ==
    LET tools == "tools" \in answers
        remote == IF tools THEN Cardinality(Services) ELSE 0
    IN  [agentsRead |-> v.agentsRead, agents |-> v.agents,
         talks |-> Cardinality(v.board),
         toolsKnown |-> tools,
         tools |-> IF tools THEN Cardinality(Listed) ELSE 0,
         remote |-> remote,
         admin |-> p \in Staff,
         connected |-> /\ p \notin Staff /\ remote > 0 /\ "grants" \in answers
                       /\ \E n \in Names : <<p, n>> \in grants,
         peopleKnown |-> p \in Staff /\ "people" \in answers,
         people |-> IF p \in Staff /\ "people" \in answers THEN Cardinality(crew) ELSE 0]

\* Faulty variant of Steps: whoever sees a tool is shown the way to it.
StepsForAnyTool(f) ==
    {"talk"} \cup (IF f.agentsRead THEN {"assistant"} ELSE {})
             \cup (IF f.toolsKnown /\ f.tools > 0 THEN {"tool"} ELSE {})
             \cup (IF f.peopleKnown THEN {"invite"} ELSE {})

\* deriveSteps: a step is listed on evidence, never on a guess,
Steps(f) ==
    {"talk"} \cup (IF f.agentsRead THEN {"assistant"} ELSE {})
             \cup (IF f.toolsKnown /\ (f.admin \/ f.remote > 0) THEN {"tool"} ELSE {})
             \cup (IF f.peopleKnown THEN {"invite"} ELSE {})

\* and done once the house shows it.
Done(f, s) ==
    CASE s = "assistant" -> f.agents > 0
      [] s = "talk" -> f.talks > 0
      [] s = "tool" -> IF f.admin THEN f.tools > 0 ELSE f.connected
      [] s = "invite" -> f.people > 1

\* firstStepsCard: none once everything listed is done.
Card(f) ==
    IF \A s \in Steps(f) : Done(f, s) THEN [s \in {} |-> TRUE]
    ELSE [s \in Steps(f) |-> Done(f, s)]

\* talkingTile counts the whole board, agentsTile those the roster names.
TalkingTile(v) == Cardinality(v.board)

AgentsTile(v) ==
    IF ~v.agentsOn THEN "no tile"
    ELSE IF ~v.agentsRead THEN "unreadable"
    ELSE IF v.agents = 0 THEN "none yet" ELSE "named"

\* renderOverview: an error takes the place of the list and of the slide-over
\* a conversation is started from.
Home(p, answers) ==
    LET v == Observed(answers)
    IN  [who |-> p,
         steps |-> Card(StepFacts(p, answers, v)),
         talking |-> TalkingTile(v),
         agents |-> AgentsTile(v),
         list |-> IF v.err THEN {} ELSE v.board \ Hidden,
         slideOver |-> ~v.err]

Serves(p, answers) ==
    /\ home = Away
    /\ Cardinality(Reads \ answers) <= MaxUnread
    /\ home' = Home(p, answers)
    /\ UNCHANGED <<vars, houseVars>>

Leaves ==
    /\ home # Away
    /\ home' = Away
    /\ UNCHANGED <<vars, houseVars>>

House ==
    /\ AgentNamed
       \/ (\E r \in Rooms : RoomStarts(r)) \/ (\E p \in People : SignsUp(p))
    /\ UNCHANGED <<vars, home>>

\* Home is not renewed: what happens under it is seen by the next one.
OverviewNext ==
    \/ home = Away /\ Next /\ UNCHANGED homeVars
    \/ home = Away /\ House
    \/ \E p \in crew, answers \in SUBSET Reads : Serves(p, answers)
    \/ Leaves

-----------------------------------------------------------------------------
(* What must hold. *)

\* Where the act of a step is: whom a service of their own is offered to
\* connect to, and whether there is a form to start a conversation in.
Takable(s, p, h) ==
    CASE s = "tool" -> p \in Staff \/ \E n \in Names : OfferedTo(p, n) = {"connect"}
      [] s = "talk" -> h.slideOver
      [] OTHER -> TRUE

Standing == \A n \in Names : catalog[n] = "remote" => OnPlane(n)

\* "A step nobody on this session could take is never listed": each step Home
\* is served with and does not call done leads to where it can be taken, where
\* every read answers and no tool stands with one half of the two.
StepsAreDoorsInTurn ==
    [][home' # Away /\ home' = Home(home'.who, Reads) /\ Standing =>
        \A s \in DOMAIN home'.steps :
            home'.steps[s] \/ Takable(s, home'.who, home')]_home
=============================================================================
