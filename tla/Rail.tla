-------------------------------- MODULE Rail --------------------------------
(***************************************************************************)
(* The rail of conversations and the counts on it (modules/conversations   *)
(* render.go, conversations.go; soulstream board.go, tray.go).  A message  *)
(* for this person may wait in any topic.  Conversations have a row each;  *)
(* the rooms of the record's own, agents' homes and the placements topic,  *)
(* have none and share one line, whose link is an agent's detail (module   *)
(* AgentRoom): the home of its newest declaration.  A tick observes, takes *)
(* the marks of the open conversation away, and renders what then stands.  *)
(***************************************************************************)
EXTENDS Naturals, Sequences, FiniteSets

CONSTANTS
    Paths,      \* topics there are or could be
    Placements, \* the one the placements are made on
    Agents,     \* agents that can be declared
    MaxDecls,   \* bound: declarations
    None

VARIABLES
    board,      \* the topics on the record
    archived,   \* those closed to writing
    decls,      \* the declarations the watch knows: <<[agent, home]>>
    unread,     \* the tray: the topics in which a message waits
    at,         \* the conversation that is open, None before the default
    view,       \* what the tick under way observed, None between ticks
    page        \* the rail as it was last written, None while elsewhere

recordVars == <<board, archived, decls>>
vars == <<recordVars, unread, at, view, page>>

TypeOK ==
    /\ board \subseteq Paths /\ archived \subseteq board
    /\ decls \in Seq([agent : Agents, home : Paths])
    /\ unread \subseteq Paths
    /\ at \in Paths \cup {None}
    /\ view \in {None} \cup [board : SUBSET Paths, archived : SUBSET Paths,
                             machinery : SUBSET Paths, at : Paths \cup {None},
                             link : Agents \cup {None}, known : 0 .. MaxDecls]
    /\ page \in {None} \cup
            [rows : SUBSET Paths, fold : SUBSET Paths, marked : SUBSET Paths,
             rooms : SUBSET Paths, link : Agents \cup {None},
             note : {"none", "placements", "home"}, tally : 0 .. Cardinality(Paths),
             known : 0 .. MaxDecls]

Init ==
    /\ board = {Placements} /\ archived = {} /\ decls = <<>> /\ unread = {}
    /\ at = None /\ view = None /\ page = None

-----------------------------------------------------------------------------
(* The record and the tray. *)

Starts(p) ==
    /\ p \notin board
    /\ board' = board \cup {p}
    /\ UNCHANGED <<archived, decls, unread, at, view, page>>

Archives(p) ==
    /\ p \in board \ archived
    /\ archived' = archived \cup {p}
    /\ UNCHANGED <<board, decls, unread, at, view, page>>

Declares(a, p) ==
    /\ Len(decls) < MaxDecls /\ p \in board \ {Placements}
    /\ decls' = Append(decls, [agent |-> a, home |-> p])
    /\ UNCHANGED <<board, archived, unread, at, view, page>>

\* A slip may point anywhere, at what the board does not hold as well.
Taps(p) ==
    /\ p \notin unread
    /\ unread' = unread \cup {p}
    /\ UNCHANGED <<recordVars, at, view, page>>

-----------------------------------------------------------------------------
(* observe. *)

Homes(a) == {decls[i].home : i \in {j \in 1 .. Len(decls) : decls[j].agent = a}}

NewestHome(a) ==
    LET of == {j \in 1 .. Len(decls) : decls[j].agent = a}
    IN  decls[CHOOSE j \in of : \A k \in of : k <= j].home

\* Machinery: the placements topic, and every declared home, old ones too.
Machinery == (board \cap {Placements}) \cup UNION {Homes(a) : a \in Agents}

\* HumanConversations, and LastLive where nobody named one: whichever of them
\* was last active.
Human(b, machinery) == b \ machinery
Landing == IF at # None THEN {at}
           ELSE IF Human(board, Machinery) \ archived = {} THEN {None}
           ELSE Human(board, Machinery) \ archived

\* Standing: what the board does not reach is left out.
Standing(b) == unread \cap b

\* roomWays: an agent of any one room that holds a message.
Ways == {a \in Agents : Homes(a) \cap Standing(board) # {}}

Observes ==
    /\ view = None
    /\ \E where \in Landing, way \in IF Ways = {} THEN {None} ELSE Ways :
        view' = [board |-> board, archived |-> archived, machinery |-> Machinery,
                 at |-> where, link |-> way, known |-> Len(decls)]
    /\ UNCHANGED <<recordVars, unread, at, page>>

-----------------------------------------------------------------------------
(* renderRail, spineTally. *)

\* Faulty variant of RoomsWaiting: the rooms of agents alone.
HomesWaiting(v, standing) == standing \cap (v.machinery \ {Placements})

\* roomsWaiting: every room the rail has no row for.
RoomsWaiting(v, standing) == standing \cap v.machinery

\* roomNote, over a room of the record's own that was opened by its path.
RoomNote(v) ==
    IF v.at \notin v.machinery THEN "none"
    ELSE IF v.at = Placements THEN "placements" ELSE "home"

Rail(v, standing) ==
    LET human == Human(v.board, v.machinery)
    IN  [rows |-> human \ v.archived,
         fold |-> human \cap v.archived,
         marked |-> standing \cap human,
         rooms |-> RoomsWaiting(v, standing),
         link |-> IF RoomsWaiting(v, standing) = {} THEN None ELSE v.link,
         note |-> RoomNote(v),
         tally |-> Cardinality(standing),
         known |-> v.known]

\* live: looking at a conversation is reading what is in it.
Renders ==
    /\ view # None
    /\ unread' = unread \ {view.at}
    /\ page' = Rail(view, unread' \cap view.board)
    /\ view' = None
    /\ UNCHANGED <<recordVars, at>>

\* A row, or a path somebody was given, is opened: the page anew.
OpensTopic(p) ==
    /\ view = None
    /\ at' = p /\ page' = None
    /\ UNCHANGED <<recordVars, unread, view>>

\* The line of the rooms is followed: an agent's detail, read, and back.
FollowsLink ==
    /\ view = None /\ page # None /\ page.link # None
    /\ unread' = unread \ {NewestHome(page.link)}
    /\ page' = None
    /\ UNCHANGED <<recordVars, at, view>>

Next ==
    \/ \E p \in Paths : Starts(p) \/ Archives(p) \/ Taps(p) \/ OpensTopic(p)
    \/ \E a \in Agents, p \in Paths : Declares(a, p)
    \/ Observes \/ Renders \/ FollowsLink

-----------------------------------------------------------------------------
(* What must hold. *)

\* "The count still stands on the spine": every message it counts is on a row,
\* in the open list or under the fold, or in the line of the rooms, once.
CountLandsSomewhere ==
    page # None =>
        /\ page.marked \subseteq page.rows \cup page.fold
        /\ page.tally = Cardinality(page.marked) + Cardinality(page.rooms)

\* "This line is where the click lands somewhere real": followed to an agent in
\* whose room a message waits, with nothing declared or read since the line was
\* written, it takes a message off the tray.
ClickLandsSomewhere ==
    [][/\ page # None /\ FollowsLink
       /\ page.known = Len(decls) /\ page.rooms \cap unread \cap Homes(page.link) # {}
       => unread' # unread]_vars
=============================================================================
