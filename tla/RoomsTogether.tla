---------------------------- MODULE RoomsTogether ----------------------------
(***************************************************************************)
(* Rooms and the record behind them: a conversation's screen while others, *)
(* and this person, close and archive it (Conversation), and the watch     *)
(* over the placements (Placements).  What the screen sees of the watch is *)
(* the machinery it knows, which Conversation has as a variable of its own *)
(* that rooms join one by one; `desk` says which part is followed, the     *)
(* other is at rest.                                                       *)
(***************************************************************************)
EXTENDS Conversation

CONSTANTS Acts, Agents, PlacementsName, Hall, MaxLapses         \* Placements

VARIABLES desk,
    topics, items, at, form, path, list, raced,                 \* Placements
    watch, known, watched, placements, lapses

P == INSTANCE Placements WITH board <- known

ASSUME RoomsAssumption == P!PlacementsAssumption

placementVars == <<topics, items, at, form, path, list, raced,
                   watch, known, watched, placements, lapses>>

RoomsInit == desk \in {"watch", "screen"} /\ Init /\ P!Init

WatchNext == desk = "watch" /\ P!Next /\ UNCHANGED <<desk, vars>>
ScreenNext == desk = "screen" /\ Next /\ UNCHANGED <<desk, placementVars>>

RoomsNext == WatchNext \/ ScreenNext
roomsVars == <<desk, vars, placementVars>>

\* Each part's own fairness, while it is the one followed; Follows, RoomLearned
\* and Ticks change one variable each.
RoomsFairness ==
    /\ WF_placementVars(desk = "watch" /\ P!FollowsBoard)
    /\ WF_placementVars(desk = "watch" /\ P!BoardLearns)
    /\ WF_placementVars(desk = "watch" /\ P!FollowsPlacements)
    /\ WF_placementVars(desk = "watch" /\ P!Materialises)
    /\ WF_placementVars(desk = "watch" /\ P!PlacementLearned)
    /\ WF_placementVars(desk = "watch" /\ P!WatchesAgain)
    /\ WF_snap(desk = "screen" /\ Follows)
    /\ WF_machinery(desk = "screen" /\ \E r \in Rooms : RoomLearned(r))
    /\ WF_screen(desk = "screen" /\ Ticks)

RoomsSpec == RoomsInit /\ [][RoomsNext]_roomsVars /\ RoomsFairness

-----------------------------------------------------------------------------

\* Each part keeps its types.
RoomsTypeOK == TypeOK /\ P!TypeOK

\* The properties of the watch, each stated in its own module.
ListedInTurn == P!ListedInTurn
RoomsAgree == P!RoomsAgree
NothingUnplaces == P!NothingUnplaces
=============================================================================
