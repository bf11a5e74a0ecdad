------------------------------- MODULE MCRooms -------------------------------
(***************************************************************************)
(* Small instances of RoomsTogether for TLC: two conversations and a room  *)
(* of the record's own; nobody writes.                                     *)
(***************************************************************************)
EXTENDS RoomsTogether

\* Bound: what is to be declared is told apart only where it is declared.
SmallInit ==
    /\ RoomsInit
    /\ desk = "screen" => \A a, b \in Acts :
        form[a] = form[b] /\ form[a].home = 0 /\ form[a].agent = CHOOSE g \in Agents : TRUE

\* Bounds: rooms are left open; this person closes, is asked about and opens by
\* name one of the two conversations; and no page opens with the quiet dock.
Mine == CHOOSE t \in Topics \ Rooms : TRUE

SmallStep ==
    /\ \A r \in Rooms : life'[r] \notin {"closed", "archived"}
    /\ asks' \in {None, Mine}
    /\ \A a \in acts' : a.kind = "close" => a.topic = Mine
    /\ page'.want \in {None, Mine} \cup Rooms /\ ~page'.quiet

SmallSpec == SmallInit /\ [][RoomsNext /\ SmallStep]_roomsVars /\ RoomsFairness
=============================================================================
