------------------------------ MODULE Readings ------------------------------
(***************************************************************************)
(* Readings of the record: a store page by page (StoreWalk), a             *)
(* conversation as a thread (Threads), and who is in it, for the composer  *)
(* (Picker).  They share no state; `desk` says which one is followed, the  *)
(* others are at rest.                                                     *)
(***************************************************************************)
EXTENDS StoreWalk

CONSTANTS
    None, MaxWork,
    HopLimit, MaxPosts, Times, AnchorsFrom(_), Elsewhere,       \* Threads
    Personas, Me, Called(_), Begins(_), Fragments, FitsName(_, _),
    Limit, Workers                                              \* Picker

VARIABLES desk,
    contributions, work,                                    \* Threads
    said, taken, named, offer, body, picks, tapped          \* Picker

threadVars == <<contributions, work>>
pickVars == <<said, taken, named, offer, body, picks, tapped>>

T == INSTANCE Threads

P == INSTANCE Picker WITH work <- taken

ASSUME ReadingsAssumption == T!ThreadsAssumption /\ P!PickerAssumption

ReadingsInit == desk \in {"store", "thread", "composer"} /\ Init /\ T!Init /\ P!Init

WalkNext == desk = "store" /\ Next /\ UNCHANGED <<desk, threadVars, pickVars>>
ThreadNext == desk = "thread" /\ T!Next /\ UNCHANGED <<desk, vars, pickVars>>
ComposerNext == desk = "composer" /\ P!Next /\ UNCHANGED <<desk, vars, threadVars>>

ReadingsNext == WalkNext \/ ThreadNext \/ ComposerNext
readingsVars == <<desk, vars, threadVars, pickVars>>

ReadingsSpec == ReadingsInit /\ [][ReadingsNext]_readingsVars

-----------------------------------------------------------------------------

\* Each part keeps its types.
ReadingsTypeOK == TypeOK /\ T!TypeOK /\ P!TypeOK

\* The properties of the thread and the composer, stated in their own modules.
NothingDropped == T!NothingDropped
TapsWhoWasMeant == P!TapsWhoWasMeant
=============================================================================
