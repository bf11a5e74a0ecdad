------------------------------- MODULE Screens -------------------------------
(***************************************************************************)
(* The screens of a session.  A person sits at one of them at a time and   *)
(* the handlers of two screens share no state in the shell, so the         *)
(* behaviours are those of each screen with the others at rest: `desk`     *)
(* says which one is followed.  The variables are those of the eight       *)
(* modules, renamed where two of them use one word for different things.   *)
(***************************************************************************)
EXTENDS Naturals, Sequences, FiniteSets

CONSTANTS
    None,
    Calls,                                          \* acts under way, on most screens
    ToolNames, ToolsDeclared, ToolPeople, ToolAdmins,                   \* Tools
    HouseTools, HouseDeclared, HousePeople, HouseAdmins, HouseStaff,
    HouseRooms, HouseHidden, MaxUnread,                                 \* Overview
    Models, Pins, Tags, MaxWrites,                                      \* ModelNames
    Names, Apps, First, MaxOthers,                                      \* Administration
    AgentRooms, MaxPosts, MaxPlacings,                                  \* AgentRoom
    Agents, MaxMints, AgentCalls,                                       \* AgentsScreen
    DeclareForms, EmptyForm, HasRole, MaxPlaced, MaxHomes,              \* Declaring
    Paths, Placements, MaxDecls                                         \* Rail

\* Of the bounds, that they are numbers; of None, that it is nobody's name.
ASSUME ScreensAssumption ==
    /\ {MaxWrites, MaxOthers, MaxPosts, MaxPlacings, MaxMints, MaxPlaced, MaxHomes,
        MaxDecls, MaxUnread} \subseteq Nat
    /\ IsFiniteSet(Paths) /\ Placements \in Paths
    /\ EmptyForm \in DeclareForms
    /\ None \notin Models \cup Names \cup Apps \cup AgentRooms \cup Agents

VARIABLES desk,
    resources, catalog, grants, links, doing, mixed,               \* Tools
    house, named, crew, home,                                      \* Overview
    bucket, founded, form, served, filled, typed, open, asked, acts, writes, \* ModelNames
    users, clients, calls, result, people, apps, others, late,     \* Administration
    placedIn, known, roster, posts, heard, marks, reading, left, screen, box, \* AgentRoom
    accepted, entered, minted, minting, card, panel, gone, shown, \* AgentsScreen
    fields, step, drawer, note, json, act, told, homes, placed, table, \* Declaring
    board, archived, decls, unread, at, view, page                 \* Rail

toolVars == <<resources, catalog, grants, links, doing, mixed>>
houseVars == <<house, named, crew, home>>
modelVars == <<bucket, founded, form, served, filled, typed, open, asked, acts, writes>>
adminVars == <<users, clients, calls, result, people, apps, others, late>>
roomVars == <<placedIn, known, roster, posts, heard, marks, reading, left, screen, box>>
agentVars == <<accepted, entered, minted, minting, card, panel, gone, shown>>
formVars == <<fields, step, drawer, note, json, act, told, homes, placed, table>>
railVars == <<board, archived, decls, unread, at, view, page>>

T == INSTANCE Tools WITH
    Names <- ToolNames, Declared <- ToolsDeclared, People <- ToolPeople,
    Admins <- ToolAdmins

O == INSTANCE Overview WITH
    Names <- HouseTools, Declared <- HouseDeclared, People <- HousePeople,
    Admins <- HouseAdmins, Staff <- HouseStaff, Rooms <- HouseRooms,
    Hidden <- HouseHidden, board <- house

M == INSTANCE ModelNames WITH Names <- Models

A == INSTANCE Administration WITH line <- result

R == INSTANCE AgentRoom WITH
    Rooms <- AgentRooms, MaxDecls <- MaxPlacings, decls <- placedIn

G == INSTANCE AgentsScreen WITH
    Calls <- AgentCalls, calls <- minting, line <- card

D == INSTANCE Declaring WITH
    Forms <- DeclareForms, Blank <- EmptyForm, form <- fields,
    panel <- drawer, line <- told

L == INSTANCE Rail

\* Nor is None a list that was read.
ASSUME NoneIsNotRead == None \notin [people : A!Users, apps : SUBSET Apps]

-----------------------------------------------------------------------------

Init ==
    /\ desk \in {"tools", "home", "models", "people", "room", "agents", "declare",
                 "rail"}
    /\ IF desk = "home" THEN O!Init ELSE T!Init
    /\ O!OverviewInit
    /\ M!Init /\ A!Init /\ R!Init /\ G!Init /\ D!Init /\ L!Init
    /\ desk # "room" => ~roster

ToolsNext ==
    /\ desk = "tools" /\ T!Next
    /\ UNCHANGED <<desk, houseVars, modelVars, adminVars, roomVars, agentVars,
                   formVars, railVars>>
HomeNext ==
    /\ desk = "home" /\ O!OverviewNext
    /\ UNCHANGED <<desk, modelVars, adminVars, roomVars, agentVars, formVars,
                   railVars>>
ModelsNext ==
    /\ desk = "models" /\ M!Next
    /\ UNCHANGED <<desk, toolVars, houseVars, adminVars, roomVars, agentVars,
                   formVars, railVars>>
PeopleNext ==
    /\ desk = "people" /\ A!Next
    /\ UNCHANGED <<desk, toolVars, houseVars, modelVars, roomVars, agentVars,
                   formVars, railVars>>
RoomNext ==
    /\ desk = "room" /\ R!Next
    /\ UNCHANGED <<desk, toolVars, houseVars, modelVars, adminVars, agentVars,
                   formVars, railVars>>
AgentsNext ==
    /\ desk = "agents" /\ G!Next
    /\ UNCHANGED <<desk, toolVars, houseVars, modelVars, adminVars, roomVars,
                   formVars, railVars>>
DeclareNext ==
    /\ desk = "declare" /\ D!Next
    /\ UNCHANGED <<desk, toolVars, houseVars, modelVars, adminVars, roomVars,
                   agentVars, railVars>>
RailNext ==
    /\ desk = "rail" /\ L!Next
    /\ UNCHANGED <<desk, toolVars, houseVars, modelVars, adminVars, roomVars,
                   agentVars, formVars>>

Next ==
    \/ ToolsNext \/ HomeNext \/ ModelsNext \/ PeopleNext \/ RoomNext
    \/ AgentsNext \/ DeclareNext \/ RailNext

vars == <<desk, toolVars, houseVars, modelVars, adminVars, roomVars, agentVars,
          formVars, railVars>>

Spec == Init /\ [][Next]_vars

-----------------------------------------------------------------------------

\* Every screen keeps its types.
TypeOK ==
    CASE desk = "tools" -> T!TypeOK
      [] desk = "home" -> O!TypeOK /\ O!OverviewTypeOK
      [] desk = "models" -> M!TypeOK
      [] desk = "people" -> A!TypeOK
      [] desk = "room" -> R!TypeOK
      [] desk = "agents" -> G!TypeOK
      [] desk = "declare" -> D!TypeOK
      [] desk = "rail" -> L!TypeOK

\* The properties of the screens, each stated in its own module.
SaidMeansDone == desk = "tools" => T!SaidMeansDone
StepsAreDoorsInTurn == O!StepsAreDoorsInTurn
UntouchedSaysTheSame == desk = "models" => M!UntouchedSaysTheSame
ListsAreTrueInTurn == desk = "people" => A!ListsAreTrueInTurn
ClearedIsTheRoomShown == R!ClearedIsTheRoomShown
CardAdmits == desk = "agents" => G!CardAdmits
ShownIsPlaced == D!ShownIsPlaced
CountLandsSomewhere == desk = "rail" => L!CountLandsSomewhere
=============================================================================
