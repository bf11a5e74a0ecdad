------------------------------- MODULE Behind -------------------------------
(***************************************************************************)
(* What runs behind one person's screens: their tray (Tray), the persona   *)
(* directory (Directory) and the list of the approvals (Approvals).  They  *)
(* share no state; `desk` says which one is followed, the others are at    *)
(* rest.                                                                   *)
(***************************************************************************)
EXTENDS Tray

CONSTANTS
    Ids, Labels, Readers, MaxMisses,                            \* Directory
    Requests, Mine, IsAdmin, Calls, Failed                      \* Approvals

VARIABLES desk,
    profiles, keys, cards, asking, own, held, misses,           \* Directory
    tickets, taps, line, list, frame, replies                   \* Approvals

D == INSTANCE Directory

A == INSTANCE Approvals WITH shown <- list

ASSUME BehindAssumption == MaxMisses \in Nat /\ A!ApprovalsAssumption

directoryVars == <<profiles, keys, cards, asking, own, held, misses>>
approvalVars == <<tickets, taps, line, list, frame, replies>>

BehindInit == desk \in {"tray", "directory", "approvals"} /\ Init /\ D!Init /\ A!Init

TrayNext == desk = "tray" /\ Next /\ UNCHANGED <<desk, directoryVars, approvalVars>>
DirectoryNext == desk = "directory" /\ D!Next /\ UNCHANGED <<desk, vars, approvalVars>>
ApprovalsNext == desk = "approvals" /\ A!Next /\ UNCHANGED <<desk, vars, directoryVars>>

BehindNext == TrayNext \/ DirectoryNext \/ ApprovalsNext
behindVars == <<desk, vars, directoryVars, approvalVars>>

\* Each part's own fairness, while it is the one followed.  An action that is
\* fair to the tray always changes the one variable named.
BehindSpec ==
    /\ BehindInit
    /\ [][BehindNext]_behindVars
    /\ WF_next(desk = "tray" /\ Tap)
    /\ WF_follower(desk = "tray" /\ Reattach)
    /\ \A s \in Slips : WF_inbox(desk = "tray" /\ SlipDropped(s))
    /\ \A v \in Screens : WF_screen(desk = "tray" /\ Tick(v))
    /\ WF_directoryVars(desk = "directory" /\ D!MinutePasses)
    /\ \A i \in Ids : /\ WF_directoryVars(desk = "directory" /\ D!ScreenName(i))
                      /\ WF_directoryVars(desk = "directory" /\ D!PersonaKey(i))
    /\ \A r \in Readers : WF_directoryVars(desk = "directory" /\ D!LookUp(r))
    /\ WF_approvalVars(desk = "approvals" /\ A!TickReads)
    /\ WF_approvalVars(desk = "approvals" /\ A!TickWrites)

-----------------------------------------------------------------------------

\* Each part keeps its types.
BehindTypeOK == TypeOK /\ D!TypeOK /\ A!TypeOK

\* The properties of the other two, each stated in its own module.
KnownInTheEnd == D!KnownInTheEnd
SaidIsSo == A!SaidIsSo
ListSettles == A!ListSettles
=============================================================================
