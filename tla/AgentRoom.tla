------------------------------ MODULE AgentRoom ------------------------------
(***************************************************************************)
(* The room behind one agent (modules/agents/room.go): its page, the       *)
(* stream that renews the thread, and the composer whose message carries   *)
(* the agent's name.  A reading of the room takes time: the declarations   *)
(* say which room it is, the record is read, and only then are the         *)
(* reader's marks for that room taken off their tray, be the page there    *)
(* still or not.  The composer asks the watch's snapshot for the room      *)
(* instead, which runs behind.                                             *)
(***************************************************************************)
EXTENDS Naturals, Sequences, SequencesExt

CONSTANTS
    Rooms,      \* topics that can be a home
    MaxPosts,   \* bound: messages to this person in each room
    MaxDecls,   \* bound: placements of this agent
    None

VARIABLES
    decls,      \* the record: the homes this agent was placed in, in order
    known,      \* how many of them the watch's snapshot holds
    roster,     \* was a credential issued to this name?
    posts,      \* the record: messages naming this person, in each room
    heard,      \* how many of them their tray has been told of
    marks,      \* the tray: those that wait to be read
    reading,    \* a reading under way for the page: [home, facts, upto, live]
    left,       \* rooms of readings under way whose page was left; bound: one
                \* of each room
    screen,     \* the page: [home, facts, upto, live], None while away; a live
                \* one was rendered with a room
    box         \* is there something written in the composer?

record == <<decls, roster, posts>>
vars == <<decls, known, roster, posts, heard, marks, reading, left, screen, box>>

TypeOK ==
    /\ decls \in Seq(Rooms)
    /\ known \in 0 .. Len(decls)
    /\ roster \in BOOLEAN /\ box \in BOOLEAN
    /\ posts \in [Rooms -> 0 .. MaxPosts]
    /\ \A r \in Rooms : heard[r] \in 0 .. posts[r] /\ marks[r] \subseteq 1 .. heard[r]
    /\ {reading, screen} \subseteq {None} \cup
            [home : Rooms \cup {None}, facts : {"placements", "elsewhere", "nobody"},
             upto : (0 .. MaxPosts) \cup {None}, live : BOOLEAN]
    /\ left \subseteq Rooms

Init ==
    /\ decls = <<>> /\ known = 0 /\ roster \in BOOLEAN
    /\ posts = [r \in Rooms |-> 0] /\ heard = posts /\ marks = [r \in Rooms |-> {}]
    /\ reading = None /\ left = {} /\ screen = None /\ box = FALSE

-----------------------------------------------------------------------------
(* The record and the tray. *)

IsDeclared(r) ==
    /\ Len(decls) < MaxDecls
    /\ decls' = Append(decls, r)
    /\ UNCHANGED <<known, roster, posts, heard, marks, reading, left, screen, box>>

WatchLearns ==
    /\ known < Len(decls)
    /\ known' = known + 1
    /\ UNCHANGED <<record, heard, marks, reading, left, screen, box>>

SaysTheirName(r) ==
    /\ posts[r] < MaxPosts
    /\ posts' = [posts EXCEPT ![r] = @ + 1]
    /\ UNCHANGED <<decls, known, roster, heard, marks, reading, left, screen, box>>

TrayHears(r) ==
    /\ heard[r] < posts[r]
    /\ heard' = [heard EXCEPT ![r] = @ + 1]
    /\ marks' = [marks EXCEPT ![r] = @ \cup {heard'[r]}]
    /\ UNCHANGED <<record, known, reading, left, screen, box>>

-----------------------------------------------------------------------------
(* room, roomRead, roomLive. *)

\* The room its newest declaration names; None when nothing declares it.
NewestHome(ds) == IF ds = <<>> THEN None ELSE Last(ds)

\* roomFacts: how it runs, in the words there are for it; what could not be
\* read is as if there were none.
Facts(home, listed) ==
    IF home # None THEN "placements"
    ELSE IF roster /\ listed THEN "elsewhere" ELSE "nobody"

\* roomRead: the room as the record has it, none in a tick whose declarations
\* cannot be read; a room that cannot be read has no thread.
Reads(home, facts, live, answered) ==
    /\ reading = None
    /\ home \in {NewestHome(decls), None}
    /\ reading' = [home |-> home, facts |-> facts, live |-> live,
                   upto |-> IF home # None /\ answered THEN posts[home] ELSE None]
    /\ UNCHANGED <<record, known, heard, marks, left, screen, box>>

\* room: the page.
Opens(home, listed, answered) ==
    screen = None /\ Reads(home, Facts(home, listed), home # None, answered)

\* roomLive: the stream of a page that has a room renews its thread alone.
Ticks(home, answered) ==
    screen # None /\ screen.live /\ Reads(home, screen.facts, TRUE, answered)

\* Faulty variant of Clears: the room the watch's snapshot names is cleared.
ClearsHomeOf ==
    LET home == NewestHome(SubSeq(decls, 1, known))
    IN  /\ reading # None
        /\ marks' = [r \in Rooms |-> IF r = home THEN {} ELSE marks[r]]
        /\ screen' = reading
        /\ reading' = None
        /\ UNCHANGED <<record, known, heard, left, box>>

\* Reading a room is reading it: its marks go, read or not, and the thread is
\* written.
Clears ==
    /\ reading # None
    /\ marks' = [r \in Rooms |-> IF r = reading.home THEN {} ELSE marks[r]]
    /\ screen' = reading
    /\ reading' = None
    /\ UNCHANGED <<record, known, heard, left, box>>

\* The person goes elsewhere; a reading under way goes on without a page.
Leaves ==
    /\ screen # None \/ reading # None
    /\ IF reading = None THEN UNCHANGED left
       ELSE reading.home \notin left /\ left' = left \cup ({reading.home} \ {None})
    /\ reading' = None /\ screen' = None /\ box' = FALSE
    /\ UNCHANGED <<record, known, heard, marks>>

\* It clears what it read nonetheless, and nobody is shown it.
ClearsLeft(r) ==
    /\ r \in left
    /\ left' = left \ {r}
    /\ marks' = [marks EXCEPT ![r] = {}]
    /\ UNCHANGED <<record, known, heard, reading, screen, box>>

-----------------------------------------------------------------------------
(* actSay. *)

\* roomSection: there is a composer where there is a room.
Writes ==
    /\ screen # None /\ screen.live /\ ~box
    /\ box' = TRUE
    /\ UNCHANGED <<record, known, heard, marks, reading, left, screen>>

\* The room is the watch's at the act; the message names the agent, and what
\* was written is kept unless it landed.
Says(landed) ==
    LET home == NewestHome(SubSeq(decls, 1, known))
    IN  /\ screen # None /\ box
        /\ box' = (home = None \/ ~landed)
        /\ UNCHANGED <<record, known, heard, marks, reading, left, screen>>

Next ==
    \/ \E r \in Rooms : IsDeclared(r) \/ SaysTheirName(r) \/ TrayHears(r)
    \/ WatchLearns
    \/ \E home \in Rooms \cup {None}, listed, answered \in BOOLEAN :
          Opens(home, listed, answered) \/ Ticks(home, answered)
    \/ \E landed \in BOOLEAN : Says(landed)
    \/ \E r \in Rooms : ClearsLeft(r)
    \/ Clears \/ Leaves \/ Writes

-----------------------------------------------------------------------------
(* What must hold. *)

\* A mark is taken off the tray only by a reading of its own room, and the page
\* that comes of it is that room's: while the watch still names another room,
\* the marks of that one stay.  A reading whose page was left clears the room
\* it read and no other, and nobody is shown it.
ClearedIsTheRoomShown ==
    [][\A r \in Rooms : marks[r] \ marks'[r] # {} =>
            (screen' # None /\ screen'.home = r) \/ r \in left \ left']_vars
=============================================================================
