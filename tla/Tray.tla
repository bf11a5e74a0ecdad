-------------------------------- MODULE Tray --------------------------------
(***************************************************************************)
(* One session's tray (soulstream/tray.go): the messages that mention this *)
(* person, kept in memory, filled by a follower on their inbox and cleared *)
(* by the screens that show the conversations (modules/conversations live, *)
(* modules/agents roomRead).                                               *)
(*                                                                         *)
(* A slip is a pair <<topic, op>>.  The record (messages) and the inbox    *)
(* (slips pointing at them) are the stream server's; the library writes a  *)
(* message before its slip, anybody else may drop any slip, and the        *)
(* follower starts the inbox over each time it attaches.                   *)
(***************************************************************************)
EXTENDS Naturals, Sequences, SequencesExt

CONSTANTS
    Topics, Ops,
    Screens,        \* the open live streams of this person
    Address,        \* the conversation each one's address names, or None
    MaxTroubles,    \* how often the inbox goes away or a slip is forged (bound)
    None

ASSUME BoundsAssumption ==
    /\ MaxTroubles \in Nat /\ None \notin Topics
    /\ Address \in [Screens -> Topics \cup {None}]

Slips == Topics \X Ops
TopicOf(s) == s[1]

VARIABLES
    record,     \* the messages in the conversations that mention this person
    inbox,      \* the slips in this person's inbox, in order
    slipped,    \* the messages whose slip the library dropped
    follower,   \* followInbox: "following", "waiting" (2 s), "stopped"
    next,       \* the inbox entry the follower reads next
    troubles,   \* how often either has happened (bounded by MaxTroubles)
    seen,       \* Session.seen
    unread,     \* Session.unread, as pairs
    screen,     \* where each live tick stands
    looking,    \* the conversation it names, or its last tick settled on
    found,      \* what a tick's observe found in it
    shown,      \* the messages put in front of the person so far
    lapsed      \* those whose screen went on, or could not read them, with their
                \* mark off and the message not shown

recordVars == <<record, inbox, slipped>>
followVars == <<follower, next, troubles>>
screenVars == <<screen, looking, found, shown, lapsed>>
vars == <<recordVars, followVars, seen, unread, screenVars>>

ScreenAt == {"closed", "ticking", "observed", "cleared", "gone"}

TypeOK ==
    /\ record \subseteq Slips
    /\ inbox \in Seq(Slips)
    /\ slipped \subseteq record
    /\ follower \in {"following", "waiting", "stopped"}
    /\ next \in 1 .. Len(inbox) + 1
    /\ troubles \in 0 .. MaxTroubles
    /\ seen \subseteq Slips
    /\ unread \subseteq Slips
    /\ screen \in [Screens -> ScreenAt]
    /\ looking \in [Screens -> Topics \cup {None}]
    /\ found \in [Screens -> SUBSET Slips]
    /\ shown \subseteq Slips
    /\ lapsed \subseteq Slips

Init ==
    /\ record = {}
    /\ inbox = <<>>
    /\ slipped = {}
    /\ follower = "following"
    /\ next = 1
    /\ troubles = 0
    /\ seen = {}
    /\ unread = {}
    /\ screen = [v \in Screens |-> "closed"]
    /\ looking = [v \in Screens |-> None]
    /\ found = [v \in Screens |-> {}]
    /\ shown = {}
    /\ lapsed = {}

-----------------------------------------------------------------------------
(* The record: somebody writes @name, and the library drops a slip.  A slip  *)
(* is a pointer, never a claim: anybody may drop one.                        *)

Posts(s) ==
    /\ s \notin record
    /\ record' = record \cup {s}
    /\ UNCHANGED <<inbox, slipped, followVars, seen, unread, screenVars>>

SlipDropped(s) ==
    /\ s \in record \ slipped
    /\ slipped' = slipped \cup {s}
    /\ inbox' = Append(inbox, s)
    /\ UNCHANGED <<record, followVars, seen, unread, screenVars>>

\* A forged slip: before its message was written, a second time, or over a
\* message that says nothing.
SlipForged(s) ==
    /\ troubles < MaxTroubles
    /\ troubles' = troubles + 1
    /\ inbox' = Append(inbox, s)
    /\ UNCHANGED <<record, slipped, follower, next, seen, unread, screenVars>>

-----------------------------------------------------------------------------
(* followInbox and tap. *)

\* Faulty variant of Tap: no memory of what was tallied before.
TapForgetful ==
    /\ follower = "following"
    /\ next <= Len(inbox)
    /\ next' = next + 1
    /\ LET s == inbox[next] IN
          /\ seen' = seen \cup {s}
          /\ unread' = unread \cup {s}
    /\ UNCHANGED <<recordVars, follower, troubles, screenVars>>

\* Faulty variant of Tap: the slip is marked seen and not tallied.
TapDropped ==
    /\ follower = "following"
    /\ next <= Len(inbox)
    /\ next' = next + 1
    /\ seen' = seen \cup {inbox[next]}
    /\ UNCHANGED <<recordVars, follower, troubles, unread, screenVars>>

\* One slip is delivered; a slip already tallied is ignored.
Tap ==
    /\ follower = "following"
    /\ next <= Len(inbox)
    /\ next' = next + 1
    /\ LET s == inbox[next] IN
          /\ seen' = seen \cup {s}
          /\ unread' = IF s \in seen THEN unread ELSE unread \cup {s}
    /\ UNCHANGED <<recordVars, follower, troubles, screenVars>>

\* FollowInbox returns an error, and its place in the inbox is lost: two
\* seconds' wait.
Drop ==
    /\ follower = "following"
    /\ troubles < MaxTroubles
    /\ troubles' = troubles + 1
    /\ follower' = "waiting"
    /\ next' = 1
    /\ UNCHANGED <<recordVars, seen, unread, screenVars>>

\* Faulty variant of Reattach: the follower skips what came in meanwhile.
ReattachAtEnd ==
    /\ follower = "waiting"
    /\ follower' = "following"
    /\ next' = Len(inbox) + 1
    /\ UNCHANGED <<recordVars, troubles, seen, unread, screenVars>>

\* Faulty variant of Reattach: one entry before the first.
ReattachBeforeFirst ==
    /\ follower = "waiting"
    /\ follower' = "following"
    /\ next' = 0
    /\ UNCHANGED <<recordVars, troubles, seen, unread, screenVars>>

\* And again, from the beginning of the inbox.
Reattach ==
    /\ follower = "waiting"
    /\ follower' = "following"
    /\ UNCHANGED <<recordVars, next, troubles, seen, unread, screenVars>>

\* The session is closed: stop() cancels the follower.
StopFollowing ==
    /\ follower # "stopped"
    /\ follower' = "stopped"
    /\ next' = 1
    /\ UNCHANGED <<recordVars, troubles, seen, unread, screenVars>>

-----------------------------------------------------------------------------
(* A live stream.  Each tick settles which conversation it is about, reads   *)
(* it, clears its marks, then renders; the tray's lock is held for the       *)
(* clearing alone, never while the record is read.                           *)

\* Somebody signed in opens a stream.  It names its conversation, or leaves it to
\* each tick: the front page to LastLive, an agent's room to its newest home.
Opens(v) ==
    /\ follower # "stopped"
    /\ screen[v] = "closed"
    /\ screen' = [screen EXCEPT ![v] = "ticking"]
    /\ looking' = [looking EXCEPT ![v] = Address[v]]
    /\ UNCHANGED <<recordVars, followVars, seen, unread, found, shown, lapsed>>

\* What a tick may settle on; nothing, where there is none to land in or the
\* reading that would say fails.
SettlesOn(v) == IF Address[v] = None THEN Topics \cup {None} ELSE {Address[v]}

\* The messages of a conversation nobody was shown though their mark is off.
Unshown(t) == {s \in (seen \ unread) \ shown : TopicOf(s) = t}

\* observe, roomRead: the conversation is settled and materialised, or it cannot
\* be read; the tick goes on with nothing then.
Observes(v, t) ==
    /\ screen[v] = "ticking"
    /\ t \in SettlesOn(v)
    /\ screen' = [screen EXCEPT ![v] = "observed"]
    /\ looking' = [looking EXCEPT ![v] = t]
    /\ LET left == IF looking[v] = t THEN {} ELSE Unshown(looking[v])
       IN  \/ /\ found' = [found EXCEPT ![v] = {s \in record : TopicOf(s) = t}]
              /\ lapsed' = lapsed \cup left
           \/ /\ found' = [found EXCEPT ![v] = {}]
              /\ lapsed' = lapsed \cup left \cup Unshown(t)
    /\ UNCHANGED <<recordVars, followVars, seen, unread, shown>>

\* Session.Read: the conversation's marks go, whatever observe found.
Reads(v) ==
    /\ screen[v] = "observed"
    /\ screen' = [screen EXCEPT ![v] = "cleared"]
    /\ unread' = {s \in unread : TopicOf(s) # looking[v]}
    /\ UNCHANGED <<recordVars, followVars, seen, looking, found, shown, lapsed>>

\* The elements go out: the thread, and the tally of what is left (Standing).
Renders(v) ==
    /\ screen[v] = "cleared"
    /\ screen' = [screen EXCEPT ![v] = "ticking"]
    /\ found' = [found EXCEPT ![v] = {}]
    /\ shown' = shown \cup found[v]
    /\ lapsed' = lapsed \ found[v]
    /\ UNCHANGED <<recordVars, followVars, seen, unread, looking>>

\* A tick for somebody who left clears the marks and writes to nobody.
Clears(v) ==
    /\ screen[v] = "gone"
    /\ screen' = [screen EXCEPT ![v] = "closed"]
    /\ looking' = [looking EXCEPT ![v] = None]
    /\ unread' = {s \in unread : TopicOf(s) # looking[v]}
    /\ lapsed' = lapsed \cup {s \in seen \ shown : TopicOf(s) = looking[v]}
    /\ UNCHANGED <<recordVars, followVars, seen, found, shown>>

\* The person leaves.  A tick that has read its conversation goes on to clear it.
Closes(v) ==
    /\ screen[v] \in {"ticking", "observed", "cleared"}
    /\ found' = [found EXCEPT ![v] = {}]
    /\ lapsed' = lapsed \cup Unshown(looking[v])
    /\ IF screen[v] = "observed"
       THEN screen' = [screen EXCEPT ![v] = "gone"] /\ UNCHANGED looking
       ELSE /\ screen' = [screen EXCEPT ![v] = "closed"]
            /\ looking' = [looking EXCEPT ![v] = None]
    /\ UNCHANGED <<recordVars, followVars, seen, unread, shown>>

-----------------------------------------------------------------------------
Tick(v) ==
    \/ \E t \in Topics \cup {None} : Observes(v, t)
    \/ Reads(v) \/ Renders(v) \/ Clears(v)

Next ==
    \/ \E s \in Slips : Posts(s) \/ SlipDropped(s) \/ SlipForged(s)
    \/ Tap \/ Drop \/ Reattach \/ StopFollowing
    \/ \E v \in Screens : Opens(v) \/ Tick(v) \/ Closes(v)

Spec == Init /\ [][Next]_vars

\* The follower's goroutine and each open stream's ticker run on; the library
\* drops the slip of every message it posted.
Fairness ==
    /\ WF_vars(Tap)
    /\ WF_vars(Reattach)
    /\ \A s \in Slips : WF_vars(SlipDropped(s))
    /\ \A v \in Screens : WF_vars(Tick(v))

FairSpec == Spec /\ Fairness

-----------------------------------------------------------------------------
(* What must hold. *)

\* Where a slip stands in the promise of Mentions.
Life(s) == CASE s \in unread -> "unread"
             [] s \in seen \ unread -> "read"
             [] s \in ToSet(inbox) \ seen -> "inbox"
             [] OTHER -> "none"

Promise == INSTANCE Mentions WITH life <- [s \in Slips |-> Life(s)]

\* An inbox replayed after a reconnect, or a slip dropped again, never resurrects
\* a message already read; a mark is raised only over a slip in the inbox and
\* stands until its whole conversation is read.
KeepsTheTray == Promise!Spec

\* Every message that mentions this person raises its mark or is read, however
\* often the inbox goes away, unless they sign out.
EveryMentionIsTallied ==
    \A s \in Slips : s \in record ~> (s \in seen \/ follower = "stopped")

\* A message whose mark is off is in the end shown, at the latest by the next
\* tick: unless that tick cannot read its conversation, or the screen that
\* cleared the mark was closed, or settled on another conversation, before.
ClearedIsShown ==
    \A s \in Slips :
        s \in record \cap (seen \ unread) ~> (s \in shown \/ s \in lapsed)
=============================================================================
