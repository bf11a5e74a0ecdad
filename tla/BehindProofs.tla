---------------------------- MODULE BehindProofs -----------------------------
(***************************************************************************)
(* Proofs about Behind, for any number of conversations, messages, screens *)
(* and losses of the inbox; of personas, readers and look-ups that go      *)
(* unanswered; of requests, approvers and taps under way.                  *)
(***************************************************************************)
EXTENDS Behind, SequenceTheorems, TLAPS

-----------------------------------------------------------------------------
(* The tray. *)

\* What is tallied but for what was tallied before is only what is on the
\* inbox: the tray's marks are always among what it has seen.
MarksAreSeen == unread \subseteq seen

\* Each step keeps the marks among what was seen.
LEMMA StepKeepsMarks ==
  ASSUME MarksAreSeen, [Next]_vars
  PROVE  MarksAreSeen'
<1>1. ASSUME NEW s \in Slips, Posts(s) \/ SlipDropped(s) \/ SlipForged(s)
      PROVE  UNCHANGED <<seen, unread>>
  BY <1>1 DEF Posts, SlipDropped, SlipForged, followVars, screenVars
<1>2. CASE Tap
  BY <1>2 DEF Tap, MarksAreSeen, screenVars
<1>3. CASE Drop \/ Reattach \/ StopFollowing
  BY <1>3 DEF Drop, Reattach, StopFollowing, MarksAreSeen, screenVars
<1>4. ASSUME NEW v \in Screens, Opens(v) \/ Tick(v) \/ Closes(v)
      PROVE  UNCHANGED seen /\ unread' \subseteq unread
  BY <1>4 DEF Opens, Tick, Observes, Reads, Renders, Clears, Closes, followVars
<1>5. CASE UNCHANGED vars
  BY <1>5 DEF vars, MarksAreSeen
<1> QED
  BY <1>1, <1>2, <1>3, <1>4, <1>5 DEF Next, MarksAreSeen

\* Only what was dropped in the inbox is tallied.
SeenWereDropped == seen \subseteq ToSet(inbox)

\* The follower has tallied all it has passed.
NonePassedOver == \A k \in 1 .. next - 1 : inbox[k] \in seen

\* A mark that went is over a message that was shown, or a screen that is still
\* at its conversation is to show it, or went on before it did.
ClearedIsOwed ==
    \A s \in seen \ unread :
        \/ s \in shown \cup lapsed
        \/ \E v \in Screens : screen[v] # "closed" /\ looking[v] = TopicOf(s)

TrayInv ==
    TypeOK /\ MarksAreSeen /\ SeenWereDropped /\ NonePassedOver /\ ClearedIsOwed

\* Nothing is posted, seen or shown at first.
LEMMA TrayStarts == Init => TrayInv
<1> SUFFICES ASSUME Init PROVE TrayInv
  OBVIOUS
<1>1. inbox \in Seq(Slips) /\ next \in 1 .. Len(inbox) + 1
  BY DEF Init
<1>2. troubles \in 0 .. MaxTroubles
  BY BoundsAssumption DEF Init
<1> QED
  BY <1>1, <1>2
     DEF Init, TrayInv, TypeOK, MarksAreSeen, SeenWereDropped, NonePassedOver, ClearedIsOwed,
         ScreenAt

\* What an inbox holds once one more slip is dropped in it.
LEMMA DroppedLast ==
  ASSUME NEW q \in Seq(Slips), NEW s \in Slips
  PROVE  /\ Append(q, s) \in Seq(Slips)
         /\ Len(Append(q, s)) = Len(q) + 1
         /\ \A k \in 1 .. Len(q) : Append(q, s)[k] = q[k]
         /\ ToSet(Append(q, s)) = ToSet(q) \cup {s}
<1>1. /\ Append(q, s) \in Seq(Slips) /\ Len(Append(q, s)) = Len(q) + 1 /\ Len(q) \in Nat
      /\ \A k \in 1 .. Len(q) : Append(q, s)[k] = q[k]
      /\ Append(q, s)[Len(q) + 1] = s
  OBVIOUS
<1>2. DOMAIN q = 1 .. Len(q) /\ DOMAIN Append(q, s) = 1 .. Len(q) + 1
  BY <1>1
<1>3. 1 .. Len(q) + 1 = (1 .. Len(q)) \cup {Len(q) + 1}
  BY <1>1
<1> QED
  BY <1>1, <1>2, <1>3 DEF ToSet

\* What is dropped in the inbox, and how the follower reads it.
LEMMA FollowerTyped ==
  ASSUME TypeOK, UNCHANGED screenVars,
         \/ \E s \in Slips : Posts(s) \/ SlipDropped(s) \/ SlipForged(s)
         \/ Tap \/ Drop \/ Reattach \/ StopFollowing
  PROVE  TypeOK'
<1>1. /\ record \subseteq Slips /\ inbox \in Seq(Slips) /\ next \in 1 .. Len(inbox) + 1
      /\ troubles \in 0 .. MaxTroubles /\ seen \subseteq Slips /\ unread \subseteq Slips
      /\ follower \in {"following", "waiting", "stopped"} /\ Len(inbox) \in Nat
      /\ slipped \subseteq record
  BY DEF TypeOK
<1>2. ASSUME inbox' \in Seq(Slips), next' \in 1 .. Len(inbox') + 1, troubles' \in 0 .. MaxTroubles,
             record' \subseteq Slips, seen' \subseteq Slips, unread' \subseteq Slips,
             follower' \in {"following", "waiting", "stopped"}, slipped' \subseteq record'
      PROVE  TypeOK'
  BY <1>2 DEF TypeOK, screenVars
<1>3. ASSUME NEW s \in Slips, Posts(s) PROVE TypeOK'
  BY <1>1, <1>2, <1>3 DEF Posts, followVars
<1>4. ASSUME NEW s \in Slips, SlipDropped(s) PROVE TypeOK'
  <2>1. /\ inbox' = Append(inbox, s) /\ UNCHANGED <<record, followVars, seen, unread>>
        /\ slipped' = slipped \cup {s} /\ s \in record
    BY <1>4 DEF SlipDropped
  <2>2. inbox' \in Seq(Slips) /\ Len(inbox') = Len(inbox) + 1
    BY <1>1, <2>1, DroppedLast
  <2> QED
    BY <1>1, <1>2, <2>1, <2>2 DEF followVars
<1>5. ASSUME NEW s \in Slips, SlipForged(s) PROVE TypeOK'
  <2>1. /\ inbox' = Append(inbox, s) /\ troubles < MaxTroubles /\ troubles' = troubles + 1
        /\ UNCHANGED <<record, slipped, follower, next, seen, unread>>
    BY <1>5 DEF SlipForged
  <2>2. inbox' \in Seq(Slips) /\ Len(inbox') = Len(inbox) + 1
    BY <1>1, <2>1, DroppedLast
  <2>3. troubles' \in 0 .. MaxTroubles
    BY <1>1, <2>1, BoundsAssumption
  <2> QED
    BY <1>1, <1>2, <2>1, <2>2, <2>3
<1>6. CASE Tap
  <2>1. inbox[next] \in Slips /\ next \in 1 .. Len(inbox)
    BY <1>1, <1>6, ElementOfSeq DEF Tap
  <2> QED
    BY <1>1, <1>2, <1>6, <2>1 DEF Tap, recordVars
<1>7. CASE Drop
  BY <1>1, <1>2, <1>7, BoundsAssumption DEF Drop, recordVars
<1>8. CASE Reattach
  BY <1>1, <1>2, <1>8 DEF Reattach, recordVars
<1>9. CASE StopFollowing
  BY <1>1, <1>2, <1>9 DEF StopFollowing, recordVars
<1> QED
  BY <1>3, <1>4, <1>5, <1>6, <1>7, <1>8, <1>9

\* What the screens find and show are messages of the record.
LEMMA ScreensTyped ==
  ASSUME TypeOK, NEW v \in Screens, Opens(v) \/ Tick(v) \/ Closes(v)
  PROVE  TypeOK'
<1>1. /\ record \subseteq Slips /\ seen \subseteq Slips /\ unread \subseteq Slips
      /\ shown \subseteq Slips /\ lapsed \subseteq Slips
      /\ screen \in [Screens -> ScreenAt] /\ looking \in [Screens -> Topics \cup {None}]
      /\ found \in [Screens -> SUBSET Slips]
  BY DEF TypeOK
<1>2. UNCHANGED <<recordVars, followVars, seen>>
  BY DEF Opens, Tick, Observes, Reads, Renders, Clears, Closes
<1>3. ASSUME NEW to \in ScreenAt, NEW of \in Topics \cup {None}, NEW what \in SUBSET Slips,
             screen' = [screen EXCEPT ![v] = to],
             looking' = looking \/ looking' = [looking EXCEPT ![v] = of],
             found' = found \/ found' = [found EXCEPT ![v] = what],
             unread' \subseteq Slips, shown' \subseteq Slips, lapsed' \subseteq Slips
      PROVE  TypeOK'
  <2>1. /\ screen' \in [Screens -> ScreenAt] /\ looking' \in [Screens -> Topics \cup {None}]
        /\ found' \in [Screens -> SUBSET Slips]
    BY <1>1, <1>3
  <2> QED
    BY <1>2, <1>3, <2>1 DEF TypeOK, recordVars, followVars
<1>4. /\ {"closed", "ticking", "observed", "cleared", "gone"} \subseteq ScreenAt
      /\ None \in Topics \cup {None} /\ {} \in SUBSET Slips
      /\ \A t : Unshown(t) \subseteq Slips
  BY <1>1 DEF ScreenAt, Unshown
<1>5. CASE Opens(v)
  <2>1. Address[v] \in Topics \cup {None}
    BY BoundsAssumption
  <2> QED
    BY <1>1, <1>3, <1>4, <1>5, <2>1 DEF Opens
<1>6. ASSUME NEW t \in Topics \cup {None}, Observes(v, t) PROVE TypeOK'
  <2>1. PICK what \in SUBSET Slips : found' = [found EXCEPT ![v] = what]
    BY <1>1, <1>6 DEF Observes
  <2>2. /\ screen' = [screen EXCEPT ![v] = "observed"]
        /\ looking' = [looking EXCEPT ![v] = t] /\ UNCHANGED <<unread, shown>>
    BY <1>6 DEF Observes
  <2>3. lapsed' \subseteq Slips
    BY <1>1, <1>4, <1>6 DEF Observes
  <2> QED
    BY <1>1, <1>3, <1>4, <2>1, <2>2, <2>3
<1>7. CASE Reads(v)
  BY <1>1, <1>3, <1>4, <1>7 DEF Reads
<1>8. CASE Renders(v)
  <2>1. shown' \subseteq Slips /\ lapsed' \subseteq Slips
    BY <1>1, <1>8 DEF Renders
  <2> QED
    BY <1>1, <1>3, <1>4, <1>8, <2>1 DEF Renders
<1>9. CASE Clears(v)
  BY <1>1, <1>3, <1>4, <1>9 DEF Clears
<1>10. CASE Closes(v)
  <2>1. PICK to \in ScreenAt : screen' = [screen EXCEPT ![v] = to]
    BY <1>4, <1>10 DEF Closes
  <2>2. /\ looking' = looking \/ looking' = [looking EXCEPT ![v] = None]
        /\ found' = [found EXCEPT ![v] = {}] /\ UNCHANGED <<unread, shown>>
        /\ lapsed' = lapsed \cup Unshown(looking[v])
    BY <1>10 DEF Closes
  <2>3. lapsed' \subseteq Slips
    BY <1>1, <1>4, <2>2
  <2> QED
    BY <1>1, <1>3, <1>4, <2>1, <2>2, <2>3
<1> QED
  BY <1>5, <1>6, <1>7, <1>8, <1>9, <1>10 DEF Tick

\* Slips are only added to the inbox, and the follower tallies what is there.
LEMMA StepSeesDropped ==
  ASSUME TypeOK, SeenWereDropped, [Next]_vars
  PROVE  SeenWereDropped'
<1>1. inbox \in Seq(Slips) /\ Len(inbox) \in Nat /\ next \in 1 .. Len(inbox) + 1
  BY DEF TypeOK
<1>2. CASE UNCHANGED <<inbox, seen>>
  BY <1>2 DEF SeenWereDropped
<1>3. ASSUME NEW s \in Slips, SlipDropped(s) \/ SlipForged(s) PROVE SeenWereDropped'
  <2>1. inbox' = Append(inbox, s) /\ seen' = seen
    BY <1>3 DEF SlipDropped, SlipForged
  <2>2. ToSet(Append(inbox, s)) = ToSet(inbox) \cup {s}
    BY <1>1, DroppedLast
  <2> QED
    BY <2>1, <2>2 DEF SeenWereDropped
<1>4. CASE Tap
  <2>1. /\ inbox' = inbox /\ seen' = seen \cup {inbox[next]} /\ next \in DOMAIN inbox
    BY <1>1, <1>4 DEF Tap, recordVars
  <2>2. inbox[next] \in ToSet(inbox)
    BY <2>1 DEF ToSet
  <2> QED
    BY <2>1, <2>2 DEF SeenWereDropped
<1>5. ASSUME NEW s \in Slips, Posts(s) PROVE SeenWereDropped'
  BY <1>2, <1>5 DEF Posts
<1>6. CASE Drop \/ Reattach \/ StopFollowing \/ UNCHANGED vars
  BY <1>2, <1>6 DEF Drop, Reattach, StopFollowing, vars, recordVars
<1>7. ASSUME NEW v \in Screens, Opens(v) \/ Tick(v) \/ Closes(v) PROVE SeenWereDropped'
  BY <1>2, <1>7 DEF Opens, Tick, Observes, Reads, Renders, Clears, Closes, recordVars
<1> QED
  BY <1>3, <1>4, <1>5, <1>6, <1>7 DEF Next

\* The follower goes from slip to slip, or back to the first.
LEMMA StepPassesNoneOver ==
  ASSUME TypeOK, NonePassedOver, [Next]_vars
  PROVE  NonePassedOver'
<1>1. /\ inbox \in Seq(Slips) /\ Len(inbox) \in Nat /\ next \in 1 .. Len(inbox) + 1
      /\ \A k \in 1 .. next - 1 : inbox[k] \in seen
  BY DEF TypeOK, NonePassedOver
<1>2. CASE UNCHANGED <<inbox, next, seen>>
  BY <1>2 DEF NonePassedOver
<1>3. ASSUME NEW s \in Slips, SlipDropped(s) \/ SlipForged(s) PROVE NonePassedOver'
  <2>1. inbox' = Append(inbox, s) /\ UNCHANGED <<next, seen>>
    BY <1>3 DEF SlipDropped, SlipForged, followVars
  <2>2. \A k \in 1 .. Len(inbox) : inbox'[k] = inbox[k]
    BY <1>1, <2>1, DroppedLast
  <2> QED
    BY <1>1, <2>1, <2>2 DEF NonePassedOver
<1>4. CASE Tap
  <2>1. next' = next + 1 /\ seen' = seen \cup {inbox[next]} /\ inbox' = inbox
    BY <1>4 DEF Tap, recordVars
  <2>2. \A k \in 1 .. next' - 1 : k \in 1 .. next - 1 \/ k = next
    BY <1>1, <2>1
  <2> QED
    BY <1>1, <2>1, <2>2 DEF NonePassedOver
<1>5. CASE Drop \/ StopFollowing
  BY <1>5 DEF Drop, StopFollowing, NonePassedOver
<1>6. ASSUME NEW s \in Slips, Posts(s) PROVE NonePassedOver'
  BY <1>2, <1>6 DEF Posts, followVars
<1>7. CASE Reattach \/ UNCHANGED vars
  BY <1>2, <1>7 DEF Reattach, vars, followVars, recordVars
<1>8. ASSUME NEW v \in Screens, Opens(v) \/ Tick(v) \/ Closes(v) PROVE NonePassedOver'
  BY <1>2, <1>8
     DEF Opens, Tick, Observes, Reads, Renders, Clears, Closes, followVars, recordVars
<1> QED
  BY <1>3, <1>4, <1>5, <1>6, <1>7, <1>8 DEF Next

\* Whoever clears a mark is at its conversation; whoever goes on leaves word.
LEMMA StepOwes ==
  ASSUME TypeOK, ClearedIsOwed, [Next]_vars
  PROVE  ClearedIsOwed'
<1>1. /\ screen \in [Screens -> ScreenAt] /\ looking \in [Screens -> Topics \cup {None}]
      /\ seen \subseteq Slips
  BY DEF TypeOK
<1> DEFINE AtIt(v, s) == screen[v] # "closed" /\ looking[v] = TopicOf(s)
           Owed(s) == s \in shown \cup lapsed \/ \E v \in Screens : AtIt(v, s)
<1>2. \A s \in seen \ unread : Owed(s)
  BY DEF ClearedIsOwed
<1>3. ASSUME \A s \in seen' \ unread' : Owed(s)'
      PROVE  ClearedIsOwed'
  BY <1>3 DEF ClearedIsOwed
<1>4. CASE UNCHANGED <<seen, unread, screenVars>>
  BY <1>4 DEF ClearedIsOwed, screenVars
<1>5. ASSUME NEW s \in Slips, Posts(s) \/ SlipDropped(s) \/ SlipForged(s) PROVE ClearedIsOwed'
  BY <1>4, <1>5 DEF Posts, SlipDropped, SlipForged
<1>6. CASE Drop \/ Reattach \/ StopFollowing \/ UNCHANGED vars
  BY <1>4, <1>6 DEF Drop, Reattach, StopFollowing, vars
<1>7. CASE Tap
  <2>1. UNCHANGED screenVars /\ seen' \ unread' \subseteq seen \ unread
    BY <1>7 DEF Tap
  <2> QED
    BY <1>2, <1>3, <2>1 DEF screenVars
<1>8. ASSUME NEW v \in Screens, seen' = seen, unread' \subseteq unread,
             shown \cup lapsed \subseteq shown' \cup lapsed',
             \A u \in Screens : u # v => screen'[u] = screen[u] /\ looking'[u] = looking[u],
             \A s \in seen \ unread' :
                s \in unread \/ AtIt(v, s) =>
                    s \in shown' \cup lapsed' \/ AtIt(v, s)'
      PROVE  ClearedIsOwed'
  <2>1. ASSUME NEW s \in seen' \ unread' PROVE Owed(s)'
    <3>1. CASE s \in unread \/ AtIt(v, s)
      BY <1>8, <2>1, <3>1
    <3>2. CASE s \notin unread /\ ~ AtIt(v, s)
      <4>1. s \in shown \cup lapsed \/ \E u \in Screens : u # v /\ AtIt(u, s)
        BY <1>2, <1>8, <2>1, <3>2
      <4> QED
        BY <1>8, <4>1
    <3> QED
      BY <3>1, <3>2
  <2> QED
    BY <1>3, <2>1
<1>9. ASSUME NEW v \in Screens, Opens(v) PROVE ClearedIsOwed'
  <2>1. /\ screen[v] = "closed" /\ UNCHANGED <<seen, unread, shown, lapsed>>
        /\ screen' = [screen EXCEPT ![v] = "ticking"]
        /\ looking' = [looking EXCEPT ![v] = Address[v]]
    BY <1>9 DEF Opens
  <2>2. \A u \in Screens : u # v => screen'[u] = screen[u] /\ looking'[u] = looking[u]
    BY <1>1, <2>1
  <2> QED
    BY <1>8, <2>1, <2>2
<1>10. ASSUME NEW v \in Screens, NEW t \in Topics \cup {None}, Observes(v, t)
       PROVE  ClearedIsOwed'
  <2>1. /\ UNCHANGED <<seen, unread, shown>> /\ lapsed \subseteq lapsed'
        /\ screen' = [screen EXCEPT ![v] = "observed"] /\ looking' = [looking EXCEPT ![v] = t]
        /\ looking[v] # t => Unshown(looking[v]) \subseteq lapsed'
    BY <1>10 DEF Observes
  <2>2. /\ screen'[v] # "closed" /\ looking'[v] = t
        /\ \A u \in Screens : u # v => screen'[u] = screen[u] /\ looking'[u] = looking[u]
    BY <1>1, <2>1
  <2>3. ASSUME NEW s \in seen \ unread, AtIt(v, s)
        PROVE  s \in shown \cup lapsed' \/ AtIt(v, s)'
    BY <2>1, <2>2, <2>3 DEF Unshown
  <2> QED
    BY <1>8, <2>1, <2>2, <2>3
<1>11. ASSUME NEW v \in Screens, Reads(v) PROVE ClearedIsOwed'
  <2>1. /\ screen'[v] # "closed" /\ UNCHANGED <<seen, looking, shown, lapsed>>
        /\ unread' = {s \in unread : TopicOf(s) # looking[v]}
        /\ \A u \in Screens : u # v => screen'[u] = screen[u] /\ looking'[u] = looking[u]
    BY <1>1, <1>11 DEF Reads
  <2> QED
    BY <1>8, <2>1
<1>12. ASSUME NEW v \in Screens, Renders(v) PROVE ClearedIsOwed'
  <2>1. /\ screen'[v] # "closed" /\ UNCHANGED <<seen, unread, looking>>
        /\ shown' = shown \cup found[v] /\ lapsed' = lapsed \ found[v]
        /\ \A u \in Screens : u # v => screen'[u] = screen[u] /\ looking'[u] = looking[u]
    BY <1>1, <1>12 DEF Renders
  <2> QED
    BY <1>8, <2>1
<1>13. ASSUME NEW v \in Screens, Clears(v) PROVE ClearedIsOwed'
  <2>1. /\ UNCHANGED <<seen, shown>>
        /\ unread' = {s \in unread : TopicOf(s) # looking[v]}
        /\ lapsed' = lapsed \cup {s \in seen \ shown : TopicOf(s) = looking[v]}
    BY <1>13 DEF Clears
  <2>2. \A u \in Screens : u # v => screen'[u] = screen[u] /\ looking'[u] = looking[u]
    BY <1>1, <1>13 DEF Clears
  <2> QED
    BY <1>8, <2>1, <2>2
<1>14. ASSUME NEW v \in Screens, Closes(v) PROVE ClearedIsOwed'
  <2>1. UNCHANGED <<seen, unread, shown>> /\ lapsed' = lapsed \cup Unshown(looking[v])
    BY <1>14 DEF Closes
  <2>2. \A u \in Screens : u # v => screen'[u] = screen[u] /\ looking'[u] = looking[u]
    BY <1>1, <1>14 DEF Closes
  <2> QED
    BY <1>8, <2>1, <2>2 DEF Unshown
<1> QED
  BY <1>5, <1>6, <1>7, <1>9, <1>10, <1>11, <1>12, <1>13, <1>14 DEF Next, Tick

\* Every step of the tray.
LEMMA TrayKeeps == TrayInv /\ [Next]_vars => TrayInv'
<1> SUFFICES ASSUME TrayInv, [Next]_vars PROVE TrayInv'
  OBVIOUS
<1>1. MarksAreSeen' /\ SeenWereDropped' /\ NonePassedOver' /\ ClearedIsOwed'
  BY StepKeepsMarks, StepSeesDropped, StepPassesNoneOver, StepOwes DEF TrayInv
<1>2. CASE \/ \E s \in Slips : Posts(s) \/ SlipDropped(s) \/ SlipForged(s)
           \/ Tap \/ Drop \/ Reattach \/ StopFollowing
  <2>1. UNCHANGED screenVars
    BY <1>2 DEF Posts, SlipDropped, SlipForged, Tap, Drop, Reattach, StopFollowing
  <2> QED
    BY <1>1, <1>2, <2>1, FollowerTyped DEF TrayInv
<1>3. ASSUME NEW v \in Screens, Opens(v) \/ Tick(v) \/ Closes(v)
      PROVE  TrayInv'
  BY <1>1, <1>3, ScreensTyped DEF TrayInv
<1>4. CASE UNCHANGED vars
  BY <1>1, <1>4 DEF TrayInv, TypeOK, vars, recordVars, followVars, screenVars
<1> QED
  BY <1>2, <1>3, <1>4 DEF Next

-----------------------------------------------------------------------------
(* Tray implements Mentions: each step takes slips on in their lives as the   *)
(* promise says, or leaves all of them where they were.                      *)

PromiseStep == [Promise!Next]_([s \in Slips |-> Life(s)])

\* Where a slip stands, told from what the tray holds.
LEMMA WhereItStands ==
  ASSUME TrayInv, NEW s \in Slips
  PROVE  /\ s \notin ToSet(inbox) => Life(s) = "none"
         /\ s \in ToSet(inbox) \ seen => Life(s) = "inbox"
         /\ s \in seen \ unread => Life(s) = "read"
         /\ s \in unread => Life(s) = "unread"
BY DEF Life, TrayInv, MarksAreSeen, SeenWereDropped

\* And after a step.
LEMMA WhereItStandsNext ==
  ASSUME TrayInv', NEW s \in Slips
  PROVE  /\ s \notin ToSet(inbox)' => Life(s)' = "none"
         /\ s \in ToSet(inbox)' \ seen' => Life(s)' = "inbox"
         /\ s \in seen' \ unread' => Life(s)' = "read"
         /\ s \in unread' => Life(s)' = "unread"
BY DEF Life, TrayInv, MarksAreSeen, SeenWereDropped

\* A step that touches neither what is in the inbox nor the tallies is a stutter
\* of the promise.
LEMMA TrayStutters ==
  ASSUME ToSet(inbox)' = ToSet(inbox), UNCHANGED <<seen, unread>>
  PROVE  PromiseStep
<1>1. \A s \in Slips : Life(s)' = Life(s)
  BY DEF Life
<1> QED
  BY <1>1 DEF PromiseStep

\* One slip goes on, and the others stand where they were.
LEMMA OneGoesOn ==
  ASSUME NEW s \in Slips,
         \A d \in Slips : d # s => Life(d)' = Life(d),
         \/ Life(s) = "none" /\ Life(s)' = "inbox"
         \/ Life(s) = "inbox" /\ Life(s)' = "unread"
  PROVE  PromiseStep
<1>1. Promise!Arrives(s) \/ Promise!Marks(s)
  BY DEF Promise!Arrives, Promise!Marks
<1> QED
  BY <1>1 DEF PromiseStep, Promise!Next

\* A conversation is read, whatever becomes of the screen that reads it.
LEMMA OneIsRead ==
  ASSUME TrayInv, TrayInv', NEW t \in Topics \cup {None}, UNCHANGED <<inbox, seen>>,
         unread' = {s \in unread : TopicOf(s) # t}
  PROVE  PromiseStep
<1>1. unread \subseteq seen /\ unread \subseteq Slips
  BY DEF TrayInv, MarksAreSeen, TypeOK
<1>2. CASE t = None
  <2>1. unread' = unread
    BY <1>1, <1>2, BoundsAssumption DEF Slips, TopicOf
  <2> QED
    BY <2>1, TrayStutters
<1>3. CASE t \in Topics
  <2>1. ASSUME NEW s \in Slips
        PROVE  Life(s)' = IF TopicOf(s) = t /\ Life(s) = "unread" THEN "read" ELSE Life(s)
    <3>1. CASE s \in unread
      BY <1>1, <3>1, WhereItStands, WhereItStandsNext
    <3>2. CASE s \notin unread
      BY <3>2 DEF Life
    <3> QED
      BY <3>1, <3>2
  <2>2. Promise!Read(t)
    BY <2>1 DEF Promise!Read
  <2> QED
    BY <1>3, <2>2 DEF PromiseStep, Promise!Next
<1> QED
  BY <1>2, <1>3

\* Every step of the tray is one of the promise.
LEMMA TrayPromises == TrayInv /\ [Next]_vars => PromiseStep
<1> SUFFICES ASSUME TrayInv, [Next]_vars PROVE PromiseStep
  OBVIOUS
<1>1. TrayInv'
  BY TrayKeeps
<1>2. /\ inbox \in Seq(Slips) /\ Len(inbox) \in Nat /\ next \in 1 .. Len(inbox) + 1
      /\ unread \subseteq seen /\ seen \subseteq ToSet(inbox)
      /\ looking \in [Screens -> Topics \cup {None}]
  BY DEF TrayInv, TypeOK, MarksAreSeen, SeenWereDropped
<1>3. ASSUME NEW s \in Slips, SlipDropped(s) \/ SlipForged(s) PROVE PromiseStep
  <2>1. inbox' = Append(inbox, s) /\ UNCHANGED <<seen, unread>>
    BY <1>3 DEF SlipDropped, SlipForged
  <2>2. ToSet(inbox)' = ToSet(inbox) \cup {s}
    BY <1>2, <2>1, DroppedLast
  <2>3. CASE s \in ToSet(inbox)
    <3>1. ToSet(inbox)' = ToSet(inbox)
      BY <2>2, <2>3
    <3> QED
      BY <2>1, <3>1, TrayStutters
  <2>4. CASE s \notin ToSet(inbox)
    <3>1. Life(s) = "none" /\ Life(s)' = "inbox"
      BY <1>1, <1>2, <2>1, <2>2, <2>4, WhereItStands, WhereItStandsNext
    <3>2. \A d \in Slips : d # s => Life(d)' = Life(d)
      BY <2>1, <2>2 DEF Life
    <3> QED
      BY <3>1, <3>2, OneGoesOn
  <2> QED
    BY <2>3, <2>4
<1>4. CASE Tap
  <2>1. PICK s \in Slips : s = inbox[next] /\ s \in ToSet(inbox)
    <3>1. next \in 1 .. Len(inbox) /\ next \in DOMAIN inbox
      BY <1>2, <1>4 DEF Tap
    <3>2. inbox[next] \in Slips
      BY <1>2, <3>1, ElementOfSeq
    <3> QED
      BY <3>1, <3>2 DEF ToSet
  <2>2. seen' = seen \cup {s} /\ inbox' = inbox
        /\ unread' = IF s \in seen THEN unread ELSE unread \cup {s}
    BY <1>4, <2>1 DEF Tap, recordVars
  <2>3. CASE s \in seen
    BY <2>2, <2>3, TrayStutters
  <2>4. CASE s \notin seen
    <3>1. Life(s) = "inbox" /\ Life(s)' = "unread"
      BY <1>1, <2>1, <2>2, <2>4, WhereItStands, WhereItStandsNext
    <3>2. \A d \in Slips : d # s => Life(d)' = Life(d)
      BY <2>2, <2>4 DEF Life
    <3> QED
      BY <3>1, <3>2, OneGoesOn
  <2> QED
    BY <2>3, <2>4
<1>5. ASSUME NEW s \in Slips, Posts(s) PROVE PromiseStep
  BY <1>5, TrayStutters DEF Posts
<1>6. CASE Drop \/ Reattach \/ StopFollowing \/ UNCHANGED vars
  BY <1>6, TrayStutters DEF Drop, Reattach, StopFollowing, vars, recordVars
<1>7. ASSUME NEW v \in Screens, Reads(v) \/ Clears(v) PROVE PromiseStep
  <2>1. looking[v] \in Topics \cup {None}
    BY <1>2
  <2>2. unread' = {s \in unread : TopicOf(s) # looking[v]} /\ UNCHANGED <<inbox, seen>>
    BY <1>7 DEF Reads, Clears, recordVars
  <2> QED
    BY <1>1, <2>1, <2>2, OneIsRead
<1>8. ASSUME NEW v \in Screens,
             \/ Opens(v) \/ Renders(v) \/ Closes(v)
             \/ \E t \in Topics \cup {None} : Observes(v, t)
      PROVE  PromiseStep
  BY <1>8, TrayStutters DEF Opens, Observes, Renders, Closes, recordVars
<1> QED
  BY <1>3, <1>4, <1>5, <1>6, <1>7, <1>8 DEF Next, Tick

-----------------------------------------------------------------------------
(* The directory.  Its types are inductive on their own. *)

\* Nothing is known at first.
LEMMA DirectoryStarts == D!Init => D!TypeOK
<1>1. 0 \in 0 .. MaxMisses
  BY BehindAssumption
<1> QED
  BY <1>1 DEF D!Init, D!TypeOK

Asking == [id : Ids, at : {"asks", "knows"}, card : D!Card \cup {None}]

\* Every look-up, and what others publish.
LEMMA DirectoryKeeps ==
  ASSUME D!TypeOK, [D!Next]_directoryVars
  PROVE  D!TypeOK'
<1>1. /\ profiles \in [Ids -> Labels \cup {"", None}] /\ keys \in [Ids -> Labels \cup {None}]
      /\ cards \in [Ids -> D!Card \cup {None}] /\ asking \in [Readers -> {D!Free} \cup Asking]
      /\ own \in [Ids -> Labels \cup {None}] /\ held \in [Ids -> Labels \cup {None}]
      /\ misses \in 0 .. MaxMisses
  BY DEF D!TypeOK, Asking
<1>2. ASSUME profiles' \in [Ids -> Labels \cup {"", None}],
             keys' \in [Ids -> Labels \cup {None}],
             cards' \in [Ids -> D!Card \cup {None}],
             asking' \in [Readers -> {D!Free} \cup Asking],
             own' \in [Ids -> Labels \cup {None}], held' \in [Ids -> Labels \cup {None}],
             misses' \in 0 .. MaxMisses
      PROVE  D!TypeOK'
  BY <1>2 DEF D!TypeOK, Asking, D!Card, D!Free
<1>3. ASSUME NEW i \in Ids, NEW label \in Labels \cup {""}, D!Publishes(i, label)
      PROVE  D!TypeOK'
  BY <1>1, <1>2, <1>3 DEF D!Publishes
<1>4. ASSUME NEW i \in Ids, NEW k \in Labels, D!TakesKey(i, k) PROVE D!TypeOK'
  BY <1>1, <1>2, <1>4 DEF D!TakesKey
<1>5. CASE D!MinutePasses
  <2>1. cards' = [i \in Ids |-> IF cards[i] = None THEN None
                                ELSE [cards[i] EXCEPT !.fresh = FALSE]]
    BY <1>5 DEF D!MinutePasses
  <2>2. ASSUME NEW i \in Ids, cards[i] # None
        PROVE  [cards[i] EXCEPT !.fresh = FALSE] \in D!Card
    <3>1. cards[i] \in D!Card
      BY <1>1, <2>2
    <3> QED
      BY <3>1 DEF D!Card
  <2>3. cards' \in [Ids -> D!Card \cup {None}]
    BY <2>1, <2>2
  <2> QED
    BY <1>1, <1>2, <1>5, <2>3 DEF D!MinutePasses
<1>6. ASSUME NEW i \in Ids, D!ScreenName(i) PROVE D!TypeOK'
  <2>1. profiles[i] \in Labels
    BY <1>1, <1>6 DEF D!ScreenName, D!Named
  <2> QED
    BY <1>1, <1>2, <1>6, <2>1 DEF D!ScreenName
<1>7. ASSUME NEW i \in Ids, D!PersonaKey(i) PROVE D!TypeOK'
  BY <1>1, <1>2, <1>7 DEF D!PersonaKey
<1>8. ASSUME NEW r \in Readers, NEW i \in Ids, D!Asks(r, i) PROVE D!TypeOK'
  <2>1. [id |-> i, at |-> "asks", card |-> None] \in Asking
    BY DEF Asking
  <2> QED
    BY <1>1, <1>2, <1>8, <2>1 DEF D!Asks
<1>9. ASSUME NEW r \in Readers, NEW name \in Labels \cup {None}, D!Knows(r, name)
      PROVE  asking' \in [Readers -> {D!Free} \cup Asking]
  <2> DEFINE known == [name |-> name, fresh |-> TRUE]
  <2>1. asking[r] \in Asking
    <3>1. asking[r].at = "asks"
      BY <1>9 DEF D!Knows
    <3>2. D!Free.at = "free"
      BY DEF D!Free
    <3>3. asking[r] # D!Free
      BY <3>1, <3>2
    <3> QED
      BY <1>1, <3>3
  <2>2. asking' = [asking EXCEPT ![r] = [id |-> asking[r].id, at |-> "knows", card |-> known]]
    <3>1. asking' = [asking EXCEPT ![r].at = "knows", ![r].card = known]
      BY <1>9 DEF D!Knows
    <3> HIDE DEF known
    <3>2. asking[r] = [id |-> asking[r].id, at |-> asking[r].at, card |-> asking[r].card]
      BY <2>1 DEF Asking
    <3>3. [[asking[r] EXCEPT !.at = "knows"] EXCEPT !.card = known] =
          [id |-> asking[r].id, at |-> "knows", card |-> known]
      <4> DEFINE was == asking[r]
                 at == was.at
                 card == was.card
      <4>1. was = [id |-> was.id, at |-> at, card |-> card]
        BY <3>2
      <4> HIDE DEF at, card
      <4>2. [was EXCEPT !.at = "knows"] = [id |-> was.id, at |-> "knows", card |-> card]
        BY <4>1
      <4>3. [[id |-> was.id, at |-> "knows", card |-> card] EXCEPT !.card = known]
              = [id |-> was.id, at |-> "knows", card |-> known]
        OBVIOUS
      <4> QED
        BY <4>2, <4>3
    <3>4. asking' = [asking EXCEPT ![r] =
                        [[asking[r] EXCEPT !.at = "knows"] EXCEPT !.card = known]]
      BY <1>1, <3>1
    <3> QED
      BY <3>3, <3>4
  <2>3. [id |-> asking[r].id, at |-> "knows", card |-> known] \in Asking
    BY <2>1 DEF Asking, D!Card
  <2> HIDE DEF known
  <2> QED
    BY <1>1, <2>2, <2>3
<1>10. ASSUME NEW r \in Readers, asking[r].at # "free" PROVE asking[r].id \in Ids
  <2>1. D!Free.at = "free"
    BY DEF D!Free
  <2>2. asking[r] \in Asking
    BY <1>1, <1>10, <2>1
  <2> QED
    BY <2>2 DEF Asking
<1>11. ASSUME NEW r \in Readers, D!LooksUp(r) PROVE D!TypeOK'
  <2> DEFINE name == D!Named(profiles[asking[r].id])
  <2>1. D!Knows(r, name) /\ UNCHANGED <<profiles, keys, cards, own, held, misses>>
    BY <1>11 DEF D!LooksUp
  <2>2. asking[r].id \in Ids
    BY <1>10, <2>1 DEF D!Knows
  <2>3. name \in Labels \cup {None}
    BY <1>1, <2>2 DEF D!Named
  <2> HIDE DEF name
  <2> QED
    BY <1>1, <1>2, <1>9, <2>1, <2>3
<1>12. ASSUME NEW r \in Readers, D!Unanswered(r) PROVE D!TypeOK'
  <2>1. /\ misses < MaxMisses /\ misses' = misses + 1 /\ D!Knows(r, None)
        /\ UNCHANGED <<profiles, keys, cards, own, held>>
    BY <1>12 DEF D!Unanswered
  <2>2. misses' \in 0 .. MaxMisses
    <3>1. misses \in 0 .. MaxMisses /\ MaxMisses \in Nat
      BY <1>1, BehindAssumption
    <3> QED
      BY <2>1, <3>1
  <2> QED
    BY <1>1, <1>2, <1>9, <2>1, <2>2
<1>13. ASSUME NEW r \in Readers, D!Files(r) PROVE D!TypeOK'
  <2>1. asking[r] \in Asking
    <3>1. asking[r].at = "knows"
      BY <1>13 DEF D!Files
    <3>2. D!Free.at = "free"
      BY DEF D!Free
    <3>3. asking[r] # D!Free
      BY <3>1, <3>2
    <3> QED
      BY <1>1, <3>3
  <2>2. asking[r].id \in Ids /\ asking[r].card \in D!Card \cup {None}
    BY <2>1 DEF Asking
  <2>3. cards' \in [Ids -> D!Card \cup {None}] /\ asking' \in [Readers -> {D!Free} \cup Asking]
    BY <1>1, <1>13, <2>2 DEF D!Files
  <2> QED
    BY <1>1, <1>2, <1>13, <2>3 DEF D!Files
<1>14. CASE UNCHANGED directoryVars
  BY <1>14 DEF directoryVars, D!TypeOK
<1> QED
  BY <1>3, <1>4, <1>5, <1>6, <1>7, <1>8, <1>11, <1>12, <1>13, <1>14 DEF D!Next, D!LookUp

-----------------------------------------------------------------------------
(* The approvals.  SaidIsSo is not inductive alone: the line is written     *)
(* long after the plane judged, from what the tap remembers.                *)

TapTypes ==
    /\ tickets \in [Requests -> {"unasked", "waits"} \cup A!Verdicts]
    /\ taps \in [Calls -> {A!Free} \cup
            [request : Requests, yes : BOOLEAN,
             at : {"tapped", "signed", "taken", "refused"}]]
    /\ DOMAIN replies = Calls

\* A tap remembered as taken is what the plane holds of its request.
TakenIsSo ==
    \A c \in Calls : taps[c].at = "taken" => tickets[taps[c].request] = A!Verdict(c)

\* An answer is under way only of a tap that was judged.
RepliesAreJudged ==
    \A c \in Calls : replies[c] # None => taps[c].at \in {"taken", "refused"}

\* The line speaks of requests.
LineIsOfRequests == line[1] \in {"approved", "denied"} => line[2] \in Requests

ApprovalsInv == TapTypes /\ TakenIsSo /\ RepliesAreJudged /\ LineIsOfRequests /\ A!SaidIsSo

-----------------------------------------------------------------------------

\* What the plane may change: a request that was not asked yet or still waits.
PlaneMoves(r) ==
    /\ tickets[r] \in {"unasked", "waits"}
    /\ \E verdict \in {"waits"} \cup A!Verdicts : tickets' = [tickets EXCEPT ![r] = verdict]

\* No verdict is unsaid: while only a request without one moves, what was taken
\* and what the line says stay so.
LEMMA VerdictsStand ==
  ASSUME ApprovalsInv, NEW r \in Requests, PlaneMoves(r)
  PROVE  /\ tickets' \in [Requests -> {"unasked", "waits"} \cup A!Verdicts]
         /\ \A q \in Requests : tickets[q] \in A!Verdicts => tickets'[q] = tickets[q]
BY DEF ApprovalsInv, TapTypes, PlaneMoves, A!Verdicts

\* A step that leaves the taps and the line alone and unsays no verdict.
LEMMA QuietStep ==
  ASSUME ApprovalsInv, UNCHANGED <<taps, line>>,
         tickets' \in [Requests -> {"unasked", "waits"} \cup A!Verdicts],
         \A q \in Requests : tickets[q] \in A!Verdicts => tickets'[q] = tickets[q]
  PROVE  /\ TakenIsSo' /\ LineIsOfRequests' /\ A!SaidIsSo'
<1>1. ASSUME NEW c \in Calls, taps[c].at = "taken"
      PROVE  taps[c].request \in Requests /\ tickets'[taps[c].request] = A!Verdict(c)
  <2>1. taps[c] # A!Free
    BY <1>1 DEF A!Free
  <2>2. taps[c].request \in Requests
    BY <2>1 DEF ApprovalsInv, TapTypes
  <2>3. tickets[taps[c].request] = A!Verdict(c) /\ A!Verdict(c) \in A!Verdicts
    BY <1>1 DEF ApprovalsInv, TakenIsSo, A!Verdict, A!Verdicts
  <2> QED BY <2>2, <2>3
<1>2. TakenIsSo'
  BY <1>1 DEF TakenIsSo, A!Verdict
<1>3. LineIsOfRequests' /\ A!SaidIsSo'
  BY DEF ApprovalsInv, LineIsOfRequests, A!SaidIsSo, A!Verdicts
<1> QED BY <1>2, <1>3

\* The initial states satisfy the invariant.
LEMMA ApprovalsStart == A!Init => ApprovalsInv
BY DEF A!Init, A!List!Init, ApprovalsInv, TapTypes, TakenIsSo, RepliesAreJudged, LineIsOfRequests,
       A!SaidIsSo, A!Free

\* A tap's own steps up to the plane's judgement.
LEMMA BeforeJudgement ==
  ASSUME ApprovalsInv, NEW c \in Calls, UNCHANGED <<tickets, replies>>,
         taps[c].at \in {"free", "tapped"},
         \/ UNCHANGED line
         \/ line' = <<"not signed", taps[c].request>>,
         NEW tap \in {A!Free} \cup
            [request : Requests, yes : BOOLEAN,
             at : {"tapped", "signed"}],
         taps' = [taps EXCEPT ![c] = tap]
  PROVE  ApprovalsInv'
<1>1. replies[c] = None /\ tap.at \notin {"taken", "refused"}
  <2>1. replies[c] = None
    BY DEF ApprovalsInv, RepliesAreJudged
  <2>2. A!Free.at = "free"
    BY DEF A!Free
  <2>3. tap = A!Free \/ tap.at \in {"tapped", "signed"}
    OBVIOUS
  <2> QED BY <2>1, <2>2, <2>3
<1>2. TapTypes'
  BY DEF ApprovalsInv, TapTypes
<1>3. \A d \in Calls : d # c => taps'[d] = taps[d]
  BY DEF ApprovalsInv, TapTypes
<1>4. taps'[c] = tap
  BY DEF ApprovalsInv, TapTypes
<1>5. TakenIsSo'
  BY <1>1, <1>3, <1>4 DEF ApprovalsInv, TakenIsSo, A!Verdict
<1>6. RepliesAreJudged'
  BY <1>1, <1>3, <1>4 DEF ApprovalsInv, RepliesAreJudged
<1>7. LineIsOfRequests' /\ A!SaidIsSo'
  <2>1. CASE UNCHANGED line
    BY <2>1 DEF ApprovalsInv, LineIsOfRequests, A!SaidIsSo
  <2>2. CASE line' = <<"not signed", taps[c].request>>
    <3>1. line'[1] = "not signed"
      BY <2>2
    <3> QED BY <3>1 DEF LineIsOfRequests, A!SaidIsSo
  <2> QED BY <2>1, <2>2
<1> QED BY <1>2, <1>5, <1>6, <1>7 DEF ApprovalsInv

\* Each step preserves the invariant.
LEMMA ApprovalsKeep == ASSUME ApprovalsInv, [A!Next]_(A!vars) PROVE ApprovalsInv'
<1>1. CASE A!Plane
  <2>1. PICK r \in Requests : A!Asked(r) \/ A!Settled(r)
    BY <1>1 DEF A!Plane
  <2>2. PlaneMoves(r)
    BY <2>1 DEF A!Asked, A!Settled, PlaneMoves, A!Verdicts
  <2>3. TapTypes'
    BY <1>1, <2>2, VerdictsStand DEF A!Plane, ApprovalsInv, TapTypes
  <2>4. RepliesAreJudged'
    BY <1>1 DEF A!Plane, ApprovalsInv, RepliesAreJudged
  <2> QED BY <1>1, <2>2, <2>3, <2>4, VerdictsStand, QuietStep DEF A!Plane, ApprovalsInv
<1>2. CASE A!Opens
  <2>1. TapTypes' /\ TakenIsSo' /\ RepliesAreJudged'
    BY <1>2 DEF A!Opens, A!List!Opens, ApprovalsInv, TapTypes, TakenIsSo, A!Verdict,
                RepliesAreJudged
  <2>2. LineIsOfRequests' /\ A!SaidIsSo'
    BY <1>2 DEF A!Opens, LineIsOfRequests, A!SaidIsSo
  <2> QED BY <2>1, <2>2 DEF ApprovalsInv
<1>3. CASE A!Leaves \/ A!TickReads \/ A!TickWrites \/ UNCHANGED A!vars
  BY <1>3 DEF A!Leaves, A!TickReads, A!TickWrites, A!List!Leaves, A!List!TickReads,
     A!List!TickWrites,
     A!vars, ApprovalsInv, TapTypes, TakenIsSo, A!Verdict, RepliesAreJudged, LineIsOfRequests,
     A!SaidIsSo
<1>4. ASSUME NEW c \in Calls, NEW r \in Requests, NEW yes \in BOOLEAN, A!Taps(c, r, yes)
      PROVE  ApprovalsInv'
  <2>1. taps[c].at = "free"
    BY <1>4 DEF A!Taps, A!Free
  <2>2. [request |-> r, yes |-> yes, at |-> "tapped"] \in
            [request : Requests, yes : BOOLEAN, at : {"tapped", "signed"}]
    OBVIOUS
  <2> QED BY <1>4, <2>1, <2>2, BeforeJudgement DEF A!Taps
<1>5. ASSUME NEW c \in Calls, A!Call(c) PROVE ApprovalsInv'
  <2>0. taps[c] \in {A!Free} \cup
            [request : Requests, yes : BOOLEAN,
             at : {"tapped", "signed", "taken", "refused"}]
    BY DEF ApprovalsInv, TapTypes
  <2>1. CASE A!Signs(c)
    <3>1. taps[c] \in [request : Requests, yes : BOOLEAN,
                       at : {"tapped", "signed", "taken", "refused"}]
      BY <2>0, <2>1 DEF A!Signs, A!Free
    <3> DEFINE tap == [taps[c] EXCEPT !.at = "signed"]
    <3>2. tap \in [request : Requests, yes : BOOLEAN, at : {"tapped", "signed"}]
      BY <3>1
    <3> QED BY <2>1, <3>2, BeforeJudgement DEF A!Signs
  <2>2. CASE A!CannotSign(c)
    BY <2>2, BeforeJudgement DEF A!CannotSign
  <2>3. CASE A!Delivers(c) \/ A!DeliveryLost(c)
    <3>1. taps[c].request \in Requests /\ taps[c].at = "signed"
      BY <2>0, <2>3 DEF A!Delivers, A!DeliveryLost, A!Free
    <3>2. PICK at \in {"taken", "refused"} :
            /\ taps' = [taps EXCEPT ![c].at = at]
            /\ at = "taken" => tickets' = [tickets EXCEPT ![taps[c].request] = A!Verdict(c)]
      BY <2>3 DEF A!Delivers, A!DeliveryLost
    <3>3. UNCHANGED tickets \/ PlaneMoves(taps[c].request)
      BY <2>3 DEF A!Delivers, A!DeliveryLost, A!Takes, PlaneMoves, A!Verdict, A!Verdicts
    <3>4. /\ tickets' \in [Requests -> {"unasked", "waits"} \cup A!Verdicts]
          /\ \A q \in Requests : tickets[q] \in A!Verdicts => tickets'[q] = tickets[q]
      BY <3>1, <3>3, VerdictsStand DEF ApprovalsInv, TapTypes
    <3>5. UNCHANGED <<line, replies>>
      BY <2>3 DEF A!Delivers, A!DeliveryLost
    <3>6. LineIsOfRequests' /\ A!SaidIsSo'
      BY <3>4, <3>5 DEF ApprovalsInv, LineIsOfRequests, A!SaidIsSo, A!Verdicts
    <3>7. taps[c] \in [request : Requests, yes : BOOLEAN,
                       at : {"tapped", "signed", "taken", "refused"}]
      BY <2>0, <3>1 DEF A!Free
    <3>8. /\ \A d \in Calls : d # c => taps'[d] = taps[d]
          /\ taps'[c].at = at /\ taps'[c].request = taps[c].request
          /\ taps'[c].yes = taps[c].yes
      BY <3>2, <3>7 DEF ApprovalsInv, TapTypes
    <3>9. TapTypes'
      BY <3>2, <3>4, <3>5, <3>7 DEF ApprovalsInv, TapTypes
    <3>10. TakenIsSo'
      <4>1. ASSUME NEW d \in Calls, taps'[d].at = "taken", d # c
            PROVE  tickets'[taps'[d].request] = A!Verdict(d)'
        <5>1. taps[d] # A!Free /\ taps'[d] = taps[d]
          BY <4>1, <3>8 DEF A!Free
        <5>2. taps[d].request \in Requests
          BY <5>1 DEF ApprovalsInv, TapTypes
        <5>3. tickets[taps[d].request] = A!Verdict(d) /\ A!Verdict(d) \in A!Verdicts
          BY <4>1, <5>1 DEF ApprovalsInv, TakenIsSo, A!Verdict, A!Verdicts
        <5> QED BY <5>1, <5>2, <5>3, <3>4 DEF A!Verdict
      <4>2. taps'[c].at = "taken" => tickets'[taps'[c].request] = A!Verdict(c)'
        <5>1. A!Verdict(c)' = A!Verdict(c)
          BY <3>8 DEF A!Verdict
        <5>2. taps'[c].at = "taken" => tickets'[taps[c].request] = A!Verdict(c)
          BY <3>1, <3>2, <3>8 DEF ApprovalsInv, TapTypes
        <5> QED BY <5>1, <5>2, <3>8
      <4> QED BY <4>1, <4>2 DEF TakenIsSo
    <3>11. RepliesAreJudged'
      BY <3>1, <3>2, <3>5, <3>8 DEF ApprovalsInv, RepliesAreJudged
    <3> QED BY <3>6, <3>9, <3>10, <3>11 DEF ApprovalsInv
  <2>4. CASE A!Rereads(c)
    BY <2>4 DEF A!Rereads, A!List!Rereads, ApprovalsInv, TapTypes, TakenIsSo, A!Verdict,
       RepliesAreJudged, LineIsOfRequests, A!SaidIsSo
  <2>5. CASE A!Answered(c)
    <3>1. taps[c].at \in {"taken", "refused"}
      BY <2>5 DEF A!Answered, A!List!ReplyArrives, ApprovalsInv, RepliesAreJudged
    <3>2. taps[c].request \in Requests
      BY <2>0, <3>1 DEF A!Free
    <3>3. LineIsOfRequests' /\ A!SaidIsSo'
      <4>1. CASE UNCHANGED line
        BY <4>1, <2>5 DEF A!Answered, ApprovalsInv, LineIsOfRequests, A!SaidIsSo
      <4>2. CASE line' = <<"refused", taps[c].request>>
        BY <4>2 DEF LineIsOfRequests, A!SaidIsSo
      <4>3. CASE /\ taps[c].at = "taken"
                 /\ line' = <<IF taps[c].yes THEN "approved" ELSE "denied", taps[c].request>>
        <5>1. tickets'[taps[c].request] = A!Verdict(c)
          BY <4>3, <2>5 DEF A!Answered, ApprovalsInv, TakenIsSo
        <5>2. line'[2] = taps[c].request
          BY <4>3
        <5>3. CASE taps[c].yes
          <6>1. line'[1] = "approved" /\ A!Verdict(c) = "approved by me"
            BY <4>3, <5>3 DEF A!Verdict
          <6> QED BY <6>1, <5>1, <5>2, <3>2 DEF LineIsOfRequests, A!SaidIsSo
        <5>4. CASE ~taps[c].yes
          <6>1. line'[1] = "denied" /\ A!Verdict(c) = "denied by me"
            BY <4>3, <5>4 DEF A!Verdict
          <6> QED BY <6>1, <5>1, <5>2, <3>2 DEF LineIsOfRequests, A!SaidIsSo
        <5> QED BY <5>3, <5>4
      <4> QED BY <4>1, <4>2, <4>3, <3>1, <2>5 DEF A!Answered
    <3>4. TapTypes'
      BY <2>5 DEF A!Answered, A!List!ReplyArrives, ApprovalsInv, TapTypes
    <3>5. /\ \A d \in Calls : d # c => taps'[d] = taps[d] /\ replies'[d] = replies[d]
          /\ taps'[c] = A!Free /\ replies'[c] = None
      BY <2>5 DEF A!Answered, A!List!ReplyArrives, ApprovalsInv, TapTypes
    <3>6. taps'[c].at = "free"
      BY <3>5 DEF A!Free
    <3>7. TakenIsSo'
      <4>1. tickets' = tickets /\ TakenIsSo
        BY <2>5 DEF A!Answered, ApprovalsInv
      <4> QED
        BY <3>5, <3>6, <4>1 DEF TakenIsSo, A!Verdict
    <3>8. RepliesAreJudged'
      BY <3>5, <3>6 DEF ApprovalsInv, RepliesAreJudged
    <3> QED BY <3>3, <3>4, <3>7, <3>8 DEF ApprovalsInv
  <2> QED BY <1>5, <2>1, <2>2, <2>3, <2>4, <2>5 DEF A!Call
<1> QED BY <1>1, <1>2, <1>3, <1>4, <1>5 DEF A!Next

\* The line is of a request, and the lists are of requests.
LEMMA ApprovalsTyped ==
  ASSUME ApprovalsInv, A!TypeOK, [A!Next]_approvalVars
  PROVE  A!TypeOK'
<1>1. TapTypes'
  <2>1. [A!Next]_(A!vars)
    BY DEF A!vars, approvalVars
  <2>2. ApprovalsInv'
    BY <2>1, ApprovalsKeep
  <2> QED
    BY <2>2 DEF ApprovalsInv
<1> DEFINE Lists == (SUBSET Requests) \cup {None, Failed}
           Lines == {"nothing", "approved", "denied", "refused", "not signed"} \X
                    (Requests \cup {None})
<1>2. /\ line \in Lines /\ list \in Lists /\ frame \in Lists /\ replies \in [Calls -> Lists]
      /\ A!List!Readings \subseteq Lists
  BY DEF A!TypeOK, A!List!Readings
<1>3. ASSUME line' \in Lines, list' \in Lists, frame' \in Lists, replies' \in [Calls -> Lists]
      PROVE  A!TypeOK'
  BY <1>1, <1>3 DEF A!TypeOK, TapTypes
<1>4. \A c \in Calls : taps[c].at # "free" => taps[c].request \in Requests
  BY DEF ApprovalsInv, TapTypes, A!Free
<1> HIDE DEF Lists
<1>5. CASE A!Plane \/ UNCHANGED approvalVars
  BY <1>2, <1>3, <1>5 DEF A!Plane, approvalVars
<1>6. CASE A!Opens
  BY <1>2, <1>3, <1>6 DEF A!Opens, A!List!Opens
<1>7. CASE A!Leaves
  BY <1>2, <1>3, <1>7 DEF A!Leaves, A!List!Leaves, Lists
<1>8. CASE A!TickReads
  BY <1>2, <1>3, <1>8 DEF A!TickReads, A!List!TickReads
<1>9. CASE A!TickWrites
  BY <1>2, <1>3, <1>9 DEF A!TickWrites, A!List!TickWrites, Lists
<1>10. ASSUME NEW c \in Calls, NEW r \in Requests, NEW yes \in BOOLEAN, A!Taps(c, r, yes)
       PROVE  A!TypeOK'
  BY <1>2, <1>3, <1>10 DEF A!Taps
<1>11. ASSUME NEW c \in Calls, A!Signs(c) \/ A!Delivers(c) \/ A!DeliveryLost(c)
       PROVE  A!TypeOK'
  BY <1>2, <1>3, <1>11 DEF A!Signs, A!Delivers, A!DeliveryLost
<1>12. ASSUME NEW c \in Calls, A!CannotSign(c) PROVE A!TypeOK'
  <2>1. line' \in Lines
    BY <1>2, <1>4, <1>12 DEF A!CannotSign
  <2> QED
    BY <1>2, <1>3, <1>12, <2>1 DEF A!CannotSign
<1>13. ASSUME NEW c \in Calls, A!Rereads(c) PROVE A!TypeOK'
  BY <1>2, <1>3, <1>13 DEF A!Rereads, A!List!Rereads
<1>14. ASSUME NEW c \in Calls, A!Answered(c) PROVE A!TypeOK'
  <2>1. /\ replies[c] # None /\ list' = IF list = None THEN None ELSE replies[c]
        /\ replies' = [replies EXCEPT ![c] = None] /\ frame' = frame
    BY <1>14 DEF A!Answered, A!List!ReplyArrives
  <2>2. taps[c].at # "free"
    BY <2>1 DEF ApprovalsInv, RepliesAreJudged
  <2>3. line' \in Lines
    BY <1>2, <1>4, <1>14, <2>2 DEF A!Answered
  <2>4. None \in Lists
    BY DEF Lists
  <2> QED
    BY <1>2, <1>3, <2>1, <2>3, <2>4
<1> QED
  BY <1>5, <1>6, <1>7, <1>8, <1>9, <1>10, <1>11, <1>12, <1>13, <1>14 DEF A!Next, A!Call

-----------------------------------------------------------------------------
(* The three together. *)

BehindInv == TrayInv /\ D!TypeOK /\ A!TypeOK /\ ApprovalsInv

\* Each begins well.
LEMMA BehindStarts == BehindInit => BehindInv
<1>1. ASSUME A!Init PROVE A!TypeOK
  <2>1. /\ tickets = [r \in Requests |-> "unasked"] /\ taps = [c \in Calls |-> A!Free]
        /\ line = <<"nothing", None>> /\ list = None /\ frame = None
        /\ replies = [c \in Calls |-> None]
    BY <1>1 DEF A!Init, A!List!Init
  <2>2. line \in {"nothing", "approved", "denied", "refused", "not signed"} \X
                (Requests \cup {None})
    BY <2>1
  <2> QED
    BY <2>1, <2>2 DEF A!TypeOK
<1> QED
  BY <1>1, TrayStarts, DirectoryStarts, ApprovalsStart DEF BehindInit, BehindInv

\* A step is of one of them, and the others stand.
LEMMA BehindKeeps == BehindInv /\ [BehindNext]_behindVars => BehindInv'
<1> SUFFICES ASSUME BehindInv, [BehindNext]_behindVars PROVE BehindInv'
  OBVIOUS
<1>1. [Next]_vars /\ [D!Next]_directoryVars /\ [A!Next]_approvalVars
  BY DEF BehindNext, TrayNext, DirectoryNext, ApprovalsNext, behindVars
<1>2. TrayInv'
  BY <1>1, TrayKeeps DEF BehindInv
<1>3. D!TypeOK'
  BY <1>1, DirectoryKeeps DEF BehindInv
<1>4. A!TypeOK' /\ ApprovalsInv'
  <2>1. [A!Next]_(A!vars)
    BY <1>1 DEF A!vars, approvalVars
  <2>2. ApprovalsInv /\ A!TypeOK
    BY DEF BehindInv
  <2>3. ApprovalsInv'
    BY <2>1, <2>2, ApprovalsKeep
  <2>4. A!TypeOK'
    BY <1>1, <2>2, ApprovalsTyped
  <2> QED
    BY <2>3, <2>4
<1> QED
  BY <1>2, <1>3, <1>4 DEF BehindInv

\* The invariants of the three, always.
LEMMA BehindAlways == BehindSpec => []BehindInv
<1> QED
  BY BehindStarts, BehindKeeps, PTL DEF BehindSpec

\* Tray, directory and approvals keep their types.
THEOREM TypeCorrect == BehindSpec => []BehindTypeOK
<1>1. BehindInv => BehindTypeOK
  BY DEF BehindInv, TrayInv, BehindTypeOK
<1> QED
  BY <1>1, BehindAlways, PTL

\* The tray keeps its promise (tray.go, tap and Read): every behaviour of it is
\* one of Mentions, however many conversations, messages, screens and reconnects
\* there are.  A slip in the inbox, whoever dropped it, raises one mark, which stands
\* until its conversation is read; no replay of the inbox and no second slip
\* brings it back.
THEOREM TrayIsKept == BehindSpec => KeepsTheTray
<1>1. BehindInit => Promise!Init
  <2>1. ToSet(<<>>) = {}
    BY DEF ToSet
  <2> QED
    BY <2>1 DEF BehindInit, Init, Promise!Init, Life
<1>2. BehindInv /\ [BehindNext]_behindVars => [Promise!Next]_([s \in Slips |-> Life(s)])
  <2> SUFFICES ASSUME BehindInv, [BehindNext]_behindVars PROVE PromiseStep
    BY DEF PromiseStep
  <2>1. [Next]_vars
    BY DEF BehindNext, TrayNext, DirectoryNext, ApprovalsNext, behindVars
  <2> QED
    BY <2>1, TrayPromises DEF BehindInv
<1> QED
  BY <1>1, <1>2, BehindAlways, PTL DEF BehindSpec, KeepsTheTray, Promise!Spec

\* The safety half of EveryMentionIsTallied: however often the inbox went away and
\* is read again, the follower has tallied every slip before the one it reads next.
THEOREM FollowerPassesNoneOver == BehindSpec => []NonePassedOver
<1>1. BehindInv => NonePassedOver
  BY DEF BehindInv, TrayInv
<1> QED
  BY <1>1, BehindAlways, PTL

\* The safety half of ClearedIsShown: a mark is off only over a message that was
\* shown, or that a screen still at its conversation is to show, unless the
\* conversation could not be read or the screen went on to another, or closed,
\* before it was drawn.
THEOREM ClearedIsAlwaysOwed == BehindSpec => []ClearedIsOwed
<1>1. BehindInv => ClearedIsOwed
  BY DEF BehindInv, TrayInv
<1> QED
  BY <1>1, BehindAlways, PTL

\* "Approved." stands only over a request this person's own yes let through,
\* "Denied." only over one it stopped, for any number of requests, other
\* approvers and taps under way, whatever answers are lost or overtaken.
THEOREM SaidForGood == BehindSpec => []SaidIsSo
<1>1. BehindInv => SaidIsSo
  BY DEF BehindInv, ApprovalsInv, SaidIsSo
<1> QED
  BY <1>1, BehindAlways, PTL
=============================================================================
