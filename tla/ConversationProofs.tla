------------------------- MODULE ConversationProofs --------------------------
(***************************************************************************)
(* Proofs about Conversation: for any conversations, texts, posts and acts *)
(* under way, and any number of operations on the record.                  *)
(***************************************************************************)
EXTENDS Conversation, FiniteSetTheorems, WellFoundedInduction, TLAPS

-----------------------------------------------------------------------------
(* The inductive invariant, a part for each actor: what each remembers of   *)
(* the record was once so, and the record forgets nothing.                  *)

RecordOK ==
    /\ board \in Seq(Topics) /\ IsInjective(board)
    /\ life \in [Topics -> Lives]
    /\ active \in [Topics -> 0 .. now]
    /\ said \subseteq [at : 1 .. now, topic : OnBoard, text : Texts \cup {None},
                       anchor : 0 .. now]
    /\ now \in 0 .. MaxNow
    /\ \A i \in DOMAIN board : board[i] \in OnBoard

SnapOK ==
    /\ machinery \subseteq Rooms
    /\ snap # None =>
          /\ snap \in Entry /\ IsInjective(snap.board)
          /\ \A i \in DOMAIN snap.board : snap.board[i] \in OnBoard

PageOK ==
    /\ page \in [open : BOOLEAN, want : Topics \cup {None}, quiet : BOOLEAN]
    /\ page.want \in OnBoard \cup {None}

\* What is on the screen of a page that names a conversation is of it.
ScreenOK ==
    /\ screen \in [topic : Topics \cup {None}, life : Lives, said : SUBSET (1 .. now)]
    /\ fails \in 0 .. MaxFails
    /\ screen.topic \in OnBoard \cup {None}
    /\ screen.life # "none" => screen.topic # None
    /\ page.want # None => screen.topic \in {None, page.want}
    /\ page.want # None /\ screen.said # {} => screen.topic = page.want

\* A message with this number is in t.
InTopic(n, t) == \E m \in said : m.at = n /\ m.topic = t

\* What the composer answers is a message of the conversation the page names.
DockOK ==
    /\ draft \in Texts \cup {None}
    /\ reply \in 0 .. now
    /\ reply # 0 /\ page.want # None => InTopic(reply, page.want)

\* So is what a request answers; it has resolved what it named; and what it
\* says has landed is on the record.
PostIsTrue(p) ==
    /\ post[p].topic \in OnBoard \cup {None}
    /\ post[p].want \in OnBoard \cup {None}
    /\ post[p].want # None /\ post[p].anchor # 0 => InTopic(post[p].anchor, post[p].want)
    /\ post[p].at = "resolved" =>
            /\ post[p].topic # None
            /\ post[p].want # None => post[p].topic = post[p].want
    /\ post[p].at = "landed" =>
            \E m \in said : m.topic = post[p].topic /\ m.text = post[p].text

PostType ==
    [at : {"idle", "sent", "resolved", "landed", "refused"}, here : BOOLEAN,
     want : Topics \cup {None}, topic : Topics \cup {None}, text : Texts \cup {None},
     anchor : 0 .. now]

PostOK == post \in [Posts -> PostType] /\ \A p \in Posts : PostIsTrue(p)

\* An archive under way was said yes to; and on a page that names its
\* conversation the question, and the yes, were about that one.
LifeOK ==
    /\ asks \in Topics \cup {None}
    /\ acts \subseteq [kind : {"close", "archive"}, topic : Topics, here : BOOLEAN]
    /\ asked \subseteq [topic : Topics, want : Topics \cup {None}]
    /\ asks # None /\ page.want # None => asks = page.want
    /\ \A yes \in asked : yes.want \in {None, yes.topic}
    /\ \A a \in acts : a.kind = "archive" => \E yes \in asked : yes.topic = a.topic

IInv == RecordOK /\ SnapOK /\ PageOK /\ ScreenOK /\ DockOK /\ PostOK /\ LifeOK

-----------------------------------------------------------------------------
(* Where a screen opens onto. *)

\* The least element of a set of numbers is one of it: some x of S is not above
\* another.
LEMMA LeastOne ==
  ASSUME NEW S \in SUBSET Nat, S # {}
  PROVE  \E x \in S : \A y \in S : x <= y
<1>1. PICK x \in S : \A y \in S : ~(<<y, x>> \in OpToRel(<, Nat))
  BY WFMin, NatLessThanWellFounded
<1>2. \A y \in S : x <= y
  <2> SUFFICES ASSUME NEW y \in S PROVE x <= y
    OBVIOUS
  <2>1. ~(y < x)
    BY <1>1 DEF OpToRel
  <2> QED
    BY <2>1
<1> QED
  BY <1>2

\* Before is the order of the sorted list: the place of what comes before
\* another is lower.
LEMMA PlaceFollowsBefore ==
  ASSUME NEW e \in Entry, NEW rooms,
         NEW i \in HumanConversations(e, rooms), NEW j \in HumanConversations(e, rooms)
  PROVE  /\ Place(e, rooms, i) \in Nat
         /\ Before(e, i, j) => Place(e, rooms, i) < Place(e, rooms, j)
<1> DEFINE H == HumanConversations(e, rooms)
           B(k) == {h \in H : Before(e, h, k)}
<1>1. /\ e.board \in Seq(Topics) /\ e.active \in [Topics -> 0 .. MaxNow] /\ MaxNow \in Nat
      /\ DOMAIN e.board = 1 .. Len(e.board) /\ Len(e.board) \in Nat
  BY ConversationAssumption DEF Entry
<1>2. H \subseteq 1 .. Len(e.board) /\ \A h \in H : e.active[e.board[h]] \in Nat /\ h \in Nat
  <2>1. H \subseteq 1 .. Len(e.board)
    BY <1>1 DEF HumanConversations
  <2>2. \A h \in 1 .. Len(e.board) : h \in Nat /\ e.board[h] \in Topics
    BY <1>1
  <2>3. \A t \in Topics : e.active[t] \in Nat
    BY <1>1
  <2> QED
    BY <2>1, <2>2, <2>3
<1>3. IsFiniteSet(H)
  <2>1. 0 \in Int /\ 1 \in Int /\ Len(e.board) \in Int
    BY <1>1
  <2>2. IsFiniteSet(1 .. Len(e.board))
    BY <2>1, FS_Interval
  <2>3. H \in SUBSET (1 .. Len(e.board))
    BY <1>2
  <2> HIDE DEF H
  <2> QED
    BY <2>2, <2>3, FS_Subset
<1>4. \A k \in H : IsFiniteSet(B(k)) /\ Cardinality(B(k)) \in Nat
  BY <1>3, FS_Subset, FS_CardinalityType
<1>5. ASSUME Before(e, i, j)
      PROVE  Cardinality(B(i)) < Cardinality(B(j))
  <2>1. \A h \in B(i) : h \in B(j)
    BY <1>2, <1>5 DEF Before
  <2>2. i \in B(j) /\ i \notin B(i)
    BY <1>2, <1>5 DEF Before
  <2>3. B(i) \in SUBSET B(j) /\ B(i) # B(j)
    BY <2>1, <2>2
  <2> HIDE DEF B
  <2> QED
    BY <1>4, <2>3, FS_Subset
<1>6. Place(e, rooms, i) = Cardinality(B(i)) + 1 /\ Place(e, rooms, j) = Cardinality(B(j)) + 1
  BY DEF Place
<1> HIDE DEF B
<1> QED
  BY <1>4, <1>5, <1>6

\* LastLive finds a living conversation if the board has one that is not of the
\* machinery, and none comes before it.
LEMMA LastLiveIsFirst ==
  ASSUME NEW e \in Entry, NEW rooms
  PROVE  LET living == {i \in HumanConversations(e, rooms) : e.life[e.board[i]] # "archived"} IN
         \/ living = {} /\ LastLive(e, rooms) = None
         \/ \E i \in living : LastLive(e, rooms) = e.board[i] /\ \A j \in living : ~Before(e, j, i)
<1> DEFINE living == {i \in HumanConversations(e, rooms) : e.life[e.board[i]] # "archived"}
           first == CHOOSE i \in living : \A j \in living : Place(e, rooms, i) <= Place(e, rooms, j)
<1>1. LastLive(e, rooms) = IF living = {} THEN None ELSE e.board[first]
  BY DEF LastLive
<1>2. ASSUME living # {}
      PROVE  first \in living /\ \A j \in living : Place(e, rooms, first) <= Place(e, rooms, j)
  <2> DEFINE places == {Place(e, rooms, i) : i \in living}
  <2>1. \A i \in living : Place(e, rooms, i) \in Nat
    BY PlaceFollowsBefore
  <2>2. places \in SUBSET Nat /\ places # {}
    BY <1>2, <2>1
  <2>3. PICK x \in places : \A y \in places : x <= y
    BY <2>2, LeastOne
  <2>4. PICK i \in living : x = Place(e, rooms, i)
    BY <2>3
  <2>5. \A j \in living : Place(e, rooms, i) <= Place(e, rooms, j)
    BY <2>3, <2>4
  <2> QED
    BY <2>5
<1>3. ASSUME living # {}
      PROVE  \A j \in living : ~Before(e, j, first)
  <2> SUFFICES ASSUME NEW j \in living, Before(e, j, first) PROVE FALSE
    OBVIOUS
  <2>1. first \in HumanConversations(e, rooms) /\ j \in HumanConversations(e, rooms)
    BY <1>2, <1>3
  <2>2. Place(e, rooms, j) < Place(e, rooms, first) /\ Place(e, rooms, j) \in Nat /\ Place(e, rooms, first) \in Nat
    BY <2>1, PlaceFollowsBefore
  <2>3. Place(e, rooms, first) <= Place(e, rooms, j)
    BY <1>2, <1>3
  <2> HIDE DEF first, living
  <2> QED
    BY <2>2, <2>3
<1> QED
  BY <1>1, <1>2, <1>3

-----------------------------------------------------------------------------
(* The record only grows: nothing once announced or said is gone again.     *)

Grows ==
    /\ now \in Nat /\ now' \in Nat /\ now <= now'
    /\ \A t \in OnBoard : t \in OnBoard'
    /\ \A m \in said : m \in said'

\* A conversation is announced.
LEMMA AnnouncesGrows ==
  ASSUME RecordOK, NEW t \in Topics, Announces(t)
  PROVE  RecordOK' /\ Grows /\ t \in OnBoard'
<1>1. /\ life[t] = "none" /\ board' = Append(board, t)
      /\ life' = [life EXCEPT ![t] = "proposed"]
      /\ active' = active /\ said' = said /\ now' = now
  BY DEF Announces
<1>2. /\ board \in Seq(Topics) /\ IsInjective(board) /\ life \in [Topics -> Lives]
      /\ \A i \in DOMAIN board : board[i] \in OnBoard
  BY DEF RecordOK
<1>3. now \in Nat
  BY ConversationAssumption DEF RecordOK
<1>4. life'[t] = "proposed" /\ \A u \in Topics : u # t => life'[u] = life[u]
  BY <1>1, <1>2
<1>5. life' \in [Topics -> Lives]
  BY <1>1, <1>2 DEF Lives, Living
<1>6. (\A u \in OnBoard : u \in OnBoard') /\ t \in OnBoard'
  BY <1>1, <1>4 DEF OnBoard
<1>7. t \notin OnBoard
  BY <1>1 DEF OnBoard
<1>8. /\ board' \in Seq(Topics) /\ Len(board) \in Nat /\ Len(board') = Len(board) + 1
      /\ DOMAIN board = 1 .. Len(board) /\ DOMAIN board' = 1 .. Len(board')
      /\ board'[Len(board) + 1] = t
      /\ \A i \in 1 .. Len(board) : board'[i] = board[i]
  BY <1>1, <1>2
<1>9. \A i \in DOMAIN board' : board'[i] \in OnBoard'
  BY <1>2, <1>6, <1>8
<1>10. IsInjective(board')
  <2> SUFFICES ASSUME NEW i \in DOMAIN board', NEW j \in DOMAIN board', board'[i] = board'[j]
               PROVE  i = j
    BY DEF IsInjective
  <2>1. CASE i \in DOMAIN board /\ j \in DOMAIN board
    BY <1>2, <1>8, <2>1 DEF IsInjective
  <2>2. CASE ~(i \in DOMAIN board /\ j \in DOMAIN board)
    BY <1>2, <1>7, <1>8, <2>2
  <2> QED
    BY <2>1, <2>2
<1>11. said' \subseteq [at : 1 .. now', topic : OnBoard', text : Texts \cup {None},
                        anchor : 0 .. now']
  BY <1>1, <1>6 DEF RecordOK
<1>12. active' \in [Topics -> 0 .. now'] /\ now' \in 0 .. MaxNow
  BY <1>1 DEF RecordOK
<1>13. RecordOK'
  BY <1>5, <1>8, <1>9, <1>10, <1>11, <1>12 DEF RecordOK
<1> QED
  BY <1>1, <1>3, <1>6, <1>13 DEF Grows

\* A message lands in a conversation of the board.
LEMMA LandsGrows ==
  ASSUME RecordOK, NEW t \in OnBoard, NEW text \in Texts \cup {None}, NEW anchor \in 0 .. now,
         Lands(t, text, anchor)
  PROVE  /\ RecordOK' /\ Grows
         /\ \A m \in said' \ said : m.topic = t /\ m.text = text /\ m.anchor = anchor
         /\ \E m \in said' : m.topic = t /\ m.text = text
<1> DEFINE m == [at |-> now + 1, topic |-> t, text |-> text, anchor |-> anchor]
<1>1. /\ now' = now + 1 /\ now < MaxNow /\ board' = board
      /\ active' = [active EXCEPT ![t] = now + 1]
      /\ said' = said \cup {m}
  BY DEF Lands
<1>2. PICK l \in {"active", life[t]} \ {"proposed"} : life' = [life EXCEPT ![t] = l]
  BY DEF Lands
<1>3. now \in Nat /\ MaxNow \in Nat
  BY ConversationAssumption DEF RecordOK
<1>4. /\ board \in Seq(Topics) /\ IsInjective(board) /\ life \in [Topics -> Lives]
      /\ active \in [Topics -> 0 .. now]
      /\ \A i \in DOMAIN board : board[i] \in OnBoard
      /\ said \subseteq [at : 1 .. now, topic : OnBoard, text : Texts \cup {None},
                         anchor : 0 .. now]
  BY DEF RecordOK
<1>5. t \in Topics /\ life[t] # "none" /\ l \in Lives /\ l # "none"
  BY <1>2, <1>4 DEF OnBoard, Lives, Living
<1>6. life' \in [Topics -> Lives] /\ life'[t] = l
      /\ \A u \in Topics : u # t => life'[u] = life[u]
  BY <1>2, <1>4, <1>5
<1>7. \A u \in OnBoard : u \in OnBoard'
  BY <1>5, <1>6 DEF OnBoard
<1>8. /\ now' \in Nat /\ now <= now' /\ now' \in 0 .. MaxNow
      /\ 1 .. now \subseteq 1 .. now' /\ 0 .. now \subseteq 0 .. now'
      /\ now + 1 \in 1 .. now' /\ now + 1 \in 0 .. now'
  BY <1>1, <1>3
<1>9. active' \in [Topics -> 0 .. now']
  BY <1>1, <1>4, <1>5, <1>8
<1>10. said' \subseteq [at : 1 .. now', topic : OnBoard', text : Texts \cup {None},
                        anchor : 0 .. now']
  <2>1. m \in [at : 1 .. now', topic : OnBoard', text : Texts \cup {None}, anchor : 0 .. now']
    BY <1>7, <1>8
  <2>2. \A n \in said : n \in [at : 1 .. now', topic : OnBoard', text : Texts \cup {None},
                               anchor : 0 .. now']
    BY <1>4, <1>7, <1>8
  <2> QED
    BY <1>1, <2>1, <2>2
<1>11. RecordOK'
  BY <1>1, <1>4, <1>6, <1>7, <1>8, <1>9, <1>10 DEF RecordOK
<1>12. m.topic = t /\ m.text = text /\ m.anchor = anchor
  OBVIOUS
<1> QED
  BY <1>1, <1>3, <1>7, <1>8, <1>11, <1>12 DEF Grows

\* A conversation is closed or archived.
LEMMA BecomesGrows ==
  ASSUME RecordOK, NEW t \in Topics, NEW l \in {"closed", "archived"}, Becomes(t, l)
  PROVE  RecordOK' /\ Grows
<1>1. /\ now' = now + 1 /\ now < MaxNow /\ board' = board /\ said' = said
      /\ active' = [active EXCEPT ![t] = now + 1]
      /\ life' = [life EXCEPT ![t] = l]
  BY DEF Becomes
<1>2. now \in Nat /\ MaxNow \in Nat
  BY ConversationAssumption DEF RecordOK
<1>3. /\ board \in Seq(Topics) /\ IsInjective(board) /\ life \in [Topics -> Lives]
      /\ active \in [Topics -> 0 .. now]
      /\ \A i \in DOMAIN board : board[i] \in OnBoard
      /\ said \subseteq [at : 1 .. now, topic : OnBoard, text : Texts \cup {None},
                         anchor : 0 .. now]
  BY DEF RecordOK
<1>4. t \in Topics /\ l \in Lives /\ l # "none"
  BY DEF OnBoard, Lives
<1>5. life' \in [Topics -> Lives] /\ life'[t] = l
      /\ \A u \in Topics : u # t => life'[u] = life[u]
  BY <1>1, <1>3, <1>4
<1>6. \A u \in OnBoard : u \in OnBoard'
  BY <1>4, <1>5 DEF OnBoard
<1>7. /\ now' \in Nat /\ now <= now' /\ now' \in 0 .. MaxNow
      /\ 1 .. now \subseteq 1 .. now' /\ 0 .. now \subseteq 0 .. now'
      /\ now + 1 \in 0 .. now'
  BY <1>1, <1>2
<1>8. active' \in [Topics -> 0 .. now']
  BY <1>1, <1>3, <1>4, <1>7
<1>9. said' \subseteq [at : 1 .. now', topic : OnBoard', text : Texts \cup {None},
                       anchor : 0 .. now']
  BY <1>1, <1>3, <1>6, <1>7
<1>10. RecordOK'
  BY <1>1, <1>3, <1>5, <1>6, <1>7, <1>8, <1>9 DEF RecordOK
<1> QED
  BY <1>1, <1>2, <1>6, <1>7, <1>10 DEF Grows

\* A step that does not touch the record.
LEMMA RecordStands ==
  ASSUME RecordOK, UNCHANGED record
  PROVE  RecordOK' /\ Grows /\ OnBoard' = OnBoard
<1>1. board' = board /\ life' = life /\ active' = active /\ said' = said /\ now' = now
  BY DEF record
<1>2. OnBoard' = OnBoard
  BY <1>1 DEF OnBoard
<1>3. RecordOK'
  BY <1>1, <1>2 DEF RecordOK
<1>4. now \in Nat
  BY ConversationAssumption DEF RecordOK
<1> QED
  BY <1>1, <1>2, <1>3, <1>4 DEF Grows

-----------------------------------------------------------------------------
(* What an actor remembers stays true while the record grows.               *)

\* The board that is followed.
LEMMA SnapKept ==
  ASSUME SnapOK, Grows, UNCHANGED view
  PROVE  SnapOK'
BY DEF SnapOK, Grows, view

\* The page.
LEMMA PageKept ==
  ASSUME PageOK, Grows, page' = page
  PROVE  PageOK'
BY DEF PageOK, Grows

\* The screen, on the same page.
LEMMA ScreenKept ==
  ASSUME ScreenOK, Grows, page' = page, screen' = screen, fails' = fails
  PROVE  ScreenOK'
<1>1. 1 .. now \subseteq 1 .. now'
  BY DEF Grows
<1>2. screen \in [topic : Topics \cup {None}, life : Lives, said : SUBSET (1 .. now')]
  BY <1>1 DEF ScreenOK
<1>3. screen.topic \in OnBoard' \cup {None}
  BY DEF ScreenOK, Grows
<1> QED
  BY <1>2, <1>3 DEF ScreenOK

\* The composer, on the same page.
LEMMA DockKept ==
  ASSUME DockOK, Grows, page'.want = page.want, draft' = draft, reply' = reply
  PROVE  DockOK'
<1>1. reply \in 0 .. now'
  BY DEF DockOK, Grows
<1>2. reply # 0 /\ page.want # None => InTopic(reply, page.want)'
  BY DEF DockOK, Grows, InTopic
<1> QED
  BY <1>1, <1>2 DEF DockOK, InTopic

\* The requests.
LEMMA PostTypeGrows ==
  ASSUME Grows
  PROVE  PostType \subseteq PostType'
<1>1. 0 .. now \subseteq 0 .. now'
  BY DEF Grows
<1> QED
  BY <1>1 DEF PostType

\* One of them, if it is not touched but that its page may have gone.
LEMMA PostStaysTrue ==
  ASSUME Grows, NEW p \in Posts, PostIsTrue(p),
         /\ post'[p].at = post[p].at /\ post'[p].want = post[p].want
         /\ post'[p].topic = post[p].topic /\ post'[p].text = post[p].text
         /\ post'[p].anchor = post[p].anchor
  PROVE  PostIsTrue(p)'
BY DEF Grows, PostIsTrue, InTopic

\* All of them.
LEMMA PostKept ==
  ASSUME PostOK, Grows, post' = post
  PROVE  PostOK'
<1>1. post' \in [Posts -> PostType']
  BY PostTypeGrows DEF PostOK
<1>2. ASSUME NEW p \in Posts PROVE PostIsTrue(p)'
  BY PostStaysTrue DEF PostOK
<1> QED
  BY <1>1, <1>2 DEF PostOK

\* The acts.
LEMMA LifeKept ==
  ASSUME LifeOK, page' = page, UNCHANGED lifeDock
  PROVE  LifeOK'
BY DEF LifeOK, lifeDock

\* Steps of other actors, on the record alone.
LEMMA OthersKeep ==
  ASSUME IInv, RecordOK', Grows, UNCHANGED <<view, page, stream, dock, post, lifeDock>>
  PROVE  IInv'
<1>1. /\ UNCHANGED view /\ page' = page /\ screen' = screen /\ fails' = fails
      /\ draft' = draft /\ reply' = reply /\ post' = post /\ UNCHANGED lifeDock
  BY DEF stream, dock
<1>2. SnapOK' /\ PageOK' /\ ScreenOK' /\ LifeOK'
  BY <1>1, SnapKept, PageKept, ScreenKept, LifeKept DEF IInv
<1>3. DockOK' /\ PostOK'
  BY <1>1, DockKept, PostKept DEF IInv
<1> QED
  BY <1>2, <1>3 DEF IInv

-----------------------------------------------------------------------------
(* What the board says, cold or warm, is on the record's board.             *)

\* The entries are a board, and every conversation of it was announced.
LEMMA EntriesOnBoard ==
  ASSUME RecordOK, SnapOK
  PROVE  /\ Entries \in Entry /\ IsInjective(Entries.board)
         /\ \A i \in DOMAIN Entries.board : Entries.board[i] \in OnBoard
<1>1. CASE snap = None
  <2> DEFINE cold == [Fresh EXCEPT !.active = [t \in Topics |-> 0]]
  <2>1. Entries = cold
    BY <1>1 DEF Entries
  <2>2. cold = [board |-> board, life |-> life, active |-> [t \in Topics |-> 0]]
    BY DEF Fresh
  <2>3. 0 \in 0 .. MaxNow
    BY ConversationAssumption
  <2>4. cold \in Entry /\ cold.board = board
    BY <2>2, <2>3 DEF RecordOK, Entry
  <2> QED
    BY <2>1, <2>4 DEF RecordOK
<1>2. CASE snap # None
  BY <1>2 DEF Entries, SnapOK
<1> QED
  BY <1>1, <1>2

\* What a page or a request comes to is what it names, or else a conversation
\* of the board, or none.
LEMMA ResolvesOnBoard ==
  ASSUME RecordOK, SnapOK, NEW want \in OnBoard \cup {None}
  PROVE  /\ resolveTopic(want) \in OnBoard \cup {None}
         /\ want # None => resolveTopic(want) = want
<1>1. Entries \in Entry /\ \A i \in DOMAIN Entries.board : Entries.board[i] \in OnBoard
  BY EntriesOnBoard
<1>2. LastLive(Entries, machinery) \in OnBoard \cup {None}
  <2> DEFINE living == {i \in HumanConversations(Entries, machinery) :
                           Entries.life[Entries.board[i]] # "archived"}
  <2>1. \/ LastLive(Entries, machinery) = None
        \/ \E i \in living : LastLive(Entries, machinery) = Entries.board[i]
    BY <1>1, LastLiveIsFirst
  <2>2. \A i \in living : i \in DOMAIN Entries.board
    BY DEF HumanConversations
  <2> QED
    BY <1>1, <2>1, <2>2
<1> QED
  BY <1>2 DEF resolveTopic

\* Whatever the conversation, what is read of it is of it, and numbered by now.
LEMMA SeenIsOfIt ==
  ASSUME RecordOK, NEW t \in OnBoard \cup {None}
  PROVE  /\ Seen(t) \in [topic : Topics \cup {None}, life : Lives, said : SUBSET (1 .. now)]
         /\ Seen(t).topic = t
         /\ t = None => Seen(t).said = {} /\ Seen(t).life = "none"
<1>1. CASE t = None
  BY <1>1 DEF Seen, Blank, Lives
<1>2. CASE t # None
  <2> DEFINE ops == {m.at : m \in {m \in said : m.topic = t}}
  <2>1. t \in Topics /\ life[t] \in Lives
    BY <1>2 DEF OnBoard, RecordOK
  <2>2. ops \in SUBSET (1 .. now)
    BY DEF RecordOK
  <2>3. Seen(t) = [topic |-> t, life |-> life[t], said |-> ops]
    BY <1>2 DEF Seen
  <2> HIDE DEF ops
  <2> QED
    BY <1>2, <2>1, <2>2, <2>3
<1> QED
  BY <1>1, <1>2

-----------------------------------------------------------------------------
(* Every step keeps the invariant, an action at a time.                     *)

\* A page of a conversation on the board, or of none, with nothing under way.
LEMMA NavigatesKeeps ==
  ASSUME IInv, RecordOK', Grows, NEW want \in OnBoard' \cup {None}, NEW quiet \in BOOLEAN,
         Navigates(want, quiet), UNCHANGED <<view, fails, asked>>
  PROVE  IInv'
<1>1. /\ page' = [open |-> TRUE, want |-> want, quiet |-> quiet]
      /\ screen' = Blank /\ draft' = None /\ reply' = 0 /\ asks' = None
      /\ post' = [p \in Posts |-> [post[p] EXCEPT !.here = FALSE]]
      /\ acts' = {[a EXCEPT !.here = FALSE] : a \in acts}
      /\ UNCHANGED view /\ fails' = fails /\ asked' = asked
  BY DEF Navigates
<1>2. want \in Topics \cup {None}
  BY DEF OnBoard
<1>3. SnapOK'
  BY <1>1, SnapKept DEF IInv
<1>4. PageOK'
  BY <1>1, <1>2 DEF PageOK
<1>5. ScreenOK'
  <2>1. fails' \in 0 .. MaxFails
    BY <1>1 DEF IInv, ScreenOK
  <2>2. /\ screen'.topic = None /\ screen'.life = "none" /\ screen'.said = {}
        /\ screen' \in [topic : Topics \cup {None}, life : Lives, said : SUBSET (1 .. now')]
    BY <1>1 DEF Blank, Lives
  <2> QED
    BY <2>1, <2>2 DEF ScreenOK
<1>6. DockOK'
  BY <1>1 DEF DockOK, Grows
<1>7. PostOK'
  <2>1. post \in [Posts -> PostType] /\ \A p \in Posts : PostIsTrue(p)
    BY DEF IInv, PostOK
  <2>2. \A p \in Posts : post'[p] = [post[p] EXCEPT !.here = FALSE]
    BY <1>1
  <2>3. ASSUME NEW p \in Posts PROVE post'[p] \in PostType
    <3>1. post[p] \in PostType /\ post'[p] = [post[p] EXCEPT !.here = FALSE]
      BY <2>1, <2>2
    <3> QED
      BY <3>1 DEF PostType
  <2>4. post' \in [Posts -> PostType']
    BY <1>1, <2>3, PostTypeGrows
  <2>5. ASSUME NEW p \in Posts PROVE PostIsTrue(p)'
    <3>1. post[p] \in PostType
      BY <2>1
    <3>2. /\ post'[p].at = post[p].at /\ post'[p].want = post[p].want
          /\ post'[p].topic = post[p].topic /\ post'[p].text = post[p].text
          /\ post'[p].anchor = post[p].anchor
      BY <2>2, <3>1 DEF PostType
    <3> QED
      BY <2>1, <3>2, PostStaysTrue
  <2> QED
    BY <2>4, <2>5 DEF PostOK
<1>8. LifeOK'
  <2> DEFINE Act == [kind : {"close", "archive"}, topic : Topics, here : BOOLEAN]
  <2>1. /\ acts \subseteq Act
        /\ \A a \in acts : a.kind = "archive" => \E yes \in asked : yes.topic = a.topic
    BY DEF IInv, LifeOK
  <2>2. ASSUME NEW b \in acts'
        PROVE  b \in Act /\ (b.kind = "archive" => \E yes \in asked' : yes.topic = b.topic)
    <3>1. PICK a \in acts : b = [a EXCEPT !.here = FALSE]
      BY <1>1
    <3>2. a \in Act /\ (a.kind = "archive" => \E yes \in asked : yes.topic = a.topic)
      BY <2>1
    <3>3. b \in Act /\ b.kind = a.kind /\ b.topic = a.topic
      BY <3>1, <3>2
    <3> QED
      BY <1>1, <3>2, <3>3
  <2>3. /\ asked' \subseteq [topic : Topics, want : Topics \cup {None}]
        /\ \A yes \in asked' : yes.want \in {None, yes.topic}
    BY <1>1 DEF IInv, LifeOK
  <2> QED
    BY <1>1, <2>2, <2>3 DEF LifeOK
<1> QED
  BY <1>3, <1>4, <1>5, <1>6, <1>7, <1>8 DEF IInv

\* GET /.
LEMMA OpensKeeps ==
  ASSUME IInv, NEW want \in Topics \cup {None}, NEW quiet \in BOOLEAN, Opens(want, quiet)
  PROVE  IInv'
<1>1. /\ want \in OnBoard \cup {None} /\ UNCHANGED record
      /\ Navigates(want, quiet) /\ UNCHANGED <<view, fails, asked>>
  BY DEF Opens
<1>2. RecordOK' /\ Grows /\ OnBoard' = OnBoard
  BY <1>1, RecordStands DEF IInv
<1> QED
  BY <1>1, <1>2, NavigatesKeeps

\* actStart.
LEMMA StartsKeeps ==
  ASSUME IInv, NEW t \in Topics, Starts(t)
  PROVE  IInv'
<1>1. Announces(t) /\ Navigates(t, FALSE) /\ UNCHANGED <<view, fails, asked>>
  BY DEF Starts
<1>2. RecordOK' /\ Grows /\ t \in OnBoard'
  BY <1>1, AnnouncesGrows DEF IInv
<1> QED
  BY <1>1, <1>2, NavigatesKeeps

\* Other people start, speak and end conversations.
LEMMA OthersKeeps ==
  ASSUME IInv, Others
  PROVE  IInv'
<1>1. PICK t \in Topics : \/ OthersStart(t)
                          \/ OthersSay(t)
                          \/ \E l \in {"closed", "archived"} : OthersEnd(t, l)
  BY DEF Others
<1>2. CASE OthersStart(t)
  BY <1>2, AnnouncesGrows, OthersKeep DEF OthersStart, IInv
<1>3. CASE OthersSay(t)
  <2>1. t \in OnBoard /\ Lands(t, None, 0)
        /\ UNCHANGED <<view, page, stream, dock, post, lifeDock>>
    BY <1>3 DEF OthersSay, OnBoard, Living
  <2>2. 0 \in 0 .. now
    BY ConversationAssumption DEF IInv, RecordOK
  <2> QED
    BY <2>1, <2>2, LandsGrows, OthersKeep DEF IInv
<1>4. CASE \E l \in {"closed", "archived"} : OthersEnd(t, l)
  BY <1>4, BecomesGrows, OthersKeep DEF OthersEnd, IInv
<1> QED
  BY <1>1, <1>2, <1>3, <1>4

\* What the steps that leave the record and the page alone have in common.
LEMMA RecordAndPageStand ==
  ASSUME IInv, UNCHANGED <<record, page>>
  PROVE  /\ RecordOK' /\ PageOK' /\ Grows /\ OnBoard' = OnBoard
         /\ now' = now /\ said' = said /\ page' = page
<1>1. RecordOK' /\ Grows /\ OnBoard' = OnBoard
  BY RecordStands DEF IInv
<1>2. PageOK'
  BY <1>1, PageKept DEF IInv
<1> QED
  BY <1>1, <1>2 DEF record

\* runWatch, and the board catching up.
LEMMA FollowsKeeps ==
  ASSUME IInv, Follows
  PROVE  IInv'
<1>1. /\ snap' = Fresh /\ machinery' = machinery
      /\ UNCHANGED <<record, page>> /\ screen' = screen /\ fails' = fails
      /\ draft' = draft /\ reply' = reply /\ post' = post /\ UNCHANGED lifeDock
  BY DEF Follows, stream, dock
<1>2. RecordOK' /\ PageOK' /\ Grows /\ OnBoard' = OnBoard /\ page' = page
  BY <1>1, RecordAndPageStand
<1>3. SnapOK'
  <2>1. 0 .. now \subseteq 0 .. MaxNow
    BY ConversationAssumption DEF IInv, RecordOK
  <2>2. snap' = [board |-> board, life |-> life, active |-> active]
    BY <1>1 DEF Fresh
  <2>3. snap' \in Entry /\ snap'.board = board
    BY <2>1, <2>2 DEF IInv, RecordOK, Entry
  <2> QED
    BY <1>1, <1>2, <2>3 DEF IInv, RecordOK, SnapOK
<1>4. ScreenOK' /\ DockOK' /\ PostOK' /\ LifeOK'
  BY <1>1, <1>2, ScreenKept, DockKept, PostKept, LifeKept DEF IInv
<1> QED
  BY <1>2, <1>3, <1>4 DEF IInv

\* The watch learns of a room.
LEMMA RoomLearnedKeeps ==
  ASSUME IInv, NEW r \in Rooms, RoomLearned(r)
  PROVE  IInv'
<1>1. /\ machinery' = machinery \cup {r} /\ snap' = snap
      /\ UNCHANGED <<record, page>> /\ screen' = screen /\ fails' = fails
      /\ draft' = draft /\ reply' = reply /\ post' = post /\ UNCHANGED lifeDock
  BY DEF RoomLearned, stream, dock
<1>2. RecordOK' /\ PageOK' /\ Grows /\ OnBoard' = OnBoard /\ page' = page
  BY <1>1, RecordAndPageStand
<1>3. SnapOK'
  BY <1>1, <1>2 DEF IInv, SnapOK
<1>4. ScreenOK' /\ DockOK' /\ PostOK' /\ LifeOK'
  BY <1>1, <1>2, ScreenKept, DockKept, PostKept, LifeKept DEF IInv
<1> QED
  BY <1>2, <1>3, <1>4 DEF IInv

\* The stream, whether it can read or not.
LEMMA TicksKeeps ==
  ASSUME IInv, Ticks \/ TickFails
  PROVE  IInv'
<1>1. /\ UNCHANGED <<record, page>> /\ UNCHANGED view
      /\ draft' = draft /\ reply' = reply /\ post' = post /\ UNCHANGED lifeDock
  BY DEF Ticks, TickFails, dock
<1>2. /\ RecordOK' /\ PageOK' /\ Grows /\ OnBoard' = OnBoard /\ page' = page
      /\ now' = now
  BY <1>1, RecordAndPageStand
<1>3. page.want \in OnBoard \cup {None} /\ MaxFails \in Nat /\ fails \in 0 .. MaxFails
  BY ConversationAssumption DEF IInv, PageOK, ScreenOK
<1>4. /\ resolveTopic(page.want) \in OnBoard \cup {None}
      /\ page.want # None => resolveTopic(page.want) = page.want
  BY <1>3, ResolvesOnBoard DEF IInv
<1>5. ScreenOK'
  <2>1. CASE Ticks
    <3>1. screen' = Seen(resolveTopic(page.want)) /\ fails' = fails
      BY <2>1 DEF Ticks
    <3>2. /\ screen' \in [topic : Topics \cup {None}, life : Lives, said : SUBSET (1 .. now)]
          /\ screen'.topic = resolveTopic(page.want)
          /\ screen'.topic = None => screen'.said = {} /\ screen'.life = "none"
      BY <1>4, <3>1, SeenIsOfIt DEF IInv
    <3> QED
      BY <1>2, <1>3, <1>4, <3>1, <3>2 DEF ScreenOK
  <2>2. CASE TickFails
    <3>1. PICK t \in {resolveTopic(page.want), page.want} : screen' = [Blank EXCEPT !.topic = t]
      BY <2>2 DEF TickFails
    <3>2. fails' = fails + 1 /\ fails < MaxFails
      BY <2>2 DEF TickFails
    <3>3. t \in OnBoard \cup {None} /\ t \in Topics \cup {None}
      BY <1>3, <1>4, <3>1 DEF OnBoard
    <3>4. screen' = [topic |-> t, life |-> "none", said |-> {}]
      BY <3>1 DEF Blank
    <3>5. /\ screen' \in [topic : Topics \cup {None}, life : Lives, said : SUBSET (1 .. now')]
          /\ screen'.topic = t /\ screen'.life = "none" /\ screen'.said = {}
      BY <3>3, <3>4 DEF Lives
    <3>6. page.want # None => t = page.want
      BY <1>4, <3>1
    <3> QED
      BY <1>2, <1>3, <3>2, <3>3, <3>5, <3>6 DEF ScreenOK
  <2> QED
    BY <2>1, <2>2
<1>6. SnapOK' /\ DockOK' /\ PostOK' /\ LifeOK'
  BY <1>1, <1>2, SnapKept, DockKept, PostKept, LifeKept DEF IInv
<1> QED
  BY <1>2, <1>5, <1>6 DEF IInv

\* The composer: typing, a Reply control, and its undoing.
LEMMA ComposerKeeps ==
  ASSUME IInv,
         \/ \E x \in Texts : Types(x)
         \/ \E op \in 1 .. now : Replies(op)
         \/ CancelsReply
  PROVE  IInv'
<1>1. /\ UNCHANGED <<record, page>> /\ UNCHANGED view /\ screen' = screen /\ fails' = fails
      /\ post' = post /\ UNCHANGED lifeDock
  BY DEF Types, Replies, CancelsReply, stream
<1>2. /\ RecordOK' /\ PageOK' /\ Grows /\ OnBoard' = OnBoard /\ page' = page
      /\ now' = now /\ said' = said
  BY <1>1, RecordAndPageStand
<1>3. DockOK /\ ScreenOK /\ 0 \in 0 .. now
  BY ConversationAssumption DEF IInv, RecordOK
<1>4. DockOK'
  <2>1. CASE \E x \in Texts : Types(x)
    BY <1>2, <1>3, <2>1 DEF Types, DockOK, InTopic
  <2>2. CASE \E op \in 1 .. now : Replies(op)
    <3>1. PICK op \in 1 .. now : Replies(op)
      BY <2>2
    <3>2. /\ op \in screen.said /\ draft' = draft
          /\ reply' = IF \E m \in said : m.topic = screen.topic /\ m.at = op THEN op ELSE 0
      BY <3>1 DEF Replies
    <3>3. page.want # None => screen.topic = page.want
      BY <1>3, <3>2 DEF ScreenOK
    <3>4. reply' \in 0 .. now'
      BY <1>2, <1>3, <3>2
    <3>5. reply' # 0 /\ page.want # None => InTopic(reply', page.want)
      BY <3>2, <3>3 DEF InTopic
    <3> QED
      BY <1>2, <1>3, <3>2, <3>4, <3>5 DEF DockOK, InTopic
  <2>3. CASE CancelsReply
    BY <1>2, <1>3, <2>3 DEF CancelsReply, DockOK
  <2> QED
    BY <2>1, <2>2, <2>3
<1>5. SnapOK' /\ ScreenOK' /\ PostOK' /\ LifeOK'
  BY <1>1, <1>2, SnapKept, ScreenKept, PostKept, LifeKept DEF IInv
<1> QED
  BY <1>2, <1>4, <1>5 DEF IInv

\* One request moves, and what it says is still true of it.
LEMMA OnePostMoves ==
  ASSUME PostOK, Grows, NEW p \in Posts, NEW r \in PostType',
         post' = [post EXCEPT ![p] = r], PostIsTrue(p)'
  PROVE  PostOK'
<1>1. post \in [Posts -> PostType] /\ \A q \in Posts : PostIsTrue(q)
  BY DEF PostOK
<1>2. post \in [Posts -> PostType']
  BY <1>1, PostTypeGrows
<1>3. post' \in [Posts -> PostType'] /\ \A q \in Posts : q # p => post'[q] = post[q]
  BY <1>2
<1>4. ASSUME NEW q \in Posts, q # p PROVE PostIsTrue(q)'
  BY <1>1, <1>3, <1>4, PostStaysTrue
<1> QED
  BY <1>3, <1>4 DEF PostOK

\* What is left of the invariant, when a request moved and the record stands.
LEMMA PostStepKeeps ==
  ASSUME IInv, UNCHANGED <<record, page, view, stream, lifeDock>>, PostOK', DockOK'
  PROVE  IInv'
<1>1. /\ UNCHANGED <<record, page>> /\ UNCHANGED view /\ screen' = screen /\ fails' = fails
      /\ UNCHANGED lifeDock
  BY DEF stream
<1>2. RecordOK' /\ PageOK' /\ Grows /\ page' = page
  BY <1>1, RecordAndPageStand
<1>3. SnapOK' /\ ScreenOK' /\ LifeOK'
  BY <1>1, <1>2, SnapKept, ScreenKept, LifeKept DEF IInv
<1> QED
  BY <1>2, <1>3 DEF IInv

\* The form posts itself.
LEMMA SendsKeeps ==
  ASSUME IInv, NEW p \in Posts, Sends(p)
  PROVE  IInv'
<1> DEFINE r == [at |-> "sent", here |-> TRUE, want |-> page.want, topic |-> None,
                 text |-> draft, anchor |-> reply]
<1>1. /\ UNCHANGED <<record, page, view, stream, lifeDock>>
      /\ draft' = draft /\ reply' = reply /\ post' = [post EXCEPT ![p] = r]
  BY DEF Sends, dock
<1>2. /\ RecordOK' /\ Grows /\ OnBoard' = OnBoard /\ page' = page
      /\ now' = now /\ said' = said
  BY <1>1, RecordAndPageStand
<1>3. PostOK /\ DockOK /\ PageOK
  BY DEF IInv
<1>4. r \in PostType'
  BY <1>2, <1>3 DEF PostType, DockOK, PageOK
<1>5. post'[p] = r
  BY <1>1, <1>3 DEF PostOK
<1>6. PostIsTrue(p)'
  BY <1>2, <1>3, <1>5 DEF PostIsTrue, InTopic, DockOK, PageOK
<1>7. PostOK'
  BY <1>1, <1>2, <1>3, <1>4, <1>6, OnePostMoves
<1>8. DockOK'
  BY <1>1, <1>2, <1>3, DockKept
<1> QED
  BY <1>1, <1>7, <1>8, PostStepKeeps

\* A request that only changes how far it is.
LEMMA PostAdvances ==
  ASSUME PostOK, Grows, NEW p \in Posts,
         NEW at \in {"idle", "sent", "resolved", "landed", "refused"},
         NEW t \in OnBoard \cup {None},
         post' = [post EXCEPT ![p].at = at, ![p].topic = t],
         at = "resolved" => t # None /\ (post[p].want # None => t = post[p].want),
         at = "landed" => \E m \in said' : m.topic = t /\ m.text = post[p].text
  PROVE  PostOK'
<1> DEFINE r == [post[p] EXCEPT !.at = at, !.topic = t]
<1>1. post \in [Posts -> PostType] /\ PostIsTrue(p)
  BY DEF PostOK
<1>2. post' = [post EXCEPT ![p] = r]
  BY <1>1
<1>3. t \in Topics \cup {None}
  BY DEF OnBoard
<1>4. post[p] \in PostType /\ post[p] \in PostType'
  BY <1>1, PostTypeGrows
<1>5. r \in PostType'
  BY <1>3, <1>4 DEF PostType
<1>6. /\ post'[p] = r /\ r.at = at /\ r.topic = t /\ r.want = post[p].want
      /\ r.text = post[p].text /\ r.anchor = post[p].anchor
  BY <1>1, <1>2, <1>4 DEF PostType
<1>7. PostIsTrue(p)'
  BY <1>1, <1>6 DEF PostIsTrue, InTopic, Grows
<1> QED
  BY <1>2, <1>5, <1>7, OnePostMoves

\* The same, where it keeps what it resolved to.
LEMMA PostAdvancesOn ==
  ASSUME PostOK, Grows, NEW p \in Posts, NEW at \in {"landed", "refused"},
         post' = [post EXCEPT ![p].at = at],
         at = "landed" => \E m \in said' : m.topic = post[p].topic /\ m.text = post[p].text
  PROVE  PostOK'
<1>1. post \in [Posts -> PostType] /\ PostIsTrue(p)
  BY DEF PostOK
<1>2. post[p] \in PostType
  BY <1>1
<1>3. [post[p] EXCEPT !.at = at] = [post[p] EXCEPT !.at = at, !.topic = post[p].topic]
  BY <1>2 DEF PostType
<1>4. post' = [post EXCEPT ![p].at = at, ![p].topic = post[p].topic]
  BY <1>1, <1>3
<1>5. post[p].topic \in OnBoard \cup {None}
  BY <1>1 DEF PostIsTrue
<1> QED
  BY <1>4, <1>5, PostAdvances

\* actPostTurn finds the conversation, or not; and say comes back with an error.
LEMMA ResolvesKeeps ==
  ASSUME IInv, NEW p \in Posts, Resolves(p) \/ SayFails(p)
  PROVE  IInv'
<1>1. /\ UNCHANGED <<record, page, view, stream, lifeDock>>
      /\ draft' = draft /\ reply' = reply
  BY DEF Resolves, SayFails, dock
<1>2. RecordOK' /\ Grows /\ page' = page
  BY <1>1, RecordAndPageStand
<1>3. PostOK /\ DockOK /\ RecordOK /\ SnapOK
  BY DEF IInv
<1>4. post[p].want \in OnBoard \cup {None}
  BY <1>3 DEF PostOK, PostIsTrue
<1>5. /\ resolveTopic(post[p].want) \in OnBoard \cup {None}
      /\ post[p].want # None => resolveTopic(post[p].want) = post[p].want
  BY <1>3, <1>4, ResolvesOnBoard
<1>6. \/ /\ resolveTopic(post[p].want) # None
         /\ post' = [post EXCEPT ![p].at = "resolved", ![p].topic = resolveTopic(post[p].want)]
      \/ post' = [post EXCEPT ![p].at = "refused"]
  BY DEF Resolves, SayFails
<1>7. PostOK'
  BY <1>2, <1>3, <1>5, <1>6, PostAdvances, PostAdvancesOn
<1>8. DockOK'
  BY <1>1, <1>2, <1>3, DockKept
<1> QED
  BY <1>1, <1>7, <1>8, PostStepKeeps

\* say: what a request lands on the record.
LEMMA SaysLands ==
  ASSUME IInv, NEW p \in Posts, NEW heard \in BOOLEAN, Says(p, heard)
  PROVE  /\ RecordOK' /\ Grows
         /\ \A m \in said' \ said :
               m.topic = post[p].topic /\ m.text = post[p].text /\ m.anchor = post[p].anchor
         /\ \E m \in said' : m.topic = post[p].topic /\ m.text = post[p].text
<1>1. post \in [Posts -> PostType] /\ PostIsTrue(p) /\ RecordOK
  BY DEF IInv, PostOK
<1>2. post[p].at = "resolved" /\ Lands(post[p].topic, post[p].text, post[p].anchor)
  BY DEF Says
<1>3. post[p].topic \in OnBoard
  BY <1>1, <1>2 DEF PostIsTrue
<1>4. post[p] \in PostType
  BY <1>1
<1>5. post[p].text \in Texts \cup {None} /\ post[p].anchor \in 0 .. now
  BY <1>4 DEF PostType
<1> QED
  BY <1>1, <1>2, <1>3, <1>5, LandsGrows

\* The message is on the record, whether or not the request hears of it.
LEMMA SaysKeeps ==
  ASSUME IInv, NEW p \in Posts, NEW heard \in BOOLEAN, Says(p, heard)
  PROVE  IInv'
<1>1. /\ UNCHANGED view /\ page' = page /\ screen' = screen /\ fails' = fails
      /\ draft' = draft /\ reply' = reply /\ UNCHANGED lifeDock
      /\ post' = [post EXCEPT ![p].at = IF heard THEN "landed" ELSE "refused"]
  BY DEF Says, stream, dock
<1>2. /\ RecordOK' /\ Grows
      /\ \E m \in said' : m.topic = post[p].topic /\ m.text = post[p].text
  BY SaysLands
<1>3. PostOK'
  BY <1>1, <1>2, PostAdvancesOn DEF IInv
<1>4. SnapOK' /\ PageOK' /\ ScreenOK' /\ DockOK' /\ LifeOK'
  BY <1>1, <1>2, SnapKept, PageKept, ScreenKept, DockKept, LifeKept DEF IInv
<1> QED
  BY <1>2, <1>3, <1>4 DEF IInv

\* The answer.
LEMMA AnsweredKeeps ==
  ASSUME IInv, NEW p \in Posts, Answered(p)
  PROVE  IInv'
<1>1. /\ UNCHANGED <<record, page, view, stream, lifeDock>>
      /\ post' = [post EXCEPT ![p] = NoPost]
      /\ \/ draft' = None /\ reply' = 0
         \/ draft' = draft /\ reply' = reply
  BY DEF Answered
<1>2. /\ RecordOK' /\ Grows /\ page' = page /\ now' = now
  BY <1>1, RecordAndPageStand
<1>3. PostOK /\ DockOK /\ 0 \in 0 .. now
  BY ConversationAssumption DEF IInv, RecordOK
<1>4. NoPost \in PostType' /\ post'[p] = NoPost
  BY <1>1, <1>2, <1>3 DEF NoPost, PostType, PostOK
<1>5. PostIsTrue(p)'
  BY <1>4 DEF PostIsTrue, NoPost
<1>6. PostOK'
  BY <1>1, <1>2, <1>3, <1>4, <1>5, OnePostMoves
<1>7. DockOK'
  BY <1>1, <1>2, <1>3, DockKept DEF DockOK
<1> QED
  BY <1>1, <1>6, <1>7, PostStepKeeps

\* What is left of the invariant, when only the acts and their question moved
\* beside the record.
LEMMA LifeStepKeeps ==
  ASSUME IInv, RecordOK', Grows, UNCHANGED <<view, page, stream, dock, post>>, LifeOK'
  PROVE  IInv'
<1>1. /\ UNCHANGED view /\ page' = page /\ screen' = screen /\ fails' = fails
      /\ draft' = draft /\ reply' = reply /\ post' = post
  BY DEF stream, dock
<1>2. SnapOK' /\ PageOK' /\ ScreenOK'
  BY <1>1, SnapKept, PageKept, ScreenKept DEF IInv
<1>3. DockOK' /\ PostOK'
  BY <1>1, DockKept, PostKept DEF IInv
<1> QED
  BY <1>2, <1>3 DEF IInv

\* Close, archive with its question, and the yes or no to that.
LEMMA PressesKeeps ==
  ASSUME IInv, PressesClose \/ PressesArchive \/ Keeps \/ Confirms
  PROVE  IInv'
<1> DEFINE Act == [kind : {"close", "archive"}, topic : Topics, here : BOOLEAN]
<1>1. UNCHANGED record /\ UNCHANGED <<view, page, stream, dock, post>>
  BY DEF PressesClose, PressesArchive, Keeps, Confirms
<1>2. RecordOK' /\ PageOK' /\ Grows /\ page' = page
  BY <1>1, RecordAndPageStand
<1>3. LifeOK /\ ScreenOK /\ page.want \in Topics \cup {None}
  BY DEF IInv, PageOK
<1>4. screen.life # "none" =>
        screen.topic \in Topics /\ (page.want # None => screen.topic = page.want)
  BY <1>3 DEF ScreenOK
<1>5. LifeOK'
  <2>1. CASE PressesClose
    <3> DEFINE new == [kind |-> "close", topic |-> screen.topic, here |-> TRUE]
    <3>1. acts' = acts \cup {new} /\ asks' = asks /\ asked' = asked
      BY <2>1 DEF PressesClose
    <3>2. screen.topic \in Topics
      BY <1>4, <2>1 DEF PressesClose, Living
    <3>3. new \in Act /\ new.kind # "archive"
      BY <3>2
    <3> QED
      BY <1>2, <1>3, <3>1, <3>3 DEF LifeOK
  <2>2. CASE PressesArchive
    BY <1>2, <1>3, <1>4, <2>2 DEF PressesArchive, LifeOK
  <2>3. CASE Keeps
    BY <1>2, <1>3, <2>3 DEF Keeps, LifeOK
  <2>4. CASE Confirms
    <3> DEFINE new == [kind |-> "archive", topic |-> asks, here |-> TRUE]
               said_yes == [topic |-> asks, want |-> page.want]
    <3>1. /\ asks # None /\ acts' = acts \cup {new}
          /\ asks' = asks /\ asked' = asked \cup {said_yes}
      BY <2>4 DEF Confirms
    <3>2. asks \in Topics /\ page.want \in {None, asks}
      BY <1>3, <3>1 DEF LifeOK
    <3>3. /\ new \in Act /\ said_yes \in asked' /\ said_yes.topic = new.topic
          /\ said_yes \in [topic : Topics, want : Topics \cup {None}]
          /\ said_yes.want \in {None, said_yes.topic}
      BY <1>3, <3>1, <3>2
    <3>4. \A b \in acts' : b.kind = "archive" => \E yes \in asked' : yes.topic = b.topic
      BY <1>3, <3>1, <3>3 DEF LifeOK
    <3> HIDE DEF new, said_yes
    <3> QED
      BY <1>2, <1>3, <3>1, <3>3, <3>4 DEF LifeOK
  <2> QED
    BY <2>1, <2>2, <2>3, <2>4
<1> QED
  BY <1>1, <1>2, <1>5, LifeStepKeeps

\* The answer of an act: what is still under way was still said yes to.
LEMMA ActAnsweredKeeps ==
  ASSUME LifeOK, page' = page, NEW a \in acts, ActAnswered(a)
  PROVE  LifeOK'
<1>1. /\ acts' = acts \ {a}
      /\ asked' = IF \E b \in acts' : b.kind = "archive" /\ b.topic = a.topic
                  THEN asked ELSE {yes \in asked : yes.topic # a.topic}
      /\ asks' = None \/ asks' = asks
  BY DEF ActAnswered
<1>2. ASSUME NEW b \in acts', b.kind = "archive"
      PROVE  \E yes \in asked' : yes.topic = b.topic
  <2>1. PICK yes \in asked : yes.topic = b.topic
    BY <1>1, <1>2 DEF LifeOK
  <2>2. yes \in asked'
    BY <1>1, <1>2, <2>1
  <2> QED
    BY <2>1, <2>2
<1>3. asks' \in Topics \cup {None} /\ asked' \subseteq asked
  BY <1>1 DEF LifeOK
<1> QED
  BY <1>1, <1>2, <1>3 DEF LifeOK

\* The acts take effect, or fail.
LEMMA ActsKeep ==
  ASSUME IInv, NEW a \in acts, TakesEffect(a) \/ ActFails(a)
  PROVE  IInv'
<1>1. ActAnswered(a) /\ UNCHANGED <<view, page, stream, dock, post>>
  BY DEF TakesEffect, ActFails
<1>2. a.topic \in Topics
  BY DEF IInv, LifeOK
<1>3. \/ UNCHANGED record
      \/ \E l \in {"closed", "archived"} : Becomes(a.topic, l)
  BY DEF TakesEffect, ActFails
<1>4. RecordOK' /\ Grows
  BY <1>2, <1>3, RecordStands, BecomesGrows DEF IInv
<1>5. LifeOK'
  <2>1. page' = page
    BY <1>1
  <2> QED
    BY <1>1, <2>1, ActAnsweredKeeps DEF IInv
<1> QED
  BY <1>1, <1>4, <1>5, LifeStepKeeps

-----------------------------------------------------------------------------
(* The invariant.                                                           *)

\* Nothing is announced, said or under way at first.
LEMMA StartsWell == Init => IInv
<1> SUFFICES ASSUME Init PROVE IInv
  OBVIOUS
<1>1. /\ board = <<>> /\ life = [t \in Topics |-> "none"]
      /\ active = [t \in Topics |-> 0] /\ said = {} /\ now = 0 /\ snap = None
      /\ machinery = {}
      /\ page = [open |-> FALSE, want |-> None, quiet |-> FALSE]
      /\ screen = Blank /\ fails = 0 /\ draft = None /\ reply = 0
      /\ post = [p \in Posts |-> NoPost] /\ asks = None /\ acts = {} /\ asked = {}
  BY DEF Init
<1>2. 0 \in 0 .. 0 /\ 0 \in 0 .. MaxNow /\ 0 \in 0 .. MaxFails
  BY ConversationAssumption
<1>3. RecordOK
  <2>1. board \in Seq(Topics) /\ DOMAIN board = {} /\ IsInjective(board)
    BY <1>1 DEF IsInjective
  <2> QED
    BY <1>1, <1>2, <2>1 DEF RecordOK, Lives
<1>4. SnapOK /\ PageOK
  BY <1>1 DEF SnapOK, PageOK
<1>5. ScreenOK
  BY <1>1, <1>2 DEF ScreenOK, Blank, Lives
<1>6. DockOK
  BY <1>1, <1>2 DEF DockOK
<1>7. PostOK
  <2>1. NoPost \in PostType
    BY <1>1, <1>2 DEF NoPost, PostType
  <2>2. \A p \in Posts : PostIsTrue(p)
    BY <1>1 DEF PostIsTrue, NoPost
  <2> QED
    BY <1>1, <2>1, <2>2 DEF PostOK
<1>8. LifeOK
  BY <1>1 DEF LifeOK
<1> QED
  BY <1>3, <1>4, <1>5, <1>6, <1>7, <1>8 DEF IInv

\* Nor does it matter what the screen does while nothing moves.
LEMMA StutterKeeps ==
  ASSUME IInv, UNCHANGED vars
  PROVE  IInv'
<1>1. RecordOK' /\ Grows /\ UNCHANGED <<view, page, stream, dock, post, lifeDock>>
  BY RecordStands DEF IInv, vars
<1> QED
  BY <1>1, OthersKeep

\* Every step keeps the invariant.
LEMMA StepsKeep == IInv /\ [Next]_vars => IInv'
<1> SUFFICES ASSUME IInv, [Next]_vars PROVE IInv'
  OBVIOUS
<1>1. CASE Others
  BY <1>1, OthersKeeps
<1>2. CASE Person
  <2>1. CASE \E w \in Topics \cup {None}, quiet \in BOOLEAN : Opens(w, quiet)
    BY <2>1, OpensKeeps
  <2>2. CASE \E t \in Topics : Starts(t)
    BY <2>2, StartsKeeps
  <2>3. CASE \/ \E x \in Texts : Types(x)
             \/ \E op \in 1 .. now : Replies(op)
             \/ CancelsReply
    BY <2>3, ComposerKeeps
  <2>4. CASE \E p \in Posts : Sends(p)
    BY <2>4, SendsKeeps
  <2>5. CASE PressesClose \/ PressesArchive \/ Keeps \/ Confirms
    BY <2>5, PressesKeeps
  <2> QED
    BY <1>2, <2>1, <2>2, <2>3, <2>4, <2>5 DEF Person
<1>3. CASE Follows \/ \E r \in Rooms : RoomLearned(r)
  BY <1>3, FollowsKeeps, RoomLearnedKeeps
<1>4. CASE Ticks \/ TickFails
  BY <1>4, TicksKeeps
<1>5. CASE \E p \in Posts : Post(p)
  BY <1>5, ResolvesKeeps, SaysKeeps, AnsweredKeeps DEF Post
<1>6. CASE \E a \in acts : TakesEffect(a) \/ ActFails(a)
  BY <1>6, ActsKeep
<1>7. CASE UNCHANGED vars
  BY <1>7, StutterKeeps
<1> QED
  BY <1>1, <1>2, <1>3, <1>4, <1>5, <1>6, <1>7 DEF Next

\* It holds in every state the screen can come to.
LEMMA Invariance == Spec => []IInv
BY StartsWell, StepsKeep, PTL DEF Spec

-----------------------------------------------------------------------------
(* What follows.                                                            *)

\* The parts of the invariant say what the types do.
LEMMA KeptIsTyped == IInv => TypeOK
<1> SUFFICES ASSUME IInv PROVE TypeOK
  OBVIOUS
<1>1. /\ RecordOK /\ SnapOK /\ PageOK /\ ScreenOK /\ DockOK /\ LifeOK
      /\ post \in [Posts -> PostType]
  BY DEF IInv, PostOK
<1>2. /\ board \in Seq(Topics) /\ IsInjective(board)
      /\ life \in [Topics -> Lives] /\ active \in [Topics -> 0 .. now]
      /\ said \subseteq [at : 1 .. now, topic : OnBoard, text : Texts \cup {None},
                         anchor : 0 .. now]
      /\ now \in 0 .. MaxNow
  BY <1>1 DEF RecordOK
<1>3. /\ snap = None \/ snap \in Entry
      /\ machinery \subseteq Rooms
      /\ page \in [open : BOOLEAN, want : Topics \cup {None}, quiet : BOOLEAN]
  BY <1>1 DEF SnapOK, PageOK
<1>4. /\ screen \in [topic : Topics \cup {None}, life : Lives, said : SUBSET (1 .. now)]
      /\ fails \in 0 .. MaxFails
      /\ draft \in Texts \cup {None} /\ reply \in 0 .. now
  BY <1>1 DEF ScreenOK, DockOK
<1>5. /\ asks \in Topics \cup {None}
      /\ acts \subseteq [kind : {"close", "archive"}, topic : Topics, here : BOOLEAN]
      /\ asked \subseteq [topic : Topics, want : Topics \cup {None}]
  BY <1>1 DEF LifeOK
<1> QED
  BY <1>1, <1>2, <1>3, <1>4, <1>5 DEF TypeOK, PostType

\* Every variable keeps to its type: what the requests answer and the screen
\* shows are numbers of messages there have been, and what was said was said in
\* a conversation of the board.
THEOREM TypeCorrect == Spec => []TypeOK
BY KeptIsTyped, Invariance, PTL

\* The conversation LastLive chooses is the one a screen should open onto.
LEMMA LastLiveOpensOnto ==
  ASSUME NEW e \in Entry, NEW rooms, IsInjective(e.board)
  PROVE  OpensOnto(e, rooms, LastLive(e, rooms))
<1> DEFINE candidates == {c \in ToSet(e.board) \ rooms : e.life[c] # "archived"}
           living == {i \in HumanConversations(e, rooms) : e.life[e.board[i]] # "archived"}
           Later(c, d) == \/ e.active[c] > e.active[d]
                          \/ e.active[c] = e.active[d] /\ Position(e, c) > Position(e, d)
<1>1. e.board \in Seq(Topics)
  BY DEF Entry
<1>2. \A i \in DOMAIN e.board : e.board[i] \in Topics /\ e.board[i] # None
  BY <1>1, ConversationAssumption
<1>3. \A i \in DOMAIN e.board : Position(e, e.board[i]) = i
  BY DEF Position, IsInjective
<1>4. \A c \in candidates : \E i \in living : c = e.board[i]
  BY DEF ToSet, HumanConversations
<1>5. \A i \in living : i \in DOMAIN e.board /\ e.board[i] \in candidates
  BY DEF ToSet, HumanConversations
<1>6. \A i \in living, j \in living : Later(e.board[j], e.board[i]) => Before(e, j, i)
  BY <1>3, <1>5 DEF Before
<1>7. \/ living = {} /\ LastLive(e, rooms) = None
      \/ \E i \in living : LastLive(e, rooms) = e.board[i] /\ \A j \in living : ~Before(e, j, i)
  BY LastLiveIsFirst
<1>8. CASE living = {} /\ LastLive(e, rooms) = None
  <2>1. candidates = {}
    BY <1>4, <1>8
  <2> QED
    BY <1>8, <2>1 DEF OpensOnto
<1>9. CASE \E i \in living : LastLive(e, rooms) = e.board[i] /\ \A j \in living : ~Before(e, j, i)
  <2>1. PICK i \in living : LastLive(e, rooms) = e.board[i] /\ \A j \in living : ~Before(e, j, i)
    BY <1>9
  <2>2. LastLive(e, rooms) # None /\ LastLive(e, rooms) \in candidates
    BY <1>2, <1>5, <2>1
  <2>3. \A c \in candidates : ~Later(c, LastLive(e, rooms))
    BY <1>4, <1>6, <2>1
  <2> QED
    BY <2>2, <2>3 DEF OpensOnto
<1> QED
  BY <1>7, <1>8, <1>9

\* A tick of a page that names no conversation puts it there.
LEMMA TicksOntoNewest ==
  IInv /\ [Next]_vars =>
        [page.want = None /\ screen' # screen /\ Ticks
            => OpensOnto(Entries, machinery, screen'.topic)]_vars
<1> SUFFICES ASSUME IInv, page.want = None, Ticks
             PROVE  OpensOnto(Entries, machinery, screen'.topic)
  OBVIOUS
<1>1. screen' = Seen(LastLive(Entries, machinery))
  BY DEF Ticks, resolveTopic
<1>2. LastLive(Entries, machinery) \in OnBoard \cup {None}
  BY ResolvesOnBoard DEF resolveTopic, IInv
<1>3. screen'.topic = LastLive(Entries, machinery)
  BY <1>1, <1>2, SeenIsOfIt DEF IInv
<1> QED
  BY <1>3, EntriesOnBoard, LastLiveOpensOnto DEF IInv

\* A page that names no conversation opens onto the most recently active living
\* one that the watch does not know for a room, and of two as recent the one
\* announced later: the reversal and the stable sort of the code amount to that
\* on every board, whatever the watch has learned of.
THEOREM AlwaysLandsOnNewest == Spec => LandsOnNewest
BY TicksOntoNewest, Invariance, PTL DEF Spec, LandsOnNewest

\* Only a request of this person's moves the requests and the record at once.
LEMMA OnlySaysSpeaks ==
  ASSUME [Next]_vars, said' # said, post' # post
  PROVE  \E p \in Posts, heard \in BOOLEAN : Says(p, heard)
<1>1. CASE Others
  BY <1>1 DEF Others, OthersStart, OthersSay, OthersEnd
<1>2. CASE Person
  BY <1>2 DEF Person, Opens, Starts, Announces, Types, Replies, CancelsReply, Sends,
              PressesClose, PressesArchive, Keeps, Confirms, record
<1>3. CASE \/ Follows \/ Ticks \/ TickFails \/ UNCHANGED vars
           \/ \E r \in Rooms : RoomLearned(r)
  BY <1>3 DEF Follows, RoomLearned, Ticks, TickFails, vars
<1>4. CASE \E p \in Posts : Post(p)
  BY <1>4 DEF Post, Resolves, SayFails, Answered, record
<1>5. CASE \E a \in acts : TakesEffect(a) \/ ActFails(a)
  BY <1>5 DEF TakesEffect, ActFails
<1> QED
  BY <1>1, <1>2, <1>3, <1>4, <1>5 DEF Next

\* A message sent from a page that names its conversation lands in that
\* conversation and answers a message of it, whatever moved in between.
THEOREM NamedPagesAlwaysKeepTheirWord == Spec => NamedPagesKeepTheirWord
<1>1. IInv /\ [Next]_vars =>
        [\A p \in Posts, m \in said' \ said :
            (post[p].at = "resolved" /\ post'[p] # post[p] /\ post[p].want # None) =>
                /\ m.topic = post[p].want
                /\ m.anchor # 0 => \E n \in said : n.at = m.anchor /\ n.topic = m.topic]_vars
  <2> SUFFICES ASSUME IInv, [Next]_vars, NEW p \in Posts, NEW m \in said' \ said,
                      post[p].at = "resolved", post'[p] # post[p], post[p].want # None
               PROVE  /\ m.topic = post[p].want
                      /\ m.anchor # 0 => \E n \in said : n.at = m.anchor /\ n.topic = m.topic
    OBVIOUS
  <2>1. PICK q \in Posts, heard \in BOOLEAN : Says(q, heard)
    BY OnlySaysSpeaks
  <2>2. post \in [Posts -> PostType] /\ PostIsTrue(p)
    BY DEF IInv, PostOK
  <2>3. q = p
    <3>1. post' = [post EXCEPT ![q].at = IF heard THEN "landed" ELSE "refused"]
      BY <2>1 DEF Says
    <3> QED
      BY <2>2, <3>1
  <2>4. m.topic = post[p].topic /\ m.anchor = post[p].anchor
    BY <2>1, <2>3, SaysLands
  <2> QED
    BY <2>2, <2>4 DEF PostIsTrue, InTopic
<1> QED
  BY <1>1, Invariance, PTL DEF Spec, NamedPagesKeepTheirWord

\* While a page stands, its box is emptied only by a message of it that is on
\* the record.
THEOREM AlwaysEmptiedByLanding == Spec => EmptiedByLanding
<1>1. IInv /\ [Next]_vars =>
        [(draft # None /\ draft' = None /\ ~LeavesPage)
            => \E p \in Posts, m \in said :
                  /\ post[p].here /\ post'[p] = NoPost
                  /\ m.topic = post[p].topic /\ m.text = post[p].text]_vars
  <2> SUFFICES ASSUME IInv, [Next]_vars, draft # None, draft' = None, ~LeavesPage
               PROVE  \E p \in Posts, m \in said :
                         /\ post[p].here /\ post'[p] = NoPost
                         /\ m.topic = post[p].topic /\ m.text = post[p].text
    OBVIOUS
  <2>1. \A w \in Topics \cup {None}, quiet \in BOOLEAN : ~Opens(w, quiet)
    <3> SUFFICES ASSUME NEW w \in Topics \cup {None}, NEW quiet \in BOOLEAN, Opens(w, quiet)
                 PROVE  FALSE
      OBVIOUS
    <3>1. page'.want = w /\ page'.quiet = quiet /\ screen' = Blank
      BY DEF Opens, Navigates
    <3> QED
      BY <3>1 DEF LeavesPage
  <2>2. \A t \in Topics : ~Starts(t)
    <3> SUFFICES ASSUME NEW t \in Topics, Starts(t) PROVE FALSE
      OBVIOUS
    <3>1. page'.want = t /\ screen' = Blank /\ t # None
      BY ConversationAssumption DEF Starts, Navigates
    <3> QED
      BY <3>1 DEF LeavesPage
  <2>3. \A x \in Texts : ~Types(x)
    BY ConversationAssumption DEF Types
  <2>4. ~Others
    BY DEF Others, OthersStart, OthersSay, OthersEnd, dock
  <2>5. ~(\/ Follows \/ Ticks \/ TickFails \/ UNCHANGED vars
          \/ \E r \in Rooms : RoomLearned(r))
    BY DEF Follows, RoomLearned, Ticks, TickFails, vars, dock
  <2>6. ~\E a \in acts : TakesEffect(a) \/ ActFails(a)
    BY DEF TakesEffect, ActFails, dock
  <2>7. ~Person
    BY <2>1, <2>2, <2>3 DEF Person, Replies, CancelsReply, Sends, PressesClose,
                            PressesArchive, Keeps, Confirms, dock
  <2>8. PICK p \in Posts : Post(p)
    BY <2>4, <2>5, <2>6, <2>7 DEF Next
  <2>9. Answered(p)
    BY <2>8 DEF Post, Resolves, Says, SayFails, dock
  <2>10. post \in [Posts -> PostType] /\ PostIsTrue(p)
    BY DEF IInv, PostOK
  <2>11. post[p].here /\ post[p].at = "landed" /\ post'[p] = NoPost
    BY <2>9, <2>10 DEF Answered
  <2> QED
    BY <2>10, <2>11 DEF PostIsTrue
<1> QED
  BY <1>1, Invariance, PTL DEF Spec, EmptiedByLanding

\* An act that takes effect archives only what was asked about.
LEMMA ArchivesWhatWasAsked ==
  IInv /\ [Next]_vars =>
        [\A a \in acts \ acts', t \in Topics :
            life[t] # "archived" /\ life'[t] = "archived" =>
                \E yes \in asked : yes.topic = t /\ yes.want \in {None, t}]_vars
<1> SUFFICES ASSUME IInv, [Next]_vars, NEW a \in acts \ acts', NEW t \in Topics,
                    life[t] # "archived", life'[t] = "archived"
             PROVE  \E yes \in asked : yes.topic = t /\ yes.want \in {None, t}
  OBVIOUS
<1>1. LifeOK /\ life \in [Topics -> Lives]
  BY DEF IInv, RecordOK
<1>2. ~Others
  BY DEF Others, OthersStart, OthersSay, OthersEnd, lifeDock
<1>3. ~\E u \in Topics : Starts(u)
  BY <1>1 DEF Starts, Announces
<1>4. ~Person
  BY <1>3 DEF Person, Opens, Types, Replies, CancelsReply, Sends, PressesClose,
              PressesArchive, Keeps, Confirms, record
<1>5. ~(\/ Follows \/ Ticks \/ TickFails \/ UNCHANGED vars
        \/ \E r \in Rooms : RoomLearned(r))
  BY DEF Follows, RoomLearned, Ticks, TickFails, vars, record
<1>6. ~\E p \in Posts : Post(p)
  BY DEF Post, Resolves, Says, SayFails, Answered, lifeDock
<1>7. PICK b \in acts : TakesEffect(b)
  BY <1>2, <1>4, <1>5, <1>6 DEF Next, ActFails, record
<1>8. life' = [life EXCEPT ![b.topic] = IF b.kind = "close" THEN "closed" ELSE "archived"]
  BY <1>7 DEF TakesEffect, Becomes, record
<1>9. b.topic = t /\ b.kind # "close"
  BY <1>1, <1>8
<1>10. b.kind = "archive"
  BY <1>1, <1>9 DEF LifeOK
<1> QED
  BY <1>1, <1>9, <1>10 DEF LifeOK

\* Nothing is archived by an act of this person's but the conversation that was
\* on the screen when the question said yes to was put: on a page that names its
\* conversation that very one, on a page that names none whichever it was,
\* though the screen may have shown another by the yes.
THEOREM AlwaysArchivedOnPurpose == Spec => ArchivedOnPurpose
BY ArchivesWhatWasAsked, Invariance, PTL DEF Spec, ArchivedOnPurpose
=============================================================================
