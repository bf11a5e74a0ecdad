---------------------------- MODULE Conversation ----------------------------
(***************************************************************************)
(* One person's conversation screen (modules/conversations, over           *)
(* soulstream/board.go): the page, its live stream, the composer docked    *)
(* under it and the acts that close and archive, while other people post,  *)
(* close, archive and start conversations.                                 *)
(*                                                                         *)
(* The record (board, life, active, said) is the core library's.  An       *)
(* operation on it takes effect in one step and is numbered by now.  A     *)
(* conversation gone quiet (Dormant) is treated as an active one           *)
(* everywhere in the code, and is not told apart here.  What the watch     *)
(* knows of the machinery is read at every ask, and runs behind: rooms are *)
(* learned of one by one and none is forgotten, as Placements shows.       *)
(***************************************************************************)
EXTENDS Naturals, Sequences, FiniteSets, SequencesExt

CONSTANTS
    Topics,
    Rooms,          \* the machinery, once it is declared: homes and the
                    \* placements topic
    Texts,          \* what this person may type
    Posts,          \* requests to /act/post-turn
    MaxNow,         \* operations on the record (bound)
    MaxFails,       \* reads of the screen that fail (bound)
    MaxActs,        \* requests to close or archive under way at once (bound)
    None

ASSUME ConversationAssumption ==
    /\ Rooms \subseteq Topics
    /\ MaxNow \in Nat /\ MaxFails \in Nat /\ MaxActs \in Nat
    /\ None \notin Topics \cup Texts \cup Posts

VARIABLES
    board,      \* the conversations, in the order they were announced
    life,       \* Lifecycle of each
    active,     \* LastActivity of each
    said,       \* the messages
    now,        \* operations so far
    snap,       \* what the followed board holds; None before it is warm
    machinery,  \* the rooms the watch's snapshot knows to be such
    page,       \* the page in the browser: the conversation it names, and
                \* whether its dock is archivedDock
    screen,     \* what the stream last drew
    fails,      \* reads that failed (bounded by MaxFails)
    draft,      \* #composer-box
    reply,      \* #reply-to: the message answered, 0 for none
    post,       \* requests to /act/post-turn
    asks,       \* #convo-life: the conversation archiveConfirm is about
    acts,       \* requests to close or archive under way
    asked       \* what this person said yes to archiving, until it is answered:
                \* the conversation, and the one their page named

record == <<board, life, active, said, now>>
dock == <<draft, reply>>
lifeDock == <<asks, acts, asked>>
stream == <<screen, fails>>
view == <<snap, machinery>>
vars == <<record, view, page, stream, dock, post, lifeDock>>

Living == {"proposed", "active"}
OnBoard == {t \in Topics : life[t] # "none"}
NoPost == [at |-> "idle", here |-> FALSE, want |-> None, topic |-> None,
           text |-> None, anchor |-> 0]
Blank == [topic |-> None, life |-> "none", said |-> {}]

Lives == {"none", "closed", "archived"} \cup Living
Entry == [board : Seq(Topics), life : [Topics -> Lives], active : [Topics -> 0 .. MaxNow]]

TypeOK ==
    /\ board \in Seq(Topics) /\ IsInjective(board)
    /\ life \in [Topics -> Lives]
    /\ active \in [Topics -> 0 .. now]
    /\ said \subseteq [at : 1 .. now, topic : OnBoard, text : Texts \cup {None},
                       anchor : 0 .. now]
    /\ now \in 0 .. MaxNow
    /\ snap = None \/ snap \in Entry
    /\ machinery \subseteq Rooms
    /\ page \in [open : BOOLEAN, want : Topics \cup {None}, quiet : BOOLEAN]
    /\ screen \in [topic : Topics \cup {None}, life : Lives, said : SUBSET (1 .. now)]
    /\ fails \in 0 .. MaxFails
    /\ draft \in Texts \cup {None}
    /\ reply \in 0 .. now
    /\ post \in [Posts -> [at : {"idle", "sent", "resolved", "landed", "refused"},
                           here : BOOLEAN, want : Topics \cup {None},
                           topic : Topics \cup {None}, text : Texts \cup {None},
                           anchor : 0 .. now]]
    /\ asks \in Topics \cup {None}
    /\ acts \subseteq [kind : {"close", "archive"}, topic : Topics, here : BOOLEAN]
    /\ asked \subseteq [topic : Topics, want : Topics \cup {None}]

Init ==
    /\ board = <<>>
    /\ life = [t \in Topics |-> "none"]
    /\ active = [t \in Topics |-> 0]
    /\ said = {}
    /\ now = 0
    /\ snap = None
    /\ machinery = {}
    /\ page = [open |-> FALSE, want |-> None, quiet |-> FALSE]
    /\ screen = Blank
    /\ fails = 0
    /\ draft = None
    /\ reply = 0
    /\ post = [p \in Posts |-> NoPost]
    /\ asks = None
    /\ acts = {}
    /\ asked = {}

-----------------------------------------------------------------------------
(* Operations of the core library on the record. *)

Announces(t) ==
    /\ life[t] = "none"
    /\ board' = Append(board, t)
    /\ life' = [life EXCEPT ![t] = "proposed"]
    /\ UNCHANGED <<active, said, now>>

\* A message in t.  Whether it brings a closed conversation back to life is
\* the library's to say.
Lands(t, text, anchor) ==
    /\ now < MaxNow
    /\ now' = now + 1
    /\ active' = [active EXCEPT ![t] = now + 1]
    /\ said' = said \cup {[at |-> now + 1, topic |-> t, text |-> text,
                           anchor |-> anchor]}
    /\ \E l \in {"active", life[t]} \ {"proposed"} :
          life' = [life EXCEPT ![t] = l]
    /\ UNCHANGED board

Becomes(t, l) ==
    /\ now < MaxNow
    /\ now' = now + 1
    /\ active' = [active EXCEPT ![t] = now + 1]
    /\ life' = [life EXCEPT ![t] = l]
    /\ UNCHANGED <<board, said>>

\* Other people, and agents.
OthersStart(t) == Announces(t) /\ UNCHANGED <<view, page, stream, dock, post, lifeDock>>

OthersSay(t) ==
    /\ life[t] \in Living \cup {"closed"}
    /\ Lands(t, None, 0)
    /\ UNCHANGED <<view, page, stream, dock, post, lifeDock>>

OthersEnd(t, l) ==
    /\ life[t] \in Living \cup {"closed"} /\ life[t] # l
    /\ Becomes(t, l)
    /\ UNCHANGED <<view, page, stream, dock, post, lifeDock>>

-----------------------------------------------------------------------------
(* The board, and the conversation a screen opens onto. *)

Fresh == [board |-> board, life |-> life, active |-> active]

\* The followed board comes up (runWatch), or catches up with the record.
Follows ==
    /\ snap # Fresh
    /\ snap' = Fresh
    /\ UNCHANGED <<record, machinery, page, stream, dock, post, lifeDock>>

\* The watch comes to know that a topic is a room.
RoomLearned(r) ==
    /\ r \in OnBoard \ machinery
    /\ machinery' = machinery \cup {r}
    /\ UNCHANGED <<record, snap, page, stream, dock, post, lifeDock>>

\* Faulty variant of Entries: the projection's activity is never used.
EntriesCold ==
    IF snap = None THEN [Fresh EXCEPT !.active = [t \in Topics |-> 0]]
                   ELSE [snap EXCEPT !.active = [t \in Topics |-> 0]]

\* Support.Board: the projection once it is warm; before, a read that knows
\* of no activity.
Entries ==
    IF snap = None THEN [Fresh EXCEPT !.active = [t \in Topics |-> 0]] ELSE snap

\* What is known to be machinery left out of the board.
HumanConversations(e, rooms) == {i \in DOMAIN e.board : e.board[i] \notin rooms}

\* Faulty variant of Before: the board is taken as it stands.
BeforeUnreversed(e, i, j) ==
    \/ e.active[e.board[i]] > e.active[e.board[j]]
    \/ e.active[e.board[i]] = e.active[e.board[j]] /\ i < j

\* They are taken backwards and sorted by activity, newest first; the sort is
\* stable, so that ties stay as they stood.
Before(e, i, j) ==
    \/ e.active[e.board[i]] > e.active[e.board[j]]
    \/ e.active[e.board[i]] = e.active[e.board[j]] /\ i > j

\* Where each stands in the sorted list.
Place(e, rooms, i) == Cardinality({j \in HumanConversations(e, rooms) : Before(e, j, i)}) + 1

\* The first of the list that is not archived.
LastLive(e, rooms) ==
    LET living == {i \in HumanConversations(e, rooms) : e.life[e.board[i]] # "archived"} IN
    IF living = {} THEN None
    ELSE e.board[CHOOSE i \in living :
                    \A j \in living : Place(e, rooms, i) <= Place(e, rooms, j)]

\* Faulty variant of resolveTopic: what the page names is not looked at.
ResolveAnew(want) == LastLive(Entries, machinery)

\* resolveTopic, and the same choice in observe.
resolveTopic(want) == IF want # None THEN want ELSE LastLive(Entries, machinery)

-----------------------------------------------------------------------------
(* The page and its stream. *)

\* GET /: whatever the last page had under way answers into nothing.  The
\* archived dock is decided here, once.
Navigates(want, quiet) ==
    /\ page' = [open |-> TRUE, want |-> want, quiet |-> quiet]
    /\ screen' = Blank
    /\ draft' = None
    /\ reply' = 0
    /\ asks' = None
    /\ post' = [p \in Posts |-> [post[p] EXCEPT !.here = FALSE]]
    /\ acts' = {[a EXCEPT !.here = FALSE] : a \in acts}

\* A page that names an archived conversation has the quiet dock, unless the
\* conversation could not be read.
Opens(want, quiet) ==
    /\ want = None \/ want \in OnBoard
    /\ quiet => want # None /\ life[want] = "archived"
    /\ UNCHANGED record
    /\ Navigates(want, quiet)
    /\ UNCHANGED <<view, fails, asked>>

\* actStart: the conversation is begun and the browser goes there.
Starts(t) ==
    /\ page.open
    /\ Announces(t)
    /\ Navigates(t, FALSE)
    /\ UNCHANGED <<view, fails, asked>>

\* What observe finds: the conversation named, or else the board's, read
\* whole from the record.
Seen(t) ==
    IF t = None THEN Blank
    ELSE [topic |-> t, life |-> life[t],
          said |-> {m.at : m \in {m \in said : m.topic = t}}]

\* A tick of live: observe, and the drawing of what it found.
Ticks ==
    /\ page.open
    /\ UNCHANGED <<record, view, page, fails, dock, post, lifeDock>>
    /\ \E t \in {resolveTopic(page.want)} : screen' = Seen(t)

\* The conversation cannot be read, or before the board is warm the board:
\* the screen says so and offers nothing.
TickFails ==
    /\ page.open
    /\ fails < MaxFails
    /\ fails' = fails + 1
    /\ \E t \in {resolveTopic(page.want)} \cup (IF snap = None THEN {page.want} ELSE {}) :
          screen' = [Blank EXCEPT !.topic = t]
    /\ UNCHANGED <<record, view, page, dock, post, lifeDock>>

-----------------------------------------------------------------------------
(* The composer. *)

Composing == page.open /\ ~page.quiet

Types(x) ==
    /\ Composing
    /\ draft # x
    /\ draft' = x
    /\ UNCHANGED <<record, view, page, stream, reply, post, lifeDock>>

\* The Reply control of a message on the screen: composerReply looks the
\* anchor up in the conversation its link names.  A read that fails leaves
\* the anchor alone.
Replies(op) ==
    /\ Composing
    /\ op \in screen.said
    /\ reply' = IF \E m \in said : m.topic = screen.topic /\ m.at = op THEN op ELSE 0
    /\ UNCHANGED <<record, view, page, stream, draft, post, lifeDock>>

CancelsReply ==
    /\ reply # 0
    /\ reply' = 0
    /\ UNCHANGED <<record, view, page, stream, draft, post, lifeDock>>

\* The form posts itself: the page's own conversation, the box, the anchor.
Sends(p) ==
    /\ Composing /\ draft # None
    /\ post[p] = NoPost
    /\ post' = [post EXCEPT ![p] = [at |-> "sent", here |-> TRUE,
                    want |-> page.want, topic |-> None, text |-> draft,
                    anchor |-> reply]]
    /\ UNCHANGED <<record, view, page, stream, dock, lifeDock>>

\* actPostTurn up to resolveTopic, which before the board is warm may fail.
Resolves(p) ==
    /\ post[p].at = "sent"
    /\ LET t == resolveTopic(post[p].want) IN
          \/ /\ t # None
             /\ post' = [post EXCEPT ![p].at = "resolved", ![p].topic = t]
          \/ /\ t = None \/ (post[p].want = None /\ snap = None)
             /\ post' = [post EXCEPT ![p].at = "refused"]
    /\ UNCHANGED <<record, view, page, stream, dock, lifeDock>>

\* say: the message lands; heard is whether the answer says so.
Says(p, heard) ==
    /\ post[p].at = "resolved"
    /\ life[post[p].topic] # "archived"
    /\ Lands(post[p].topic, post[p].text, post[p].anchor)
    /\ post' = [post EXCEPT ![p].at = IF heard THEN "landed" ELSE "refused"]
    /\ UNCHANGED <<view, page, stream, dock, lifeDock>>

\* say comes back with an error: archived, or anything else.
SayFails(p) ==
    /\ post[p].at = "resolved"
    /\ post' = [post EXCEPT ![p].at = "refused"]
    /\ UNCHANGED <<record, view, page, stream, dock, lifeDock>>

\* Faulty variant of Answered: the box is put back empty whatever happened.
AnsweredAlwaysEmpty(p) ==
    /\ post[p].at \in {"landed", "refused"}
    /\ post' = [post EXCEPT ![p] = NoPost]
    /\ IF post[p].here THEN draft' = None /\ reply' = 0
                       ELSE UNCHANGED <<draft, reply>>
    /\ UNCHANGED <<record, view, page, stream, lifeDock>>

\* The answer: a landed message empties the box and the anchor, anything
\* else is words in the note.
Answered(p) ==
    /\ post[p].at \in {"landed", "refused"}
    /\ post' = [post EXCEPT ![p] = NoPost]
    /\ IF post[p].here /\ post[p].at = "landed" THEN draft' = None /\ reply' = 0
                                                ELSE UNCHANGED <<draft, reply>>
    /\ UNCHANGED <<record, view, page, stream, lifeDock>>

-----------------------------------------------------------------------------
(* Closing and archiving: what lifecycleActs offers on the screen, the     *)
(* question in the page's own dock, and the acts.                          *)

PressesClose ==
    /\ page.open
    /\ screen.life \in Living
    /\ Cardinality(acts) < MaxActs
    /\ acts' = acts \cup {[kind |-> "close", topic |-> screen.topic, here |-> TRUE]}
    /\ UNCHANGED <<record, view, page, stream, dock, post, asks, asked>>

\* archiveAsk puts the question in, about the conversation on the screen; its
\* words name none.
PressesArchive ==
    /\ page.open
    /\ screen.life = "closed"
    /\ asks' = screen.topic
    /\ UNCHANGED <<record, view, page, stream, dock, post, acts, asked>>

\* "Keep it as it is".
Keeps ==
    /\ asks # None
    /\ asks' = None
    /\ UNCHANGED <<record, view, page, stream, dock, post, acts, asked>>

\* Faulty variant of Confirms: the act is on whatever the screen shows now.
ConfirmsShown ==
    /\ asks # None /\ screen.topic # None
    /\ Cardinality(acts) < MaxActs
    /\ acts' = acts \cup {[kind |-> "archive", topic |-> screen.topic, here |-> TRUE]}
    /\ asked' = asked \cup {[topic |-> asks, want |-> page.want]}
    /\ UNCHANGED <<record, view, page, stream, dock, post, asks>>

\* "Yes, archive it".
Confirms ==
    /\ asks # None
    /\ Cardinality(acts) < MaxActs
    /\ acts' = acts \cup {[kind |-> "archive", topic |-> asks, here |-> TRUE]}
    /\ asked' = asked \cup {[topic |-> asks, want |-> page.want]}
    /\ UNCHANGED <<record, view, page, stream, dock, post, asks>>

\* The answer of either act takes the place of what the dock said.
ActAnswered(a) ==
    /\ acts' = acts \ {a}
    /\ asked' = IF \E b \in acts' : b.kind = "archive" /\ b.topic = a.topic
                THEN asked ELSE {yes \in asked : yes.topic # a.topic}
    /\ asks' = IF a.here THEN None ELSE asks

\* actClose and actArchive take effect; an archived conversation is answered
\* as such.
TakesEffect(a) ==
    /\ a \in acts
    /\ IF life[a.topic] = "archived" THEN UNCHANGED record
       ELSE Becomes(a.topic, IF a.kind = "close" THEN "closed" ELSE "archived")
    /\ ActAnswered(a)
    /\ UNCHANGED <<view, page, stream, dock, post>>

\* Or come back with an error and no effect.
ActFails(a) ==
    /\ a \in acts
    /\ ActAnswered(a)
    /\ UNCHANGED <<record, view, page, stream, dock, post>>

-----------------------------------------------------------------------------
Others ==
    \E t \in Topics : \/ OthersStart(t)
                      \/ OthersSay(t)
                      \/ \E l \in {"closed", "archived"} : OthersEnd(t, l)

Person ==
    \/ \E w \in Topics \cup {None}, quiet \in BOOLEAN : Opens(w, quiet)
    \/ \E t \in Topics : Starts(t)
    \/ \E x \in Texts : Types(x)
    \/ \E op \in 1 .. now : Replies(op)
    \/ CancelsReply
    \/ \E p \in Posts : Sends(p)
    \/ PressesClose \/ PressesArchive \/ Keeps \/ Confirms

Post(p) ==
    \/ Resolves(p)
    \/ \E heard \in BOOLEAN : Says(p, heard)
    \/ SayFails(p)
    \/ Answered(p)

Next ==
    \/ Others
    \/ Person
    \/ Follows
    \/ \E r \in Rooms : RoomLearned(r)
    \/ Ticks \/ TickFails
    \/ \E p \in Posts : Post(p)
    \/ \E a \in acts : TakesEffect(a) \/ ActFails(a)

Spec == Init /\ [][Next]_vars

\* The stream is a loop over a timer, the followed board keeps up, the watch
\* comes to know of each room, and a request that was sent is answered.
FairSpec ==
    /\ Spec
    /\ WF_vars(Follows)
    /\ WF_vars(\E r \in Rooms : RoomLearned(r))
    /\ WF_vars(Ticks)
    /\ \A p \in Posts : WF_vars(Post(p))

-----------------------------------------------------------------------------
(* Properties. *)

\* What a screen that names no conversation opens onto (board.go LastLive):
\* of the living conversations that are not known to be machinery, none is
\* more recently active, nor as recently active and announced later.
Position(e, t) == CHOOSE i \in DOMAIN e.board : e.board[i] = t

OpensOnto(e, rooms, t) ==
    LET candidates == {c \in ToSet(e.board) \ rooms : e.life[c] # "archived"}
        Later(c, d) == \/ e.active[c] > e.active[d]
                       \/ e.active[c] = e.active[d] /\ Position(e, c) > Position(e, d)
    IN  IF t = None THEN candidates = {}
        ELSE t \in candidates /\ \A c \in candidates : ~Later(c, t)

\* A stream of a page that names no conversation shows the most recently
\* living one that is no room, by what the board and the watch know at each
\* tick: cold or warm, behind or not.  A room the watch has learned of is never
\* opened onto again; one it has not yet may be.
LandsOnNewest ==
    [][page.want = None /\ screen' # screen /\ Ticks
          => OpensOnto(Entries, machinery, screen'.topic)]_vars

\* A message sent from a page that names its conversation lands there, and
\* what it answers is a message of that conversation: whatever else moved
\* between the page, the Reply control, and the reads of the act.
NamedPagesKeepTheirWord ==
    [][\A p \in Posts, m \in said' \ said :
          (post[p].at = "resolved" /\ post'[p] # post[p] /\ post[p].want # None) =>
              /\ m.topic = post[p].want
              /\ m.anchor # 0 => \E n \in said : n.at = m.anchor /\ n.topic = m.topic]_vars

\* A reload, or another page.
LeavesPage ==
    /\ screen' = Blank
    /\ \/ Opens(page'.want, page'.quiet)
       \/ page'.want # None /\ Starts(page'.want)

\* While a page stands, its box is emptied only by a message of it that is
\* on the record: what was typed is that message, or was typed while that
\* message was under way.
EmptiedByLanding ==
    [][(draft # None /\ draft' = None /\ ~LeavesPage)
          => \E p \in Posts, m \in said :
                /\ post[p].here /\ post'[p] = NoPost
                /\ m.topic = post[p].topic /\ m.text = post[p].text]_vars

\* Nothing is archived from here but what this person was asked about and said
\* yes to: the conversation that was on the screen when the question was put,
\* wherever the stream and the page are by now.  The question names none; where
\* the page named its conversation it is that one.
ArchivedOnPurpose ==
    [][\A a \in acts \ acts', t \in Topics :
          life[t] # "archived" /\ life'[t] = "archived" =>
              \E yes \in asked : yes.topic = t /\ yes.want \in {None, t}]_vars

\* The screen shows the page's conversation, or else the most recently living
\* one that is no room, with every message in it, as the record has them.
Settled ==
    page.open =>
        screen = Seen(IF page.want # None THEN page.want ELSE LastLive(Fresh, Rooms))

\* The stream keeps coming round to what is on the record, reloads, a board
\* that runs behind and all.
SettlesOnTheRecord == []<>Settled
=============================================================================
