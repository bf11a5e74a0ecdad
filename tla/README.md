# soulstream-shell, in TLA+

`soulstream-shell` is one Go process that serves a web surface: people sign in
through an OIDC issuer, and every screen is rendered on the server and kept
fresh by streams of patches. The shell knows nothing of Soulstream; a support
layer (`soulstream/`) hangs a person's own connection to the realm off their
session, and modules (`modules/*`) draw the screens. Almost everything durable
lives elsewhere: the record (a NATS stream behind the soulstream-core library),
the identity plane (tokens, tools, approvals) and the sign-in system. What is
left to get wrong in this repository is the *coordination*: who holds an open
connection, which of several stores was written when a call failed, what a
screen read before another handler changed it, what a follower does when its
feed goes away. That is what the modules here model.

Everything below is read from the Go source. The external systems are modelled
only as the code under `src/` uses them, and are marked so in `PROJECT.json`.

## 1. Inventory

| component | state it keeps | operations | interacts with | what makes it correct |
|---|---|---|---|---|
| session custody `shell/session.go` | `pending` (oauth state -> verifier), `sessions`, per session `tok`, `renew`, `attached` | login, callback, `Session`, `Bearer`, logout, `closeSession` | issuer (exchange, renewal), hooks (`SignedIn`/`SignedOut`), `Run` | a state is redeemed once; what hooks opened is drained exactly once and never early; a session ends only when it is over |
| run and shutdown `shell/shell.go` | none of its own | `Run`, `closeAllSessions` | sessions, `http.Server.Shutdown` | returned means drained |
| patch channel `shell/sse.go` | one loop per open stream | `Stream`, `Patch` | every live screen | a tick at a time, until the person leaves; a list two channels write settles on the truth |
| frame, links, text, assets | none after start-up | render | modules | - |
| soulstream support `soulstream/support.go` | key cache, card cache, watch snapshot | `SignedIn`, `SignedOut`, `Keyring` | hooks, issuer, realm | bearer always the shell's current one; keys learned are kept |
| signed-in session `soulstream/session.go`, `tray.go` | `unread`, `seen`, `name` | `followInbox`, `tap`, `Read`, `Standing`, `ScreenName` | inbox of the record, live screens | a mark is neither lost nor resurrected |
| placements `soulstream/declare.go`, `watch.go` | snapshot: board, placements topic, machinery | `Declare`, `Declared`, `runWatch`, `HomeOf` | record, board projection, `modules/agents` | what is placed is listed; the room posted in is the room shown |
| agents facility `soulstream/agents.go` | none (record + plane) | `Create`, `Remint`, `TakeAway` | registry, identity plane, the agent's own connection | nothing half-made stands unannounced; nobody is locked out by accident |
| thread view `soulstream/threadview.go` | none | `Timeline`, `rootOf` | materialised topic | nothing is dropped |
| directory, presence `soulstream/directory.go` | card cache with a minute for a miss | `Card`, `Presence` | registry | a published name appears in the end |
| board lists `soulstream/board.go` | none | `HumanConversations`, `LastLive` | watch | a screen opens onto the newest living human conversation |
| tools `soulstream/tools.go`, `modules/tools` | none (plane + catalog + grants) | add, remove, connect, disconnect | plane, catalog | what is said to be done is done in both halves |
| approvals `modules/approvals` | none (plane) | sign, deliver; a live list | plane, patch channel | the screen never takes a refusal for a verdict |
| models `soulstream/models.go`, `modules/models` | none (a bucket) | edit, save, remove | other administrators | an untouched form says what it was opened from |
| administration `soulstream/admin.go`, `modules/admin` | none (sign-in system) | people, applications, groups | other administrators | a list shows what is true rather than what was clicked |
| conversations module | one page's docks, in the browser | `live`, `observe`, post, reply, start, close, archive, rail, picker | record, tray, watch, directory | what was cleared was shown; a message goes where it was written; a mention taps who was meant |
| agents module | acts, the credential shown once | add, remint, take away, declare, room | facility, placements, tray | the credential shown gets its agent in; the document shown is the one placed |
| storage module | streams | paged `read`, tail, `readOne` | streams of the server | a page leaves nothing out in silence |
| overview module | none | reads the others | tools, board, agents, administration | a step listed is a step that can be taken |
| embed, cmd, e2e, internal | - | start-up, tests | - | - |

What is hard: handlers of one person run at once, over maps guarded by locks
that are let go between reading and acting; background goroutines (the inbox
follower, the watch) live as long as a session or the process and reconnect;
acts write two or three stores without a transaction; projections run behind
the record; shutdown gives handlers three seconds. `PROJECT.json` lists these
hazards line by line, with the properties that watch them.

## 2. Modules

| module | models | state, and what it stands for |
|---|---|---|
| `Sessions` | `shell/session.go`, the end of `Run` | `minted`/`pending`: oauth states; `cb`, `ceremony`, `hook`: where each callback stands; `attached`, `drains`: what `SignedIn` opened and how often `SignedOut` was called; `sessions`: the map; `tok`, `renew`, `honoured`: the token, the renewer, the issuer's grant; `at`, `carries`: each request inside `Shell.Session` and `Bearer`; `phase`: how far `Run` is |
| `Admission` | what the hook contract promises | `life` (out, in, over) and `opened` per session: the abstract specification `Sessions` implements |
| `SessionsProofs` | - | theorems about `Sessions` |
| `Tray` | `soulstream/tray.go` and the streams that clear it | `record`, `inbox`, `slipped` (external): the messages, the slips in the inbox, and which of them the library dropped; `follower`, `next`: the goroutine; `seen`, `unread`: the session's maps; `screen`, `looking`, `found`: each stream inside its tick, and the conversation that tick settled on |
| `Mentions` | what the tray promises | `life` of each slip (none, inbox, unread, read): the abstract specification `Tray` implements |
| `Directory` | `soulstream/directory.go`, the keyring, `ScreenName` | `cards`, `asking`: the cache and each look-up under way; `own`, `held`: what a session knows |
| `LiveList` | a list a stream and the answers of acts both write (`shell/sse.go`) | `shown`, `frame`: the list, or the words of a reading that failed, and what the stream has read; `replies`: what each act carries |
| `Approvals` | `modules/approvals`, delivery in `soulstream/tools.go`; instantiates `LiveList` | `tickets`: the plane; `taps`: each answer inside its act; `line`: the result line |
| `AgentCredentials` | `soulstream/agents.go` | `card`, `accepted`: record and plane; per act where it stands and what it read (`old`); `given`, `told`: what the person was handed and told |
| `AgentCredentialsProofs` | - | theorems about `AgentCredentials` |
| `AgentsScreen` | `modules/agents` (keys, question, the credential card) over the calls of `soulstream/agents.go` | `accepted`, `entered`: the stores; `calls`: acts under way, with what each has found (`old`) and made (`secret`); `line`: what is said and the blocks the credential is spelled in |
| `AgentRoom` | `modules/agents/room.go` | `decls`, `known`: record and watch; `marks`, `heard`: the tray; `reading`, `screen`: the tick and the page; `left`: readings whose page was left |
| `Declaring` | `modules/agents/declare.go`, `declarerender.go` | `form`, `json`, `act`, `placed`, `homes`: the form, the document shown, the act and what it placed |
| `Threads` | `soulstream/threadview.go` | the growing topic; `Timeline`, `RootOf`, `Nodes`, `Replies` are operators over it |
| `Subjects` | pattern checking and matching of `modules/storage/read.go` | operators, against the reference `Covers` |
| `StoreWalk` | the paged read and its keys | the store (`log`, `live`, external) and one reader's walk (`seq`, `examined`, `oldest`, `ops`, `capped`) |
| `Picker` | `modules/conversations/picker.go`, `details.go` | `said`, `work`: who is in the room; `body`, `picks`, `offer`: the box; `tapped`: whom the message tapped |
| `Placements` | `soulstream/declare.go`, `watch.go`, the declare act and the room of `modules/agents` | `topics`, `items`: the record; per act its form and path; `board`, `watched`, `placements`, `watch`: the projection and the watch's snapshot |
| `Conversation` | `modules/conversations` (chat, live, composer, reply, post, lifecycle), `soulstream/board.go` | `board`, `life`, `active`, `said`: the record (external); `snap`: the followed board; `machinery`: the rooms the watch's snapshot knows; `page`: what the URL names and whether the dock is the archived one; `screen`: what the stream last drew; `draft`, `reply`: the composer's targets; `post`, `acts`: requests under way; `asks`: the archive question |
| `Rail` | the rail of `modules/conversations/render.go`, `observe`, `roomWays` | `board`, `decls`, `unread`: record, watch, tray; `view`, `page`: what a tick observed and wrote |
| `Tools` | `soulstream/tools.go`, `modules/tools` | `resources`, `catalog`, `grants`: the stores; `doing`: each administrator's act between its halves |
| `Overview` | `modules/overview`, over `Tools` | `board`, `named`, `crew`: the house; `home`: Home as it was served |
| `ModelNames` | `soulstream/models.go`, `modules/models` | `bucket`: the entries; `form`, `served`, `typed`, `open`: the slide-over, what it was last served with and what somebody typed since; `filled`: the entry it was served from; `acts` |
| `Administration` | `soulstream/admin.go`, `modules/admin` | `users`, `clients`: the sign-in system; `calls`; `people`, `apps`: the lists on the screen |
| `Behind` | what runs behind a person's screens, composed: extends `Tray`, instantiates `Directory` and `Approvals` | their variables; `desk`: which part is followed |
| `BehindProofs` | - | theorems about `Behind` |
| `RoomsTogether` | rooms and the record behind them, composed: extends `Conversation`, instantiates `Placements` | the same |
| `ConversationProofs`, `RoomsProofs` | - | theorems about `Conversation`, and about `RoomsTogether` |
| `Readings` | readings of the record, composed: extends `StoreWalk`, instantiates `Threads` and `Picker` | the same |
| `StoreWalkProofs`, `ReadingsProofs` | - | theorems about `StoreWalk`, and about `Readings` |
| `Screens` | the eight screens of a session, composed | the variables of `Tools` ... `Rail`; `desk`: which screen is followed |
| `ScreensProofs` | - | theorems about each of them, as `Screens` has it |
| `MC*` | - | instances for TLC: values of the constants, symmetry, and where an `Init` would repeat itself a smaller one |

### Compositions

Three kinds. `Overview` extends `Tools`: what Home offers is judged over the
tools as they stand between the halves of somebody's act. `Approvals`
instantiates `LiveList`: the acts of a screen and its stream write one list. `Placements` joins the support layer's declare, the watch and the
room of the agents module; `Tray` joins the follower and every stream.

`RoomsTogether`, `Behind`, `Readings` and `Screens` put several modules in one
specification without joining them: a variable `desk` says which part a behaviour
explores, and the others keep their initial state. Each has the constants of its
parts for its own and assumes of them what the parts need (`RoomsAssumption`,
`BehindAssumption`, `ReadingsAssumption`, `ScreensAssumption`), so that its
theorems speak of every instance; the `MC` modules give the constants values. This is no claim about
their interaction, and where parts do meet in the shell, each has what it sees of
the other:

* `Conversation` and `Rail` read the watch's snapshot (`sp.Machinery()`) at every
  ask. In `Conversation` it is the variable `machinery`, which rooms join one by one
  (`RoomLearned`) and behind the record: that none ever leaves it is
  `NothingUnplaces` of `Placements`, and that it catches up, which the fairness of
  `RoomLearned` says, is what `Placements` has in `FollowsPlacements` and
  `PlacementLearned`. `Rail` has its own `board`, `decls` and `archived`.
* `AgentRoom` and `Rail` share the session's tray with every stream. `AgentRoom` has
  the marks of the rooms as counters, `Rail` the tally as it stands; how marks come
  and go is `Tray`, where a stream may be either screen's.
* `AgentsScreen` has the three acts of `AgentCredentials` again, with what a screen
  can tell of their calls: what each read, made and took away. That the calls fail
  in every way and what is left of it is `AgentCredentials`.

The other parts share nothing: each handler keeps what it needs on its stack or
in the browser.

One action is one stretch of code between two points where a lock is taken or
let go or a store is asked. `Sessions` is the finest: `Shell.Session` looks the
session up under the shell's lock (`Lookup`), asks for the bearer under the
session's (`BearerLiving`, `BearerSpent`, `BearerAsks` ... `Renewed` /
`RenewalFails`), takes the shell's lock again to delete the session if it is
`still` there (`Drop`), and closes it outside any lock (`Close`). In
`AgentCredentials` each call to a store is a step, with three endings: it
succeeds, it fails with no effect, it took effect and its answer was lost.

Operators and actions named "Faulty variant of ..." are not part of any
specification. They are the plausible bugs each property was tried against: put
in place of the action they vary, they violate it.

History variables record what the code does not keep but a property needs:
`drains`, `given`, `told`, `asked`, `gone`, `shown`, `typed`, `filled`, and flags such as `overlapped` and
`lost` (AgentCredentials), `lapsed` (Sessions, Tray, StoreWalk), `raced`
(Placements), `mixed` (Tools), `late` (Administration).
A flag of this kind lets one run check a property that holds under a condition
("as long as no board was behind") *and* explore everything outside it; the
unconditional form is checked to fail in a run of its own where the code's
own comments claim it.

## 3. Runs

| run | expects | shows |
|---|---|---|
| `sessions` | pass | two sign-ins, two requests, two hooks, logouts, expiring tokens, failing renewals and the end of `Run`, interleaved: each attachment is drained at most once, what is open is always somebody's to drain, `Sessions` implements `Admission`; a request ends a session only when no living credential can be had for it (or a renewal failed while the grant was honoured: `lapsed`); whatever a sign-in opened ends up held by the map or drained |
| `sessions_returned` | violation | "Returned means drained": not when a callback outlives Shutdown's three seconds |
| `credentials` | pass | four acts on one handle, every call failing in every way: no credential stands that nobody holds, handing one out locks nobody out, taking away puts out |
| `credentials_race` | violation | two overlapping acts leave two credentials and say nothing |
| `conversation_post` | pass | a message sent from a page that names its conversation lands there and answers a message there; the box is emptied only by a message that landed |
| `rooms` | pass | Declares that fail anywhere over a board that runs behind and a follow that ends: what is placed is listed, the room posted in comes to be the room shown, and no room comes back among the conversations nor a placement off the list (`NothingUnplaces`). A page that names nothing opens onto the newest living conversation that the watch does not know for a room, nothing is archived but the conversation the question was put about, the stream comes round to the record |
| `behind` | pass | `Tray` implements `Mentions` (a slip in the inbox, forged or not, raises one mark, the mark stands until its conversation is read, and a replayed inbox brings nothing back), each mention is tallied, what was cleared is shown unless its screen could not read it or went elsewhere; a published name is known in the end, however look-ups overlapped or went unanswered; an approvals list settles on what waits or says that its last reading failed, and what it says of an answer is so |
| `readings` | pass | paging back over a store that grows and compacts leaves nothing out and never ends in silence; every topic of four messages and a work mark is shown whole; a message taps whom it names, if the people can be read |
| `screens` | pass | eight screens, each with the other people who change what it reads: see the properties below |
| `threads_long` | violation | the 34th message of a chain of answers is dropped |
| `store_lapse` | violation | a read that fails is a message left out in silence |
| `rail` | violation | the line of the rooms leads where the message it counts cannot be read |

The properties of `screens`:

* `SaidMeansDone` (Tools): "X is available now" and "X is gone" leave both halves so,
  whatever failed before, unless another act on the same tool came between.
* `StepsAreDoorsInTurn` (Overview): a step Home lists and does not call done leads to
  where it can be taken, where every read answered and no tool stands by halves.
* `UntouchedSaysTheSame` (ModelNames): a form served from an entry it can say sends
  that entry, unless a field the act reads holds what somebody typed. The form is
  served as a morph: an input is given a value only where its `value` attribute
  changed (`Morphed`), so what was typed stays when the same is served again.
* `ListsAreTrueInTurn` (Administration): with nothing under way the lists are what
  the sign-in system holds, unless somebody else changed it, acts overlapped or
  an answer was lost.
* `CardAdmits` (AgentsScreen): the credential on the screen gets its agent in, in
  every block it is spelled in, or an act that takes it away is still to be
  answered, and its answer takes the card's place. Acts of one person overlap call
  by call. Left out (`gone`) is a credential that others took, that another act took
  before its own act was answered, or that an act took whose answer was lost.
* `ClearedIsTheRoomShown` (AgentRoom): a mark is taken off only by a reading of its
  own room, and the page that comes of it is that room's; a reading whose page was
  left clears its own room too, and nobody is shown it.
* `ShownIsPlaced` (Declaring): the document shown as JSON is the one placed, and one
  shown without a word against it is not refused.
* `CountLandsSomewhere` (Rail): each message the spine counts is on a row, under the
  fold or in the line of the rooms.

### Bounds, and why they are enough

* `sessions`: two callbacks with two states meet on one state and on two; two
  requests are the smallest number for "one deletes, the other finds it gone or
  is still renewing"; two hooks are needed for a partial sign-in. There is no
  symmetry, because the run also checks liveness. The proofs below remove the
  bounds altogether.
* `credentials`: four acts on one handle: a Create, a Remint that leaves two
  credentials, a TakeAway and one more to overlap with. Handles do not
  interact: no step reads another handle's card or tokens.
* `conversation_post`: two conversations (one to be in, one to be moved to),
  two texts (one sent, one typed meanwhile), one post under way, two operations
  on the record and one read that fails. Acts that close and archive are
  followed only while the composer is empty and nothing is sent (`ActsAlone`);
  `rooms` has them without a composer, with a room of the machinery that the watch
  has yet to learn of, one act under way at a time and two operations, the least
  that closes and then archives.
* `rooms`, the screen (`SmallStep` in `MCRooms`): nobody closes or archives the room;
  of the two conversations one is the one this person closes, is asked about and
  opens by name (`Mine`), the other the one the stream may move to; and no page
  opens with the quiet dock, which does without a composer and nothing else. What
  others do to the two is not bounded.
* `rooms`, the watch: two acts are the smallest race; two agents, one of them
  called as the placements topic is, so that a home may bear its name; `MaxLapses`
  counts how often the follow ends.
* `behind`, the tray: two conversations with one message each, and two screens, one
  whose address names a conversation and one that settles on either, or on
  neither, at each tick; `MaxTroubles` is one loss of the inbox or one forged slip. A
  second loss replays the same prefix again and adds no new state of the maps; a
  forged slip may be ahead of its message, over none, or a second one. The
  directory: one
  id (entries do not interact) with two readers, the least that race over one
  entry, and one look-up unanswered. The approvals: two requests, one of them
  put by another person, and one tap at a time beside the stream; every reading of
  the list may fail.
* `readings`: page and scan limits of two, tail of one, four messages: a page may
  fill on the scan limit's last message, be cut short, or be empty; `Befores`
  holds no link, one inside and one past the end. `HopLimit` is 2 with four
  messages, so that chains shorter than, equal to and longer than the limit
  occur; `threads_long` uses the code's 32. Three people, of whom two share a
  name that begins the third's.
* `screens`: two administrators over two tools (one declared in the deployment);
  elsewhere one act of this person at a time, or two where two overlap by
  design, and one change by somebody else: `others`, `writes`, `MaxMints` and the
  like are all named in the modules. The agents: two acts that overlap, alike but
  for their names (`CallsAlike`, a symmetry; the run states safety only), and three
  credentials minted, so that one may be on the card while two acts replace it.
  The room: of each home one reading whose page was left (`left` is a set).
* `rail`: one agent with two homes.

* The initial states of `MCRooms`, `MCReadings` and `MCScreens` (`Small...`) leave
  one value to what a part that is not followed would otherwise repeat: the forms
  of the declares while a screen is followed, the store's filter while a thread
  is. The proofs are about the specifications without this, and without `SmallStep`.

Each module's `TypeOK` is checked by a run it is explored in: `RoomsTypeOK` (with
`Conversation`'s), `BehindTypeOK`, `ReadingsTypeOK` and the `TypeOK` of `Screens` are the conjunction of
their parts'. All of them are proved besides.

`CHECK_DEADLOCK FALSE` is set where the system really may stop: every handler
has answered and nobody asks anything more, or the bound is reached.

### Fairness

* `Sessions`: weak fairness of every started callback and request. The Go
  scheduler runs every runnable goroutine, and each network wait inside them
  ends with an answer or an error. Nothing is assumed of people: nobody need
  log in, log out or ask; and a served request (a live stream) may last for
  ever, so `Answer` is not fair.
* `Tray`: the follower's goroutine (`Tap`, `Reattach`: a loop with a two-second
  wait), each open stream's ticks (`Stream` is a loop over a timer), and the
  core library's slip after a post. Posting, opening and closing are not fair.
* `Directory`: a minute passes, and screens go on asking for the names and keys
  they show, as their streams do every second. That look-ups are answered is
  not assumed: they go unanswered as often as the bound says.
* `Approvals`: the stream's reads and writes while the page stands. Taps and other
  approvers are not fair.
* `Placements`: the watch's loop, and the projection applying what was
  announced. The acts are not fair.
* `Conversation`: the stream's ticks, the followed board, and that the watch comes to
  know of each room (`RoomLearned`), which is its loop as `Placements` has it.
  Nothing is assumed of the person or of others.
* The other modules state safety only. Where the parts of a run are explored
  one at a time, each fairness condition carries its `desk`.

## 4. What is proved

`SessionsProofs` proves, with no bound on handlers, states or hooks and from the
assumptions `NHooks \in Nat` and `None` distinct from the handlers and states:

* `TypeCorrect`: `Spec => []TypeOK`;
* `Invariance`: `Spec => []IInv`;
* `NeverDrainedTwice`, `NothingOrphaned`, `LookedUpWhole`, `StateRedeemedOnce`,
  `CleanStop`: the safety invariants of the run `sessions`;
* `PromiseKept`: `Spec => KeepsPromise`, that is, `Sessions` implements
  `Admission` under the refinement mapping of the run `sessions`;
* `NeverEvictedEarly`: `Spec => EvictedOnlyWhenOver`.

`IInv` is needed because none of the invariants is inductive alone. That nothing
is drained twice depends on *who answers for* a session at each moment: the
callback that is making it, the map, or the one request that took it out of the
map (`Held`). `IInv` says that exactly the held sessions are undrained
(`HeldIsUndrained`, `RestIsDrained`), that at most one request is closing a
session and that it is then out of the map (`Carried`), what each stage of a
callback has opened (`Made`, `Filed`), that a redeemed state is not pending
(`Redeemed`) and what Run left behind (`Stopped`). Each action is shown to
preserve it by a lemma per group of actions; the actions that touch neither the
map nor the attachments share `QuietStep`. `NeverEvictedEarly` has an invariant of
its own beside it, `RefusedStaysOver`: a refusal is learned under the session's
lock and acted on under the shell's, and nothing that may happen between the two
makes a living credential for a refused session, because whoever asks the issuer
asks alone and for a token that is spent.

`AgentCredentialsProofs` proves every property of the run `credentials`, for any
number of acts, handles and people, from `None` distinct from acts and people:

* `TypeCorrect`: `Spec => []TypeOK`;
* `NeverLockedOut`: `Spec => []LockedOutOnPurposeOnly`. The invariant cannot say
  "the newest credential stands", for the acts keep no clock. It says instead that a
  replaced credential was replaced by one whose act had read it (`Replaced`), that
  an act reads before it makes one (`Fresh`, `Read`), and hence that replacing is
  not circular: in any set of credentials is one that none of the others replaced
  (`ReplacingEnds`, a quantification over sets that needs no induction). If all
  of a handle's were gone by replacement, that set would deny it;
* `NeverHalfMade`: `Spec => []NothingHalfMade`, in its two halves `Held` and `Vouched`;
* `TakenAwayForGood`: `Spec => TakenAwayMeansOut`. While acts come in turn
  (`Alone`) and answers arrive, two credentials of a handle stand only between a
  Remint's minting and its revoking (`OneStands`), and what an act read is still what
  stands when it acts on it (`StillStands`); a Create relies on the record for
  this, which holds a card whenever somebody was handed a credential (`OnRecord`).

`BehindProofs` is about `BehindSpec`, for any number of messages, screens, personas,
readers, requests and approvers, of losses of the inbox and of forged slips
(`BoundsAssumption`, `BehindAssumption`: bounds are numbers, what a screen's address
names is a conversation or nothing, and a person's own requests are requests):

* `TypeCorrect`: `BehindSpec => []BehindTypeOK`;
* `TrayIsKept`: `BehindSpec => KeepsTheTray`, that is, `Tray` implements `Mentions`. A
  slip's `life` is read off the inbox, `seen` and `unread`; a slip that is new to the
  inbox is `Arrives`, a tap `Marks`, a tick `Read` of the conversation it settled on,
  and every other step stutters, a slip dropped a second time among them. The
  mapping needs that marks are among what was seen (`MarksAreSeen`) and that what
  was seen is in the inbox (`SeenWereDropped`);
* `FollowerPassesNoneOver` and `ClearedIsAlwaysOwed`: the safety halves of
  `EveryMentionIsTallied` and `ClearedIsShown`. However often the inbox goes away,
  the follower has tallied every slip before the one it reads next
  (`NonePassedOver`); and a mark is off only over what was shown or what a screen
  still at its conversation is to show, unless the read failed or the screen
  settled on another conversation, or was closed, first (`ClearedIsOwed`);
* `SaidForGood`: `BehindSpec => []SaidIsSo`, which is about a line written long after
  the plane judged. `ApprovalsInv` adds that a tap remembered as taken is what the
  plane holds of its request (`TakenIsSo`), that only judged taps have an answer
  under way (`RepliesAreJudged`), that a line is of a request there is
  (`LineIsOfRequests`) and that no verdict is ever unsaid (`VerdictsStand`).

`StoreWalkProofs` proves the types (`TypeCorrect`) and the safety of the paged read
for a store of any length that grows and compacts while somebody pages back
through it, and for any filters, page sizes and scan limit (`SizesAssumption`, `AsksAssumption`:
they are positive and bounds are numbers; `PatternsAssumption`: subjects and
patterns are non-empty sequences of tokens):

* `MatchesWhatItCovers`: `SubjectMatches`, the loop of `read.go`, accepts exactly
  the subjects a pattern that passed `CheckPattern` stands for (`Covers`). The
  loop is written as "the first token that decides", so no induction is needed;
* `PagesAreWholeAlways`, `TruncationIsAlwaysSaid`, `AlwaysReadsBackwards`. What a page leaves
  out shows only when the walk ends, so `IInv` follows the walk: everything
  wanted that was passed is on this page or an earlier one
  (`NothingLeftOut`), nothing unwanted is on it (`OnlyWanted`), where `seq` and
  `oldest` stand in each phase (`Standing`), and that `capped` is said exactly when
  the limit, and not the page, ended the loop (`LimitIsSaid`).

`ConversationProofs` proves, for any number of conversations, people's acts and posts
under way:

* `TypeCorrect`: `Spec => []TypeOK`;
* `NamedPagesAlwaysKeepTheirWord`, `AlwaysEmptiedByLanding`, the properties of the run
  `conversation_post`;
* `AlwaysLandsOnNewest` and `AlwaysArchivedOnPurpose`, which the run `rooms` checks and
  `RoomsProofs` states of its specification. The first is about
  `HumanConversations`, a reversed and stably sorted board without the rooms the
  watch knows of, whichever these are: `Place` says where the sort puts each topic,
  by counting the topics `Before` it (`PlaceFollowsBefore`), and the first place has
  the newest. The second rests on the question and each yes being about the
  conversation the page names, where it names one (`LifeOK`).

Its invariant is one conjunct per part of the screen, each tied to the record:
what a stream drew is a message of the topic it drew (`ScreenOK`), what the
composer would answer is a message of the conversation it stands under
(`DockOK`), and what each request under way was promised (`PostIsTrue`). Proving
the last of them found a fault of the model: the history variable `asked` forgot a
topic when the first of two archivings of it was answered; `ActAnswered` keeps
it now while another is under way.

`RoomsProofs` is about `RoomsSpec`, for any number of conversations, people, acts,
agents and lapses of the watch, whatever the agents and the conversation there was
before are called, as the placements topic too (`RoomsAssumption`: the bound on
lapses is a number):

* `RoomsTypeCorrect`: `RoomsSpec => []RoomsTypeOK`;
* `PlacedIsListed`: `RoomsSpec => []ListedInTurn`. That everything placed is listed
  needs that all of it is on the *first* topic of the name (`First`, `AllOnFirst`),
  which an act may start only where there is none: one act at a time is about to,
  and only while the record has no topic of the name (`OneStarts`), because it
  looked when the board was not behind. `AllOnFirst` says it of every placement and
  of every act that has resolved; `LineIsBelow`, that the answer to a Declare lists
  what it placed. All of this is under `~raced` (in `WatchInv`); section 5 has what
  that leaves out;
* `WatchAgreesWithTheRecord`, the safety half of `RoomsAgree`: once the watch has the
  topic and every placement, the room a message is posted in is the room shown,
  also where acts that raced started several topics. The invariant is that the
  topic followed is the first of its name in the record (`WatchesTheFirst`): the
  board is a prefix of the record, so what it finds first nothing comes before;
* `NeverUnplaced`: `RoomsSpec => NothingUnplaces`. What the screens take for machinery
  and what the agents screen lists as declared are read off different sources
  (the watch, the board's first topic of the name); neither ever shrinks,
  although the follow ends and is resumed on the topic resolved anew;
* `OpensOntoNewest` and `ArchivesOnPurpose`: `RoomsSpec => LandsOnNewest` and
  `=> ArchivedOnPurpose`, from the steps of `ConversationProofs`.

`ReadingsProofs` is about `ReadingsSpec`, for any store, any topic that grows by any
anchors, and any people, names and fragments (`ReadingsAssumption`: the bounds are
numbers, an anchor is a message there is, one elsewhere or none, and those two are
no numbers; workers are people, and a name is read out of itself):

* `ReadingsTypeCorrect`: `ReadingsSpec => []ReadingsTypeOK`;
* `EverythingStands`: `ReadingsSpec => []NothingDropped`, for a conversation of any
  length, answers to any message and clocks that lag. The answers are a tree,
  because an anchor is always earlier (`AnswersAreATree`), so `rootOf`'s walk falls
  until it stands (`WalkFalls`, `WalkStands`); `Ancestors`, the climb the property's
  hypothesis counts, meets every message the walk visits (`ClimbMeetsWalk`), so a
  chain no longer than the limit ends at a top message (`TopIsItsRoot`); and the
  sort, written by counting who stands `Above`, loses nobody because `Earlier` is
  an order (`SortKeepsEverything`). The lemmas about the walk are inductions over
  data without the library's: each supposes exceptions and looks at the least of
  a set of numbers (`UpTo`), so no operator is a parameter;
* `AlwaysTapsWhoWasMeant`: `ReadingsSpec => TapsWhoWasMeant`. Between the row that was
  clicked and the post others speak, take on work, come to be named or are no
  longer answered for, and the room is read again, or cannot be. `PickerInv` says that whoever stands in the text or under the
  box is in the room, under a name that is or was theirs; nobody leaves the room
  (`RoomGrows`), so a pick still named is tapped (`PickIsTapped`), and where the
  names of the room are plain at the post nobody else is (`PlainTapsTheMeant`).

`ScreensProofs` proves all nine properties of the run `screens` for every value of the
constants: any number of tools, administrators, people, models, rooms, agents,
credentials, forms, topics and acts under way. `ScreensAssumption` says that
bounds are numbers, that the topics are finitely many (`Rail` counts them), that
the placements topic, the unseen sign and the blank form are among their kinds,
and that `None` is nobody's name; `NoneIsNotRead` that it is no list either. For each
screen there is an invariant of its own, a lemma that each of its actions
keeps it, and one that it stands while its variables do:

* `ToolsInv` (for `SaidMeansDone`): an act nobody came between has done its first
  half by the time it writes the second (`HalfDone`), and both when it is done
  (`AllDone`);
* `RailInv` (`CountLandsSomewhere`): a count over the spine is the sum of three counts
  because the row, the fold and the rooms partition the board (`RailCounts`);
* `ModelsInv` (`UntouchedSaysTheSame`): a field nobody typed in is as it was last
  served, and what was last served is the prefill of an entry (`Untouched`);
* `AdminInv` (`ListsAreTrueInTurn`): in turn one act is under way, and what each list
  still owes to it depends on how far it has come (`Owed`);
* `AgentsInv` (`CardAdmits`): a credential minted stands while its answer is under
  way, or is gone, or another act has taken it for the old one (`Minted`); no two
  acts hold the same, nor one that is on the card (`Fresh`); and the card stands or
  the act that takes it is still to be answered (`CardStands`). What any call of an
  act may do to the store is said once (`CallsStore`) and shown to keep this;
* `RoomInv`, `DeclareInv`, `HomeInv` (the three action properties): the types of what
  a reading can hold, that an act under way sends the document of its form
  (`ActInv`), that the JSON shown is the form's (`JsonInv`).

`DeskInv` puts them together: the screen at the desk keeps its own invariant, and
the others are not looked at.

Every safety property, action property and refinement the passing runs check is
proved. Only model-checked: what must eventually happen (`OpenedIsHeldOrDrained`,
`RoomsAgree`, `SettlesOnTheRecord`, `EveryMentionIsTallied`, `ClearedIsShown`,
`KnownInTheEnd`, `ListSettles`), because the prover has no liveness under fairness;
of four of them the safety half is proved: `NothingOrphaned` (what is open is always
somebody's to drain), `WatchAgreesWithTheRecord`, `FollowerPassesNoneOver` and
`ClearedIsAlwaysOwed`.

## 5. What the code does that its comments deny

Five runs expect a violation; each quotes the line it contradicts in
`PROJECT.json`.

1. `shell/shell.go:135` "Returned means drained": a sign-in still inside its hooks
   when Shutdown's wait is over files its session after `closeAllSessions`.
2. `soulstream/agents.go:265` "one credential too many is a thing somebody must be
   told about": two overlapping acts on a handle leave two and nobody is told.
3. `soulstream/threadview.go:149` "nothing is ever dropped": an answer whose chain
   is longer than 32 hops hangs under a message that is no node.
4. `modules/storage/read.go:33`: every failure of `GetMsg` is taken for a compacted
   message, so a page may leave one out and say nothing.
5. `modules/conversations/render.go:98` "this line is where the click lands somewhere
   real": the line counts messages in every room an agent was ever declared in
   and leads to its screen, which shows and reads its newest home only.

More is visible in the models and has no run of its own, because it is the
condition under which a passing property is stated, or rests on what the core
library does:

* two Declares that both find no placements topic start one each, and what is
  on the second is listed nowhere; so does a Declare that looks while the board has
  not caught up with the first. And a Declare that succeeded, a lone first one
  too, is answered by a list without it when the board is behind at the answer
  (`modules/agents/declare.go:279`). `raced` in `Placements` leaves all of this out of
  `ListedInTurn`: every act that resolved the name or was answered over a board
  behind the record, and every one that resolved it, or began a home that bears
  it, while another was starting the topic. A conversation of that name that a
  person starts is modelled only as one there was before (`Hall`);
* a message sent from the front page goes to whatever the board puts first when
  it arrives (`NamedPagesKeepTheirWord` is about pages that name a conversation);
* `soulstream/board.go:30` says that a screen nobody named a conversation for never
  opens onto the machinery's; until the watch has learned of a home, it may
  (`LandsOnNewest` is about the rooms the watch knows of);
* the question before archiving names no conversation (`lifecycle.go:114`): on a
  page that names none, the stream may have moved on when the person says yes,
  and what is archived is what was on the screen when the question was put
  (`ArchivedOnPurpose`), not what is on it now;
* `modules/approvals/approvals.go:131` says that the answer to a tap and the stream
  never write the same element; both write the list, and an older frame may
  bring back for a tick what the answer took off (`ListSettles`). A reading that
  failed puts its words where the list was, until the next that answers;
* a delivery that took effect and whose reply was lost is reported as refused;
* after a tool was removed no row offers to disconnect from it, although
  `modules/tools/tools.go:257` says that connections last until they are;
* a name that points at a pin *and* at tags, which other tools may write, does not
  survive an unchanged save (`UntouchedSaysTheSame` is about entries the form can
  say);
* Change, pressed again on an entry after something was typed, shows and saves what
  was typed, for `modules/models/models.go:156` serves the form as a morph; so does
  Change on another entry, in a field that says the same there (`Morphed`, `typed`);
* the credential on the card may be over before it is shown: another act of the same
  person's, on the same agent, may take it away between its minting and its answer
  (`gone` in `AgentsScreen`);
* a post whose people cannot be read lands and drops every pick
  (`modules/conversations/picker.go:51` and `:138`), and so it does the pick of somebody
  the directory no longer answers for: the text carries a name that is not theirs
  any more (`Posts` and `Unnamed` in `Picker`);
* a slip may come ahead of its message, from anybody (`soulstream/tray.go:37`): its
  mark is then spent by the time the message is there;
* marks go over messages nobody was shown, where the tick that cleared them could
  not read the conversation, was the last of a page that was closed, or settled on
  another conversation the next time (`lapsed` in `Tray`, `left` in `AgentRoom`);
* a declaration refused after its home was started leaves the room behind, and
  each retry starts another (`homes` in `Declaring`);
* an agent's room clears its marks though the room could not be read, and posts
  where the watch says while it shows what the record says (`RoomsAgree`);
* two people whose names begin one another's are tapped together
  (`Plain` in `Picker`);
* Home lists a step for a tool whose plane half is missing, and its first tile
  counts the machinery's rooms (`Standing` in `Overview`).

## 6. What is not modelled

* Formatting, markup, stylesheets and links, the figures of spend, the wording of
  states: pure functions of what was read, which no property here is about.
  What a screen *offers* (which rows, keys, steps and lines stand) is modelled.
* Configuration and start-up: run once, before concurrency begins.
* The external systems beyond their use here. In particular the order of the
  board (announcement order) and that `StartTopic` does not refuse a name twice
  are taken from how the code uses the core library.
* A stop of the process between two calls of an act: the shell persists nothing
  and takes nothing up again, so what it leaves is what a lost answer leaves,
  which `AgentCredentials` has.
* A stream that outlives its session (`shell/sse.go:70`): nothing says when it
  should end. An oauth state never brought back (`shell/session.go:261`): the map
  only grows, in the code as in `Sessions`.
* The reading of the lists after an administrator's act failing in its turn
  (the list then shows the error), and presence, a single read: the column of who
  is around, on the roster and in a room, keeps nothing.
* The roster of the Agents screen as its stream and `patchList` write it: a list two
  channels write, as the approvals' is (`LiveList`). In `AgentsScreen` any agent with a
  card may have a row at any time, and any row may offer any key.
* What becomes of the rooms that refused declarations leave: `Declaring` counts them
  (`homes`), and no property looks at them.
* Data races in the memory-model sense: every shared map is reached under its
  lock in the code that is modelled.
* `src/e2e` and `src/internal`: tests.

## 7. Plan

1. *(done)* The modules above and the proofs of `Sessions`.
2. *(done)* The proofs of `Tray`, `Approvals` and `AgentCredentials`.
3. *(done)* The proofs of `StoreWalk`, `Conversation` and `Screens`.
4. *(done)* `Behind`, `RoomsTogether` and `Readings` as specifications with constants
   of their own, as `Screens` is, and the theorems about their parts stated of
   them.
5. *(done)* Abstract specifications: `Mentions`, which the tray implements; a
   placements list that only grows (`NothingUnplaces`). A store page as the newest
   matches below a sequence is what `PagesAreWhole` and `ReadsBackwards` say together.
6. Left: the safety halves of the other liveness properties, and the parts that
   section 6 names.
