------------------------------ MODULE Sessions ------------------------------
(***************************************************************************)
(* One shell and the people signed into it (shell/session.go, and Run in   *)
(* shell/shell.go).                                                        *)
(*                                                                         *)
(* HTTP handlers run concurrently: callbacks that sign somebody in, and    *)
(* requests that ask Shell.Session whose they are.  They share two maps    *)
(* under the shell's lock (pending, sessions) and, per session, a token    *)
(* under that session's lock.  Every stretch of code between two points    *)
(* where a lock is taken or the network is asked is one action; SignedIn   *)
(* and SignedOut are the hooks' own code, reduced here to "opened" and     *)
(* "drained".                                                              *)
(*                                                                         *)
(* A callback makes at most one Session and files it under a fresh random  *)
(* id, so the callback stands for both: `sessions' is the set of callbacks *)
(* whose session is in the map.                                            *)
(***************************************************************************)
EXTENDS Naturals

CONSTANTS
    Ceremonies,     \* the oauth states randTok may mint, one per /login
    Callbacks,      \* the /callback handlers, and so the sessions they make
    Requests,       \* the handlers that call Shell.Session
    NHooks,         \* how many session hooks are attached
    None            \* no session

ASSUME HooksAssumption == NHooks \in Nat
ASSUME NoneAssumption == None \notin Callbacks \cup Ceremonies

Hooks == 1 .. NHooks

VARIABLES
    minted,     \* every state /login has handed out
    pending,    \* Shell.oidc.pending: the states not redeemed yet
    cb,         \* where each callback stands
    ceremony,   \* the state each callback redeemed
    hook,       \* the hook each callback calls next
    attached,   \* Session.attached: the hooks that opened something for it
    drains,     \* how often SignedOut was called for each attachment
    sessions,   \* Shell.sessions
    tok,        \* Session.tok: "living" or "spent"
    renew,      \* Session.renew # nil
    honoured,   \* does the issuer still honour the session's grant?
    lapsed,     \* the sessions a renewal failed for that the issuer honoured
    at,         \* where each request stands in Shell.Session
    carries,    \* the session a request looked up
    phase       \* how far Run is

cbVars    == <<cb, ceremony, hook>>
grantVars == <<tok, renew, honoured, lapsed>>
reqVars   == <<at, carries>>
vars == <<minted, pending, cbVars, attached, drains, sessions, grantVars,
          reqVars, phase>>

CallbackAt == {"idle", "exchange", "hooks", "done", "failed"}
RequestAt  == {"idle", "bearer", "renewing", "refused", "closing", "served"}
Phases     == {"serving", "stopping", "drained", "abandoned"}

TypeOK ==
    /\ minted \subseteq Ceremonies
    /\ pending \subseteq minted
    /\ cb \in [Callbacks -> CallbackAt]
    /\ ceremony \in [Callbacks -> Ceremonies \cup {None}]
    /\ hook \in [Callbacks -> 1 .. NHooks + 1]
    /\ attached \in [Callbacks -> SUBSET Hooks]
    /\ drains \in [Callbacks -> [Hooks -> Nat]]
    /\ sessions \subseteq Callbacks
    /\ tok \in [Callbacks -> {"living", "spent"}]
    /\ renew \in [Callbacks -> BOOLEAN]
    /\ honoured \in [Callbacks -> BOOLEAN]
    /\ lapsed \subseteq Callbacks
    /\ at \in [Requests -> RequestAt]
    /\ carries \in [Requests -> Callbacks \cup {None}]
    /\ phase \in Phases

Init ==
    /\ minted = {}
    /\ pending = {}
    /\ cb = [c \in Callbacks |-> "idle"]
    /\ ceremony = [c \in Callbacks |-> None]
    /\ hook = [c \in Callbacks |-> 1]
    /\ attached = [c \in Callbacks |-> {}]
    /\ drains = [c \in Callbacks |-> [h \in Hooks |-> 0]]
    /\ sessions = {}
    /\ tok = [c \in Callbacks |-> "spent"]
    /\ renew = [c \in Callbacks |-> FALSE]
    /\ honoured = [c \in Callbacks |-> FALSE]
    /\ lapsed = {}
    /\ at = [r \in Requests |-> "idle"]
    /\ carries = [r \in Requests |-> None]
    /\ phase = "serving"

(***************************************************************************)
(* closeSession over a set of sessions: SignedOut for each attachment.     *)
(***************************************************************************)
CloseSession(S) ==
    drains' = [c \in Callbacks |-> [h \in Hooks |->
                  IF c \in S /\ h \in attached[c] THEN drains[c][h] + 1
                                                  ELSE drains[c][h]]]

-----------------------------------------------------------------------------
(* Signing in. *)

\* GET /login: a fresh state, and its verifier kept until it comes back.
Login(st) ==
    /\ phase = "serving"
    /\ st \notin minted
    /\ minted' = minted \cup {st}
    /\ pending' = pending \cup {st}
    /\ UNCHANGED <<cbVars, attached, drains, sessions, grantVars, reqVars, phase>>

\* GET /callback, first critical section: the state is popped whether or not
\* it was pending; an unknown one (already redeemed) fails the sign-in.
Redeem(c, st) ==
    /\ phase = "serving"
    /\ cb[c] = "idle"
    /\ st \in minted
    /\ pending' = pending \ {st}
    /\ cb' = [cb EXCEPT ![c] = IF st \in pending THEN "exchange" ELSE "failed"]
    /\ ceremony' = [ceremony EXCEPT ![c] = IF st \in pending THEN st ELSE @]
    /\ UNCHANGED <<minted, hook, attached, drains, sessions, grantVars, reqVars,
                   phase>>

\* The exchange, or the verification of the id token, failed.
ExchangeFails(c) ==
    /\ cb[c] = "exchange"
    /\ cb' = [cb EXCEPT ![c] = "failed"]
    /\ UNCHANGED <<minted, pending, ceremony, hook, attached, drains, sessions,
                   grantVars, reqVars, phase>>

\* The issuer answered: a Session with a living token and, when the answer
\* holds a refresh token, something to renew it with.
Exchanged(c) ==
    /\ cb[c] = "exchange"
    /\ cb' = [cb EXCEPT ![c] = "hooks"]
    /\ tok' = [tok EXCEPT ![c] = "living"]
    /\ \E refresh \in BOOLEAN :
          /\ renew' = [renew EXCEPT ![c] = refresh]
          /\ honoured' = [honoured EXCEPT ![c] = refresh]
    /\ UNCHANGED <<minted, pending, ceremony, hook, attached, drains, sessions,
                   lapsed, reqVars, phase>>

\* SignedIn of the next hook returns what it opened.
HookOpens(c) ==
    /\ cb[c] = "hooks"
    /\ hook[c] \in Hooks
    /\ attached' = [attached EXCEPT ![c] = @ \cup {hook[c]}]
    /\ hook' = [hook EXCEPT ![c] = @ + 1]
    /\ UNCHANGED <<minted, pending, cb, ceremony, drains, sessions, grantVars,
                   reqVars, phase>>

\* Faulty variant of HookFails: the sign-in fails, the earlier hooks' work stays.
HookFailsWithoutClose(c) ==
    /\ cb[c] = "hooks"
    /\ hook[c] \in Hooks
    /\ cb' = [cb EXCEPT ![c] = "failed"]
    /\ UNCHANGED <<minted, pending, ceremony, hook, attached, drains, sessions,
                   grantVars, reqVars, phase>>

\* SignedIn of the next hook fails: what the earlier ones opened is drained
\* and the sign-in has failed.
HookFails(c) ==
    /\ cb[c] = "hooks"
    /\ hook[c] \in Hooks
    /\ CloseSession({c})
    /\ cb' = [cb EXCEPT ![c] = "failed"]
    /\ UNCHANGED <<minted, pending, ceremony, hook, attached, sessions, grantVars,
                   reqVars, phase>>

\* Faulty variant of Admit: the session is filed before the last hook opened.
AdmitEarly(c) ==
    /\ cb[c] = "hooks"
    /\ hook[c] >= NHooks
    /\ sessions' = sessions \cup {c}
    /\ cb' = [cb EXCEPT ![c] = "done"]
    /\ UNCHANGED <<minted, pending, ceremony, hook, attached, drains, grantVars,
                   reqVars, phase>>

\* Last critical section of the callback: every hook opened, the session is
\* filed under a fresh id and the browser is handed its cookie.
Admit(c) ==
    /\ cb[c] = "hooks"
    /\ hook[c] \notin Hooks
    /\ sessions' = sessions \cup {c}
    /\ cb' = [cb EXCEPT ![c] = "done"]
    /\ UNCHANGED <<minted, pending, ceremony, hook, attached, drains, grantVars,
                   reqVars, phase>>

-----------------------------------------------------------------------------
(* A request asks whose it is: Shell.Session, and Session.Bearer inside it. *)

Moves(r, to) == at' = [at EXCEPT ![r] = to]

\* The cookie names a session in the map, read under the shell's lock and
\* used after it.  (A cookie that names none is answered nil: no step.)
Lookup(r, c) ==
    /\ phase = "serving"
    /\ at[r] = "idle"
    /\ c \in sessions
    /\ Moves(r, "bearer")
    /\ carries' = [carries EXCEPT ![r] = c]
    /\ UNCHANGED <<minted, pending, cbVars, attached, drains, sessions, grantVars,
                   phase>>

\* The session's own lock, held by a Bearer that is asking the issuer.
Locked(c) == \E r \in Requests : at[r] = "renewing" /\ carries[r] = c

\* Bearer: the token is still good.
BearerLiving(r) ==
    /\ at[r] = "bearer"
    /\ ~Locked(carries[r])
    /\ tok[carries[r]] = "living"
    /\ Moves(r, "served")
    /\ UNCHANGED <<minted, pending, cbVars, attached, drains, sessions, grantVars,
                   carries, phase>>

\* Faulty variant of BearerSpent: a spent token is the end, renewable or not.
BearerSpentAlways(r) ==
    /\ at[r] = "bearer"
    /\ ~Locked(carries[r])
    /\ tok[carries[r]] = "spent"
    /\ Moves(r, "refused")
    /\ UNCHANGED <<minted, pending, cbVars, attached, drains, sessions, grantVars,
                   carries, phase>>

\* Bearer: the token is spent and there is nothing to renew it with.
BearerSpent(r) ==
    /\ at[r] = "bearer"
    /\ ~Locked(carries[r])
    /\ tok[carries[r]] = "spent"
    /\ ~renew[carries[r]]
    /\ Moves(r, "refused")
    /\ UNCHANGED <<minted, pending, cbVars, attached, drains, sessions, grantVars,
                   carries, phase>>

\* Bearer: the issuer is asked, the session's lock held.
BearerAsks(r) ==
    /\ at[r] = "bearer"
    /\ ~Locked(carries[r])
    /\ tok[carries[r]] = "spent"
    /\ renew[carries[r]]
    /\ Moves(r, "renewing")
    /\ UNCHANGED <<minted, pending, cbVars, attached, drains, sessions, grantVars,
                   carries, phase>>

\* The issuer answered with a fresh token.
Renewed(r) ==
    /\ at[r] = "renewing"
    /\ honoured[carries[r]]
    /\ tok' = [tok EXCEPT ![carries[r]] = "living"]
    /\ Moves(r, "served")
    /\ UNCHANGED <<minted, pending, cbVars, attached, drains, sessions, renew,
                   honoured, lapsed, carries, phase>>

\* The renewal failed.  Bearer does not tell a grant the issuer no longer
\* honours from an issuer it could not reach: any error is the same error.
RenewalFails(r) ==
    /\ at[r] = "renewing"
    /\ lapsed' = lapsed \cup {c \in Callbacks : c = carries[r] /\ honoured[c]}
    /\ Moves(r, "refused")
    /\ UNCHANGED <<minted, pending, cbVars, attached, drains, sessions, tok, renew,
                   honoured, carries, phase>>

\* Faulty variant of Drop: whoever was refused closes, still in the map or not.
DropUnchecked(r) ==
    /\ at[r] = "refused"
    /\ sessions' = sessions \ {carries[r]}
    /\ Moves(r, "closing")
    /\ UNCHANGED <<minted, pending, cbVars, attached, drains, grantVars, carries,
                   phase>>

\* Faulty variant of Drop: the session leaves the map and nobody closes it.
DropWithoutClose(r) ==
    /\ at[r] = "refused"
    /\ sessions' = sessions \ {carries[r]}
    /\ Moves(r, "idle")
    /\ UNCHANGED <<minted, pending, cbVars, attached, drains, grantVars, carries,
                   phase>>

\* The refused request takes the shell's lock again: only the one that still
\* finds the session in the map deletes it, and it alone goes on to close.
Drop(r) ==
    /\ at[r] = "refused"
    /\ sessions' = sessions \ {carries[r]}
    /\ Moves(r, IF carries[r] \in sessions THEN "closing" ELSE "idle")
    /\ UNCHANGED <<minted, pending, cbVars, attached, drains, grantVars, carries,
                   phase>>

\* closeSession, outside the shell's lock; the request is answered nil.
Close(r) ==
    /\ at[r] = "closing"
    /\ CloseSession({carries[r]})
    /\ Moves(r, "idle")
    /\ UNCHANGED <<minted, pending, cbVars, attached, sessions, grantVars, carries,
                   phase>>

\* The handler that was handed a session answers and ends.
Answer(r) ==
    /\ at[r] = "served"
    /\ Moves(r, "idle")
    /\ UNCHANGED <<minted, pending, cbVars, attached, drains, sessions, grantVars,
                   carries, phase>>

\* POST /logout: closed and deleted in one critical section.
Logout(c) ==
    /\ phase = "serving"
    /\ c \in sessions
    /\ CloseSession({c})
    /\ sessions' = sessions \ {c}
    /\ UNCHANGED <<minted, pending, cbVars, attached, grantVars, reqVars, phase>>

-----------------------------------------------------------------------------
(* The issuer, and an attachment that asks for the bearer itself. *)

HasToken(c) == cb[c] \in {"hooks", "done"}

TokenExpires(c) ==
    /\ HasToken(c)
    /\ tok[c] = "living"
    /\ tok' = [tok EXCEPT ![c] = "spent"]
    /\ UNCHANGED <<minted, pending, cbVars, attached, drains, sessions, renew,
                   honoured, lapsed, reqVars, phase>>

\* The issuer stops honouring the refresh grant.
GrantEnds(c) ==
    /\ honoured[c]
    /\ honoured' = [honoured EXCEPT ![c] = FALSE]
    /\ UNCHANGED <<minted, pending, cbVars, attached, drains, sessions, tok, renew,
                   lapsed, reqVars, phase>>

\* A hook holds the session and calls Bearer too (a connection that is being
\* re-made): it may renew the token.  When it fails nothing changes here.
AttachmentRenews(c) ==
    /\ HasToken(c)
    /\ ~Locked(c)
    /\ tok[c] = "spent"
    /\ renew[c]
    /\ honoured[c]
    /\ tok' = [tok EXCEPT ![c] = "living"]
    /\ UNCHANGED <<minted, pending, cbVars, attached, drains, sessions, renew,
                   honoured, lapsed, reqVars, phase>>

-----------------------------------------------------------------------------
(* Run ends. *)

InFlight ==
    \/ \E c \in Callbacks : cb[c] \in {"exchange", "hooks"}
    \/ \E r \in Requests : at[r] # "idle"

\* ctx is done: http.Server.Shutdown closes the listener and waits.
Stop ==
    /\ phase = "serving"
    /\ phase' = "stopping"
    /\ UNCHANGED <<minted, pending, cbVars, attached, drains, sessions, grantVars,
                   reqVars>>

\* closeAllSessions, and Run returns.  Handlers still in flight by then (the
\* three seconds of Shutdown ran out, or the surface failed) are abandoned:
\* they go on running.
CloseAllSessions ==
    /\ phase' = IF InFlight THEN "abandoned" ELSE "drained"
    /\ CloseSession(sessions)
    /\ sessions' = {}
    /\ UNCHANGED <<minted, pending, cbVars, attached, grantVars, reqVars>>

\* Shutdown returned: every handler finished, or the time ran out.
ShutdownReturns == phase = "stopping" /\ CloseAllSessions

\* Serve returned an error: no Shutdown, the sessions are closed at once.
ServeFails == phase = "serving" /\ CloseAllSessions

-----------------------------------------------------------------------------
CallbackStep(c) ==
    \/ ExchangeFails(c) \/ Exchanged(c)
    \/ HookOpens(c) \/ HookFails(c) \/ Admit(c)

RequestStep(r) ==
    \/ BearerLiving(r) \/ BearerSpent(r) \/ BearerAsks(r)
    \/ Renewed(r) \/ RenewalFails(r)
    \/ Drop(r) \/ Close(r)

Next ==
    \/ \E st \in Ceremonies : Login(st)
    \/ \E c \in Callbacks, st \in Ceremonies : Redeem(c, st)
    \/ \E c \in Callbacks : CallbackStep(c)
    \/ \E r \in Requests, c \in Callbacks : Lookup(r, c)
    \/ \E r \in Requests : RequestStep(r) \/ Answer(r)
    \/ \E c \in Callbacks : \/ Logout(c) \/ TokenExpires(c)
                            \/ GrantEnds(c) \/ AttachmentRenews(c)
    \/ Stop
    \/ ShutdownReturns
    \/ ServeFails

Spec == Init /\ [][Next]_vars

\* A handler that has started runs on: the Go scheduler runs every runnable
\* goroutine, and the network calls a handler waits for come back (SignedIn
\* connects under a timeout, the issuer's answer or its error arrives).
\* Nothing is assumed of people: nobody need log in, ask or log out, and a
\* live stream may be watched for ever.
Fairness ==
    /\ \A c \in Callbacks : WF_vars(CallbackStep(c))
    /\ \A r \in Requests : WF_vars(RequestStep(r))

FairSpec == Spec /\ Fairness

-----------------------------------------------------------------------------
(* What must hold. *)

\* What a session has open: attached, and not drained yet.
Open(c) == {h \in attached[c] : drains[c][h] = 0}

\* No attachment is drained twice, however a logout, several refused requests
\* and the end of Run race to close the same session (nats.Conn.Close and a
\* hook's own bookkeeping would run twice).  Session's `still' check, and
\* logout closing and deleting in one critical section.
DrainedAtMostOnce ==
    \A c \in Callbacks, h \in Hooks : drains[c][h] <= 1

\* What is open always has somebody who will drain it: the map (logout, a
\* refused request or Run closes it), the callback still signing in, or the
\* one request that took it out of the map.
NoOrphanedAttachment ==
    \A c \in Callbacks : Open(c) # {} =>
        \/ c \in sessions
        \/ cb[c] = "hooks"
        \/ \E r \in Requests : at[r] = "closing" /\ carries[r] = c

\* A session anybody can look up has everything its hooks opened, all of it
\* open: no request is handed a session half made or already drained.
HeldIsWhole ==
    \A c \in sessions : Open(c) = Hooks

\* One oauth state signs in at most one session, even when two callbacks
\* bring it at once.
RedeemedOnce ==
    \A c, d \in Callbacks : ceremony[c] = ceremony[d] => c = d \/ ceremony[c] = None

\* When every handler had finished before Run closed the sessions, nothing is
\* left open after Run has returned ("Returned means drained").
CleanStopDrains ==
    phase = "drained" => \A c \in Callbacks : Open(c) = {}

\* The same without the condition, as Run's comment says it: once Run has
\* returned, whatever is open is drained.
ReturnedMeansDrained ==
    phase \in {"drained", "abandoned"} ~> \A c \in Callbacks : Open(c) = {}

\* Can a living credential be produced for this session?
Producible(c) == tok[c] = "living" \/ (renew[c] /\ honoured[c])

\* A request that ends a session ends one that is over: no living token, and
\* nothing the issuer would renew it with; unless a renewal failed although the
\* issuer honoured the grant (it could not be reached).  The refusal is learned
\* under one lock and acted on under another; in between others renew the same
\* session.
EvictedOnlyWhenOver ==
    [][\A r \in Requests :
          at[r] = "refused" /\ at'[r] = "closing" =>
              ~Producible(carries[r]) \/ carries[r] \in lapsed]_vars

\* Whatever a sign-in opened ends up held by a session in the map, or drained:
\* a failed sign-in and an ended session leave nothing behind for good.
OpenedIsHeldOrDrained ==
    \A c \in Callbacks : Open(c) # {} ~> (c \in sessions \/ Open(c) = {})

-----------------------------------------------------------------------------
(* The promise the shell makes to a hook (module Admission), and where a     *)
(* session of this module stands in it.                                      *)
Life(c) == IF c \in sessions THEN "in"
           ELSE IF cb[c] \in {"done", "failed"} THEN "over"
           ELSE "out"

Promise == INSTANCE Admission WITH
    People <- Callbacks,
    life <- [c \in Callbacks |-> Life(c)],
    opened <- [c \in Callbacks |-> Open(c)]

\* The shell keeps the promise: a session is admitted with everything opened,
\* nothing of it is drained while it is in, and it never comes back.
KeepsPromise == Promise!Spec
=============================================================================
