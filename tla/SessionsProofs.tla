--------------------------- MODULE SessionsProofs ---------------------------
(***************************************************************************)
(* Proofs about Sessions, for any number of states, callbacks, requests    *)
(* and hooks.                                                              *)
(***************************************************************************)
EXTENDS Sessions, TLAPS

\* closeSession counts one more call of SignedOut, whichever sessions it closes.
LEMMA CloseSessionType ==
  ASSUME drains \in [Callbacks -> [Hooks -> Nat]], NEW S, CloseSession(S)
  PROVE  drains' \in [Callbacks -> [Hooks -> Nat]]
BY DEF CloseSession

\* TypeOK is inductive on its own: every handler step keeps every variable in
\* its type.
LEMMA TypeStep ==
  ASSUME TypeOK, [Next]_vars
  PROVE  TypeOK'
<1> USE HooksAssumption, NoneAssumption DEF Hooks, CallbackAt, RequestAt, Phases
<1> USE DEF TypeOK
<1>1. ASSUME NEW st \in Ceremonies, Login(st) PROVE TypeOK'
  BY <1>1 DEF Login, cbVars, grantVars, reqVars
<1>2. ASSUME NEW c \in Callbacks, NEW st \in Ceremonies, Redeem(c, st)
      PROVE TypeOK'
  BY <1>2 DEF Redeem, grantVars, reqVars
<1>3. ASSUME NEW c \in Callbacks, CallbackStep(c) PROVE TypeOK'
  <2>1. CASE ExchangeFails(c) BY <2>1 DEF ExchangeFails, grantVars, reqVars
  <2>2. CASE Exchanged(c) BY <2>2 DEF Exchanged, reqVars
  <2>3. CASE HookOpens(c)
    <3>1. attached' \in [Callbacks -> SUBSET Hooks]
      BY <2>3 DEF HookOpens
    <3>2. hook' \in [Callbacks -> 1 .. NHooks + 1]
      <4>1. hook[c] + 1 \in 1 .. NHooks + 1
        BY <2>3 DEF HookOpens
      <4> QED BY <4>1, <2>3 DEF HookOpens
    <3> QED BY <3>1, <3>2, <2>3 DEF HookOpens, grantVars, reqVars
  <2>4. CASE HookFails(c) BY <2>4, CloseSessionType DEF HookFails, grantVars, reqVars
  <2>5. CASE Admit(c) BY <2>5 DEF Admit, grantVars, reqVars
  <2> QED BY <1>3, <2>1, <2>2, <2>3, <2>4, <2>5 DEF CallbackStep
<1>4. ASSUME NEW r \in Requests, NEW c \in Callbacks, Lookup(r, c)
      PROVE TypeOK'
  BY <1>4 DEF Lookup, Moves, cbVars, grantVars
<1>5. ASSUME NEW r \in Requests, RequestStep(r) \/ Answer(r) PROVE TypeOK'
  <2> USE DEF Moves, cbVars, grantVars
  <2>1. CASE BearerLiving(r) BY <2>1 DEF BearerLiving
  <2>2. CASE BearerSpent(r) BY <2>2 DEF BearerSpent
  <2>3. CASE BearerAsks(r) BY <2>3 DEF BearerAsks
  <2>4. CASE Renewed(r) BY <2>4 DEF Renewed
  <2>5. CASE RenewalFails(r) BY <2>5 DEF RenewalFails
  <2>6. CASE Drop(r) BY <2>6 DEF Drop
  <2>7. CASE Close(r) BY <2>7, CloseSessionType DEF Close
  <2>8. CASE Answer(r) BY <2>8 DEF Answer
  <2> QED BY <1>5, <2>1, <2>2, <2>3, <2>4, <2>5, <2>6, <2>7, <2>8
          DEF RequestStep
<1>6. ASSUME NEW c \in Callbacks,
             Logout(c) \/ TokenExpires(c) \/ GrantEnds(c) \/ AttachmentRenews(c)
      PROVE TypeOK'
  <2>1. CASE Logout(c)
    BY <2>1, CloseSessionType DEF Logout, cbVars, grantVars, reqVars
  <2>2. CASE TokenExpires(c) BY <2>2 DEF TokenExpires, cbVars, reqVars
  <2>3. CASE GrantEnds(c) BY <2>3 DEF GrantEnds, cbVars, reqVars
  <2>4. CASE AttachmentRenews(c) BY <2>4 DEF AttachmentRenews, cbVars, reqVars
  <2> QED BY <1>6, <2>1, <2>2, <2>3, <2>4
<1>7. CASE Stop BY <1>7 DEF Stop, cbVars, grantVars, reqVars
<1>8. CASE ShutdownReturns \/ ServeFails
  BY <1>8, CloseSessionType DEF ShutdownReturns, ServeFails, CloseAllSessions,
                                cbVars, grantVars, reqVars
<1>9. CASE UNCHANGED vars
  BY <1>9 DEF vars, cbVars, grantVars, reqVars
<1> QED BY <1>1, <1>2, <1>3, <1>4, <1>5, <1>6, <1>7, <1>8, <1>9 DEF Next

\* Custody keeps its types, for any number of people, ceremonies and requests.
THEOREM TypeCorrect == Spec => []TypeOK
<1>1. Init => TypeOK
  BY HooksAssumption DEF Init, TypeOK, Hooks, CallbackAt, RequestAt, Phases
<1> QED BY <1>1, TypeStep, PTL DEF Spec

-----------------------------------------------------------------------------
(* The inductive invariant.  DrainedAtMostOnce and NoOrphanedAttachment say  *)
(* how often things were drained; neither says why nobody else will drain    *)
(* them again.  The invariant adds who answers for a session at each moment: *)
(* a session is held by the callback making it, by the map, or by the single *)
(* request that took it out, and exactly the held ones are undrained.        *)

Closing(c) == \E r \in Requests : at[r] = "closing" /\ carries[r] = c

Held(c) == c \in sessions \/ cb[c] = "hooks" \/ Closing(c)

Undrained(c) == \A h \in Hooks : drains[c][h] = 0

\* What each stage of a callback has opened.
Made ==
    \A c \in Callbacks :
        /\ cb[c] \in {"idle", "exchange"} =>
              attached[c] = {} /\ hook[c] = 1 /\ Undrained(c)
        /\ cb[c] = "hooks" => attached[c] = 1 .. (hook[c] - 1)

\* The map holds only sessions whose callback is done, whole.
Filed ==
    \A c \in sessions : cb[c] = "done" /\ attached[c] = Hooks

\* A request carries a session that was made; one that is closing it took it
\* out of the map, and no other did.
Carried ==
    /\ \A r \in Requests : at[r] # "idle" =>
          carries[r] \in Callbacks /\ cb[carries[r]] = "done"
    /\ \A r \in Requests : at[r] = "closing" => carries[r] \notin sessions
    /\ \A q, r \in Requests :
          at[q] = "closing" /\ at[r] = "closing" /\ carries[q] = carries[r] => q = r

HeldIsUndrained == \A c \in Callbacks : Held(c) => Undrained(c)

\* Drained exactly once, when nobody holds it any more.
RestIsDrained ==
    \A c \in Callbacks : ~Held(c) => \A h \in attached[c] : drains[c][h] = 1

\* A redeemed state is not pending.
Redeemed ==
    \A c \in Callbacks : ceremony[c] # None => ceremony[c] \in minted \ pending

\* Run returned with nothing in flight: nothing is held any more.
Stopped ==
    phase = "drained" => ~InFlight /\ sessions = {}

IInv ==
    /\ TypeOK
    /\ Made
    /\ Filed
    /\ Carried
    /\ HeldIsUndrained
    /\ RestIsDrained
    /\ DrainedAtMostOnce
    /\ Redeemed
    /\ RedeemedOnce
    /\ Stopped
-----------------------------------------------------------------------------
(* Preservation, one lemma per group of actions. *)

\* The steps of a request that neither begin nor end its carrying of a session
\* to a close, and the issuer's, change nothing the invariant speaks of.
LEMMA QuietStep ==
  ASSUME IInv, TypeOK',
         UNCHANGED <<minted, pending, cb, ceremony, hook, attached, drains,
                     sessions, carries>>,
         phase' = phase \/ phase' = "stopping",
         \A r \in Requests : at'[r] = at[r]
                          \/ /\ at[r] \notin {"idle", "closing"}
                             /\ at'[r] # "closing"
  PROVE  IInv'
<1>1. \A c \in Callbacks : Closing(c)' <=> Closing(c)
  BY DEF Closing
<1>2. \A c \in Callbacks : Held(c)' <=> Held(c)
  BY <1>1 DEF Held
<1>3. Made' /\ Filed'
  BY DEF IInv, Made, Filed, Undrained
<1>4. Carried'
  BY DEF IInv, Carried
<1>5. HeldIsUndrained' /\ RestIsDrained'
  BY <1>2 DEF IInv, HeldIsUndrained, RestIsDrained, Undrained
<1>6. DrainedAtMostOnce' /\ Redeemed' /\ RedeemedOnce'
  BY DEF IInv, DrainedAtMostOnce, Redeemed, RedeemedOnce
<1>7. Stopped'
  BY DEF IInv, Stopped, InFlight, TypeOK, Phases
<1> QED BY <1>3, <1>4, <1>5, <1>6, <1>7 DEF IInv

\* A new ceremony takes a state of its own.
LEMMA LoginStep ==
  ASSUME IInv, TypeOK', NEW st \in Ceremonies, Login(st)
  PROVE  IInv'
<1> USE DEF IInv, Login, cbVars, grantVars, reqVars
<1>1. Made' /\ Filed' /\ Carried'
  BY DEF Made, Filed, Carried, Undrained
<1>2. HeldIsUndrained' /\ RestIsDrained'
  BY DEF HeldIsUndrained, RestIsDrained, Held, Closing, Undrained
<1>3. DrainedAtMostOnce' /\ RedeemedOnce'
  BY DEF DrainedAtMostOnce, RedeemedOnce
<1>4. Redeemed'
  BY DEF Redeemed, TypeOK
<1>5. Stopped'
  BY DEF Stopped, InFlight
<1> QED BY <1>1, <1>2, <1>3, <1>4, <1>5

\* A state that is pending was redeemed by nobody, so popping it gives it to
\* one callback only.
LEMMA RedeemStep ==
  ASSUME IInv, TypeOK', NEW c \in Callbacks, NEW st \in Ceremonies, Redeem(c, st)
  PROVE  IInv'
<1> USE NoneAssumption DEF IInv, Redeem, grantVars, reqVars
<1>1. ~Held(c) /\ ~Held(c)' /\ attached[c] = {}
  BY DEF Held, Closing, Filed, Carried, Made, TypeOK
<1>2. \A d \in Callbacks : Held(d)' <=> Held(d)
  BY <1>1 DEF Held, Closing, TypeOK
<1>3. Made' /\ Filed' /\ Carried'
  BY DEF Made, Filed, Carried, Undrained, TypeOK
<1>4. HeldIsUndrained' /\ RestIsDrained'
  BY <1>2 DEF HeldIsUndrained, RestIsDrained, Undrained
<1>5. Redeemed'
  BY DEF Redeemed, TypeOK
<1>6. RedeemedOnce'
  <2>1. CASE st \in pending
    <3>1. \A d \in Callbacks : ceremony[d] # st
      BY <2>1 DEF Redeemed
    <3> QED BY <2>1, <3>1 DEF RedeemedOnce, TypeOK
  <2>2. CASE st \notin pending
    BY <2>2 DEF RedeemedOnce, TypeOK
  <2> QED BY <2>1, <2>2
<1>7. DrainedAtMostOnce' /\ Stopped'
  BY DEF DrainedAtMostOnce, Stopped
<1> QED BY <1>3, <1>4, <1>5, <1>6, <1>7

\* What the exchange answers is kept for its own callback.
LEMMA ExchangeStep ==
  ASSUME IInv, TypeOK', NEW c \in Callbacks, ExchangeFails(c) \/ Exchanged(c)
  PROVE  IInv'
<1> USE DEF IInv, grantVars, reqVars
<1>1. /\ cb[c] = "exchange"
      /\ cb' = [cb EXCEPT ![c] = "failed"] \/ cb' = [cb EXCEPT ![c] = "hooks"]
      /\ UNCHANGED <<minted, pending, ceremony, hook, attached, drains, sessions,
                     at, carries, phase>>
  BY DEF ExchangeFails, Exchanged
<1>2. attached[c] = {} /\ hook[c] = 1 /\ Undrained(c) /\ 1 .. (1 - 1) = {}
  BY <1>1 DEF Made
<1>3. \A d \in Callbacks \ {c} : cb'[d] = cb[d] /\ (Held(d)' <=> Held(d))
  BY <1>1 DEF Held, Closing, TypeOK
<1>4. Made' /\ Filed'
  <2>1. /\ attached'[c] = {} /\ hook'[c] = 1 /\ Undrained(c)'
        /\ attached'[c] = 1 .. (hook'[c] - 1)
    BY <1>1, <1>2 DEF Undrained
  <2>2. Made'
    BY <1>1, <1>3, <2>1 DEF Made, Undrained
  <2>3. Filed'
    BY <1>1, <1>3 DEF Filed, TypeOK
  <2> QED BY <2>2, <2>3
<1>5. Carried'
  BY <1>1 DEF Carried, TypeOK
<1>6. HeldIsUndrained' /\ RestIsDrained'
  <2>1. HeldIsUndrained'
    BY <1>1, <1>2, <1>3 DEF HeldIsUndrained, Undrained
  <2>2. RestIsDrained'
    BY <1>1, <1>2, <1>3 DEF RestIsDrained
  <2> QED BY <2>1, <2>2
<1>7. DrainedAtMostOnce' /\ Redeemed' /\ RedeemedOnce'
  BY <1>1 DEF DrainedAtMostOnce, Redeemed, RedeemedOnce
<1>8. Stopped'
  BY <1>1 DEF Stopped, InFlight
<1> QED BY <1>4, <1>5, <1>6, <1>7, <1>8

\* A hook that opens leaves something to close.
LEMMA HookOpensStep ==
  ASSUME IInv, TypeOK', NEW c \in Callbacks, HookOpens(c)
  PROVE  IInv'
<1> USE DEF IInv, HookOpens, grantVars, reqVars
<1>1. (1 .. hook[c] - 1) \cup {hook[c]} = 1 .. hook[c]
  BY HooksAssumption DEF TypeOK, Hooks
<1>2. hook'[c] - 1 = hook[c]
  BY HooksAssumption DEF TypeOK, Hooks
<1>3. Made'
  BY <1>1, <1>2 DEF Made, Undrained, TypeOK
<1>4. Filed' /\ Carried'
  BY DEF Filed, Carried, TypeOK
<1>5. \A d \in Callbacks : Held(d)' <=> Held(d)
  BY DEF Held, Closing
<1>6. HeldIsUndrained' /\ RestIsDrained'
  <2>1. Held(c)
    BY DEF Held
  <2> QED BY <1>5, <2>1 DEF HeldIsUndrained, RestIsDrained, Undrained, TypeOK
<1>7. DrainedAtMostOnce' /\ Redeemed' /\ RedeemedOnce'
  BY DEF DrainedAtMostOnce, Redeemed, RedeemedOnce
<1>8. Stopped'
  BY DEF Stopped, InFlight
<1> QED BY <1>3, <1>4, <1>6, <1>7, <1>8

\* A hook that fails leaves nothing.
LEMMA HookFailsStep ==
  ASSUME IInv, TypeOK', NEW c \in Callbacks, HookFails(c)
  PROVE  IInv'
<1> USE DEF IInv, HookFails, grantVars, reqVars
<1>1. c \notin sessions /\ ~Closing(c) /\ Undrained(c) /\ ~Held(c)'
  BY DEF Filed, Carried, HeldIsUndrained, Held, Closing, TypeOK
<1>2. \A h \in attached[c] : drains'[c][h] = 1
  BY <1>1 DEF CloseSession, Undrained, TypeOK
<1>3. \A d \in Callbacks \ {c} :
        /\ cb'[d] = cb[d] /\ (Held(d)' <=> Held(d))
        /\ \A h \in Hooks : drains'[d][h] = drains[d][h]
  BY DEF CloseSession, Held, Closing, TypeOK
<1>4. Made' /\ Filed'
  BY <1>1, <1>3 DEF Made, Filed, Undrained, TypeOK
<1>5. Carried'
  BY DEF Carried, TypeOK
<1>6. HeldIsUndrained'
  BY <1>1, <1>3 DEF HeldIsUndrained, Undrained
<1>7. RestIsDrained'
  <2>1. attached' = attached /\ \A d \in Callbacks : attached[d] \subseteq Hooks
    BY DEF TypeOK
  <2>2. \A d \in Callbacks : ~Held(d) => \A h \in attached[d] : drains[d][h] = 1
    BY DEF RestIsDrained
  <2> HIDE DEF IInv, HookFails
  <2> QED BY <1>2, <1>3, <2>1, <2>2 DEF RestIsDrained
<1>8. DrainedAtMostOnce'
  BY <1>1 DEF DrainedAtMostOnce, CloseSession, Undrained, TypeOK
<1>9. Redeemed' /\ RedeemedOnce' /\ Stopped'
  BY DEF Redeemed, RedeemedOnce, Stopped, InFlight
<1> QED BY <1>4, <1>5, <1>6, <1>7, <1>8, <1>9

\* An admitted callback has one session.
LEMMA AdmitStep ==
  ASSUME IInv, TypeOK', NEW c \in Callbacks, Admit(c)
  PROVE  IInv'
<1> USE DEF IInv, Admit, grantVars, reqVars
<1>1. hook[c] = NHooks + 1
  BY HooksAssumption DEF TypeOK, Hooks
<1>2. attached[c] = Hooks
  BY <1>1, HooksAssumption DEF Made, Hooks
<1>3. \A d \in Callbacks : Held(d)' <=> Held(d)
  BY DEF Held, Closing, TypeOK
<1>4. Made' /\ Filed'
  BY <1>2 DEF Made, Filed, Undrained, TypeOK
<1>5. Carried'
  BY DEF Carried, TypeOK
<1>6. HeldIsUndrained' /\ RestIsDrained'
  BY <1>3 DEF HeldIsUndrained, RestIsDrained, Undrained
<1>7. DrainedAtMostOnce' /\ Redeemed' /\ RedeemedOnce'
  BY DEF DrainedAtMostOnce, Redeemed, RedeemedOnce
<1>8. Stopped'
  BY DEF Stopped, InFlight
<1> QED BY <1>4, <1>5, <1>6, <1>7, <1>8

\* What a request's steps do to who holds what: Lookup, Drop, Close, the rest
\* are quiet.
LEMMA LookupStep ==
  ASSUME IInv, TypeOK', NEW r \in Requests, NEW c \in Callbacks, Lookup(r, c)
  PROVE  IInv'
<1> USE DEF IInv, Lookup, Moves, cbVars, grantVars
<1>1. \A d \in Callbacks : Held(d)' <=> Held(d)
  BY DEF Held, Closing, TypeOK
<1>2. Made' /\ Filed'
  BY DEF Made, Filed, Undrained
<1>3. Carried'
  BY DEF Carried, Filed, TypeOK
<1>4. HeldIsUndrained' /\ RestIsDrained'
  BY <1>1 DEF HeldIsUndrained, RestIsDrained, Undrained
<1>5. DrainedAtMostOnce' /\ Redeemed' /\ RedeemedOnce'
  BY DEF DrainedAtMostOnce, Redeemed, RedeemedOnce
<1>6. Stopped'
  BY DEF Stopped
<1> QED BY <1>2, <1>3, <1>4, <1>5, <1>6

\* A dropped session is taken out once.
LEMMA DropStep ==
  ASSUME IInv, TypeOK', NEW r \in Requests, Drop(r)
  PROVE  IInv'
<1> USE DEF IInv, Drop, Moves, cbVars, grantVars
<1>1. PICK c \in Callbacks : carries[r] = c /\ cb[c] = "done"
  BY DEF Carried
<1>2. \A d \in Callbacks : Held(d)' <=> Held(d)
  BY <1>1 DEF Held, Closing, TypeOK, Carried
<1>3. Made' /\ Filed'
  BY DEF Made, Filed, Undrained
<1>4. Carried'
  BY <1>1 DEF Carried, TypeOK
<1>5. HeldIsUndrained' /\ RestIsDrained'
  BY <1>2 DEF HeldIsUndrained, RestIsDrained, Undrained
<1>6. DrainedAtMostOnce' /\ Redeemed' /\ RedeemedOnce'
  BY DEF DrainedAtMostOnce, Redeemed, RedeemedOnce
<1>7. Stopped'
  BY DEF Stopped, InFlight
<1> QED BY <1>3, <1>4, <1>5, <1>6, <1>7

\* What was taken out is closed once.
LEMMA CloseStep ==
  ASSUME IInv, TypeOK', NEW r \in Requests, Close(r)
  PROVE  IInv'
<1> USE DEF IInv, Close, Moves, cbVars, grantVars
<1>1. PICK c \in Callbacks : carries[r] = c /\ cb[c] = "done"
  BY DEF Carried
<1>2. Undrained(c) /\ c \notin sessions /\ ~Closing(c)'
  BY <1>1 DEF Carried, HeldIsUndrained, Held, Closing, TypeOK
<1>3. \A h \in attached[c] : drains'[c][h] = 1
  BY <1>1, <1>2 DEF CloseSession, Undrained, TypeOK
<1>4. \A d \in Callbacks \ {c} :
        (Held(d)' <=> Held(d)) /\ \A h \in Hooks : drains'[d][h] = drains[d][h]
  BY <1>1 DEF Held, Closing, TypeOK, CloseSession
<1>5. Made' /\ Filed'
  BY <1>1, <1>4 DEF Made, Filed, Undrained
<1>6. Carried'
  BY DEF Carried, TypeOK
<1>7. HeldIsUndrained' /\ RestIsDrained'
  <2>1. ~Held(c)'
    BY <1>1, <1>2 DEF Held
  <2>2. HeldIsUndrained'
    BY <1>4, <2>1 DEF HeldIsUndrained, Undrained
  <2>3. RestIsDrained'
    BY <1>3, <1>4 DEF RestIsDrained, TypeOK
  <2> QED BY <2>2, <2>3
<1>8. DrainedAtMostOnce'
  BY <1>1, <1>2 DEF DrainedAtMostOnce, CloseSession, Undrained, TypeOK
<1>9. Redeemed' /\ RedeemedOnce' /\ Stopped'
  BY DEF Redeemed, RedeemedOnce, Stopped, InFlight
<1> QED BY <1>5, <1>6, <1>7, <1>8, <1>9

\* Logout, and the end of Run: sessions are closed in the very step that takes
\* them out of the map.
LEMMA SignOutStep ==
  ASSUME IInv, TypeOK', NEW S \in SUBSET sessions,
         CloseSession(S), sessions' = sessions \ S,
         UNCHANGED <<minted, pending, cb, ceremony, hook, attached, at, carries>>,
         phase' = "drained" => ~InFlight /\ (S = sessions \/ phase = "drained")
  PROVE  IInv'
<1> USE DEF IInv
<1>1. \A c \in S : c \in Callbacks /\ cb[c] = "done" /\ Undrained(c) /\ ~Closing(c)
  BY DEF Filed, HeldIsUndrained, Held, Closing, Carried, TypeOK
<1>2. \A c \in S : \A h \in attached[c] : drains'[c][h] = 1
  BY <1>1 DEF CloseSession, Undrained, TypeOK
<1>3. \A c \in Callbacks \ S :
        (Held(c)' <=> Held(c)) /\ \A h \in Hooks : drains'[c][h] = drains[c][h]
  BY DEF Held, Closing, CloseSession
<1>4. \A c \in S : ~Held(c)'
  BY <1>1 DEF Held, Closing
<1>5. Made' /\ Filed'
  BY <1>1, <1>3 DEF Made, Filed, Undrained
<1>6. Carried'
  BY DEF Carried
<1>7. HeldIsUndrained' /\ RestIsDrained'
  <2>1. attached' = attached /\ \A c \in Callbacks : attached[c] \subseteq Hooks
    BY DEF TypeOK
  <2>2. HeldIsUndrained'
    BY <1>3, <1>4 DEF HeldIsUndrained, Undrained
  <2>3. RestIsDrained'
    BY <1>2, <1>3, <2>1 DEF RestIsDrained
  <2> QED
    BY <2>2, <2>3
<1>8. DrainedAtMostOnce'
  BY <1>1 DEF DrainedAtMostOnce, CloseSession, Undrained, TypeOK
<1>9. Redeemed' /\ RedeemedOnce'
  BY DEF Redeemed, RedeemedOnce
<1>10. Stopped'
  BY DEF Stopped, InFlight
<1> QED BY <1>5, <1>6, <1>7, <1>8, <1>9, <1>10

-----------------------------------------------------------------------------
\* The invariant holds at first.
LEMMA InitHolds == Init => IInv
<1> SUFFICES ASSUME Init PROVE IInv
  OBVIOUS
<1> USE HooksAssumption, NoneAssumption DEF Init
<1>1. TypeOK
  BY DEF TypeOK, Hooks, CallbackAt, RequestAt, Phases
<1>2. Made /\ Filed /\ Carried /\ HeldIsUndrained /\ RestIsDrained
  BY DEF Made, Filed, Carried, HeldIsUndrained, RestIsDrained, Undrained, Held,
         Closing
<1>3. DrainedAtMostOnce /\ Redeemed /\ RedeemedOnce /\ Stopped
  BY DEF DrainedAtMostOnce, Redeemed, RedeemedOnce, Stopped
<1> QED BY <1>1, <1>2, <1>3 DEF IInv

\* Every step keeps the invariant.
LEMMA StepHolds == IInv /\ [Next]_vars => IInv'
<1> SUFFICES ASSUME IInv, [Next]_vars PROVE IInv'
  OBVIOUS
<1>1. TypeOK'
  BY TypeStep DEF IInv
<1>2. ASSUME NEW st \in Ceremonies, Login(st) PROVE IInv'
  BY <1>1, <1>2, LoginStep
<1>3. ASSUME NEW c \in Callbacks, NEW st \in Ceremonies, Redeem(c, st) PROVE IInv'
  BY <1>1, <1>3, RedeemStep
<1>4. ASSUME NEW c \in Callbacks, CallbackStep(c) PROVE IInv'
  BY <1>1, <1>4, ExchangeStep, HookOpensStep, HookFailsStep, AdmitStep
     DEF CallbackStep
<1>5. ASSUME NEW r \in Requests, NEW c \in Callbacks, Lookup(r, c) PROVE IInv'
  BY <1>1, <1>5, LookupStep
<1>6. ASSUME NEW r \in Requests, RequestStep(r) \/ Answer(r) PROVE IInv'
  <2>1. CASE Drop(r) BY <1>1, <2>1, DropStep
  <2>2. CASE Close(r) BY <1>1, <2>2, CloseStep
  <2>3. CASE \/ BearerLiving(r) \/ BearerSpent(r) \/ BearerAsks(r)
             \/ Renewed(r) \/ RenewalFails(r) \/ Answer(r)
    <3>1. /\ at[r] \notin {"idle", "closing"}
          /\ at' = [at EXCEPT ![r] = at'[r]] /\ at'[r] # "closing"
          /\ UNCHANGED <<minted, pending, cb, ceremony, hook, attached, drains,
                         sessions, carries, phase>>
      BY <2>3 DEF BearerLiving, BearerSpent, BearerAsks, Renewed, RenewalFails,
                  Answer, Moves, cbVars, grantVars, IInv, TypeOK
    <3> QED BY <1>1, <3>1, QuietStep DEF IInv, TypeOK
  <2> QED BY <1>6, <2>1, <2>2, <2>3 DEF RequestStep
<1>7. ASSUME NEW c \in Callbacks, Logout(c) PROVE IInv'
  BY <1>1, <1>7, SignOutStep, {c} \in SUBSET sessions
     DEF Logout, cbVars, grantVars, reqVars, IInv, Stopped
<1>8. ASSUME NEW c \in Callbacks,
             TokenExpires(c) \/ GrantEnds(c) \/ AttachmentRenews(c)
      PROVE  IInv'
  BY <1>1, <1>8, QuietStep
     DEF TokenExpires, GrantEnds, AttachmentRenews, cbVars, reqVars
<1>9. CASE Stop
  BY <1>1, <1>9, QuietStep DEF Stop, cbVars, grantVars, reqVars
<1>10. CASE ShutdownReturns \/ ServeFails
  <2>1. sessions \in SUBSET sessions /\ sessions' = sessions \ sessions
    BY <1>10 DEF ShutdownReturns, ServeFails, CloseAllSessions
  <2> QED BY <1>1, <1>10, <2>1, SignOutStep
          DEF ShutdownReturns, ServeFails, CloseAllSessions, cbVars, grantVars,
              reqVars
<1>11. CASE UNCHANGED vars
  BY <1>1, <1>11, QuietStep DEF vars, cbVars, grantVars, reqVars
<1> QED BY <1>2, <1>3, <1>4, <1>5, <1>6, <1>7, <1>8, <1>9, <1>10, <1>11 DEF Next

\* The inductive invariant holds in every reachable state.
THEOREM Invariance == Spec => []IInv
BY InitHolds, StepHolds, PTL DEF Spec

-----------------------------------------------------------------------------
(* What follows from it. *)

\* No attachment is drained twice, whoever races to close its session.
THEOREM NeverDrainedTwice == Spec => []DrainedAtMostOnce
<1>1. IInv => DrainedAtMostOnce
  BY DEF IInv
<1> QED BY <1>1, Invariance, PTL

\* Whatever is open is held by the map, by its own callback, or by the request
\* that is closing it.
THEOREM NothingOrphaned == Spec => []NoOrphanedAttachment
<1>1. IInv => NoOrphanedAttachment
  <2> SUFFICES ASSUME IInv, NEW c \in Callbacks, Open(c) # {} PROVE Held(c)
    BY DEF NoOrphanedAttachment, Held, Closing
  <2>1. PICK h \in attached[c] : drains[c][h] = 0
    BY DEF Open
  <2> QED BY <2>1 DEF IInv, RestIsDrained
<1> QED BY <1>1, Invariance, PTL

\* A session in the map has everything its hooks opened, undrained.
THEOREM LookedUpWhole == Spec => []HeldIsWhole
<1>1. IInv => HeldIsWhole
  BY DEF IInv, HeldIsWhole, Open, Filed, HeldIsUndrained, Held, Undrained, TypeOK
<1> QED BY <1>1, Invariance, PTL

\* One oauth state signs in one session at most.
THEOREM StateRedeemedOnce == Spec => []RedeemedOnce
<1>1. IInv => RedeemedOnce
  BY DEF IInv
<1> QED BY <1>1, Invariance, PTL

\* Run that returned with no handler in flight left nothing open.
THEOREM CleanStop == Spec => []CleanStopDrains
<1>1. IInv => CleanStopDrains
  <2> SUFFICES ASSUME IInv, phase = "drained", NEW c \in Callbacks
               PROVE  Open(c) = {}
    BY DEF CleanStopDrains
  <2>1. ~Held(c)
    BY DEF IInv, Stopped, InFlight, Held, Closing
  <2> QED BY <2>1 DEF IInv, RestIsDrained, Open
<1> QED BY <1>1, Invariance, PTL

-----------------------------------------------------------------------------
(* Sessions implements Admission: every step is a step of the promise, for   *)
(* the session it is about, or leaves what the promise speaks of alone.      *)

PromiseStep == [Promise!Next]_(Promise!vars)

\* A step that leaves callbacks, map, attachments and drains alone is a stutter.
LEMMA StutterStep ==
  ASSUME UNCHANGED <<cb, sessions, attached, drains>>
  PROVE  PromiseStep
<1>1. ASSUME NEW c \in Callbacks PROVE Life(c)' = Life(c) /\ Open(c)' = Open(c)
  BY DEF Life, Open
<1> QED BY <1>1 DEF PromiseStep, Promise!vars

\* What a session not yet held by the map has open is what its hooks opened.
LEMMA OpenIsAttached ==
  ASSUME IInv, NEW c \in Callbacks, Undrained(c)
  PROVE  Open(c) = attached[c]
BY DEF IInv, TypeOK, Open, Undrained

\* The promise of one session refused before it was in.
LEMMA RefusesStep ==
  ASSUME NEW c \in Callbacks,
         Life(c) = "out", Life(c)' = "over", Open(c)' = {},
         \A d \in Callbacks : d # c => Life(d)' = Life(d) /\ Open(d)' = Open(d)
  PROVE  PromiseStep
<1>1. Promise!Refuses(c)
  BY DEF Promise!Refuses
<1> QED BY <1>1 DEF PromiseStep, Promise!Next

\* Sessions taken from the map, drained in the same step or not.
LEMMA EndsStep ==
  ASSUME NEW S \in SUBSET Callbacks, NEW drained \in BOOLEAN,
         \A c \in S : Life(c) = "in" /\ Life(c)' = "over",
         \A c \in S : Open(c)' = IF drained THEN {} ELSE Open(c),
         \A d \in Callbacks \ S : Life(d)' = Life(d) /\ Open(d)' = Open(d)
  PROVE  PromiseStep
<1>1. Promise!Ends(S, drained)
  BY DEF Promise!Ends
<1> QED BY <1>1 DEF PromiseStep, Promise!Next

\* closeSession leaves a session that was undrained nothing open, and the
\* others what they had.
LEMMA CloseSessionOpens ==
  ASSUME IInv, NEW S \in SUBSET Callbacks, CloseSession(S), UNCHANGED attached
  PROVE  /\ \A c \in S : Open(c)' = {}
         /\ \A d \in Callbacks \ S : Open(d)' = Open(d)
BY DEF CloseSession, Open, IInv, TypeOK

\* The whole map, or one session of it, closed and deleted in one step.
LEMMA SignOutEnds ==
  ASSUME IInv, NEW S \in SUBSET sessions, CloseSession(S),
         sessions' = sessions \ S, UNCHANGED <<cb, attached>>
  PROVE  PromiseStep
<1>1. S \in SUBSET Callbacks
  BY DEF IInv, TypeOK
<1>2. \A c \in S : Life(c) = "in" /\ Life(c)' = "over"
  BY <1>1 DEF Life, IInv, Filed
<1>3. \A d \in Callbacks \ S : Life(d)' = Life(d)
  BY DEF Life
<1> QED BY <1>1, <1>2, <1>3, CloseSessionOpens, EndsStep

\* Every step keeps what custody promises of a session.
LEMMA PromiseHolds ==
  ASSUME IInv, [Next]_vars
  PROVE  PromiseStep
<1>1. ASSUME NEW st \in Ceremonies, Login(st) PROVE PromiseStep
  BY <1>1, StutterStep DEF Login, cbVars
<1>2. ASSUME NEW c \in Callbacks, NEW st \in Ceremonies, Redeem(c, st)
      PROVE  PromiseStep
  <2>1. Life(c) = "out" /\ c \notin sessions /\ Open(c) = {}
    BY <1>2 DEF Redeem, Life, IInv, Filed, Made, Open
  <2>2. \A d \in Callbacks : /\ Open(d)' = Open(d)
                             /\ d # c => Life(d)' = Life(d)
    BY <1>2 DEF Redeem, Life, Open, IInv, TypeOK
  <2>3. CASE st \in pending
    <3>1. Life(c)' = Life(c)
      BY <1>2, <2>1, <2>3 DEF Redeem, Life, IInv, TypeOK
    <3> QED BY <3>1, <2>2 DEF PromiseStep, Promise!vars
  <2>4. CASE st \notin pending
    <3>1. Life(c)' = "over"
      BY <1>2, <2>1, <2>4 DEF Redeem, Life, IInv, TypeOK
    <3> QED BY <3>1, <2>1, <2>2, RefusesStep
  <2> QED BY <2>3, <2>4
<1>3. ASSUME NEW c \in Callbacks, CallbackStep(c) PROVE PromiseStep
  <2>1. /\ c \notin sessions /\ cb[c] \in {"exchange", "hooks"}
        /\ Life(c) = "out" /\ Undrained(c)
    BY <1>3 DEF CallbackStep, ExchangeFails, Exchanged, HookOpens, HookFails,
                Admit, Life, IInv, Filed, Made, HeldIsUndrained, Held
  <2>2. ASSUME ExchangeFails(c) PROVE PromiseStep
    <3>1. Life(c)' = "over" /\ Open(c)' = {}
      BY <2>1, <2>2 DEF ExchangeFails, Life, Open, IInv, TypeOK, Made
    <3>2. \A d \in Callbacks : d # c => Life(d)' = Life(d) /\ Open(d)' = Open(d)
      BY <2>2 DEF ExchangeFails, Life, Open, IInv, TypeOK
    <3> QED BY <2>1, <3>1, <3>2, RefusesStep
  <2>3. ASSUME Exchanged(c) PROVE PromiseStep
    <3>1. \A d \in Callbacks : Life(d)' = Life(d) /\ Open(d)' = Open(d)
      BY <2>1, <2>3 DEF Exchanged, Life, Open, IInv, TypeOK
    <3> QED BY <3>1 DEF PromiseStep, Promise!vars
  <2>4. ASSUME HookOpens(c) PROVE PromiseStep
    <3>1. hook[c] \in Promise!Hooks /\ attached[c] = 1 .. (hook[c] - 1)
      BY <2>4 DEF HookOpens, IInv, Made, Hooks, Promise!Hooks
    <3>2. Open(c) = 1 .. (hook[c] - 1)
      BY <2>1, <3>1, OpenIsAttached
    <3>3. Open(c)' = 1 .. hook[c]
      <4>1. attached'[c] = 1 .. hook[c]
        BY <2>4, <3>1, HooksAssumption DEF HookOpens, Hooks, IInv, TypeOK
      <4> QED BY <2>1, <2>4, <4>1 DEF HookOpens, Open, Undrained, IInv, TypeOK, Hooks
    <3>4. \A d \in Callbacks : /\ Life(d)' = Life(d)
                               /\ d # c => Open(d)' = Open(d)
      BY <2>4 DEF HookOpens, Life, Open, IInv, TypeOK
    <3>5. Promise!Opens(c)
      BY <2>1, <3>1, <3>2, <3>3, <3>4 DEF Promise!Opens
    <3> QED BY <3>5 DEF PromiseStep, Promise!Next
  <2>5. ASSUME HookFails(c) PROVE PromiseStep
    <3>1. Life(c)' = "over"
      BY <2>1, <2>5 DEF HookFails, Life, IInv, TypeOK
    <3>2. Open(c)' = {} /\ \A d \in Callbacks : d # c => Open(d)' = Open(d)
      BY <2>5, CloseSessionOpens, {c} \in SUBSET Callbacks DEF HookFails
    <3>3. \A d \in Callbacks : d # c => Life(d)' = Life(d)
      BY <2>5 DEF HookFails, Life, IInv, TypeOK
    <3> QED BY <2>1, <3>1, <3>2, <3>3, RefusesStep
  <2>6. ASSUME Admit(c) PROVE PromiseStep
    <3>1. Open(c) = Promise!Hooks
      <4>1. hook[c] = NHooks + 1
        BY <2>6, HooksAssumption DEF Admit, IInv, TypeOK, Hooks
      <4>2. attached[c] = Hooks
        BY <2>6, <4>1, HooksAssumption DEF Admit, IInv, Made, Hooks
      <4> QED BY <2>1, <4>2, OpenIsAttached DEF Hooks, Promise!Hooks
    <3>2. Life(c)' = "in" /\ \A d \in Callbacks : Open(d)' = Open(d)
      BY <2>6 DEF Admit, Life, Open
    <3>3. \A d \in Callbacks : d # c => Life(d)' = Life(d)
      BY <2>6 DEF Admit, Life, IInv, TypeOK
    <3>4. Promise!Admits(c)
      BY <2>1, <3>1, <3>2, <3>3 DEF Promise!Admits
    <3> QED BY <3>4 DEF PromiseStep, Promise!Next
  <2> QED BY <1>3, <2>2, <2>3, <2>4, <2>5, <2>6 DEF CallbackStep
<1>4. ASSUME NEW r \in Requests, NEW c \in Callbacks, Lookup(r, c)
      PROVE  PromiseStep
  BY <1>4, StutterStep DEF Lookup, cbVars
<1>5. ASSUME NEW r \in Requests, RequestStep(r) \/ Answer(r) PROVE PromiseStep
  <2>1. CASE Drop(r)
    <3>1. CASE carries[r] \in sessions
      <4>1. PICK c \in Callbacks : c = carries[r]
        BY <3>1 DEF IInv, TypeOK
      <4>2. Life(c) = "in" /\ Life(c)' = "over"
        BY <2>1, <3>1, <4>1 DEF Drop, cbVars, Life, IInv, Filed
      <4>3. \A d \in Callbacks : /\ d # c => Life(d)' = Life(d)
                                 /\ Open(d)' = Open(d)
        BY <2>1, <4>1 DEF Drop, cbVars, Life, Open
      <4>4. \A d \in {c} : Open(d)' = IF FALSE THEN {} ELSE Open(d)
        BY <4>3
      <4>5. \A d \in Callbacks \ {c} : Life(d)' = Life(d) /\ Open(d)' = Open(d)
        BY <4>3
      <4>6. \A d \in {c} : Life(d) = "in" /\ Life(d)' = "over"
        BY <4>2
      <4> QED BY <4>4, <4>5, <4>6, EndsStep, {c} \in SUBSET Callbacks
    <3>2. CASE carries[r] \notin sessions
      BY <2>1, <3>2, StutterStep DEF Drop, cbVars
    <3> QED BY <3>1, <3>2
  <2>2. CASE Close(r)
    <3>1. carries[r] \in Callbacks /\ Life(carries[r]) = "over"
      BY <2>2 DEF Close, Life, IInv, Carried
    <3>2. PICK c \in Callbacks : c = carries[r]
      BY <3>1
    <3>3. Open(c)' = {} /\ \A d \in Callbacks : d # c => Open(d)' = Open(d)
      BY <2>2, <3>2, CloseSessionOpens, {c} \in SUBSET Callbacks DEF Close
    <3>4. \A d \in Callbacks : Life(d)' = Life(d)
      BY <2>2 DEF Close, cbVars, Life
    <3>5. Promise!Drains(c)
      BY <3>1, <3>2, <3>3, <3>4 DEF Promise!Drains
    <3> QED BY <3>5 DEF PromiseStep, Promise!Next
  <2>3. CASE BearerLiving(r) \/ BearerSpent(r) \/ BearerAsks(r) \/ Renewed(r)
             \/ RenewalFails(r) \/ Answer(r)
    BY <2>3, StutterStep DEF BearerLiving, BearerSpent, BearerAsks, Renewed,
                             RenewalFails, Answer, cbVars
  <2> QED BY <1>5, <2>1, <2>2, <2>3 DEF RequestStep
<1>6. ASSUME NEW c \in Callbacks, Logout(c) PROVE PromiseStep
  BY <1>6, SignOutEnds, {c} \in SUBSET sessions DEF Logout, cbVars
<1>7. ASSUME NEW c \in Callbacks,
             TokenExpires(c) \/ GrantEnds(c) \/ AttachmentRenews(c)
      PROVE  PromiseStep
  BY <1>7, StutterStep DEF TokenExpires, GrantEnds, AttachmentRenews, cbVars
<1>8. CASE Stop
  BY <1>8, StutterStep DEF Stop, cbVars
<1>9. CASE ShutdownReturns \/ ServeFails
  <2>1. sessions \in SUBSET sessions /\ sessions' = sessions \ sessions
    BY <1>9 DEF ShutdownReturns, ServeFails, CloseAllSessions
  <2> QED BY <1>9, <2>1, SignOutEnds
          DEF ShutdownReturns, ServeFails, CloseAllSessions, cbVars
<1>10. CASE UNCHANGED vars
  BY <1>10, StutterStep DEF vars, cbVars
<1> QED BY <1>1, <1>2, <1>3, <1>4, <1>5, <1>6, <1>7, <1>8, <1>9, <1>10 DEF Next

\* The shell keeps its promise to the hooks (session.go, SessionHook): every
\* behaviour of Sessions is one of Admission.
THEOREM PromiseKept == Spec => KeepsPromise
<1>1. Init => Promise!Init
  BY DEF Init, Promise!Init, Life, Open
<1>2. IInv /\ [Next]_vars => [Promise!Next]_(Promise!vars)
  BY PromiseHolds DEF PromiseStep
<1> QED BY <1>1, <1>2, Invariance, PTL DEF Spec, KeepsPromise, Promise!Spec

-----------------------------------------------------------------------------
(* A refusal is learned under the session's lock and acted on under the       *)
(* shell's: that it is still true by then needs that nothing brings a refused *)
(* session back.                                                              *)

\* Whoever is asking the issuer asks alone, for a spent token it may renew; a
\* refusal stays true.
RefusedStaysOver ==
    /\ \A r \in Requests :
          at[r] = "renewing" => tok[carries[r]] = "spent" /\ renew[carries[r]]
    /\ \A q, r \in Requests :
          at[q] = "renewing" /\ at[r] = "renewing" /\ carries[q] = carries[r] => q = r
    /\ \A r \in Requests :
          at[r] = "refused" => ~Producible(carries[r]) \/ carries[r] \in lapsed

\* A step that raises no token of a session somebody asks for, or was refused,
\* and starts no asking or refusing.
LEMMA NoneRaised ==
  ASSUME RefusedStaysOver,
         \A r \in Requests : at'[r] \in {"renewing", "refused"} =>
             /\ at'[r] = at[r] /\ carries'[r] = carries[r]
             /\ tok'[carries[r]] = tok[carries[r]] \/ tok'[carries[r]] = "spent"
             /\ renew'[carries[r]] = renew[carries[r]]
             /\ honoured'[carries[r]] => honoured[carries[r]],
         lapsed \subseteq lapsed'
  PROVE  RefusedStaysOver'
<1>1. ASSUME NEW r \in Requests, at'[r] = "renewing"
      PROVE  at[r] = "renewing" /\ tok'[carries'[r]] = "spent" /\ renew'[carries'[r]]
  BY <1>1 DEF RefusedStaysOver
<1>2. \A q, r \in Requests :
        at'[q] = "renewing" /\ at'[r] = "renewing" /\ carries'[q] = carries'[r] => q = r
  BY DEF RefusedStaysOver
<1>3. ASSUME NEW r \in Requests, at'[r] = "refused"
      PROVE  Producible(carries[r])' => carries'[r] \in lapsed'
  BY <1>3 DEF RefusedStaysOver, Producible
<1> QED BY <1>1, <1>2, <1>3 DEF RefusedStaysOver

\* Every step keeps a refusal true.
LEMMA RefusalsKeep == IInv /\ RefusedStaysOver /\ [Next]_vars => RefusedStaysOver'
<1> SUFFICES ASSUME IInv, RefusedStaysOver, [Next]_vars PROVE RefusedStaysOver'
  OBVIOUS
<1>1. /\ at \in [Requests -> RequestAt] /\ carries \in [Requests -> Callbacks \cup {None}]
      /\ tok \in [Callbacks -> {"living", "spent"}] /\ renew \in [Callbacks -> BOOLEAN]
      /\ honoured \in [Callbacks -> BOOLEAN] /\ lapsed \subseteq Callbacks
  BY DEF IInv, TypeOK
<1>2. \A r \in Requests : at[r] # "idle" => carries[r] \in Callbacks /\ cb[carries[r]] = "done"
  BY DEF IInv, Carried
<1>3. ASSUME UNCHANGED <<grantVars, reqVars>> PROVE RefusedStaysOver'
  BY <1>3, NoneRaised DEF grantVars, reqVars
<1>4. CASE \/ \E st \in Ceremonies : Login(st)
         \/ \E c \in Callbacks, st \in Ceremonies : Redeem(c, st)
  BY <1>3, <1>4 DEF Login, Redeem
<1>5. ASSUME NEW c \in Callbacks, CallbackStep(c) PROVE RefusedStaysOver'
  <2>1. CASE Exchanged(c)
    <3>1. \A r \in Requests : at[r] # "idle" => carries[r] # c
      BY <1>2, <2>1 DEF Exchanged
    <3>2. /\ tok' = [tok EXCEPT ![c] = "living"] /\ UNCHANGED <<at, carries, lapsed>>
          /\ \E refresh \in BOOLEAN : /\ renew' = [renew EXCEPT ![c] = refresh]
                                      /\ honoured' = [honoured EXCEPT ![c] = refresh]
      BY <2>1 DEF Exchanged, reqVars
    <3>3. \A d \in Callbacks : d # c =>
            tok'[d] = tok[d] /\ renew'[d] = renew[d] /\ honoured'[d] = honoured[d]
      BY <1>1, <3>2
    <3> QED BY <1>2, <3>1, <3>2, <3>3, NoneRaised
  <2>2. CASE ~Exchanged(c)
    BY <1>3, <1>5, <2>2 DEF CallbackStep, ExchangeFails, HookOpens, HookFails, Admit
  <2> QED BY <2>1, <2>2
<1>6. ASSUME NEW r \in Requests, NEW to \in RequestAt, Moves(r, to), UNCHANGED grantVars,
             to \notin {"renewing", "refused"},
             \A q \in Requests : q # r => carries'[q] = carries[q]
      PROVE  RefusedStaysOver'
  <2>1. at'[r] = to /\ \A q \in Requests : q # r => at'[q] = at[q]
    BY <1>1, <1>6 DEF Moves
  <2> QED BY <1>6, <2>1, NoneRaised DEF grantVars
<1>7. ASSUME NEW r \in Requests, NEW c \in Callbacks, Lookup(r, c)
      PROVE  RefusedStaysOver'
  BY <1>1, <1>6, <1>7 DEF Lookup, RequestAt
<1>8. ASSUME NEW r \in Requests, RequestStep(r) \/ Answer(r)
      PROVE  RefusedStaysOver'
  <2>1. CASE BearerLiving(r) \/ Drop(r) \/ Close(r) \/ Answer(r)
    <3>1. PICK to \in {"served", "closing", "idle"} : Moves(r, to)
      BY <2>1 DEF BearerLiving, Drop, Close, Answer
    <3>2. UNCHANGED <<grantVars, carries>>
      BY <2>1 DEF BearerLiving, Drop, Close, Answer
    <3> QED BY <1>6, <3>1, <3>2 DEF RequestAt
  <2>2. ASSUME NEW to \in {"renewing", "refused"}, Moves(r, to),
               UNCHANGED <<tok, renew, honoured, carries>>, lapsed \subseteq lapsed',
               at[r] \in {"bearer", "renewing"},
               to = "renewing" => /\ tok[carries[r]] = "spent" /\ renew[carries[r]]
                                  /\ ~Locked(carries[r]),
               to = "refused" => ~Producible(carries[r]) \/ carries[r] \in lapsed'
        PROVE  RefusedStaysOver'
    <3>1. at'[r] = to /\ \A q \in Requests : q # r => at'[q] = at[q]
      BY <1>1, <2>2 DEF Moves
    <3>2. \A q \in Requests :
            at'[q] = "renewing" => tok'[carries'[q]] = "spent" /\ renew'[carries'[q]]
      BY <2>2, <3>1 DEF RefusedStaysOver
    <3>3. \A q, s \in Requests :
            at'[q] = "renewing" /\ at'[s] = "renewing" /\ carries'[q] = carries'[s] => q = s
      BY <2>2, <3>1 DEF RefusedStaysOver, Locked
    <3>4. \A q \in Requests : at'[q] = "refused" =>
            ~Producible(carries[q])' \/ carries'[q] \in lapsed'
      BY <2>2, <3>1 DEF RefusedStaysOver, Producible
    <3> QED BY <3>2, <3>3, <3>4 DEF RefusedStaysOver
  <2>3. CASE BearerSpent(r)
    BY <2>2, <2>3 DEF BearerSpent, Producible, grantVars
  <2>4. CASE BearerAsks(r)
    BY <2>2, <2>4 DEF BearerAsks, grantVars
  <2>5. CASE RenewalFails(r)
    <3>1. /\ at[r] = "renewing" /\ Moves(r, "refused")
          /\ lapsed' = lapsed \cup {c \in Callbacks : c = carries[r] /\ honoured[c]}
          /\ UNCHANGED <<tok, renew, honoured, carries>>
      BY <2>5 DEF RenewalFails
    <3>2. carries[r] \in Callbacks /\ tok[carries[r]] = "spent"
      BY <1>2, <3>1 DEF RefusedStaysOver
    <3>3. ~Producible(carries[r]) \/ carries[r] \in lapsed'
      BY <3>1, <3>2 DEF Producible
    <3> QED BY <2>2, <3>1, <3>3
  <2>6. CASE Renewed(r)
    <3>1. /\ at[r] = "renewing" /\ honoured[carries[r]] /\ Moves(r, "served")
          /\ tok' = [tok EXCEPT ![carries[r]] = "living"]
          /\ UNCHANGED <<renew, honoured, lapsed, carries>>
      BY <2>6 DEF Renewed
    <3>2. at'[r] = "served" /\ \A q \in Requests : q # r => at'[q] = at[q]
      BY <1>1, <3>1 DEF Moves
    <3>3. renew[carries[r]] /\ carries[r] \in Callbacks
      BY <1>2, <3>1 DEF RefusedStaysOver
    <3>4. \A q \in Requests : q # r /\ at[q] = "renewing" => carries[q] # carries[r]
      BY <3>1 DEF RefusedStaysOver
    <3>5. \A q \in Requests : at[q] = "refused" =>
            carries[q] # carries[r] \/ carries[q] \in lapsed
      BY <3>1, <3>3 DEF RefusedStaysOver, Producible
    <3>6. \A d \in Callbacks : d # carries[r] => tok'[d] = tok[d]
      BY <1>1, <3>1
    <3>7. \A q \in Requests :
            at'[q] = "renewing" => tok'[carries'[q]] = "spent" /\ renew'[carries'[q]]
      BY <1>2, <3>1, <3>2, <3>4, <3>6 DEF RefusedStaysOver
    <3>8. \A q, s \in Requests :
            at'[q] = "renewing" /\ at'[s] = "renewing" /\ carries'[q] = carries'[s] => q = s
      BY <3>1, <3>2 DEF RefusedStaysOver
    <3>9. \A q \in Requests : at'[q] = "refused" =>
            ~Producible(carries[q])' \/ carries'[q] \in lapsed'
      BY <1>2, <3>1, <3>2, <3>5, <3>6 DEF RefusedStaysOver, Producible
    <3> QED BY <3>7, <3>8, <3>9 DEF RefusedStaysOver
  <2> QED BY <1>8, <2>1, <2>3, <2>4, <2>5, <2>6 DEF RequestStep
<1>9. ASSUME NEW c \in Callbacks, Logout(c) PROVE RefusedStaysOver'
  BY <1>3, <1>9 DEF Logout
<1>10. ASSUME NEW c \in Callbacks, TokenExpires(c) \/ GrantEnds(c)
       PROVE  RefusedStaysOver'
  <2>1. /\ UNCHANGED <<at, carries, renew, lapsed>>
        /\ \A d \in Callbacks : /\ tok'[d] = tok[d] \/ tok'[d] = "spent"
                                /\ honoured'[d] => honoured[d]
    BY <1>1, <1>10 DEF TokenExpires, GrantEnds, reqVars
  <2> QED BY <1>2, <2>1, NoneRaised
<1>11. ASSUME NEW c \in Callbacks, AttachmentRenews(c)
       PROVE  RefusedStaysOver'
  <2>1. /\ ~Locked(c) /\ renew[c] /\ honoured[c]
        /\ tok' = [tok EXCEPT ![c] = "living"]
        /\ UNCHANGED <<at, carries, renew, honoured, lapsed>>
    BY <1>11 DEF AttachmentRenews, reqVars
  <2>2. \A d \in Callbacks : d # c => tok'[d] = tok[d]
    BY <1>1, <2>1
  <2>3. \A q \in Requests : at[q] = "renewing" => carries[q] # c
    BY <2>1 DEF Locked
  <2>4. \A q \in Requests : at[q] = "refused" => carries[q] # c \/ carries[q] \in lapsed
    BY <2>1 DEF RefusedStaysOver, Producible
  <2>5. \A q \in Requests :
          at'[q] = "renewing" => tok'[carries'[q]] = "spent" /\ renew'[carries'[q]]
    BY <1>2, <2>1, <2>2, <2>3 DEF RefusedStaysOver
  <2>6. \A q \in Requests : at'[q] = "refused" =>
          ~Producible(carries[q])' \/ carries'[q] \in lapsed'
    BY <1>2, <2>1, <2>2, <2>4 DEF RefusedStaysOver, Producible
  <2> QED BY <2>1, <2>5, <2>6 DEF RefusedStaysOver
<1>12. CASE Stop \/ ShutdownReturns \/ ServeFails \/ UNCHANGED vars
  BY <1>3, <1>12 DEF Stop, ShutdownReturns, ServeFails, CloseAllSessions, vars
<1> QED BY <1>4, <1>5, <1>7, <1>8, <1>9, <1>10, <1>11, <1>12 DEF Next

\* A request ends only a session for which no living credential can be had, or
\* for which a renewal failed while the issuer honoured its grant: whatever else
\* renews, expires or ends it between the refusal and the deletion.
THEOREM NeverEvictedEarly == Spec => EvictedOnlyWhenOver
<1>1. Init => RefusedStaysOver
  BY DEF Init, RefusedStaysOver
<1>2. RefusedStaysOver =>
        \A r \in Requests : at[r] = "refused" /\ at'[r] = "closing" =>
            ~Producible(carries[r]) \/ carries[r] \in lapsed
  BY DEF RefusedStaysOver
<1> QED BY <1>1, <1>2, RefusalsKeep, Invariance, PTL DEF Spec, EvictedOnlyWhenOver
=============================================================================
