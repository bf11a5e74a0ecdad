----------------------- MODULE AgentCredentialsProofs -----------------------
(***************************************************************************)
(* Proofs about AgentCredentials, for any number of acts under way at      *)
(* once, of handles and of people, whatever calls fail and whatever        *)
(* answers are lost.                                                       *)
(***************************************************************************)
EXTENDS AgentCredentials, TLAPS

-----------------------------------------------------------------------------
(* Where an act can stand, given its kind. *)

Kind ==
    \A a \in Acts :
        /\ at[a] \in {"lookup", "mint"} => kind[a] \in {"create", "remint"}
        /\ at[a] \in {"standing", "revoke"} => kind[a] \in {"remint", "takeaway"}
        /\ at[a] \in {"connect", "publish", "undo"} => kind[a] = "create"
        /\ kind[a] = "takeaway" => a \notin minted
        /\ at[a] # "new" => handle[a] \in Handles
        /\ at[a] # "new" /\ kind[a] = "create" => by[a] \in People

\* An act that made nothing yet has no token, one that made its token has.
Fresh ==
    \A a \in Acts :
        /\ at[a] \in {"new", "lookup", "standing", "mint"} => a \notin minted
        /\ at[a] \in {"connect", "publish", "undo"} => a \in minted
        /\ at[a] = "revoke" /\ kind[a] = "remint" => a \in minted
        /\ at[a] = "new" => a \notin told

\* What an act read is another act's token, of the same handle.
Read ==
    \A a \in Acts :
        /\ at[a] \in {"new", "lookup"} \/ kind[a] = "create" => old[a] = None
        /\ at[a] = "revoke" => old[a] # None
        /\ old[a] # None => old[a] \in minted /\ handle[old[a]] = handle[a]

\* A token that nobody revoked stands.
Stands == \A t \in minted : gone[t] = "no" => t \in accepted

\* A token was replaced by one made by whoever had read it
Replaced == \A t \in Acts : gone[t] = "replaced" => \E s \in minted : old[s] = t

\* and replacing is not circular: in any set of tokens is one that none of the
\* others was made to replace, the newest for instance.
ReplacingEnds ==
    \A S \in SUBSET minted : S # {} => \E t \in S : \A s \in S : old[s] # t

\* What holds however acts overlap and whatever answers are lost.
Always ==
    TypeOK /\ Kind /\ Fresh /\ Read /\ Stands /\ Replaced /\ ReplacingEnds

-----------------------------------------------------------------------------
(* As long as every answer arrives. *)

\* The two halves of NothingHalfMade: of tokens, and of cards.
Held == \A t \in accepted : ~Finished(t) \/ t \in given \cup told

Vouched ==
    \A h \in Handles : card[h] # None =>
        \E a \in given : kind[a] = "create" /\ handle[a] = h /\ by[a] = card[h]

\* Whoever was handed a credential has one for an agent on the record, and it
\* was there when a Remint began.
OnRecord ==
    /\ \A t \in given : card[handle[t]] # None
    /\ \A a \in Acts :
        kind[a] = "remint" /\ at[a] \in {"standing", "mint", "revoke"}
            => card[handle[a]] # None

-----------------------------------------------------------------------------
(* As long as, besides, the acts come one after the other. *)

Alone ==
    ~overlapped =>
        \A a, b \in Acts : ~Finished(a) /\ ~Finished(b) => a = b

ToldOf(h) == \E b \in told : handle[b] = h

\* No two tokens of a handle stand, but a new one and the one it replaces.
OneStands ==
    ~overlapped /\ ~lost =>
        \A h \in Handles :
            ToldOf(h) \/ \A t, u \in Standing(h) :
                \/ t = u
                \/ at[t] = "revoke" /\ old[t] = u
                \/ at[u] = "revoke" /\ old[u] = t

\* What an act read is still what stands.
StillStands ==
    ~overlapped /\ ~lost =>
        \A a \in Acts :
            at[a] = "mint" \/ (at[a] = "revoke" /\ kind[a] = "takeaway") =>
                ToldOf(handle[a]) \/ Standing(handle[a]) \subseteq {old[a]}

InTurn == Alone /\ OneStands /\ StillStands

IInv == Always /\ NothingHalfMade /\ OnRecord /\ InTurn

-----------------------------------------------------------------------------
(* What holds always. *)

\* A call that failed to revoke may have worked all the same.
LEMMA RevokeMayWork ==
  ASSUME Kind, NEW a \in Acts, RevokeFails(a)
  PROVE  \/ UNCHANGED <<accepted, gone, lost>>
         \/ /\ lost' = TRUE
            /\ \/ at[a] = "undo" /\ Revoked(a, "undone")
               \/ at[a] = "revoke" /\ kind[a] = "remint" /\ Revoked(old[a], "replaced")
               \/ at[a] = "revoke" /\ kind[a] = "takeaway" /\ Revoked(old[a], "taken")
<1>1. CASE at[a] = "undo"
  BY <1>1 DEF Kind, RevokeFails, AnswerLost, Revoked
<1>2. CASE at[a] = "revoke" /\ kind[a] = "remint"
  BY <1>2 DEF RevokeFails, AnswerLost, Revoked
<1>3. CASE at[a] = "revoke" /\ kind[a] = "takeaway"
  BY <1>3 DEF RevokeFails, AnswerLost, Revoked
<1> QED BY <1>1, <1>2, <1>3 DEF RevokeFails, Goes, Kind

\* Every variable keeps its type.
LEMMA TypeStep ==
  ASSUME TypeOK, Kind, Fresh, Read, [Next]_vars PROVE TypeOK'
<1> USE NoneAssumption DEF TypeOK, ActAt, Kinds
<1>1. ASSUME NEW a \in Acts, NEW k \in Kinds, NEW h \in Handles, NEW p \in People,
             Begins(a, k, h, p)
      PROVE  TypeOK'
  BY <1>1 DEF Begins, storeVars
<1>2. ASSUME NEW a \in Acts, Step(a) PROVE TypeOK'
  <2> USE DEF Goes, AnswerLost, storeVars
  <2>1. CASE Refused(a) BY <2>1 DEF Refused
  <2>2. CASE LooksUp(a) BY <2>2 DEF LooksUp, Kind
  <2>3. CASE ReadsStanding(a) BY <2>3 DEF ReadsStanding, Standing, Kind
  <2>4. CASE Mints(a) BY <2>4 DEF Mints
  <2>5. CASE MintsUnanswered(a) BY <2>5 DEF MintsUnanswered
  <2>6. CASE Connects(a) BY <2>6 DEF Connects
  <2>7. CASE Publishes(a) BY <2>7 DEF Publishes, Kind, Fresh
  <2>8. CASE PublishesUnanswered(a) BY <2>8 DEF PublishesUnanswered
  <2>9. CASE FoundFails(a) BY <2>9 DEF FoundFails
  <2>10. CASE Undoes(a) BY <2>10 DEF Undoes, Revoked
  <2>11. CASE Revokes(a) BY <2>11 DEF Revokes, Revoked, Kind, Fresh
  <2>12. CASE RevokeFails(a)
    <3>1. at' \in [Acts -> ActAt] /\ given' \subseteq minted
      BY <2>12 DEF RevokeFails, Kind, Fresh
    <3>2. /\ accepted' \subseteq accepted /\ lost' \in BOOLEAN
          /\ gone' \in [Acts -> {"no", "undone", "replaced", "taken"}]
      <4>1. CASE UNCHANGED <<accepted, gone, lost>>
        BY <4>1
      <4>2. ASSUME NEW t, NEW why \in {"undone", "replaced", "taken"},
                   lost' = TRUE, Revoked(t, why)
            PROVE  /\ accepted' \subseteq accepted /\ lost' \in BOOLEAN
                   /\ gone' \in [Acts -> {"no", "undone", "replaced", "taken"}]
        BY <4>2 DEF Revoked
      <4> QED BY <4>1, <4>2, <2>12, RevokeMayWork
    <3> QED BY <2>12, <3>1, <3>2 DEF RevokeFails
  <2> QED BY <1>2, <2>1, <2>2, <2>3, <2>4, <2>5, <2>6, <2>7, <2>8, <2>9, <2>10,
             <2>11, <2>12 DEF Step
<1>3. CASE UNCHANGED vars BY <1>3 DEF vars, storeVars, actVars
<1> QED BY <1>1, <1>2, <1>3 DEF Next

\* Where acts stand.
LEMMA StageStep ==
  ASSUME TypeOK, Kind, Fresh, Read, [Next]_vars PROVE Kind' /\ Fresh'
<1> USE NoneAssumption DEF TypeOK, ActAt, Kinds, Kind, Fresh
<1>1. ASSUME NEW a \in Acts, NEW k \in Kinds, NEW h \in Handles, NEW p \in People,
             Begins(a, k, h, p)
      PROVE  Kind' /\ Fresh'
  BY <1>1 DEF Begins, storeVars
<1>2. ASSUME NEW a \in Acts, Step(a) PROVE Kind' /\ Fresh'
  <2> USE DEF Goes, AnswerLost, storeVars
  <2>1. CASE Refused(a) BY <2>1 DEF Refused
  <2>2. CASE LooksUp(a) BY <2>2 DEF LooksUp
  <2>3. CASE ReadsStanding(a) BY <2>3 DEF ReadsStanding
  <2>4. CASE Mints(a) BY <2>4 DEF Mints
  <2>5. CASE MintsUnanswered(a) BY <2>5 DEF MintsUnanswered
  <2>6. CASE Connects(a) BY <2>6 DEF Connects
  <2>7. CASE Publishes(a) BY <2>7 DEF Publishes
  <2>8. CASE PublishesUnanswered(a) BY <2>8 DEF PublishesUnanswered
  <2>9. CASE FoundFails(a) BY <2>9 DEF FoundFails
  <2>10. CASE Undoes(a) BY <2>10 DEF Undoes, Revoked
  <2>11. CASE Revokes(a) BY <2>11 DEF Revokes, Revoked
  <2>12. CASE RevokeFails(a) BY <2>12 DEF RevokeFails, Revoked
  <2> QED BY <1>2, <2>1, <2>2, <2>3, <2>4, <2>5, <2>6, <2>7, <2>8, <2>9, <2>10,
             <2>11, <2>12 DEF Step
<1>3. CASE UNCHANGED vars BY <1>3 DEF vars, storeVars, actVars
<1> QED BY <1>1, <1>2, <1>3 DEF Next

\* What acts read.
LEMMA ReadStep ==
  ASSUME TypeOK, Kind, Fresh, Read, [Next]_vars PROVE Read'
<1> USE NoneAssumption DEF TypeOK, ActAt, Kinds, Read
<1>1. ASSUME NEW a \in Acts, NEW k \in Kinds, NEW h \in Handles, NEW p \in People,
             Begins(a, k, h, p)
      PROVE  Read'
  BY <1>1 DEF Begins, storeVars, Fresh
<1>2. ASSUME NEW a \in Acts, Step(a) PROVE Read'
  <2> USE DEF Goes, AnswerLost, storeVars
  <2>1. CASE Refused(a) BY <2>1 DEF Refused
  <2>2. CASE LooksUp(a) BY <2>2 DEF LooksUp, Kind
  <2>3. CASE ReadsStanding(a) BY <2>3 DEF ReadsStanding, Standing, Kind
  <2>4. CASE Mints(a) BY <2>4 DEF Mints, Kind
  <2>5. CASE MintsUnanswered(a) BY <2>5 DEF MintsUnanswered
  <2>6. CASE Connects(a) BY <2>6 DEF Connects
  <2>7. CASE Publishes(a) BY <2>7 DEF Publishes
  <2>8. CASE PublishesUnanswered(a) BY <2>8 DEF PublishesUnanswered
  <2>9. CASE FoundFails(a) BY <2>9 DEF FoundFails
  <2>10. CASE Undoes(a) BY <2>10 DEF Undoes
  <2>11. CASE Revokes(a) BY <2>11 DEF Revokes
  <2>12. CASE RevokeFails(a) BY <2>12 DEF RevokeFails
  <2> QED BY <1>2, <2>1, <2>2, <2>3, <2>4, <2>5, <2>6, <2>7, <2>8, <2>9, <2>10,
             <2>11, <2>12 DEF Step
<1>3. CASE UNCHANGED vars BY <1>3 DEF vars, storeVars, actVars
<1> QED BY <1>1, <1>2, <1>3 DEF Next

\* A step that makes no token and changes no reason: what was said of the tokens
\* stays so, for an act reads before it makes one.
LEMMA TokensKept ==
  ASSUME Stands, Replaced, ReplacingEnds, UNCHANGED <<accepted, minted, gone>>,
         \A t \in minted : old'[t] = old[t]
  PROVE  Stands' /\ Replaced' /\ ReplacingEnds'
BY DEF Stands, Replaced, ReplacingEnds

\* A new token replaces others, and none was made to replace it.
LEMMA TokenMade ==
  ASSUME TypeOK, Read, Stands, Replaced, ReplacingEnds, NEW a \in Acts, a \notin minted,
         accepted' = accepted \cup {a}, minted' = minted \cup {a}, UNCHANGED <<gone, old>>
  PROVE  Stands' /\ Replaced' /\ ReplacingEnds'
<1>1. Stands' /\ Replaced'
  BY DEF Stands, Replaced
<1>2. ReplacingEnds'
  <2> SUFFICES ASSUME NEW S \in SUBSET minted', S # {}
               PROVE  \E t \in S : \A s \in S : old'[s] # t
    BY DEF ReplacingEnds
  <2>1. CASE a \in S
    <3>1. \A s \in S : old[s] # a
      BY NoneAssumption DEF TypeOK, Read
    <3> QED BY <2>1, <3>1
  <2>2. CASE a \notin S
    <3>1. S \in SUBSET minted
      BY <2>2
    <3> QED BY <3>1 DEF ReplacingEnds
  <2> QED BY <2>1, <2>2
<1> QED BY <1>1, <1>2

\* A revoked token is replaced only by one whose act had read it.
LEMMA TokenRevoked ==
  ASSUME TypeOK, Stands, Replaced, ReplacingEnds,
         NEW t, NEW why \in {"undone", "replaced", "taken"}, Revoked(t, why), UNCHANGED <<minted, old>>,
         why = "replaced" => \E s \in minted : old[s] = t
  PROVE  Stands' /\ Replaced' /\ ReplacingEnds'
<1>1. Stands'
  BY DEF Stands, Revoked, TypeOK
<1>2. Replaced'
  BY DEF Replaced, Revoked, TypeOK
<1> QED BY <1>1, <1>2 DEF ReplacingEnds

\* Each step keeps what is said of the tokens.
LEMMA TokensStep ==
  ASSUME Always, [Next]_vars PROVE Stands' /\ Replaced' /\ ReplacingEnds'
<1> USE DEF Always
<1>1. ASSUME NEW a \in Acts, NEW k \in Kinds, NEW h \in Handles, NEW p \in People,
             Begins(a, k, h, p)
      PROVE  Stands' /\ Replaced' /\ ReplacingEnds'
  BY <1>1, TokensKept DEF Begins, storeVars
<1>2. ASSUME NEW a \in Acts, Step(a) PROVE Stands' /\ Replaced' /\ ReplacingEnds'
  <2>1. CASE Refused(a) \/ LooksUp(a) \/ Connects(a) \/ Publishes(a)
             \/ PublishesUnanswered(a) \/ FoundFails(a)
    BY <2>1, TokensKept
       DEF Refused, LooksUp, Connects, Publishes, PublishesUnanswered, FoundFails, storeVars
  <2>2. CASE ReadsStanding(a)
    <3>1. \A t \in minted : old'[t] = old[t]
      BY <2>2 DEF ReadsStanding, Goes, Fresh, TypeOK
    <3> QED BY <2>2, <3>1, TokensKept DEF ReadsStanding, storeVars
  <2>3. CASE Mints(a) \/ MintsUnanswered(a)
    <3>1. a \notin minted
      BY <2>3 DEF Mints, MintsUnanswered, Goes, Fresh
    <3> QED BY <2>3, <3>1, TokenMade DEF Mints, MintsUnanswered
  <2>4. CASE Undoes(a)
    BY <2>4, TokenRevoked DEF Undoes
  <2>5. CASE Revokes(a)
    <3>1. CASE kind[a] = "remint"
      <4>1. a \in minted /\ Revoked(old[a], "replaced")
        BY <2>5, <3>1 DEF Revokes, Goes, Fresh, Revoked
      <4> QED BY <2>5, <4>1, TokenRevoked DEF Revokes
    <3>2. CASE kind[a] # "remint"
      <4>1. Revoked(old[a], "taken")
        BY <2>5, <3>2 DEF Revokes, Revoked
      <4> QED BY <2>5, <4>1, TokenRevoked DEF Revokes
    <3> QED BY <3>1, <3>2
  <2>6. CASE RevokeFails(a)
    <3>1. UNCHANGED <<minted, old>>
      BY <2>6 DEF RevokeFails
    <3>2. CASE UNCHANGED <<accepted, gone>>
      BY <3>1, <3>2, TokensKept
    <3>3. CASE at[a] = "revoke" /\ kind[a] = "remint" /\ Revoked(old[a], "replaced")
      <4>1. a \in minted
        BY <3>3 DEF Fresh
      <4> QED BY <3>1, <3>3, <4>1, TokenRevoked
    <3>4. CASE Revoked(a, "undone")
      BY <3>1, <3>4, TokenRevoked
    <3>5. CASE Revoked(old[a], "taken")
      BY <3>1, <3>5, TokenRevoked
    <3> QED BY <2>6, <3>2, <3>3, <3>4, <3>5, RevokeMayWork
  <2> QED BY <1>2, <2>1, <2>2, <2>3, <2>4, <2>5, <2>6 DEF Step
<1>3. CASE UNCHANGED vars
  BY <1>3, TokensKept DEF vars, storeVars, actVars
<1> QED BY <1>1, <1>2, <1>3 DEF Next

\* Each step keeps what holds always, and the initial states have it.
LEMMA AlwaysStep == ASSUME Always, [Next]_vars PROVE Always'
BY TypeStep, StageStep, ReadStep, TokensStep DEF Always

\* Both parts hold at first: nothing was minted.
LEMMA AlwaysInit == Init => Always
<1> SUFFICES ASSUME Init PROVE Always
  OBVIOUS
<1>1. TypeOK
  BY DEF Init, TypeOK, ActAt, Kinds
<1>2. Kind /\ Fresh /\ Read
  BY NoneAssumption DEF Init, Kind, Fresh, Read
<1>3. Stands /\ Replaced /\ ReplacingEnds
  BY DEF Init, Stands, Replaced, ReplacingEnds
<1> QED BY <1>1, <1>2, <1>3 DEF Always

\* What holds always does, however acts overlap and whatever answers are lost.
THEOREM AlwaysSo == Spec => []Always
BY AlwaysInit, AlwaysStep, PTL DEF Spec

\* Every variable keeps its type; in particular nobody is handed a credential
\* that was never made.
THEOREM TypeCorrect == Spec => []TypeOK
<1>1. Always => TypeOK
  BY DEF Always
<1> QED BY <1>1, AlwaysSo, PTL

\* Handing out new credentials never locks an agent out, for any number of acts,
\* overlapping in any way.  Suppose every token made for a handle is gone and
\* every one was replaced: then each had a successor among them, which
\* ReplacingEnds denies.
THEOREM NeverLockedOut == Spec => []LockedOutOnPurposeOnly
<1>1. Always => LockedOutOnPurposeOnly
  <2> SUFFICES ASSUME Always, NEW h \in Handles,
                      NEW made, made = {t \in minted : handle[t] = h},
                      made # {}, Standing(h) = {},
                      \A t \in made : gone[t] \notin {"undone", "taken"}
               PROVE  FALSE
    BY DEF LockedOutOnPurposeOnly
  <2> USE DEF Always
  <2>1. \A t \in made : gone[t] = "replaced"
    BY DEF Stands, Standing, TypeOK
  <2>2. PICK t \in made : \A s \in made : old[s] # t
    BY DEF ReplacingEnds
  <2>3. PICK s \in minted : old[s] = t
    BY <2>1 DEF Replaced, TypeOK
  <2>4. s \in made
    BY <2>3, NoneAssumption DEF Read, TypeOK
  <2> QED BY <2>2, <2>3, <2>4
<1> QED BY <1>1, AlwaysSo, PTL

-----------------------------------------------------------------------------
(* What holds as long as every answer arrives. *)

\* A credential the plane accepts is held, or somebody was told of it.
LEMMA HeldStep ==
  ASSUME Always, ~lost, Held, [Next]_vars, ~lost' PROVE Held'
<1> USE NoneAssumption DEF Always, TypeOK, ActAt, Kinds, Held, Finished
<1>1. ASSUME NEW a \in Acts, NEW k \in Kinds, NEW h \in Handles, NEW p \in People,
             Begins(a, k, h, p)
      PROVE  Held'
  BY <1>1 DEF Begins, storeVars, Fresh
<1>2. ASSUME NEW a \in Acts, Step(a) PROVE Held'
  <2> USE DEF Goes, AnswerLost, storeVars
  <2>1. CASE Refused(a) BY <2>1 DEF Refused, Fresh
  <2>2. CASE LooksUp(a) BY <2>2 DEF LooksUp, Fresh, Kind
  <2>3. CASE ReadsStanding(a) BY <2>3 DEF ReadsStanding, Fresh, Kind
  <2>4. CASE Mints(a) BY <2>4 DEF Mints, Kind
  <2>5. CASE MintsUnanswered(a) BY <2>5 DEF MintsUnanswered
  <2>6. CASE Connects(a) BY <2>6 DEF Connects
  <2>7. CASE Publishes(a) BY <2>7 DEF Publishes
  <2>8. CASE PublishesUnanswered(a) BY <2>8 DEF PublishesUnanswered
  <2>9. CASE FoundFails(a) BY <2>9 DEF FoundFails
  <2>10. CASE Undoes(a) BY <2>10 DEF Undoes, Revoked
  <2>11. CASE Revokes(a) BY <2>11 DEF Revokes, Revoked, Kind
  <2>12. CASE RevokeFails(a) BY <2>12 DEF RevokeFails, Revoked
  <2> QED BY <1>2, <2>1, <2>2, <2>3, <2>4, <2>5, <2>6, <2>7, <2>8, <2>9, <2>10,
             <2>11, <2>12 DEF Step
<1>3. CASE UNCHANGED vars BY <1>3 DEF vars, storeVars, actVars
<1> QED BY <1>1, <1>2, <1>3 DEF Next

\* A card is that of somebody who was handed the agent's credential.
LEMMA VouchedStep ==
  ASSUME Always, ~lost, Vouched, [Next]_vars, ~lost' PROVE Vouched'
<1> USE DEF Always, TypeOK, Vouched
<1>1. ASSUME NEW a \in Acts, NEW k \in Kinds, NEW h \in Handles, NEW p \in People,
             Begins(a, k, h, p)
      PROVE  Vouched'
  BY <1>1 DEF Begins, storeVars, Fresh
<1>2. ASSUME NEW a \in Acts, Publishes(a) PROVE Vouched'
  BY <1>2 DEF Publishes, Goes, Kind
<1>3. ASSUME NEW a \in Acts, Step(a), ~Publishes(a) PROVE Vouched'
  <2>1. UNCHANGED <<card, kind, handle, by>> /\ given \subseteq given'
    BY <1>3 DEF Step, Refused, LooksUp, ReadsStanding, Mints, MintsUnanswered, Connects,
                PublishesUnanswered, FoundFails, Undoes, Revokes, RevokeFails,
                Goes, AnswerLost, storeVars
  <2> QED BY <2>1
<1>4. CASE UNCHANGED vars BY <1>4 DEF vars, storeVars, actVars
<1> QED BY <1>1, <1>2, <1>3, <1>4 DEF Next

\* No answer lost comes back.
LEMMA LostForGood == ASSUME lost, [Next]_vars PROVE lost'
BY DEF Next, Begins, Step, Refused, LooksUp, ReadsStanding, Mints, MintsUnanswered,
       Connects, Publishes, PublishesUnanswered, FoundFails, Undoes, Revokes, RevokeFails,
       AnswerLost, vars

\* Each step leaves nothing half-made.
LEMMA HalfMadeStep ==
  ASSUME Always, NothingHalfMade, [Next]_vars PROVE NothingHalfMade'
<1> SUFFICES ASSUME ~lost' PROVE Held' /\ Vouched'
  BY DEF NothingHalfMade, Held, Vouched
<1>1. ~lost /\ Held /\ Vouched
  BY LostForGood DEF NothingHalfMade, Held, Vouched
<1> QED BY <1>1, HeldStep, VouchedStep

\* No failure leaves anything half-made, for any number of acts, overlapping in
\* any way, as long as every answer arrives.
THEOREM NeverHalfMade == Spec => []NothingHalfMade
<1>1. Init => NothingHalfMade
  BY DEF Init, NothingHalfMade
<1> QED BY <1>1, AlwaysSo, HalfMadeStep, PTL DEF Spec

-----------------------------------------------------------------------------
(* What holds as long as the acts, besides, come one after the other. *)

\* Whoever was handed a credential has one for an agent on the record.
LEMMA OnRecordStep ==
  ASSUME Always, OnRecord, [Next]_vars PROVE OnRecord'
<1> USE NoneAssumption DEF Always, TypeOK, OnRecord
<1>1. ASSUME NEW a \in Acts, NEW k \in Kinds, NEW h \in Handles, NEW p \in People,
             Begins(a, k, h, p)
      PROVE  OnRecord'
  <2>1. kind'[a] = k /\ at'[a] = IF k = "takeaway" THEN "standing" ELSE "lookup"
    BY <1>1 DEF Begins
  <2> QED BY <1>1, <2>1 DEF Begins, storeVars, Fresh
<1>2. ASSUME NEW a \in Acts, Step(a) PROVE OnRecord'
  <2> USE DEF Goes, AnswerLost, storeVars
  <2>1. CASE Refused(a) BY <2>1 DEF Refused
  <2>2. CASE LooksUp(a) BY <2>2 DEF LooksUp, Kind
  <2>3. CASE ReadsStanding(a) BY <2>3 DEF ReadsStanding, Kind
  <2>4. CASE Mints(a) BY <2>4 DEF Mints, Kind
  <2>5. CASE MintsUnanswered(a) BY <2>5 DEF MintsUnanswered
  <2>6. CASE Connects(a) BY <2>6 DEF Connects
  <2>7. CASE Publishes(a) BY <2>7 DEF Publishes, Kind
  <2>8. CASE PublishesUnanswered(a) BY <2>8 DEF PublishesUnanswered, Kind
  <2>9. CASE FoundFails(a) BY <2>9 DEF FoundFails
  <2>10. CASE Undoes(a) BY <2>10 DEF Undoes
  <2>11. CASE Revokes(a) BY <2>11 DEF Revokes
  <2>12. CASE RevokeFails(a) BY <2>12 DEF RevokeFails
  <2> QED BY <1>2, <2>1, <2>2, <2>3, <2>4, <2>5, <2>6, <2>7, <2>8, <2>9, <2>10,
             <2>11, <2>12 DEF Step
<1>3. CASE UNCHANGED vars BY <1>3 DEF vars, storeVars, actVars
<1> QED BY <1>1, <1>2, <1>3 DEF Next

\* Acts that come one after the other are never two at once.
LEMMA AloneStep ==
  ASSUME TypeOK, Alone, [Next]_vars PROVE Alone'
<1> USE DEF TypeOK, Alone, Finished
<1>1. ASSUME NEW a \in Acts, NEW k \in Kinds, NEW h \in Handles, NEW p \in People,
             Begins(a, k, h, p)
      PROVE  Alone'
  BY <1>1 DEF Begins
<1>2. ASSUME NEW a \in Acts, Step(a) PROVE Alone'
  <2>1. /\ ~Finished(a) /\ UNCHANGED overlapped
        /\ \A b \in Acts : b # a => at'[b] = at[b]
    BY <1>2 DEF Step, Refused, LooksUp, ReadsStanding, Mints, MintsUnanswered, Connects,
                Publishes, PublishesUnanswered, FoundFails, Undoes, Revokes, RevokeFails, Goes
  <2> QED BY <2>1
<1>3. CASE UNCHANGED vars BY <1>3 DEF vars, storeVars, actVars
<1> QED BY <1>1, <1>2, <1>3 DEF Next

\* A step of an act that is alone.
LEMMA OthersIdle ==
  ASSUME TypeOK, Alone, ~overlapped, NEW a \in Acts, ~Finished(a)
  PROVE  \A b \in Acts : at[b] \in {"standing", "mint", "revoke"} => b = a
BY DEF TypeOK, Alone, Finished

\* What is told stays told, of the same handle.
LEMMA ToldForGood ==
  ASSUME Always, [Next]_vars, NEW h, ToldOf(h) PROVE ToldOf(h)'
<1>1. told \subseteq told' /\ \A b \in told : handle'[b] = handle[b]
  BY DEF Next, Begins, Step, Refused, LooksUp, ReadsStanding, Mints, MintsUnanswered,
         Connects, Publishes, PublishesUnanswered, FoundFails, Undoes, Revokes, RevokeFails,
         Goes, vars, actVars, storeVars, Always, TypeOK, Fresh
<1> QED BY <1>1 DEF ToldOf

\* Each step of acts in turn leaves one token standing, and what was read true.
LEMMA InTurnStep ==
  ASSUME Always, Held, OnRecord, InTurn, [Next]_vars,
         ~lost, ~overlapped, ~lost', ~overlapped'
  PROVE  OneStands' /\ StillStands'
<1> USE NoneAssumption DEF Always, TypeOK, ActAt, Kinds
<1>0. /\ \A h \in Handles :
            ToldOf(h) \/ \A t, u \in Standing(h) :
                \/ t = u
                \/ at[t] = "revoke" /\ old[t] = u
                \/ at[u] = "revoke" /\ old[u] = t
      /\ \A a \in Acts :
            at[a] = "mint" \/ (at[a] = "revoke" /\ kind[a] = "takeaway") =>
                ToldOf(handle[a]) \/ Standing(handle[a]) \subseteq {old[a]}
  BY DEF InTurn, OneStands, StillStands
<1>1. ASSUME NEW a \in Acts, NEW k \in Kinds, NEW h \in Handles, NEW p \in People,
             Begins(a, k, h, p)
      PROVE  OneStands' /\ StillStands'
  <2>1. \A g : Standing(g)' = Standing(g)
    BY <1>1 DEF Begins, storeVars, Standing, Fresh
  <2>2. \A b \in Acts : at[b] # "new" => at'[b] = at[b] /\ handle'[b] = handle[b]
                                       /\ kind'[b] = kind[b]
    BY <1>1 DEF Begins
  <2>3. UNCHANGED old /\ at'[a] \in {"standing", "lookup"}
    BY <1>1 DEF Begins
  <2>4. OneStands'
    <3> SUFFICES ASSUME NEW g \in Handles, ~ToldOf(g)',
                        NEW t \in Standing(g), NEW u \in Standing(g), t # u
                 PROVE  \/ at'[t] = "revoke" /\ old[t] = u
                        \/ at'[u] = "revoke" /\ old[u] = t
      BY <2>1, <2>3 DEF OneStands
    <3>1. ~ToldOf(g)
      BY ToldForGood
    <3>2. t \in Acts /\ u \in Acts
      BY DEF Standing
    <3> QED BY <1>0, <2>2, <3>1, <3>2
  <2>5. StillStands'
    BY <1>0, <1>1, <2>1, <2>2, <2>3, ToldForGood DEF StillStands, Begins
  <2> QED BY <2>4, <2>5
<1>2. ASSUME NEW a \in Acts, Step(a) PROVE OneStands' /\ StillStands'
  <2> DEFINE h == handle[a]
             OnlyOne(g) == \A t, u \in Standing(g) : t = u
  <2>0. /\ h \in Handles /\ UNCHANGED <<kind, handle>>
        /\ ~Finished(a) /\ at[a] # "new"
        /\ \A b \in Acts : b # a => at'[b] = at[b] /\ old'[b] = old[b]
    BY <1>2 DEF Step, Refused, LooksUp, ReadsStanding, Mints, MintsUnanswered, Connects,
                Publishes, PublishesUnanswered, FoundFails, Undoes, Revokes, RevokeFails,
                Goes, Kind, Finished
  <2>1. \A b \in Acts : at[b] \in {"standing", "mint", "revoke"} => b = a
    BY <2>0, OthersIdle DEF InTurn
  <2>2. at[a] # "revoke" => \A g \in Handles : ToldOf(g) \/ OnlyOne(g)
    BY <1>0, <2>1 DEF Standing
  <2>3. ASSUME at'[a] = "mint" \/ (at'[a] = "revoke" /\ kind[a] = "takeaway") =>
                    ToldOf(h)' \/ Standing(h)' \subseteq {old'[a]}
        PROVE  StillStands'
    BY <2>0, <2>1, <2>3 DEF StillStands
  <2>4. ASSUME \A g \in Handles : ToldOf(g)' \/ OnlyOne(g)'
        PROVE  OneStands'
    BY <2>4 DEF OneStands
  <2>5. CASE Refused(a) \/ Connects(a) \/ Publishes(a) \/ FoundFails(a)
    <3>1. /\ at[a] # "revoke" /\ at'[a] \notin {"mint", "revoke"}
          /\ \A g : Standing(g)' = Standing(g)
      BY <2>0, <2>5 DEF Refused, Connects, Publishes, FoundFails, Goes, storeVars, Standing
    <3> QED BY <2>2, <2>3, <2>4, <3>1, ToldForGood
  <2>6. CASE LooksUp(a)
    <3>1. at[a] = "lookup" /\ \A g : Standing(g)' = Standing(g)
      BY <2>0, <2>6 DEF LooksUp, Goes, storeVars, Standing
    <3>2. at'[a] = "mint" => card[h] = None
      BY <2>6 DEF LooksUp, Goes, Kind
    <3>3. at'[a] # "revoke"
      BY <2>6 DEF LooksUp, Goes, Kind
    <3>4. ASSUME card[h] = None PROVE ToldOf(h) \/ Standing(h) = {}
      <4> SUFFICES ASSUME NEW t \in Standing(h) PROVE ToldOf(h)
        OBVIOUS
      <4>1. t # a /\ t \in Acts
        BY <3>1 DEF Standing, Fresh
      <4>2. t \in given \cup told
        BY <2>0, <4>1 DEF Standing, Held, InTurn, Alone
      <4>3. t \notin given
        BY <3>4 DEF OnRecord, Standing
      <4> QED BY <4>2, <4>3 DEF ToldOf, Standing
    <3>5. ToldOf(h) => ToldOf(h)'
      BY <2>0, ToldForGood DEF ToldOf
    <3>6. Standing(h)' = Standing(h)
      BY <2>0, <3>1
    <3>7. at'[a] = "mint" => ToldOf(h)' \/ Standing(h)' \subseteq {old'[a]}
      BY <3>2, <3>4, <3>5, <3>6
    <3> QED BY <2>2, <2>3, <2>4, <3>1, <3>3, <3>7, ToldForGood
  <2>7. CASE ReadsStanding(a)
    <3>1. at[a] = "standing" /\ \A g : Standing(g)' = Standing(g)
      BY <2>0, <2>7 DEF ReadsStanding, Goes, storeVars, Standing
    <3>2. /\ old'[a] \in Standing(h) \cup {None}
          /\ old'[a] = None <=> Standing(h) = {}
      BY <2>7 DEF ReadsStanding
    <3>3. ToldOf(h)' \/ Standing(h)' \subseteq {old'[a]}
      BY <2>0, <2>2, <3>1, <3>2, ToldForGood
    <3> QED BY <2>2, <2>3, <2>4, <3>1, <3>3, ToldForGood
  <2>8. CASE Mints(a)
    <3>1. at[a] = "mint" /\ UNCHANGED old /\ at'[a] \in {"connect", "done", "revoke"}
      BY <2>8 DEF Mints, Goes, Kind
    <3>2. ToldOf(h) \/ Standing(h) \subseteq {old[a]}
      BY <1>0, <3>1
    <3>3. \A g : Standing(g)' = IF g = h THEN Standing(g) \cup {a} ELSE Standing(g)
      BY <2>0, <2>8 DEF Mints, Standing
    <3>4. old[a] # None => at'[a] = "revoke" /\ kind[a] = "remint"
      BY <2>8 DEF Mints, Goes, Kind, Read
    <3>5. None \notin Standing(h)
      BY DEF Standing
    <3>6. OneStands'
      <4> SUFFICES ASSUME NEW g \in Handles, ~ToldOf(g)',
                          NEW t \in Standing(g)', NEW u \in Standing(g)', t # u
                   PROVE  \/ at'[t] = "revoke" /\ old[t] = u
                          \/ at'[u] = "revoke" /\ old[u] = t
        BY <3>1 DEF OneStands
      <4>1. ~ToldOf(g)
        BY ToldForGood
      <4>2. g = h
        BY <2>2, <3>1, <3>3, <4>1
      <4> QED BY <3>2, <3>3, <3>4, <3>5, <4>1, <4>2
    <3>7. StillStands'
      <4>1. at'[a] = "revoke" => kind[a] # "takeaway"
        BY <3>1 DEF Kind
      <4> QED BY <2>3, <3>1, <4>1
    <3> QED BY <3>6, <3>7
  <2>9. CASE Undoes(a)
    <3>1. /\ at[a] # "revoke" /\ at'[a] = "failed"
          /\ \A g : Standing(g)' \subseteq Standing(g)
      BY <2>0, <2>9 DEF Undoes, Revoked, Goes, Standing
    <3> QED BY <2>2, <2>3, <2>4, <3>1, ToldForGood
  <2>10. CASE Revokes(a)
    <3>1. /\ at[a] = "revoke" /\ at'[a] = "done"
          /\ \A g : Standing(g)' = Standing(g) \ {old[a]}
      BY <2>0, <2>10 DEF Revokes, Revoked, Goes, Standing
    <3>2. \A g \in Handles : ToldOf(g) \/ OnlyOne(g)'
      BY <1>0, <2>1, <3>1 DEF Standing
    <3> QED BY <2>3, <2>4, <3>1, <3>2, ToldForGood
  <2>11. CASE RevokeFails(a)
    <3>1. at'[a] \in {"done", "failed"} /\ ToldOf(h)'
      BY <2>0, <2>11 DEF RevokeFails, Goes, ToldOf
    <3>2. \A g : Standing(g)' = Standing(g)
      BY <2>0, <2>11, RevokeMayWork DEF Standing
    <3>3. \A g \in Handles : ToldOf(g)' \/ OnlyOne(g)'
      <4>0. \A g \in Handles : g = h => ToldOf(g)'
        BY <2>0, <2>11 DEF RevokeFails, ToldOf
      <4> SUFFICES ASSUME NEW g \in Handles, ~ToldOf(g) PROVE OnlyOne(g) \/ g = h
        BY <3>2, <4>0, ToldForGood
      <4>1. ASSUME NEW t \in Standing(g), at[t] = "revoke" PROVE g = h
        BY <2>1, <4>1 DEF Standing
      <4> QED BY <1>0, <4>1
    <3> QED BY <2>3, <2>4, <3>1, <3>3
  <2>12. ~MintsUnanswered(a) /\ ~PublishesUnanswered(a)
    BY DEF MintsUnanswered, PublishesUnanswered, AnswerLost
  <2> QED BY <1>2, <2>5, <2>6, <2>7, <2>8, <2>9, <2>10, <2>11, <2>12 DEF Step
<1>3. CASE UNCHANGED vars
  BY <1>0, <1>3, ToldForGood DEF vars, storeVars, actVars, OneStands, StillStands, Standing
<1> QED BY <1>1, <1>2, <1>3 DEF Next

\* Each step keeps the whole invariant, and the initial states have it.
LEMMA InvStep == ASSUME IInv, [Next]_vars PROVE IInv'
<1>1. Always' /\ NothingHalfMade' /\ OnRecord' /\ Alone'
  BY AlwaysStep, HalfMadeStep, OnRecordStep, AloneStep DEF IInv, InTurn, Always
<1>2. overlapped => overlapped'
  BY DEF Next, Begins, Step, Refused, LooksUp, ReadsStanding, Mints, MintsUnanswered,
         Connects, Publishes, PublishesUnanswered, FoundFails, Undoes, Revokes, RevokeFails,
         Goes, vars, actVars
<1>3. ASSUME ~overlapped', ~lost' PROVE OneStands' /\ StillStands'
  <2>1. ~overlapped /\ ~lost /\ Held
    BY <1>2, <1>3, LostForGood DEF IInv, NothingHalfMade, Held
  <2> QED BY <1>3, <2>1, InTurnStep DEF IInv
<1>4. OneStands' /\ StillStands'
  BY <1>3 DEF OneStands, StillStands
<1> QED BY <1>1, <1>4 DEF IInv, InTurn

\* The invariant holds at first.
LEMMA InvInit == Init => IInv
<1> SUFFICES ASSUME Init PROVE IInv
  OBVIOUS
<1>1. Always /\ NothingHalfMade /\ OnRecord
  BY AlwaysInit DEF Init, NothingHalfMade, OnRecord
<1>2. Alone /\ OneStands /\ StillStands
  BY DEF Init, Alone, Finished, OneStands, StillStands, Standing
<1> QED BY <1>1, <1>2 DEF IInv, InTurn

\* "cannot get in again": a TakeAway that succeeds leaves nothing standing, for any
\* number of acts, as long as they come one after the other, every answer arrives
\* and nobody was told of a credential too many.
THEOREM TakenAwayForGood == Spec => TakenAwayMeansOut
<1>1. ASSUME IInv, [Next]_vars, NEW a \in Acts,
             kind[a] = "takeaway", at[a] = "revoke", at'[a] = "done"
      PROVE  \/ Standing(handle[a])' = {}
             \/ overlapped \/ lost \/ \E b \in told : handle[b] = handle[a]
  <2> SUFFICES ASSUME ~overlapped, ~lost, ~ToldOf(handle[a])
               PROVE  Standing(handle[a])' = {}
    BY DEF ToldOf
  <2>1. Standing(handle[a]) \subseteq {old[a]}
    BY <1>1 DEF IInv, InTurn, StillStands
  <2>2. Revokes(a)
    <3>1. at \in [Acts -> ActAt]
      BY <1>1 DEF IInv, Always, TypeOK
    <3>2. PICK b \in Acts :
            \/ Step(b)
            \/ \E k \in Kinds, g \in Handles, p \in People : Begins(b, k, g, p)
      BY <1>1 DEF Next, vars, actVars
    <3>3. Step(a)
      BY <1>1, <3>1, <3>2
         DEF Begins, Step, Refused, LooksUp, ReadsStanding, Mints, MintsUnanswered, Connects,
             Publishes, PublishesUnanswered, FoundFails, Undoes, Revokes, RevokeFails, Goes
    <3> QED BY <1>1, <3>1, <3>3
         DEF Step, Refused, LooksUp, ReadsStanding, Mints, MintsUnanswered, Connects,
             Publishes, PublishesUnanswered, FoundFails, Undoes, RevokeFails, Goes
  <2>3. Standing(handle[a])' = Standing(handle[a]) \ {old[a]}
    BY <2>2 DEF Revokes, Revoked, Goes, Standing
  <2> QED BY <2>1, <2>3
<1>2. ASSUME IInv, [Next]_vars
      PROVE  [\A a \in Acts :
                kind[a] = "takeaway" /\ at[a] = "revoke" /\ at'[a] = "done" =>
                    \/ Standing(handle[a])' = {}
                    \/ overlapped \/ lost \/ \E b \in told : handle[b] = handle[a]]_vars
  BY <1>1, <1>2
<1> QED BY <1>2, InvInit, InvStep, PTL DEF Spec, TakenAwayMeansOut
=============================================================================
