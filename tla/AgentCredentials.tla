-------------------------- MODULE AgentCredentials --------------------------
(***************************************************************************)
(* Agents and the credentials they arrive on (soulstream/agents.go, behind *)
(* the acts of modules/agents): Create, Remint and TakeAway run as         *)
(* handlers, several at once, over two stores neither of which they lock:  *)
(* the record (who is published, and who answers for them) and the         *)
(* identity plane's tokens.                                                *)
(*                                                                         *)
(* An act mints at most one token, so the act stands for it.  Each call to *)
(* a store is a step; any of them may fail, and it may fail after it took *)
(* effect, its answer lost.                                                *)
(***************************************************************************)
EXTENDS Naturals, FiniteSets

CONSTANTS
    Acts,           \* handlers of /agents/act/..., and the tokens they mint
    Handles,        \* agents' names
    People,         \* who may vouch
    None

ASSUME NoneAssumption == None \notin Acts \cup People

VARIABLES
    card,       \* the record: who answers for each handle, None: no card
    accepted,   \* the tokens the plane accepts
    at,         \* where each act stands
    kind,       \* what it is: Create, Remint or TakeAway
    handle,     \* the handle it is about
    by,         \* who asked, for a Create
    old,        \* the token it read as the handle's credential
    minted,     \* the acts whose token was made
    given,      \* the acts whose credential was handed to the person
    told,       \* the acts that reported a credential still standing
    gone,       \* why a token is not accepted any more
    overlapped, \* have two acts been under way at once?
    lost        \* has a store taken an effect and its answer been lost?

actVars == <<at, kind, handle, by, old>>
storeVars == <<card, accepted, minted, given, told, gone>>
vars == <<storeVars, actVars, overlapped, lost>>

Kinds == {"create", "remint", "takeaway"}
ActAt == {"new", "lookup", "standing", "mint", "connect", "publish", "undo",
          "revoke", "done", "failed"}

TypeOK ==
    /\ card \in [Handles -> People \cup {None}]
    /\ accepted \subseteq minted
    /\ at \in [Acts -> ActAt]
    /\ kind \in [Acts -> Kinds \cup {None}]
    /\ handle \in [Acts -> Handles \cup {None}]
    /\ by \in [Acts -> People \cup {None}]
    /\ old \in [Acts -> Acts \cup {None}]
    /\ minted \subseteq Acts
    /\ given \subseteq minted
    /\ told \subseteq Acts
    /\ gone \in [Acts -> {"no", "undone", "replaced", "taken"}]
    /\ {overlapped, lost} \subseteq BOOLEAN

Init ==
    /\ card = [h \in Handles |-> None]
    /\ accepted = {}
    /\ at = [a \in Acts |-> "new"]
    /\ kind = [a \in Acts |-> None]
    /\ handle = [a \in Acts |-> None]
    /\ by = [a \in Acts |-> None]
    /\ old = [a \in Acts |-> None]
    /\ minted = {}
    /\ given = {}
    /\ told = {}
    /\ gone = [a \in Acts |-> "no"]
    /\ overlapped = FALSE
    /\ lost = FALSE

Finished(a) == at[a] \in {"new", "done", "failed"}

\* The tokens the plane lists for one handle.
Standing(h) == {t \in accepted : handle[t] = h}

Goes(a, from, to) ==
    /\ at[a] = from
    /\ at' = [at EXCEPT ![a] = to]
    /\ UNCHANGED <<kind, handle, by, overlapped>>

AnswerLost == lost' = TRUE

-----------------------------------------------------------------------------
\* Somebody presses a key.  A Create has its handle's form and the person's
\* own signing key checked before it begins.
Begins(a, k, h, p) ==
    /\ at[a] = "new"
    /\ overlapped' = (overlapped \/ \E b \in Acts : ~Finished(b))
    /\ at' = [at EXCEPT ![a] = IF k = "takeaway" THEN "standing" ELSE "lookup"]
    /\ kind' = [kind EXCEPT ![a] = k]
    /\ handle' = [handle EXCEPT ![a] = h]
    /\ by' = [by EXCEPT ![a] = IF k = "create" THEN p ELSE None]
    /\ UNCHANGED <<old, storeVars, lost>>

\* Faulty variant of Refused: an empty credential is handed over as if made.
RefusedHandsOver(a) ==
    /\ \E s \in {"lookup", "standing", "mint"} : Goes(a, s, "failed")
    /\ given' = given \cup {a}
    /\ UNCHANGED <<old, card, accepted, minted, told, gone, lost>>

\* A read that fails ends the act with nothing done; so does making a token.
Refused(a) ==
    /\ \E s \in {"lookup", "standing", "mint"} : Goes(a, s, "failed")
    /\ UNCHANGED <<old, storeVars, lost>>

\* registry.Lookup: a handle that is taken is refused to a Create, one that is
\* no agent's to a Remint.
LooksUp(a) ==
    /\ Goes(a, "lookup",
            CASE kind[a] = "create" -> IF card[handle[a]] = None THEN "mint" ELSE "failed"
              [] kind[a] = "remint" -> IF card[handle[a]] # None THEN "standing" ELSE "failed")
    /\ UNCHANGED <<old, storeVars, lost>>

\* standing(): the handle's credential, the last read when it has several.
ReadsStanding(a) ==
    /\ \E t \in Standing(handle[a]) \cup {None} :
          /\ t = None <=> Standing(handle[a]) = {}
          /\ old' = [old EXCEPT ![a] = t]
    /\ Goes(a, "standing",
            CASE kind[a] = "remint" -> "mint"
              [] kind[a] = "takeaway" -> IF Standing(handle[a]) = {} THEN "failed"
                                                                  ELSE "revoke")
    /\ UNCHANGED <<storeVars, lost>>

\* CreateToken.  A Remint of an agent nothing stood for is done with it.
Mints(a) ==
    /\ accepted' = accepted \cup {a}
    /\ minted' = minted \cup {a}
    /\ LET ends == kind[a] = "remint" /\ old[a] = None IN
          /\ Goes(a, "mint", CASE kind[a] = "create" -> "connect"
                               [] ends -> "done"
                               [] OTHER -> "revoke")
          /\ given' = IF ends THEN given \cup {a} ELSE given
    /\ UNCHANGED <<old, card, told, gone, lost>>

\* CreateToken took effect and its answer was lost: an error like any other.
MintsUnanswered(a) ==
    /\ AnswerLost
    /\ Goes(a, "mint", "failed")
    /\ accepted' = accepted \cup {a}
    /\ minted' = minted \cup {a}
    /\ UNCHANGED <<old, card, given, told, gone>>

\* found: the agent gets in with its new credential and signs.
Connects(a) ==
    /\ a \in accepted
    /\ Goes(a, "connect", "publish")
    /\ UNCHANGED <<old, storeVars, lost>>

\* found: the agent publishes its own card, and the credential is handed over.
Publishes(a) ==
    /\ Goes(a, "publish", "done")
    /\ card' = [card EXCEPT ![handle[a]] = by[a]]
    /\ given' = given \cup {a}
    /\ UNCHANGED <<old, accepted, minted, told, gone, lost>>

PublishesUnanswered(a) ==
    /\ AnswerLost
    /\ Goes(a, "publish", "undo")
    /\ card' = [card EXCEPT ![handle[a]] = by[a]]
    /\ UNCHANGED <<old, accepted, minted, given, told, gone>>

\* Faulty variant of FoundFails: the error comes back, the credential stays.
FoundFailsWithoutUndo(a) ==
    /\ \E s \in {"connect", "publish"} : Goes(a, s, "failed")
    /\ UNCHANGED <<old, storeVars, lost>>

\* found fails anywhere along the way.
FoundFails(a) ==
    /\ \E s \in {"connect", "publish"} : Goes(a, s, "undo")
    /\ UNCHANGED <<old, storeVars, lost>>

\* RevokeToken of a token (perhaps already gone), with the reason.
Revoked(t, why) ==
    /\ accepted' = accepted \ {t}
    /\ gone' = [gone EXCEPT ![t] = IF t \in accepted THEN why ELSE @]

\* Create takes its unused credential back.
Undoes(a) ==
    /\ Goes(a, "undo", "failed")
    /\ Revoked(a, "undone")
    /\ UNCHANGED <<old, card, minted, given, told, lost>>

\* Faulty variant of Revokes: Remint takes away whatever else stands, and its
\* own credential with it.
RevokesAll(a) ==
    /\ Goes(a, "revoke", "done")
    /\ LET why == IF kind[a] = "remint" THEN "replaced" ELSE "taken" IN
          /\ accepted' = accepted \ Standing(handle[a])
          /\ gone' = [t \in Acts |-> IF t \in Standing(handle[a]) THEN why ELSE gone[t]]
    /\ given' = IF kind[a] = "remint" THEN given \cup {a} ELSE given
    /\ UNCHANGED <<old, card, minted, told, lost>>

\* Faulty variant of Revokes: the act's own credential goes, not the old one.
RevokesOwn(a) ==
    /\ Goes(a, "revoke", "done")
    /\ Revoked(a, IF kind[a] = "remint" THEN "replaced" ELSE "taken")
    /\ given' = IF kind[a] = "remint" THEN given \cup {a} ELSE given
    /\ UNCHANGED <<old, card, minted, told, lost>>

\* Remint takes the old credential away and hands the new one over; TakeAway
\* takes the one it read.
Revokes(a) ==
    /\ Goes(a, "revoke", "done")
    /\ Revoked(old[a], IF kind[a] = "remint" THEN "replaced" ELSE "taken")
    /\ given' = IF kind[a] = "remint" THEN given \cup {a} ELSE given
    /\ UNCHANGED <<old, card, minted, told, lost>>

\* A RevokeToken that fails is reported: Create's with the error it was
\* cleaning up after, Remint's along with the new credential.  It may
\* have taken effect all the same.
RevokeFails(a) ==
    /\ \/ Goes(a, "undo", "failed") /\ UNCHANGED given
       \/ /\ Goes(a, "revoke", IF kind[a] = "remint" THEN "done" ELSE "failed")
          /\ given' = IF kind[a] = "remint" THEN given \cup {a} ELSE given
    /\ told' = told \cup {a}
    /\ LET t == IF at[a] = "undo" THEN a ELSE old[a] IN
          \/ UNCHANGED <<accepted, gone, lost>>
          \/ /\ AnswerLost
             /\ Revoked(t, CASE at[a] = "undo" -> "undone"
                             [] kind[a] = "remint" -> "replaced"
                             [] OTHER -> "taken")
    /\ UNCHANGED <<old, card, minted>>

Step(a) ==
    \/ Refused(a) \/ LooksUp(a) \/ ReadsStanding(a)
    \/ Mints(a) \/ MintsUnanswered(a)
    \/ Connects(a) \/ Publishes(a) \/ PublishesUnanswered(a) \/ FoundFails(a)
    \/ Undoes(a) \/ Revokes(a) \/ RevokeFails(a)

Next ==
    \/ \E a \in Acts, k \in Kinds, h \in Handles, p \in People : Begins(a, k, h, p)
    \/ \E a \in Acts : Step(a)

Spec == Init /\ [][Next]_vars

-----------------------------------------------------------------------------
(* What must hold.  Some of it only as long as every answer arrived, or as   *)
(* long as the acts came one after the other.                                *)

\* Nothing half-made survives a failure: a credential the plane accepts was
\* handed to somebody, is in the hands of an act still running, or somebody
\* was told that it could not be taken back.  And an agent is on the record only
\* if somebody was handed its credential when it was put there, and answers for
\* it.
NothingHalfMade ==
    ~lost =>
        /\ \A t \in accepted : ~Finished(t) \/ t \in given \cup told
        /\ \A h \in Handles : card[h] # None =>
            \E a \in given : kind[a] = "create" /\ handle[a] = h /\ by[a] = card[h]

\* Handing out new credentials never locks an agent out: when none stands any
\* more, somebody took one away or a Create undid its own.  The new one is
\* made before the old one goes, whatever other acts do in between and
\* whatever answers are lost.
LockedOutOnPurposeOnly ==
    \A h \in Handles :
        LET made == {t \in minted : handle[t] = h} IN
        made # {} /\ Standing(h) = {} =>
            \E t \in made : gone[t] \in {"undone", "taken"}

\* "One credential too many is a thing somebody must be told about": when
\* several stand and nothing is under way, an act has said so.
TooManyIsTold ==
    \A h \in Handles :
        (\A a \in Acts : Finished(a)) /\ Cardinality(Standing(h)) > 1
            => \E a \in told : handle[a] = h

\* It is told as long as every answer arrives, whatever overlaps.
TooManyIsToldAnyway == ~lost => TooManyIsTold

\* "cannot get in again": when a TakeAway has succeeded nothing stands, unless
\* acts overlapped or somebody had been told of a credential too many.
TakenAwayMeansOut ==
    [][\A a \in Acts :
          kind[a] = "takeaway" /\ at[a] = "revoke" /\ at'[a] = "done" =>
              \/ Standing(handle[a])' = {}
              \/ overlapped \/ lost \/ \E b \in told : handle[b] = handle[a]]_vars
=============================================================================
