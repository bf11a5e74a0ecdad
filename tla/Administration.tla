--------------------------- MODULE Administration ---------------------------
(***************************************************************************)
(* One administrator at People & sign-in (modules/admin, soulstream/       *)
(* admin.go).  Every act is one call to the sign-in surface as this        *)
(* person; what it did is read again into the answer, and the answer is    *)
(* applied to the screen.  Nothing else ever renews the two lists: there   *)
(* is no stream here.  The surface is another component: it judges every   *)
(* call, and holds the rule that somebody who administers stays.           *)
(***************************************************************************)
EXTENDS Naturals, FiniteSets

CONSTANTS
    Names,      \* people who are, or could be, named
    Apps,       \* applications that are, or could be, registered
    First,      \* the administrator there is from the beginning
    Calls,      \* acts that may be under way at once
    MaxOthers,  \* bound: how often somebody else changes something
    None

VARIABLES
    users,      \* the surface: [status, admin] of each name
    clients,    \* the surface: the registered applications
    calls,      \* each act: [does, who, at, read]
    line,       \* the result line: <<what it says, of whom>>
    people,     \* the list of people on the screen
    apps,       \* the list of applications on the screen
    others,     \* changes by somebody else (bounded by MaxOthers)
    late        \* has the screen an excuse: somebody else changed something,
                \* acts overlapped, or an answer was lost?

vars == <<users, clients, calls, line, people, apps, others, late>>

Standings == [status : {"absent", "active", "disabled"}, admin : BOOLEAN]
Users == [Names -> Standings]
PersonActs == {"add", "invite", "disable", "enable", "promote", "demote"}
AppActs == {"register", "unregister"}
Free == [does |-> "nothing", who |-> None, at |-> "free", read |-> None]

TypeOK ==
    /\ users \in Users
    /\ clients \in SUBSET Apps
    /\ calls \in [Calls -> {Free} \cup
            [does : PersonActs \cup AppActs, who : Names \cup Apps,
             at : {"sent", "done", "refused", "read"},
             read : [people : Users, apps : SUBSET Apps] \cup {None}]]
    /\ line \in {"nothing", "ask", "done", "refused", "invite"} \X
                (Names \cup Apps \cup {None})
    /\ people \in Users
    /\ apps \in SUBSET Apps
    /\ others \in 0 .. MaxOthers
    /\ late \in BOOLEAN

Init ==
    /\ users = [n \in Names |-> [status |-> IF n = First THEN "active" ELSE "absent",
                                 admin |-> n = First]]
    /\ clients = {}
    /\ calls = [c \in Calls |-> Free]
    /\ line = <<"nothing", None>>
    /\ people = users
    /\ apps = clients
    /\ others = 0
    /\ late = FALSE

-----------------------------------------------------------------------------
(* The sign-in surface. *)

Administers(known) == {n \in Names : known[n].status = "active" /\ known[n].admin}

\* What an act asks of the surface: the people as they would be; of the groups,
\* only the one that administers counts, and nobody is added with it.
Asked(does, n) ==
    CASE does = "add" -> [users EXCEPT ![n] = [status |-> "active", admin |-> FALSE]]
      [] does = "disable" -> [users EXCEPT ![n].status = "disabled"]
      [] does = "enable" -> [users EXCEPT ![n].status = "active"]
      [] does = "promote" -> [users EXCEPT ![n].admin = TRUE]
      [] does = "demote" -> [users EXCEPT ![n].admin = FALSE]
      [] OTHER -> users

\* Refusal.Rule: it is refused where nobody would be left to administer, and
\* where the name is taken, or nobody's.
Accepts(does, n) ==
    /\ does \in PersonActs =>
        /\ (does = "add") = (users[n].status = "absent")
        /\ Administers(Asked(does, n)) # {}
    /\ does = "register" => n \notin clients
    /\ does = "unregister" => n \in clients

\* What it does then.
Effect(does, n) ==
    /\ users' = IF does \in PersonActs THEN Asked(does, n) ELSE users
    /\ clients' = CASE does = "register" -> clients \cup {n}
                    [] does = "unregister" -> clients \ {n}
                    [] OTHER -> clients

OthersChange(does, n) ==
    /\ others < MaxOthers
    /\ others' = others + 1
    /\ Accepts(does, n)
    /\ Effect(does, n)
    /\ late' = TRUE
    /\ UNCHANGED <<calls, line, people, apps>>

-----------------------------------------------------------------------------
(* The screen. *)

UnderWay == {c \in Calls : calls[c] # Free}

\* people: the page, read whole.
Opens ==
    /\ UnderWay = {}
    /\ people' = users
    /\ apps' = clients
    /\ line' = <<"nothing", None>>
    /\ late' = FALSE
    /\ UNCHANGED <<users, clients, calls, others>>

\* renderTable: who the list has a row for.
Roster == {n \in Names : people[n].status # "absent"}

\* Person.LastAdmin, as the surface says it of a list.
LastAdmin(n) == Administers(people) = {n}

\* personRow: the last administrator's row offers no way out.
CanDisable(n) == n \in Roster /\ people[n].status = "active" /\ ~LastAdmin(n)

\* askDisable, from a row of the list, and askClientRemove, from one of
\* renderClients.
Asks(n) ==
    /\ line' = <<"ask", n>>
    /\ UNCHANGED <<users, clients, calls, people, apps, others, late>>

AsksDisable(n) == CanDisable(n) /\ Asks(n)

AsksRemove(n) == n \in apps /\ Asks(n)

\* Asked about nobody, they clear the line.
KeepsIt ==
    /\ line[1] = "ask"
    /\ line' = <<"nothing", None>>
    /\ UNCHANGED <<users, clients, calls, people, apps, others, late>>

-----------------------------------------------------------------------------
(* The handlers: each is one call to the surface.                          *)

Begins(c, does, n) ==
    /\ calls[c] = Free
    /\ calls' = [calls EXCEPT ![c] = [does |-> does, who |-> n, at |-> "sent", read |-> None]]
    /\ late' = (late \/ UnderWay # {})
    /\ UNCHANGED <<users, clients, line, people, apps, others>>

\* actAdd and actClientAdd: forms that take any name.
Adds(c, n) == Begins(c, "add", n)

Registers(c, n) == Begins(c, "register", n)

\* actInvite, actEnable and actGroups: the keys and the form of a row.
Invites(c, n) == n \in Roster /\ people[n].status = "active" /\ Begins(c, "invite", n)

Enables(c, n) == n \in Roster /\ people[n].status = "disabled" /\ Begins(c, "enable", n)

SetsGroups(c, n) == n \in Roster /\ \E does \in {"promote", "demote"} : Begins(c, does, n)

\* actDisable and actClientDelete: "Yes" under the question.
Disables(c, n) == line = <<"ask", n>> /\ Begins(c, "disable", n)

Unregisters(c, n) == line = <<"ask", n>> /\ Begins(c, "unregister", n)

Moves(c, from, to) ==
    /\ calls[c].at = from
    /\ calls' = [calls EXCEPT ![c].at = to]

\* Admin.do: carried as this person, and judged.
Judged(c) ==
    LET does == calls[c].does  n == calls[c].who  yes == Accepts(does, n)
    IN  /\ Moves(c, "sent", IF yes THEN "done" ELSE "refused")
        /\ IF yes THEN Effect(does, n) ELSE UNCHANGED <<users, clients>>
        /\ UNCHANGED <<line, people, apps, others, late>>

\* The credential is spent, the person was denied, or the answer never came,
\* with or without effect.
Unanswered(c) ==
    /\ Moves(c, "sent", "refused")
    /\ \/ UNCHANGED <<users, clients, late>>
       \/ /\ Accepts(calls[c].does, calls[c].who)
          /\ Effect(calls[c].does, calls[c].who)
          /\ late' = TRUE
    /\ UNCHANGED <<line, people, apps, others>>

\* An act reads what it changed again; an invite changes nothing.
Reads(c, list) ==
    /\ calls[c].at = "done"
    /\ calls' = [calls EXCEPT ![c].at = "read",
            ![c].read = IF calls[c].does = "invite" THEN None ELSE list]
    /\ UNCHANGED <<users, clients, line, people, apps, others, late>>

\* Faulty variant of Rereads: what was on the screen is handed back.
RereadsScreen(c) == Reads(c, [people |-> people, apps |-> apps])

\* patchList and patchClients.
Rereads(c) == Reads(c, [people |-> users, apps |-> clients])

\* refusalWords, or what was done: on the line, but for what went wrong with the
\* add form, which is said there.  The list is written if it was read again: a
\* refusal leaves it as it was.
Answered(c) ==
    /\ calls[c].at \in {"read", "refused"}
    /\ calls' = [calls EXCEPT ![c] = Free]
    /\ line' = CASE calls[c].at = "read" ->
                    <<IF calls[c].does = "invite" THEN "invite" ELSE "done", calls[c].who>>
                 [] calls[c].does = "add" -> line
                 [] OTHER -> <<"refused", calls[c].who>>
    /\ IF calls[c].read = None THEN UNCHANGED <<people, apps>>
       ELSE IF calls[c].does \in AppActs
            THEN apps' = calls[c].read.apps /\ UNCHANGED people
            ELSE people' = calls[c].read.people /\ UNCHANGED apps
    /\ UNCHANGED <<users, clients, others, late>>

Call(c) == Judged(c) \/ Unanswered(c) \/ Rereads(c) \/ Answered(c)

Next ==
    \/ Opens \/ KeepsIt
    \/ \E c \in Calls : Call(c)
    \/ \E n \in Names :
        \/ AsksDisable(n)
        \/ \E does \in PersonActs : OthersChange(does, n)
        \/ \E c \in Calls :
            Adds(c, n) \/ Invites(c, n) \/ Enables(c, n) \/ SetsGroups(c, n) \/ Disables(c, n)
    \/ \E n \in Apps :
        \/ AsksRemove(n)
        \/ \E does \in AppActs : OthersChange(does, n)
        \/ \E c \in Calls : Registers(c, n) \/ Unregisters(c, n)

-----------------------------------------------------------------------------
(* What must hold. *)

\* "What is now true rather than what the person clicked": with nothing under
\* way, both lists are what the surface holds, unless somebody else changed
\* something since the page was read, acts of this screen overlapped, or an
\* answer was lost.
ListsAreTrueInTurn == UnderWay = {} /\ ~late => people = users /\ apps = clients
=============================================================================
