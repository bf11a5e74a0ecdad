-------------------------------- MODULE Tools -------------------------------
(***************************************************************************)
(* The tools (modules/tools, soulstream/tools.go).  A tool has two halves: *)
(* a resource on the identity plane, through which people connect their    *)
(* accounts, and an entry in the record's catalog.  Adding and removing    *)
(* write one after the other, either may fail with or without effect, and  *)
(* two administrators may be at it at once.  The plane and the catalog     *)
(* are other components': what is modelled is what this code relies on,    *)
(* that a write may be repeated and that the plane refuses to remove what  *)
(* the deployment's configuration declares.                                *)
(***************************************************************************)
EXTENDS Naturals

CONSTANTS
    Names,      \* of tools
    Declared,   \* the resources the configuration declares
    People,     \* who connects accounts
    Admins      \* who adds and removes, one act at a time each

Nobody == "nobody"

VARIABLES
    resources,  \* the plane: the resources added through the op
    catalog,    \* the record: the kind of each entry, "absent" if none
    grants,     \* the plane: <<person, tool>> connected
    links,      \* the plane: <<person, tool>> of the ceremonies begun
    doing,      \* each administrator's act: [does, tool, at]
    mixed       \* the acts another act on the same tool came between

vars == <<resources, catalog, grants, links, doing, mixed>>

Kinds == {"remote", "workload"}
Acts == {"add remote", "add workload", "remove"}
Idle == [does |-> "nothing", tool |-> Nobody, at |-> "idle"]

TypeOK ==
    /\ resources \in SUBSET (Names \ Declared)
    /\ catalog \in [Names -> Kinds \cup {"absent"}]
    /\ grants \in SUBSET (People \X Names)
    /\ links \in SUBSET (People \X Names)
    /\ doing \in [Admins -> {Idle} \cup
            [does : Acts, tool : Names, at : {"plane", "catalog", "done", "failed"}]]
    /\ mixed \in SUBSET Admins

Init ==
    /\ resources = {}
    /\ catalog = [n \in Names |-> "absent"]
    /\ grants = {}
    /\ links = {}
    /\ doing = [a \in Admins |-> Idle]
    /\ mixed = {}

-----------------------------------------------------------------------------
(* The merged list, and what a row of it offers. *)

OnPlane(n) == n \in resources \cup Declared

\* Support.Tools: the entries of the catalog, and the resources without one.
Row(n) ==
    IF catalog[n] # "absent" THEN catalog[n]
    ELSE IF OnPlane(n) THEN "remote" ELSE "no row"

\* toolRow: the person's own column.
OfferedTo(p, n) ==
    IF Row(n) # "remote" \/ ~OnPlane(n) THEN {}
    ELSE IF <<p, n>> \in grants THEN {"disconnect"} ELSE {"connect"}

-----------------------------------------------------------------------------
(* A person's own connection. *)

\* connect: the plane holds the ceremony under this person's prefix.
Connects(p, n) ==
    /\ OnPlane(n)
    /\ links' = links \cup {<<p, n>>}
    /\ UNCHANGED <<resources, catalog, grants, doing, mixed>>

\* callback: completed on the session that began it; on any other it
\* completes nothing.
ComesBack(p, link) ==
    /\ link \in links
    /\ link[1] = p
    /\ links' = links \ {link}
    /\ grants' = grants \cup {link}
    /\ UNCHANGED <<resources, catalog, doing, mixed>>

\* actDisconnect.
Disconnects(p, n) ==
    /\ <<p, n>> \in grants
    /\ grants' = grants \ {<<p, n>>}
    /\ UNCHANGED <<resources, catalog, links, doing, mixed>>

-----------------------------------------------------------------------------
(* actAdd and actRemove. *)

Goes(a, from, to) ==
    /\ doing[a].at = from
    /\ doing' = [doing EXCEPT ![a].at = to]

\* Whoever else is at work on this tool has company.
Touches(a) ==
    mixed' = mixed \cup {b \in Admins \ {a} : doing[b].tool = doing[a].tool}

\* The form or the question is answered; a stale screen may ask for anything.
Begins(a, does, n) ==
    /\ doing[a] = Idle
    /\ doing' = [doing EXCEPT ![a] =
        [does |-> does, tool |-> n, at |-> IF does = "add workload" THEN "catalog" ELSE "plane"]]
    /\ mixed' = mixed \ {a}
    /\ UNCHANGED <<resources, catalog, grants, links>>

\* Faulty variant of AddsResource: the plane keeps a second copy of what the
\* configuration declares.
AddsAnyResource(a) ==
    /\ doing[a].does = "add remote"
    /\ Goes(a, "plane", "catalog")
    /\ resources' = resources \cup {doing[a].tool}
    /\ Touches(a)
    /\ UNCHANGED <<catalog, grants, links>>

\* The plane's half of AddRemoteTool,
AddsResource(a) ==
    /\ doing[a].does = "add remote"
    /\ Goes(a, "plane", "catalog")
    /\ resources' = resources \cup ({doing[a].tool} \ Declared)
    /\ Touches(a)
    /\ UNCHANGED <<catalog, grants, links>>

\* and of RemoveTool: standing grants stay.
RemovesResource(a) ==
    /\ doing[a].does = "remove"
    /\ doing[a].tool \notin Declared
    /\ Goes(a, "plane", "catalog")
    /\ resources' = resources \ {doing[a].tool}
    /\ Touches(a)
    /\ UNCHANGED <<catalog, grants, links>>

KindWritten == [does \in Acts |->
    CASE does = "add remote" -> "remote"
      [] does = "add workload" -> "workload"
      [] does = "remove" -> "absent"]

\* The catalog's half: the last of every act.
WritesCatalog(a) ==
    /\ Goes(a, "catalog", "done")
    /\ catalog' = [catalog EXCEPT ![doing[a].tool] = KindWritten[doing[a].does]]
    /\ Touches(a)
    /\ UNCHANGED <<resources, grants, links>>

\* Faulty variant of PlaneFails: the refusal is passed over.
PlaneFailsUnsaid(a) ==
    /\ Goes(a, "plane", "catalog")
    /\ UNCHANGED <<resources, catalog, grants, links, mixed>>

\* The plane refuses, or its answer is lost after it took effect.
PlaneFails(a) ==
    /\ Goes(a, "plane", "failed")
    /\ \/ UNCHANGED resources
       \/ /\ doing[a].does = "add remote"
          /\ resources' = resources \cup ({doing[a].tool} \ Declared)
       \/ /\ doing[a].does = "remove"
          /\ resources' = resources \ {doing[a].tool}
    /\ Touches(a)
    /\ UNCHANGED <<catalog, grants, links>>

\* The catalog's write fails, with or without effect: one half stands.
CatalogFails(a) ==
    /\ Goes(a, "catalog", "failed")
    /\ \/ UNCHANGED catalog
       \/ catalog' = [catalog EXCEPT ![doing[a].tool] = KindWritten[doing[a].does]]
    /\ Touches(a)
    /\ UNCHANGED <<resources, grants, links>>

\* The answer: what was done, or which half failed.
Answers(a) ==
    /\ doing[a].at \in {"done", "failed"}
    /\ doing' = [doing EXCEPT ![a] = Idle]
    /\ mixed' = mixed \ {a}
    /\ UNCHANGED <<resources, catalog, grants, links>>

Next ==
    \/ \E p \in People, n \in Names : Connects(p, n) \/ Disconnects(p, n)
    \/ \E p \in People, link \in links : ComesBack(p, link)
    \/ \E a \in Admins :
        \/ \E does \in Acts, n \in Names : Begins(a, does, n)
        \/ AddsResource(a) \/ RemovesResource(a) \/ PlaneFails(a)
        \/ WritesCatalog(a) \/ CatalogFails(a) \/ Answers(a)

-----------------------------------------------------------------------------
(* What must hold. *)

Stands(does, n) ==
    CASE does = "add remote" -> OnPlane(n) /\ catalog[n] = "remote"
      [] does = "add workload" -> catalog[n] = "workload"
      [] does = "remove" -> ~OnPlane(n) /\ catalog[n] = "absent"

\* "X is available now", "X is gone": an act that is said to be done has left
\* both halves as it says, whatever failed before it, unless another act on
\* the same tool came between.
SaidMeansDone ==
    \A a \in Admins : doing[a].at = "done" /\ a \notin mixed =>
        Stands(doing[a].does, doing[a].tool)
=============================================================================
