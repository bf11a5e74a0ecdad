------------------------------ MODULE Threads -------------------------------
(***************************************************************************)
(* How a conversation becomes a thread (soulstream/threadview.go): every   *)
(* answer hangs under the message it ultimately answers, the rest stands   *)
(* on the timeline with the work marks, in time order.  The conversation   *)
(* grows while it is watched: the variables are the materialised topic,    *)
(* and the timeline is computed from it on every tick.                     *)
(*                                                                         *)
(* A contribution is known by its place in the topic.  Its anchor is the   *)
(* place of the message it answers, None, or Elsewhere: an op this topic   *)
(* does not hold.                                                          *)
(***************************************************************************)
EXTENDS Naturals, Sequences, FiniteSets

CONSTANTS
    HopLimit,       \* how far rootOf walks (32 in the code)
    MaxPosts,       \* bound: contributions
    MaxWork,        \* bound: work items
    Times,          \* the timestamps authors put on what they write
    AnchorsFrom(_), \* what the n-th contribution may answer (bound)
    None, Elsewhere

\* Assumed of the constants by whoever instantiates this module.
ThreadsAssumption ==
    /\ HopLimit \in Nat /\ MaxPosts \in Nat /\ MaxWork \in Nat
    /\ Times \subseteq Nat /\ {None, Elsewhere} \cap Nat = {}
    /\ \A n \in 1 .. MaxPosts : AnchorsFrom(n) \subseteq (1 .. n) \cup {None, Elsewhere}

VARIABLES
    contributions,  \* mt.Contributions: <<[anchor, at]>>, in stream order
    work            \* mt.WorkItems: their timestamps, in stream order

vars == <<contributions, work>>

Posted == 1 .. Len(contributions)

TypeOK ==
    /\ contributions \in Seq([anchor : Posted \cup {None, Elsewhere}, at : Times])
    /\ work \in Seq(Times)

Init == contributions = <<>> /\ work = <<>>

\* Somebody writes, alone or as an answer; an author's clock may lag.
Writes(anchor, time) ==
    /\ Len(contributions) < MaxPosts
    /\ anchor \in AnchorsFrom(Len(contributions) + 1)
    /\ contributions' = Append(contributions, [anchor |-> anchor, at |-> time])
    /\ UNCHANGED work

\* A piece of work is opened.
OpensWork(time) ==
    /\ Len(work) < MaxWork
    /\ work' = Append(work, time)
    /\ UNCHANGED contributions

Next ==
    \E time \in Times :
        \/ \E anchor \in Posted \cup {Len(contributions) + 1, None, Elsewhere} :
              Writes(anchor, time)
        \/ OpensWork(time)

Spec == Init /\ [][Next]_vars

-----------------------------------------------------------------------------
(* Timeline and what it is made of. *)

Anchor(c) == contributions[c].anchor

\* One hop of rootOf: to the message answered, when the topic holds it.
AnswerTo(c) == IF Anchor(c) \in Posted THEN Anchor(c) ELSE c

\* Faulty variant of RootOf: an answer to an answer stays under the answer.
RootOfOneHop(c) == AnswerTo(c)

\* rootOf: at most HopLimit hops.
RootOf(c) ==
    LET hop[n \in 0 .. HopLimit] == IF n = 0 THEN c ELSE AnswerTo(hop[n - 1])
    IN  hop[HopLimit]

Nodes == {c \in Posted : RootOf(c) = c}

\* The answers under one node; their places are the stream's order.
Replies(n) == {c \in Posted \ {n} : RootOf(c) = n}

\* The stable sort: by time, and among equals nodes before work, each in
\* stream order.
Earlier(i, j) ==
    \/ i.at < j.at
    \/ i.at = j.at /\ i.of = "node" /\ j.of = "work"
    \/ i.at = j.at /\ i.of = j.of /\ i.place < j.place

Items ==
    {[of |-> "node", place |-> n, at |-> contributions[n].at] : n \in Nodes}
        \cup {[of |-> "work", place |-> w, at |-> work[w]] : w \in 1 .. Len(work)}

Above(i) == Cardinality({j \in Items : Earlier(j, i)})

Timeline == [k \in 1 .. Cardinality(Items) |-> CHOOSE i \in Items : Above(i) = k - 1]

-----------------------------------------------------------------------------
(* What the thread must show.  Ancestors is the reference: what a message    *)
(* answers, directly or through other answers, however long the chain.       *)

\* Written over sets: closed under answering, and no more.
Ancestors(c) ==
    LET up[n \in 0 .. Len(contributions)] ==
            IF n = 0 THEN {c}
            ELSE LET below == up[n - 1]
                 IN  below \cup ({Anchor(d) : d \in below} \cap Posted)
    IN  up[Len(contributions)] \ {c}

\* How often c stands on the timeline: as a node of its own that answers
\* nothing, or under a node it answers.
Shown(c) ==
    LET line == Timeline
        stands(i) ==
            IF line[i].place = c THEN Ancestors(c) = {}
            ELSE c \in Replies(line[i].place) /\ line[i].place \in Ancestors(c)
    IN  Cardinality({i \in 1 .. Len(line) : line[i].of = "node" /\ stands(i)})

\* Every contribution stands on the timeline, once, and an answer under the
\* message it ultimately answers, as long as the chain is no longer than rootOf
\* walks.
NothingDropped ==
    \A c \in Posted : Cardinality(Ancestors(c)) <= HopLimit => Shown(c) = 1

\* "nothing is ever dropped for being unreachable"
NothingEverDropped ==
    \A c \in Posted : Shown(c) = 1
=============================================================================
