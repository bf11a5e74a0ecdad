---------------------------- MODULE ReadingsProofs ---------------------------
(***************************************************************************)
(* Proofs about Readings: of the threads and the composer, for any number  *)
(* of people, names, contributions and work items; of the store, from      *)
(* StoreWalkProofs.                                                        *)
(*                                                                         *)
(* The thread: rootOf's walk is a recursive function, and so are the       *)
(* ancestors it is measured against.  Both are first described as walks in *)
(* a tree of numbers (every answer points down, or at itself), where the   *)
(* walk falls until it stands and the climb gathers what it passes; then   *)
(* the timeline is shown to hold every node and every work mark once.      *)
(***************************************************************************)
EXTENDS Readings, StoreWalkProofs, SequenceTheorems, TLAPS

-----------------------------------------------------------------------------
(* Walks: what a recursive function over 0 .. m computes.  Induction over a   *)
(* set, by its least exception.                                              *)

\* A set that holds 0 and, with a number below m, the next, holds all of 0 .. m.
LEMMA UpTo ==
  ASSUME NEW m \in Nat, NEW S, 0 \in S, \A n \in 0 .. m - 1 : n \in S => n + 1 \in S
  PROVE  0 .. m \subseteq S
<1> DEFINE Rest == (0 .. m) \ S
<1> SUFFICES ASSUME Rest # {} PROVE FALSE
  OBVIOUS
<1>1. Rest \in SUBSET Nat
  OBVIOUS
<1>2. PICK x \in Rest : \A y \in Rest : x <= y
  <2> HIDE DEF Rest
  <2> QED
    BY <1>1, MinProperty
<1>3. x # 0 /\ x - 1 \in 0 .. m - 1 /\ x - 1 \notin Rest
  BY <1>2
<1>4. x - 1 \in S
  BY <1>3
<1> QED
  BY <1>2, <1>3, <1>4

\* The walk of m steps of F from x.
IsWalk(h, m, F, X, x) ==
    h \in [0 .. m -> X] /\ h[0] = x /\ \A n \in 1 .. m : h[n] = F[h[n - 1]]

\* There is one of every length.
LEMMA WalkExists ==
  ASSUME NEW X, NEW x \in X, NEW F \in [X -> X], NEW m \in Nat
  PROVE  \E h : IsWalk(h, m, F, X, x)
<1> DEFINE S == {k \in 0 .. m : \E h : IsWalk(h, k, F, X, x)}
<1>1. 0 \in S
  <2>1. IsWalk([n \in 0 .. 0 |-> x], 0, F, X, x)
    BY DEF IsWalk
  <2> QED
    BY <2>1
<1>2. ASSUME NEW k \in 0 .. m - 1, k \in S PROVE k + 1 \in S
  <2>1. PICK h : IsWalk(h, k, F, X, x)
    BY <1>2
  <2> DEFINE g == [n \in 0 .. k + 1 |-> IF n <= k THEN h[n] ELSE F[h[k]]]
  <2>2. \A n \in 0 .. k : h[n] \in X /\ F[h[n]] \in X /\ g[n] = h[n]
    BY <2>1 DEF IsWalk
  <2>3. g \in [0 .. k + 1 -> X]
    <3> SUFFICES ASSUME NEW n \in 0 .. k + 1
                 PROVE  (IF n <= k THEN h[n] ELSE F[h[k]]) \in X
      OBVIOUS
    <3>1. k \in 0 .. k /\ (n <= k => n \in 0 .. k)
      OBVIOUS
    <3> QED
      BY <2>2, <3>1
  <2>4. g[0] = x
    BY <2>1, <2>2 DEF IsWalk
  <2>5. ASSUME NEW n \in 1 .. k + 1 PROVE g[n] = F[g[n - 1]]
    <3>1. n - 1 \in 0 .. k /\ g[n - 1] = h[n - 1]
      BY <2>2
    <3>2. CASE n <= k
      BY <2>1, <2>2, <3>1, <3>2 DEF IsWalk
    <3>3. CASE n = k + 1
      BY <3>1, <3>3
    <3> QED
      BY <3>2, <3>3
  <2> HIDE DEF g
  <2>6. IsWalk(g, k + 1, F, X, x)
    BY <2>3, <2>4, <2>5 DEF IsWalk
  <2> QED
    BY <2>6
<1> HIDE DEF S
<1>3. 0 .. m \subseteq S
  BY <1>1, <1>2, UpTo
<1> QED
  BY <1>3 DEF S

-----------------------------------------------------------------------------
(* The tree of the answers: f says for each of the first N what it answers,  *)
(* itself when nothing.                                                      *)

IsTree(f, N) == N \in Nat /\ f \in [1 .. N -> 1 .. N] /\ \A d \in 1 .. N : f[d] <= d

\* A walk falls at every step, until it stands.
LEMMA WalkFalls ==
  ASSUME NEW f, NEW N, IsTree(f, N), NEW c \in 1 .. N,
         NEW m \in Nat, NEW h, IsWalk(h, m, f, 1 .. N, c)
  PROVE  \A n \in 0 .. m : h[n] + n <= c \/ f[h[n]] = h[n]
<1> DEFINE S == {n \in 0 .. m : h[n] + n <= c \/ f[h[n]] = h[n]}
<1>1. 0 \in S
  BY DEF IsWalk, IsTree
<1>2. ASSUME NEW n \in 0 .. m - 1, n \in S PROVE n + 1 \in S
  <2>1. h[n] \in 1 .. N /\ h[n + 1] = f[h[n]] /\ n + 1 \in 0 .. m
    BY DEF IsWalk
  <2>2. f[h[n]] \in 1 .. N /\ f[h[n]] <= h[n]
    BY <2>1 DEF IsTree
  <2>3. CASE f[h[n]] = h[n]
    BY <2>1, <2>3
  <2>4. CASE f[h[n]] < h[n] /\ h[n] + n <= c
    <3>1. h[n] \in Int /\ f[h[n]] \in Int /\ c \in Int /\ n \in Int
      BY <2>1, <2>2 DEF IsTree
    <3>2. h[n + 1] + (n + 1) <= c
      BY <2>1, <2>4, <3>1
    <3> QED
      BY <2>1, <3>2
  <2> QED
    BY <1>2, <2>1, <2>2, <2>3, <2>4 DEF IsTree
<1> HIDE DEF S
<1>3. 0 .. m \subseteq S
  BY <1>1, <1>2, UpTo
<1> QED
  BY <1>3 DEF S

\* One that still falls at its last step never met the same message twice.
LEMMA WalkIsInjective ==
  ASSUME NEW f, NEW N, IsTree(f, N), NEW c \in 1 .. N,
         NEW m \in Nat, NEW h, IsWalk(h, m, f, 1 .. N, c), m > 0, h[m] # h[m - 1]
  PROVE  \A n \in 0 .. m : \A k \in 0 .. n - 1 : h[n] < h[k]
<1>1. \A n \in 0 .. m : h[n] \in 1 .. N
  BY DEF IsWalk
<1>2. \A n \in 1 .. m : h[n] = f[h[n - 1]]
  BY DEF IsWalk
\* Where it stands it stays.
<1>3. ASSUME NEW n \in 0 .. m - 1, h[n + 1] = h[n] PROVE FALSE
  <2> DEFINE R == {k \in 0 .. m - n : h[n + k] = h[n]}
  <2>1. 0 \in R
    BY <1>1
  <2>2. ASSUME NEW k \in 0 .. (m - n) - 1, k \in R PROVE k + 1 \in R
    <3>1. n + k + 1 \in 1 .. m /\ n + 1 \in 1 .. m /\ (n + k + 1) - 1 = n + k /\ (n + 1) - 1 = n
      OBVIOUS
    <3>2. h[n + k + 1] = f[h[n + k]] /\ h[n + 1] = f[h[n]]
      BY <1>2, <3>1
    <3>3. h[n + k + 1] = h[n]
      BY <1>3, <2>2, <3>2
    <3> QED
      BY <3>1, <3>3
  <2> HIDE DEF R
  <2>3. 0 .. m - n \subseteq R
    <3>1. PICK l \in Nat : l = m - n
      OBVIOUS
    <3>2. 0 .. l \subseteq R
      BY <2>1, <2>2, <3>1, UpTo
    <3> QED
      BY <3>1, <3>2
  <2>4. m - n \in R /\ (m - n) - 1 \in R
    BY <2>3
  <2>5. h[n + (m - n)] = h[n] /\ h[n + ((m - n) - 1)] = h[n]
    BY <2>4 DEF R
  <2>6. n + (m - n) = m /\ n + ((m - n) - 1) = m - 1
    OBVIOUS
  <2> QED
    BY <2>5, <2>6
<1>4. \A n \in 0 .. m - 1 : h[n + 1] < h[n]
  <2> TAKE n \in 0 .. m - 1
  <2>1. n + 1 \in 1 .. m /\ (n + 1) - 1 = n /\ n \in 0 .. m /\ n + 1 \in 0 .. m
    OBVIOUS
  <2>2. h[n + 1] = f[h[n]] /\ h[n] \in 1 .. N /\ h[n + 1] \in 1 .. N
    BY <1>1, <1>2, <2>1
  <2>3. f[h[n]] <= h[n]
    BY <2>2 DEF IsTree
  <2> QED
    BY <1>3, <2>2, <2>3 DEF IsTree
<1> DEFINE S == {n \in 0 .. m : \A k \in 0 .. n - 1 : h[n] < h[k]}
<1>5. 0 \in S
  OBVIOUS
<1>6. ASSUME NEW n \in 0 .. m - 1, n \in S PROVE n + 1 \in S
  <2> SUFFICES ASSUME NEW k \in 0 .. n PROVE h[n + 1] < h[k]
    OBVIOUS
  <2>1. h[n + 1] < h[n]
    BY <1>4
  <2>2. h[n + 1] \in Int /\ h[n] \in Int /\ h[k] \in Int
    <3>1. n + 1 \in 0 .. m /\ n \in 0 .. m /\ k \in 0 .. m
      OBVIOUS
    <3>2. \A i \in 1 .. N : i \in Int
      BY DEF IsTree
    <3> QED
      BY <1>1, <3>1, <3>2
  <2>3. k = n \/ h[n] < h[k]
    BY <1>6
  <2> QED
    BY <2>1, <2>2, <2>3
<1> HIDE DEF S
<1>7. 0 .. m \subseteq S
  BY <1>5, <1>6, UpTo
<1> QED
  BY <1>7 DEF S

\* What a climb of N steps from c passes: each step adds what the messages so
\* far answer.
Adds(f, N) == [S \in SUBSET (1 .. N) |-> S \cup {f[d] : d \in S}]

IsClimb(u, f, N, c) == IsWalk(u, N, Adds(f, N), SUBSET (1 .. N), {c})

\* A climb forgets nothing.
LEMMA ClimbGrows ==
  ASSUME NEW f, NEW N, IsTree(f, N), NEW c \in 1 .. N, NEW u, IsClimb(u, f, N, c)
  PROVE  \A n \in 0 .. N : u[n] \subseteq u[N] /\ (n < N => \A d \in u[n] : f[d] \in u[N])
<1>1. N \in Nat /\ f \in [1 .. N -> 1 .. N]
  BY DEF IsTree
<1>2. \A n \in 0 .. N : u[n] \subseteq 1 .. N
  BY DEF IsClimb, IsWalk
<1>3. ASSUME NEW n \in 1 .. N PROVE u[n] = u[n - 1] \cup {f[d] : d \in u[n - 1]}
  <2>1. u[n] = Adds(f, N)[u[n - 1]] /\ n - 1 \in 0 .. N
    BY <1>1 DEF IsClimb, IsWalk
  <2> QED
    BY <1>2, <2>1 DEF Adds
<1>4. ASSUME NEW n \in 0 .. N PROVE u[n] \subseteq u[N]
  <2> DEFINE R == {k \in 0 .. N - n : u[n] \subseteq u[n + k]}
  <2>1. 0 \in R
    BY <1>1
  <2>2. ASSUME NEW k \in 0 .. (N - n) - 1, k \in R PROVE k + 1 \in R
    <3>1. n + k + 1 \in 1 .. N /\ (n + k + 1) - 1 = n + k /\ k + 1 \in 0 .. N - n
      BY <1>1
    <3>2. u[n + k] \subseteq u[n + k + 1]
      BY <1>3, <3>1
    <3> QED
      BY <2>2, <3>1, <3>2
  <2> HIDE DEF R
  <2>3. 0 .. N - n \subseteq R
    <3>1. N - n \in Nat
      BY <1>1
    <3> QED
      BY <2>1, <2>2, <3>1, UpTo
  <2>4. N - n \in R /\ n + (N - n) = N
    BY <1>1, <2>3
  <2> QED
    BY <2>4 DEF R
<1>5. ASSUME NEW n \in 0 .. N, n < N, NEW d \in u[n] PROVE f[d] \in u[N]
  <2>1. n + 1 \in 1 .. N /\ (n + 1) - 1 = n /\ n + 1 \in 0 .. N
    BY <1>1, <1>5
  <2>2. f[d] \in u[n + 1]
    BY <1>3, <2>1
  <2> QED
    BY <1>4, <2>1, <2>2
<1> QED
  BY <1>4, <1>5

\* A climb passes every message a walk from the same one meets.
LEMMA ClimbMeetsWalk ==
  ASSUME NEW f, NEW N, IsTree(f, N), NEW c \in 1 .. N, NEW u, IsClimb(u, f, N, c),
         NEW m \in Nat, NEW h, IsWalk(h, m, f, 1 .. N, c)
  PROVE  \A n \in 0 .. m : h[n] \in u[N]
<1>1. N \in Nat /\ \A n \in 0 .. m : h[n] \in 1 .. N
  BY DEF IsTree, IsWalk
<1>2. \A n \in 1 .. m : h[n] = f[h[n - 1]]
  BY DEF IsWalk
<1>3. h[0] = c /\ u[0] = {c}
  BY DEF IsWalk, IsClimb
<1>4. \A n \in 0 .. N : u[n] \subseteq u[N] /\ (n < N => \A d \in u[n] : f[d] \in u[N])
  BY ClimbGrows
<1>5. \A n \in 1 .. N : \A d \in u[n - 1] : f[d] \in u[n]
  <2> SUFFICES ASSUME NEW n \in 1 .. N, NEW d \in u[n - 1] PROVE f[d] \in u[n]
    OBVIOUS
  <2>1. u[n] = Adds(f, N)[u[n - 1]] /\ u[n - 1] \in SUBSET (1 .. N)
    BY <1>1 DEF IsClimb, IsWalk
  <2> QED
    BY <2>1 DEF Adds
<1> DEFINE S == {n \in 0 .. m : h[n] \in u[N] /\ (n <= N => h[n] \in u[n])}
<1>6. 0 \in S
  BY <1>1, <1>3, <1>4
<1>7. ASSUME NEW n \in 0 .. m - 1, n \in S PROVE n + 1 \in S
  <2>1. n + 1 \in 1 .. m /\ (n + 1) - 1 = n /\ n \in 0 .. m /\ n + 1 \in 0 .. m
    OBVIOUS
  <2>2. h[n + 1] = f[h[n]]
    BY <1>2, <2>1
  <2>3. CASE n < N
    <3>1. n + 1 \in 1 .. N /\ n + 1 \in 0 .. N /\ h[n] \in u[n]
      BY <1>1, <1>7, <2>3
    <3>2. h[n + 1] \in u[n + 1]
      BY <1>5, <2>1, <2>2, <3>1
    <3> QED
      BY <1>4, <2>1, <3>1, <3>2
  <2>4. CASE n >= N
    <3>1. h[n] + n <= c \/ f[h[n]] = h[n]
      BY <2>1, WalkFalls
    <3>2. ~(h[n] + n <= c)
      <4>1. h[n] \in 1 .. N
        BY <1>1, <2>1
      <4> QED
        BY <1>1, <2>4, <4>1
    <3>3. h[n + 1] = h[n] /\ ~(n + 1 <= N)
      BY <1>1, <2>2, <2>4, <3>1, <3>2
    <3> QED
      BY <1>7, <2>1, <3>3
  <2> QED
    BY <1>1, <2>3, <2>4
<1> HIDE DEF S
<1>8. 0 .. m \subseteq S
  BY <1>6, <1>7, UpTo
<1> QED
  BY <1>8 DEF S

\* One that has no more messages to meet than it has steps comes to stand.
LEMMA WalkStands ==
  ASSUME NEW f, NEW N, IsTree(f, N), NEW c \in 1 .. N, NEW u, IsClimb(u, f, N, c),
         NEW m \in Nat, NEW h, IsWalk(h, m + 1, f, 1 .. N, c),
         Cardinality(u[N] \ {c}) <= m
  PROVE  h[m + 1] = h[m]
<1> SUFFICES ASSUME h[m + 1] # h[m] PROVE FALSE
  OBVIOUS
<1>1. N \in Nat /\ u[N] \subseteq 1 .. N /\ h[0] = c
  BY DEF IsTree, IsClimb, IsWalk
<1>2. \A n \in 0 .. m + 1 : h[n] \in 1 .. N /\ h[n] \in Int
  BY <1>1 DEF IsWalk
<1>3. \A n \in 0 .. m + 1 : \A k \in 0 .. n - 1 : h[n] < h[k]
  <2>1. m + 1 \in Nat /\ m + 1 > 0 /\ (m + 1) - 1 = m
    OBVIOUS
  <2> QED
    BY <2>1, WalkIsInjective
<1>4. \A n \in 0 .. m + 1 : h[n] \in u[N]
  BY ClimbMeetsWalk
<1> DEFINE Met == u[N] \ {c}
           g == [n \in 1 .. m + 1 |-> h[n]]
<1>5. IsFiniteSet(Met) /\ Cardinality(Met) \in Nat
  <2>1. IsFiniteSet(1 .. N)
    <3>1. 1 \in Int /\ N \in Int
      BY <1>1
    <3> QED
      BY <3>1, FS_Interval
  <2>2. IsFiniteSet(Met)
    BY <1>1, <2>1, FS_Subset
  <2> QED
    BY <2>2, FS_CardinalityType
<1>6. g \in [1 .. m + 1 -> Met]
  <2> SUFFICES ASSUME NEW n \in 1 .. m + 1 PROVE h[n] \in Met
    OBVIOUS
  <2>1. n \in 0 .. m + 1 /\ 0 \in 0 .. n - 1
    OBVIOUS
  <2>2. h[n] < c /\ h[n] \in Int
    BY <1>1, <1>2, <1>3, <2>1
  <2> QED
    BY <1>4, <2>1, <2>2, <1>1
<1>7. IsFiniteSet(1 .. m + 1) /\ Cardinality(1 .. m + 1) = m + 1
  BY FS_Interval
<1> HIDE DEF Met
<1>8. PICK x \in 1 .. m + 1, y \in 1 .. m + 1 : x # y /\ g[x] = g[y]
  <2>1. Cardinality(Met) < Cardinality(1 .. m + 1)
    BY <1>5, <1>7 DEF Met
  <2> HIDE DEF g
  <2> QED
    BY <1>5, <1>6, <1>7, <2>1, FS_PigeonHole
<1>9. h[x] = h[y] /\ x \in 0 .. m + 1 /\ y \in 0 .. m + 1
  BY <1>8
<1>10. x < y \/ y < x
  BY <1>8
<1>11. CASE x < y
  <2>1. x \in 0 .. y - 1
    BY <1>11
  <2> QED
    BY <1>2, <1>3, <1>9, <2>1
<1>12. CASE y < x
  <2>1. y \in 0 .. x - 1
    BY <1>12
  <2> QED
    BY <1>2, <1>3, <1>9, <2>1
<1> QED
  BY <1>10, <1>11, <1>12

\* What answers nothing has nothing above it; what answers has.
LEMMA ClimbFromTheTop ==
  ASSUME NEW f, NEW N, IsTree(f, N), NEW c \in 1 .. N, NEW u, IsClimb(u, f, N, c)
  PROVE  u[N] \ {c} = {} <=> f[c] = c
<1>1. N \in Nat /\ N >= 1 /\ u[0] = {c}
  BY DEF IsTree, IsClimb, IsWalk
<1>2. CASE f[c] # c
  <2>1. 0 \in 0 .. N /\ 0 < N /\ c \in u[0]
    BY <1>1
  <2>2. f[c] \in u[N]
    BY <2>1, ClimbGrows
  <2> QED
    BY <1>2, <2>2
<1>3. CASE f[c] = c
  <2> DEFINE S == {n \in 0 .. N : u[n] = {c}}
  <2>1. 0 \in S
    BY <1>1
  <2>2. ASSUME NEW n \in 0 .. N - 1, n \in S PROVE n + 1 \in S
    <3>1. n + 1 \in 1 .. N /\ (n + 1) - 1 = n /\ n + 1 \in 0 .. N
      BY <1>1
    <3>2. u[n + 1] = Adds(f, N)[u[n]] /\ u[n] = {c}
      BY <2>2, <3>1 DEF IsClimb, IsWalk
    <3>3. u[n + 1] = {c} \cup {f[d] : d \in {c}}
      BY <3>2 DEF Adds
    <3> QED
      BY <1>3, <3>1, <3>3
  <2> HIDE DEF S
  <2>3. 0 .. N \subseteq S
    BY <1>1, <2>1, <2>2, UpTo
  <2>4. N \in S
    BY <1>1, <2>3
  <2> QED
    BY <1>3, <2>4 DEF S
<1> QED
  BY <1>2, <1>3

-----------------------------------------------------------------------------
(* The thread. *)

\* A message answers one before it, itself, or nothing this topic holds.
ThreadInv ==
    /\ T!TypeOK
    /\ \A i \in T!Posted : T!Anchor(i) \in (1 .. i) \cup {None, Elsewhere}

\* What is written answers something already there, itself, or nothing.
LEMMA ThreadKeeps == ThreadInv /\ [T!Next]_threadVars => ThreadInv'
<1> SUFFICES ASSUME ThreadInv, [T!Next]_threadVars PROVE ThreadInv'
  OBVIOUS
<1> DEFINE Written == [anchor : T!Posted \cup {None, Elsewhere}, at : Times]
<1>1. /\ contributions \in Seq(Written) /\ work \in Seq(Times)
      /\ Len(contributions) \in Nat /\ Len(work) \in Nat
      /\ \A i \in 1 .. Len(contributions) :
            contributions[i].anchor \in (1 .. i) \cup {None, Elsewhere}
  BY DEF ThreadInv, T!TypeOK, T!Posted, T!Anchor
<1>2. CASE UNCHANGED threadVars
  BY <1>1, <1>2 DEF threadVars, ThreadInv, T!TypeOK, T!Posted, T!Anchor
<1>3. ASSUME NEW time \in Times, T!OpensWork(time)
      PROVE  ThreadInv'
  <2>1. contributions' = contributions /\ work' \in Seq(Times)
    BY <1>1, <1>3 DEF T!OpensWork
  <2> QED
    BY <1>1, <2>1 DEF ThreadInv, T!TypeOK, T!Posted, T!Anchor
<1>4. ASSUME NEW time \in Times, NEW anchor, T!Writes(anchor, time)
      PROVE  ThreadInv'
  <2> DEFINE w == [anchor |-> anchor, at |-> time]
             n == Len(contributions) + 1
  <2>1. /\ contributions' = Append(contributions, w)
        /\ Len(contributions) < MaxPosts /\ anchor \in AnchorsFrom(n)
        /\ work' = work
    BY <1>4 DEF T!Writes
  <2>2. n \in 1 .. MaxPosts
    BY <1>1, <2>1, ReadingsAssumption DEF T!ThreadsAssumption
  <2>3. anchor \in (1 .. n) \cup {None, Elsewhere}
    BY <2>1, <2>2, ReadingsAssumption DEF T!ThreadsAssumption
  <2>4. /\ Len(contributions') = n /\ contributions'[n] = w
        /\ \A i \in 1 .. Len(contributions) : contributions'[i] = contributions[i]
    BY <1>1, <2>1
  <2>5. T!Posted \subseteq T!Posted' /\ anchor \in T!Posted' \cup {None, Elsewhere}
    BY <1>1, <2>3, <2>4 DEF T!Posted
  <2>6. Written \subseteq Written' /\ w \in Written'
    BY <2>5
  <2>7. contributions \in Seq(Written')
    BY <1>1, <2>6, SeqMonotonic
  <2> HIDE DEF Written
  <2>8. contributions' \in Seq(Written')
    BY <2>1, <2>6, <2>7
  <2>9. \A i \in 1 .. n : i # n => i \in 1 .. Len(contributions)
    BY <1>1
  <2>10. \A i \in 1 .. n : contributions'[i].anchor \in (1 .. i) \cup {None, Elsewhere}
    BY <1>1, <2>3, <2>4, <2>9
  <2> QED
    BY <1>1, <2>1, <2>4, <2>8, <2>10 DEF ThreadInv, T!TypeOK, T!Posted, T!Anchor, Written
<1> QED
  BY <1>2, <1>3, <1>4 DEF T!Next

\* The tree of this conversation.
Up == [d \in T!Posted |-> T!AnswerTo(d)]

\* Whoever answers answers something earlier.
LEMMA AnswersAreATree ==
  ThreadInv => IsTree(Up, Len(contributions)) /\ T!Posted = 1 .. Len(contributions)
<1> SUFFICES ASSUME ThreadInv
             PROVE  IsTree(Up, Len(contributions)) /\ T!Posted = 1 .. Len(contributions)
  OBVIOUS
<1>1. Len(contributions) \in Nat /\ T!Posted = 1 .. Len(contributions)
  BY DEF ThreadInv, T!TypeOK, T!Posted
<1>2. \A d \in T!Posted : T!AnswerTo(d) \in 1 .. d
  <2> SUFFICES ASSUME NEW d \in T!Posted PROVE T!AnswerTo(d) \in 1 .. d
    OBVIOUS
  <2>1. T!Anchor(d) \in (1 .. d) \cup {None, Elsewhere} /\ d \in 1 .. d
    BY <1>1 DEF ThreadInv
  <2>2. T!Anchor(d) \in T!Posted => T!Anchor(d) \in 1 .. d
    BY <1>1, <2>1, ReadingsAssumption DEF T!ThreadsAssumption
  <2> QED
    BY <2>1, <2>2 DEF T!AnswerTo
<1>3. \A d \in T!Posted : T!AnswerTo(d) \in T!Posted /\ T!AnswerTo(d) <= d
  BY <1>1, <1>2
<1> QED
  BY <1>1, <1>3 DEF IsTree, Up

\* rootOf walks HopLimit steps; one more shows whether it has come to stand.
LEMMA RootIsWalked ==
  ASSUME ThreadInv, NEW c \in T!Posted
  PROVE  \E h : /\ IsWalk(h, HopLimit + 1, Up, T!Posted, c)
                /\ T!RootOf(c) = h[HopLimit]
<1>1. HopLimit \in Nat
  BY ReadingsAssumption DEF T!ThreadsAssumption
<1>2. Up \in [T!Posted -> T!Posted] /\ \A d \in T!Posted : Up[d] = T!AnswerTo(d)
  BY AnswersAreATree DEF IsTree, Up
<1> DEFINE Step(h, n) == IF n = 0 THEN c ELSE T!AnswerTo(h[n - 1])
           hop == CHOOSE h : h = [n \in 0 .. HopLimit |-> Step(h, n)]
<1>3. T!RootOf(c) = hop[HopLimit]
  BY DEF T!RootOf
<1>4. hop = [n \in 0 .. HopLimit |-> Step(hop, n)]
  <2>1. PICK h : IsWalk(h, HopLimit, Up, T!Posted, c)
    BY <1>1, <1>2, WalkExists
  <2>2. ASSUME NEW n \in 0 .. HopLimit PROVE h[n] = Step(h, n)
    <3>1. CASE n = 0
      BY <2>1, <3>1 DEF IsWalk
    <3>2. CASE n # 0
      <4>1. n \in 1 .. HopLimit /\ n - 1 \in 0 .. HopLimit
        BY <3>2, <1>1
      <4>2. h[n] = Up[h[n - 1]] /\ h[n - 1] \in T!Posted
        BY <2>1, <4>1 DEF IsWalk
      <4> QED
        BY <1>2, <3>2, <4>2
    <3> QED
      BY <3>1, <3>2
  <2>3. h = [n \in 0 .. HopLimit |-> h[n]]
    BY <2>1 DEF IsWalk
  <2>4. h = [n \in 0 .. HopLimit |-> Step(h, n)]
    BY <2>2, <2>3
  <2> HIDE DEF Step
  <2> QED
    BY <2>4
<1>5. hop[0] = c /\ \A n \in 1 .. HopLimit : hop[n] = T!AnswerTo(hop[n - 1])
  <2> HIDE DEF hop
  <2>1. 0 \in 0 .. HopLimit /\ \A n \in 1 .. HopLimit : n \in 0 .. HopLimit /\ n # 0
    BY <1>1
  <2> QED
    BY <1>4, <2>1
<1> HIDE DEF hop
<1> DEFINE S == {n \in 0 .. HopLimit : hop[n] \in T!Posted}
<1>6. 0 .. HopLimit \subseteq S
  <2>1. 0 \in S
    BY <1>1, <1>5
  <2>2. ASSUME NEW n \in 0 .. HopLimit - 1, n \in S PROVE n + 1 \in S
    <3>1. n + 1 \in 1 .. HopLimit /\ (n + 1) - 1 = n /\ n + 1 \in 0 .. HopLimit
      BY <1>1
    <3>2. hop[n + 1] = Up[hop[n]] /\ hop[n] \in T!Posted
      BY <1>2, <1>5, <2>2, <3>1
    <3> QED
      BY <1>2, <3>1, <3>2
  <2> HIDE DEF S
  <2> QED
    BY <1>1, <2>1, <2>2, UpTo
<1> DEFINE h == [n \in 0 .. HopLimit + 1 |->
                    IF n <= HopLimit THEN hop[n] ELSE T!AnswerTo(hop[HopLimit])]
<1>7. \A n \in 0 .. HopLimit : h[n] = hop[n] /\ h[n] \in T!Posted
  BY <1>1, <1>6
<1>8. h[HopLimit + 1] = Up[hop[HopLimit]] /\ Up[hop[HopLimit]] \in T!Posted
  BY <1>1, <1>2, <1>7
<1>9. h \in [0 .. HopLimit + 1 -> T!Posted]
  <2> SUFFICES ASSUME NEW n \in 0 .. HopLimit + 1 PROVE h[n] \in T!Posted
    OBVIOUS
  <2>1. n \in 0 .. HopLimit \/ n = HopLimit + 1
    BY <1>1
  <2> HIDE DEF h
  <2> QED
    BY <1>7, <1>8, <2>1
<1>10. ASSUME NEW n \in 1 .. HopLimit + 1 PROVE h[n] = Up[h[n - 1]]
  <2>1. n - 1 \in 0 .. HopLimit /\ (n \in 1 .. HopLimit \/ n = HopLimit + 1)
    BY <1>1
  <2>2. h[n - 1] = hop[n - 1] /\ hop[n - 1] \in T!Posted
    BY <1>7, <2>1
  <2>3. CASE n \in 1 .. HopLimit
    <3>1. h[n] = hop[n]
      BY <1>1, <1>7, <2>3
    <3> HIDE DEF h
    <3> QED
      BY <1>2, <1>5, <2>2, <2>3, <3>1
  <2>4. CASE n = HopLimit + 1
    <3>1. n - 1 = HopLimit
      BY <1>1, <2>4
    <3> HIDE DEF h
    <3> QED
      BY <1>8, <2>2, <2>4, <3>1
  <2> QED
    BY <2>1, <2>3, <2>4
<1>11. h[0] = c
  BY <1>1, <1>5, <1>7
<1> HIDE DEF h
<1>12. IsWalk(h, HopLimit + 1, Up, T!Posted, c)
  BY <1>9, <1>10, <1>11 DEF IsWalk
<1>13. T!RootOf(c) = h[HopLimit]
  BY <1>1, <1>3, <1>7
<1> QED
  BY <1>12, <1>13

\* Ancestors is what a climb passes.
LEMMA AncestorsAreClimbed ==
  ASSUME ThreadInv, NEW c \in T!Posted
  PROVE  \E u : /\ IsClimb(u, Up, Len(contributions), c)
                /\ T!Ancestors(c) = u[Len(contributions)] \ {c}
<1> DEFINE N == Len(contributions)
<1>1. N \in Nat /\ T!Posted = 1 .. N /\ Up \in [1 .. N -> 1 .. N]
      /\ \A d \in T!Posted : Up[d] = T!AnswerTo(d)
  BY AnswersAreATree DEF IsTree, Up
<1> HIDE DEF N
<1>2. \A B \in SUBSET T!Posted :
        B \cup ({T!Anchor(d) : d \in B} \cap T!Posted) = Adds(Up, N)[B]
  <2> SUFFICES ASSUME NEW B \in SUBSET T!Posted
               PROVE  B \cup ({T!Anchor(d) : d \in B} \cap T!Posted) = B \cup {Up[d] : d \in B}
    BY <1>1 DEF Adds
  <2>1. \A d \in B : Up[d] = IF T!Anchor(d) \in T!Posted THEN T!Anchor(d) ELSE d
    BY <1>1 DEF T!AnswerTo
  <2> QED
    BY <2>1
<1> DEFINE Step(w, n) ==
             IF n = 0 THEN {c} ELSE w[n - 1] \cup ({T!Anchor(d) : d \in w[n - 1]} \cap T!Posted)
           up == CHOOSE w : w = [n \in 0 .. N |-> Step(w, n)]
<1>3. T!Ancestors(c) = up[N] \ {c}
  BY DEF T!Ancestors, N
<1>4. PICK u : IsClimb(u, Up, N, c)
  <2>1. {c} \in SUBSET (1 .. N) /\ Adds(Up, N) \in [SUBSET (1 .. N) -> SUBSET (1 .. N)]
    BY <1>1 DEF Adds
  <2> QED
    BY <1>1, <2>1, WalkExists DEF IsClimb
<1>5. \A n \in 0 .. N : u[n] = Step(u, n)
  <2> SUFFICES ASSUME NEW n \in 0 .. N PROVE u[n] = Step(u, n)
    OBVIOUS
  <2>1. CASE n = 0
    BY <1>4, <2>1 DEF IsClimb, IsWalk
  <2>2. CASE n # 0
    <3>1. n \in 1 .. N /\ n - 1 \in 0 .. N
      BY <1>1, <2>2
    <3>2. u[n] = Adds(Up, N)[u[n - 1]] /\ u[n - 1] \in SUBSET T!Posted
      BY <1>1, <1>4, <3>1 DEF IsClimb, IsWalk
    <3> QED
      BY <1>2, <2>2, <3>2
  <2> QED
    BY <2>1, <2>2
<1>6. u = [n \in 0 .. N |-> Step(u, n)]
  <2>1. u = [n \in 0 .. N |-> u[n]]
    BY <1>4 DEF IsClimb, IsWalk
  <2> HIDE DEF Step
  <2> QED
    BY <1>5, <2>1
<1>7. up = [n \in 0 .. N |-> Step(up, n)]
  <2> HIDE DEF Step
  <2> QED
    BY <1>6
<1>8. up = u
  <2>1. \A n \in 0 .. N : up[n] = Step(up, n)
    <3> HIDE DEF Step
    <3> HIDE DEF up
    <3> QED
      BY <1>7
  <2> HIDE DEF up
  <2> DEFINE S == {n \in 0 .. N : up[n] = u[n]}
  <2>2. 0 \in S
    <3>1. 0 \in 0 .. N
      BY <1>1
    <3>2. up[0] = {c} /\ u[0] = {c}
      BY <1>5, <2>1, <3>1
    <3> QED
      BY <3>1, <3>2
  <2>3. ASSUME NEW n \in 0 .. N - 1, n \in S PROVE n + 1 \in S
    <3>1. n + 1 \in 0 .. N /\ n + 1 # 0 /\ (n + 1) - 1 = n
      BY <1>1
    <3>2. up[n + 1] = Step(up, n + 1) /\ u[n + 1] = Step(u, n + 1)
      BY <1>5, <2>1, <3>1
    <3>3. Step(up, n + 1) = Step(u, n + 1)
      BY <2>3, <3>1
    <3> QED
      BY <3>1, <3>2, <3>3
  <2> HIDE DEF S
  <2>4. 0 .. N \subseteq S
    BY <1>1, <2>2, <2>3, UpTo
  <2>5. \A n \in 0 .. N : up[n] = u[n]
    BY <2>4 DEF S
  <2>6. up = [n \in 0 .. N |-> up[n]] /\ u = [n \in 0 .. N |-> u[n]]
    <3>1. up = [n \in 0 .. N |-> up[n]]
      <4> HIDE DEF Step
      <4> QED
        BY <1>7, <2>1
    <3> QED
      BY <3>1, <1>4 DEF IsClimb, IsWalk
  <2> QED
    BY <2>5, <2>6
<1> QED
  BY <1>3, <1>4, <1>8 DEF N

-----------------------------------------------------------------------------
(* The timeline. *)

\* A set has one number of elements, whichever module counts them.
LEMMA ThreadsCount == \A S : T!Cardinality(S) = Cardinality(S)
BY DEF T!Cardinality, Cardinality

\* Of two items one is the earlier, and earlier than earlier is earlier.
LEMMA EarlierIsAnOrder ==
  ASSUME ThreadInv
  PROVE  /\ IsFiniteSet(T!Items)
         /\ \A i \in T!Items : ~T!Earlier(i, i)
         /\ \A i, j \in T!Items : i # j => T!Earlier(i, j) \/ T!Earlier(j, i)
         /\ \A i, j, k \in T!Items : T!Earlier(i, j) /\ T!Earlier(j, k) => T!Earlier(i, k)
<1>1. /\ Len(contributions) \in Nat /\ T!Posted = 1 .. Len(contributions)
      /\ Len(work) \in Nat /\ work \in Seq(Times) /\ Times \subseteq Nat
      /\ contributions \in Seq([anchor : T!Posted \cup {None, Elsewhere}, at : Times])
  BY ReadingsAssumption DEF ThreadInv, T!TypeOK, T!Posted, T!ThreadsAssumption
<1>0. Times \subseteq Nat /\ Len(contributions) \in Nat /\ Len(work) \in Nat
  BY <1>1
<1>2. \A n \in T!Nodes : n \in Nat /\ contributions[n].at \in Nat
  <2> SUFFICES ASSUME NEW n \in T!Nodes PROVE n \in Nat /\ contributions[n].at \in Nat
    OBVIOUS
  <2>1. n \in 1 .. Len(contributions)
    BY <1>1 DEF T!Nodes
  <2>2. contributions[n] \in [anchor : T!Posted \cup {None, Elsewhere}, at : Times]
    BY <1>1, <2>1, ElementOfSeq
  <2>3. contributions[n].at \in Times
    BY <2>2
  <2>4. n \in Nat
    BY <2>1, <1>0
  <2> QED
    BY <1>0, <2>3, <2>4
<1>3. \A w \in 1 .. Len(work) : w \in Nat /\ work[w] \in Nat
  <2> SUFFICES ASSUME NEW w \in 1 .. Len(work) PROVE w \in Nat /\ work[w] \in Nat
    OBVIOUS
  <2>1. work[w] \in Times
    BY <1>1, ElementOfSeq
  <2>2. w \in Nat
    BY <1>0
  <2> QED
    BY <1>0, <2>1, <2>2
<1> DEFINE IsItem(i) == /\ i.at \in Nat /\ i.place \in Nat /\ i.of \in {"node", "work"}
                        /\ i = [of |-> i.of, place |-> i.place, at |-> i.at]
<1>4. \A i \in T!Items : IsItem(i)
  BY <1>2, <1>3 DEF T!Items
<1> HIDE DEF IsItem
<1>5. \A i \in T!Items : ~T!Earlier(i, i)
  BY <1>4 DEF T!Earlier, IsItem
<1>6. ASSUME NEW i \in T!Items, NEW j \in T!Items, i # j
      PROVE  T!Earlier(i, j) \/ T!Earlier(j, i)
  <2>1. i.at # j.at \/ i.of # j.of \/ i.place # j.place
    BY <1>4, <1>6 DEF IsItem
  <2> QED
    BY <1>4, <2>1 DEF T!Earlier, IsItem
<1>7. ASSUME NEW i \in T!Items, NEW j \in T!Items, NEW k \in T!Items,
             T!Earlier(i, j), T!Earlier(j, k)
      PROVE  T!Earlier(i, k)
  BY <1>4, <1>7 DEF T!Earlier, IsItem
<1>8. IsFiniteSet(T!Items)
  <2> DEFINE node(n) == [of |-> "node", place |-> n, at |-> contributions[n].at]
             task(w) == [of |-> "work", place |-> w, at |-> work[w]]
  <2>1. IsFiniteSet(1 .. Len(contributions)) /\ IsFiniteSet(1 .. Len(work))
    <3>1. 1 \in Int /\ Len(contributions) \in Int /\ Len(work) \in Int
      BY <1>1
    <3> QED
      BY <3>1, FS_Interval
  <2>2. IsFiniteSet(T!Nodes)
    <3>1. T!Nodes \in SUBSET (1 .. Len(contributions))
      BY <1>1 DEF T!Nodes
    <3> QED
      BY <2>1, <3>1, FS_Subset
  <2>3. IsFiniteSet({node(n) : n \in T!Nodes})
    <3> DEFINE F == {node(n) : n \in T!Nodes}
               g == [n \in T!Nodes |-> node(n)]
    <3>1. g \in Surjection(T!Nodes, F)
      BY DEF Surjection
    <3> HIDE DEF g, F
    <3>2. IsFiniteSet(F)
      BY <2>2, <3>1, FS_Surjection
    <3> QED
      BY <3>2 DEF F
  <2>4. IsFiniteSet({task(w) : w \in 1 .. Len(work)})
    <3> DEFINE F == {task(w) : w \in 1 .. Len(work)}
               g == [w \in 1 .. Len(work) |-> task(w)]
    <3>1. g \in Surjection(1 .. Len(work), F)
      BY DEF Surjection
    <3> HIDE DEF g, F
    <3>2. IsFiniteSet(F)
      BY <2>1, <3>1, FS_Surjection
    <3> QED
      BY <3>2 DEF F
  <2>5. T!Items = {node(n) : n \in T!Nodes} \cup {task(w) : w \in 1 .. Len(work)}
    BY DEF T!Items
  <2> QED
    BY <2>3, <2>4, <2>5, FS_Union
<1> QED
  BY <1>5, <1>6, <1>7, <1>8

\* The sort shows every item, once.
LEMMA SortKeepsEverything ==
  ASSUME ThreadInv
  PROVE  /\ Cardinality(T!Items) \in Nat
         /\ T!Timeline \in [1 .. Cardinality(T!Items) -> T!Items]
         /\ \A i \in T!Items : \E k \in DOMAIN T!Timeline : T!Timeline[k] = i
         /\ \A k, m \in DOMAIN T!Timeline : T!Timeline[k] = T!Timeline[m] => k = m
<1> DEFINE C == Cardinality(T!Items)
           Line == T!Timeline
           Under(i) == {j \in T!Items : T!Earlier(j, i)}
<1>1. IsFiniteSet(T!Items) /\ C \in Nat
  BY EarlierIsAnOrder, FS_CardinalityType
<1>2. \A i \in T!Items : T!Above(i) = Cardinality(Under(i))
  BY ThreadsCount DEF T!Above
<1>3. \A i \in T!Items : IsFiniteSet(Under(i)) /\ T!Above(i) \in 0 .. C - 1
  <2> SUFFICES ASSUME NEW i \in T!Items
               PROVE  IsFiniteSet(Under(i)) /\ T!Above(i) \in 0 .. C - 1
    OBVIOUS
  <2>1. Under(i) \in SUBSET T!Items /\ i \notin Under(i)
    BY EarlierIsAnOrder
  <2> HIDE DEF Under
  <2>2. IsFiniteSet(Under(i)) /\ Cardinality(Under(i)) <= C
    BY <1>1, <2>1, FS_Subset
  <2>3. Cardinality(Under(i)) # C
    BY <1>1, <2>1, FS_Subset
  <2>4. Cardinality(Under(i)) \in Nat
    BY <2>2, FS_CardinalityType
  <2> QED
    BY <1>1, <1>2, <2>2, <2>3, <2>4
<1>4. ASSUME NEW i \in T!Items, NEW j \in T!Items, T!Earlier(i, j)
      PROVE  T!Above(i) < T!Above(j)
  <2>1. Under(i) \in SUBSET Under(j) /\ i \in Under(j) /\ i \notin Under(i)
    BY <1>4, EarlierIsAnOrder
  <2>2. IsFiniteSet(Under(i)) /\ IsFiniteSet(Under(j))
    BY <1>3
  <2> HIDE DEF Under
  <2>3. Cardinality(Under(i)) <= Cardinality(Under(j))
    BY <2>1, <2>2, FS_Subset
  <2>4. Cardinality(Under(i)) # Cardinality(Under(j))
    BY <2>1, <2>2, FS_Subset
  <2>5. Cardinality(Under(i)) \in Nat /\ Cardinality(Under(j)) \in Nat
    BY <2>2, FS_CardinalityType
  <2> QED
    BY <1>2, <2>3, <2>4, <2>5
<1> HIDE DEF Under
<1>5. \A i, j \in T!Items : T!Above(i) = T!Above(j) => i = j
  <2> SUFFICES ASSUME NEW i \in T!Items, NEW j \in T!Items, i # j PROVE T!Above(i) # T!Above(j)
    OBVIOUS
  <2>1. T!Above(i) < T!Above(j) \/ T!Above(j) < T!Above(i)
    BY <1>4, EarlierIsAnOrder
  <2>2. T!Above(i) \in Int /\ T!Above(j) \in Int
    BY <1>1, <1>3
  <2> QED
    BY <2>1, <2>2
<1>6. \A k \in 1 .. C : \E i \in T!Items : T!Above(i) = k - 1
  <2> DEFINE g == [i \in T!Items |-> T!Above(i) + 1]
  <2>1. g \in Injection(T!Items, 1 .. C)
    <3>1. \A i \in T!Items : g[i] \in 1 .. C /\ T!Above(i) \in Int
      BY <1>1, <1>3
    <3>2. \A i, j \in T!Items : g[i] = g[j] => i = j
      BY <1>5, <3>1
    <3>3. g \in [T!Items -> 1 .. C]
      BY <3>1
    <3> HIDE DEF g
    <3> QED
      BY <3>2, <3>3 DEF Injection, IsInjective
  <2>2. IsFiniteSet(1 .. C) /\ Cardinality(1 .. C) = C
    <3>1. 1 \in Int /\ C \in Int /\ C - 1 + 1 = C
      BY <1>1
    <3> QED
      BY <1>1, <3>1, FS_Interval
  <2> HIDE DEF g
  <2>3. g \in Surjection(T!Items, 1 .. C)
    BY <2>1, <2>2, FS_Injection
  <2>4. \A k \in 1 .. C : \E i \in T!Items : g[i] = k
    BY <2>3 DEF Surjection
  <2>5. \A i \in T!Items : g[i] = T!Above(i) + 1 /\ T!Above(i) \in Int
    BY <1>1, <1>3 DEF g
  <2> QED
    BY <1>1, <2>4, <2>5
<1>7. Line = [k \in 1 .. C |-> CHOOSE i \in T!Items : T!Above(i) = k - 1]
  BY ThreadsCount DEF T!Timeline
<1> HIDE DEF C, Line
<1>8. \A k \in 1 .. C : Line[k] \in T!Items /\ T!Above(Line[k]) = k - 1
  <2> SUFFICES ASSUME NEW k \in 1 .. C PROVE Line[k] \in T!Items /\ T!Above(Line[k]) = k - 1
    OBVIOUS
  <2>1. Line[k] = CHOOSE i \in T!Items : T!Above(i) = k - 1
    BY <1>7
  <2>2. PICK i \in T!Items : T!Above(i) = k - 1
    BY <1>6
  <2> QED
    BY <2>1, <2>2
<1>9. Line \in [1 .. C -> T!Items] /\ DOMAIN Line = 1 .. C
  <2>1. DOMAIN Line = 1 .. C /\ Line = [k \in 1 .. C |-> Line[k]]
    BY <1>7
  <2> QED
    BY <1>8, <2>1
<1>10. \A i \in T!Items : \E k \in 1 .. C : Line[k] = i
  <2> SUFFICES ASSUME NEW i \in T!Items PROVE \E k \in 1 .. C : Line[k] = i
    OBVIOUS
  <2>1. T!Above(i) + 1 \in 1 .. C /\ (T!Above(i) + 1) - 1 = T!Above(i)
    BY <1>1, <1>3 DEF C
  <2> QED
    BY <1>5, <1>8, <2>1
<1>11. \A k, m \in 1 .. C : Line[k] = Line[m] => k = m
  <2> SUFFICES ASSUME NEW k \in 1 .. C, NEW m \in 1 .. C, Line[k] = Line[m] PROVE k = m
    OBVIOUS
  <2>1. k - 1 = m - 1
    BY <1>8
  <2> QED
    BY <2>1, <1>1 DEF C
<1> QED
  BY <1>1, <1>9, <1>10, <1>11 DEF C, Line

-----------------------------------------------------------------------------
(* Nothing is dropped. *)

\* A message whose chain rootOf can walk comes under one that answers nothing.
LEMMA RootStands ==
  ASSUME ThreadInv, NEW c \in T!Posted, Cardinality(T!Ancestors(c)) <= HopLimit
  PROVE  /\ T!RootOf(c) \in T!Posted /\ T!AnswerTo(T!RootOf(c)) = T!RootOf(c)
         /\ T!RootOf(c) \in T!Ancestors(c) \cup {c}
         /\ T!Ancestors(c) = {} <=> T!AnswerTo(c) = c
<1>1. IsTree(Up, Len(contributions)) /\ T!Posted = 1 .. Len(contributions)
      /\ HopLimit \in Nat
  BY AnswersAreATree, ReadingsAssumption DEF T!ThreadsAssumption
<1>2. \A d \in T!Posted : Up[d] = T!AnswerTo(d)
  BY DEF Up
<1>3. PICK h : IsWalk(h, HopLimit + 1, Up, T!Posted, c) /\ T!RootOf(c) = h[HopLimit]
  BY RootIsWalked
<1>4. PICK u : /\ IsClimb(u, Up, Len(contributions), c)
               /\ T!Ancestors(c) = u[Len(contributions)] \ {c}
  BY AncestorsAreClimbed
<1>5. h[HopLimit + 1] = h[HopLimit]
  BY <1>1, <1>3, <1>4, WalkStands
<1>6. /\ HopLimit \in 0 .. HopLimit + 1 /\ HopLimit + 1 \in 1 .. HopLimit + 1
      /\ (HopLimit + 1) - 1 = HopLimit /\ HopLimit + 1 \in Nat
  BY <1>1
<1>7. h[HopLimit] \in T!Posted /\ h[HopLimit + 1] = Up[h[HopLimit]]
  BY <1>3, <1>6 DEF IsWalk
<1>8. h[HopLimit] \in u[Len(contributions)]
  BY <1>1, <1>3, <1>4, <1>6, ClimbMeetsWalk
<1>9. u[Len(contributions)] \ {c} = {} <=> Up[c] = c
  BY <1>1, <1>4, ClimbFromTheTop
<1> QED
  BY <1>2, <1>3, <1>4, <1>5, <1>7, <1>8, <1>9

\* What answers nothing is its own root.
LEMMA TopIsItsRoot ==
  ASSUME ThreadInv, NEW c \in T!Posted, T!AnswerTo(c) = c
  PROVE  T!RootOf(c) = c
<1>1. HopLimit \in Nat /\ Up[c] = c
  BY ReadingsAssumption DEF T!ThreadsAssumption, Up
<1>2. PICK h : IsWalk(h, HopLimit + 1, Up, T!Posted, c) /\ T!RootOf(c) = h[HopLimit]
  BY RootIsWalked
<1> DEFINE S == {n \in 0 .. HopLimit : h[n] = c}
<1>3. 0 \in S
  BY <1>1, <1>2 DEF IsWalk
<1>4. ASSUME NEW n \in 0 .. HopLimit - 1, n \in S PROVE n + 1 \in S
  <2>1. n + 1 \in 1 .. HopLimit + 1 /\ n + 1 \in 0 .. HopLimit /\ (n + 1) - 1 = n
    BY <1>1
  <2>2. h[n + 1] = Up[h[n]]
    BY <1>2, <2>1 DEF IsWalk
  <2> QED
    BY <1>1, <1>4, <2>1, <2>2
<1> HIDE DEF S
<1>5. HopLimit \in S
  <2>1. 0 .. HopLimit \subseteq S
    BY <1>1, <1>3, <1>4, UpTo
  <2> QED
    BY <1>1, <2>1
<1> QED
  BY <1>2, <1>5 DEF S

\* Every contribution stands on the timeline once.
LEMMA EverythingIsShown == ThreadInv => T!NothingDropped
<1> SUFFICES ASSUME ThreadInv, NEW c \in T!Posted, Cardinality(T!Ancestors(c)) <= HopLimit
             PROVE  T!Shown(c) = 1
  BY ThreadsCount DEF T!NothingDropped
<1> DEFINE line == T!Timeline
           r == T!RootOf(c)
           stands(i) == IF line[i].place = c THEN T!Ancestors(c) = {}
                        ELSE c \in T!Replies(line[i].place) /\ line[i].place \in T!Ancestors(c)
           At == {i \in 1 .. Len(line) : line[i].of = "node" /\ stands(i)}
<1>1. r \in T!Posted /\ T!AnswerTo(r) = r /\ r \in T!Ancestors(c) \cup {c}
      /\ (T!Ancestors(c) = {} <=> T!AnswerTo(c) = c)
  BY RootStands
<1>2. r \in T!Nodes /\ (T!AnswerTo(c) = c => r = c) /\ (r = c => T!AnswerTo(c) = c)
  BY <1>1, TopIsItsRoot DEF T!Nodes
<1>3. Len(line) \in Nat /\ DOMAIN line = 1 .. Len(line)
      /\ \A i \in 1 .. Len(line) : line[i] \in T!Items
  <2>1. line \in Seq(T!Items)
    BY SortKeepsEverything
  <2> HIDE DEF line
  <2> QED
    BY <2>1
<1> HIDE DEF line
<1>4. \A i \in T!Items : i.of = "node" =>
        i = [of |-> "node", place |-> i.place, at |-> contributions[i.place].at]
  BY DEF T!Items
<1>5. PICK k \in 1 .. Len(line) : line[k].of = "node" /\ line[k].place = r
  <2> DEFINE item == [of |-> "node", place |-> r, at |-> contributions[r].at]
  <2>1. item \in T!Items
    BY <1>2 DEF T!Items
  <2>2. PICK k \in DOMAIN line : line[k] = item
    BY <2>1, SortKeepsEverything DEF line
  <2> QED
    BY <1>3, <2>2
<1>6. stands(k)
  <2>1. CASE r = c
    BY <1>1, <1>2, <1>5, <2>1
  <2>2. CASE r # c
    BY <1>1, <1>5, <2>2 DEF T!Replies
  <2> QED
    BY <2>1, <2>2
<1>7. ASSUME NEW i \in 1 .. Len(line), line[i].of = "node", stands(i) PROVE i = k
  <2>1. line[i].place = r
    <3>1. CASE line[i].place = c
      BY <1>1, <1>2, <1>7, <3>1
    <3>2. CASE line[i].place # c
      BY <1>7, <3>2 DEF T!Replies
    <3> QED
      BY <3>1, <3>2
  <2>2. line[i] = line[k]
    BY <1>3, <1>4, <1>5, <1>7, <2>1
  <2> QED
    BY <1>3, <2>2, SortKeepsEverything DEF line
<1>8. At = {k}
  BY <1>5, <1>6, <1>7
<1>9. T!Shown(c) = Cardinality(At)
  BY ThreadsCount DEF T!Shown, line
<1> HIDE DEF At
<1> QED
  BY <1>8, <1>9, FS_Singleton

-----------------------------------------------------------------------------
(* The composer. *)

\* The people in the room are those who spoke, opened work or took it on.
InRoom(p) ==
    \/ \E i \in DOMAIN said : said[i] = p
    \/ \E i \in DOMAIN taken : taken[i].author = p \/ taken[i].owner = p

\* Whoever the record speaks of anywhere is in the room.
LEMMA RoomIsHeard == \A p \in Personas : p \in P!Room <=> InRoom(p)
BY DEF P!Room, P!Heard, InRoom

\* So it is after any step.
LEMMA RoomIsHeardNext == (\A p \in Personas : p \in P!Room <=> InRoom(p))'
BY RoomIsHeard, PTL

\* A name of somebody's: their handle, or what the directory says or said.
IsNameOf(name, p) == name \in {p, Called(p)}

\* Who stands in the text or under the box is in the room, under a name of theirs.
PickerInv ==
    /\ P!TypeOK
    /\ \A m \in body : m.of \in P!Room /\ IsNameOf(m.says, m.of)
    /\ \A row \in offer : row.persona \in P!Room /\ IsNameOf(row.name, row.persona)

\* Nobody leaves the room.
LEMMA RoomGrows ==
  ASSUME P!TypeOK, [P!Next]_(P!vars)
  PROVE  P!Room \subseteq P!Room'
<1>1. /\ said \in Seq(Personas) /\ Len(said) \in Nat /\ Len(taken) \in Nat
      /\ taken \in Seq([author : Workers, owner : Workers \cup {None}])
  BY DEF P!TypeOK
<1>2. /\ said' = said \/ \E p \in Personas : said' = Append(said, p)
      /\ \/ taken' = taken
         \/ \E p \in Workers, owner \in Workers \cup {None} :
                taken' = Append(taken, [author |-> p, owner |-> owner])
  BY DEF P!Next, P!vars, P!Speaks, P!Named, P!Unnamed, P!TypesName, P!TakesOnWork, P!Suggests, P!Picks,
         P!Deletes, P!Posts
<1>3. \A i \in DOMAIN said : i \in DOMAIN said' /\ said'[i] = said[i]
  <2>1. ASSUME NEW p, said' = Append(said, p)
        PROVE  \A i \in DOMAIN said : i \in DOMAIN said' /\ said'[i] = said[i]
    BY <1>1, <2>1
  <2> QED
    BY <1>2, <2>1
<1>4. \A i \in DOMAIN taken : i \in DOMAIN taken' /\ taken'[i] = taken[i]
  <2>1. ASSUME NEW w, taken' = Append(taken, w)
        PROVE  \A i \in DOMAIN taken : i \in DOMAIN taken' /\ taken'[i] = taken[i]
    BY <1>1, <2>1
  <2> QED
    BY <1>2, <2>1
<1>5. ASSUME NEW p \in P!Room PROVE p \in P!Room'
  <2>1. p \in Personas
    BY DEF P!Room
  <2>2. InRoom(p)
    BY <2>1, RoomIsHeard
  <2>3. InRoom(p)'
    BY <1>3, <1>4, <2>2 DEF InRoom
  <2>4. (\A q \in Personas : q \in P!Room <=> InRoom(q))'
    BY RoomIsHeardNext
  <2> QED
    BY <2>1, <2>3, <2>4
<1> QED
  BY <1>2, <1>5

\* What anybody is called now is a name of theirs.
LEMMA NameIsOf ==
  ASSUME NEW p \in Personas
  PROVE  IsNameOf(P!Name(p), p) /\ P!Name(p) \in P!Names
BY DEF IsNameOf, P!Name, P!Names

\* Every step of the composer, or of the record under it, keeps this.
LEMMA ComposerKeeps ==
  ASSUME PickerInv, [P!Next]_(P!vars)
  PROVE  PickerInv'
<1>1. /\ said \in Seq(Personas) /\ IsInjective(said)
      /\ taken \in Seq([author : Workers, owner : Workers \cup {None}])
      /\ named \subseteq Personas
      /\ offer \subseteq [persona : Personas \ {Me}, name : P!Names]
      /\ body \subseteq [says : P!Names, of : Personas]
      /\ picks \subseteq Personas /\ tapped \subseteq Personas
      /\ Len(said) \in Nat
  BY DEF PickerInv, P!TypeOK, P!IsInjective, IsInjective
<1>2. P!Room \subseteq P!Room' /\ P!Room \subseteq Personas
  BY RoomGrows DEF PickerInv, P!Room
<1>3. \A name, p : IsNameOf(name, p) => IsNameOf(name, p)'
  BY DEF IsNameOf
<1>4. /\ \A m \in body : m.of \in P!Room' /\ IsNameOf(m.says, m.of)'
      /\ \A row \in offer : row.persona \in P!Room' /\ IsNameOf(row.name, row.persona)'
  BY <1>2, <1>3 DEF PickerInv
<1>5. ASSUME UNCHANGED <<offer, body, picks, tapped>>,
             said' \in Seq(Personas) /\ IsInjective(said'),
             taken' \in Seq([author : Workers, owner : Workers \cup {None}]),
             named' \subseteq Personas
      PROVE  PickerInv'
  BY <1>1, <1>4, <1>5 DEF PickerInv, P!TypeOK, P!Names, P!IsInjective, IsInjective
<1>6. ASSUME UNCHANGED <<said, taken, named>>,
             body' \subseteq [says : P!Names, of : Personas],
             offer' \subseteq [persona : Personas \ {Me}, name : P!Names],
             picks' \subseteq Personas, tapped' \subseteq Personas,
             \A m \in body' \ body : m.of \in P!Room /\ IsNameOf(m.says, m.of),
             \A row \in offer' \ offer :
                row.persona \in P!Room /\ IsNameOf(row.name, row.persona)
      PROVE  PickerInv'
  <2>1. P!TypeOK'
    BY <1>1, <1>6 DEF P!TypeOK, P!Names, P!IsInjective, IsInjective
  <2>2. \A m \in body' : m.of \in P!Room' /\ IsNameOf(m.says, m.of)'
    BY <1>2, <1>3, <1>4, <1>6
  <2>3. \A row \in offer' : row.persona \in P!Room' /\ IsNameOf(row.name, row.persona)'
    BY <1>2, <1>3, <1>4, <1>6
  <2> QED
    BY <2>1, <2>2, <2>3 DEF PickerInv
<1>7. ASSUME NEW p \in Personas, P!Speaks(p) PROVE PickerInv'
  <2>1. /\ said' = Append(said, p) /\ UNCHANGED <<taken, named, offer, body, picks, tapped>>
        /\ \A i \in DOMAIN said : said[i] # p
    BY <1>7 DEF P!Speaks, P!Range
  <2>2. said' \in Seq(Personas) /\ Len(said') = Len(said) + 1
    BY <1>1, <2>1
  <2>3. IsInjective(said')
    BY <1>1, <2>1, <2>2 DEF IsInjective
  <2> QED
    BY <1>1, <1>5, <2>1, <2>2, <2>3
<1>8. ASSUME NEW p \in Personas, P!Named(p) \/ P!Unnamed(p) PROVE PickerInv'
  BY <1>1, <1>5, <1>8 DEF P!Named, P!Unnamed
<1>9. ASSUME NEW p \in Personas, P!TypesName(p) PROVE PickerInv'
  BY <1>1, <1>6, <1>9, NameIsOf DEF P!TypesName
<1>10. ASSUME NEW p \in Workers, NEW owner \in Workers \cup {None}, P!TakesOnWork(p, owner)
       PROVE  PickerInv'
  BY <1>1, <1>5, <1>10 DEF P!TakesOnWork
<1>11. ASSUME NEW q \in Fragments, P!Suggests(q) PROVE PickerInv'
  <2>1. /\ \/ offer' = {[persona |-> p, name |-> P!Name(p)] : p \in P!Suggestions(q)}
           \/ offer' = {}
        /\ UNCHANGED <<said, taken, named, body, picks, tapped>>
    BY <1>11 DEF P!Suggests, P!Offer
  <2>2. P!Suggestions(q) \subseteq P!Room \ {Me}
    BY DEF P!Suggestions
  <2>3. \A row \in offer' : /\ row \in [persona : Personas \ {Me}, name : P!Names]
                            /\ row.persona \in P!Room /\ IsNameOf(row.name, row.persona)
    BY <1>2, <2>1, <2>2, NameIsOf
  <2> QED
    BY <1>1, <1>6, <2>1, <2>3
<1>12. ASSUME NEW row \in offer, P!Picks(row) PROVE PickerInv'
  <2>1. /\ body' = body \cup {[says |-> row.name, of |-> row.persona]}
        /\ picks' = picks \cup {row.persona} /\ offer' = {} /\ tapped' = {}
        /\ UNCHANGED <<said, taken, named>>
    BY <1>12 DEF P!Picks
  <2>2. row.persona \in P!Room /\ IsNameOf(row.name, row.persona)
    BY DEF PickerInv
  <2>3. row.persona \in Personas /\ row.name \in P!Names
    BY <1>1
  <2> QED
    BY <1>1, <1>6, <2>1, <2>2, <2>3
<1>13. ASSUME NEW m \in body, P!Deletes(m) PROVE PickerInv'
  BY <1>1, <1>6, <1>13 DEF P!Deletes
<1>14. ASSUME NEW people \in P!PeopleIn, P!Posts(people) PROVE PickerInv'
  <2>1. /\ P!ResolveMentions(body, picks, people) \subseteq Personas
        /\ P!Handles(body) \subseteq Personas
    BY <1>2 DEF P!ResolveMentions, P!Handles, P!PeopleIn
  <2> QED
    BY <1>1, <1>6, <1>14, <2>1 DEF P!Posts
<1>15. CASE UNCHANGED P!vars
  BY <1>1, <1>5, <1>15 DEF P!vars
<1> QED
  BY <1>7, <1>8, <1>9, <1>10, <1>11, <1>12, <1>13, <1>14, <1>15 DEF P!Next

\* A name in the room stands for itself.
LEMMA NamesReadThemselves ==
  ASSUME NEW p \in Personas
  PROVE  P!Name(p) \in Begins(P!Name(p))
BY ReadingsAssumption DEF P!PickerAssumption, P!Name

\* Where the names are plain, whoever a text of the room's names is read to speak
\* of is one of those it is about: nothing read out of one names another, and
\* nobody's name is somebody else's handle.
LEMMA PlainTapsNoOther ==
  ASSUME PickerInv, P!Plain, NEW people \in P!PeopleIn
  PROVE  P!ResolveMentions(body, picks, people) \cup P!Handles(body) \subseteq P!Meant
<1>1. \A m \in body : m.of \in P!Room /\ m.says \in P!GoesBy(m.of)
  BY DEF PickerInv, P!GoesBy
<1>2. ASSUME NEW p \in P!Room, P!NamedIn(body, P!Name(p))
      PROVE  p \in P!Meant
  <2>1. PICK m \in body : P!Name(p) \in Begins(m.says)
    BY <1>2 DEF P!NamedIn
  <2>2. p # m.of => P!Name(p) \notin Begins(m.says)
    BY <1>1 DEF P!Plain
  <2> QED
    BY <2>1, <2>2 DEF P!Meant
<1>3. ASSUME NEW p \in P!Handles(body)
      PROVE  p \in P!Meant
  <2>1. PICK m \in body : m.says = p
    BY DEF P!Handles
  <2>2. p \in Personas
    BY DEF P!Handles
  <2>3. p = m.of
    BY <1>1, <2>1, <2>2 DEF P!Plain
  <2> QED
    BY <2>1, <2>3 DEF P!Meant
<1>4. P!ResolveMentions(body, picks, people) \subseteq
        {p \in P!Room : P!NamedIn(body, P!Name(p))}
  BY DEF P!ResolveMentions, P!PeopleIn
<1> QED
  BY <1>2, <1>3, <1>4

\* And where the people could be read, all of those it is about are found.
LEMMA PlainTapsTheMeant ==
  ASSUME PickerInv, P!Plain
  PROVE  P!Meant \subseteq P!ResolveMentions(body, picks, P!Room) \cup P!Handles(body)
<1> SUFFICES ASSUME NEW m \in body, m.says = m.of \/ P!Name(m.of) \in Begins(m.says)
             PROVE  m.of \in P!ResolveMentions(body, picks, P!Room) \cup P!Handles(body)
  BY DEF P!Meant
<1>1. m.of \in P!Room /\ m.of \in Personas
  BY DEF PickerInv, P!Room
<1>2. CASE m.says = m.of
  BY <1>1, <1>2 DEF P!Handles
<1>3. CASE P!Name(m.of) \in Begins(m.says)
  <2>1. P!NamedIn(body, P!Name(m.of))
    BY <1>3 DEF P!NamedIn
  <2>2. ASSUME NEW p \in P!Room, P!Name(p) = P!Name(m.of) PROVE p = m.of
    <3>1. P!Name(p) \in Begins(P!Name(p)) /\ P!Name(p) \in P!GoesBy(p)
      BY NamesReadThemselves DEF P!Room, P!GoesBy
    <3> QED
      BY <1>1, <2>2, <3>1 DEF P!Plain
  <2>3. P!Answering(P!Room, P!Name(m.of)) = {m.of}
    BY <1>1, <2>2 DEF P!Answering
  <2> QED
    BY <1>1, <2>1, <2>3 DEF P!ResolveMentions
<1> QED
  BY <1>2, <1>3

\* A pick still named is tapped, whoever else shares the name.
LEMMA PickIsTapped ==
  ASSUME PickerInv, NEW people \in P!PeopleIn, NEW m \in body,
         m.of \in picks \cap people, m.says = P!Name(m.of)
  PROVE  m.of \in P!ResolveMentions(body, picks, people)
<1>1. m.of \in Personas
  BY DEF P!Room, P!PeopleIn
<1>2. P!NamedIn(body, P!Name(m.of))
  BY <1>1, NamesReadThemselves DEF P!NamedIn
<1> QED
  BY <1>2 DEF P!ResolveMentions

-----------------------------------------------------------------------------
(* The three together. *)

ReadingsInv == IInv /\ ThreadInv /\ PickerInv

\* Nothing is written, said or read at first.
LEMMA ReadingsStart == ReadingsInit => ReadingsInv
<1> SUFFICES ASSUME ReadingsInit PROVE ReadingsInv
  OBVIOUS
<1>1. IInv
  BY StartsWell DEF ReadingsInit
<1>2. contributions = <<>> /\ work = <<>>
  BY DEF ReadingsInit, T!Init
<1>3. ThreadInv
  BY <1>2 DEF ThreadInv, T!TypeOK, T!Posted
<1>4. /\ said = <<>> /\ taken = <<>> /\ named = {}
      /\ offer = {} /\ body = {} /\ picks = {} /\ tapped = {}
  BY DEF ReadingsInit, P!Init
<1>5. IsInjective(said)
  BY <1>4 DEF IsInjective
<1>6. PickerInv
  BY <1>4, <1>5 DEF PickerInv, P!TypeOK, P!IsInjective, IsInjective
<1> QED
  BY <1>1, <1>3, <1>6 DEF ReadingsInv

\* A step is of one of them, and the others stand.
LEMMA ReadingsKeep == ReadingsInv /\ [ReadingsNext]_readingsVars => ReadingsInv'
<1> SUFFICES ASSUME ReadingsInv, [ReadingsNext]_readingsVars PROVE ReadingsInv'
  OBVIOUS
<1>1. [Next]_vars /\ [T!Next]_threadVars /\ [P!Next]_pickVars
  BY DEF ReadingsNext, WalkNext, ThreadNext, ComposerNext, readingsVars
<1>2. [P!Next]_(P!vars)
  BY <1>1 DEF pickVars, P!vars
<1>3. IInv' /\ ThreadInv'
  BY <1>1, StepsKeep, ThreadKeeps DEF ReadingsInv
<1>4. PickerInv'
  BY <1>2, ComposerKeeps DEF ReadingsInv
<1> QED
  BY <1>3, <1>4 DEF ReadingsInv

\* The invariants of the three, always.
LEMMA ReadingsAlways == ReadingsSpec => []ReadingsInv
BY ReadingsStart, ReadingsKeep, PTL DEF ReadingsSpec

\* The walk, the thread and the composer keep their types.
THEOREM ReadingsTypeCorrect == ReadingsSpec => []ReadingsTypeOK
<1>1. ReadingsInv => ReadingsTypeOK
  BY DEF ReadingsInv, IInv, ThreadInv, PickerInv, ReadingsTypeOK
<1> QED
  BY <1>1, ReadingsAlways, PTL

\* Every contribution stands on the timeline once, an answer under the message
\* it ultimately answers: in a conversation of any length, with answers pointing
\* anywhere and clocks that lag, as long as no chain is longer than rootOf walks.
THEOREM EverythingStands == ReadingsSpec => []NothingDropped
<1>1. ReadingsInv => NothingDropped
  BY EverythingIsShown DEF ReadingsInv, NothingDropped
<1> QED
  BY <1>1, ReadingsAlways, PTL

\* A message taps the picks it still names and, where the names of the room are
\* plain, nobody it was not meant for; all of that where the people could be read,
\* the latter always: for any people, any names and any way of reading one out of
\* another, whoever joins, comes to be named or is named no more meanwhile.
THEOREM AlwaysTapsWhoWasMeant == ReadingsSpec => TapsWhoWasMeant
<1> DEFINE TapsThem(people) ==
        /\ \A m \in body :
            m.of \in picks \cap people /\ m.says = P!Name(m.of) => m.of \in tapped'
        /\ P!Plain => tapped' \subseteq P!Meant /\ (people = P!Room => tapped' = P!Meant)
<1>1. ReadingsInv /\ [ReadingsNext]_readingsVars =>
        [\A people \in P!PeopleIn : P!Posts(people) => TapsThem(people)]_(P!vars)
  <2> SUFFICES ASSUME PickerInv, NEW people \in P!PeopleIn, P!Posts(people)
               PROVE  TapsThem(people)
    BY DEF ReadingsInv
  <2>1. tapped' = P!ResolveMentions(body, picks, people) \cup P!Handles(body)
    BY DEF P!Posts
  <2>2. \A m \in body : m.of \in picks \cap people /\ m.says = P!Name(m.of) => m.of \in tapped'
    BY <2>1, PickIsTapped
  <2>3. P!Plain => tapped' \subseteq P!Meant
    BY <2>1, PlainTapsNoOther
  <2>4. P!Plain /\ people = P!Room => P!Meant \subseteq tapped'
    BY <2>1, PlainTapsTheMeant
  <2> QED
    BY <2>2, <2>3, <2>4
<1> QED
  BY <1>1, ReadingsAlways, PTL DEF ReadingsSpec, TapsWhoWasMeant, P!TapsWhoWasMeant
=============================================================================
