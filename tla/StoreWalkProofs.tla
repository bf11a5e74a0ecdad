-------------------------- MODULE StoreWalkProofs ---------------------------
(***************************************************************************)
(* Proofs about Subjects and StoreWalk: for any patterns, page sizes, scan *)
(* limit and store, whatever is written or compacted during the walk.      *)
(***************************************************************************)
EXTENDS StoreWalk, FiniteSetTheorems, WellFoundedInduction, TLAPS

-----------------------------------------------------------------------------
(* Lemmas about the operators. *)

\* The least element of a set of numbers is one of it, and none is less.
LEMMA MinProperty ==
  ASSUME NEW S \in SUBSET Nat, S # {}
  PROVE  Min(S) \in S /\ \A y \in S : Min(S) <= y
<1>1. PICK x \in S : \A y \in S : ~(<<y, x>> \in OpToRel(<, Nat))
  BY WFMin, NatLessThanWellFounded
<1>2. \A y \in S : x <= y
  <2> SUFFICES ASSUME NEW y \in S PROVE x <= y
    OBVIOUS
  <2>1. ~(y < x)
    BY <1>1 DEF OpToRel
  <2> QED
    BY <2>1
<1> QED
  BY <1>2 DEF Min

\* The loop over a pattern that passed CheckPattern (read.go subjectMatches)
\* accepts the subjects the pattern stands for, and no other.
THEOREM MatchesWhatItCovers ==
  ASSUME NEW pattern \in Seq(STRING), pattern # <<>>, CheckPattern(pattern),
         NEW subject \in Seq(STRING)
  PROVE  SubjectMatches(pattern, subject) <=> Covers(pattern, subject)
<1> DEFINE decides(i) == \/ pattern[i] = ">"
                         \/ i > Len(subject)
                         \/ pattern[i] \notin {"*", subject[i]}
           D == [i \in DOMAIN pattern |-> decides(i)]
           I == {i \in 1 .. Len(D) : D[i]}
           d == IF I # {} THEN Min(I) ELSE 0
           n == Len(pattern)
<1>1. /\ n \in Nat /\ n >= 1 /\ DOMAIN pattern = 1 .. n
      /\ Len(subject) \in Nat
  OBVIOUS
<1>2. Len(D) = n /\ \A i \in 1 .. n : D[i] <=> decides(i)
  <2>1. DOMAIN D = 1 .. n
    BY <1>1
  <2>2. D \in Seq(BOOLEAN)
    BY <1>1, <2>1
  <2> QED
    BY <2>1, <2>2, <1>1
<1>3. I = {i \in 1 .. n : decides(i)}
  BY <1>2
<1>4. SubjectMatches(pattern, subject)
        <=> IF d = 0 THEN n = Len(subject) ELSE pattern[d] = ">" /\ d <= Len(subject)
  BY Zenon DEF SubjectMatches, SelectInSeq
<1>5. \A i \in 1 .. n - 1 : pattern[i] # ">"
  BY <1>1 DEF CheckPattern, Contains, Front
<1>6. Last(pattern) = pattern[n] /\ Front(pattern) = SubSeq(pattern, 1, n - 1)
  BY DEF Last, Front
<1>7. /\ Len(Front(pattern)) = n - 1
      /\ \A i \in 1 .. n - 1 : Front(pattern)[i] = pattern[i]
  BY <1>1, <1>6
<1>8. I # {} => d \in I /\ \A i \in I : d <= i
  <2>1. I \in SUBSET Nat
    BY <1>1, <1>3
  <2> HIDE DEF I
  <2> QED
    BY <2>1, MinProperty
<1>9. I = {} => d = 0
  OBVIOUS
<1> HIDE DEF d, I
<1>10. CASE pattern[n] = ">"
  <2>1. Covers(pattern, subject)
          <=> Len(subject) > n - 1 /\ \A i \in 1 .. n - 1 : pattern[i] \in {"*", subject[i]}
    BY <1>1, <1>6, <1>7, <1>10 DEF Covers, Fits
  <2>2. n \in I
    BY <1>1, <1>3, <1>10
  <2>3. d \in 1 .. n /\ (pattern[d] = ">" <=> d = n)
    BY <1>1, <1>3, <1>5, <1>8, <1>10, <2>2
  <2>4. d = n <=> \A i \in 1 .. n - 1 : ~decides(i)
    BY <1>1, <1>3, <1>8, <2>2
  <2>5. SubjectMatches(pattern, subject)
          <=> Len(subject) > n - 1 /\ \A i \in 1 .. n - 1 : ~decides(i)
    <3> DEFINE clear == \A i \in 1 .. n - 1 : ~decides(i)
    <3> HIDE DEF clear, decides, D, n
    <3>1. SubjectMatches(pattern, subject) <=> pattern[d] = ">" /\ d <= Len(subject)
      <4>1. d # 0
        BY <1>1, <2>3
      <4> QED
        BY Zenon, <1>4, <4>1
    <3>2. d = n <=> clear
      BY <2>4 DEF clear
    <3>3. SubjectMatches(pattern, subject) <=> d = n /\ n <= Len(subject)
      BY <2>3, <3>1
    <3>4. SubjectMatches(pattern, subject) <=> Len(subject) > n - 1 /\ clear
      BY <1>1, <3>2, <3>3
    <3> QED
      BY <3>4 DEF clear
  <2> QED
    BY <1>1, <1>5, <2>1, <2>5
<1>11. CASE pattern[n] # ">"
  <2>1. Covers(pattern, subject)
          <=> Len(subject) = n /\ \A i \in 1 .. n : pattern[i] \in {"*", subject[i]}
    BY <1>1, <1>6, <1>11 DEF Covers, Fits
  <2>2. \A i \in 1 .. n : pattern[i] # ">"
    BY <1>1, <1>5, <1>11
  <2>3. CASE I = {}
    BY <1>1, <1>3, <1>4, <1>9, <2>1, <2>2, <2>3
  <2>4. CASE I # {}
    BY <1>1, <1>3, <1>4, <1>8, <2>1, <2>2, <2>4
  <2> QED
    BY <2>3, <2>4
<1> QED
  BY <1>10, <1>11

-----------------------------------------------------------------------------
(* The inductive invariant.  A page is whole because the walk never leaves *)
(* a gap: what it has passed is on the pages, what it has not passed is    *)
(* older than all of them, and the store grows only at its newest end.     *)

\* Where the walk stands, and where the next page will: right behind the
\* pages, below the newest of them, above the oldest message the store holds.
Standing ==
    /\ top <= Len(log)
    /\ at \in {"walking", "read"} =>
            /\ filter = <<>> \/ CheckPattern(filter)
            /\ oldest = seq + 1 /\ seq <= top /\ top # 0
            /\ first <= Len(log) /\ \A s \in live : first <= s
    /\ at = "asked" /\ top # 0 => before = oldest - 1 /\ before # 0 /\ before <= top
    /\ at \in {"idle", "asked", "empty", "refused"} => ops = {}

\* Nothing is on the pages that the pattern does not stand for, or that the
\* reading has not passed.
OnlyWanted ==
    \A s \in shown \cup ops : Covers(Pattern, log[s]) /\ oldest <= s /\ s <= top

\* What the reading has passed is on the pages.
NothingLeftOut == ~lapsed => Reached \subseteq shown \cup ops

\* The limit is said exactly if it ended the walk.
LimitIsSaid == at = "read" => (capped <=> InRange /\ ~Full)

IInv ==
    /\ TypeOK /\ Standing /\ OnlyWanted /\ NothingLeftOut /\ LimitIsSaid
    /\ shown \cap ops = {}

-----------------------------------------------------------------------------

\* The first sequence of a store that holds something is its least.
LEMMA FirstIsLeast ==
  ASSUME TypeOK, live # {}
  PROVE  FirstSeq \in live /\ \A s \in live : FirstSeq <= s
<1>1. live \in SUBSET Nat
  BY DEF TypeOK
<1> QED
  BY <1>1, MinProperty DEF FirstSeq

\* A page is a finite set, so its size is a number.
LEMMA PageIsFinite ==
  ASSUME TypeOK
  PROVE  IsFiniteSet(ops)
<1>1. Len(log) \in Nat /\ ops \in SUBSET (1 .. Len(log))
  BY DEF TypeOK
<1>2. IsFiniteSet(1 .. Len(log))
  BY <1>1, FS_Interval
<1> QED
  BY <1>1, <1>2, FS_Subset

\* Where the read has not moved, a longer record changes nothing below.
LEMMA AppendsKeeps ==
  ASSUME IInv, NEW subject \in SubjectsWritten, Appends(subject)
  PROVE  IInv'
<1>1. /\ Len(log) \in Nat /\ log' \in Seq(SubjectsWritten) /\ Len(log') = Len(log) + 1
      /\ \A s \in 1 .. Len(log) : log'[s] = log[s]
      /\ Len(log') <= MaxLog /\ live' = live \cup {Len(log')}
  BY SizesAssumption DEF Appends, IInv, TypeOK
<1>2. UNCHANGED <<at, askVars, walkVars, historyVars>>
  BY DEF Appends
<1> USE <1>2 DEF askVars, walkVars, historyVars
<1>3. TypeOK' /\ Standing'
  <2>1. 1 .. Len(log) \subseteq 1 .. Len(log') /\ Len(log') \in 1 .. Len(log')
    BY <1>1
  <2>2. TypeOK'
    <3>1. live' \subseteq 1 .. Len(log') /\ ops' \subseteq 1 .. Len(log')
          /\ shown' \subseteq 1 .. Len(log')
      BY <1>1, <2>1 DEF IInv, TypeOK
    <3> QED
      BY <1>1, <3>1 DEF IInv, TypeOK
  <2>3. at \in {"walking", "read"} =>
          first <= Len(log') /\ \A s \in live' : first <= s
    <3>1. at \in {"walking", "read"} => first <= Len(log')
      BY <1>1 DEF IInv, TypeOK, Standing, Sequences0
    <3> QED
      BY <1>1, <3>1 DEF IInv, Standing
  <2>4. top \in Nat /\ top <= Len(log')
    BY <1>1 DEF IInv, TypeOK, Standing, Sequences0
  <2>5. Standing'
    BY <2>3, <2>4 DEF IInv, Standing
  <2> QED
    BY <2>2, <2>5
<1>4. Pattern' = Pattern
  BY DEF Pattern
<1>5. OnlyWanted'
  BY <1>1, <1>4 DEF IInv, TypeOK, OnlyWanted
<1>6. NothingLeftOut'
  <2> SUFFICES ASSUME ~lapsed', NEW s \in Reached'
               PROVE  s \in shown' \cup ops'
    BY DEF NothingLeftOut
  <2>1. s \in live' /\ Covers(Pattern, log'[s]) /\ oldest <= s /\ s <= top
    BY <1>4 DEF Reached, Wanted
  <2>2. s \in live /\ log'[s] = log[s]
    BY <1>1, <2>1 DEF IInv, TypeOK, Standing, Sequences0
  <2> QED
    BY <2>1, <2>2 DEF IInv, NothingLeftOut, Reached, Wanted
<1>7. LimitIsSaid' /\ (shown \cap ops = {})'
  BY DEF IInv, LimitIsSaid, InRange, Full
<1> QED
  BY <1>3, <1>5, <1>6, <1>7 DEF IInv

\* Neither does a message that goes.
LEMMA CompactsKeeps ==
  ASSUME IInv, NEW s \in live, Compacts(s)
  PROVE  IInv'
<1> USE DEF Compacts, askVars, walkVars, historyVars
<1>1. TypeOK' /\ Standing'
  BY DEF IInv, TypeOK, Standing, Sequences0
<1>2. Pattern' = Pattern
  BY DEF Pattern
<1>3. OnlyWanted'
  BY <1>2 DEF IInv, OnlyWanted
<1>4. Reached' \subseteq Reached
  BY <1>2 DEF Reached, Wanted
<1>5. NothingLeftOut'
  BY <1>4 DEF IInv, NothingLeftOut
<1>6. LimitIsSaid' /\ (shown \cap ops = {})'
  BY DEF IInv, LimitIsSaid, InRange, Full
<1> QED
  BY <1>1, <1>3, <1>5, <1>6 DEF IInv

\* A read begins with an empty page.
LEMMA AsksKeeps ==
  ASSUME IInv, NEW f \in Filters, NEW b \in Befores, NEW n \in {PageSize, TailSize},
         Asks(f, b, n)
  PROVE  IInv'
<1> USE DEF Asks
<1>1. TypeOK'
  <2>1. Cardinality(ops') <= limit' /\ limit' \in {PageSize, TailSize}
    BY FS_EmptySet, SizesAssumption
  <2>2. 0 \in Sequences0
    BY SizesAssumption DEF Sequences0
  <2> QED
    BY <2>1, <2>2 DEF IInv, TypeOK
<1>2. Standing' /\ OnlyWanted' /\ LimitIsSaid' /\ (shown \cap ops = {})'
  BY DEF IInv, TypeOK, Standing, OnlyWanted, LimitIsSaid
<1>3. Reached' = {}
  <2>1. \A s \in live' : ~(s <= top')
    BY DEF IInv, TypeOK
  <2> QED
    BY <2>1, Zenon DEF Reached, Wanted
<1>4. NothingLeftOut'
  BY <1>3 DEF NothingLeftOut
<1> QED
  BY <1>1, <1>2, <1>4 DEF IInv

\* The next page is asked for right below the last one.
LEMMA AsksOlderKeeps ==
  ASSUME IInv, AsksOlder
  PROVE  IInv'
<1> USE DEF AsksOlder, Older
<1>1. TypeOK'
  <2>1. TypeOK
    BY DEF IInv
  <2>2. Cardinality(ops') <= limit' /\ limit' \in {PageSize, TailSize}
    BY FS_EmptySet, SizesAssumption
  <2>3. before' \in Sequences0
    BY <2>1, SizesAssumption DEF TypeOK, Sequences0
  <2>4. shown' \subseteq 1 .. Len(log)
    BY <2>1 DEF TypeOK
  <2> QED
    BY <2>1, <2>2, <2>3, <2>4 DEF TypeOK
<1>2. Standing'
  BY DEF IInv, TypeOK, Standing, Sequences0
<1>3. Pattern' = Pattern
  BY DEF Pattern
<1>4. OnlyWanted' /\ LimitIsSaid' /\ (shown \cap ops = {})'
  BY <1>3 DEF IInv, OnlyWanted, LimitIsSaid
<1>5. NothingLeftOut'
  BY <1>3 DEF IInv, NothingLeftOut, Reached, Wanted
<1> QED
  BY <1>1, <1>2, <1>4, <1>5 DEF IInv

\* The next page begins right where the last one ended, and a first page at its
\* own top.
LEMMA LooksKeeps ==
  ASSUME IInv, Looks
  PROVE  IInv'
<1>1. Len(log) \in Nat /\ before \in Nat /\ TypeOK
  BY AsksAssumption DEF IInv, TypeOK, Sequences0
<1>2. /\ at = "asked" /\ (filter = <<>> \/ CheckPattern(filter))
      /\ first' = FirstSeq /\ last' = Len(log) /\ examined' = 0 /\ capped' = FALSE
      /\ UNCHANGED <<log, live, filter, before, limit, ops, shown, lapsed>>
  BY DEF Looks, askVars
<1>3. Pattern' = Pattern
  BY <1>2 DEF Pattern
<1>4. examined' \in 0 .. ScanLimit /\ capped' \in BOOLEAN
  <2>1. 0 \in 0 .. ScanLimit
    BY SizesAssumption
  <2>2. examined' = 0 /\ capped' = FALSE
    BY <1>2
  <2> QED
    BY <2>1, <2>2
<1>5. CASE live = {}
  <2>1. at' = "empty" /\ UNCHANGED <<seq, oldest, top>> /\ first' = Len(log) + 1
    BY <1>2, <1>5 DEF Looks, FirstSeq
  <2>2. {first', last', seq', oldest', top'} \subseteq Sequences0
    BY <1>1, <1>2, <2>1, SizesAssumption DEF TypeOK, Sequences0
  <2>3. TypeOK'
    BY <1>1, <1>2, <1>4, <2>1, <2>2 DEF TypeOK
  <2>4. Standing' /\ LimitIsSaid'
    BY <1>2, <2>1 DEF IInv, Standing, LimitIsSaid
  <2>5. OnlyWanted' /\ NothingLeftOut' /\ (shown \cap ops = {})'
    BY <1>2, <1>3, <2>1 DEF IInv, OnlyWanted, NothingLeftOut, Reached, Wanted
  <2> QED
    BY <2>3, <2>4, <2>5 DEF IInv
<1>6. CASE live # {}
  <2>1. FirstSeq \in live /\ (\A s \in live : FirstSeq <= s)
    BY <1>1, <1>6, FirstIsLeast
  <2>2. FirstSeq \in 1 .. Len(log) /\ Len(log) >= 1
    BY <1>1, <2>1 DEF TypeOK
  <2> DEFINE ceiling == IF before = 0 \/ before > Len(log) THEN Len(log) ELSE before
  <2>3. /\ at' = "walking" /\ seq' = ceiling /\ oldest' = ceiling + 1
        /\ top' = IF top = 0 THEN ceiling ELSE top
    BY <1>6 DEF Looks
  <2>4. ceiling \in 1 .. Len(log)
    BY <1>1, <2>2
  <2>5. top # 0 => ceiling = oldest - 1 /\ ceiling <= top
    BY <1>1, <1>2 DEF IInv, TypeOK, Standing, Sequences0
  <2> HIDE DEF ceiling
  <2>6. {first', last', seq', oldest', top'} \subseteq Sequences0
    <3>1. {FirstSeq, Len(log), ceiling, ceiling + 1} \subseteq Sequences0
      BY <1>1, <2>2, <2>4, SizesAssumption DEF TypeOK, Sequences0
    <3> QED
      BY <1>1, <1>2, <2>3, <3>1 DEF TypeOK
  <2>7. TypeOK'
    BY <1>1, <1>2, <1>4, <2>3, <2>6 DEF TypeOK
  <2>8. Standing' /\ LimitIsSaid'
    BY <1>1, <1>2, <2>1, <2>3, <2>4, <2>5 DEF IInv, TypeOK, Sequences0, Standing, LimitIsSaid
  <2>9. CASE top = 0
    <3>1. shown = {} /\ ops = {}
      BY <1>1, <2>9 DEF IInv, TypeOK, OnlyWanted
    <3>2. Reached' = {}
      BY <1>1, <1>2, <2>3, <2>4, <2>9 DEF Reached, Wanted, TypeOK
    <3>3. OnlyWanted' /\ NothingLeftOut' /\ (shown \cap ops = {})'
      BY <1>2, <3>1, <3>2 DEF OnlyWanted, NothingLeftOut
    <3> QED
      BY <2>7, <2>8, <3>3 DEF IInv
  <2>10. CASE top # 0
    <3>1. oldest' = oldest /\ top' = top
      BY <1>1, <2>3, <2>5, <2>10 DEF TypeOK, Sequences0
    <3>2. OnlyWanted' /\ NothingLeftOut' /\ (shown \cap ops = {})'
      BY <1>2, <1>3, <3>1 DEF IInv, OnlyWanted, NothingLeftOut, Reached, Wanted
    <3> QED
      BY <2>7, <2>8, <3>2 DEF IInv
  <2> QED
    BY <2>9, <2>10
<1> QED
  BY <1>5, <1>6

\* What one turn of the loop passes is on the page, or is not wanted.
LEMMA ExaminesKeeps ==
  ASSUME IInv, Examines
  PROVE  IInv'
<1>1. TypeOK /\ Standing /\ OnlyWanted /\ NothingLeftOut /\ shown \cap ops = {}
  BY DEF IInv
<1>2. /\ at = "walking" /\ seq >= first /\ seq > 0
      /\ ~(Cardinality(ops) >= limit) /\ examined < ScanLimit
      /\ examined' = examined + 1 /\ oldest' = seq /\ seq' = seq - 1
      /\ ops' = IF seq \in live /\ SubjectMatches(Pattern, log[seq])
                THEN ops \cup {seq} ELSE ops
      /\ UNCHANGED <<log, live, at, filter, before, limit, first, last, capped,
                     top, shown, lapsed>>
  BY DEF Examines, Walks, InRange, Full, Examined, askVars, historyVars
<1>3. Pattern' = Pattern
  BY <1>2 DEF Pattern
<1>4. /\ seq \in 1 .. Len(log) /\ oldest = seq + 1 /\ seq <= top /\ top \in Nat
      /\ Len(log) \in Nat /\ Len(log) <= MaxLog
  BY <1>1, <1>2 DEF TypeOK, Standing, Sequences0
<1>5. SubjectMatches(Pattern, log[seq]) <=> Covers(Pattern, log[seq])
  <2>1. log[seq] \in Seq(STRING)
    BY <1>1, <1>4, PatternsAssumption DEF TypeOK
  <2>2. Pattern \in Seq(STRING) /\ Pattern # <<>> /\ CheckPattern(Pattern)
    BY <1>1, <1>2, PatternsAssumption DEF TypeOK, Standing, Pattern
  <2> QED
    BY <2>1, <2>2, MatchesWhatItCovers
<1>6. ops' = IF seq \in live /\ Covers(Pattern, log[seq]) THEN ops \cup {seq} ELSE ops
  BY <1>2, <1>5
<1>7. TypeOK'
  <2>1. ops' \subseteq 1 .. Len(log')
    BY <1>1, <1>2, <1>4, <1>6 DEF TypeOK
  <2>2. Cardinality(ops') <= limit' /\ limit' \in Nat
    <3>1. IsFiniteSet(ops)
      BY <1>1, PageIsFinite
    <3>2. Cardinality(ops) \in Nat /\ limit \in Nat
      BY <1>1, <3>1, FS_CardinalityType, SizesAssumption DEF TypeOK
    <3>3. Cardinality(ops \cup {seq}) <= Cardinality(ops) + 1
      BY <3>1, <3>2, FS_AddElement
    <3>4. ops' = ops \/ ops' = ops \cup {seq}
      BY <1>6
    <3>5. limit' = limit /\ Cardinality(ops) + 1 <= limit
      BY <1>2, <3>2
    <3>6. Cardinality(ops \cup {seq}) \in Nat
      BY <3>1, FS_AddElement, FS_CardinalityType
    <3>7. CASE ops' = ops
      BY <3>2, <3>5, <3>7
    <3>8. CASE ops' = ops \cup {seq}
      <4>1. Cardinality(ops \cup {seq}) <= limit
        BY <3>2, <3>3, <3>5, <3>6
      <4> QED
        BY <3>2, <3>5, <3>8, <4>1
    <3> QED
      BY <3>4, <3>7, <3>8
  <2>3. examined' \in 0 .. ScanLimit
    <3>1. ScanLimit \in Nat
      BY SizesAssumption
    <3> QED
      BY <1>1, <1>2, <3>1 DEF TypeOK
  <2>4. {first', last', seq', oldest', top'} \subseteq Sequences0
    <3>1. seq \in Sequences0 /\ seq - 1 \in Sequences0
      BY <1>4, SizesAssumption DEF Sequences0
    <3> QED
      BY <1>1, <1>2, <3>1 DEF TypeOK
  <2> QED
    BY <1>1, <1>2, <2>1, <2>2, <2>3, <2>4 DEF TypeOK
<1>8. Standing'
  BY <1>1, <1>2, <1>4 DEF Standing
<1>9. OnlyWanted'
  BY <1>1, <1>2, <1>3, <1>4, <1>6 DEF OnlyWanted, TypeOK
<1>10. NothingLeftOut'
  <2> SUFFICES ASSUME ~lapsed', NEW s \in Reached'
               PROVE  s \in shown' \cup ops'
    BY DEF NothingLeftOut
  <2>1. s \in live /\ Covers(Pattern, log[s]) /\ seq <= s /\ s <= top
    BY <1>2, <1>3 DEF Reached, Wanted
  <2>2. CASE s = seq
    BY <1>6, <2>1, <2>2
  <2>3. CASE s # seq
    <3>1. oldest <= s
      BY <1>1, <1>4, <2>1, <2>3 DEF TypeOK
    <3> QED
      BY <1>1, <1>2, <1>6, <2>1, <3>1 DEF NothingLeftOut, Reached, Wanted
  <2> QED
    BY <2>2, <2>3
<1>11. LimitIsSaid' /\ (shown \cap ops = {})'
  <2>1. seq \notin shown
    BY <1>1, <1>4 DEF OnlyWanted, TypeOK
  <2> QED
    BY <1>1, <1>2, <1>6, <2>1 DEF LimitIsSaid
<1> QED
  BY <1>7, <1>8, <1>9, <1>10, <1>11 DEF IInv

\* A message that cannot be read may be lost to these pages, and they say so
\* in `lapsed`.
LEMMA ExaminesNothingKeeps ==
  ASSUME IInv, ExaminesNothing
  PROVE  IInv'
<1>1. TypeOK /\ Standing /\ OnlyWanted /\ shown \cap ops = {}
  BY DEF IInv
<1>2. /\ at = "walking" /\ seq > 0 /\ examined < ScanLimit
      /\ examined' = examined + 1 /\ oldest' = seq /\ seq' = seq - 1 /\ lapsed' = TRUE
      /\ UNCHANGED <<log, live, at, filter, before, limit, first, last, ops, capped,
                     top, shown>>
  BY DEF ExaminesNothing, Walks, InRange, Full, Examined, askVars
<1>3. Pattern' = Pattern
  BY <1>2 DEF Pattern
<1>4. /\ seq \in 1 .. Len(log) /\ oldest = seq + 1 /\ seq <= top /\ top \in Nat
      /\ Len(log) \in Nat /\ Len(log) <= MaxLog
  BY <1>1, <1>2 DEF TypeOK, Standing, Sequences0
<1>5. TypeOK'
  <2>1. examined' \in 0 .. ScanLimit
    <3>1. ScanLimit \in Nat
      BY SizesAssumption
    <3> QED
      BY <1>1, <1>2, <3>1 DEF TypeOK
  <2>2. {first', last', seq', oldest', top'} \subseteq Sequences0
    <3>1. seq \in Sequences0 /\ seq - 1 \in Sequences0
      BY <1>4, SizesAssumption DEF Sequences0
    <3> QED
      BY <1>1, <1>2, <3>1 DEF TypeOK
  <2> QED
    BY <1>1, <1>2, <2>1, <2>2 DEF TypeOK
<1>6. Standing'
  BY <1>1, <1>2, <1>4 DEF Standing
<1>7. OnlyWanted'
  BY <1>1, <1>2, <1>3, <1>4 DEF OnlyWanted, TypeOK
<1>8. NothingLeftOut' /\ LimitIsSaid' /\ (shown \cap ops = {})'
  BY <1>1, <1>2 DEF NothingLeftOut, LimitIsSaid
<1> QED
  BY <1>5, <1>6, <1>7, <1>8 DEF IInv

\* The page stands as the loop left it, whole or said to be cut.
LEMMA StopsKeeps ==
  ASSUME IInv, Stops
  PROVE  IInv'
<1> USE DEF Stops, askVars, historyVars
<1>1. TypeOK' /\ Standing'
  BY DEF IInv, TypeOK, Standing, InRange, Full
<1>2. Pattern' = Pattern
  BY DEF Pattern
<1>3. OnlyWanted' /\ NothingLeftOut' /\ (shown \cap ops = {})'
  BY <1>2 DEF IInv, OnlyWanted, NothingLeftOut, Reached, Wanted
<1>4. LimitIsSaid'
  BY DEF LimitIsSaid, InRange, Full
<1> QED
  BY <1>1, <1>3, <1>4 DEF IInv

\* A refused read changes no page that was shown.
LEMMA RefusesKeeps ==
  ASSUME IInv, Refuses
  PROVE  IInv'
<1> USE DEF Refuses, askVars, walkVars, historyVars
<1>1. TypeOK' /\ Standing' /\ LimitIsSaid'
  BY DEF IInv, TypeOK, Standing, LimitIsSaid
<1>2. Pattern' = Pattern
  BY DEF Pattern
<1>3. OnlyWanted' /\ NothingLeftOut' /\ (shown \cap ops = {})'
  BY <1>2 DEF IInv, OnlyWanted, NothingLeftOut, Reached, Wanted
<1> QED
  BY <1>1, <1>3 DEF IInv

\* At first nothing was read.
LEMMA StartsWell == Init => IInv
<1> SUFFICES ASSUME Init PROVE IInv
  OBVIOUS
<1>1. TypeOK
  <2>1. 0 \in Sequences0 /\ 0 \in 0 .. ScanLimit /\ 0 <= MaxLog /\ 0 <= PageSize
    BY SizesAssumption DEF Sequences0
  <2>2. Cardinality(ops) <= limit
    BY <2>1, FS_EmptySet DEF Init
  <2>3. log \in Seq(SubjectsWritten) /\ Len(log) <= MaxLog
    BY <2>1 DEF Init
  <2> QED
    BY <2>1, <2>2, <2>3 DEF Init, TypeOK
<1>2. Standing /\ OnlyWanted /\ NothingLeftOut /\ LimitIsSaid /\ shown \cap ops = {}
  BY DEF Init, Standing, OnlyWanted, NothingLeftOut, LimitIsSaid, Reached, Wanted
<1> QED
  BY <1>1, <1>2 DEF IInv

\* Every step keeps the invariant.
LEMMA StepsKeep == IInv /\ [Next]_vars => IInv'
<1> SUFFICES ASSUME IInv, [Next]_vars PROVE IInv'
  OBVIOUS
<1>1. CASE \E s \in SubjectsWritten : Appends(s)
  BY <1>1, AppendsKeeps
<1>2. CASE \E s \in live : Compacts(s)
  BY <1>2, CompactsKeeps
<1>3. CASE \E f \in Filters, b \in Befores, n \in {PageSize, TailSize} : Asks(f, b, n)
  BY <1>3, AsksKeeps
<1>4. CASE AsksOlder
  BY <1>4, AsksOlderKeeps
<1>5. CASE Refuses
  BY <1>5, RefusesKeeps
<1>6. CASE Looks
  BY <1>6, LooksKeeps
<1>7. CASE Examines
  BY <1>7, ExaminesKeeps
<1>8. CASE ExaminesNothing
  BY <1>8, ExaminesNothingKeeps
<1>9. CASE Stops
  BY <1>9, StopsKeeps
<1>10. CASE UNCHANGED vars
  <2> USE <1>10 DEF vars, askVars, walkVars, historyVars
  <2>1. TypeOK' /\ Standing' /\ LimitIsSaid'
    BY DEF IInv, TypeOK, Standing, LimitIsSaid, InRange, Full
  <2>2. Pattern' = Pattern
    BY DEF Pattern
  <2>3. OnlyWanted' /\ NothingLeftOut' /\ (shown \cap ops = {})'
    BY <2>2 DEF IInv, OnlyWanted, NothingLeftOut, Reached, Wanted
  <2> QED
    BY <2>1, <2>3 DEF IInv
<1> QED
  BY <1>1, <1>2, <1>3, <1>4, <1>5, <1>6, <1>7, <1>8, <1>9, <1>10 DEF Next

\* The invariant, always.
LEMMA Invariance == Spec => []IInv
BY StartsWell, StepsKeep, PTL DEF Spec

-----------------------------------------------------------------------------
(* What the invariant gives. *)

\* Every field keeps its type, and no page is longer than was asked for.
THEOREM TypeCorrect == Spec => []TypeOK
<1>1. IInv => TypeOK
  BY DEF IInv
<1> QED
  BY <1>1, Invariance, PTL

\* Page after page, every message the pattern stands for that the store still
\* holds is on a page, and nothing else is, as long as each could be read: for
\* the loop of read and the Older key, whatever is written or compacted between
\* one message and the next.
THEOREM PagesAreWholeAlways == Spec => []PagesAreWhole
<1>1. IInv => PagesAreWhole
  BY DEF IInv, OnlyWanted, NothingLeftOut, PagesAreWhole, PagesAreWholeAnyway
<1> QED
  BY <1>1, Invariance, PTL

\* No page is a silent truncation: what is older is behind the Older key, and
\* the scan limit is said when it was what ended the page.
THEOREM TruncationIsAlwaysSaid == Spec => []TruncationIsSaid
<1>1. IInv => TruncationIsSaid
  <2> SUFFICES ASSUME IInv, at = "read", NEW s \in Wanted, s < oldest
               PROVE  Older /\ (Cardinality(ops) < limit => capped)
    BY DEF TruncationIsSaid
  <2>1. /\ s \in live /\ s \in Nat /\ s >= 1 /\ first <= s /\ oldest = seq + 1
        /\ {first, seq, oldest} \subseteq Nat
    BY DEF IInv, TypeOK, Standing, Wanted, Sequences0
  <2>2. seq >= first /\ seq > 0 /\ Older
    BY <2>1 DEF Older
  <2>3. Cardinality(ops) < limit => ~(Cardinality(ops) >= limit)
    <3>1. IsFiniteSet(ops)
      BY PageIsFinite DEF IInv
    <3> QED
      BY <3>1, FS_CardinalityType, SizesAssumption DEF IInv, TypeOK
  <2> QED
    BY <2>2, <2>3 DEF IInv, LimitIsSaid, InRange, Full
<1> QED
  BY <1>1, Invariance, PTL

\* Reading further back goes back: no message is on two pages, and no Older key
\* leads to the newest page.
THEOREM AlwaysReadsBackwards == Spec => []ReadsBackwards
<1>1. IInv => ReadsBackwards
  BY DEF IInv, TypeOK, Standing, OnlyWanted, ReadsBackwards, Sequences0
<1> QED
  BY <1>1, Invariance, PTL
=============================================================================
