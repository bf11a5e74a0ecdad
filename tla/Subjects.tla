------------------------------ MODULE Subjects -------------------------------
(***************************************************************************)
(* Subjects and the patterns a person types (modules/storage/read.go).  A  *)
(* subject is a sequence of parts, a pattern a sequence of tokens: a part, *)
(* "*", ">", Nothing (two dots in a row), a Piece ("a*": a wildcard that   *)
(* is not alone), or Blank (a space in it).                                *)
(***************************************************************************)
EXTENDS Naturals, Sequences, SequencesExt

Nothing == ""
Piece == "a*"
Blank == "a b"

\* A pattern the screen refuses before reading anything; the filter box left
\* empty is none.
CheckPattern(pattern) ==
    /\ ~Contains(pattern, Blank)
    /\ ~Contains(pattern, Nothing)
    /\ ~Contains(pattern, Piece)
    /\ ~Contains(Front(pattern), ">")

\* Faulty variant of SubjectMatches: the subject may go on.
SubjectMatchesPrefix(pattern, subject) ==
    LET decides(i) == \/ pattern[i] = ">"
                      \/ i > Len(subject)
                      \/ pattern[i] \notin {"*", subject[i]}
        at == SelectInSeq([i \in DOMAIN pattern |-> decides(i)], LAMBDA d : d)
    IN  at = 0 \/ (pattern[at] = ">" /\ at <= Len(subject))

\* The loop over the pattern: the first token that decides, decides.
SubjectMatches(pattern, subject) ==
    LET decides(i) == \/ pattern[i] = ">"
                      \/ i > Len(subject)
                      \/ pattern[i] \notin {"*", subject[i]}
        at == SelectInSeq([i \in DOMAIN pattern |-> decides(i)], LAMBDA d : d)
    IN  IF at = 0 THEN Len(pattern) = Len(subject)
        ELSE pattern[at] = ">" /\ at <= Len(subject)

-----------------------------------------------------------------------------
(* The reference: what a pattern means, by the subjects it stands for. *)

Fits(token, part) == token \in {"*", part}

Covers(pattern, subject) ==
    LET rest == Last(pattern) = ">"
        fixed == IF rest THEN Front(pattern) ELSE pattern
    IN  /\ IF rest THEN Len(subject) > Len(fixed) ELSE Len(subject) = Len(fixed)
        /\ \A i \in 1 .. Len(fixed) : Fits(fixed[i], subject[i])
=============================================================================
