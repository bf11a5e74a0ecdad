---------------------------- MODULE MCStoreWalk -----------------------------
(* Small instances of StoreWalk for TLC. *)
EXTENDS StoreWalk

TwoSubjects == {<<"a">>, <<"a", "b">>}

\* The box left empty; a pattern of one part, of the rest, of one part exactly
\* and what follows; and each kind the screen refuses.
SomeFilters ==
    {<<>>, <<"*">>, <<"a", ">">>, <<">", "b">>, <<"a", "">>, <<"a*">>, <<"a b">>}

FewFilters == {<<>>, <<"a", ">">>}

Whole == <<">">>
=============================================================================
