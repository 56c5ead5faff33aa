------------------------------ MODULE MCValues ------------------------------
(* Small programs for Values.                                              *)
EXTENDS Values, TLC

MCParams == <<"p">>

(* What the program has returned so far is looked at by nobody.            *)
WithoutResult == <<live, refcount, varlist, [calls EXCEPT ![Len(calls)].last = Nothing], val, begun>>

Symmetry == Permutations(Made)
=============================================================================
