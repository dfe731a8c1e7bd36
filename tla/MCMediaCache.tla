---------------------------- MODULE MCMediaCache ----------------------------
(* Small instances of MediaCache: a file that takes one unit of the budget   *)
(* and one that takes two.                                                   *)
EXTENDS MediaCache, TLC

CONSTANTS s1, s2, e1, e2

TwoSources == {s1, s2}
OneSource == {s1}
TwoEditors == {e1, e2}
OneEditor == {e1}
SizeOf(f) == IF f = "small" THEN 1 ELSE 2
Symmetry == Permutations({s1, s2}) \cup Permutations({e1, e2})
=============================================================================
