------------------------- MODULE MCOptimizerSession -------------------------
(* Two sessions, two callers, a hardware test of two outputs, and a YouTube   *)
(* probe that shares its connection with another destination.                *)
EXTENDS OptimizerSession, TLC

CONSTANTS s1, s2, c1, c2, h1, h2

TwoSessions  == {s1, s2}
TwoCallers   == {c1, c2}
TwoAttempts  == {h1, h2}
Symmetry     == Permutations({c1, c2}) \cup Permutations({h1, h2}) \cup Permutations({s1, s2})
=============================================================================
