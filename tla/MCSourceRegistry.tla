-------------------------- MODULE MCSourceRegistry --------------------------
(* An input and a transition, a meter and two callers.                       *)
EXTENDS SourceRegistry, TLC

CONSTANTS in, tr, c1, c2

MCCallers == {c1, c2}
MCSources == {in, tr}
Symmetry  == Permutations(MCCallers)
=============================================================================
