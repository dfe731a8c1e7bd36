---------------------------- MODULE MCFileOutput ----------------------------
(* Small instances of FileOutput for TLC. *)
EXTENDS FileOutput, TLC

CONSTANTS o1, o2

AllOutputs == {o1, o2}
NoOutputs == {}
FirstOnly == {o1}
Symmetry == Permutations({o1, o2})
=============================================================================
