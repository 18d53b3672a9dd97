---------------------------- MODULE MCEditorGate ----------------------------
(***************************************************************************)
(* Model checking EditorGate: two editors, two producers, a counter limit  *)
(* small enough to be exhausted (two generations) and one restart.         *)
(***************************************************************************)
EXTENDS EditorGate, TLC

CONSTANTS e1, e2, p1, p2

MCEditors == {e1, e2}
MCProducers == {p1, p2}
MCSymmetry == Permutations(MCEditors) \cup Permutations(MCProducers)
=============================================================================
