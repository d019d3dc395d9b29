-------------------------- MODULE MCProgressStore --------------------------
(* Sets of alike values for the model checker; the .cfg files give the constants. *)
EXTENDS ProgressStore, TLC

Symmetry == Permutations(Tab) \cup Permutations(Code)

=============================================================================
