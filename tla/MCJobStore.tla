---------------------------- MODULE MCJobStore -----------------------------
(* JobStore on a small instance: see MCJobStore.cfg and the README.        *)
EXTENDS JobStore, TLC

\* Jobs differ only in their age, programs and tokens not at all.
Symmetry == Permutations(Job) \cup Permutations(Token)

============================================================================
