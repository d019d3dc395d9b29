---------------------------- MODULE MCJobQueue -----------------------------
(* JobQueue on small instances: the cfg files next to this module give the *)
(* bounds, and the README says why they are enough.                        *)
EXTENDS JobQueue, TLC

\* Tokens and handlers are interchangeable, and so are submissions and judges.
Symmetry == Permutations(Job) \cup Permutations(Token) \cup Permutations(Caller)
                \cup Permutations(Judge)

============================================================================
