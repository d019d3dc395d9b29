------------------------------ MODULE MCRunner ------------------------------
EXTENDS Runner, TLC

\* The hosted site, and one that lacks a part of its configuration.
Hosted == [VERCEL |-> TRUE, VERCEL_ENV |-> "production", VERCEL_AUTHENTICATION_CONFIRMED |-> TRUE,
           origin |-> "https", POSTGRES_URL |-> TRUE, JUDGE_TOKEN |-> "long", JUDGE_URL |-> "https"]
Incomplete == [Hosted EXCEPT !.JUDGE_TOKEN = "short"]

Deployments == {Hosted, Incomplete}
Symmetric == Permutations(Uuid)

=============================================================================
