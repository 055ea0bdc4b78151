----------------------------- MODULE MCServing -----------------------------
EXTENDS Serving, TLC

CONSTANTS m1, m2

MCRank == (m1 :> 1) @@ (m2 :> 2)

MCRequests == [model |-> 1, compare |-> 1, changes |-> 1, models |-> 0]

MCClock == [model |-> 4, compare |-> 3, changes |-> 2, models |-> 3]

MCRows == [model |-> 3, compare |-> 3, changes |-> 4, models |-> 4]

\* Sources, price pairs and writers are compared for equality only.
Symmetric == Permutations(Sources) \cup Permutations(Pairs) \cup Permutations(Writers)
=============================================================================
