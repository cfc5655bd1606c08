------------------------- MODULE MCRankConfigService -------------------------
(* Model-checking instances of RankConfigService: requests, keys, secrets   *)
(* and pool connections are model values and interchangeable.              *)
EXTENDS RankConfigService, TLC

CONSTANTS a1, k1, k2, s1, s2, r1, r2, r3, c1, c2

MCApps == {a1}
MCKeys == {k1, k2}
MCSecrets == {s1, s2}
\* Three requests: enough for add/add/delete and add/add/add races.
MCReqs == {r1, r2, r3}
MCReqs2 == {r1, r2}
MCReqs1 == {r1}
MCConns == {c1, c2}
MCConns1 == {c1}

Symmetry == Permutations(MCReqs) \cup Permutations(MCConns)
=============================================================================
