------------------------- MODULE MCConfigReplication -------------------------
(* Model-checking instances of ConfigReplication: one tenant with two       *)
(* leaderboards and two secrets, and up to three admin requests.           *)
EXTENDS ConfigReplication, TLC

CONSTANTS a1, k1, k2, s1, s2, r1, r2, r3, c1, c2

MCApps == {a1}
MCKeys == {k1, k2}
MCSecrets == {s1, s2}
MCReqs == {r1, r2, r3}
MCReqs2 == {r1, r2}
MCConns == {c1, c2}
MCConns1 == {c1}

Symmetry == Permutations(MCReqs) \cup Permutations(MCConns)
=============================================================================
