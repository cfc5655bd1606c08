------------------------------ MODULE MCMasterPool ------------------------------
(* Model-checking instance of MasterPool: one admin request on a pool of  *)
(* two connections and one client updating one openid.                    *)
EXTENDS MasterPool, TLC

CONSTANTS a1, k1, s1, r1, c1, c2, u1, w1

MCApps == {a1}
MCKeys == {k1}
MCSecrets == {s1}
MCReqs1 == {r1}
MCConns == {c1, c2}
MCUsers == {u1}
MCScores == {1, 2}
MCWriters1 == {w1}
MCScoreStmts == [op: {"score"}, users: SUBSET MCUsers, val: MCScores \cup {Absent}]
=============================================================================
