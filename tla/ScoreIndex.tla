------------------------------ MODULE ScoreIndex ------------------------------
(***************************************************************************)
(* What a leaderboard's two stores promise together (spec section 9, dual- *)
(* store consistency): the durable store is the source of truth and the    *)
(* index is a cache of it.  The durable scores change by writes and by     *)
(* clearing the board; the index changes only by taking an openid's        *)
(* current durable score, or by being dropped as a whole.                  *)
(***************************************************************************)
CONSTANTS Users, Scores, Absent

VARIABLES durable, index

vars == <<durable, index>>

TypeOK ==
    /\ durable \in [Users -> Scores \cup {Absent}]
    /\ index \in [Users -> Scores \cup {Absent}]

Init ==
    /\ durable = [u \in Users |-> Absent]
    /\ index = [u \in Users |-> Absent]

\* A score is stored durably.
Write(u, s) ==
    /\ durable' = [durable EXCEPT ![u] = s]
    /\ UNCHANGED index

\* Every durable score of the board is removed.
Clear ==
    /\ durable' = [u \in Users |-> Absent]
    /\ UNCHANGED index

\* The index takes one openid's current durable score.
Fill(u) ==
    /\ durable[u] # Absent
    /\ index' = [index EXCEPT ![u] = durable[u]]
    /\ UNCHANGED durable

\* The index is dropped as a whole.
Drop ==
    /\ index' = [u \in Users |-> Absent]
    /\ UNCHANGED durable

Next ==
    \/ \E u \in Users, s \in Scores : Write(u, s)
    \/ Clear
    \/ \E u \in Users : Fill(u)
    \/ Drop

Spec == Init /\ [][Next]_vars
=============================================================================
