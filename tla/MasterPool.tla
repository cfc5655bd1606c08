------------------------------ MODULE MasterPool ------------------------------
(***************************************************************************)
(* Composition of the admin requests of RankConfigService with the score  *)
(* path of one configured leaderboard: both execute their statements on    *)
(* the same sqlx master pool (Database::get_master_pool, database.rs).     *)
(*                                                                         *)
(* add_rank_config_to_mysql runs START TRANSACTION, INSERT, CALL and       *)
(* COMMIT as separate execute(pool) calls, so the transaction stays open  *)
(* on whichever connection received START TRANSACTION.  update_score's    *)
(* upsert (update_rank_score_to_mysql) takes whichever connection the pool *)
(* hands out, that one included.                                           *)
(*                                                                         *)
(* The leaderboard the scores go to was configured at startup and is not *)
(* one of the boards the admin requests add or delete, so its table       *)
(* exists throughout.  Its rows are the fold of the committed score        *)
(* statements (scoreLog); redis is its sorted set.                         *)
(***************************************************************************)
EXTENDS RankConfigService

CONSTANTS
    Users,     \* openids
    Scores,    \* raw scores a client may submit
    Writers,   \* concurrent update_score requests
    Absent     \* no row / no member

Val == Scores \cup {Absent}

\* An upsert of one openid's score on the board's table.
ScoreStmt == [op: {"score"}, users: SUBSET Users, val: Val]

ASSUME ScoreStmts = ScoreStmt /\ Absent \notin Scores

VARIABLES redis, wpc, wargs

scoreVars == <<redis, wpc, wargs>>
poolVars  == <<vars, scoreVars>>

NoWrite == [user |-> CHOOSE u \in Users : TRUE, score |-> CHOOSE s \in Scores : TRUE]

PoolTypeOK ==
    /\ TypeOK
    /\ redis \in [Users -> Val]
    /\ wpc \in [Writers -> {"idle", "w_mysql", "w_redis"}]
    /\ wargs \in [Writers -> [user: Users, score: Scores]]

\* A committed statement's effect on the rows of rank_{appid}_{key}.
ApplyStmt(db, st) == [u \in Users |-> IF u \in st.users THEN st.val ELSE db[u]]

\* The committed rows of the board's table.
Committed == FoldLeft(ApplyStmt, [u \in Users |-> Absent], scoreLog)

\* InnoDB row locks: another connection's open transaction holds an
\* uncommitted upsert of one of the openids.
RowLockedForOthers(c, us) ==
    \E d \in Conns \ {c} :
        \E i \in DOMAIN conn[d].pending :
            IsScoreStmt(conn[d].pending[i]) /\ conn[d].pending[i].users \cap us # {}

-----------------------------------------------------------------------------
PoolInit ==
    /\ Init
    /\ redis = [u \in Users |-> Absent]
    /\ wpc = [w \in Writers |-> "idle"]
    /\ wargs = [w \in Writers |-> NoWrite]

\* An admin request takes its next step; the score path is not involved.
AdminStep(r) == RequestStep(r) /\ UNCHANGED scoreVars

\* POST /rank/update_score arrives.
UpdateReceive(w) ==
    /\ wpc[w] = "idle"
    /\ \E u \in Users, s \in Scores : wargs' = [wargs EXCEPT ![w] = [user |-> u, score |-> s]]
    /\ wpc' = [wpc EXCEPT ![w] = "w_mysql"]
    /\ UNCHANGED <<vars, redis>>

\* update_rank_score_to_mysql: INSERT ... ON DUPLICATE KEY UPDATE on some
\* pooled connection.  It is autocommitted, or held back in the open
\* transaction of that connection; a row locked by another connection's
\* open transaction makes it fail with a lock-wait timeout, which ends the
\* request with an error.
UpdateMysql(w) ==
    LET a == wargs[w] IN
    /\ wpc[w] = "w_mysql"
    /\ \E c \in Conns :
          \/ /\ RowLockedForOthers(c, {a.user})
             /\ wpc' = [wpc EXCEPT ![w] = "idle"] /\ wargs' = [wargs EXCEPT ![w] = NoWrite]
             /\ UNCHANGED dbVars
          \/ /\ ~RowLockedForOthers(c, {a.user})
             /\ ExecWrite(c, [op |-> "score", users |-> {a.user}, val |-> a.score])
             /\ wpc' = [wpc EXCEPT ![w] = "w_redis"] /\ UNCHANGED wargs
    /\ UNCHANGED <<serviceVars, rankTables, reqVars, redis>>

\* update_rank_score_to_redis: ZADD of the score, after which update_score
\* reports success (the nickname HSET that follows does not touch the
\* sorted set and is left to RankEngine).
UpdateRedis(w) ==
    /\ wpc[w] = "w_redis"
    /\ redis' = [redis EXCEPT ![wargs[w].user] = wargs[w].score]
    /\ wpc' = [wpc EXCEPT ![w] = "idle"] /\ wargs' = [wargs EXCEPT ![w] = NoWrite]
    /\ UNCHANGED vars

PoolNext ==
    \/ \E r \in Reqs : AdminStep(r)
    \/ \E w \in Writers : UpdateReceive(w) \/ UpdateMysql(w) \/ UpdateRedis(w)

PoolSpec == PoolInit /\ [][PoolNext]_poolVars

-----------------------------------------------------------------------------
(* Properties *)

\* No admin request and no update_score is between two awaits.
PoolIdle == Quiescent /\ \A w \in Writers : wpc[w] = "idle"

\* Once nothing is in flight, the sorted set shows exactly the committed
\* rows of the board's table: update_score only writes redis after its
\* upsert on the master pool returned Ok, so that score must be durable
\* (spec section 9, mysql is the source of truth).
IndexMatchesCommittedWhenIdle ==
    PoolIdle => redis = Committed
=============================================================================
