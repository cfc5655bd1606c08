------------------------------ MODULE RankEngine ------------------------------
(***************************************************************************)
(* The leaderboard engine on one configured board (appid, rank_key):      *)
(* RankService (src/src/service/rank_service.rs) over the two stores of    *)
(* RankRepository (src/src/repository/rank_repository.rs), the board's     *)
(* cron reset job (RankConfigService::clear_rank_data) and the process     *)
(* lifecycle of main.rs with init_rank's --sync_redis rehydration          *)
(* (read_mysql_rank_write_to_redis).                                       *)
(*                                                                         *)
(*   mysql  the rows of rank_{appid}_{key}: openid -> score                *)
(*   redis  the sorted set rank:{appid}:{key}: member -> score.  A score   *)
(*          is kept as its raw value here; calc_score and its decoding     *)
(*          are the subject of ScoreEncoding.                              *)
(*   named  the openids with a field in the nickname hash userinfo:{appid} *)
(*   slave  the rows as the read-replica (SLAVE_DB_URL) holds them; the    *)
(*          master's commits reach it in order through binlog.             *)
(*                                                                         *)
(* Writers (update_score) and readers (get_user_score) are request        *)
(* processes that are reused by later requests; every store call is one   *)
(* await, hence one step.  mysql and redis survive a crash of the server;  *)
(* requests in flight do not.                                              *)
(***************************************************************************)
EXTENDS Naturals, Sequences, FiniteSets, SequencesExt

CONSTANTS
    UserOrder,          \* the openids in the order SELECT returns the rows
    Scores,             \* raw scores a client may submit
    Writers,            \* concurrent update_score requests
    Readers,            \* concurrent get_user_score requests
    TopReaders,         \* concurrent get_top_user_rank requests
    TopNs,              \* the top_n a validated TopNUserReq may carry
    Absent,             \* no row / no member
    PageSize,           \* PAGE_SIZE of read_mysql_rank_write_to_redis
    MaxResets,          \* bound on the firings of the reset job
    MaxCrashes,         \* bound on process deaths (crash or startup panic)
    StoreMayFail,       \* a mysql or redis call may return an error
    SerializedClients,  \* a client never has two updates of one openid in flight
    SyncOnRestart,      \* the server is started with --sync_redis
    MaxLag              \* commits the slave may be behind (0: the slave is the master)

Users == ToSet(UserOrder)

ASSUME /\ IsInjective(UserOrder) /\ Absent \notin Scores
       /\ PageSize \in Nat \ {0} /\ MaxResets \in Nat /\ MaxCrashes \in Nat
       /\ {StoreMayFail, SerializedClients, SyncOnRestart} \subseteq BOOLEAN
       /\ MaxLag \in Nat /\ TopNs \subseteq 1..30

Val == Scores \cup {Absent}

VARIABLES
    mysql, slave, binlog, \* the master's rows, the replica's, commits in transit
    redis, named,   \* the sorted set and the nickname hash
    everDurable,    \* history: the scores each openid has had in mysql
    node,           \* "up" (serving), "down", "rehydrate" (init_rank)
    page, pos, start, \* rehydration: the fetched page, rows copied from it, start_index
    wpc, wargs,     \* update_score requests: step and (openid, score)
    gpc, guser, gval, \* get_user_score requests: step, openid, score read from mysql
    jpc,            \* the reset job
    tpc, tlist, tpos, \* get_top_user_rank requests: step, the openids read, entries hydrated
    resets, crashes \* counters for the bounds

dbVars    == <<mysql, slave, binlog, everDurable>>
idxVars   == <<redis, named>>
storeVars == <<dbVars, idxVars>>
readVars  == <<tpc, tlist, tpos>>
procVars  == <<wpc, wargs, gpc, guser, gval, jpc, readVars>>
rhVars    == <<page, pos, start>>
vars == <<storeVars, node, rhVars, procVars, resets, crashes>>

\* A committed statement on the rows: the openids it sets and their new value
\* (an upsert sets one openid to a score, DELETE sets every openid Absent).
Change == [users: SUBSET Users, val: Val]

ApplyChange(db, c) == [u \in Users |-> IF u \in c.users THEN c.val ELSE db[u]]

NoUser == CHOOSE u \in Users : TRUE
NoWrite == [user |-> NoUser, score |-> CHOOSE s \in Scores : TRUE]

EngineTypeOK ==
    /\ mysql \in [Users -> Val] /\ redis \in [Users -> Val] /\ slave \in [Users -> Val]
    /\ binlog \in Seq(Change) /\ named \subseteq Users
    /\ everDurable \in [Users -> SUBSET Scores]
    /\ node \in {"up", "down", "rehydrate"}
    /\ page \in Seq([user: Users, score: Scores]) /\ pos \in Nat /\ start \in Nat
    /\ wpc \in [Writers -> {"idle", "w_mysql", "w_redis", "w_info"}]
    /\ wargs \in [Writers -> [user: Users, score: Scores]]
    /\ gpc \in [Readers -> {"idle", "g_redis", "g_mysql", "g_backfill"}]
    /\ guser \in [Readers -> Users] /\ gval \in [Readers -> Val]
    /\ jpc \in {"idle", "j_mysql", "j_redis"}
    /\ tpc \in [TopReaders -> {"idle", "t_nick"}]
    /\ tlist \in [TopReaders -> Seq(Users)] /\ tpos \in [TopReaders -> Nat]
    /\ resets \in 0..MaxResets /\ crashes \in 0..MaxCrashes

\* A store call that returns Err: possible while StoreMayFail.
CallFails == StoreMayFail

\* The master has room for one more commit in the slave's backlog (a bound
\* of the model; the master never waits for the slave).
CanCommit == MaxLag = 0 \/ Len(binlog) < MaxLag

\* A commit on the master pool: applied to mysql and shipped to the slave,
\* at once when the slave is the master.
Commit(c) ==
    /\ mysql' = ApplyChange(mysql, c)
    /\ everDurable' = [u \in Users |-> IF u \in c.users /\ c.val # Absent
                                       THEN everDurable[u] \cup {c.val} ELSE everDurable[u]]
    /\ IF MaxLag = 0 THEN slave' = mysql' /\ UNCHANGED binlog
                     ELSE binlog' = Append(binlog, c) /\ UNCHANGED slave

-----------------------------------------------------------------------------
\* Nothing has been scored: both stores empty, the server serving.
Init ==
    /\ mysql = [u \in Users |-> Absent] /\ redis = [u \in Users |-> Absent]
    /\ slave = mysql /\ binlog = <<>> /\ named = {}
    /\ everDurable = [u \in Users |-> {}]
    /\ node = "up" /\ page = <<>> /\ pos = 0 /\ start = 0
    /\ wpc = [w \in Writers |-> "idle"] /\ wargs = [w \in Writers |-> NoWrite]
    /\ gpc = [g \in Readers |-> "idle"] /\ guser = [g \in Readers |-> NoUser]
    /\ gval = [g \in Readers |-> Absent]
    /\ jpc = "idle" /\ resets = 0 /\ crashes = 0
    /\ tpc = [t \in TopReaders |-> "idle"] /\ tlist = [t \in TopReaders |-> <<>>]
    /\ tpos = [t \in TopReaders |-> 0]

-----------------------------------------------------------------------------
(* update_rank_score *)

\* POST /rank/update_score arrives.
UpdateReceive(w) ==
    /\ node = "up" /\ wpc[w] = "idle"
    /\ \E u \in Users, s \in Scores :
          /\ SerializedClients => \A x \in Writers : wpc[x] # "idle" => wargs[x].user # u
          /\ wargs' = [wargs EXCEPT ![w] = [user |-> u, score |-> s]]
    /\ wpc' = [wpc EXCEPT ![w] = "w_mysql"]
    /\ UNCHANGED <<storeVars, node, rhVars, readVars, gpc, guser, gval, jpc, resets, crashes>>

\* Mutant: the mysql error is discarded (let _ = ...) and the request goes
\* on to redis.
UpdateMysqlIgnoreErr(w) ==
    /\ node = "up" /\ wpc[w] = "w_mysql"
    /\ \/ CanCommit /\ Commit([users |-> {wargs[w].user}, val |-> wargs[w].score])
       \/ CallFails /\ UNCHANGED dbVars
    /\ wpc' = [wpc EXCEPT ![w] = "w_redis"]
    /\ UNCHANGED <<wargs, idxVars, node, rhVars, readVars, gpc, guser, gval, jpc, resets, crashes>>

\* update_rank_score_to_mysql: INSERT ... ON DUPLICATE KEY UPDATE score on
\* the master pool; an error ends the request.
UpdateMysql(w) ==
    /\ node = "up" /\ wpc[w] = "w_mysql"
    /\ \/ /\ CanCommit
          /\ Commit([users |-> {wargs[w].user}, val |-> wargs[w].score])
          /\ wpc' = [wpc EXCEPT ![w] = "w_redis"]
       \/ /\ CallFails
          /\ wpc' = [wpc EXCEPT ![w] = "idle"]
          /\ UNCHANGED dbVars
    /\ wargs' = IF wpc'[w] = "idle" THEN [wargs EXCEPT ![w] = NoWrite] ELSE wargs
    /\ UNCHANGED <<idxVars, node, rhVars, readVars, gpc, guser, gval, jpc, resets, crashes>>

\* Mutant: ZINCRBY in place of ZADD, the submitted score is added to the
\* member's.
UpdateRedisIncr(w) ==
    LET u == wargs[w].user IN
    /\ node = "up" /\ wpc[w] = "w_redis"
    /\ redis' = [redis EXCEPT ![u] = IF @ = Absent THEN wargs[w].score ELSE @ + wargs[w].score]
    /\ wpc' = [wpc EXCEPT ![w] = "w_info"]
    /\ UNCHANGED <<wargs, dbVars, named, node, rhVars, readVars, gpc, guser, gval, jpc, resets, crashes>>

\* update_rank_score_to_redis: ZADD of the encoded score; an error ends the
\* request, the mysql row stays.
UpdateRedis(w) ==
    /\ node = "up" /\ wpc[w] = "w_redis"
    /\ \/ /\ redis' = [redis EXCEPT ![wargs[w].user] = wargs[w].score]
          /\ wpc' = [wpc EXCEPT ![w] = "w_info"]
       \/ /\ CallFails /\ UNCHANGED redis
          /\ wpc' = [wpc EXCEPT ![w] = "idle"]
    /\ wargs' = IF wpc'[w] = "idle" THEN [wargs EXCEPT ![w] = NoWrite] ELSE wargs
    /\ UNCHANGED <<dbVars, named, node, rhVars, readVars, gpc, guser, gval, jpc, resets, crashes>>

\* update_user_info_to_redis: HSET of the nickname; the request ends either
\* way (an error is reported, the score stays on the board).
UpdateUserInfo(w) ==
    /\ node = "up" /\ wpc[w] = "w_info"
    /\ \/ named' = named \cup {wargs[w].user}
       \/ CallFails /\ UNCHANGED named
    /\ wpc' = [wpc EXCEPT ![w] = "idle"] /\ wargs' = [wargs EXCEPT ![w] = NoWrite]
    /\ UNCHANGED <<dbVars, redis, node, rhVars, readVars, gpc, guser, gval, jpc, resets, crashes>>

-----------------------------------------------------------------------------
(* get_user_score *)

GetReceive(g) ==
    /\ node = "up" /\ gpc[g] = "idle"
    /\ \E u \in Users : guser' = [guser EXCEPT ![g] = u]
    /\ gpc' = [gpc EXCEPT ![g] = "g_redis"]
    /\ UNCHANGED <<storeVars, node, rhVars, readVars, wpc, wargs, gval, jpc, resets, crashes>>

\* get_user_score_from_redis (ZSCORE): a member answers the request; a
\* missing one (-1) falls back to mysql; an error ends the request.
GetRedis(g) ==
    /\ node = "up" /\ gpc[g] = "g_redis"
    /\ \/ redis[guser[g]] # Absent /\ gpc' = [gpc EXCEPT ![g] = "idle"]
       \/ redis[guser[g]] = Absent /\ gpc' = [gpc EXCEPT ![g] = "g_mysql"]
       \/ CallFails /\ gpc' = [gpc EXCEPT ![g] = "idle"]
    /\ guser' = IF gpc'[g] = "idle" THEN [guser EXCEPT ![g] = NoUser] ELSE guser
    /\ UNCHANGED <<storeVars, node, rhVars, readVars, wpc, wargs, gval, jpc, resets, crashes>>

\* Mutant: RowNotFound is taken as a default row (score 0) and backfilled.
GetMysqlDefaultRow(g) ==
    /\ node = "up" /\ gpc[g] = "g_mysql"
    /\ gval' = [gval EXCEPT ![g] = IF slave[guser[g]] = Absent THEN 0 ELSE slave[guser[g]]]
    /\ gpc' = [gpc EXCEPT ![g] = "g_backfill"]
    /\ UNCHANGED <<storeVars, node, rhVars, readVars, wpc, wargs, guser, jpc, resets, crashes>>

\* get_user_score_info_from_mysql on the slave pool: RowNotFound or an
\* error ends the request; a row is kept for the backfill.
GetMysql(g) ==
    /\ node = "up" /\ gpc[g] = "g_mysql"
    /\ \/ /\ slave[guser[g]] # Absent
          /\ gval' = [gval EXCEPT ![g] = slave[guser[g]]]
          /\ gpc' = [gpc EXCEPT ![g] = "g_backfill"]
       \/ /\ slave[guser[g]] = Absent \/ CallFails
          /\ gpc' = [gpc EXCEPT ![g] = "idle"]
          /\ UNCHANGED gval
    /\ guser' = IF gpc'[g] = "idle" THEN [guser EXCEPT ![g] = NoUser] ELSE guser
    /\ UNCHANGED <<storeVars, node, rhVars, readVars, wpc, wargs, jpc, resets, crashes>>

\* The backfill: update_rank_score_to_redis (ZADD only, no nickname) with
\* the score read from mysql; its result is discarded (let _ = ...) and the
\* mysql score is returned.
GetBackfill(g) ==
    /\ node = "up" /\ gpc[g] = "g_backfill"
    /\ \/ redis' = [redis EXCEPT ![guser[g]] = gval[g]]
       \/ CallFails /\ UNCHANGED redis
    /\ gpc' = [gpc EXCEPT ![g] = "idle"]
    /\ gval' = [gval EXCEPT ![g] = Absent] /\ guser' = [guser EXCEPT ![g] = NoUser]
    /\ UNCHANGED <<dbVars, named, node, rhVars, readVars, wpc, wargs, jpc, resets, crashes>>

-----------------------------------------------------------------------------
(* get_top_user_rank.  get_user_ranking is a single ZREVRANK that changes
   nothing, a stutter step of this module. *)

OnBoard == {u \in Users : redis[u] # Absent}

\* The members in ZREVRANGE order, highest score first.  Equal raw scores
\* are ordered by calc_score's time fraction, which this module does not
\* keep (ScoreEncoding does), so they may come in any order.
RevRanges ==
    {s \in [1..Cardinality(OnBoard) -> OnBoard] :
        IsInjective(s) /\ IsSorted(s, LAMBDA a, b : redis[a] >= redis[b])}

\* POST /rank/get_top_user_rank: get_top_user_rank's ZREVRANGE 0 top_n-1
\* WITHSCORES, decoded and ranked 1..k in that order.  An empty board or a
\* redis error answers at once and changes nothing.
TopRange(t) ==
    /\ node = "up" /\ tpc[t] = "idle" /\ OnBoard # {}
    /\ \E n \in TopNs, s \in RevRanges :
          tlist' = [tlist EXCEPT ![t] = SubSeq(s, 1, Min({n, Len(s)}))]
    /\ tpc' = [tpc EXCEPT ![t] = "t_nick"] /\ tpos' = [tpos EXCEPT ![t] = 0]
    /\ UNCHANGED <<storeVars, node, rhVars, wpc, wargs, gpc, guser, gval, jpc, resets, crashes>>

\* The hydration loop: get_user_info_from_redis (HGET userinfo:{appid}) for
\* the next entry, one await each.  A missing field or an error gives the
\* entry the nickname "momo"; after the last entry the list is returned.
TopNick(t) ==
    /\ node = "up" /\ tpc[t] = "t_nick"
    /\ IF tpos[t] + 1 = Len(tlist[t])
       THEN tpc' = [tpc EXCEPT ![t] = "idle"] /\ tlist' = [tlist EXCEPT ![t] = <<>>]
            /\ tpos' = [tpos EXCEPT ![t] = 0]
       ELSE tpos' = [tpos EXCEPT ![t] = @ + 1] /\ UNCHANGED <<tpc, tlist>>
    /\ UNCHANGED <<storeVars, node, rhVars, wpc, wargs, gpc, guser, gval, jpc, resets, crashes>>

-----------------------------------------------------------------------------
(* The reset job: clear_rank_data fired by the board's cron schedule *)

\* The JobScheduler fires the job (it runs only once init_rank started it).
JobFire ==
    /\ node = "up" /\ jpc = "idle" /\ resets < MaxResets
    /\ jpc' = "j_mysql" /\ resets' = resets + 1
    /\ UNCHANGED <<storeVars, node, rhVars, readVars, wpc, wargs, gpc, guser, gval, crashes>>

\* clear_all_users_score_info_from_mysql: DELETE FROM the table on the
\* master pool; an error is only logged.
JobMysql ==
    /\ node = "up" /\ jpc = "j_mysql"
    /\ \/ CanCommit /\ Commit([users |-> Users, val |-> Absent])
       \/ CallFails /\ UNCHANGED dbVars
    /\ jpc' = "j_redis"
    /\ UNCHANGED <<idxVars, node, rhVars, readVars, wpc, wargs, gpc, guser, gval, resets, crashes>>

\* clear_all_users_score_info_from_redis: DEL of the sorted set (the
\* nickname hash is per appid and stays); an error is only logged.
JobRedis ==
    /\ node = "up" /\ jpc = "j_redis"
    /\ \/ redis' = [u \in Users |-> Absent]
       \/ CallFails /\ UNCHANGED redis
    /\ jpc' = "idle"
    /\ UNCHANGED <<dbVars, named, node, rhVars, readVars, wpc, wargs, gpc, guser, gval, resets, crashes>>

-----------------------------------------------------------------------------
(* The read-replica *)

\* The slave applies the oldest commit it has not applied yet.
SlaveApply ==
    /\ binlog # <<>>
    /\ slave' = ApplyChange(slave, Head(binlog)) /\ binlog' = Tail(binlog)
    /\ UNCHANGED <<mysql, everDurable, idxVars, node, rhVars, procVars, resets, crashes>>

-----------------------------------------------------------------------------
(* Process lifecycle *)

\* The process dies: requests in flight and a running job are lost, the
\* stores keep what they committed.
Crash ==
    /\ node # "down" /\ crashes < MaxCrashes
    /\ node' = "down" /\ crashes' = crashes + 1
    /\ page' = <<>> /\ pos' = 0 /\ start' = 0
    /\ wpc' = [w \in Writers |-> "idle"] /\ gpc' = [g \in Readers |-> "idle"]
    /\ wargs' = [w \in Writers |-> NoWrite] /\ guser' = [g \in Readers |-> NoUser]
    /\ gval' = [g \in Readers |-> Absent] /\ jpc' = "idle"
    /\ tpc' = [t \in TopReaders |-> "idle"] /\ tlist' = [t \in TopReaders |-> <<>>]
    /\ tpos' = [t \in TopReaders |-> 0]
    /\ UNCHANGED <<storeVars, resets>>

\* main: Database::init and init_redis_pool, then init_rank, which loads
\* rank_table_config, rehydrates redis when started with --sync_redis,
\* starts the scheduler, and the server serves.  A failing pool, or a
\* failing load that makes init_rank return false, panics: the process is
\* down again.
Restart ==
    /\ node = "down"
    /\ \/ /\ node' = IF SyncOnRestart THEN "rehydrate" ELSE "up"
          /\ UNCHANGED crashes
       \/ CallFails /\ crashes < MaxCrashes
          /\ crashes' = crashes + 1 /\ UNCHANGED node
    /\ UNCHANGED <<storeVars, rhVars, procVars, resets>>

\* The rows of the table in SELECT order as the slave pool returns them, and
\* the page LIMIT start, PageSize.
Rows ==
    LET present == SelectSeq(UserOrder, LAMBDA u : slave[u] # Absent)
    IN [i \in DOMAIN present |-> [user |-> present[i], score |-> slave[present[i]]]]

PageAt(k) == SubSeq(Rows, k + 1, Min({k + PageSize, Len(Rows)}))

\* get_pagination_all_users_score_info_from_mysql; an error makes init_rank
\* return false and main panic.  An empty page ends the loop.
RhFetch ==
    /\ node = "rehydrate" /\ pos = Len(page)
    /\ \/ /\ PageAt(start) = <<>>
          /\ node' = "up" /\ page' = <<>> /\ pos' = 0 /\ start' = 0
          /\ UNCHANGED crashes
       \/ /\ PageAt(start) # <<>>
          /\ page' = PageAt(start) /\ pos' = 0
          /\ UNCHANGED <<node, start, crashes>>
       \/ /\ CallFails /\ crashes < MaxCrashes
          /\ node' = "down" /\ crashes' = crashes + 1
          /\ page' = <<>> /\ pos' = 0 /\ start' = 0
    /\ UNCHANGED <<storeVars, procVars, resets>>

\* Mutant: start_index is not advanced after a full page.
RhAdvanceNoStep(full) ==
    IF pos + 1 = Len(page)
    THEN IF full
         THEN page' = <<>> /\ pos' = 0 /\ UNCHANGED <<node, start>>
         ELSE node' = "up" /\ page' = <<>> /\ pos' = 0 /\ start' = 0
    ELSE pos' = pos + 1 /\ UNCHANGED <<node, page, start>>

\* The loop's position after the row at pos + 1 has been copied.
RhAdvance(full) ==
    IF pos + 1 = Len(page)
    THEN IF full
         THEN page' = <<>> /\ pos' = 0 /\ start' = start + PageSize /\ UNCHANGED node
         ELSE node' = "up" /\ page' = <<>> /\ pos' = 0 /\ start' = 0
    ELSE pos' = pos + 1 /\ UNCHANGED <<node, page, start>>

\* Mutant: the loop stops after a page holding PAGE_SIZE rows as well.
RhRowStopAtFull ==
    LET row == page[pos + 1] IN
    /\ node = "rehydrate" /\ pos < Len(page)
    /\ redis' = [redis EXCEPT ![row.user] = row.score] /\ named' = named \cup {row.user}
    /\ RhAdvance(Len(page) > PageSize)
    /\ UNCHANGED <<dbVars, procVars, resets, crashes>>

\* One row: update_rank_score_to_redis (ZADD), then update_user_info_to_redis
\* (HSET).  An error in either makes init_rank fail and main panic; dying
\* between the two (the HSET's error, or a crash) leaves the ZADD done.
\* After the page's last row a short page ends the loop and a full one
\* advances start_index by PAGE_SIZE.
RhRow ==
    LET row == page[pos + 1]
        zadd == [redis EXCEPT ![row.user] = row.score]
    IN
    /\ node = "rehydrate" /\ pos < Len(page)
    /\ \/ /\ redis' = zadd /\ named' = named \cup {row.user}
          /\ RhAdvance(Len(page) = PageSize)
          /\ UNCHANGED crashes
       \/ /\ crashes < MaxCrashes
          /\ \/ CallFails /\ UNCHANGED redis
             \/ redis' = zadd
          /\ node' = "down" /\ crashes' = crashes + 1
          /\ page' = <<>> /\ pos' = 0 /\ start' = 0
          /\ UNCHANGED named
    /\ UNCHANGED <<dbVars, procVars, resets>>

-----------------------------------------------------------------------------
Next ==
    \/ \E w \in Writers :
          UpdateReceive(w) \/ UpdateMysql(w) \/ UpdateRedis(w) \/ UpdateUserInfo(w)
    \/ \E g \in Readers : GetReceive(g) \/ GetRedis(g) \/ GetMysql(g) \/ GetBackfill(g)
    \/ \E t \in TopReaders : TopRange(t) \/ TopNick(t)
    \/ JobFire \/ JobMysql \/ JobRedis
    \/ SlaveApply
    \/ Crash \/ Restart \/ RhFetch \/ RhRow

Spec == Init /\ [][Next]_vars

\* init_rank runs to its end: the process does not stop in the middle of
\* the sequential rehydration loop unless it dies.
FairSpec == Spec /\ WF_vars(RhFetch) /\ WF_vars(RhRow)

-----------------------------------------------------------------------------
(* Properties *)

\* The server is serving and no request or job is between two store calls.
Settled ==
    /\ node = "up" /\ jpc = "idle"
    /\ \A w \in Writers : wpc[w] = "idle"
    /\ \A g \in Readers : gpc[g] = "idle"

\* Once everything has settled, the leaderboard served from redis (rank,
\* top-N, score) shows exactly the durable scores of mysql: update_score
\* writes both, get_user_score backfills from mysql, the reset clears both,
\* and --sync_redis copies mysql into redis after a restart.
IndexAgreesWhenSettled ==
    Settled => redis = mysql

\* init_rank's rehydration ends only after every durable row is in redis
\* with its durable score: read_mysql_rank_write_to_redis pages through the
\* whole table, including a last page that is exactly PAGE_SIZE long.
RehydrationCoversDurable ==
    [][node = "rehydrate" /\ node' = "up" =>
         \A u \in Users : mysql'[u] # Absent => redis'[u] = mysql'[u]]_vars

\* The board never shows a score that mysql did not commit for that openid
\* (the durable store is the source of truth): update_score writes redis
\* only after its upsert succeeded, and the backfill and the rehydration
\* copy rows read from the slave.
IndexOnlyDurableScores ==
    \A u \in Users : redis[u] = Absent \/ redis[u] \in everDurable[u]

\* A --sync_redis startup leaves read_mysql_rank_write_to_redis: it serves,
\* or it dies.  The paging loop cannot run forever.
RehydrationEnds == node = "rehydrate" ~> node # "rehydrate"

\* mysql and redis behave as the durable store and its cache (ScoreIndex):
\* every change of redis gives an openid its current mysql score, or drops
\* the board.
Abs == INSTANCE ScoreIndex WITH durable <- mysql, index <- redis

ImplementsScoreIndex == Abs!Spec
====
