--------------------------- MODULE RankConfigService ---------------------------
(***************************************************************************)
(* The master node's RankConfigService (src/src/service/rank_config_service.rs) *)
(* together with the parts of RankRepository (src/src/repository/           *)
(* rank_repository.rs) that it drives for configuration.                   *)
(*                                                                         *)
(* Admin requests (add_rank_config / delete_rank_config) run concurrently  *)
(* on the tokio runtime.  Each request is a process whose pc advances at   *)
(* every .await of the handler; everything between two awaits is one      *)
(* atomic step.  State shared by the requests:                             *)
(*   configs    the Vec<RankTableConfig> behind a std Mutex (registry)     *)
(*   secretMap  the appid -> app_secret HashMap behind a tokio RwLock      *)
(*   updateTime the AtomicU64 config_update_time                           *)
(*   jobs       the reset jobs registered in the JobScheduler              *)
(*   cfgTable   committed rows of the MySQL table rank_table_config        *)
(*   rankTables per-leaderboard tables created by CREATE_RANK_TABLE        *)
(*   conn       the sqlx master pool: each statement is executed on        *)
(*              whichever pooled connection the pool hands out, and a      *)
(*              connection keeps an open MySQL transaction across uses.   *)
(*   scoreLog   the score-table statements other components ran on the   *)
(*              same pool, in the order they were committed (MasterPool). *)
(***************************************************************************)
EXTENDS Naturals, Sequences, FiniteSets, SequencesExt

CONSTANTS
    Apps,          \* appids (tenants)
    Keys,          \* rank_keys
    Secrets,       \* app_secret values
    Reqs,          \* concurrent admin requests; a request's id names its cron job
    Conns,         \* connections of the sqlx master pool
    MaxClock,      \* bound on the millisecond wall clock
    NoSecret,      \* absent entry of the secret map
    NoJob,         \* cron_uuid of a config without a scheduled job
    ProcMayFail,   \* CALL CREATE_RANK_TABLE may fail
    SchedMayFail,  \* Job::new_async / JobScheduler::add may fail
    UniqueMillis,  \* no two registry mutations fall in the same millisecond
    MaxCrashes,    \* bound on deaths of the master process
    ScoreStmts     \* statements on leaderboard tables sharing the pool ({} here)

ASSUME ProcMayFail \in BOOLEAN /\ SchedMayFail \in BOOLEAN /\ UniqueMillis \in BOOLEAN
ASSUME MaxCrashes \in Nat
\* Every request and every restart can take a fresh millisecond stamp.
ASSUME MaxClock \in Nat /\ MaxClock >= Cardinality(Reqs) + MaxCrashes

\* A cron expression is abstracted to whether cron::Schedule::from_str accepts it.
CronExprs == {"valid", "invalid"}

Board == Apps \X Keys

\* The uuid of a reset job: the id of the add request that started it, or
\* (restart number, board) for the jobs init_rank starts after a restart.
JobIds == Reqs \cup ((1..MaxCrashes) \X Board)

\* A row of rank_table_config; only validated expressions are ever inserted.
Row == [app: Apps, key: Keys, secret: Secrets, cron: {"valid"}]

\* An entry of the registry Vec<RankTableConfig>; job is its cron_uuid.
Config == [app: Apps, key: Keys, secret: Secrets, cron: {"valid"}, job: JobIds \cup {NoJob}]

\* A registered entry: add and init_rank push a config only with Some(uuid).
RegConfig == {c \in Config : c.job # NoJob}

\* A write statement on rank_table_config.
Write == [op: {"ins"}, row: Row] \cup [op: {"del"}, app: Apps, key: Keys] \cup ScoreStmts

IsScoreStmt(w) == w \in ScoreStmts

IdleConn == [open |-> FALSE, pending |-> <<>>]

NoArgs == [op |-> "none", app |-> CHOOSE a \in Apps : TRUE,
           key |-> CHOOSE k \in Keys : TRUE, secret |-> CHOOSE s \in Secrets : TRUE,
           cron |-> "valid"]

VARIABLES configs, secretMap, updateTime, clock, jobs,
          cfgTable, rankTables, conn, scoreLog,
          pc, args, cnt, removed,
          up, crashes

nodeVars    == <<up, crashes>>
serviceVars == <<configs, secretMap, updateTime, clock, jobs, nodeVars>>
dbVars      == <<cfgTable, rankTables, conn, scoreLog>>
reqVars     == <<pc, args, cnt, removed>>
vars        == <<serviceVars, dbVars, reqVars>>

NoConfig == [app |-> NoArgs.app, key |-> NoArgs.key, secret |-> NoArgs.secret,
             cron |-> "valid", job |-> NoJob]

Pcs == {"idle", "add_check", "add_exist", "tx_begin", "tx_insert", "tx_call",
        "tx_commit", "tx_rollback", "add_sched", "add_secret",
        "del_find", "del_secret", "del_row", "del_cancel", "done"}

TypeOK ==
    /\ configs \in Seq(RegConfig)
    /\ secretMap \in [Apps -> Secrets \cup {NoSecret}]
    /\ updateTime \in 0..MaxClock /\ clock \in 0..MaxClock
    /\ jobs \subseteq JobIds
    /\ up \in BOOLEAN /\ crashes \in 0..MaxCrashes
    /\ cfgTable \subseteq Row /\ rankTables \subseteq Board
    /\ conn \in [Conns -> [open: BOOLEAN, pending: Seq(Write)]]
    /\ scoreLog \in Seq(ScoreStmts)
    /\ pc \in [Reqs -> Pcs]
    /\ args \in [Reqs -> [op: {"none", "add", "del"}, app: Apps, key: Keys,
                          secret: Secrets, cron: CronExprs]]
    /\ cnt \in [Reqs -> Nat]
    /\ removed \in [Reqs -> Config]

-----------------------------------------------------------------------------
(* Helpers *)

BoardOf(x) == <<x.app, x.key>>

RegistryBoards == {BoardOf(configs[i]) : i \in DOMAIN configs}

TableBoards(tbl) == {BoardOf(x) : x \in tbl}

\* Effect of one write statement on the rows of rank_table_config (a
\* statement on a leaderboard table leaves them alone).
ApplyWrite(tbl, w) ==
    CASE w.op = "ins" -> tbl \cup {w.row}
      [] w.op = "del" -> {x \in tbl : BoardOf(x) # <<w.app, w.key>>}
      [] OTHER        -> tbl

ApplyWrites(tbl, ws) == FoldLeft(ApplyWrite, tbl, ws)

WriteBoard(w) == IF w.op = "ins" THEN BoardOf(w.row) ELSE <<w.app, w.key>>

\* Boards whose row lock is held by the open transaction of connection c.
LockedBy(c) == {WriteBoard(conn[c].pending[i]) : i \in {j \in DOMAIN conn[c].pending :
                                                      ~IsScoreStmt(conn[c].pending[j])}}

\* InnoDB: a statement touching a row locked by another connection's open
\* transaction waits and, when that transaction never ends, fails with a
\* lock-wait timeout.
LockedForOthers(c, b) == \E d \in Conns \ {c} : b \in LockedBy(d)

\* The rows connection c sees: committed rows plus its own uncommitted writes.
VisibleTo(c) == ApplyWrites(cfgTable, conn[c].pending)

\* Execute a write statement on connection c: held back in c's open
\* transaction, otherwise autocommitted.
ExecWrite(c, w) ==
    IF conn[c].open
    THEN /\ conn' = [conn EXCEPT ![c].pending = Append(@, w)]
         /\ UNCHANGED <<cfgTable, scoreLog>>
    ELSE /\ cfgTable' = ApplyWrite(cfgTable, w)
         /\ scoreLog' = IF IsScoreStmt(w) THEN Append(scoreLog, w) ELSE scoreLog
         /\ UNCHANGED conn

\* The statements held back on c become durable, in the order they ran.
CommitPending(c) ==
    /\ cfgTable' = ApplyWrites(cfgTable, conn[c].pending)
    /\ scoreLog' = scoreLog \o SelectSeq(conn[c].pending, IsScoreStmt)

\* COMMIT (explicit, or implicit before DDL / START TRANSACTION) on c.
CommitOn(c) ==
    /\ CommitPending(c)
    /\ conn' = [conn EXCEPT ![c] = IdleConn]

Goto(r, from, to) ==
    /\ pc[r] = from
    /\ pc' = [pc EXCEPT ![r] = to]

Finish(r, from) ==
    /\ pc[r] = from
    /\ pc' = [pc EXCEPT ![r] = "done"]
    /\ args' = [args EXCEPT ![r] = NoArgs]
    /\ cnt' = [cnt EXCEPT ![r] = 0]
    /\ removed' = [removed EXCEPT ![r] = NoConfig]

-----------------------------------------------------------------------------
Init ==
    /\ configs = <<>>
    /\ secretMap = [a \in Apps |-> NoSecret]
    /\ updateTime = 0 /\ clock = 0
    /\ jobs = {}
    /\ cfgTable = {} /\ rankTables = {} /\ scoreLog = <<>>
    /\ conn = [c \in Conns |-> IdleConn]
    /\ pc = [r \in Reqs |-> "idle"]
    /\ args = [r \in Reqs |-> NoArgs]
    /\ cnt = [r \in Reqs |-> 0]
    /\ removed = [r \in Reqs |-> NoConfig]
    /\ up = TRUE /\ crashes = 0

\* config_update_time.store(Utc::now().timestamp_millis()): clock holds the
\* millisecond of the last stamp (0 is the startup stamp of init_rank).  A
\* mutation falls in a later millisecond or, unless UniqueMillis, in the same
\* millisecond as the previous mutation.
StampNow ==
    /\ clock' \in ({clock + 1} \cup (IF UniqueMillis \/ clock = 0 THEN {} ELSE {clock}))
                  \cap 0..MaxClock
    /\ updateTime' = clock'

\* An admin request arrives: POST add_rank_config or DELETE delete_rank_config.
Receive(r) ==
    /\ up /\ pc[r] = "idle"
    /\ \E a \in Apps, k \in Keys, s \in Secrets, e \in CronExprs :
          \/ /\ args' = [args EXCEPT ![r] = [op |-> "add", app |-> a, key |-> k,
                                             secret |-> s, cron |-> e]]
             /\ pc' = [pc EXCEPT ![r] = "add_check"]
          \/ /\ e = "valid" /\ s = NoArgs.secret
             /\ args' = [args EXCEPT ![r] = [op |-> "del", app |-> a, key |-> k,
                                             secret |-> s, cron |-> e]]
             /\ pc' = [pc EXCEPT ![r] = "del_find"]
    /\ UNCHANGED <<serviceVars, dbVars, cnt, removed>>

-----------------------------------------------------------------------------
(* add_rank_config *)

\* Validate the cron expression, then compare the secret under the read lock.
AddCheck(r) ==
    LET a == args[r] IN
    \/ /\ a.cron = "invalid" \/ secretMap[a.app] \notin {NoSecret, a.secret}
       /\ Finish(r, "add_check")
    \/ /\ a.cron = "valid" /\ secretMap[a.app] \in {NoSecret, a.secret}
       /\ Goto(r, "add_check", "add_exist")
       /\ UNCHANGED <<args, cnt, removed>>
    /\ UNCHANGED <<serviceVars, dbVars>>

\* "rank config has exist" check under the registry mutex.
AddExist(r) ==
    /\ \/ /\ BoardOf(args[r]) \in RegistryBoards
          /\ Finish(r, "add_exist")
       \/ /\ BoardOf(args[r]) \notin RegistryBoards
          /\ Goto(r, "add_exist", "tx_begin")
          /\ UNCHANGED <<args, cnt, removed>>
    /\ UNCHANGED <<serviceVars, dbVars>>

\* START TRANSACTION executed on some pooled connection; MySQL first commits
\* a transaction still open on it.
TxBegin(r) ==
    /\ \E c \in Conns :
          /\ CommitPending(c)
          /\ conn' = [conn EXCEPT ![c] = [open |-> TRUE, pending |-> <<>>]]
    /\ Goto(r, "tx_begin", "tx_insert")
    /\ UNCHANGED <<serviceVars, rankTables, args, cnt, removed>>

\* INSERT INTO rank_table_config on some pooled connection: a duplicate key
\* (1062) or a lock-wait timeout goes to ROLLBACK, otherwise the row is written.
TxInsert(r) ==
    LET a == args[r]
        row == [app |-> a.app, key |-> a.key, secret |-> a.secret, cron |-> "valid"]
    IN
    /\ \E c \in Conns :
          \/ /\ LockedForOthers(c, BoardOf(a))
             /\ Goto(r, "tx_insert", "tx_rollback")
             /\ UNCHANGED <<cfgTable, conn, scoreLog>>
          \/ /\ ~LockedForOthers(c, BoardOf(a))
             /\ BoardOf(a) \in TableBoards(VisibleTo(c))
             /\ Goto(r, "tx_insert", "tx_rollback")
             /\ UNCHANGED <<cfgTable, conn, scoreLog>>
          \/ /\ ~LockedForOthers(c, BoardOf(a))
             /\ BoardOf(a) \notin TableBoards(VisibleTo(c))
             /\ ExecWrite(c, [op |-> "ins", row |-> row])
             /\ Goto(r, "tx_insert", "tx_call")
    /\ UNCHANGED <<serviceVars, rankTables, args, cnt, removed>>

\* call CREATE_RANK_TABLE(appid, rank_key): DDL inside the procedure commits
\* the connection's open transaction implicitly; the call may fail.
TxCall(r) ==
    /\ \/ /\ \E c \in Conns : CommitOn(c)
          /\ rankTables' = rankTables \cup {BoardOf(args[r])}
          /\ Goto(r, "tx_call", "tx_commit")
       \/ /\ ProcMayFail
          /\ Goto(r, "tx_call", "tx_rollback")
          \* the call fails before its DDL, or after the DDL's implicit commit
          /\ \/ UNCHANGED <<cfgTable, conn>>
             \/ \E c \in Conns : CommitOn(c)
          /\ UNCHANGED <<rankTables, scoreLog>>
    /\ UNCHANGED <<serviceVars, args, cnt, removed>>

\* COMMIT on some pooled connection.
TxCommit(r) ==
    /\ \E c \in Conns : CommitOn(c)
    /\ Goto(r, "tx_commit", "add_sched")
    /\ UNCHANGED <<serviceVars, rankTables, args, cnt, removed>>

\* ROLLBACK on some pooled connection, then the add returns the DB error.
TxRollback(r) ==
    /\ \E c \in Conns : conn' = [conn EXCEPT ![c] = IdleConn]
    /\ Finish(r, "tx_rollback")
    /\ UNCHANGED <<serviceVars, cfgTable, rankTables, scoreLog>>

\* Mutant: the job's uuid is not recorded in the pushed config.
\* Mutant: a failed job creation still pushes the config, with an empty uuid.
AddSchedNoUuid(r) ==
    LET a == args[r]
        entry(j) == [app |-> a.app, key |-> a.key, secret |-> a.secret, cron |-> "valid", job |-> j]
    IN
    /\ \/ /\ jobs' = jobs \cup {r} /\ configs' = Append(configs, entry(r))
       \/ /\ SchedMayFail /\ configs' = Append(configs, entry(NoJob)) /\ UNCHANGED jobs
    /\ Goto(r, "add_sched", "add_secret")
    /\ UNCHANGED <<args, cnt, removed, secretMap, updateTime, clock, dbVars, nodeVars>>

\* Mutant: the job is built but never handed to JobScheduler::add.
AddSchedNotAdded(r) ==
    LET a == args[r] IN
    /\ configs' = Append(configs, [app |-> a.app, key |-> a.key, secret |-> a.secret,
                                   cron |-> "valid", job |-> r])
    /\ Goto(r, "add_sched", "add_secret")
    /\ UNCHANGED <<jobs, args, cnt, removed, secretMap, updateTime, clock, dbVars, nodeVars>>

\* start_rank_cron_job, then push the config into the registry.  When the job
\* cannot be created the handler logs and returns Ok(()) without the push.
AddSched(r) ==
    LET a == args[r] IN
    /\ \/ /\ jobs' = jobs \cup {r}
          /\ configs' = Append(configs, [app |-> a.app, key |-> a.key, secret |-> a.secret,
                                         cron |-> "valid", job |-> r])
          /\ Goto(r, "add_sched", "add_secret")
          /\ UNCHANGED <<args, cnt, removed>>
       \/ /\ SchedMayFail
          /\ Finish(r, "add_sched")
          /\ UNCHANGED <<jobs, configs>>
    /\ UNCHANGED <<secretMap, updateTime, clock, dbVars, nodeVars>>

\* Mutant: the update time is not stored after an add.
AddSecretNoStamp(r) ==
    /\ secretMap' = [secretMap EXCEPT ![args[r].app] = args[r].secret]
    /\ Finish(r, "add_secret")
    /\ UNCHANGED <<configs, updateTime, clock, jobs, dbVars, nodeVars>>

\* Insert the secret under the write lock and store the update time.
AddSecret(r) ==
    /\ secretMap' = [secretMap EXCEPT ![args[r].app] = args[r].secret]
    /\ StampNow
    /\ Finish(r, "add_secret")
    /\ UNCHANGED <<configs, jobs, dbVars, nodeVars>>

-----------------------------------------------------------------------------
(* delete_rank_config *)

\* Under the registry mutex: count the configs of the appid, remove the last
\* matching entry, then store the update time.
DelFind(r) ==
    LET a == args[r]
        idx == SelectLastInSeq(configs, LAMBDA x : BoardOf(x) = BoardOf(a))
        total == Cardinality({i \in DOMAIN configs : configs[i].app = a.app})
    IN
    /\ \/ /\ idx = 0
          /\ Finish(r, "del_find")
          /\ UNCHANGED <<configs, updateTime, clock>>
       \/ /\ idx # 0
          /\ configs' = RemoveAt(configs, idx)
          /\ StampNow
          /\ removed' = [removed EXCEPT ![r] = configs[idx]]
          /\ cnt' = [cnt EXCEPT ![r] = total]
          /\ Goto(r, "del_find", IF total <= 1 THEN "del_secret" ELSE "del_row")
          /\ UNCHANGED args
    /\ UNCHANGED <<secretMap, jobs, dbVars, nodeVars>>

\* The last config of the appid was removed: drop the secret (write lock).
DelSecret(r) ==
    /\ secretMap' = [secretMap EXCEPT ![removed[r].app] = NoSecret]
    /\ Goto(r, "del_secret", "del_row")
    /\ UNCHANGED <<configs, updateTime, clock, jobs, dbVars, args, cnt, removed, nodeVars>>

\* DELETE FROM rank_table_config on some pooled connection; an error is only
\* logged.
DelRow(r) ==
    LET b == BoardOf(removed[r]) IN
    /\ \E c \in Conns :
          \/ /\ LockedForOthers(c, b)
             /\ UNCHANGED <<cfgTable, conn, scoreLog>>
          \/ /\ ~LockedForOthers(c, b)
             /\ ExecWrite(c, [op |-> "del", app |-> b[1], key |-> b[2]])
    /\ Goto(r, "del_row", "del_cancel")
    /\ UNCHANGED <<serviceVars, rankTables, args, cnt, removed>>

\* clear_rank_data (score data, not modelled here), then remove the cron job.
\* A failing sched.remove is only logged and the handler returns Ok(()), so
\* the job keeps running.
DelCancel(r) ==
    /\ \/ jobs' = jobs \ {removed[r].job}
       \/ SchedMayFail /\ UNCHANGED jobs
    /\ Finish(r, "del_cancel")
    /\ UNCHANGED <<configs, secretMap, updateTime, clock, dbVars, nodeVars>>

-----------------------------------------------------------------------------
RequestStep(r) ==
    \/ Receive(r)
    \/ AddCheck(r) \/ AddExist(r)
    \/ TxBegin(r) \/ TxInsert(r) \/ TxCall(r) \/ TxCommit(r) \/ TxRollback(r)
    \/ AddSched(r) \/ AddSecret(r)
    \/ DelFind(r) \/ DelSecret(r) \/ DelRow(r) \/ DelCancel(r)

-----------------------------------------------------------------------------
(* Process lifecycle (main.rs, init_rank) *)

\* The master process dies: requests in flight never answer, the registry,
\* the secret map and the scheduler's jobs are gone, and MySQL rolls back
\* the transactions left open on the pool's connections.  The tables stay.
MasterCrash ==
    /\ up /\ crashes < MaxCrashes
    /\ up' = FALSE /\ crashes' = crashes + 1
    /\ configs' = <<>> /\ secretMap' = [a \in Apps |-> NoSecret] /\ jobs' = {}
    /\ conn' = [c \in Conns |-> IdleConn]
    /\ pc' = [r \in Reqs |-> IF pc[r] = "idle" THEN "idle" ELSE "done"]
    /\ args' = [r \in Reqs |-> NoArgs] /\ cnt' = [r \in Reqs |-> 0]
    /\ removed' = [r \in Reqs |-> NoConfig]
    /\ UNCHANGED <<updateTime, clock, cfgTable, rankTables, scoreLog>>

\* The registry init_rank builds from the rows of rank_table_config (SELECT *
\* on the master pool, in the table's order), each with the uuid of the job
\* start_rank_cron_job created for it (update_sched_uuid).
Loaded ==
    LET rows == SetToSeq(cfgTable) IN
    [i \in DOMAIN rows |-> [app |-> rows[i].app, key |-> rows[i].key,
                            secret |-> rows[i].secret, cron |-> rows[i].cron,
                            job |-> <<crashes, BoardOf(rows[i])>>]]

\* main runs init_rank before it serves: load the table, insert every
\* config's secret, replace the registry, stamp config_update_time and start
\* a reset job per config.  A job that cannot be created makes init_rank
\* return false and main panic, so the process is down again.
InitRank ==
    /\ ~up
    /\ \/ /\ configs' = Loaded
          /\ secretMap' = [a \in Apps |->
                             IF \E i \in DOMAIN Loaded : Loaded[i].app = a
                             THEN Loaded[SelectLastInSeq(Loaded, LAMBDA x : x.app = a)].secret
                             ELSE NoSecret]
          /\ StampNow
          /\ jobs' = {Loaded[i].job : i \in DOMAIN Loaded}
          /\ up' = TRUE /\ UNCHANGED crashes
       \/ /\ SchedMayFail /\ cfgTable # {} /\ crashes < MaxCrashes
          /\ crashes' = crashes + 1
          /\ UNCHANGED <<configs, secretMap, updateTime, clock, jobs, up>>
    /\ UNCHANGED <<dbVars, reqVars>>

\* All requests have been served; the system may then stop.
AllDone == \A r \in Reqs : pc[r] = "done"

Next ==
    \/ \E r \in Reqs : RequestStep(r)
    \/ MasterCrash \/ InitRank
    \/ AllDone /\ UNCHANGED vars

Spec == Init /\ [][Next]_vars

-----------------------------------------------------------------------------
(* Properties *)

\* No admin request is between two awaits.
Quiescent == \A r \in Reqs : pc[r] \in {"idle", "done"}

\* Every registered config owns a live reset job of its own
\* (add_rank_config pushes only with the uuid JobScheduler::add returned,
\* init_rank rebuilds registry and jobs together after a crash, and
\* delete_rank_config removes the entry before it cancels the job): no entry
\* names a job that is not running or that another entry names, whatever
\* adds, deletes, failures and restarts interleave.
ConfigsOwnLiveJobs ==
    \A i \in DOMAIN configs :
        /\ configs[i].job \in jobs
        /\ \A j \in DOMAIN configs : j # i => configs[j].job # configs[i].job

\* At most one registry entry per (appid, rank_key) (spec section 3, invariant
\* 1), although add_rank_config checks the registry and pushes into it in
\* different critical sections.
NoDuplicateBoard ==
    \A i, j \in DOMAIN configs : i # j => BoardOf(configs[i]) # BoardOf(configs[j])

\* The durable config table and the registry agree whenever no request is in
\* flight (spec 3, lifecycle: a config enters the registry exactly when its
\* row and table were committed by add's transaction).
DurableMatchesRegistry ==
    Quiescent => TableBoards(cfgTable) = RegistryBoards

\* The secret map agrees with the registry whenever no request is in flight
\* (spec 3, invariants 2 and 3): every config's secret is its appid's
\* secret, and an appid has a secret iff some config has that appid.
SecretsMatchRegistry ==
    Quiescent =>
        /\ \A i \in DOMAIN configs : secretMap[configs[i].app] = configs[i].secret
        /\ \A a \in Apps : (secretMap[a] # NoSecret) <=> (\E i \in DOMAIN configs : configs[i].app = a)
=============================================================================
