# TLA+ models of rank_server

This directory holds TLA+ models of the leaderboard service in `src/src`, and the TLC configurations that check them. The modules are translated from the Rust source. `spec.md` is used only to state what the code is supposed to guarantee. `PROJECT.json` lists:
- the components and the modules that model them;
- every run and its expected outcome;
- the mutants;
- the source lines behind each definition (`map`);
- the findings and the hazards.

## 1. The system

| Part | Code | Shared state | Operations |
|---|---|---|---|
| Config registry (master) | `service/rank_config_service.rs` `RankConfigService` | `rank_table_configs: Mutex<Vec<RankTableConfig>>`, `rank_config_secret_map: RwLock<HashMap>`, `config_update_time: AtomicU64`, `sched: JobScheduler` | `init_rank`, `add_rank_config`, `delete_rank_config`, `start_rank_cron_job`, `clear_rank_data` |
| Durable store | `repository/rank_repository.rs`, `db/database.rs` | MySQL `rank_table_config`, one `rank_{appid}_{key}` table per board, the master/slave sqlx pools (10 connections each) | `add_rank_config_to_mysql` (START / INSERT / CALL CREATE_RANK_TABLE / COMMIT or ROLLBACK), `delete_rank_config_from_mysql`, score upsert, paginated reads, clear |
| Index store | `rank_repository.rs` | redis sorted set `rank:{appid}:{key}`, hash `userinfo:{appid}` | ZADD, ZSCORE, ZREVRANK, ZREVRANGE, HSET/HGET, DEL |
| Replication | `rank_config_service.rs` `UpdateRankConfigGrpcServer` / `UpdateRankConfigGrpcClient` | the replica's own registry, secret map and update time | `get_last_update_time`, `get_rank_table_config`, the 30 s pull loop, `update_rank_config_from_master_server` |
| Engine | `service/rank_service.rs` | the two stores above | `update_rank_score`, `get_user_score` (redis, then mysql fallback and redis backfill), `get_user_ranking`, `get_top_user_rank` |
| Score encoding | `rank_repository.rs` `calc_score` | – | `score + (BASE − now)/BASE` as f64 |
| Signature guard | `middleware/body_signature.rs` | reads the secret map | returns on its first line, so it never verifies |
| HTTP / DTO / errors / startup | `routes`, `handler`, `dto`, `error`, `response`, `main.rs`, `config` | – | JSON conversion, validation, wiring |

### How the parts interact

Every HTTP request is a tokio task. A handler suspends at every `.await`, so two admin requests interleave at each of these points:
- the secret-map lock;
- each SQL statement;
- the scheduler calls.

The std `Mutex` over the registry is never held across an await. Each step between two awaits is therefore atomic, and the models use that as their grain of atomicity.

Each `execute(pool)` checks out some connection of the master pool. `add_rank_config_to_mysql` issues START TRANSACTION, INSERT, CALL and COMMIT as four independent statements. Each may go to a different connection, and a connection returns to the pool with its transaction still open.

The replica runs a loop: call `send_update_config_request`, then sleep 30 s. It asks the master's gRPC server for its `config_update_time`, and fetches a snapshot only when that time differs from its own.

### The hard behaviours

- **Check-then-act across awaits in add.** The secret check, the existence check and the registry push are three separate critical sections, with the SQL transaction and the scheduler call between them.
- **A transaction spread over pooled connections.** START TRANSACTION and DDL commit implicitly. A row lock held by another connection's open transaction causes a lock-wait timeout, and ROLLBACK may land on yet another connection.
- **A delete with stale information.** `appid_rank_total` is computed under the mutex. Whether to drop the secret is decided on it after the mutex is released.
- **A version that is the wall-clock millisecond.** The snapshot reads the time first and the list afterwards.
- **A replica apply that only inserts secrets.**
- **The dual-store score path.** The write goes to mysql and then redis, the read falls back to mysql and backfills redis, and a cron reset clears both stores independently. The score upsert shares the master pool with the admin transaction.
- **A crash of the master.** Requests in flight are lost and open transactions roll back; `init_rank` rebuilds the registry, the secrets and the jobs from the table.
- **A top-N read in two phases.** ZREVRANGE reads the ranking, then one HGET per entry reads the nickname; a member whose HSET has not happened yet is shown as `momo`.
- **f64 tie-break encoding.**

### What makes each part correct

These come from `spec.md` sections 3, 5 and 8.

Registry:
- There is at most one config per board.
- A config enters the registry exactly when its row and table are committed.
- Every config's secret is its appid's secret, and an appid has a secret only while it has a config.
- Every registered config owns a live job of its own. (No job should outlive its config either, but the code does not ensure it: see the findings.)

Replication:
- The snapshot's time is a version of its list.
- The replica converges once the master stops changing.
- The replica's secrets follow its registry (the code does not do this; see the findings).

Engine:
- redis and mysql agree once the writes in flight have settled.
- A completed `--sync_redis` rehydration has copied every durable row.
- A board member lacks a nickname only while its own update is between the ZADD and the HSET.
- The encoding decodes to the raw score, ranks higher scores first and breaks ties by time.

## 2. Modules

### `RankConfigService.tla`: the master's admin operations and the config store

Every admin request `r ∈ Reqs` is a process with a program counter `pc[r]`. Each label ends at an await of the handler.

| Variable | Code |
|---|---|
| `configs` | `rank_table_configs` (a sequence: `remove(idx)` and `push` keep the order) |
| `secretMap` | `rank_config_secret_map` (`NoSecret` stands for an absent key) |
| `updateTime`, `clock` | `config_update_time`, and the millisecond of the last stamp |
| `jobs` | jobs registered in the `JobScheduler` (a request's id names the job it created) |
| `cfgTable`, `rankTables` | committed rows of `rank_table_config`; the tables made by `CREATE_RANK_TABLE` |
| `scoreLog` | committed score upserts on the master pool, in commit order (empty unless `ScoreStmts` is non-empty, as in `MasterPool`) |
| `up`, `crashes` | whether the process is serving, and the number of crashes so far (bounded by `MaxCrashes`) |
| `conn[c]` | pooled connection `c`: whether a transaction is open, and its pending writes |
| `pc`, `args`, `cnt`, `removed` | the request's position, payload, `appid_rank_total` and the removed config |

| Action | Code |
|---|---|
| `Receive` | the two axum handlers (`handler/rank_handler.rs`) |
| `AddCheck` | cron validation (`Schedule::from_str`, abstracted to valid/invalid) and the secret check under the read lock |
| `AddExist` | the existence check under the mutex |
| `TxBegin`, `TxInsert`, `TxCall`, `TxCommit`, `TxRollback` | the statements of `add_rank_config_to_mysql`, each on a pool-chosen connection; a failing CALL fails either before its DDL or after the DDL's implicit commit of a connection's open transaction |
| `AddSched` | `start_rank_cron_job`, then the push; a failure returns `Ok` with no push |
| `AddSecret` | the secret insert and `config_update_time.store` |
| `DelFind` | the count, the removal and the time store under the mutex |
| `DelSecret` | the secret removal when `appid_rank_total <= 1` |
| `DelRow` | the DELETE statement (its error is only logged) |
| `DelCancel` | `clear_rank_data` (score data is not modelled here) and `sched.remove`; a failing remove is only logged, the job keeps running and the handler returns `Ok` |
| `MasterCrash` | the process dies: requests in flight are lost, every connection's open transaction rolls back, the in-memory registry, secrets and jobs are gone; the tables stay |
| `InitRank` | `init_rank` at restart: `get_all_rank_config_from_mysql` (`Loaded`), the secrets rebuilt from the rows, `Utc::now` stamped, a job started per config. If a job cannot start, `init_rank` returns false and `main` panics (`main.rs` 96-99), so the node stays down and counts another crash |

The MySQL effects are modelled as follows:
- `TxInsert` fails with 1062 when the row is visible to its connection, and with a lock-wait timeout when another connection's open transaction holds the row.
- `TxCall` commits the connection's open transaction implicitly, because the procedure's DDL does.
- `TxBegin` commits whatever is pending on the connection it lands on.

`InitRank` is one step because `main` awaits `init_rank` before it binds the HTTP and gRPC servers, so nothing else runs on the node meanwhile. A job started at restart is named `<<crash number, board>>` (`JobIds`).

`StampNow` models `Utc::now().timestamp_millis()`. A stamp is a later millisecond or, unless `UniqueMillis`, the same millisecond as the previous stamp.

### `ConfigReplication.tla`: master → replica (EXTENDS RankConfigService)

The replica's state is `rConfigs`, `rSecrets`, `rTime`, `rpc` (loop position) and `resp` (the snapshot in flight).

| Action | Code |
|---|---|
| `ReplicaPoll` | `get_last_update_time` and the comparison |
| `ReplicaSleep` | equal times, wait for the next tick |
| `SrvTime`, `SrvCopy` | the two halves of `get_rank_table_config` |
| `RpcFail` | a failed fetch |
| `ReplicaApply` | `update_rank_config_from_master_server` |

While the master is down (`~up`) the server steps are disabled and the replica's poll fails into its sleep. `Wire` drops `cron_uuid`, as the client does. The replica starts from the same (empty) registry and time as the master. On a real replica, `init_rank` stamps its own startup time, which only causes one extra fetch.

### `RankEngine.tla`: the score path over mysql and redis

One board. `mysql` and `redis` are maps from user to score, or `Absent` for no row and no member; the encoding is left to `ScoreEncoding`. Each request is a process with a program counter, and every store call (one `.await`) is one step:
- `update_score` (`rank_handler.rs`, `RankService::update_rank_score`) is `UpdateReceive`, `UpdateMysql` (the upsert on the master pool) and `UpdateRedis` (the ZADD) and `UpdateUserInfo` (the HSET of the nickname into `userinfo:{appid}`, a separate `.await` after the ZADD). A failing call ends the request with an error; what earlier steps wrote stays.
- `get_user_score` is `GetReceive`, `GetRedis` (ZSCORE; a hit ends the request), `GetMysql` (the fallback, read from the slave pool; no row ends it) and `GetBackfill` (a ZADD of the score read from mysql, its result ignored).
- The cron job of the board (`start_rank_cron_job`'s closure, `clear_rank_data`) is `JobFire`, `JobMysql` (DELETE) and `JobRedis` (DEL of the sorted set; the nickname hash is not touched). Both errors are only logged: a failed DELETE is still followed by the DEL.
- `Crash` kills the process at any point: every request and job in flight is lost, the stores keep their contents. `Restart` runs `init_rank`. With `--sync_redis` (`SyncOnRestart`), `read_mysql_rank_write_to_redis` pages through the table: `RhFetch` reads `LIMIT start,PAGE_SIZE` from the slave pool (`Rows`, `PageAt`; the rows in the table's order `UserOrder`), `RhRow` writes one row to redis (ZADD, then HSET), and `RhAdvance` moves to the next page after a full one or ends the loop after a short one. Any error makes `init_rank` fail and `main` panic, so the node is down again. `Restart`'s other disjunct is the same panic earlier in `main`: `Database::init`, `init_redis_pool` or `init_rank`'s load of the table failing (bounded by `MaxCrashes`).
- `get_top_user_rank` is `TopRange` and `TopNick` for each reader in `TopReaders`. `TopRange` is the ZREVRANGE: the members on the board (`OnBoard`) in descending score (`RevRanges`: every injective sorted sequence, so any order among equal scores), cut to `n` in `TopNs`. `TopNick` is one HGET per entry; the reader ends after the last one. An entry without a nickname becomes `momo` in the answer, which changes no state. No property is stated about the nicknames: an openid is legitimately unnamed after a backfill (ZADD with no HSET), a failed HSET or a crash between the two, and the spec's `momo` sentinel is there for those cases. The reader is in `engine_serial` so that the handler's steps interleave with the rest; it has no property of its own.
- `get_user_ranking` is a single ZREVRANK that changes nothing: a stutter step, not an action.

The model is one process, the master node. On a replica `init_rank` returns before the rehydration (`rank_config_service.rs:71-73`), and the scoring routes of the other nodes (`root.rs:40-42`) keep writing the shared stores while this node is down or rehydrating. Neither is modelled.

The two pools are separate connections to a master and its replica. A write commits on the master (`Commit`). `Commit`, `SlaveApply` and `Init` model MySQL and the process's starting state, not code of this repository, so the map gives them no lines. With `MaxLag = 0` the slave pool reads the master; with `MaxLag > 0` each commit is appended to `binlog`, `SlaveApply` replays the oldest one on `slave`, and at most `MaxLag` commits may be outstanding. `named` is the set of openids with a nickname in the hash. `everDurable[u]` is every value mysql ever committed for `u` (history, used only by properties). `Spec` has no fairness; `FairSpec` adds weak fairness on `RhFetch` and `RhRow`, since `main` awaits `init_rank` before it serves anything and nothing else runs in the process meanwhile.

`SerializedClients` restricts clients to one update of a user at a time (a client that waits for its answer). `StoreMayFail` turns on store failures.

### `ScoreEncoding.tla`: `calc_score` and the decoding

`Encode(r, t)` is `r as f64 + (BASE - t as f64) / BASE` with both f64 operations rounded to `Precision` bits, ties to even. It is computed exactly over integers in units of `2^-FracBits` by `RoundQuot`. `Decode` is `score_f as i32`, truncation. The state is one submission `(raw, now)`; the properties quantify over every other submission of the bounded sets.

### `ScoreIndex.tla`: what the two stores promise together

The abstract specification of spec section 9: `durable` is the source of truth and `index` a cache of it. `Write` and `Clear` change `durable` only. `Fill(u)` copies `durable[u]` into `index[u]` and `Drop` empties the index. No step puts into the index a value that is not the user's current durable value. `RankEngine` implements it with the mapping `durable <- mysql, index <- redis` (`Abs == INSTANCE ScoreIndex WITH ...`, `ImplementsScoreIndex == Abs!Spec`). Under serialized clients every engine step is a stutter or one abstract step: an upsert is `Write`, a ZADD right after it is `Fill`, the reset's DELETE is `Clear` and its DEL is `Drop`, and a rehydrated row is `Fill`.

### `MasterPool.tla`: admin requests and score upserts on one pool (EXTENDS RankConfigService)

The composition of the admin requests with the `update_score` path of one board configured at startup (its table exists throughout). `update_rank_score_to_mysql` runs on the same master pool as `add_rank_config_to_mysql`, so its upsert may land on a connection whose transaction the add left open. The score statements go through `RankConfigService`'s `ExecWrite` (`ScoreStmts = ScoreStmt`): autocommitted into `scoreLog`, or held in the connection's pending writes until the next implicit or explicit commit, or lost by a ROLLBACK or a crash. `Committed` folds `scoreLog` into the rows of the table; `redis` is the sorted set.

| Action | Code |
|---|---|
| `AdminStep` | any step of an admin request (`RankConfigService`) |
| `UpdateReceive` | `update_score` handler |
| `UpdateMysql` | the upsert on a pool-chosen connection; a row locked by another connection's open transaction fails it with a lock-wait timeout |
| `UpdateRedis` | the ZADD, after which the request has succeeded (the nickname HSET is in `RankEngine`) |

## 3. Runs

| Run | Config | Expect | What it shows |
|---|---|---|---|
| admin_dup | `…_dup.cfg` | violation | `NoDuplicateBoard`: three adds of one board end with two entries (see the findings). |
| admin_pooltx | `…_pooltx.cfg` | violation | `DurableMatchesRegistry`: one add on a 2-connection pool leaves table and registry disagreeing. |
| admin_secrets | `…_secrets.cfg` | violation | `SecretsMatchRegistry`: an add pushes its config, a delete of that config runs to the end, then the add inserts its secret; the appid keeps a secret with no config. |
| repl_converge | `MCConfigReplication.cfg` | pass | `ReplicaTypeOK`, `ConfigsOwnLiveJobs`, `ReplicaCurrentAtSameTime` and `ReplicaConverges` (`<>[]`): with 2 admin requests on 2 connections, failing statements and scheduler, unique stamps and one master crash with restart, every registered config owns a live job of its own, although a failing `sched.remove` leaves orphan jobs; equal times imply equal registries despite the time-then-copy snapshot; and the replica reaches the master's registry and stays there. |
| repl_samems | `…_samems.cfg` | violation | `ReplicaCurrentAtSameTime` with same-millisecond stamps: the replica is stuck on an old registry. |
| engine_all | `MCRankEngine.cfg` | pass | `EngineTypeOK` and `IndexOnlyDurableScores`: with a writer, a reader, a reset, up to two crashes (one of them a failed restart), failing calls and a slave one commit behind, redis never holds a score that mysql never committed for that user. This model commits each upsert at once; `pool_upsert` shows that an upsert held in an add's open transaction breaks the same promise. The property accepts any score once committed, so a stale backfill passes it. |
| engine_serial | `MCRankEngine_serial.cfg` | pass | `IndexAgreesWhenSettled`, `RehydrationEnds` (`~>`) and `ImplementsScoreIndex` (refinement): with serialized clients, one top-N reader, no failures, a slave reading the master and two crashes with rehydration, redis equals mysql whenever the node is up and idle; rehydration always ends; and the engine implements `ScoreIndex`. |
| engine_slavelag | `MCRankEngine_slavelag.cfg` | violation | `RehydrationCoversDurable` (action property): a crash between the upsert and the ZADD, then a restart while the slave lags, ends rehydration with the committed score missing from redis. |
| engine_reset | `MCRankEngine_reset.cfg` | violation | `IndexAgreesWhenSettled`: an update's ZADD lands after the reset; the user is on the board with no row. |
| pool_upsert | `MCMasterPool.cfg` | violation | `IndexMatchesCommittedWhenIdle`: an add left its transaction open on a connection; an upsert lands there, the ZADD succeeds, and once everything is idle the upsert is still uncommitted in that transaction or was lost by a ROLLBACK on that connection, so redis shows a score mysql does not have. |
| encoding_laws | `MCScoreEncoding.cfg` | pass | `DecodeLaw` and `RankOrder` over all raw scores 0..31 and times 2..19. |
| encoding_tiebreak | `MCScoreEncoding_tiebreak.cfg` | violation | `TieBreakLaw`: at raw 8 (the scaled 16384), two different seconds encode equal. |

Every property of a passing run has a mutant in `PROJECT.json`: the code changed the way a plausible bug would change it. TLC finds each mutant violating the property.

### Bounds

The board space is one appid, two keys and two secrets. This is the least that distinguishes the following cases:
- same board versus other board of the same app (the count in delete);
- matching versus mismatching secret.

Three requests are needed for the duplicate entry: the rollback of a timed-out add must free the row for a third add. Two connections are the least that split a transaction. `MaxClock = 3` gives each request its own stamp.

The replication pass run (`repl_converge`) uses two requests and two connections, with both failure switches on. With three requests the state space is too large for the liveness checker. `MaxCrashes = 1` is one crash and restart at any point, after which the replica must converge again (about 236,000 states). Two requests still reach a mutation between the snapshot's time and its copy, an add followed by a delete, a split transaction and a failed scheduler. The master-only runs use three requests and symmetry over requests and connections, which is sound because they appear only as interchangeable identities. The liveness run uses no symmetry.

The engine runs use one board (boards are independent: every key and table is per board). `engine_all` has 2 users with `PAGE_SIZE = 2`, so rehydration reads a full page then an empty one, or a single short page; one writer, one reader, one reset, two crashes and `MaxLag = 1`, so the slave is behind by a commit in every interleaving. A second writer makes the run too large with the lag. `engine_serial` has 3 users with `PAGE_SIZE = 2` (a full page, then a short one, or a full page and an empty one), two writers, no score reader, one top-N reader with `TopNs = {1, 2}` (a cut shorter than the board and one as long) and two crashes. `engine_slavelag` needs only one user, one writer, one crash and `MaxLag = 1`. The violation runs use the least that shows each race: one user, with one writer and one reader, or one writer and one reset.

`pool_upsert` uses one admin request, two connections, one user, scores {1, 2} and one writer: one add leaves a transaction open on one connection, and the writer's upsert can land on it.

The encoding runs scale the f64 arithmetic down. TLC's integers are 32 bits, so `Precision = 8` and `Base = 20` replace 53 bits and 3.17e11 s. What matters is the ratio of the unit in the last place to the time step `1/Base`, and the scaling keeps it: ties start where `2^(e-Precision+1) > 1/Base`, at raw 8 here and 16384 for f64. The integer emulation was compared at 53 bits with real IEEE doubles, and matched on every sample.

### Fairness

In `ConfigReplication`:
- `WF` on each started request (`Serve`): tokio polls every ready task.
- `WF` on `ReplicaPoll` and `ReplicaApply`: the loop runs forever with a 30 s sleep.
- `WF` on `InitRank`: the process supervisor restarts a crashed master, and `init_rank` runs first thing. `MaxCrashes` bounds the crashes.
- `SF` on the two server steps: RPC failures are transient, so a fetch retried forever eventually succeeds. This is the spec's assumption "assuming RPC success".

`RankEngine`'s `FairSpec` (used by `engine_serial`) puts `WF` on `RhFetch` and `RhRow`: `main` awaits `init_rank` before anything else runs, so while the node rehydrates the loop always gets to run. `Crash` stays possible during it; `MaxCrashes` bounds crashes, as a process that keeps dying never finishes. `ScoreEncoding` has no fairness.

No fairness is put on `Receive`: clients need not send requests. The master-only spec has no fairness and is only used for safety. `AllDone` lets a run stop once every request has finished, which is the system at rest, not a deadlock.

## 4. Findings

The violations correspond to bugs in the code. `PROJECT.json` has the details.
- The add transaction is not a transaction. Its statements use whatever pooled connection comes, so rows are committed early, lost by another request's ROLLBACK, or left open.
- Concurrent adds of one board can both enter the registry.
- A scheduler failure makes `add_rank_config` return `Ok` with a committed row and no registry entry. The model reaches this state (`SchedMayFail`); the run kept for `DurableMatchesRegistry` is the pool-transaction one.
- add pushes the config and inserts the secret in separate critical sections. A delete of the new config in between leaves the appid a secret with no config (`admin_secrets`). The stale count in delete and two adds with different secrets break the secret map in the same way.
- A failing `sched.remove` in `delete_rank_config` is logged and the handler returns `Ok`, so the board's reset job keeps running after its config is gone. It keeps clearing the board, and a later add of that board is cleared on two schedules. The model reaches this state (`DelCancel`); no run is kept for it.
- Same-millisecond mutations leave a replica permanently stale.
- A replica never drops a deleted appid's secret: `ReplicaApply` only inserts into `rSecrets`, as the code does. This needs no interleaving to show, so no run states it.

- An update of one user racing a reset (`engine_reset`), a `get_user_score` backfill (reachable in `RankEngine` with a reader; no run is kept for it), or, with `SerializedClients = FALSE`, another update of the same user, leaves redis permanently different from mysql. The spec calls the disagreement transient; nothing repairs it short of a `--sync_redis` restart.
- `read_mysql_rank_write_to_redis` pages through the slave pool (`rank_repository.rs:360`). After a crash between an update's upsert and its ZADD, a `--sync_redis` restart while the slave lags ends with the committed score missing from redis (`engine_slavelag`). Spec section 9 expects the rehydration to heal such divergence.
- A score upsert that lands on a connection left in an open add transaction is acknowledged and written to redis, then lost by that connection's ROLLBACK, or held back until a later statement on that connection commits it (`pool_upsert`, `rank_repository.rs:195`). The property states that once everything is idle the score is committed; the trace shows it still uncommitted at that point.
- From raw score 16384 on, `calc_score`'s time fraction is below the f64 resolution, so equal scores in different seconds tie, against the spec's tie-break law.

Found by reading, with no run:
- `body_signature_verify` returns `next.run(request)` on its first line, so scoring routes are unsigned.
- `Schedule::from_str("")` rejects the empty cron expression that the spec allows, so such an add fails.

## 5. Not modelled

- HTTP/JSON conversion, validation, error mapping and logging: stateless.
- Startup argument parsing and pool creation (`main.rs`, `parameter.rs`, `database.rs`): sequential one-shot code. `init_rank` is `InitRank` in `RankConfigService`; the `--sync_redis` rehydration is in `RankEngine`.
- The signature guard: disabled in the code. The hashing is out of TLC's reach.
- User and auth state: the route modules are not in the source tree.
- The nickname's value: only whether an openid has one (`named`) is modelled; `get_top_user_rank` shows `momo` for one that has none.
- `delete_rank_config`'s `clear_rank_data` racing an `update_score` of the same board: the same pair of store calls as the cron reset racing an update, which `engine_reset` shows.
- The signature guard's body after its first line (`body_signature.rs:40-104`): dead code, since line 39 returns.
- The replica's secret map only grows (`rank_config_service.rs:569`): shown by the model's `ReplicaApply`, which only inserts. It has no run of its own because it needs no interleaving.
