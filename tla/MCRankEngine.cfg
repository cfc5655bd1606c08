\* Everything at once: a writer racing a reader, one reset, one crash,
\* failing store calls, restarts with --sync_redis, a slave one commit
\* behind the master.
CONSTANTS
    u1 = u1  u2 = u2  u3 = u3  w1 = w1  w2 = w2  g1 = g1  t1 = t1
    Absent = Absent
    UserOrder <- MCUserOrder2
    Scores <- MCScores
    Writers <- MCWriters1
    Readers <- MCReaders1
    TopReaders <- MCTopReaders0
    TopNs <- MCTopNs
    PageSize = 2
    MaxResets = 1
    MaxCrashes = 2
    StoreMayFail = TRUE
    SerializedClients = FALSE
    SyncOnRestart = TRUE
    MaxLag = 1
SPECIFICATION Spec
INVARIANT EngineTypeOK
INVARIANT IndexOnlyDurableScores
