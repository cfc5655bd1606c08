\* Clients that serialize their updates of an openid, crashes and
\* restarts with --sync_redis, no failing calls, top-N reads but no
\* get_user_score (its backfill races an update), no reset, the
\* slave pool reading the master.
CONSTANTS
    u1 = u1  u2 = u2  u3 = u3  w1 = w1  w2 = w2  g1 = g1  t1 = t1
    Absent = Absent
    UserOrder <- MCUserOrder3
    Scores <- MCScores
    Writers <- MCWriters2
    Readers <- MCReaders0
    TopReaders <- MCTopReaders1
    TopNs <- MCTopNs
    PageSize = 2
    MaxResets = 0
    MaxCrashes = 2
    StoreMayFail = FALSE
    SerializedClients = TRUE
    SyncOnRestart = TRUE
    MaxLag = 0
SPECIFICATION FairSpec
INVARIANT IndexAgreesWhenSettled
PROPERTY RehydrationEnds
PROPERTY ImplementsScoreIndex
