\* One client updating serially and one firing of the reset job.
CONSTANTS
    u1 = u1  u2 = u2  u3 = u3  w1 = w1  w2 = w2  g1 = g1  t1 = t1
    Absent = Absent
    UserOrder <- MCUserOrder1
    Scores <- MCScores
    Writers <- MCWriters1
    Readers <- MCReaders0
    TopReaders <- MCTopReaders0
    TopNs <- MCTopNs
    PageSize = 2
    MaxResets = 1
    MaxCrashes = 0
    StoreMayFail = FALSE
    SerializedClients = TRUE
    SyncOnRestart = TRUE
    MaxLag = 0
SPECIFICATION Spec
INVARIANT IndexAgreesWhenSettled
