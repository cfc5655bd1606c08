\* One add_rank_config and one client's update_score sharing a two-connection
\* master pool; no failing procedure call or scheduler.
CONSTANTS
    a1 = a1  k1 = k1  s1 = s1  r1 = r1  c1 = c1  c2 = c2  u1 = u1  w1 = w1
    Apps <- MCApps
    Keys <- MCKeys
    Secrets <- MCSecrets
    Reqs <- MCReqs1
    Conns <- MCConns
    MaxClock = 3
    NoSecret = NoSecret
    NoJob = NoJob
    ProcMayFail = FALSE
    SchedMayFail = FALSE
    UniqueMillis = TRUE
    MaxCrashes = 0
    ScoreStmts <- MCScoreStmts
    Users <- MCUsers
    Scores <- MCScores
    Writers <- MCWriters1
    Absent = Absent
SPECIFICATION PoolSpec
INVARIANT IndexMatchesCommittedWhenIdle
