CONSTANTS
    a1 = a1  k1 = k1  k2 = k2  s1 = s1  s2 = s2
    r1 = r1  r2 = r2  r3 = r3  c1 = c1  c2 = c2
    Apps <- MCApps
    Keys <- MCKeys
    Secrets <- MCSecrets
    Reqs <- MCReqs2
    Conns <- MCConns1
    MaxClock = 3
    NoSecret = NoSecret
    NoJob = NoJob
    ProcMayFail = FALSE
    SchedMayFail = FALSE
    UniqueMillis = FALSE
    MaxCrashes = 0
    ScoreStmts = {}
SYMMETRY Symmetry
SPECIFICATION Spec
INVARIANT SecretsMatchRegistry
