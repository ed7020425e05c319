\* One sender's family and two requests: a refresh against a replay.
SPECIFICATION SignInSpec
CONSTANTS
    Users = {u1}
    Sessions = {s1, s2, s3}
    Requests = {r1, r2}
    RefreshTtl = 1
    AbsoluteTtl = 1
    MaxTime = 0
    MaxVersion = 1
    MaxAttempts <- Limits
    Window = 4
    TicksPerSecond = 2
    MaxDelay = 1
    Changes = {}
    LastTick = 4
INVARIANTS
    ReplayRevokesFamily
SYMMETRY Symmetry
CHECK_DEADLOCK FALSE
