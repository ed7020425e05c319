\* One account, three sessions and two requests at once, over the whole lifetime
\* of a family; and two rate-limit windows of four ticks.
SPECIFICATION SignInSpec
CONSTANTS
    Users = {u1}
    Sessions = {s1, s2, s3}
    Requests = {r1, r2}
    RefreshTtl = 2
    AbsoluteTtl = 2
    MaxTime = 2
    MaxVersion = 1
    MaxAttempts <- Limits
    Window = 4
    TicksPerSecond = 2
    MaxDelay = 1
    Changes = {c1}
    LastTick = 10
INVARIANTS
    TypeOK
    OneLiveSessionPerFamily
    PasswordIsCurrent
    FamilyEndsOnTime
    FailuresBounded
    RetryAfterIsEnough
PROPERTIES
    EveryDeviceSignedOut
    AccessTokensDie
    ReplayHandledOnce
    ImplementsFamilies
SYMMETRY Symmetry
CHECK_DEADLOCK FALSE
