SPECIFICATION Spec
CONSTANTS
    u1 = u1
    u2 = u2
    e1 = e1
    e2 = e2
    Users = {u1, u2}
    Endpoints = {e1, e2}
    Requests = {r1, r2}
    SignIns <- SharedBrowser
    Owing = {u1}
    Registered <- TwoBrowsers
    None = None
    KeyBound = 1
    RowBound = 4
    SendBound = 2
    RunBound <- Runs
    RoundBound = 2
    CrashBound = 1
SYMMETRY Symmetry
CHECK_DEADLOCK FALSE
INVARIANTS TypeOK StampedWasHeard RepeatsAccounted OnlyJobsCircle
PROPERTY RegisteredAsAsked
