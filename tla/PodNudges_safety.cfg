SPECIFICATION FairSpec
CONSTANTS
    p1 = p1
    u1 = u1
    u2 = u2
    d1 = d1
    d2 = d2
    Users = {u1, u2}
    Pods = {p1}
    Devices = {d1, d2}
    DevicesOf <- DevicesOfPair
    Founders <- FoundersPair
    Inactivity = 1
    Cooldown = 1
    Backdates = {1}
    None = None
    Horizon = 3
    JoinBound = 1
    ActivityBound = 1
    CrashBound = 1
INVARIANTS TypeOK NudgesSpacedUnlessRetried NudgesTruthful
PROPERTY EventuallyNudged
