SPECIFICATION Spec
CONSTANTS
    t1 = t1
    t2 = t2
    Tabs = {t1, t2}
    Defaults <- OneSecond
    Offered = {2}
    LongBreakAfter = 2
    Lookback = 1
    None = None
    Horizon = 1
    FocusBound = 2
    EditBound = 1
SYMMETRY TabSymmetry
CHECK_DEADLOCK FALSE
INVARIANTS TypeOK TimeEarned StatsCompleteUnlessOverwritten StreakPromise SilenceMeansSaved BannerTruthful
