SPECIFICATION FairSpec
CONSTANTS
    Tasks = {t1, t2}
    Editors = {e1}
    Workers = {w1, w2}
    Dues = {1}
    Leads = {}
    None = None
    Keep = Keep
    Horizon = 1
    EditBound = 1
    CrashBound = 1
PROPERTY EventuallyNotified
