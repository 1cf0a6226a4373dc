SPECIFICATION Spec
CONSTANTS
    Tasks = {t1}
    Editors = {e1}
    Workers = {w1}
    Dues = {1, 2}
    Leads = {1}
    None = None
    Keep = Keep
    Horizon = 2
    EditBound = 1
    CrashBound = 0
INVARIANT StampsMatchSchedule
