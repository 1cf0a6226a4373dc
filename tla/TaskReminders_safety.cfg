SPECIFICATION Spec
CONSTANTS
    Tasks = {t1}
    Editors = {e1, e2}
    Workers = {w1, w2}
    Dues = {1, 2}
    Leads = {1}
    None = None
    Keep = Keep
    Horizon = 1
    EditBound = 2
    CrashBound = 0
SYMMETRY Symmetry
INVARIANTS TypeOK StampsMatchUnlessRaced CompletionMatchesUnlessClashed PushesAccounted
