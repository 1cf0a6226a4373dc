SPECIFICATION Spec
CONSTANTS
    Users = {u1, u2}
    None = None
    Calls = {c1, c2, c3}
    Elsewhere <- SomeChanges
    ClickBound = 4
    UpdateBound = 2
SYMMETRY Symmetry
INVARIANTS TypeOK ShownIsSignedIn StudentHasTrack
PROPERTY NeverOlder
CHECK_DEADLOCK FALSE
