SPECIFICATION Spec
CONSTANTS
    Users = {u1}
    Devices = {d1, d2}
    Requests = {r1, r2}
    Registered = {}
    None = None
    TokenBound = 3
SYMMETRY Symmetry
INVARIANTS TypeOK SignOutEndsSessions OneLiveTokenPerSession ReuseMeansDisturbance
