SPECIFICATION FairSpec
CONSTANTS
    Scopes = {tasks}
    Readers = {r1, r2}
    CommitBound = 2
    Faults = {"version", "get", "set", "bump", "flush", "crash"}
PROPERTY EventuallyCurrent
