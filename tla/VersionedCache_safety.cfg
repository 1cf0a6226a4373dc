SPECIFICATION Spec
CONSTANTS
    Scopes = {tasks, study}
    Readers = {r1, r2}
    CommitBound = 1
    Faults = {"get", "set", "crash"}
INVARIANTS TypeOK FreshAnswers
PROPERTY FreshReadsPromise
