SPECIFICATION Spec
CONSTANTS
    Readers = {r1, r2}
    InitialSeeds = 1
    None = None
    ActiveAfter = {1}
    StudyBound = 1
    SeedBound = 2
    Faults = {"get", "set", "crash"}
SYMMETRY ReaderSymmetry
INVARIANTS TypeOK StaleOnlyWhereRaced 
