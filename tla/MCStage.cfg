CONSTANTS
    s1 = s1
    s2 = s2
    t1 = t1
    t2 = t2
    none = none
    Stage <- MCStages
    Thread <- MCThreads
    NoThread = none
    MaxCursor = 2
    MaxBatch = 2
    MaxFatal = 1
SPECIFICATION Spec
INVARIANTS ReadStillCurrent CursorCovered
PROPERTIES ImplementsAtomic
