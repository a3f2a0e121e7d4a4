SPECIFICATION Spec
CONSTANTS
    Ops <- ResetOnly
    Batch = 2
    Target = 1
    Height = 6
    HeaderHeight = 6
    PersistBatch = 2
    MaxCrashes = 2
INVARIANTS
    ResetResumes
CHECK_DEADLOCK FALSE
