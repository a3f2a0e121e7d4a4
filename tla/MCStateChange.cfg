SPECIFICATION FairSpec
CONSTANTS
    Ops <- Both
    Batch = 2
    Target = 1
    Height = 8
    HeaderHeight = 11
    PersistBatch = 2
    MaxCrashes = 4
INVARIANTS
    LiveStorageWhole
    AllOrNothing
    JumpResumes
PROPERTIES
    Finishes
CHECK_DEADLOCK FALSE
