SPECIFICATION Spec
CONSTANTS
    N = 3
    Deletes = {2}
    OddMode = {1, 2}
    MaxEdits = 1
INVARIANTS TypeOK CallerToldTheTruth PartialCommitCanBeCompleted SettledBatchLeavesNoCopy
PROPERTIES ImplementsAtomicCommit
CHECK_DEADLOCK FALSE
