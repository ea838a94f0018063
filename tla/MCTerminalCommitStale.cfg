SPECIFICATION CommitSpec
CONSTANTS
    N = 1
    Deletes = {}
    OddMode = {}
    MaxEdits = 0
    Tx = {t1}
INVARIANTS NoSilentStaleRegistry
CHECK_DEADLOCK FALSE
