SPECIFICATION RecoverSpec
CONSTANTS
    N = 1
    Deletes = {}
    OddMode = {}
    MaxEdits = 0
    MaxFaults = 1
    Tx = {t1}
INVARIANTS EvidenceBeforeRecord
CHECK_DEADLOCK FALSE
