SPECIFICATION CommitSpec
CONSTANTS
    N = 2
    Deletes = {2}
    OddMode = {1}
    MaxEdits = 1
    Tx = {t1}
INVARIANTS CommitTypeOK RecordAgreesWithEvidence SuccessMeansDelivered RegistryNeverAhead
CHECK_DEADLOCK FALSE
