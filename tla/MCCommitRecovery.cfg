SPECIFICATION FairRecoverSpec
CONSTANTS
    N = 2
    Deletes = {2}
    OddMode = {1}
    MaxEdits = 1
    MaxFaults = 1
    Tx = {t1}
INVARIANTS RecoverTypeOK GateAdmitsOnlySettledWork EveryCrashIsRecoverable
PROPERTIES RecoveryImplementsAtomicCommit RecoveryCompletes
CHECK_DEADLOCK FALSE
