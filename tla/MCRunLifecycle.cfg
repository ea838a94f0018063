SPECIFICATION LeaseSpec
CONSTANTS
    Tx = {t1, t2, t3}
    Waiters = {w1, w2}
    Followers = {f1, f2}
    MaxTime = 4
INVARIANTS TypeOK OpenCommitIsVisible TerminalTellsTheTruth BudgetCountsWorkOnly
PROPERTIES HistoryIsKept FinishedStaysFinished
CHECK_DEADLOCK FALSE
SYMMETRY Symm
