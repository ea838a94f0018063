SPECIFICATION Spec
CONSTANTS
    N = 3
    Tools = {2, 3}
    Sandboxes = {TRUE, FALSE}
    MaxRuns = 3
    MaxFaults = 2
INVARIANTS TypeOK DoubtShutsTheGate ReusableWorkIsThere CommitIsWhole OneAttemptPerDecision
PROPERTIES ResumeNeverRepeatsAnEffect DoubtCanBeDisposedOf
CHECK_DEADLOCK FALSE
