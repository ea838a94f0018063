SPECIFICATION Spec
CONSTANTS
    R = 1
    MaxFaults = 0
    MaxTimeouts = 1
INVARIANTS AcceptedIsWhatWasDecided
CHECK_DEADLOCK FALSE
