SPECIFICATION FairSpec
CONSTANTS
    R = 2
    MaxFaults = 1
    MaxTimeouts = 1
INVARIANTS TypeOK OutcomeIsOnRecord ReasonIsTrue HostIsAnswered BothEndsAgree
PROPERTIES EveryWaitEnds
CHECK_DEADLOCK FALSE
