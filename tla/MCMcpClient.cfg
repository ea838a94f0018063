SPECIFICATION FairSpec
CONSTANTS
    S = 2
    Callers = {c1, c2}
    MaxRequests = 5
INVARIANTS TypeOK NoRequestOutlivesItsConnection AnswerIsItsOwn RegisteredServersAreLive AllOrNothing
PROPERTIES EveryWaitEnds
CHECK_DEADLOCK FALSE
