SPECIFICATION Spec
CONSTANTS
    N = 1
    Tools = {1}
    Sandboxes = {TRUE}
    MaxRuns = 2
    MaxFaults = 0
PROPERTIES AbandonedIsNotExecuted
CHECK_DEADLOCK FALSE
