SPECIFICATION Spec
CONSTANTS
    N = 1
    Deletes = {}
    OddMode = {}
    MaxEdits = 0
INVARIANTS DurableIntentFirst
CHECK_DEADLOCK FALSE
