SPECIFICATION Spec
CONSTANTS
    MaxActs = 4
    MaxFaults = 1
    MaxActors = 3
INVARIANT ExecutedOnce
CHECK_DEADLOCK FALSE
