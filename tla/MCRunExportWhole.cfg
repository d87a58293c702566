SPECIFICATION Spec
CONSTANTS
    MaxSets = 1
    MaxRows = 2
    MaxChunk = 1
    Batches = 2
    Capacity = 2
    MaxPosts = 1
INVARIANT KeptOnlyWhole
CHECK_DEADLOCK FALSE
