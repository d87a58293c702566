SPECIFICATION Spec
CONSTANTS
    MaxSets = 2
    MaxRows = 5
    MaxChunk = 3
    Batches = 2
    RowCap = 2
    U64Max = 9
    Fetches <- MCFetches
    MaxPosts = 1
CHECK_DEADLOCK FALSE
PROPERTY CloseEnds
