SPECIFICATION Spec
CONSTANTS
    BatchRows = 2
    MaxSets = 2
    PipeRoom = 2
    Capacity = 1
    MssqlRows = 5
    MaxNotes = 2
    Scripts <- ScriptsDef
    ScriptRows = 3
    ExportRows = 1
    Batches = 2
    MaxPosts = 2
    LoopRows = 5
    LoopChunk = 3
    RowCap = 2
    U64Max = 9
    Fetches <- FetchesDef
    LoopPosts = 3
INVARIANT EndsAsDocumented
CHECK_DEADLOCK FALSE
