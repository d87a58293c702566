SPECIFICATION Spec
CONSTANTS
    Spark = p1
    Sail = sail
    Whole = 2
    MaxJobs = 2
    MaxTrouble = 2
    Statements = 2
    MaxRows = 5
    MaxChunk = 3
    RowCap = 2
    U64Max = 9
    MaxAsks = 3
    MaxItems = 4
    Preview = 1
    SinkRoom = 2
    Engines = {"mssql", "sqlite", "postgres", "duckdb"}
    Batches = 4
    QueueRoom = 2
    MaxReqs = 3
    MaxDeaths = 2
    MaxLeaves = 1
    Tabs = {t1}
    MaxText = 2
    MaxFaults = 3
    MaxCloses = 2
    Sets = {s1, s2}
    MaxSize = 2
    MaxChunks = 3
    MaxSpillFaults = 1
    Limits = {1, 2, 3}
    Requests = {q1, q2}
    Resources = {sql, fabric}
    Accounts = {a1, a2}
    NoAccount = none
    Editable = {"postgres", "duckdb"}
    Unsorted <- UnsortedDef
    Views <- ViewsDef
    MaxTroubles = 2
    MaxViewJobs = 1
    Cells <- CellsDef
    Foreign = {"foreign"}
    Writing = {"writes"}
    MaxPresses = 3
INVARIANT TypeOK
INVARIANT ToldRight
INVARIANT BudgetHeld
INVARIANT SignOutSticks
INVARIANT WorkIsKept
INVARIANT EditsAsTold
INVARIANT CellsAsQueued
PROPERTY InstallsAsPromised
PROPERTY WorkEnds
PROPERTY EnginesAsPromised
PROPERTY LatestListShown
CHECK_DEADLOCK FALSE
