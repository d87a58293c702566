SPECIFICATION Spec
CONSTANTS
    Engines = {"mssql", "sqlite", "postgres", "duckdb"}
    Batches = 4
    QueueRoom = 2
INVARIANT WholeOrNothing
CHECK_DEADLOCK FALSE
