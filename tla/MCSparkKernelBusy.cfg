SPECIFICATION Spec
CONSTANTS
    Notebooks = {n1}
    SqlTabs = {q1}
    MaxRuns = 2
    MaxStops = 1
    MaxLaunches = 1
    MaxFaults = 0
INVARIANT BusyIsExecuting
CHECK_DEADLOCK FALSE
