SPECIFICATION Spec
CONSTANTS
    Notebooks = {n1}
    SqlTabs = {q1}
    MaxRuns = 3
    MaxStops = 2
    MaxLaunches = 2
    MaxFaults = 1
INVARIANT TypeOK
INVARIANT CellOutcomeIsReal
INVARIANT NothingLeftLive
INVARIANT SettledKernel
PROPERTY StopEnds
PROPERTY RestartHappens
CHECK_DEADLOCK FALSE
