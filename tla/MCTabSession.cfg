SPECIFICATION Spec
CONSTANTS
    MaxActs = 3
    MaxFaults = 1
    MaxActors = 4
INVARIANT TypeOK
INVARIANT CancelHitsItsRun
INVARIANT OutcomeIsReal
INVARIANT ExecutedOnceApart
INVARIANT SettledViewIsRight
INVARIANT LiveRunIsExecuted
CHECK_DEADLOCK FALSE
PROPERTY CancelSettles
