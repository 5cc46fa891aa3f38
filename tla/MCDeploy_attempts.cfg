SPECIFICATION Spec
CONSTANTS
    dc = dc
    member = member
    sensor = sensor
    Hosts <- MCHosts
    Targets <- MCTargets
    Selections <- MCSelections
    MaxAttempts = 3
    MaxRuns = 3
INVARIANTS
    SuccessIsFullSweep
    RepairsFollowFailures
CHECK_DEADLOCK FALSE
