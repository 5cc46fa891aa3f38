SPECIFICATION MCSpec
CONSTANTS
    Racks <- MCRacks
    RackFaults <- MCRackFaults
    OffMeansFault <- MCOffMeansFault
    Commands <- MCCommands
    PollPeriod = 1
    ScanPeriod = 1
    MaxBlocked = 3
    MaxWritten = 1
    Word = 8
    Scales <- MCScales
INVARIANTS
    OutputsAreRecent
    BlockIsExplained
    RegistersKeepMeasurements
