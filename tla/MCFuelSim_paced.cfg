SPECIFICATION Spec
CONSTANTS
    NRacks = 2
    NTanks = 2
    InitLevel <- MCInitLevel
    LoLevel <- MCLoLevel
    LoTagged <- MCLoTagged
    FlowPerTick = 1
    UnitsPerGal = 1
    MeterMod = 2
    Trucks <- MCTrucks
    Orders <- MCOrders
    Sorties <- MCSharedTank
    Paced = TRUE
    MaxBacklog = 1
    MaxQueued = 2
    MaxLaps = 1
    MaxMishaps = 0
    Shutdowns = TRUE
    Snapshots = FALSE
INVARIANTS
    TypeOK
    MetersAccountForTanks
    CutoutHolds
    DrawdownIsRecorded
    QueueFollowsTruck
