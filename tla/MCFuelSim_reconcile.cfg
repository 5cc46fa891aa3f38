SPECIFICATION Spec
CONSTANTS
    NRacks = 1
    NTanks = 2
    InitLevel <- MCInitLevel
    LoLevel <- MCLoLevel
    LoTagged <- MCLoTagged
    FlowPerTick = 1
    UnitsPerGal = 1
    MeterMod = 2
    Trucks <- MCTrucks
    Orders <- MCOrders
    Sorties <- MCSharedRack
    Paced = FALSE
    MaxBacklog = 1
    MaxQueued = 2
    MaxLaps = 0
    MaxMishaps = 0
    Shutdowns = FALSE
    Snapshots = FALSE
INVARIANTS
    DrawdownIsRecorded
