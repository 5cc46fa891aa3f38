SPECIFICATION FairSpec
CONSTANTS
    NRacks = 1
    NTanks = 1
    InitLevel <- MCShallow
    LoLevel <- MCLoLevel
    LoTagged <- MCLoTagged
    FlowPerTick = 1
    UnitsPerGal = 1
    MeterMod = 2
    Trucks <- MCTrucks
    Orders <- MCOrders
    Sorties <- MCOneSortie
    Paced = TRUE
    MaxBacklog = 1
    MaxQueued = 2
    MaxLaps = 1
    MaxMishaps = 1
    Shutdowns = FALSE
    Snapshots = TRUE
PROPERTIES
    EveryOrderFilled
    SnapshotsFall
