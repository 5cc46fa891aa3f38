SPECIFICATION Spec
CONSTANTS
    NRacks = 1
    NTanks = 2
    InitLevel <- MCShallow
    LoLevel <- MCLoLevel
    LoTagged <- MCLoTagged
    FlowPerTick = 1
    UnitsPerGal = 1
    MeterMod = 2
    Trucks <- MCTrucks
    Orders <- MCOrders
    Sorties <- MCOneTruck
    Paced = FALSE
    MaxBacklog = 1
    MaxQueued = 0
    MaxLaps = 0
    MaxMishaps = 1
    Shutdowns = FALSE
    Snapshots = FALSE
INVARIANTS
    RegistersMirrorOpenLoads
    BatchAgreesWithMeter
    TablesAgree
PROPERTIES
    FuelLeavesThroughLoads
