SPECIFICATION PhysFairSpec
CONSTANTS
    NRacks = 1
    NTanks = 2
    InitLevel <- MCInitLevel
    LoLevel <- MCLoLevel
    LoTagged <- MCLoTagged
    FlowPerTick = 2
    UnitsPerGal = 2
    MeterMod = 2
INVARIANTS
    PhysTypeOK
PROPERTIES
    ShutdownStopsFlow
    OnlyResetUnlatches
    CutoutEndsForgottenLoad
