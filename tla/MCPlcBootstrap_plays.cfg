SPECIFICATION FairSpec
CONSTANTS
    st1 = st1
    st2 = st2
    typo = typo
    aor0 = aor0
    aor8 = aor8
    Programs <- MCPrograms
    Broken <- MCBroken
    Devices <- MCDevices
    Image = blank
    NoDevice = NoDevice
    Stopped = Stopped
    MaxEdits = 2
    MaxFaults = 2
INVARIANTS
    ProgramDeployedUnlessMissed
    DevicePolledUnlessUncycled
PROPERTIES
    StopsOnlyToChange
    PlantComesBack
