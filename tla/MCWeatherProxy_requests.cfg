SPECIFICATION MCSpec
CONSTANTS
    kiosk = kiosk
    tower = tower
    Threads <- MCThreads
    Ttl = 2
    MaxLatency = 2
    HourLength = 3
    Letters = 3
    CycleLength = 12
    MaxClock = 12
SYMMETRY Symmetric
INVARIANTS
    TypeOK
    UnflaggedIsRecent
    LetterFitsReport
    WeatherIsReadBack
PROPERTIES
    CacheGoesBackLittle
    ForecastStays
