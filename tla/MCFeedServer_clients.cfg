SPECIFICATION MCSpec
CONSTANTS
    readsb = readsb
    map = map
    tap = tap
    Clients <- MCClients
    Port <- MCPort
    NoClient = NoClient
    IdentEvery = 2
    Parts = 2
    Room = 2
    Escape = 26
    LongFrame = 51
INVARIANTS
    StreamsAreGapless
    SquittersKeepContent
PROPERTIES
    EveryClientServed
