SPECIFICATION ProcSpec
CONSTANTS
    a = a
    b = b
    Initial = 3
    Longest = 10
    Chunk = 2
    Requests = {r1, r2}
    MaxRuns = 3
    Tracked = {a, b}
    Subscribed = {a}
    Unknown = Unknown
    NoBook = NoBook
    NoDay = NoDay
    EdgesOf <- MCEdgesOf
    Ltps = {99, 101}
    Books <- MCBooks
    Word = 8
    MaxVolume = 5
    Window = 2
    HistoryCap = 2
    SweepTicks = 1
    MinTrades = 2
    MinSpreads = 2
    Widening = 2
    ShrinkStrength = 40
    Archives <- MCArchives
    DaysBack = 3
INVARIANTS
    OneOwner
    CountedOnce
    SessionVolume
PROPERTIES
    RunningEnds
    Reconnects
    StopEnds
CHECK_DEADLOCK FALSE
