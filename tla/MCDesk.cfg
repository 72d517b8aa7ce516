SPECIFICATION AllSpec
CONSTANTS
    x = x
    y = y
    Names = {x, y}
    DailyOf <- MCDailyOf
    CapOf <- MCCapOf
    Dumps <- MCDumps
    Watched <- MCWatched
    TurnoverWindow = 2
    DeepTurn = 50000
    OkTurn = 5000
    ThinTurn = 2000
    LowPrice = 20
    MicroCap = 500
    Fits <- MCFits
    Dialled <- MCDialled
    Tiers <- MCTiers
    CapitalRange <- MCCapitalRange
    RiskRange <- MCRiskRange
    MaxLeverage = 1
    PerSide = 1
    LimitPct = 10
    FallbackPct <- MCFallback
    CostBps = 13
    Rates <- MCRates
    ShareCap = 50
    Bands <- MCBands
    MaxDay = 2
    MaxRows = 3
    Prices = {1}
    Decisions = {"Manually_Accepted"}
    Staged <- MCStagedSell
    Statements <- MCDated
    Finders = {f1, f2, f3}
    LastDate = 3
    MaxStocks = 2
    LastDay = 2
    LastTime = 1
    MaxTrades = 3
    Results <- MCResults
    Sheet <- MCSheet
    Cap = 7
    DayTrades = 4
    LossRun = 2
    title = title
    st1 = st1
    st2 = st2
    st3 = st3
    e1 = e1
    e2 = e2
    e3 = e3
    NoName = NoName
    Lines <- MCLines
    MaxLines = 4
    Archives <- MCArchives
    Benchmark <- MCBenchmark
    Edged = {st1, st3}
    LongEdged = {st3}
    EdgeSeat <- MCEdgeSeat
    Demerged = {}
    MinSessions = 2
    Linkage = 60
    MinHistory = 2
    Sma50 = 2
    Sma200 = 3
    Quarter = 1
    HalfYear = 2
    OneYear = 3
    TaxExempt = 50
    Redeploy = 2
    Shortlist = {e1, e2, e3}
    MetaOf <- MCMetaOf
    Seat <- MCSeat
    Opening <- MCOpening
    TurnoverOf <- MCTurnoverOf
    IndexCloses <- MCIndexCloses
    Steps = {90, 140}
    Backed = {e2}
    Td = 1
    Month = 2
    Slack = 1
    Stale = 0
    Average = 3
    PickCount = 2
    PerSector = 1
    MaxWeight = 600
    Capital = {1000}
    Asked = {1, 2}
    MaxDays = 4
INVARIANTS
    NeverHalfWritten
    NoDoubleCount
    MoneyAddsUp
    PagesAgree
    StagedWithinRisk
    RunByTheClock
    FitOfItsDay
PROPERTIES
    ClosedStaysClosed
CHECK_DEADLOCK FALSE
