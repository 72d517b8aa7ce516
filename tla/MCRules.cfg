SPECIFICATION RulesSpec
CONSTANTS
    NBars = 4
    Series <- MCSeries
    Atrs = {0, 1}
    RewardRisk = 2
    a = a
    b = b
    unlisted = unlisted
    bank = bank
    Symbols = {a, b, unlisted}
    Sectors = {bank}
    NoSector = NoSector
    SectorOf <- MCSectorOf
    Scores = {1, 2}
    Prices <- MCPrices
    RawSettings <- MCRawSettings
    BudgetMin = 10
    BudgetMax = 20
    RiskMin = 1
    RiskMax = 7
    Leverage = 5
    MaxPortfolioRisk = 6
    TopN = 2
    MaxConcurrent = 2
    MaxPerSector = 1
    MaxCandidates = 3
    vwap = vwap
    orb = orb
    NoScore = NoScore
    Configs <- MCConfigs
    MaxConfigs = 3
    LightTfs = {"15m"}
    ExpectedMax <- MCExpectedMax
    Gate = 50
    MinShortScore = 70
    MinShortFloor = 60
    Bars = 5
    DayKinds = {"up", "down"}
    Gains <- MCGains
    MaxTrades = 4
    OosShare = 30
    EmbargoShare = 20
    FoldCount = 3
    RecentCount = 2
    RegimeMin = 2
    TScore <- MCTScore
    Candles <- MCCandles
    MaxCandles = 5
    EmaFast = 1
    EmaSlow = 2
    MacdFast = 1
    MacdSlow = 2
    MacdSmooth = 2
    RsiPeriod = 2
    Window = 3
    TrendPeriod = 1
    TrendMult = 1
    BandMult = 1
    OrBars = 1
    GapMin = 50
    RvolMin = 200
INVARIANTS
    GatedEverywhere
    PicksTheBest
    FiguresMeanWhatTheySay
    WithinCaps
    NeverEmptyHanded
    PlanIsGreedy
    OneTradeAtATime
    FirstTouchDecides
PROPERTIES
    NoLookahead
CHECK_DEADLOCK FALSE
