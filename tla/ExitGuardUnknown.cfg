SPECIFICATION DeskSpec
CONSTANTS
    x = x
    y = y
    Names = {x, y}
    DailyOf <- MCDailyOf
    CapOf <- MCCapOf
    Dumps <- MCDumps
    Watched <- MCWatched
    TurnoverWindow = 2
    DeepTurn = 50000
    OkTurn = 5000
    ThinTurn = 2000
    LowPrice = 20
    MicroCap = 500
    Fits <- MCFits
    Dialled <- MCDialled
    Tiers <- MCTiers
    CapitalRange <- MCCapitalRange
    RiskRange <- MCRiskRange
    MaxLeverage = 1
    PerSide = 1
    LimitPct = 10
    FallbackPct <- MCFallback
    CostBps = 13
    Rates <- MCRates
    ShareCap = 50
    Bands <- MCBands
INVARIANT UnknownNotCleared
