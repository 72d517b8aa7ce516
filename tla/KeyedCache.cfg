SPECIFICATION SharedSpec
CONSTANTS
    r1 = r1
    r2 = r2
    k1 = k1
    k2 = k2
    k3 = k3
    Requests <- MCRequests
    Budgets <- MCBudgets
    Cap = 2
    Slots <- MCSlots
    MayFail <- MCMayFail
    s1 = s1
    s2 = s2
    Stocks <- StocksDef
    Tasks = {t1}
    Clis = {cli}
    Signals <- SignalsDef
    MaxGen = 2
INVARIANT MergeIsExact
PROPERTIES NeverSwapped LatestSurvives WaitersServed StartHeals
SYMMETRY MCSymmetry
