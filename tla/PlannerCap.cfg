SPECIFICATION PlannerSpec
CONSTANTS
    e1 = e1
    e2 = e2
    e3 = e3
    Shortlist = {e1, e2, e3}
    MetaOf <- MCMetaOf
    Seat <- MCSeat
    Opening <- MCOpening
    TurnoverOf <- MCTurnoverOf
    IndexCloses <- MCIndexCloses
    Steps = {90, 140}
    Backed = {e2}
    Td = 1
    Month = 2
    Slack = 1
    Stale = 0
    Average = 3
    PickCount = 2
    PerSector = 1
    MaxWeight = 250
    Capital = {1000}
    Asked = {1, 2}
    MaxDays = 4
INVARIANTS
    CapHolds
CHECK_DEADLOCK FALSE
