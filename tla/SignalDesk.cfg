SPECIFICATION DeskFairSpec
CONSTANTS
    MaxDay = 2
    MaxMove = 1
    Threshold = 2
    Clients = {c1}
    Settings = {small}
    DefaultSettings = small
PROPERTIES
    LiftedByHandOnly
    FreezesOnCurrentJournal
    BreachStopsTheDesk
