SPECIFICATION FairSpec
CONSTANTS
    Clients = {c1}
    Settings = {small, large}
    DefaultSettings = small
PROPERTIES
    FreezeHolds
    FreezeReachesClients
    SettingsReachClients
