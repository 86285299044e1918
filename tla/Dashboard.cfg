SPECIFICATION FairSpec
CONSTANTS
    PageSize = 1
    Closings = {"consumed", "deleted"}
    StartTables <- MCTables
    Days <- MCDays
    Today = 1
    MaxProducts = 2
    MaxDashboards = 2
    MaxUpdates = 5
    MaxInbox = 1
    MaxFaults = 1
    Zones = {"UTC"}
    DefaultZone = "UTC"
    Slots = 2
INVARIANTS
    LeftoversAreFaults
    FreshView
    NavigationComplete
CHECK_DEADLOCK FALSE
PROPERTIES
    ChatSettles
