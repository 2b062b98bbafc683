SPECIFICATION Spec
CONSTANTS
    Tenants = {"t1", "t1:a", "t2"}
    UpToColon <- MCUpToColon
    EventTypes = {"process", "network"}
    Rules <- MCStaged
    Messages <- MCThreeTenants
    Lags <- MCSkewed
    FalcoTitle = "falco"
    KeyOrders <- MCTwoOrders
    Requests = {}
    TheHiveEnabled = FALSE
    PatchStatuses = {}
    SignalArrives = FALSE
    BufferCap = 2
    ChannelCap = 1
    BufferWindow = 3
    DedupTTL = 5
    MaxEval = 1
    MaxTime = 3
    MaxEvents = 3
INVARIANTS
    IncidentJustified
PROPERTIES
    BufferLoss
