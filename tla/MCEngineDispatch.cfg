SPECIFICATION FairSpec
CONSTANTS
    Tenants = {"t1"}
    UpToColon <- MCUpToColon
    EventTypes = {"alert"}
    Rules <- MCFalcoHigh
    Messages <- MCNone
    Lags <- MCOnTime
    FalcoTitle = "falco"
    KeyOrders <- MCOneOrder
    Requests = {"r1"}
    TheHiveEnabled = TRUE
    PatchStatuses = {"new", "resolved"}
    SignalArrives = TRUE
    BufferCap = 1
    ChannelCap = 1
    BufferWindow = 3
    DedupTTL = 5
    MaxEval = 1
    MaxTime = 0
    MaxEvents = 1
INVARIANTS
    LinksAreReal
PROPERTIES
    TriageNotReset
    ImplementsPipeline
    IncidentResolved
