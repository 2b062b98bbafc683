SPECIFICATION Spec
CONSTANTS
    Tenants = {"t1"}
    UpToColon <- MCUpToColon
    EventTypes = {"process", "network"}
    Rules <- MCTwoRules
    Messages <- MCMessages
    Lags <- MCLate
    FalcoTitle = "falco"
    KeyOrders <- MCOneOrder
    Requests = {}
    TheHiveEnabled = FALSE
    PatchStatuses = {}
    SignalArrives = FALSE
    BufferCap = 2
    ChannelCap = 1
    BufferWindow = 3
    DedupTTL = 5
    MaxEval = 1
    MaxTime = 6
    MaxEvents = 3
INVARIANTS
    TypeOK
    DedupWindow
    EveryMatchHasIncident
