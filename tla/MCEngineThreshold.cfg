SPECIFICATION Spec
CONSTANTS
    Tenants = {"t1"}
    UpToColon <- MCUpToColon
    EventTypes = {"network"}
    Rules <- MCBeacon
    Messages <- MCNet
    Lags <- MCOnTime
    FalcoTitle = "falco"
    KeyOrders <- MCOneOrder
    Requests = {}
    TheHiveEnabled = FALSE
    PatchStatuses = {}
    SignalArrives = FALSE
    BufferCap = 2
    ChannelCap = 1
    BufferWindow = 3
    DedupTTL = 5
    MaxEval = 1
    MaxTime = 2
    MaxEvents = 2
INVARIANTS
    ThresholdOfDistinctEvents
