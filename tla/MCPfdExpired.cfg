CONSTANTS
    None = None
    Sensor = {s1}
    Source <- MCSource
    Message <- MCMessage
    Item <- MCItem
    SourceOf <- MCSourceOf
    Needs <- MCNeeds
    MaxAge <- MCMaxAge
    HeartbeatTimeout = 2
    ActivationDelay = 2
    ClearDelay = 1
    DataTimeout = 2
    MaxPerTick = 2
    MaxTime = 4
SPECIFICATION Spec
INVARIANT ExpiredIsStale
CHECK_DEADLOCK FALSE
