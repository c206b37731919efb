CONSTANTS
    None = None
    Sensor = {s1}
    Source <- MCSource
    Message <- MCMessage
    HeartbeatTimeout = 2
    ActivationDelay = 2
    ClearDelay = 1
    DataTimeout = 2
    MaxTime = 5
SPECIFICATION ObservedSpec
INVARIANTS TypeOK MapsAreTheRuns ConsumerAgrees
PROPERTIES OnlyChanges NoChatter ImplementsAlarm
CHECK_DEADLOCK FALSE
