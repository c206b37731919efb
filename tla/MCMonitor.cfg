CONSTANTS
    None = None
    Sensor = {s1}
    Source <- MCSource
    Message <- MCMessage
    HeartbeatTimeout = 2
    ActivationDelay = 2
    ClearDelay = 1
    DataTimeout = 1
    Duration = 7
    PollTimeout = 1
    ReconnectDelay = 2
    RecordPeriod = 1
    Recording = TRUE
    LinkFaults = TRUE
    RecorderFaults = TRUE
SPECIFICATION Spec
INVARIANTS LossDetectedInTime StaleWarningBounded StopsByDeadline StopsPromptly NothingLeftOpen
PROPERTIES ImplementsPipeline Ends
CHECK_DEADLOCK FALSE
