SPECIFICATION Spec
CONSTANTS
    Period = 2
    WallStart = 98
    MaxTime = 3
    MaxSnapshots = 3
    MaxRuns = 2
    MaxReboots = 1
    MaxSteps = 1
    None = None
    Digits = 2
    Sensor = {s1}
    Given <- MCGiven
    Zone = 1
    ActivationDelay = 2
    ClearDelay = 1
    DataTimeout = 1
CHECK_DEADLOCK FALSE
INVARIANT YieldedAtRecordedIntervals
