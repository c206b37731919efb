SPECIFICATION Spec
CONSTANTS
    Away = Away
    There = There
    Destinations <- MCDestinations
    Port <- MCPort
    Steady <- MCSteady
    Room = 1
    Frames = 3
    FrameBytes = 3
    MaxGarbage = 2
CHECK_DEADLOCK FALSE
INVARIANTS NothingParsedIsDropped HealthyGetsEverything
PROPERTIES ImplementsFanOut ParsedIsForwarded StopEnds
