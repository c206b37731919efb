CONSTANTS
    Code <- MCCode
    Severity <- MCSeverity
    Repeat = 3
    Cooldown = 1
    MaxSubmits = 4
SPECIFICATION Spec
INVARIANT NothingLiveNothingActive
