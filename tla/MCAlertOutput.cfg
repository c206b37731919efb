CONSTANTS
    Code <- MCCode
    Severity <- MCSeverity
    Repeat = 3
    Cooldown = 1
    MaxSubmits = 5
    Pid = {p1, p2}
    NoPid = NoPid
    Recorded <- MCRecorded
SPECIFICATION AlertSpec
INVARIANTS TypeOK HighestIsLive OnlyWithdrawnLinger ListenerUpToDate KillsOnlyItsPlayer VoiceAgrees
PROPERTIES SeverityFirst QueueDrains MostSevereIsRepeated AllAreRepeated
