---------------------------- MODULE SensorAlarm ----------------------------
(***************************************************************************)
(* What the debounced sensor alarm promises, without the engine's two maps *)
(* of pending start times: an observer follows, for every sensor, the      *)
(* present uninterrupted run of evaluations that found it bad, or not bad. *)
(* The alarm goes up when a bad run has lasted ActivationDelay, goes down  *)
(* when a good run has lasted ClearDelay, and a blind evaluation (no fresh *)
(* SYS_STATUS) takes every alarm down and breaks every run.                *)
(***************************************************************************)
EXTENDS Freshness

CONSTANTS Sensor, ActivationDelay, ClearDelay

VARIABLES
    now,        \* the monotonic clock
    badRun,     \* start of the present run of bad evaluations, or None
    goodRun,    \* start of the present run of other evaluations, or None
    active      \* the sensors whose alarm is up

alarmVars == <<now, badRun, goodRun, active>>

NoRun == [s \in Sensor |-> None]

Init ==
    /\ now \in Time
    /\ badRun = NoRun
    /\ goodRun = NoRun
    /\ active = {}

\* Every sensor of "set" extends its run, or begins one now.
Extend(run, set) ==
    [s \in Sensor |-> IF s \notin set THEN None
                      ELSE IF run[s] = None THEN now ELSE run[s]]

Lasted(run, delay) == {s \in Sensor : run[s] # None /\ now - run[s] >= delay}

FollowRuns(bad) ==
    /\ badRun' = Extend(badRun, bad)
    /\ goodRun' = Extend(goodRun, Sensor \ bad)

BreakRuns == badRun' = NoRun /\ goodRun' = NoRun

Observe(bad) ==
    /\ FollowRuns(bad)
    /\ active' = (active \cup Lasted(Extend(badRun, bad), ActivationDelay))
                    \ Lasted(Extend(goodRun, Sensor \ bad), ClearDelay)
    /\ UNCHANGED now

Blind ==
    /\ BreakRuns
    /\ active' = {}
    /\ UNCHANGED now

Tick ==
    /\ now' = now + 1
    /\ UNCHANGED <<badRun, goodRun, active>>

Next == (\E bad \in SUBSET Sensor : Observe(bad)) \/ Blind \/ Tick

Spec == Init /\ [][Next]_alarmVars

=============================================================================
