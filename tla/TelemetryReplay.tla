-------------------------- MODULE TelemetryReplay --------------------------
(***************************************************************************)
(* Recording and replaying: run_replay, at original speed, on the file     *)
(* that TelemetryRecorder or an older recorder writes, with the warning    *)
(* engine evaluating what was restored.  The replay may start at any time  *)
(* when no recorder is running.                                            *)
(***************************************************************************)
EXTENDS TelemetryRecorder, TelemetryRecord, Iso8601, Functions

CONSTANTS
    Sensor,             \* sensors a snapshot can name
    Given,              \* what a snapshot given to record() may hold: the messages
                        \* received, how long ago, members without a value, sensors
                        \* that are bad
    Zone,               \* the offset from UTC an older recorder has used
    ActivationDelay,    \* the options of the warning engine
    ClearDelay,
    DataTimeout

ASSUME ReplayAssumption ==
    /\ \A g \in Given : /\ g.received \subseteq DOMAIN Assigned
                        /\ g.sentinels \cap (Stamp \cup Always) = {}
                        /\ g.faulty \subseteq Sensor
                        /\ g.age \in Nat
    /\ Zone \in Int
    /\ {ActivationDelay, ClearDelay} \subseteq Nat /\ DataTimeout \in Nat \ {0}

\* A member without a value is told from every value.
ASSUME NullAssumption ==
    /\ None \notin Int \cup BOOLEAN
    /\ \A section \in DOMAIN Member : None \notin Member[section]
    /\ None \notin [Sensor -> [present : BOOLEAN, enabled : BOOLEAN, healthy : BOOLEAN]]

VARIABLES
    rpc,            \* the reader: not begun, in samples(), samples() has returned,
                    \* in replay()'s loop, in run_replay's, ended
    samples,        \* what samples() has returned
    i,              \* the loop's index
    elapsed,        \* the time run_replay has slept
    connectionLostActive, unhealthySensors, unhealthySince, healthySince, events,
                    \* the engine of run_replay
    recording,      \* history: for each line read, the line, what record() was given
                    \* and whether an older recorder has written it
    evaluated       \* history: the samples evaluated, elapsed, and the sensors raised

engineVars == <<connectionLostActive, unhealthySensors, unhealthySince, healthySince,
                events>>
replayVars == <<rpc, samples, i, elapsed, engineVars, recording, evaluated>>
vars == <<recorderVars, replayVars>>

\* A member of the sample at the index.
Value(section, m) ==
    LET values == samples[i].telemetry[section]
    IN  IF m \in DOMAIN values THEN values[m] ELSE None

\* The engine evaluates the sample at the index.
Engine == INSTANCE WarningEngine WITH
    Source <- {"HEARTBEAT", "SYS_STATUS"},
    HeartbeatTimeout <- 1,
    connected <- Value("connection", "connected"),
    stamp <- [src \in {"HEARTBEAT", "SYS_STATUS"} |->
                 IF src = "HEARTBEAT" THEN Value("connection", "last_heartbeat_monotonic_s")
                                      ELSE Value("system", "last_update_monotonic_s")],
    finite <- [src \in {"HEARTBEAT", "SYS_STATUS"} |-> {}],
    sensors <- Value("system", "sensors")

Init ==
    /\ RecorderInit
    /\ rpc = "start"
    /\ samples = <<>>
    /\ i = 1
    /\ elapsed = 0
    /\ Engine!EngineInit
    /\ recording = <<>>
    /\ evaluated = <<>>

-----------------------------------------------------------------------------
(* The recording                                                           *)

\* What an older recorder leaves out.
Unknown(r) == IF r.older THEN Stamp ELSE {}

\* The snapshot given to record().  Its groups were stamped when the last messages
\* arrived, and keep their values when none arrives any more.  Of any other member only
\* its place matters, so that its value is its name.
Snapshot(r) ==
    LET up == "HEARTBEAT" \in r.given.received
        known == "SYS_STATUS" \in r.given.received
        State(s) == [present |-> known, enabled |-> known,
                     healthy |-> known /\ s \notin r.given.faulty]
        ValueOf(m) == CASE m = "connected" -> up
                        [] m = "sensors"   -> [s \in Sensor |-> State(s)]
                        [] m \in Stamp     -> r.line.recorded_monotonic_s - r.given.age
                        [] OTHER           -> m
    IN  [section \in DOMAIN Member |->
            [m \in Valued(section, r.given.received, r.given.sentinels) \ Unknown(r) |->
                ValueOf(m)]]

MonotonicTime(r) == IF r.older THEN None ELSE r.line.recorded_monotonic_s

\* The JSON document of a line.
Document(r) ==
    LET Less(object) == Restrict(object, DOMAIN object \ Unknown(r))
        telemetry == ToJson(Snapshot(r))
    IN  [recorded_at |-> IF r.older THEN FormatPython(r.line.recorded_at, Zone)
                                    ELSE FormatIso(r.line.recorded_at),
         recorded_monotonic_s |-> MonotonicTime(r),
         telemetry |-> [section \in DOMAIN Member |-> Less(telemetry[section])]]

-----------------------------------------------------------------------------
(* TelemetryReplay::samples()                                              *)

\* What getline returns: a last line without newline is a line.
Contents == lines \o tail

WellFormed(l) == l # Malformed

\* Mutant of Readable: a line that is not a record does no harm.
AlwaysReadable == TRUE

\* One line that is not a record makes the recording unreadable.
Readable == \A k \in DOMAIN Contents : WellFormed(Contents[k])

Sample(document) ==
    [recorded_at |-> ParseIso(document.recorded_at),
     recorded_monotonic_s |-> document.recorded_monotonic_s,
     telemetry |-> FromJson(document.telemetry)]

\* samples() opens the recording.  Nothing else of the recorder is looked at any more:
\* its other variables go back to their initial values, so that states which only
\* differ in them become one.
OpenRecording ==
    /\ rpc = "start" /\ rpc' = "open"
    /\ pc = "down"
    /\ mono' = 0 /\ wall' = WallStart /\ reboots' = 0 /\ steps' = 0
    /\ runs' = 0 /\ now' = 0 /\ next' = 0 /\ count' = 0 /\ acked' = <<>>
    /\ UNCHANGED <<file, pc, pending, samples, i, elapsed, engineVars, recording,
                   evaluated>>

\* Nothing was received before the machine was started.
Possible(given) ==
    \A k \in DOMAIN Contents : given[k].age <= Contents[k].recorded_monotonic_s

\* samples() reads the recording.  What record() was given is chosen here, where it
\* first matters.
Load ==
    /\ rpc = "open"
    /\ IF Readable
       THEN \E given \in [DOMAIN Contents -> Given], older \in BOOLEAN :
               /\ Possible(given)
               /\ rpc' = "loaded"
               /\ recording' = [k \in DOMAIN Contents |->
                      [line |-> Contents[k], given |-> given[k], older |-> older]]
               /\ samples' = [k \in DOMAIN Contents |-> Sample(Document(recording'[k]))]
       ELSE rpc' = "rejected" /\ UNCHANGED <<recording, samples>>
    /\ lines' = <<>> /\ tail' = <<>>
    /\ UNCHANGED <<clocks, runs, pc, stream, count, acked, i, elapsed, engineVars,
                   evaluated>>

Delay == IF i = 1 THEN 0 ELSE samples[i].recorded_at - samples[i - 1].recorded_at

\* Mutant of InOrder: the order of the recording is not examined.
AnyOrder == TRUE

InOrder == Delay >= 0

\* One turn of replay()'s loop: it sleeps, and returns nothing yet.
Pace ==
    /\ rpc \in {"loaded", "pace"} /\ i <= Len(samples)
    /\ IF InOrder
       THEN i' = i + 1 /\ elapsed' = elapsed + Delay /\ rpc' = "pace"
       ELSE rpc' = "rejected" /\ UNCHANGED <<i, elapsed>>
    /\ UNCHANGED <<recorderVars, samples, engineVars, recording, evaluated>>

\* replay() returns all samples.
ReturnSamples ==
    /\ rpc \in {"loaded", "pace"} /\ i > Len(samples)
    /\ rpc' = "evaluate"
    /\ i' = 1
    /\ UNCHANGED <<recorderVars, samples, elapsed, engineVars, recording, evaluated>>

\* The recorder's clock, for an older recording the time of day.
EvaluationTime ==
    IF samples[i].recorded_monotonic_s # None THEN samples[i].recorded_monotonic_s
                                              ELSE samples[i].recorded_at

\* One turn of run_replay's loop.
EvaluateSample ==
    /\ rpc = "evaluate" /\ i <= Len(samples)
    /\ Engine!Evaluate(Value("connection", "connected"), EvaluationTime)
    /\ i' = i + 1
    /\ evaluated' = Append(evaluated, [elapsed |-> elapsed,
                                       raised |-> unhealthySensors' \ unhealthySensors])
    /\ UNCHANGED <<recorderVars, rpc, samples, elapsed, recording>>

Finish ==
    /\ rpc = "evaluate" /\ i > Len(samples)
    /\ rpc' = "done"
    /\ UNCHANGED <<recorderVars, samples, i, elapsed, engineVars, recording, evaluated>>

Replay == OpenRecording \/ Load \/ Pace \/ ReturnSamples \/ EvaluateSample \/ Finish

Next ==
    \/ RecorderNext /\ rpc = "start" /\ UNCHANGED replayVars
    \/ Replay

Spec == Init /\ [][Next]_vars

-----------------------------------------------------------------------------
(* Properties                                                              *)

\* A recording that can be read holds every snapshot that record_if_due has reported
\* as written, and none twice or out of the order of recording, whatever failed writes,
\* second attempts at closing, ends of the program and restarts came between: samples()
\* may not pass over what it cannot read (telemetry_recorder.cpp:184, 222-236;
\* telemetry_replay.cpp:165-201).
NoSilentLoss ==
    Readable =>
        /\ \A k, l \in DOMAIN Contents : k < l => Contents[k].snapshot < Contents[l].snapshot
        /\ \A a \in DOMAIN acked : \E k \in DOMAIN Contents :
              Contents[k].snapshot = acked[a].snapshot

\* In one run the program takes two snapshots at least a sample period apart, by the
\* clock readings that decided to take them: record_if_due does not catch up after a
\* delay (telemetry_recorder.cpp:191-199).
NeverFasterThanPeriod ==
    \A k, l \in DOMAIN acked :
        k < l /\ acked[k].run = acked[l].run => acked[l].now - acked[k].now >= Period

\* What the replay restores is what record() was given and when, member by member and
\* to the microsecond: the keys of the two modules and the two conversions of a time,
\* written apart, fit each other, and a recording without freshness metadata comes back
\* without any (telemetry_replay.cpp:25-30, chrono_utils.hpp:20-94).
RestoredAsRecorded ==
    \A k \in DOMAIN samples :
        samples[k] = [recorded_at |-> recording[k].line.recorded_at,
                      recorded_monotonic_s |-> MonotonicTime(recording[k]),
                      telemetry |-> Snapshot(recording[k])]

\* The warning engine sees a recording either in the order of the system clock or not
\* at all: a clock set back anywhere in the recording is found before the first
\* sample is evaluated (telemetry_replay.cpp:214-229, main.cpp:194-204).
EvaluatedInOrder ==
    \A k, l \in DOMAIN samples :
        evaluated # <<>> /\ k < l => samples[k].recorded_at <= samples[l].recorded_at

\* A replay never raises a sensor that had not really been bad for the activation
\* delay: although a reboot in the recording puts start times into the future and a set
\* clock makes two clocks disagree, every snapshot of at least that long shows the
\* fault, and by a status that was no older than the data timeout when it was recorded;
\* neither a stale snapshot nor one of unknown freshness counts (main.cpp:198-203,
\* warning_engine.cpp:139-141).
RaisedIsConfirmed ==
    \A k \in DOMAIN evaluated : \A s \in evaluated[k].raised :
        \E j \in 1..k :
            /\ recording[k].line.at - recording[j].line.at >= ActivationDelay
            /\ \A m \in j..k : /\ s \in recording[m].given.faulty
                               /\ ~recording[m].older
                               /\ recording[m].given.age <= DataTimeout

\* "Yield samples using recorded intervals divided by *speed*": a sample is not
\* evaluated before the interval recorded since the one before has passed
\* (telemetry_replay.hpp:39).
YieldedAtRecordedIntervals ==
    \A k \in DOMAIN evaluated :
        k > 1 => evaluated[k].elapsed - evaluated[k - 1].elapsed
              >= samples[k].recorded_at - samples[k - 1].recorded_at

=============================================================================
