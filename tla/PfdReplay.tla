----------------------------- MODULE PfdReplay -----------------------------
(***************************************************************************)
(* PfdReplayModel: the replay display, which shows the samples of a        *)
(* recording over and over, here as the other reader of the recordings of  *)
(* TelemetryReplay.  A single-shot timer is started anew with the delay to *)
(* the next sample; the delay is converted to an int of limited width.     *)
(***************************************************************************)
EXTENDS TelemetryReplay

CONSTANTS
    TickMs,         \* milliseconds of a tick at the replay speed
    IntLimit,       \* 2 ^ 31 for int
    LongestDelay    \* the upper bound of the clamp, 2000 in the code

ASSUME PfdReplayAssumption ==
    /\ {TickMs, IntLimit, LongestDelay} \subseteq Nat \ {0}
    /\ LongestDelay < IntLimit

VARIABLES
    index,          \* _index, counted from 1
    timer,          \* _timer is running
    valid,          \* the readings whose flag is set
    shown,          \* for each reading, the sample its numbers come from, or 0
    connected       \* _connected

displayVars == <<index, timer, valid, shown, connected>>
displayAndVars == <<vars, displayVars>>

\* The members each reading needs.
Needed ==
    [attitude      |-> {<<"attitude", "roll_rad">>, <<"attitude", "pitch_rad">>,
                        <<"attitude", "yaw_rad">>},
     altitude      |-> {<<"motion", "relative_altitude_m">>},
     groundSpeed   |-> {<<"motion", "velocity_north_m_s">>, <<"motion", "velocity_east_m_s">>},
     verticalSpeed |-> {<<"motion", "velocity_down_m_s">>}]

DisplayInit ==
    /\ Init
    /\ index = 1
    /\ timer = FALSE
    /\ valid = {}
    /\ shown = [g \in DOMAIN Needed |-> 0]
    /\ connected = FALSE

-----------------------------------------------------------------------------

HasReading(data, g) == \A m \in Needed[g] : m[2] \in DOMAIN data[m[1]]

ValidIn(k) == {g \in DOMAIN Needed : HasReading(samples[k].telemetry, g)}

\* The numbers of a reading that is not valid stay as they were.
ApplySample(k) ==
    /\ index' = k
    /\ valid' = ValidIn(k)
    /\ shown' = [g \in DOMAIN Needed |-> IF g \in ValidIn(k) THEN k ELSE shown[g]]
    /\ connected' = samples[k].telemetry.connection["connected"]

\* The constructor, given what samples() returned; it rejects an empty recording.
Construct ==
    /\ rpc = "loaded"
    /\ IF samples = <<>>
       THEN rpc' = "rejected" /\ UNCHANGED displayVars
       ELSE rpc' = "display" /\ ApplySample(1) /\ UNCHANGED timer
    /\ UNCHANGED <<recorderVars, samples, i, elapsed, engineVars, recording, evaluated>>

\* Conversion to int keeps the lowest bits.
ToInt(n) == ((n + IntLimit) % (2 * IntLimit)) - IntLimit

\* Mutant of Clamp: the delay is only limited from above.
ClampAbove(n) == IF n > LongestDelay THEN LongestDelay ELSE n

Clamp(n) == IF n < 1 THEN 1 ELSE IF n > LongestDelay THEN LongestDelay ELSE n

Following(k) == (k % Len(samples)) + 1

\* With a single sample and after the last one the delay is fixed.
DelayToNextSample(k) ==
    LET gap == samples[Following(k)].recorded_at - samples[k].recorded_at
    IN  IF Len(samples) < 2 THEN LongestDelay \div 2
        ELSE IF Following(k) = 1 THEN LongestDelay \div 4
        ELSE Clamp(ToInt(gap * TickMs))

\* A timer is not started with a negative interval.
StartTimer(delay) == timer' = (delay >= 0)

\* start(), once the window is there.
Start ==
    /\ rpc = "display" /\ rpc' = "displaying"
    /\ StartTimer(DelayToNextSample(index))
    /\ UNCHANGED <<recorderVars, samples, i, elapsed, engineVars, recording, evaluated,
                   index, valid, shown, connected>>

\* The timer has expired.
Advance ==
    /\ rpc = "displaying" /\ timer
    /\ ApplySample(Following(index))
    /\ StartTimer(DelayToNextSample(Following(index)))
    /\ UNCHANGED vars

DisplayNext ==
    \/ Next /\ UNCHANGED displayVars
    \/ Construct \/ Start \/ Advance

\* The event loop of Qt runs, and a timer that has been started expires.
DisplaySpec ==
    /\ DisplayInit /\ [][DisplayNext]_displayAndVars
    /\ WF_displayAndVars(Start) /\ WF_displayAndVars(Advance)

-----------------------------------------------------------------------------
(* Properties                                                              *)

\* What the display shows of sample k: those readings of which record() was given every
\* member, with the numbers of this sample and of no other, and its link.
Shows(k) ==
    /\ rpc = "displaying" /\ index = k /\ k \in DOMAIN samples
    /\ valid = {g \in DOMAIN Needed : HasReading(Snapshot(recording[k]), g)}
    /\ \A g \in valid : shown[g] = k
    /\ connected = ("HEARTBEAT" \in recording[k].given.received)

\* Every sample of a recording is shown again and again, as it was recorded: no gap in
\* the recording, however long, no clock set back in it and no conversion of a delay
\* ever stops the display, and no flag is left over from another sample
\* (pfd_replay_model.cpp:40-45, 47-78, 80-95).
EverySampleIsShown ==
    \A k \in 1..MaxSnapshots :
        []<>(rpc \in {"display", "displaying"} /\ k \in DOMAIN samples => Shows(k))

=============================================================================
