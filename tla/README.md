# Pixhawk warning monitor: TLA+ specifications and proofs

TLA+ models of the telemetry, warning and display code in `src/src`, the TLC runs
that check them on small instances, and TLAPS proofs of their safety properties and
refinements for every value of the constants. Paths below are relative to the repository (`src/`).

## 1. The system

A Pixhawk autopilot sends MAVLink messages. One program reads the serial port and
fans the frames out over UDP; other programs receive them, keep a snapshot, derive
warnings and show or log them.

    serial --> telemetry_hub --UDP--> main (monitor) --> log, recording (JSON lines)
                             --UDP--> pfd_main (live display) --> QML
    engine --> scheduler --> audio output (described in docs/ALERT_INFRASTRUCTURE.md)
    recording --> main --replay --> log
    recording --> pfd_main --replay --> QML

All programs are single threaded; what runs beside a program is its environment: the
sender of messages, the link, the clock, the operator's signal, the Qt event loop.

| component | state | operations | interacts by |
|---|---|---|---|
| `telemetry/telemetry_data.hpp` | the snapshot: per message group a time stamp and optional values, the map of sensors, the connection flag | `is_fresh` | shared by reader, engine, recorder, displays |
| `telemetry/telemetry_reader.cpp` | owns the snapshot | `read_once`, `process_message` (one handler per message id), `refresh_connection_status` | called by the loops; pulls from `PixhawkConnection` |
| `telemetry/pixhawk_connection.cpp` | descriptor, parser status, queue of parsed messages | `connect`, `close`, `receive_message` | throws `PixhawkConnectionError` |
| `warning/warning_engine.cpp` | `_connection_lost_active`, `_unhealthy_sensors`, two maps of start times | `evaluate` | returns the events that changed |
| `warning/warning_scheduler.cpp` | `_active`, `_transitions`, `_last_output_s` | `submit`, `next`, `active_count`, `highest_active` | fed with events, polled by an output stage |
| `main.cpp` | loop position, the shutdown flag set by a signal handler | `run`, `run_replay` | drives reader, engine, recorder |
| `telemetry/telemetry_recorder.cpp` | stream, time of the next record | `open`, `record_if_due`, `close` | called by the monitor |
| `telemetry/telemetry_replay.cpp` | none | `samples`, `replay` | read by `run_replay` and the replay display |
| `ui/pfd_live_model.cpp` | reader, engine, scheduler, what QML shows | `start`, `pollTelemetry`, `updatePresentation` | Qt timer; notifies QML by `snapshotChanged` |
| `ui/pfd_replay_model.cpp` | samples, index, timer | `start`, `advance` | Qt timer |
| `telemetry_hub.cpp` | connection, socket | read and `sendto` each destination | UDP |
| `tts/tts.cpp` | the player's process id | `speak`, `stop` | no program uses it yet |
| `utils/chrono_utils.hpp` | none | clock readings, ISO 8601 conversion | pure |

Where it is hard, and what makes each part correct:

- **Debounce over evaluations that are not evenly spaced** (engine). Start times are
  made, kept, dropped on recoveries, activations, sensors that vanish from the map
  and stale data; one kept too long raises or clears a warning at once. Correct: the
  two maps describe exactly the uninterrupted runs of observations, and the returned
  events, folded, give exactly the warnings that are raised.
- **Order, de-duplication and repetition** (scheduler). Events are announced by
  severity, not by arrival, one per cooldown, while codes are submitted and cleared.
  Correct: nothing raised is hidden, the listener ends up with the true state,
  transitions are not starved by repeats.
- **Blocking calls, failures and the signal** (monitor). Nothing is evaluated while
  the thread reads or sleeps; one handler catches link and recording faults; the
  signal may fall between a test and the call it guards. Correct: a loss is
  reported in bounded time whatever fails, the program ends in bounded time, and
  nothing is left open.
- **Rare repaints** (live display). The model changes in every poll, the screen only
  when a message was handled or the connection changed. Correct: the alert shown is
  the engine's, the numbers marked valid are of one message and of bounded age.
- **A line that fails in the middle of a frame** (connection, hub). Bytes come in any
  pieces, several frames in one read, and errors clear the queue of parsed messages. Correct:
  nothing parsed is lost or overtaken, an unreachable consumer costs the others nothing,
  the hub ends when asked to.
- **A record that two modules spell apart** (recorder, replay). The keys of the JSON object are
  written in one file and looked up in another, where a missing key reads like null; times
  become text and back. Correct: what is restored is what was recorded, member by member
  and to the microsecond, and a replay raises only what the recorded snapshots confirm.
- **A timer that must start itself again** (replay display). Each expiry computes the next
  delay from two recorded times and converts it to an int. Correct: no recording stops it.
- **A player process per announcement** (audio). Players end when they like, cannot always be
  started, and are waited for once. Correct: only its own child is signalled, and what sounds
  is the last announcement of its code.
- **Crashes, failed writes and clocks** (recorder, replay). A line may be cut off and
  continued by the next run, or written again when the stream is closed; the system clock
  may be set back and the steady clock starts again with the machine. Correct: what can be read
  is what was acknowledged, once and in order, and a recording out of order is refused as
  a whole.

`PROJECT.json` lists every hazard at its line with the properties that cover it, or
why none does. That the display's queue of transitions grows without limit is one that none
covers: `QueueAlternates` says what is in the queue, not how much.

## 2. Modules

| module | models | from |
|---|---|---|
| `Freshness` | `is_fresh`, optional time stamps | `telemetry_data.hpp` |
| `TelemetryReader` | handlers, stamps, sensor map, connection flag | `telemetry_reader.cpp` |
| `WarningEngine` | `evaluate` and its two rules | `warning_engine.cpp` |
| `SensorAlarm` | abstract debounced alarm, without the engine's maps | what the engine promises |
| `WarningPipeline` | reader and engine over one snapshot and clock, in any order | shared by `main.cpp` and `pfd_live_model.cpp` |
| `AlarmObserver` | the pipeline watched by an observer with history; its properties | |
| `WarningScheduler` | `submit`, `next`, `highest_active` | `warning_scheduler.cpp` |
| `SchedulerClient` | a scheduler between an arbitrary source and an output stage | interface of the above |
| `AudioOutput` | `WavAudioOutput`: `speak`, `stop`, the player processes | `tts.cpp` |
| `AlertOutput` | the output stage of `SchedulerClient` speaking through `AudioOutput` | `docs/ALERT_INFRASTRUCTURE.md` |
| `Monitor` | `run` with its loops, handlers, signal and clean-up | `main.cpp`, `telemetry_recorder.cpp` |
| `PfdLive` | the live display: poll, submit, alert, repaint | `pfd_live_model.cpp` |
| `PixhawkConnection` | descriptor, bytes on the line, framing of `mavlink_parse_char`, queue | `pixhawk_connection.cpp`, `mavlink_helpers.h` |
| `UdpSocket` | the UDP connection of the programs behind the hub: socket, kernel buffer | `pixhawk_connection.cpp` |
| `FanOut` | abstract: each destination gets published frames in order, at most once | what the hub promises |
| `TelemetryHub` | the hub's loop, its handler, the signal | `telemetry_hub.cpp` |
| `TelemetryRecorder` | recorder, stream buffer and file over several runs; the two clocks | `telemetry_recorder.cpp` |
| `TelemetryRecord` | the members of a snapshot, the handlers that assign them, its JSON object and what is read of it | `telemetry_data.hpp`, `telemetry_reader.cpp`, `telemetry_recorder.cpp`, `telemetry_replay.cpp` |
| `Iso8601` | `format_iso8601`, `parse_iso8601` | `chrono_utils.hpp` |
| `TelemetryReplay` | `samples`, `replay`, `run_replay` with its engine, on that file | `telemetry_replay.cpp`, `main.cpp` |
| `PfdReplay` | the replay display on the same recordings | `pfd_replay_model.cpp` |
| `WarningEngine_proofs` | lemmas about the reader's and the engine's operators, for the proofs about the observer, the monitor and the live display | |
| `AlarmObserver_proofs`, `Monitor_proofs`, `PfdLive_proofs`, `AlertOutput_proofs`, `TelemetryHub_proofs`, `TelemetryReplay_proofs` | the theorems of section 5; the last one is about `PfdReplay` as well | |
| `MC...` | constants for TLC | |

`Freshness <- TelemetryReader <- WarningEngine` extend each other: they are one
snapshot with its writer and its reader. `WarningPipeline`, `Monitor` and `PfdLive` each
extend `WarningEngine`. `Monitor` and `PfdLive` instantiate `WarningPipeline` and are
proved to implement it, and `AlarmObserver` shows that the pipeline implements
`SensorAlarm`; so the debounced alarm holds in both programs. `PfdLive` instantiates
`WarningScheduler` for the scheduler it owns.

`TelemetryHub` extends `PixhawkConnection` and, for the programs that receive from it,
`UdpSocket`, and is proved to implement `FanOut` from the parser to those programs;
`TelemetryReplay` extends `TelemetryRecorder`, whose file it reads, with `TelemetryRecord` and
`Iso8601` for what a line holds, and instantiates `WarningEngine` for the engine of
`run_replay`; `PfdReplay` extends it with the display, the other reader of a recording.
`AlertOutput` composes `SchedulerClient` and `AudioOutput`. `Monitor` and `PfdLive`
use the connection and, in the monitor, the recorder by their outcomes only: a message,
nothing or an error; a record written or an exception.

State and actions against the code:

- *Times* are whole ticks of the steady clock; `std::nullopt` is `None`. Seconds are
  doubles in the code; only differences are ever compared, with values that the
  configuration gives, so whole ticks lose nothing but roundings.
- *Readings*: `finite[src]` is the set of fields of the last reading that have a value
  (NaN and sentinels are decoded to `nullopt`); numbers themselves are left out.
- *Sensors*: `sensors[s]` is the entry of `system.sensors`; an entry that is not in the
  map is `Absent` (all false), which evaluates the same. `HandleSysStatus` rebuilds all
  of it from the three masks, as the handler clears the map first.
- *Engine*: `Evaluate` is a whole call. The vector of events is a set: at most one event
  per code is returned, and the order of the sensors' events is that of a hash set.
- *Scheduler*: absolute times become ages that saturate at the interval they are
  compared with, `-1e30` being a saturated age. `_active[code]` in `next` creates an
  entry around a blank event when the code is not in the map, and the model does too
  (`MarkAnnounced`).
- *Monitor*: `pc` is the statement about to be executed. `Tick` is possible only in
  `read` and `sleep`; the other statements take no time. `until` is the latest return
  of the blocking call. A read may return at any time before with nothing: an
  interrupted `poll`, or bytes that complete no message.
- *Display*: `display` is what `updatePresentation` stored last, `shownAlert` what QML
  read when it was notified last. A shown number is represented by the time of the
  message it came from, so that coherence and age can be stated.

- *Line*: bytes are numbered as they are sent, frame `f` being the bytes `(f-1)*FrameBytes+1`
  to `f*FrameBytes`. `emitted` is the last one sent, `taken` the last one read or flushed. The
  parser's states are reduced to start mark, length and a number of bytes still expected; a
  frame is accepted exactly when all its bytes were its own, which stands for the checksum. A
  length or a start mark found among other bytes is arbitrary, up to `MaxGarbage`.
- *Hub*: `pc` is the statement about to be executed, as in `Monitor`; no time is modelled.
  `parsed` and `handled` are histories of what `push_bytes` queued and `receive_message`
  returned.
- *UDP*: `buffer[d]` is what the kernel holds for the socket at a port and `got[d]` what
  `receive_message` has returned to the program there. The hub and the programs run on one
  machine, as `scripts/start_system.sh` starts them, so datagrams are lost but not
  reordered. Each datagram is one whole frame (`mavlink_msg_to_send_buffer`), which the parser,
  idle between frames, returns in the same call. `Steady` are programs that stay and never let their buffer
  fill; the others start, stop, lose what is in the kernel, and miss what is sent meanwhile.
- *Recording*: a line is the number of a snapshot and its two times; `Malformed` is any line
  that is not a JSON object, and `tail` is what follows the last newline. A failed write
  leaves nothing, a part, or all but the newline; the stream keeps the whole line and
  writes it again when it is closed, as libstdc++ does. Data handed to the kernel is taken
  to stay. `at` is the time that has really passed, known to no clock.
- *Snapshots*: a section maps the members that have a value to their values. Of a number only
  its place matters, so its value is its name: two members that change places, or one that
  is lost, show up. `Given` says which messages had been received, which numbers were
  sentinels or not finite, which sensors were bad, and how old the values were: a group that
  is no longer sent keeps its values and its stamp, and `snapshot` writes both again
  (`age`). A sensor's state is an object of its own with keys of its own (`StateToJson`,
  `StateFromJson`). `Given` is chosen when a line is read, where it
  first matters, instead of when it is written (`Load`), which gives the same behaviours
  with fewer states. For the same reason `OpenRecording` puts the recorder's variables but
  the file back to their initial values: no recorder runs any more.
- *Older recordings*: `telemetry_replay.cpp` and `parse_iso8601` read recordings without
  freshness metadata, with times of any offset and without a fraction when it is zero; a
  recording is chosen to be of this kind or not.
- *Times of a recording*: a tick is the last digit of a fraction of `Digits` digits, the
  microsecond of the code; clock readings are whole microseconds. With two digits and a clock
  that begins at `WallStart` = 98 the ticks cross a full second and have leading zeros.
  `duration_cast` rounds towards zero (`WholeSeconds`), so that `format_iso8601` has a branch
  for the negative remainder of a time before 1970. The system clock cannot be set there on
  Linux, and no run does; `TimeRestored` proves the conversion for every integer.
- *Replay*: `elapsed` is the sum of the sleeps, at original speed. `evaluated` is a history
  of the calls of the engine.
- *Replay display*: `shown[g]` is the sample whose numbers a reading shows, so that numbers
  kept from another sample can be told apart; the display is given what `samples()`
  returned and, unlike `replay()`, does not ask for chronological order. `StartTimer` is
  `QTimer::start`, which does not start with a negative interval.
- *Audio*: the process table has only the player's children. A `free` identifier may belong
  to any other process of the machine; an identifier is free only after the child has been waited
  for. `spoken` is the event the current player was started with. A player given up stays in the table, since nothing waits for it again; when all of
  `Pid` are used `fork` fails.

## 3. Runs

| run | checks | shows |
|---|---|---|
| `observer` | `TypeOK`, `MapsAreTheRuns`, `ConsumerAgrees`, `OnlyChanges`, `NoChatter`, `ImplementsAlarm` | the engine over every mixture of absent, disabled, healthy and bad, stale periods and lost links |
| `scheduler` | `TypeOK`, `HighestIsLive`, `OnlyWithdrawnLinger`, `ListenerUpToDate`, `SeverityFirst`, `QueueDrains`, `MostSevereIsRepeated`, `AllAreRepeated`, `KillsOnlyItsPlayer`, `VoiceAgrees` | scheduler and audio output together: priority, order, de-duplication, progress, repeats, and the players that speak |
| `scheduler_left_over` | `NothingLiveNothingActive` (violated) | finding 1 |
| `monitor` | `LossDetectedInTime`, `StaleWarningBounded`, `StopsByDeadline`, `StopsPromptly`, `NothingLeftOpen`, `Ends`, `ImplementsPipeline` | delays, shutdown, clean-up, termination |
| `monitor_recorder_fault` | `LostOnlyAfterTimeout` (violated) | finding 2 |
| `pfd` | `QueueAlternates`, `AlertsAreWarnings`, `CriticalIsShown`, `StalenessBoundedWhileConnected`, `DisplayIsCoherent`, `ImplementsPipeline` | engine, scheduler and screen agree; two numbers of one message, any field missing |
| `pfd_expired` | `ExpiredIsStale` (violated) | finding 3 |
| `pfd_notify` | `AlertIsNotified` (violated) | finding 4 |
| `hub` | `NothingParsedIsDropped`, `HealthyGetsEverything`, `ImplementsFanOut`, `ParsedIsForwarded`, `StopEnds` | what is parsed reaches every program that stays, in order; the hub ends |
| `hub_parser_reset` | `FrameAfterConnectIsParsed` (violated) | finding 5 |
| `replay` | `NoSilentLoss`, `NeverFasterThanPeriod`, `RestoredAsRecorded`, `EvaluatedInOrder`, `RaisedIsConfirmed`, `EverySampleIsShown` | recordings over failed writes, crashes, clock steps and reboots, read by the engine or by the display |
| `replay_pace` | `YieldedAtRecordedIntervals` (violated) | finding 6 |

The type invariants checked are those of the observer, which the proofs use, and of the
scheduler, whose blank entries make the types worth checking. Every property has a mutant in `PROJECT.json`: a plausible slip in the code's
definition which makes TLC find the property violated.

**Bounds.** `MaxTime` bounds the clock of `AlarmObserver` and `PfdLive`, `Duration` that of
`Monitor` (with it the program really ends), `MaxSubmits` the submissions to the scheduler.
With activation delay 2, clear delay 1 and data timeout 2, five ticks hold a fault,
its activation, a recovery, a relapse, a second activation and a stale period; the
proofs remove this bound for the engine, and the bound of one sensor too. Three
codes and five submissions give the scheduler a more severe and an equal rival for every code,
and activation, clear and reactivation of one code among others. The monitor's 7 ticks
cover the heartbeat timeout (2), a reconnect (2) and reads (1) on either side; the
relations between the timeouts (poll shorter than heartbeat timeout, reconnect delay at
least as long) are those of the defaults. `MaxPerTick` 2 lets a poll stop at its budget
with messages left.

For the hub, three frames of three bytes (start, length, rest) hold a frame cut by an error,
one swallowed and one whole, and two frames in one read; two destinations, the one that
comes and goes first, hold a failure before a healthy one; a buffer of one datagram is full
with the next. For the recording, three snapshots, two runs and one
clock step hold a record cut off in the first run, one merged with it and one more; three
ticks with a period of two hold a late record and the one after it. Four kinds of snapshots
(before the first message; after all of them with a bad sensor; after some of them, a part of
their numbers missing, as old as the data timeout allows; after all of them with a bad sensor,
one tick too old) hold every member with and without a value and stamps on both sides of the
timeout; three samples and a delay of two ticks hold a fault that is confirmed, one that is interrupted and one that a
reboot or a set clock makes look longer than it was. The display's int has 12 bits and a tick 1024
ms, so that the gaps of the recordings lie on both sides of the overflow that `lround`
and `int` meet after 24 days.

Two player processes let one be given up while the next one speaks, and the table be full;
one event has no file. A repeat interval of three cooldowns fits the three codes: `AllAreRepeated`
fails when it is two.

`CHECK_DEADLOCK FALSE` is set where the program
or the bounded clock really stops: `Monitor` (the process ends), `PfdLive` (it may be
terminated by an exception), `TelemetryHub` and `TelemetryReplay` (they end), the recording that `PfdReplay` is given may be rejected, and
`AlarmObserver` (bounded clock). The runs of the scheduler check deadlock.

**Fairness.** `SchedulerClient`: weak fairness of `Announce` (the output stage keeps polling)
and of `Tick`; none of the source. `Monitor`: weak fairness of the thread, and strong
fairness of `Tick`, because time passes although the thread leaves and re-enters its
blocking calls: a clock does not stop because `poll` returns early. `Ends` needs both and
nothing of the link. `TelemetryHub`: weak fairness of its thread, every wait of which has a
timeout; and of each program in `Steady` that it reads its socket, as the loop of `run` and the
timer of the display do; none of the autopilot, the device, the signal or the other programs. `AlertOutput` assumes what
`SchedulerClient` does, and nothing of the players; `AllAreRepeated` adds, as its premise, an
output stage that polls before time passes whenever something could be announced, without
which no less severe warning has a claim. `PfdReplay`: weak fairness of `Start` and `Advance`, as
the Qt event loop runs and delivers the expiry of a timer that was started. The observer, the
live display and `run_replay` state safety only.

## 4. Findings

1. `next()` writes `_active[result.code].last_announced`; if the code was cleared while its
   activation was still queued this re-creates an entry around a blank event:
   `active_count()` and `highest_active()` report a warning that is not active, and a
   blank event is repeated later. `OnlyWithdrawnLinger` and `HighestIsLive` show how far
   this goes: only codes withdrawn before they were spoken are affected, and a live
   warning is never hidden by such an entry (no rule uses severity INFO, the rank of a
   blank event).
2. A failed recording is treated as a failed connection: CONNECTION_LOST is raised and the
   link closed although heartbeats arrive.
3. An expired value keeps its VALID mark until the next message or change of connection;
   `StalenessBoundedWhileConnected` gives the bound that does hold.
4. A warning that becomes due in a poll without messages is not notified to QML; the
   critical one always is (`CriticalIsShown`).
5. `connect()` resets its own copy of the parser's status, not the static one that
   `mavlink_parse_char` uses, so half a frame from before a disconnect consumes the first
   frame after it.
6. `replay()` sleeps for the whole recording before it returns the first sample;
   `run_replay` then logs all events at once.

The texts they contradict are quoted in `PROJECT.json` and, for the violated
properties, in the comment above each.

Two more differences between code and documents are in the models and no run is spent on
them. The plan for the speech output (`docs/fixed_wing_voice_warning_rules_plan.txt:351-355`)
asks for one voice at a time, lets P0 interrupt all others, and forbids P1 to interrupt P0.
`speak()` calls `stop()` before anything else (`tts.cpp:10`): whatever is announced cuts off
what still sounds, a less severe warning one cooldown after CONNECTION_LOST too, because
`next()` orders what is queued and knows nothing of what is still playing. This is the same
document finding 2 rests on, and the code does not follow it here. No property that passes requires the
interruption: `VoiceAgrees` takes the plan's first rule, one voice, and says that what sounds is not
contradicted by a later announcement of its own code. A `speak()` that kept silent while
something more severe sounds would satisfy it too. The replay display loops a
recording "at its original timing" (README.md:102-103) except for gaps longer than two seconds,
which `delayToNextSampleMs` cuts, and for those an int cannot hold, which it makes the
shortest (`Clamp`, `ToInt`); `EverySampleIsShown` shows that the display goes on all the same.

Two behaviours contradict no document. After a link error within
the heartbeat timeout, reopening the link alone ends CONNECTION_LOST, on the age of the old
heartbeat (`Connect`, then `RefreshStatus`). `replay()` orders a recording by the system
clock while `run_replay` evaluates it by the recorded steady clock, which starts again in a
recording continued after a reboot (`Reboot`); `RaisedIsConfirmed` shows that this never
raises a sensor without cause, though it may delay or miss one.

## 5. Proofs

TLC looks at one small instance; the theorems hold for every value of the constants: any set
of sensors, codes, messages, destinations or processes, any delay, timeout, period, age limit
or frame length, and every clock bound and other bound of the models. Every safety property
and refinement of section 3 is proved, and every action property; only liveness is not.

| module | theorem | states |
|---|---|---|
| `AlarmObserver_proofs` | `TypeCorrect` | `ObservedSpec => []TypeOK` |
| | `MapsCorrect` | `ObservedSpec => []MapsAreTheRuns` |
| | `AlarmImplemented` | `ObservedSpec => ImplementsAlarm` (refinement of `SensorAlarm`) |
| | `ConsumerCorrect` | `ObservedSpec => []ConsumerAgrees` |
| | `ChangesOnly` | `ObservedSpec => OnlyChanges` |
| | `NoChatterHolds` | `ObservedSpec => NoChatter` |
| `Monitor_proofs` | `StopsInTime`, `StopsSoon` | `Spec => []StopsByDeadline`, `[]StopsPromptly` |
| | `NothingLeftOpenHolds` | `Spec => []NothingLeftOpen` |
| | `LossDetected` | `Spec => []LossDetectedInTime` |
| | `StaleWarning` | `Spec => []StaleWarningBounded` |
| | `PipelineImplemented` | `Spec => ImplementsPipeline` (refinement of `WarningPipeline`) |
| `PfdLive_proofs` | `AlertsAreTheWarnings` | `Spec => []AlertsAreWarnings` |
| | `QueueAlternating` | `Spec => []QueueAlternates` |
| | `CriticalShown` | `Spec => []CriticalIsShown` |
| | `StalenessBounded` | `Spec => []StalenessBoundedWhileConnected` |
| | `DisplayCoherent` | `Spec => []DisplayIsCoherent` |
| | `PipelineImplemented` | `Spec => ImplementsPipeline` (refinement of `WarningPipeline`) |
| `AlertOutput_proofs` | `SchedulerTypes` | `AlertSpec => []TypeOK` |
| | `OnlyWithdrawnLingers` | `AlertSpec => []OnlyWithdrawnLinger` |
| | `ListenerKnows` | `AlertSpec => []ListenerUpToDate` |
| | `HighestShownIsLive` | `AboveInfo`, then `AlertSpec => []HighestIsLive` |
| | `MostSevereFirst` | `AlertSpec => SeverityFirst` |
| | `KillsOnlyIts` | `AlertSpec => []KillsOnlyItsPlayer` |
| | `VoiceAgreeing` | `AlertSpec => []VoiceAgrees` |
| `TelemetryHub_proofs` | `NoFrameLost` | `Spec => []NothingParsedIsDropped` |
| | `HealthyIsServed` | `Spec => []HealthyGetsEverything` |
| | `FanOutImplemented` | `Spec => ImplementsFanOut` (refinement of `FanOut`) |
| `TelemetryReplay_proofs` | `TimeRestored` | both formats of a time are read back, for every integer and offset |
| | `NeverFaster` | `Spec => []NeverFasterThanPeriod` |
| | `NothingSilentlyLost` | `Spec => []NoSilentLoss` |
| | `Restored` | `Spec => []RestoredAsRecorded` |
| | `InOrderEvaluated` | `Spec => []EvaluatedInOrder` |
| | `Confirmed` | `Spec => []RaisedIsConfirmed` |
| | `DisplayKeeps` | these five of `DisplaySpec` |
| | `DisplayGoesOn` | `DisplaySpec => [](rpc = "displaying" => timer /\ Shows(index))` |

**Assumptions.** Those declared with the constants, which TLC evaluates in the runs:
`NoneAssumption` and `NullAssumption` (an absent value is told from every value),
`ReaderAssumption`, `EngineAssumption`, `ReplayAssumption`, `MonitorAssumption`,
`PfdAssumption`, `PfdReplayAssumption` (what option parsing, constructors and the constants in
the code allow; no sensor has the connection's code), `SchedulerAssumption` (a repeat interval of at
least one tick, and no code is the empty string of a blank event or the model's "none"),
`HubAssumption`, `SocketAssumption`, `ConnectionAssumption`, `RecorderAssumption`,
`AudioAssumption`, `Iso8601Assumption` (its second conjunct follows from the first, but the
provers do not know powers). `HighestShownIsLive` adds `AboveInfo`, as its property does: no
code has the severity INFO of a blank event, which is so in `warning_engine.cpp`. There is no
hypothesis about the environment.

**The arguments.** None of the properties is inductive as it stands. Each module defines an
invariant `IInv` of which every property is a part or a consequence, and proves that `Init`
implies it and that every action preserves it; TLC has checked each `IInv` on the instance
of its run.

*The observed pipeline.* The engine has no notion of a run: it has two maps that are filled and
emptied in half a dozen places. `MapsAreTheRuns` says what they amount to, an
observer's runs restricted to the sensors that are not raised, or raised, and with
`TypeOK` it is inductive: a fresh evaluation leaves entries exactly for the bad sensors
not raised after it and the raised ones not bad after it (`FreshKeepsRuns`), a blind one
leaves none (`BlindKeepsRuns`). Given it, the start time the engine measures from is the one
the abstract alarm measures from (`StartedIsTheRun`), and the refinement is set algebra
(`FreshIsObserve`). `ConsumerAgrees` is inductive with `TypeOK` from a code-by-code account of
the events, and `OnlyChanges` follows from it.
`NoChatter` needs that the present bad run of a
sensor that is not raised began no earlier than its last activation
(`RunsFollowActivations`), because a sensor that is cleared is not bad at that moment; an
activation then closes a run of at least the activation delay after the previous one.

*The monitor.* The bounds on its end follow from when a blocking call returns: before the
deadline plus a read, and no longer after the signal than one call (`CallsAreBounded`). The
bounds on its warnings follow from what is known at each statement: `LossKnown` says for which
time the connection warning is up to date, now at the top of the loop, the start of the read
in a read, a read ago before the evaluation; `DataAge` says the same of the data of a raised
sensor warning, whose age grows by one delay and one read between two evaluations.
`StatusIsCurrent` gives that the flag handed to the engine was computed at that time. The
refinement maps each statement to the handler, refresh, evaluation or tick it makes and
needs no invariant.

*The live display.* `PendingLeads` relates, code by code, the scheduler's map, the events not
submitted yet and the engine's warnings, and `QueueFollows` the map and the queue.
`LinkKnown` and `AlertKnown` follow the connection flag, the display's copy of it and the alert
through the steps of a poll, with and without a message: only there does it show that a poll
which will not repaint has changed neither. `PaintedAtHeartbeat` bounds the age of a valid
number by its limit at the time of the last heartbeat, because every heartbeat repaints.

*Scheduler and audio.* `EntriesAreLive` says what an entry holds, a live code's activation or the
blank event that `operator[]` made. For a code that was never withdrawn, at most one activation
and one clear are queued, the clear before the activation (`QueuedOnce`), and what the listener
heard with what is queued leads to the state the code is in (`Reconciles`). That
`max_element` finds a most severe transition, the first of them, and leaves no other out rests on
the well-foundedness of the natural numbers (`FirstHighestExists`). For the players, `KillsOnlyItsPlayer`
and `VoiceAgrees` are inductive together: the current identifier is the only one that
plays or has not been waited for, and an announcement that changes what the listener heard of
a code is the one that is then spoken, or nothing is.

*The hub.* A parsed frame's last byte has been read, so the next one is later
(`ParsedInOrder`); `HandledIsPrefix` says that frames are taken up in the order of parsing, and
`LoopOK` that `close` and `connect`, which clear the queue, find it empty. A program that stays
has the frames taken up, but the one being sent when its turn has not come
(`HealthyGetsEverything`); of the others, what they have and what waits for them was taken up
and is in order (`OnlyHandledIsSent`, `WaitsInOrder`), which makes the sum of line, hub and
sockets a `FanOut`.

*Recorder and replay.* Within a run, the next record is due a period after each one taken
(`PeriodKept`). The well-formed lines of the file are in the order of recording although a
failed line is written again when the stream is closed: it can only follow the file's
lines whole when nothing of it is there already (`FilePast`), and whatever is joined to a part
of a line makes the recording unreadable (`AckedIsThere`). Between two lines the steady clock
does not advance by more than the time that passes (`Follows`), since a reboot sets it back;
a start time the engine keeps is that of a line from which on every snapshot shows the fault
(`SinceIsConfirmed`), and both together give `RaisedIsConfirmed`. `RestoredAsRecorded` is
the round trip of each section (`SectionRestored`), of each value in it, the sensors' states
among them (`ValueRestored`), and of both formats of a time (`TimeRestored`), for any offset and
any number of digits, also where the remainder is negative. The delay to the next sample is one
a timer starts with, whatever the conversion to int makes of a gap (`DelayStarts`), so the
display goes on (`DisplayGoesOn`).

**Only model-checked.** All liveness (`Ends`, `QueueDrains`, `MostSevereIsRepeated`,
`AllAreRepeated`, `ParsedIsForwarded`, `StopEnds`, `EverySampleIsShown`): liveness under
fairness is outside what the provers used here can do. `DisplayGoesOn` is the part of
`EverySampleIsShown` that is safety; what is left of it is that a running timer expires. The six
runs that find a disagreement show a behaviour and need no proof. That the digits of a
fraction are padded is a choice of `Fraction`, checked by `RestoredAsRecorded` and proved with it.

## 6. Not modelled

- The numbers: unit conversions, trigonometry of the displays, texts, the calendar. Which
  numbers are sentinels is a choice in the models.
- termios, the moves of a `PixhawkConnection`, signed and version 1 frames, and the
  reordering of datagrams between machines.
- Texts that are no times and recordings of another `schema_version`, which `samples()`
  rejects like a malformed line; replay speeds other than 1, which scale the time slept (0
  sleeps not at all).
- Reads that overlap a write of the recorder, and data lost by the kernel.
- A recorder that goes on after an exception: `Monitor` takes every exception of `record()` for one
  that leaves the stream failed. A number that is not finite is rejected before anything is
  written and would leave it usable, but the reader never stores one.
- Equal destinations of the hub, which its command line accepts: a program there would get each
  frame twice. `HubAssumption` takes them to be distinct.
- A monitor without `Duration` in the run about termination (`Ends`); that one ends after a
  signal is `StopsPromptly`, which asks nothing of the duration.
- Command lines (option parsing and range checks), QML, shell scripts: no state is kept there.

## 7. Plan

The models of the first plan are built and their safety properties are proved. What is left:

1. The safety halves of the other liveness properties, in the way of `DisplayGoesOn`: a step
   that speaks makes the queue of transitions shorter, a turn of the hub's loop leaves fewer
   bytes or frames, the monitor's calls end before `Duration`.
2. The debounced alarm of the monitor and of the display themselves: `SensorAlarm` over the history
   of each program's evaluations, from the two refinements of `WarningPipeline` and
   `AlarmImplemented`.
3. Bounds of resources: what `_transitions` may grow to in the display that never calls
   `next()`, what a socket's buffer holds.
