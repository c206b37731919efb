------------------------- MODULE TelemetryRecorder -------------------------
(***************************************************************************)
(* TelemetryRecorder and the file it appends to, over several runs of the  *)
(* program on a machine that may be rebooted.  The file is a sequence of   *)
(* lines and, after them, what there is of a line without its newline.     *)
(* What has been handed to the kernel is taken to stay in the file.        *)
(***************************************************************************)
EXTENDS Integers, Sequences

CONSTANTS
    Period,         \* _sample_period_s
    WallStart,      \* the system clock at the beginning
    MaxTime,        \* bound: neither clock advances further than by this
    MaxSnapshots,   \* bound: number of times record() writes
    MaxRuns,        \* bound: times the program is started
    MaxReboots,     \* bound: times the machine is rebooted
    MaxSteps        \* bound: times the wall clock is set back

ASSUME RecorderAssumption ==
    /\ Period \in Nat \ {0}
    /\ {WallStart, MaxTime, MaxSnapshots, MaxRuns, MaxReboots, MaxSteps} \subseteq Nat

VARIABLES
    mono, wall,     \* the steady clock and the system clock
    reboots, steps, \* how often they have been reset and set back
    lines,          \* the file's lines that end in a newline
    tail,           \* the bytes after the last newline, as a sequence of at most one line
    runs,           \* times the program has been started
    pc,             \* the program: not running, between samples, or in record()
    now,            \* record_if_due's reading of the clock
    next,           \* _next_record_time; 0, which is always due, before the first record
    pending,        \* the line that a failed flush has left in the stream's buffer
    count,          \* history: lines record() has tried to write
    acked           \* history: for each line acknowledged, its number, run and now

clocks == <<mono, wall, reboots, steps>>
file == <<lines, tail>>
stream == <<now, next, pending>>
recorderVars == <<clocks, file, runs, pc, stream, count, acked>>

\* A line that is not a JSON object: snapshot 0.
Malformed == [snapshot |-> 0, recorded_at |-> 0, recorded_monotonic_s |-> 0, at |-> 0]

\* The time that has passed, which no clock shows.
Elapsed == wall + steps - WallStart

\* The next snapshot's line: two more readings of the clocks.  "at" is history.
Line == [snapshot |-> count + 1, recorded_at |-> wall, recorded_monotonic_s |-> mono,
         at |-> Elapsed]

RecorderInit ==
    /\ mono = 0 /\ wall = WallStart /\ reboots = 0 /\ steps = 0
    /\ lines = <<>> /\ tail = <<>>
    /\ runs = 0
    /\ pc = "down"
    /\ now = 0 /\ next = 0 /\ pending = <<>>
    /\ count = 0 /\ acked = <<>>

-----------------------------------------------------------------------------
(* Writing                                                                 *)

\* What the bytes of line l make where they are put: after the bytes of another
\* line they are not a line of their own.
Joined(l) == IF tail = <<>> THEN l ELSE Malformed

WriteAll(l) == lines' = Append(lines, Joined(l)) /\ tail' = <<>>

\* A write that fails has put nothing, a part, or all but the newline.
WritePart(l) ==
    /\ tail' \in {tail, <<Malformed>>, <<Joined(l)>>}
    /\ UNCHANGED lines

-----------------------------------------------------------------------------
(* The program                                                             *)

\* A run starts: a new recorder opens the file to append to it.
Open ==
    /\ pc = "down" /\ pc' = "idle"
    /\ runs < MaxRuns /\ runs' = runs + 1
    /\ now' = 0 /\ next' = 0 /\ pending' = <<>>
    /\ UNCHANGED <<clocks, file, count, acked>>

\* record_if_due finds that a record is due.  With a failed stream record() only
\* throws, and nothing changes.
TestDue ==
    /\ pc = "idle" /\ pending = <<>>
    /\ mono >= next
    /\ count < MaxSnapshots
    /\ pc' = "record"
    /\ now' = mono
    /\ UNCHANGED <<clocks, runs, file, next, pending, count, acked>>

\* Mutant of FollowingTime: keeps to the schedule instead of to the interval.
ScheduledTime == next + Period

FollowingTime == now + Period

\* record() writes the line, flush() succeeds, and record_if_due returns true.
Record ==
    /\ pc = "record" /\ pc' = "idle"
    /\ WriteAll(Line)
    /\ next' = FollowingTime
    /\ count' = count + 1
    /\ acked' = Append(acked, [snapshot |-> Line.snapshot, run |-> runs, now |-> now])
    /\ UNCHANGED <<clocks, runs, now, pending>>

\* A value that is not finite: record() throws before it writes.
RejectNonFinite ==
    /\ pc = "record" /\ pc' = "idle"
    /\ UNCHANGED <<clocks, runs, file, stream, count, acked>>

\* flush() fails: the line stays in the buffer and the stream stays failed.
RecordFails ==
    /\ pc = "record" /\ pc' = "idle"
    /\ WritePart(Line)
    /\ pending' = <<Line>>
    /\ count' = count + 1
    /\ UNCHANGED <<clocks, runs, now, next, acked>>

\* The program ends.  Closing the stream tries once more to write what the failed
\* flush has left, from the beginning of the line.
Close ==
    /\ pc = "idle" /\ pc' = "down"
    /\ IF pending = <<>>
       THEN UNCHANGED file
       ELSE WriteAll(pending[1]) \/ WritePart(pending[1])
    /\ pending' = <<>>
    /\ UNCHANGED <<clocks, runs, now, next, count, acked>>

\* The program is killed; in record() it may be killed before, in or after the write.
Kill ==
    /\ pc # "down" /\ pc' = "down"
    /\ IF pc = "record"
       THEN (WriteAll(Line) \/ WritePart(Line)) /\ count' = count + 1
       ELSE UNCHANGED <<file, count>>
    /\ pending' = <<>>
    /\ UNCHANGED <<clocks, runs, now, next, acked>>

-----------------------------------------------------------------------------
(* The machine                                                             *)

Tick ==
    /\ mono < MaxTime /\ wall < WallStart + MaxTime
    /\ mono' = mono + 1
    /\ wall' = wall + 1
    /\ UNCHANGED <<reboots, steps, file, runs, pc, stream, count, acked>>

\* The system clock is set back, as time synchronisation does.
SetBack ==
    /\ steps < MaxSteps
    /\ wall > 0
    /\ wall' = wall - 1
    /\ steps' = steps + 1
    /\ UNCHANGED <<mono, reboots, file, runs, pc, stream, count, acked>>

\* The steady clock starts again with the machine.
Reboot ==
    /\ pc = "down"
    /\ reboots < MaxReboots
    /\ mono' = 0
    /\ reboots' = reboots + 1
    /\ UNCHANGED <<wall, steps, file, runs, pc, stream, count, acked>>

RecorderNext ==
    \/ Open \/ TestDue \/ Record \/ RejectNonFinite \/ RecordFails \/ Close \/ Kill
    \/ Tick \/ SetBack \/ Reboot

=============================================================================
