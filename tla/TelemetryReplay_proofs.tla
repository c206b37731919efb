----------------------- MODULE TelemetryReplay_proofs -----------------------
(***************************************************************************)
(* Proofs about recording and replaying, with and without the replay       *)
(* display, for every sample period, every recording and every number of   *)
(* ends of the program, reboots and steps of the clock.                    *)
(***************************************************************************)
EXTENDS PfdReplay, SequenceTheorems, TLAPS

-----------------------------------------------------------------------------
(* The inductive invariant: the recorder                                   *)

LineSet == [snapshot : Nat, recorded_at : Nat, recorded_monotonic_s : Nat, at : Int]
Acknowledgement == [snapshot : Nat, run : Nat, now : Nat]

RecorderTypeOK ==
    /\ mono \in Nat /\ wall \in Nat /\ steps \in Nat
    /\ runs \in Nat /\ now \in Nat /\ next \in Nat /\ count \in Nat
    /\ pc \in {"down", "idle", "record"}
    /\ lines \in Seq(LineSet)
    /\ tail \in Seq(LineSet) /\ Len(tail) <= 1
    /\ pending \in Seq(LineSet) /\ Len(pending) <= 1
    /\ acked \in Seq(Acknowledgement)
    /\ pc # "idle" => pending = <<>>

\* In the run there is, the next sample is due a period after each one taken.
PeriodKept ==
    /\ \A a \in DOMAIN acked :
          /\ acked[a].run <= runs
          /\ acked[a].run = runs /\ pc # "down" => acked[a].now + Period <= next
    /\ pc = "record" => next <= now

\* One line was recorded before another: a later snapshot, and between two lines the
\* steady clock does not advance by more than the time that passes.
Follows(a, b) ==
    /\ a.snapshot < b.snapshot
    /\ b.recorded_monotonic_s - a.recorded_monotonic_s <= b.at - a.at

\* The same of a line and what is recorded after n snapshots, at time m of the steady
\* clock, when time t has passed.
PastAt(a, n, m, t) ==
    /\ a.snapshot <= n
    /\ m - a.recorded_monotonic_s <= t - a.at

\* The lines of the file that are records are in the order of recording.
FileInOrder ==
    /\ \A k, l \in DOMAIN lines :
          k < l /\ WellFormed(lines[k]) /\ WellFormed(lines[l])
             => Follows(lines[k], lines[l])
    /\ \A k \in DOMAIN lines :
          tail # <<>> /\ WellFormed(lines[k]) /\ WellFormed(tail[1])
             => Follows(lines[k], tail[1])

\* They are in the past; a line that is left in the buffer is later than those in the
\* file, unless a part of it is there already.
FilePast ==
    /\ \A k \in DOMAIN lines : WellFormed(lines[k]) => PastAt(lines[k], count, mono, Elapsed)
    /\ tail # <<>> /\ WellFormed(tail[1]) => PastAt(tail[1], count, mono, Elapsed)
    /\ pending # <<>> =>
          /\ WellFormed(pending[1]) /\ PastAt(pending[1], count, mono, Elapsed)
          /\ tail = <<>> =>
                \A k \in DOMAIN lines : WellFormed(lines[k]) => Follows(lines[k], pending[1])

\* A line is acknowledged when its newline is in the file, and spoils the file when it
\* is put after a part of another one.
AckedIsThere ==
    (\A k \in DOMAIN lines : WellFormed(lines[k])) =>
        \A a \in DOMAIN acked : \E k \in DOMAIN lines : lines[k].snapshot = acked[a].snapshot

RecorderInv ==
    /\ RecorderTypeOK
    /\ PeriodKept
    /\ NeverFasterThanPeriod
    /\ FileInOrder
    /\ rpc = "start" => FilePast
    /\ AckedIsThere
    /\ rpc # "start" => acked = <<>> /\ pc = "down"

-----------------------------------------------------------------------------
(* The inductive invariant: the replay                                     *)

\* What was read: one sample for each line, as it was recorded.
LoadedOK ==
    /\ samples \in Seq({samples[k] : k \in DOMAIN samples})
    /\ DOMAIN recording = DOMAIN samples
    /\ \A k \in DOMAIN recording :
          recording[k].line \in LineSet /\ recording[k].given \in Given
    /\ \A k, l \in DOMAIN recording : k < l => Follows(recording[k].line, recording[l].line)
    /\ RestoredAsRecorded

Ordered(n) ==
    \A k, l \in DOMAIN samples :
        k < l /\ l < n => samples[k].recorded_at <= samples[l].recorded_at

PacedOK ==
    /\ i \in Nat /\ i >= 1
    /\ rpc \in {"start", "open"} => samples = <<>> /\ recording = <<>>
    /\ rpc \in {"start", "open", "loaded"} => i = 1
    /\ rpc \in {"loaded", "pace"} => Ordered(i) /\ i <= Len(samples) + 1
    /\ rpc \in {"evaluate", "done"} => Ordered(Len(samples) + 1)
    /\ rpc \notin {"evaluate", "done"} =>
          evaluated = <<>> /\ unhealthySince = [s \in {} |-> 0] /\ unhealthySensors = {}

\* A snapshot that shows a sensor bad, by a status known to be fresh.
Bad(k, s) ==
    /\ s \in recording[k].given.faulty
    /\ ~recording[k].older
    /\ recording[k].given.age <= DataTimeout

\* The start of a fault is the time of a sample from which on all show it.
SinceIsConfirmed ==
    rpc = "evaluate" =>
        /\ DOMAIN evaluated = 1..(i - 1)
        /\ evaluated \in Seq({evaluated[k] : k \in DOMAIN evaluated})
        /\ i <= Len(samples) + 1
        /\ \A s \in DOMAIN unhealthySince : \E j \in 1..(i - 1) :
              /\ unhealthySince[s] = recording[j].line.recorded_monotonic_s
              /\ \A m \in j..(i - 1) : Bad(m, s)

IInv == RecorderInv /\ LoadedOK /\ PacedOK /\ SinceIsConfirmed /\ RaisedIsConfirmed

-----------------------------------------------------------------------------
(* The steps, with and without a display                                   *)

Step == Next \/ Construct \/ Start \/ UNCHANGED vars

LEMMA Steps == ([Next]_vars => Step) /\ ([DisplayNext]_displayAndVars => Step)
BY DEF Step, DisplayNext, Advance, displayAndVars

\* The recorder only runs before the recording is opened.
LEMMA RecorderStops ==
    ASSUME Step
    PROVE  \/ RecorderNext /\ rpc = "start" /\ UNCHANGED replayVars
           \/ OpenRecording
           \/ Load
           \/ UNCHANGED recorderVars /\ (rpc' = "start" <=> rpc = "start")
BY DEF Step, Next, Replay, Construct, Start, Pace, ReturnSamples, EvaluateSample, Finish,
   replayVars, vars

-----------------------------------------------------------------------------
(* Types of the recorder                                                   *)

LEMMA LineType ==
    ASSUME RecorderTypeOK
    PROVE  /\ Malformed \in LineSet
           /\ Line \in LineSet /\ Line # Malformed
           /\ Line.snapshot = count + 1
           /\ Line.recorded_monotonic_s = mono /\ Line.at = Elapsed
           /\ Elapsed \in Int
<1>1. Elapsed \in Int
  BY RecorderAssumption DEF RecorderTypeOK, Elapsed
<1>2. Line.snapshot = count + 1 /\ Line.recorded_monotonic_s = mono /\ Line.at = Elapsed
  BY DEF Line
<1>3. Malformed.snapshot = 0 /\ count \in Nat
  BY DEF Malformed, RecorderTypeOK
<1>4. Line # Malformed
  BY <1>2, <1>3
<1>5. Malformed \in LineSet
  BY DEF Malformed, LineSet
<1>6. Line \in LineSet
  BY <1>1 DEF Line, LineSet, RecorderTypeOK
<1> QED
  BY <1>1, <1>2, <1>4, <1>5, <1>6

\* A sequence of at most one line.
LEMMA OneLine ==
    ASSUME NEW l \in LineSet
    PROVE  /\ <<>> \in Seq(LineSet) /\ Len(<<>>) <= 1
           /\ <<l>> \in Seq(LineSet) /\ Len(<<l>>) <= 1 /\ <<l>> # <<>> /\ <<l>>[1] = l
<1>1. <<l>> \in Seq(LineSet) /\ Len(<<l>>) = 1 /\ <<l>>[1] = l
  OBVIOUS
<1>2. <<>> \in Seq(LineSet) /\ Len(<<>>) = 0
  BY EmptySeq
<1> QED
  BY <1>1, <1>2

\* What writing makes of the file.
LEMMA Put ==
    ASSUME RecorderTypeOK, NEW l \in LineSet, WriteAll(l) \/ WritePart(l)
    PROVE  /\ Joined(l) \in LineSet
           /\ \/ lines' = Append(lines, Joined(l)) /\ tail' = <<>>
              \/ UNCHANGED <<lines, tail>>
              \/ UNCHANGED lines /\ tail' = <<Malformed>>
              \/ UNCHANGED lines /\ tail' = <<Joined(l)>>
           /\ lines' \in Seq(LineSet) /\ tail' \in Seq(LineSet) /\ Len(tail') <= 1
<1>1. Joined(l) \in LineSet /\ Malformed \in LineSet
  BY LineType DEF Joined
<1>2. \/ lines' = Append(lines, Joined(l)) /\ tail' = <<>>
      \/ UNCHANGED <<lines, tail>>
      \/ UNCHANGED lines /\ tail' = <<Malformed>>
      \/ UNCHANGED lines /\ tail' = <<Joined(l)>>
  BY DEF WriteAll, WritePart
<1>3. lines \in Seq(LineSet) /\ tail \in Seq(LineSet) /\ Len(tail) <= 1
  BY DEF RecorderTypeOK
<1>4. /\ <<>> \in Seq(LineSet) /\ Len(<<>>) <= 1
      /\ <<Malformed>> \in Seq(LineSet) /\ Len(<<Malformed>>) <= 1
      /\ <<Joined(l)>> \in Seq(LineSet) /\ Len(<<Joined(l)>>) <= 1
  BY <1>1, OneLine
<1>5. Append(lines, Joined(l)) \in Seq(LineSet)
  BY <1>1, <1>3
<1> QED
  BY <1>1, <1>2, <1>3, <1>4, <1>5

LEMMA RecorderTypeNext == RecorderTypeOK /\ Step => RecorderTypeOK'
<1> SUFFICES ASSUME RecorderTypeOK, Step PROVE RecorderTypeOK'
  OBVIOUS
<1> USE DEF RecorderTypeOK, clocks, file, stream
<1>0. /\ Line \in LineSet
      /\ <<>> \in Seq(LineSet) /\ Len(<<>>) <= 1
      /\ <<Line>> \in Seq(LineSet) /\ Len(<<Line>>) <= 1
  BY LineType, OneLine
<1>1. CASE UNCHANGED recorderVars
  BY <1>1 DEF recorderVars
<1>2. CASE OpenRecording
  <2>1. <<>> \in Seq(Acknowledgement)
    OBVIOUS
  <2> QED
    BY <1>2, <2>1, RecorderAssumption DEF OpenRecording
<1>3. CASE Load
  BY <1>0, <1>3 DEF Load
<1>4. CASE Open \/ TestDue \/ RejectNonFinite \/ Reboot
  <2>1. CASE Open
    BY <1>0, <2>1 DEF Open
  <2>2. CASE TestDue
    BY <2>2 DEF TestDue
  <2>3. CASE RejectNonFinite
    BY <2>3 DEF RejectNonFinite
  <2>4. CASE Reboot
    BY <2>4 DEF Reboot
  <2> QED
    BY <1>4, <2>1, <2>2, <2>3, <2>4
<1>5. CASE Record
  <2>1. /\ Joined(Line) \in LineSet
        /\ lines' \in Seq(LineSet) /\ tail' \in Seq(LineSet) /\ Len(tail') <= 1
    BY <1>0, <1>5, Put DEF Record
  <2>2. next' \in Nat
    BY <1>5, RecorderAssumption DEF Record, FollowingTime
  <2>3. acked' \in Seq(Acknowledgement)
    <3>1. [snapshot |-> Line.snapshot, run |-> runs, now |-> now] \in Acknowledgement
      BY LineType DEF Acknowledgement
    <3> QED
      BY <1>5, <3>1 DEF Record
  <2> QED
    BY <1>5, <2>1, <2>2, <2>3 DEF Record
<1>6. CASE RecordFails
  <2>1. lines' \in Seq(LineSet) /\ tail' \in Seq(LineSet) /\ Len(tail') <= 1
    BY <1>0, <1>6, Put DEF RecordFails
  <2> QED
    BY <1>0, <1>6, <2>1 DEF RecordFails
<1>7. CASE Close
  <2>1. lines' \in Seq(LineSet) /\ tail' \in Seq(LineSet) /\ Len(tail') <= 1
    <3>1. CASE pending = <<>>
      BY <1>7, <3>1 DEF Close
    <3>2. CASE pending # <<>>
      <4>1. pending[1] \in LineSet
        BY <3>2, EmptySeq
      <4> QED
        BY <1>7, <3>2, <4>1, Put DEF Close
    <3> QED
      BY <3>1, <3>2
  <2> QED
    BY <1>0, <1>7, <2>1 DEF Close
<1>8. CASE Kill
  <2>1. lines' \in Seq(LineSet) /\ tail' \in Seq(LineSet) /\ Len(tail') <= 1 /\ count' \in Nat
    BY <1>0, <1>8, Put DEF Kill
  <2> QED
    BY <1>0, <1>8, <2>1 DEF Kill
<1>9. CASE Tick \/ SetBack
  <2>a. mono \in Nat /\ wall \in Nat /\ steps \in Nat
    OBVIOUS
  <2>b. \/ mono' = mono + 1 /\ wall' = wall + 1 /\ steps' = steps
        \/ mono' = mono /\ wall > 0 /\ wall' = wall - 1 /\ steps' = steps + 1
    BY <1>9 DEF Tick, SetBack
  <2> HIDE DEF RecorderTypeOK
  <2>1. mono' \in Nat /\ wall' \in Nat /\ steps' \in Nat
    BY <2>a, <2>b
  <2>2. UNCHANGED <<file, runs, pc, stream, count, acked>>
    BY <1>9 DEF Tick, SetBack
  <2> QED
    BY <2>1, <2>2 DEF RecorderTypeOK
<1> QED
  BY <1>1, <1>2, <1>3, <1>4, <1>5, <1>6, <1>7, <1>8, <1>9, RecorderStops DEF RecorderNext

-----------------------------------------------------------------------------
(* The sample period                                                       *)

LEMMA AckedType ==
    ASSUME RecorderTypeOK
    PROVE  /\ acked \in Seq(Acknowledgement)
           /\ \A a \in DOMAIN acked : acked[a].run \in Nat /\ acked[a].now \in Nat
<1>1. acked \in Seq(Acknowledgement)
  BY DEF RecorderTypeOK
<1>2. \A a \in DOMAIN acked : acked[a] \in Acknowledgement
  BY <1>1
<1>3. \A e \in Acknowledgement : e.run \in Nat /\ e.now \in Nat
  BY DEF Acknowledgement
<1> QED
  BY <1>1, <1>2, <1>3

\* When nothing is acknowledged, the schedule and the program's runs matter.
LEMMA PeriodKeeps ==
    ASSUME RecorderTypeOK, PeriodKept, UNCHANGED acked, runs' = runs, next' = next,
           pc' = "record" => next' <= now', pc' = "down" \/ pc # "down"
    PROVE  PeriodKept'
BY DEF PeriodKept

LEMMA PeriodNext == RecorderTypeOK /\ PeriodKept /\ Step => PeriodKept'
<1> SUFFICES ASSUME RecorderTypeOK, PeriodKept, Step PROVE PeriodKept'
  OBVIOUS
<1> USE DEF clocks, file, stream
<1>0. /\ runs \in Nat /\ next \in Nat /\ now \in Nat /\ mono \in Nat
      /\ acked \in Seq(Acknowledgement)
      /\ \A a \in DOMAIN acked : acked[a].run \in Nat /\ acked[a].now \in Nat
  BY AckedType DEF RecorderTypeOK
<1>1. CASE UNCHANGED recorderVars
  BY <1>1 DEF recorderVars, PeriodKept
<1>2. CASE OpenRecording
  BY <1>2 DEF OpenRecording, PeriodKept
<1>3. CASE Load
  BY <1>3, PeriodKeeps DEF Load, PeriodKept
<1>4. CASE Open
  <2>1. runs' = runs + 1 /\ UNCHANGED acked /\ pc' = "idle"
    BY <1>4 DEF Open
  <2> QED
    BY <1>0, <2>1 DEF PeriodKept
<1>5. CASE TestDue
  BY <1>5, PeriodKeeps DEF TestDue
<1>6. CASE Record
  <2>1. /\ next <= now /\ next' = now + Period /\ UNCHANGED runs /\ pc # "down" /\ pc' = "idle"
        /\ acked' = Append(acked, [snapshot |-> Line.snapshot, run |-> runs, now |-> now])
    BY <1>6 DEF Record, FollowingTime, PeriodKept
  <2>2. PICK n \in Nat : n = Len(acked)
    BY <1>0
  <2>3. [snapshot |-> Line.snapshot, run |-> runs, now |-> now] \in Acknowledgement
    BY <1>0, LineType DEF Acknowledgement, RecorderTypeOK
  <2>4. /\ DOMAIN acked = 1..n /\ DOMAIN acked' = 1..(n + 1)
        /\ \A a \in 1..n : acked'[a] = acked[a]
        /\ acked'[n + 1].run = runs /\ acked'[n + 1].now = now
    BY <1>0, <2>1, <2>2, <2>3, AppendProperties
  <2>5. ASSUME NEW a \in 1..(n + 1)
        PROVE  /\ acked'[a].run <= runs
               /\ acked'[a].run = runs => acked'[a].now + Period <= now + Period
    <3>1. CASE a = n + 1
      BY <1>0, <2>4, <3>1, RecorderAssumption
    <3>2. CASE a \in 1..n
      <4>1. acked[a].run <= runs /\ (acked[a].run = runs => acked[a].now + Period <= next)
        BY <2>1, <2>4, <3>2 DEF PeriodKept
      <4>2. Period \in Nat /\ acked[a].now \in Nat
        BY <1>0, <2>4, <3>2, RecorderAssumption
      <4>3. acked[a].now + Period <= next => acked[a].now + Period <= now + Period
        BY <1>0, <2>1, <4>2
      <4> QED
        BY <2>4, <3>2, <4>1, <4>3
    <3> QED
      BY <3>1, <3>2
  <2> QED
    BY <2>1, <2>4, <2>5 DEF PeriodKept
<1>7. CASE RejectNonFinite \/ RecordFails \/ Close \/ Kill
  BY <1>7, PeriodKeeps DEF RejectNonFinite, RecordFails, Close, Kill
<1>8. CASE Tick \/ SetBack \/ Reboot
  BY <1>8, PeriodKeeps DEF Tick, SetBack, Reboot, PeriodKept
<1> QED
  BY <1>1, <1>2, <1>3, <1>4, <1>5, <1>6, <1>7, <1>8, RecorderStops DEF RecorderNext

\* Only Record acknowledges a line.
LEMMA Acknowledges ==
    ASSUME Step
    PROVE  Record \/ UNCHANGED acked \/ acked' = <<>>
BY RecorderStops DEF RecorderNext, Open, TestDue, RejectNonFinite, RecordFails, Close, Kill,
   Tick, SetBack, Reboot, OpenRecording, Load, recorderVars

LEMMA NeverFasterNext ==
    RecorderTypeOK /\ PeriodKept /\ NeverFasterThanPeriod /\ Step => NeverFasterThanPeriod'
<1> SUFFICES ASSUME RecorderTypeOK, PeriodKept, NeverFasterThanPeriod, Step
             PROVE  NeverFasterThanPeriod'
  OBVIOUS
<1>0. /\ next \in Nat /\ now \in Nat /\ acked \in Seq(Acknowledgement) /\ Period \in Nat
      /\ \A a \in DOMAIN acked : acked[a].now \in Nat
  BY RecorderAssumption, AckedType DEF RecorderTypeOK
<1>1. CASE UNCHANGED acked \/ acked' = <<>>
  BY <1>1 DEF NeverFasterThanPeriod
<1>2. CASE Record
  <2>1. /\ next <= now /\ pc # "down"
        /\ acked' = Append(acked, [snapshot |-> Line.snapshot, run |-> runs, now |-> now])
    BY <1>2 DEF Record, PeriodKept
  <2>2. PICK n \in Nat : n = Len(acked)
    BY <1>0
  <2>3. [snapshot |-> Line.snapshot, run |-> runs, now |-> now] \in Acknowledgement
    BY <1>0, LineType DEF Acknowledgement, RecorderTypeOK
  <2>4. /\ DOMAIN acked = 1..n /\ DOMAIN acked' = 1..(n + 1)
        /\ \A a \in 1..n : acked'[a] = acked[a]
        /\ acked'[n + 1].run = runs /\ acked'[n + 1].now = now
    BY <1>0, <2>1, <2>2, <2>3, AppendProperties
  <2>5. ASSUME NEW k \in 1..n, acked[k].run = runs PROVE now - acked[k].now >= Period
    <3>1. acked[k].now + Period <= next
      BY <2>1, <2>4, <2>5 DEF PeriodKept
    <3>2. acked[k].now \in Nat
      BY <1>0, <2>4
    <3> QED
      BY <1>0, <2>1, <3>1, <3>2
  <2>6. ASSUME NEW k \in 1..(n + 1), NEW l \in 1..(n + 1), k < l, acked'[k].run = acked'[l].run
        PROVE  acked'[l].now - acked'[k].now >= Period
    <3>1. k \in 1..n
      BY <2>6
    <3>2. CASE l \in 1..n
      BY <2>4, <2>6, <3>1, <3>2 DEF NeverFasterThanPeriod
    <3>3. CASE l = n + 1
      BY <2>4, <2>5, <2>6, <3>1, <3>3
    <3> QED
      BY <3>2, <3>3
  <2> QED
    BY <2>4, <2>6 DEF NeverFasterThanPeriod
<1> QED
  BY <1>1, <1>2, Acknowledges

-----------------------------------------------------------------------------
(* The file                                                                *)

\* Where a line on the file comes from after a write, and that its place is right.
LEMMA PutInOrder ==
    ASSUME RecorderTypeOK, FileInOrder, NEW l \in LineSet, WriteAll(l) \/ WritePart(l),
           tail = <<>> =>
              \A k \in DOMAIN lines : WellFormed(lines[k]) => Follows(lines[k], l)
    PROVE  /\ FileInOrder'
           /\ \A k \in DOMAIN lines' :
                 \/ ~WellFormed(lines'[k])
                 \/ k \in DOMAIN lines /\ lines'[k] = lines[k]
                 \/ lines'[k] = l
           /\ \/ tail' = <<>> \/ ~WellFormed(tail'[1])
              \/ tail' = tail
              \/ tail'[1] = l
<1>0. lines \in Seq(LineSet) /\ Joined(l) \in LineSet
  BY Put DEF RecorderTypeOK
<1>1. WellFormed(Joined(l)) => tail = <<>> /\ Joined(l) = l
  BY DEF WellFormed, Joined
<1>2. CASE lines' = Append(lines, Joined(l)) /\ tail' = <<>>
  <2>1. PICK n \in Nat : n = Len(lines)
    BY <1>0
  <2>2. /\ DOMAIN lines = 1..n /\ DOMAIN lines' = 1..(n + 1)
        /\ \A k \in 1..n : lines'[k] = lines[k]
        /\ lines'[n + 1] = Joined(l)
    BY <1>0, <1>2, <2>1, AppendProperties
  <2>3. ASSUME NEW k \in 1..(n + 1), NEW m \in 1..(n + 1), k < m,
               WellFormed(lines'[k]), WellFormed(lines'[m])
        PROVE  Follows(lines'[k], lines'[m])
    <3>1. k \in 1..n /\ lines'[k] = lines[k]
      BY <2>2, <2>3
    <3>2. CASE m \in 1..n
      BY <2>2, <2>3, <3>1, <3>2 DEF FileInOrder
    <3>3. CASE m = n + 1
      BY <1>1, <2>2, <2>3, <3>1, <3>3
    <3> QED
      BY <3>2, <3>3
  <2>4. FileInOrder'
    BY <1>2, <2>2, <2>3 DEF FileInOrder, WellFormed, Follows, Malformed
  <2>5. \A k \in 1..(n + 1) : k \in 1..n \/ k = n + 1
    OBVIOUS
  <2> QED
    BY <1>1, <1>2, <2>2, <2>4, <2>5
<1>3. CASE UNCHANGED <<lines, tail>>
  BY <1>3 DEF FileInOrder, WellFormed, Follows, Malformed
<1>4. CASE UNCHANGED lines /\ tail' = <<Malformed>>
  <2>1. ~WellFormed(tail'[1]) /\ tail' # <<>>
    BY <1>4, LineType, OneLine DEF WellFormed
  <2> QED
    BY <1>4, <2>1 DEF FileInOrder, WellFormed, Follows, Malformed
<1>5. CASE UNCHANGED lines /\ tail' = <<Joined(l)>>
  <2>1. tail'[1] = Joined(l) /\ tail' # <<>>
    BY <1>0, <1>5, OneLine
  <2>2. ASSUME NEW k \in DOMAIN lines, WellFormed(lines[k]), WellFormed(tail'[1])
        PROVE  Follows(lines[k], tail'[1])
    BY <1>1, <2>1, <2>2
  <2> QED
    BY <1>1, <1>5, <2>1, <2>2 DEF FileInOrder, WellFormed, Follows, Malformed
<1> QED
  BY <1>2, <1>3, <1>4, <1>5, Put

\* A line that follows everything on the file: the one that is recorded now.
LEMMA LineFollows ==
    ASSUME RecorderTypeOK, FilePast
    PROVE  \A k \in DOMAIN lines : WellFormed(lines[k]) => Follows(lines[k], Line)
<1> SUFFICES ASSUME NEW k \in DOMAIN lines, WellFormed(lines[k])
             PROVE  Follows(lines[k], Line)
  OBVIOUS
<1>1. PastAt(lines[k], count, mono, Elapsed) /\ lines[k] \in LineSet
  BY DEF FilePast, RecorderTypeOK
<1>2. /\ lines[k].snapshot \in Nat /\ lines[k].recorded_monotonic_s \in Nat
      /\ lines[k].at \in Int
  BY <1>1 DEF LineSet
<1>3. count \in Nat /\ mono \in Nat
  BY DEF RecorderTypeOK
<1>4. /\ Line.snapshot = count + 1 /\ Line.recorded_monotonic_s = mono
      /\ Line.at = Elapsed /\ Elapsed \in Int
  BY LineType
<1>5. lines[k].snapshot <= count /\ mono - lines[k].recorded_monotonic_s <= Elapsed - lines[k].at
  BY <1>1 DEF PastAt
<1>6. lines[k].snapshot < count + 1
  BY <1>2, <1>3, <1>5
<1> QED
  BY <1>4, <1>5, <1>6 DEF Follows

\* Which steps write, and what.
LEMMA Writes ==
    ASSUME RecorderTypeOK, Step, rpc = "start" => FilePast
    PROVE  \/ /\ rpc = "start"
              /\ \E l \in LineSet :
                    /\ WellFormed(l)
                    /\ WriteAll(l) \/ WritePart(l)
                    /\ tail = <<>> =>
                          \A k \in DOMAIN lines : WellFormed(lines[k]) => Follows(lines[k], l)
           \/ UNCHANGED <<lines, tail>>
           \/ Load /\ lines' = <<>> /\ tail' = <<>>
<1> USE DEF file, stream
<1>1. CASE OpenRecording \/ UNCHANGED recorderVars
  BY <1>1 DEF OpenRecording, recorderVars
<1>2. CASE Load
  BY <1>2 DEF Load
<1>3. CASE RecorderNext /\ rpc = "start"
  <2>0. FilePast
    BY <1>3
  <2>1. CASE Open \/ TestDue \/ RejectNonFinite \/ Tick \/ SetBack \/ Reboot
    BY <2>1 DEF Open, TestDue, RejectNonFinite, Tick, SetBack, Reboot
  <2>2. CASE Record \/ RecordFails \/ (Kill /\ pc = "record")
    <3>1. WriteAll(Line) \/ WritePart(Line)
      BY <2>2 DEF Record, RecordFails, Kill
    <3>2. Line \in LineSet /\ WellFormed(Line)
      BY LineType DEF WellFormed
    <3> QED
      BY <1>3, <2>0, <3>1, <3>2, LineFollows
  <2>3. CASE Kill /\ pc # "record"
    BY <2>3 DEF Kill
  <2>4. CASE Close
    <3>1. CASE pending = <<>>
      BY <2>4, <3>1 DEF Close
    <3>2. CASE pending # <<>>
      <4>1. pending[1] \in LineSet
        BY <3>2, EmptySeq DEF RecorderTypeOK
      <4>2. WriteAll(pending[1]) \/ WritePart(pending[1])
        BY <2>4, <3>2 DEF Close
      <4> QED
        BY <1>3, <2>0, <3>2, <4>1, <4>2 DEF FilePast
    <3> QED
      BY <3>1, <3>2
  <2> QED
    BY <1>3, <2>1, <2>2, <2>3, <2>4 DEF RecorderNext
<1> QED
  BY <1>1, <1>2, <1>3, RecorderStops

LEMMA FileNext ==
    RecorderTypeOK /\ FileInOrder /\ (rpc = "start" => FilePast) /\ Step => FileInOrder'
<1> SUFFICES ASSUME RecorderTypeOK, FileInOrder, rpc = "start" => FilePast, Step
             PROVE  FileInOrder'
  OBVIOUS
<1>1. CASE UNCHANGED <<lines, tail>>
  BY <1>1 DEF FileInOrder, WellFormed, Follows, Malformed
<1>2. CASE lines' = <<>> /\ tail' = <<>>
  BY <1>2 DEF FileInOrder
<1> QED
  BY <1>1, <1>2, Writes, PutInOrder

\* The clocks and the lines there are.
LEMMA ClockTypes ==
    /\ RecorderTypeOK => /\ mono \in Nat /\ wall \in Nat /\ steps \in Nat /\ count \in Nat
                         /\ Elapsed \in Int
    /\ RecorderTypeOK' => /\ mono' \in Nat /\ wall' \in Nat /\ steps' \in Nat /\ count' \in Nat
                          /\ Elapsed' \in Int
    /\ WallStart \in Nat /\ Elapsed = wall + steps - WallStart
    /\ Elapsed' = wall' + steps' - WallStart
<1>1. WallStart \in Nat
  BY RecorderAssumption
<1>2. RecorderTypeOK => mono \in Nat /\ wall \in Nat /\ steps \in Nat /\ count \in Nat
  BY DEF RecorderTypeOK
<1>3. RecorderTypeOK' => mono' \in Nat /\ wall' \in Nat /\ steps' \in Nat /\ count' \in Nat
  BY DEF RecorderTypeOK
<1> QED
  BY <1>1, <1>2, <1>3 DEF Elapsed

LEMMA LineTypes ==
    ASSUME RecorderTypeOK
    PROVE  /\ \A k \in DOMAIN lines : lines[k] \in LineSet
           /\ tail # <<>> => tail[1] \in LineSet
           /\ pending # <<>> => pending[1] \in LineSet
<1>1. /\ lines \in Seq(LineSet) /\ tail \in Seq(LineSet) /\ pending \in Seq(LineSet)
  BY DEF RecorderTypeOK
<1> QED
  BY <1>1, EmptySeq

\* Time passes, clocks are set back and restarted, and what is past stays so.
LEMMA PastKeeps ==
    ASSUME RecorderTypeOK, RecorderTypeOK', count <= count',
           mono' - mono <= Elapsed' - Elapsed, NEW x \in LineSet, PastAt(x, count, mono, Elapsed)
    PROVE  PastAt(x, count', mono', Elapsed')
<1>1. /\ count \in Nat /\ count' \in Nat /\ mono \in Nat /\ mono' \in Nat
      /\ Elapsed \in Int /\ Elapsed' \in Int
  BY ClockTypes
<1>2. x.snapshot \in Nat /\ x.recorded_monotonic_s \in Nat /\ x.at \in Int
  BY DEF LineSet
<1>3. x.snapshot <= count /\ mono - x.recorded_monotonic_s <= Elapsed - x.at
  BY DEF PastAt
<1>4. x.snapshot <= count'
  BY <1>1, <1>2, <1>3
<1>5. mono' - x.recorded_monotonic_s <= Elapsed' - x.at
  <2>1. PICK u \in Int, v \in Int : u = x.recorded_monotonic_s /\ v = x.at
    BY <1>2
  <2>2. PICK a \in Int, b \in Int, e \in Int, f \in Int :
           a = mono /\ b = mono' /\ e = Elapsed /\ f = Elapsed'
    BY <1>1
  <2>3. b - a <= f - e
    BY <2>2
  <2>4. a - u <= e - v
    BY <1>3, <2>1, <2>2
  <2>5. b - u <= f - v
    BY <2>3, <2>4
  <2> QED
    BY <2>1, <2>2, <2>5
<1> QED
  BY <1>4, <1>5 DEF PastAt

\* Writing a line that is past once it is written.
LEMMA PutPast ==
    ASSUME RecorderTypeOK, RecorderTypeOK', FileInOrder, FilePast,
           count <= count', UNCHANGED clocks,
           NEW l \in LineSet, WellFormed(l), WriteAll(l) \/ WritePart(l),
           PastAt(l, count', mono', Elapsed'),
           tail = <<>> =>
              \A k \in DOMAIN lines : WellFormed(lines[k]) => Follows(lines[k], l),
           pending' = <<>> \/ (pending' = <<l>> /\ UNCHANGED lines)
    PROVE  FilePast'
<1>1. mono' - mono <= Elapsed' - Elapsed
  BY ClockTypes DEF clocks
<1>2. \A k \in DOMAIN lines : lines[k] \in LineSet
  BY LineTypes
<1>3. ASSUME NEW k \in DOMAIN lines', WellFormed(lines'[k])
      PROVE  PastAt(lines'[k], count', mono', Elapsed')
  <2>1. (k \in DOMAIN lines /\ lines'[k] = lines[k]) \/ lines'[k] = l
    BY <1>3, PutInOrder
  <2>2. CASE lines'[k] = l
    BY <2>2 DEF PastAt
  <2>3. CASE k \in DOMAIN lines /\ lines'[k] = lines[k]
    <3>1. PastAt(lines[k], count, mono, Elapsed) /\ lines[k] \in LineSet
      BY <1>2, <1>3, <2>3 DEF FilePast, WellFormed, Malformed
    <3>2. PICK x \in LineSet : x = lines[k] /\ PastAt(x, count, mono, Elapsed)
      BY <3>1
    <3>3. PastAt(x, count', mono', Elapsed')
      BY <1>1, <3>2, PastKeeps
    <3> QED
      BY <2>3, <3>2, <3>3 DEF PastAt
  <2> QED
    BY <2>1, <2>2, <2>3
<1>4. ASSUME tail' # <<>>, WellFormed(tail'[1]) PROVE PastAt(tail'[1], count', mono', Elapsed')
  <2>1. tail' = tail \/ tail'[1] = l
    BY <1>4, PutInOrder
  <2>2. CASE tail'[1] = l
    BY <2>2 DEF PastAt
  <2>3. CASE tail' = tail
    <3>1. PastAt(tail[1], count, mono, Elapsed) /\ tail[1] \in LineSet
      BY <1>4, <2>3, LineTypes DEF FilePast, WellFormed, Malformed
    <3>2. PICK x \in LineSet : x = tail[1] /\ PastAt(x, count, mono, Elapsed)
      BY <3>1
    <3>3. PastAt(x, count', mono', Elapsed')
      BY <1>1, <3>2, PastKeeps
    <3> QED
      BY <2>3, <3>2, <3>3 DEF PastAt
  <2> QED
    BY <2>1, <2>2, <2>3
<1>5. ASSUME pending' # <<>>
      PROVE  /\ WellFormed(pending'[1]) /\ PastAt(pending'[1], count', mono', Elapsed')
             /\ tail' = <<>> =>
                   \A k \in DOMAIN lines' :
                      WellFormed(lines'[k]) => Follows(lines'[k], pending'[1])
  <2>1. pending'[1] = l /\ UNCHANGED lines
    BY <1>5, OneLine
  <2>2. PastAt(pending'[1], count', mono', Elapsed')
    BY <2>1 DEF PastAt
  <2>3. tail' = <<>> => tail = <<>>
    <3>1. tail' = <<>> => tail' = tail
      <4>1. <<Malformed>> # <<>> /\ <<Joined(l)>> # <<>>
        BY LineType, Put, OneLine
      <4>2. lines' # Append(lines, Joined(l))
        <5>1. Len(Append(lines, Joined(l))) = Len(lines) + 1 /\ Len(lines) \in Nat
          BY Put DEF RecorderTypeOK
        <5> QED
          BY <2>1, <5>1
      <4> QED
        BY <4>1, <4>2, Put
    <3> QED
      BY <3>1
  <2> QED
    BY <2>1, <2>2, <2>3
<1>6. \A x : WellFormed(x)' <=> WellFormed(x)
  BY DEF WellFormed, Malformed
<1> QED
  BY <1>3, <1>4, <1>5 DEF FilePast, WellFormed, Follows, Malformed, PastAt

LEMMA FilePastNext ==
    ASSUME RecorderTypeOK, RecorderTypeOK', FileInOrder, rpc = "start" => FilePast,
           Step, rpc' = "start"
    PROVE  FilePast'
<1> USE DEF file, stream
<1>0. count \in Nat /\ mono \in Nat /\ wall \in Nat /\ steps \in Nat
  BY ClockTypes
<1>1. ASSUME FilePast, UNCHANGED <<lines, tail>>, pending' = pending \/ pending' = <<>>,
             count' = count, mono' - mono <= Elapsed' - Elapsed
      PROVE  FilePast'
  <2>1. count <= count'
    BY <1>0, <1>1
  <2>2. \A x \in LineSet : PastAt(x, count, mono, Elapsed) => PastAt(x, count', mono', Elapsed')
    BY <1>1, <2>1, PastKeeps
  <2>3. \A k \in DOMAIN lines : lines[k] \in LineSet
    BY LineTypes
  <2>4. ASSUME NEW k \in DOMAIN lines', WellFormed(lines'[k])
        PROVE  PastAt(lines'[k], count', mono', Elapsed')
    <3>1. PICK x \in LineSet : x = lines[k] /\ PastAt(x, count, mono, Elapsed)
      BY <1>1, <2>3, <2>4 DEF FilePast, WellFormed, Malformed
    <3>2. PastAt(x, count', mono', Elapsed')
      BY <2>2, <3>1
    <3> QED
      BY <1>1, <3>1, <3>2 DEF PastAt
  <2>5. ASSUME tail' # <<>>, WellFormed(tail'[1])
        PROVE  PastAt(tail'[1], count', mono', Elapsed')
    <3>1. PICK x \in LineSet : x = tail[1] /\ PastAt(x, count, mono, Elapsed)
      BY <1>1, <2>5, LineTypes DEF FilePast, WellFormed, Malformed
    <3>2. PastAt(x, count', mono', Elapsed')
      BY <2>2, <3>1
    <3> QED
      BY <1>1, <3>1, <3>2 DEF PastAt
  <2>6. ASSUME pending' # <<>> PROVE PastAt(pending'[1], count', mono', Elapsed')
    <3>1. PICK x \in LineSet : x = pending[1] /\ PastAt(x, count, mono, Elapsed)
      BY <1>1, <2>6, LineTypes DEF FilePast
    <3>2. PastAt(x, count', mono', Elapsed')
      BY <2>2, <3>1
    <3> QED
      BY <1>1, <2>6, <3>1, <3>2 DEF PastAt
  <2> QED
    BY <1>1, <2>4, <2>5, <2>6 DEF FilePast, WellFormed, Follows, Malformed, PastAt
<1>2. CASE UNCHANGED recorderVars /\ rpc = "start"
  <2>1. mono' - mono <= Elapsed' - Elapsed
    BY <1>2, ClockTypes DEF recorderVars, clocks
  <2> QED
    BY <1>1, <1>2, <2>1 DEF recorderVars
<1>3. CASE OpenRecording \/ Load
  BY <1>3 DEF OpenRecording, Load
<1>4. CASE RecorderNext /\ rpc = "start"
  <2>0. FilePast
    BY <1>4
  <2>1. CASE UNCHANGED clocks
    <3>0. mono' - mono <= Elapsed' - Elapsed
      BY <2>1, ClockTypes DEF clocks
    <3>1. CASE Open \/ TestDue \/ RejectNonFinite \/ (Kill /\ pc # "record")
                 \/ (Close /\ pending = <<>>)
      BY <1>1, <2>0, <3>0, <3>1 DEF Open, TestDue, RejectNonFinite, Kill, Close
    <3>2. CASE Record \/ RecordFails \/ (Kill /\ pc = "record")
      <4>1. /\ WriteAll(Line) \/ WritePart(Line)
            /\ count' = count + 1
            /\ pending' = pending \/ pending' = <<>> \/ (pending' = <<Line>> /\ UNCHANGED lines)
            /\ pc = "record"
        BY <3>2 DEF Record, RecordFails, Kill, WritePart
      <4>2. pending = <<>>
        BY <4>1 DEF RecorderTypeOK
      <4>3. PICK l \in LineSet : l = Line /\ WellFormed(l)
        BY LineType DEF WellFormed
      <4>4. PastAt(l, count', mono', Elapsed')
        <5>1. /\ l.snapshot = count + 1 /\ l.recorded_monotonic_s = mono
              /\ l.at = Elapsed /\ Elapsed \in Int
          BY <4>3, LineType
        <5>2. Elapsed' = Elapsed /\ mono' = mono
          BY <2>1 DEF clocks, Elapsed
        <5> QED
          BY <1>0, <4>1, <5>1, <5>2 DEF PastAt
      <4>5. \A k \in DOMAIN lines : WellFormed(lines[k]) => Follows(lines[k], l)
        BY <2>0, <4>3, LineFollows
      <4>6. count <= count'
        BY <1>0, <4>1
      <4>7. WriteAll(l) \/ WritePart(l)
        BY <4>1, <4>3
      <4>8. pending' = <<>> \/ (pending' = <<l>> /\ UNCHANGED lines)
        BY <4>1, <4>2, <4>3
      <4> QED
        BY <2>0, <2>1, <4>3, <4>4, <4>5, <4>6, <4>7, <4>8, PutPast
    <3>3. CASE Close /\ pending # <<>>
      <4>1. PICK l \in LineSet : l = pending[1]
        BY <3>3, LineTypes
      <4>2. /\ WellFormed(l) /\ PastAt(l, count, mono, Elapsed)
            /\ tail = <<>> =>
                  \A k \in DOMAIN lines : WellFormed(lines[k]) => Follows(lines[k], l)
        BY <2>0, <3>3, <4>1 DEF FilePast
      <4>3. (WriteAll(l) \/ WritePart(l)) /\ pending' = <<>> /\ count' = count
        BY <3>3, <4>1 DEF Close
      <4>4. count <= count'
        BY <1>0, <4>3
      <4>5. PastAt(l, count', mono', Elapsed')
        BY <3>0, <4>2, <4>4, PastKeeps
      <4> QED
        BY <2>0, <2>1, <4>2, <4>3, <4>4, <4>5, PutPast
    <3>4. CASE Tick \/ SetBack \/ Reboot
      BY <1>1, <2>0, <3>0, <3>4 DEF Tick, SetBack, Reboot
    <3> QED
      BY <1>4, <3>1, <3>2, <3>3, <3>4 DEF RecorderNext
  <2>2. CASE Tick \/ SetBack \/ Reboot
    <3>1. mono' - mono <= Elapsed' - Elapsed
      <4>1. WallStart \in Nat /\ mono' \in Nat
        BY ClockTypes
      <4>2. \/ mono' = mono + 1 /\ wall' = wall + 1 /\ steps' = steps
            \/ mono' = mono /\ wall' = wall - 1 /\ steps' = steps + 1
            \/ mono' = 0 /\ wall' = wall /\ steps' = steps
        BY <2>2 DEF Tick, SetBack, Reboot
      <4> QED
        BY <1>0, <4>1, <4>2, ClockTypes
    <3>2. UNCHANGED <<lines, tail, pending, count>>
      BY <2>2 DEF Tick, SetBack, Reboot
    <3> QED
      BY <1>1, <2>0, <3>1, <3>2
  <2>3. Tick \/ SetBack \/ Reboot \/ UNCHANGED clocks
    BY <1>4 DEF RecorderNext, Open, TestDue, Record, RejectNonFinite, RecordFails, Close, Kill
  <2> QED
    BY <2>1, <2>2, <2>3
<1> QED
  BY <1>2, <1>3, <1>4, RecorderStops

LEMMA AckedNext ==
    RecorderInv /\ Step => AckedIsThere'
<1> SUFFICES ASSUME RecorderInv, Step, \A k \in DOMAIN lines' : WellFormed(lines'[k]),
                    NEW a \in DOMAIN acked'
             PROVE  \E k \in DOMAIN lines' : lines'[k].snapshot = acked'[a].snapshot
  BY DEF AckedIsThere, WellFormed, Malformed
<1>0. /\ RecorderTypeOK /\ AckedIsThere /\ (rpc = "start" => FilePast)
      /\ lines \in Seq(LineSet) /\ acked \in Seq(Acknowledgement)
  BY DEF RecorderInv, RecorderTypeOK
<1>1. ASSUME NEW l \in LineSet, lines' = Append(lines, l)
      PROVE  /\ \A k \in DOMAIN lines : k \in DOMAIN lines' /\ lines'[k] = lines[k]
             /\ \A k \in DOMAIN lines : WellFormed(lines[k])
             /\ \E k \in DOMAIN lines' : lines'[k] = l
  <2>1. /\ \A k \in DOMAIN lines : k \in DOMAIN lines' /\ lines'[k] = lines[k]
        /\ Len(lines) + 1 \in DOMAIN lines' /\ lines'[Len(lines) + 1] = l
    BY <1>0, <1>1, AppendProperties
  <2> QED
    BY <2>1 DEF WellFormed, Malformed
<1>2. CASE UNCHANGED <<lines, acked>>
  BY <1>0, <1>2 DEF AckedIsThere, WellFormed, Malformed
<1>3. CASE Record
  <2>1. /\ lines' = Append(lines, Joined(Line))
        /\ acked' = Append(acked, [snapshot |-> Line.snapshot, run |-> runs, now |-> now])
    BY <1>3 DEF Record, WriteAll
  <2>2. Joined(Line) \in LineSet
    BY <1>0, LineType DEF Joined
  <2>3. PICK k \in DOMAIN lines' : lines'[k] = Joined(Line)
    BY <1>1, <2>1, <2>2
  <2>4. Joined(Line) = Line
    BY <2>3 DEF WellFormed, Joined
  <2>5. [snapshot |-> Line.snapshot, run |-> runs, now |-> now] \in Acknowledgement
    <3>1. runs \in Nat /\ now \in Nat /\ count \in Nat /\ Line.snapshot = count + 1
      BY <1>0, LineType DEF RecorderTypeOK
    <3>2. Line.snapshot \in Nat
      BY <3>1
    <3> QED
      BY <3>1, <3>2 DEF Acknowledgement
  <2>6. PICK n \in Nat : n = Len(acked)
    BY <1>0
  <2>7. /\ DOMAIN acked = 1..n /\ DOMAIN acked' = 1..(n + 1)
        /\ \A b \in 1..n : acked'[b] = acked[b]
        /\ acked'[n + 1].snapshot = Line.snapshot
    BY <1>0, <2>1, <2>5, <2>6, AppendProperties
  <2>8. CASE a = n + 1
    BY <2>3, <2>4, <2>7, <2>8
  <2>9. CASE a \in 1..n
    <3>1. PICK m \in DOMAIN lines : lines[m].snapshot = acked[a].snapshot
      BY <1>0, <1>1, <2>1, <2>2, <2>7, <2>9 DEF AckedIsThere
    <3> QED
      BY <1>1, <2>1, <2>2, <2>7, <2>9, <3>1
  <2> QED
    BY <2>7, <2>8, <2>9
<1>4. CASE UNCHANGED acked /\ \E l \in LineSet : lines' = Append(lines, l)
  <2>1. PICK l \in LineSet : lines' = Append(lines, l)
    BY <1>4
  <2>2. PICK m \in DOMAIN lines : lines[m].snapshot = acked[a].snapshot
    BY <1>0, <1>1, <1>4, <2>1 DEF AckedIsThere
  <2> QED
    BY <1>1, <1>4, <2>1, <2>2
<1>5. CASE acked' = <<>>
  BY <1>5, EmptySeq
<1>6. CASE Load
  <2>1. acked = <<>> /\ UNCHANGED acked
    BY <1>6 DEF Load, RecorderInv
  <2> QED
    BY <1>5, <2>1
<1>7. UNCHANGED lines \/ Load \/ \E l \in LineSet : lines' = Append(lines, l)
  BY <1>0, Writes, Put
<1> QED
  BY <1>2, <1>3, <1>4, <1>5, <1>6, <1>7, Acknowledges

LEMMA RecorderNextInv == RecorderInv /\ Step => RecorderInv'
<1> SUFFICES ASSUME RecorderInv, Step PROVE RecorderInv'
  OBVIOUS
<1> USE DEF RecorderInv
<1>1. RecorderTypeOK' /\ PeriodKept' /\ NeverFasterThanPeriod' /\ FileInOrder' /\ AckedIsThere'
  BY RecorderTypeNext, PeriodNext, NeverFasterNext, FileNext, AckedNext
<1>2. rpc' = "start" => FilePast'
  BY <1>1, FilePastNext
<1>3. rpc' # "start" => acked' = <<>> /\ pc' = "down"
  <2>1. CASE OpenRecording
    BY <2>1 DEF OpenRecording
  <2>2. CASE Load
    BY <2>2 DEF Load
  <2>3. CASE UNCHANGED recorderVars /\ (rpc' = "start" <=> rpc = "start")
    BY <2>3 DEF recorderVars
  <2> QED
    BY <2>1, <2>2, <2>3, RecorderStops DEF replayVars
<1> QED
  BY <1>1, <1>2, <1>3

LEMMA RecorderInit0 == Init => RecorderInv
<1> SUFFICES ASSUME Init PROVE RecorderInv
  OBVIOUS
<1> USE DEF Init, RecorderInit
<1>1. <<>> \in Seq(LineSet) /\ <<>> \in Seq(Acknowledgement) /\ Len(<<>>) = 0 /\ DOMAIN <<>> = {}
  BY EmptySeq
<1>2. RecorderTypeOK
  BY <1>1, RecorderAssumption DEF RecorderTypeOK
<1> QED
  BY <1>1, <1>2 DEF RecorderInv, PeriodKept, NeverFasterThanPeriod, FileInOrder, FilePast,
     AckedIsThere

-----------------------------------------------------------------------------
(* The recording as it is read                                             *)

\* The lines of the file with what is after the last newline.
LEMMA ContentsOf ==
    ASSUME RecorderTypeOK
    PROVE  /\ Contents \in Seq(LineSet)
           /\ \A k \in DOMAIN lines : k \in DOMAIN Contents /\ Contents[k] = lines[k]
           /\ \A k \in DOMAIN Contents :
                 \/ k \in DOMAIN lines
                 \/ tail # <<>> /\ Contents[k] = tail[1] /\ \A m \in DOMAIN lines : m < k
           /\ \A k, l \in DOMAIN Contents : k < l => k \in DOMAIN lines
<1>1. PICK n \in Nat, t \in Nat : n = Len(lines) /\ t = Len(tail) /\ t <= 1
  BY DEF RecorderTypeOK
<1>2. lines \in Seq(LineSet) /\ tail \in Seq(LineSet)
  BY DEF RecorderTypeOK
<1>3. /\ Contents \in Seq(LineSet) /\ DOMAIN lines = 1..n /\ DOMAIN Contents = 1..(n + t)
      /\ \A k \in 1..(n + t) : Contents[k] = IF k <= n THEN lines[k] ELSE tail[k - n]
  BY <1>1, <1>2, ConcatProperties DEF Contents
<1>4. ASSUME NEW k \in 1..(n + t), k \notin 1..n
      PROVE  tail # <<>> /\ Contents[k] = tail[1] /\ k = n + 1
  <2>1. k = n + 1 /\ t = 1 /\ ~(k <= n) /\ k - n = 1
    BY <1>1, <1>4
  <2>2. tail # <<>>
    <3>1. tail = <<>> => Len(tail) = 0
      OBVIOUS
    <3>2. Len(tail) = 1
      BY <1>1, <2>1
    <3> QED
      BY <3>1, <3>2
  <2>3. Contents[k] = tail[k - n]
    BY <1>3, <2>1
  <2> QED
    BY <2>1, <2>2, <2>3
<1>5. \A k \in 1..n : k \in 1..(n + t) /\ k <= n
  OBVIOUS
<1>6. \A k, l \in 1..(n + t) : k < l => k \in 1..n
  BY <1>1
<1> QED
  BY <1>3, <1>4, <1>5, <1>6

\* A readable file is in the order of recording.
LEMMA ReadableInOrder ==
    ASSUME RecorderTypeOK, FileInOrder, Readable
    PROVE  \A k, l \in DOMAIN Contents : k < l => Follows(Contents[k], Contents[l])
<1> SUFFICES ASSUME NEW k \in DOMAIN Contents, NEW l \in DOMAIN Contents, k < l
             PROVE  Follows(Contents[k], Contents[l])
  OBVIOUS
<1>1. k \in DOMAIN lines /\ Contents[k] = lines[k]
  BY ContentsOf
<1>2. WellFormed(Contents[k]) /\ WellFormed(Contents[l])
  BY DEF Readable
<1>3. CASE l \in DOMAIN lines
  BY <1>1, <1>2, <1>3, ContentsOf DEF FileInOrder
<1>4. CASE tail # <<>> /\ Contents[l] = tail[1]
  BY <1>1, <1>2, <1>4 DEF FileInOrder
<1> QED
  BY <1>3, <1>4, ContentsOf

LEMMA NoneLost == RecorderInv => NoSilentLoss
<1> SUFFICES ASSUME RecorderInv, Readable
             PROVE  /\ \A k, l \in DOMAIN Contents :
                          k < l => Contents[k].snapshot < Contents[l].snapshot
                    /\ \A a \in DOMAIN acked : \E k \in DOMAIN Contents :
                          Contents[k].snapshot = acked[a].snapshot
  BY DEF NoSilentLoss
<1>1. RecorderTypeOK /\ FileInOrder /\ AckedIsThere
  BY DEF RecorderInv
<1>2. \A k, l \in DOMAIN Contents : k < l => Contents[k].snapshot < Contents[l].snapshot
  BY <1>1, ReadableInOrder DEF Follows
<1>3. \A k \in DOMAIN lines : k \in DOMAIN Contents /\ Contents[k] = lines[k]
  BY <1>1, ContentsOf
<1>4. \A k \in DOMAIN lines : WellFormed(lines[k])
  BY <1>3 DEF Readable
<1>5. \A a \in DOMAIN acked : \E k \in DOMAIN lines : lines[k].snapshot = acked[a].snapshot
  BY <1>1, <1>4 DEF AckedIsThere
<1> QED
  BY <1>2, <1>3, <1>5

-----------------------------------------------------------------------------
(* The two conversions of a time and of a snapshot                         *)

\* What is written of a number of microseconds is read again.
LEMMA FractionRestored ==
    ASSUME NEW n \in Nat
    PROVE  Microseconds(Fraction(n)) = n /\ Microseconds(NoFraction) = 0
<1>1. Digits \in Nat /\ Digits - Digits = 0 /\ ~(Digits > Digits) /\ ~(0 > Digits)
  BY Iso8601Assumption
<1>2. Microseconds(Fraction(n)) = n * 10 ^ (Digits - Digits)
  BY <1>1 DEF Microseconds, Fraction
<1>3. n * 10 ^ (Digits - Digits) = n
  <2>1. 10 ^ 0 = 1
    OBVIOUS
  <2>2. 10 ^ (Digits - Digits) = 1
    BY <1>1, <2>1
  <2> QED
    BY <2>2
<1>4. Microseconds(NoFraction) = 0 * 10 ^ (Digits - 0)
  BY <1>1 DEF Microseconds, NoFraction
<1>5. Digits - 0 = Digits /\ 0 * Second = 0 /\ Second = 10 ^ Digits
  BY Iso8601Assumption DEF Second
<1> QED
  BY <1>2, <1>3, <1>4, <1>5

\* A quotient and what remains.
LEMMA QuotientAndRest ==
    ASSUME NEW t \in Int, NEW b \in Nat, b > 0
    PROVE  /\ t \div b \in Int /\ t % b \in Nat /\ t % b < b
           /\ t = b * (t \div b) + (t % b)
OBVIOUS

\* What format_iso8601 and the older recorder write, parse_iso8601 reads back, to the
\* microsecond, in any zone and on both sides of 1970, where the remainder of the
\* division is negative (chrono_utils.hpp:20-94).
THEOREM TimeRestored ==
    ASSUME NEW t \in Int, NEW offset \in Int
    PROVE  ParseIso(FormatIso(t)) = t /\ ParseIso(FormatPython(t, offset)) = t
<1>1. PICK s \in Nat : s = Second /\ s > 0
  BY Iso8601Assumption
<1>2. \A n \in Nat : Microseconds(Fraction(n)) = n /\ Microseconds(NoFraction) = 0
  BY FractionRestored
<1>3. ParseIso(FormatIso(t)) = t
  <2>1. CASE t >= 0
    <3>1. PICK q \in Int, r \in Nat : q = t \div s /\ t = s * q + r
      BY <1>1, QuotientAndRest
    <3>2. t - q * s = r /\ ~(r < 0) /\ ~(t < 0)
      BY <1>1, <2>1, <3>1
    <3>3. FormatIso(t) = [seconds |-> q, fraction |-> Fraction(r), offset |-> 0]
      BY <1>1, <3>1, <3>2 DEF FormatIso, WholeSeconds
    <3>4. ParseIso(FormatIso(t)) = (q - 0) * s + r
      BY <1>1, <1>2, <3>3 DEF ParseIso
    <3>5. (q - 0) * s = s * q
      BY <1>1, <3>1
    <3> QED
      BY <3>1, <3>4, <3>5
  <2>2. CASE t < 0
    <3>0. PICK u \in Int : u = -t
      OBVIOUS
    <3>1. PICK q \in Int, r \in Nat : q = u \div s /\ r < s /\ u = s * q + r
      BY <1>1, QuotientAndRest
    <3>2. WholeSeconds(t) = -q
      BY <1>1, <2>2, <3>0, <3>1 DEF WholeSeconds
    <3>3. t - (-q) * s = -r
      BY <1>1, <3>0, <3>1
    <3>4. CASE r = 0
      <4>1. FormatIso(t) = [seconds |-> -q, fraction |-> Fraction(-r), offset |-> 0]
        BY <1>1, <3>2, <3>3, <3>4 DEF FormatIso
      <4>2. ParseIso(FormatIso(t)) = (-q - 0) * s + -r
        BY <1>1, <1>2, <3>4, <4>1 DEF ParseIso
      <4> QED
        BY <1>1, <3>0, <3>1, <3>4, <4>2
    <3>5. CASE r # 0
      <4>1. FormatIso(t) = [seconds |-> -q - 1, fraction |-> Fraction(-r + s),
                            offset |-> 0]
        BY <1>1, <3>2, <3>3, <3>5 DEF FormatIso
      <4>2. -r + s \in Nat
        BY <1>1, <3>1
      <4>3. ParseIso(FormatIso(t)) = (-q - 1 - 0) * s + (-r + s)
        BY <1>1, <1>2, <4>1, <4>2 DEF ParseIso
      <4>4. (-q - 1 - 0) * s = (-q) * s - s
        BY <1>1, <3>1
      <4> QED
        BY <1>1, <3>0, <3>1, <4>3, <4>4
    <3> QED
      BY <3>4, <3>5
  <2> QED
    BY <2>1, <2>2
<1>4. ParseIso(FormatPython(t, offset)) = t
  <2>1. PICK q \in Int, r \in Nat : q = t \div s /\ r = t % s /\ t = s * q + r
    BY <1>1, QuotientAndRest
  <2>2. ParseIso(FormatPython(t, offset)) = ((q + offset) - offset) * s + r
    <3>1. CASE r = 0
      BY <1>1, <1>2, <2>1, <3>1 DEF ParseIso, FormatPython
    <3>2. CASE r # 0
      BY <1>1, <1>2, <2>1, <3>2 DEF ParseIso, FormatPython
    <3> QED
      BY <3>1, <3>2
  <2>3. ((q + offset) - offset) * s = s * q
    BY <1>1, <2>1
  <2> QED
    BY <2>1, <2>2, <2>3
<1> QED
  BY <1>3, <1>4

\* The replay looks up the members there are, and the handlers assign them.
LEMMA ReadsAll == Read = Member
BY DEF Read, Member

LEMMA AssignedMembers ==
    \A msg \in DOMAIN Assigned : Assigned[msg].members \subseteq Member[Assigned[msg].section]
BY DEF Assigned, Member, AltitudeMember

LEMMA ValuedMembers ==
    ASSUME NEW section \in DOMAIN Member, NEW received \in SUBSET (DOMAIN Assigned),
           NEW sentinels
    PROVE  Valued(section, received, sentinels) \subseteq Member[section]
<1>1. CASE section = "snapshot"
  BY <1>1 DEF Valued, Member
<1>2. CASE section # "snapshot"
  BY <1>2, AssignedMembers DEF Valued
<1> QED
  BY <1>1, <1>2

\* A section comes back from its object, when what is written for a value is told from
\* null and read as the value, and the keys that were left out are those of members
\* without a value.
LEMMA SectionRestored ==
    ASSUME NEW section \in DOMAIN Member, NEW v, v = [m \in DOMAIN v |-> v[m]], NEW U,
           DOMAIN v \subseteq Member[section] \ U,
           \A m \in DOMAIN v : /\ ValueToJson(m, v[m]) # None
                                /\ ValueFromJson(m, ValueToJson(m, v[m])) = v[m]
    PROVE  SectionFromJson(section,
              Restrict(SectionToJson(section, v), DOMAIN SectionToJson(section, v) \ U)) = v
<1> DEFINE object == SectionToJson(section, v)
           less == Restrict(object, DOMAIN object \ U)
           found == {key \in Read[section] \cap DOMAIN less : less[key] # None}
<1>1. /\ DOMAIN object = Member[section]
      /\ \A key \in Member[section] :
            object[key] = IF key \in DOMAIN v THEN ValueToJson(key, v[key]) ELSE None
  BY DEF SectionToJson, Written
<1> HIDE DEF object
<1>2. /\ DOMAIN less = Member[section] \ U
      /\ \A key \in Member[section] \ U : less[key] = object[key]
  BY <1>1 DEF Restrict
<1> HIDE DEF less
<1>3. found = DOMAIN v
  BY <1>1, <1>2, ReadsAll
<1>4. \A key \in DOMAIN v : ValueFromJson(key, less[key]) = v[key]
  BY <1>1, <1>2
<1>5. SectionFromJson(section, less) = [key \in found |-> ValueFromJson(key, less[key])]
  BY DEF SectionFromJson
<1> QED
  BY <1>3, <1>4, <1>5 DEF less, object

\* The states of the sensors that record() was given.
StatesOf(r) ==
    LET known == "SYS_STATUS" \in r.given.received
    IN  [s \in Sensor |-> [present |-> known, enabled |-> known,
                           healthy |-> known /\ s \notin r.given.faulty]]

\* What the members of a snapshot are.
LEMMA SnapshotMembers ==
    ASSUME NEW r, NEW section \in DOMAIN Member
    PROVE  /\ DOMAIN Snapshot(r) = DOMAIN Member
           /\ DOMAIN Snapshot(r)[section]
                 = Valued(section, r.given.received, r.given.sentinels) \ Unknown(r)
           /\ Snapshot(r)[section]
                 = [m \in DOMAIN Snapshot(r)[section] |-> Snapshot(r)[section][m]]
BY DEF Snapshot

LEMMA MemberValue ==
    ASSUME NEW r, NEW section \in DOMAIN Member, NEW n \in DOMAIN Snapshot(r)[section]
    PROVE  \/ n = "connected" /\ Snapshot(r)[section][n] = ("HEARTBEAT" \in r.given.received)
           \/ n = "sensors" /\ Snapshot(r)[section][n] = StatesOf(r)
           \/ n \in Stamp /\ Snapshot(r)[section][n] = r.line.recorded_monotonic_s - r.given.age
           \/ n \notin {"connected", "sensors"} \cup Stamp /\ Snapshot(r)[section][n] = n
<1> DEFINE State(s) == [present |-> "SYS_STATUS" \in r.given.received,
                        enabled |-> "SYS_STATUS" \in r.given.received,
                        healthy |-> "SYS_STATUS" \in r.given.received /\ s \notin r.given.faulty]
           ValueOf(m) == CASE m = "connected" -> "HEARTBEAT" \in r.given.received
                           [] m = "sensors"   -> [s \in Sensor |-> State(s)]
                           [] m \in Stamp     -> r.line.recorded_monotonic_s - r.given.age
                           [] OTHER           -> m
           Members == Valued(section, r.given.received, r.given.sentinels) \ Unknown(r)
<1>1. DOMAIN Snapshot(r) = DOMAIN Member /\ Snapshot(r)[section] = [m \in Members |-> ValueOf(m)]
  BY DEF Snapshot
<1>2. \A m : m = "connected" => ValueOf(m) = ("HEARTBEAT" \in r.given.received)
  BY DEF Stamp
<1>3. \A m : m = "sensors" => ValueOf(m) = StatesOf(r)
  BY DEF Stamp, StatesOf
<1>4. \A m \in Stamp : ValueOf(m) = r.line.recorded_monotonic_s - r.given.age
  BY DEF Stamp
<1>5. \A m : m \notin {"connected", "sensors"} \cup Stamp => ValueOf(m) = m
  OBVIOUS
<1> HIDE DEF ValueOf, Members
<1>6. DOMAIN Snapshot(r)[section] = Members
  BY <1>1
<1>7. \A m \in Members : Snapshot(r)[section][m] = ValueOf(m)
  BY <1>1
<1>8. \A m \in Members :
         \/ m = "connected" /\ ValueOf(m) = ("HEARTBEAT" \in r.given.received)
         \/ m = "sensors" /\ ValueOf(m) = StatesOf(r)
         \/ m \in Stamp /\ ValueOf(m) = r.line.recorded_monotonic_s - r.given.age
         \/ m \notin {"connected", "sensors"} \cup Stamp /\ ValueOf(m) = m
  BY <1>2, <1>3, <1>4, <1>5
<1> QED
  BY <1>6, <1>7, <1>8

\* What a sensor's state is written as is read as the state.
LEMMA StatesRestored ==
    ASSUME NEW r
    PROVE  /\ ValueToJson("sensors", StatesOf(r)) = StatesOf(r)
           /\ ValueFromJson("sensors", StatesOf(r)) = StatesOf(r)
<1> DEFINE known == "SYS_STATUS" \in r.given.received
           state(s) == [present |-> known, enabled |-> known,
                        healthy |-> known /\ s \notin r.given.faulty]
<1>1. StatesOf(r) = [s \in Sensor |-> state(s)]
  BY DEF StatesOf
<1>2. ASSUME NEW s \in Sensor
      PROVE  StateToJson(state(s)) = state(s) /\ StateFromJson(state(s)) = state(s)
  BY DEF StateToJson, StateFromJson
<1> HIDE DEF state
<1>3. DOMAIN StatesOf(r) = Sensor /\ \A s \in Sensor : StatesOf(r)[s] = state(s)
  BY <1>1
<1>4. ValueToJson("sensors", StatesOf(r)) = [s \in Sensor |-> state(s)]
  BY <1>2, <1>3 DEF ValueToJson
<1>5. ValueFromJson("sensors", StatesOf(r)) = [s \in Sensor |-> state(s)]
  BY <1>2, <1>3 DEF ValueFromJson
<1> QED
  BY <1>1, <1>4, <1>5

\* No value is taken for a member without one, and each is read as it was.
LEMMA ValueRestored ==
    ASSUME NEW r, r.given \in Given, r.line \in LineSet, NEW section \in DOMAIN Member,
           NEW m \in DOMAIN Snapshot(r)[section]
    PROVE  /\ ValueToJson(m, Snapshot(r)[section][m]) # None
           /\ ValueFromJson(m, ValueToJson(m, Snapshot(r)[section][m]))
                 = Snapshot(r)[section][m]
<1>1. m \in Member[section]
  <2>1. r.given.received \in SUBSET (DOMAIN Assigned)
    BY ReplayAssumption
  <2>2. Valued(section, r.given.received, r.given.sentinels) \subseteq Member[section]
    BY <2>1, ValuedMembers
  <2>3. DOMAIN Snapshot(r)[section]
           = Valued(section, r.given.received, r.given.sentinels) \ Unknown(r)
    BY SnapshotMembers
  <2> QED
    BY <2>2, <2>3
<1>2. CASE m = "sensors" /\ Snapshot(r)[section][m] = StatesOf(r)
  <2>1. ("SYS_STATUS" \in r.given.received) \in BOOLEAN
    OBVIOUS
  <2>2. \A s \in Sensor : ("SYS_STATUS" \in r.given.received /\ s \notin r.given.faulty) \in BOOLEAN
    OBVIOUS
  <2>3. StatesOf(r) \in [Sensor -> [present : BOOLEAN, enabled : BOOLEAN, healthy : BOOLEAN]]
    BY <2>1, <2>2 DEF StatesOf
  <2>4. StatesOf(r) # None
    BY <2>3, NullAssumption
  <2> QED
    BY <1>2, <2>4, StatesRestored
<1>3. CASE m # "sensors" /\ Snapshot(r)[section][m] # None
  BY <1>3 DEF ValueToJson, ValueFromJson
<1>4. ("HEARTBEAT" \in r.given.received) # None
  <2>1. None \notin BOOLEAN /\ ("HEARTBEAT" \in r.given.received) \in BOOLEAN
    BY NullAssumption
  <2> QED
    BY <2>1
<1>5. r.line.recorded_monotonic_s - r.given.age # None
  <2>1. r.line.recorded_monotonic_s \in Nat /\ r.given.age \in Nat
    BY ReplayAssumption DEF LineSet
  <2>2. r.line.recorded_monotonic_s - r.given.age \in Int
    BY <2>1
  <2> QED
    BY <2>2, NullAssumption
<1>6. m # None
  BY <1>1, NullAssumption
<1>7. \/ m = "connected" /\ Snapshot(r)[section][m] = ("HEARTBEAT" \in r.given.received)
      \/ m = "sensors" /\ Snapshot(r)[section][m] = StatesOf(r)
      \/ m \in Stamp /\ Snapshot(r)[section][m] = r.line.recorded_monotonic_s - r.given.age
      \/ m \notin {"connected", "sensors"} \cup Stamp /\ Snapshot(r)[section][m] = m
  BY MemberValue
<1>8. "connected" # "sensors" /\ "sensors" \notin Stamp
  BY DEF Stamp
<1> QED
  BY <1>2, <1>3, <1>4, <1>5, <1>6, <1>7, <1>8

\* What a line holds comes back.
LEMMA SampleRestored ==
    ASSUME NEW r, r.given \in Given, r.line \in LineSet
    PROVE  Sample(Document(r)) = [recorded_at |-> r.line.recorded_at,
                                  recorded_monotonic_s |-> MonotonicTime(r),
                                  telemetry |-> Snapshot(r)]
<1>1. ParseIso(Document(r).recorded_at) = r.line.recorded_at
  <2>1. r.line.recorded_at \in Int /\ Zone \in Int
    BY ReplayAssumption DEF LineSet
  <2>2. Document(r).recorded_at = IF r.older THEN FormatPython(r.line.recorded_at, Zone)
                                             ELSE FormatIso(r.line.recorded_at)
    BY DEF Document
  <2> QED
    BY <2>1, <2>2, TimeRestored
<1>2. Document(r).recorded_monotonic_s = MonotonicTime(r)
  BY DEF Document
<1>3. FromJson(Document(r).telemetry) = Snapshot(r)
  <2>1. ASSUME NEW section \in DOMAIN Member
        PROVE  FromJson(Document(r).telemetry)[section] = Snapshot(r)[section]
    <3> DEFINE v == Snapshot(r)[section]
               object == SectionToJson(section, v)
    <3>1. Document(r).telemetry[section] = Restrict(object, DOMAIN object \ Unknown(r))
      BY DEF Document, ToJson
    <3>2. r.given.received \in SUBSET (DOMAIN Assigned)
      BY ReplayAssumption
    <3>3. v = [m \in DOMAIN v |-> v[m]] /\ DOMAIN v \subseteq Member[section] \ Unknown(r)
      <4>1. Valued(section, r.given.received, r.given.sentinels) \subseteq Member[section]
        BY <3>2, ValuedMembers
      <4>2. DOMAIN v = Valued(section, r.given.received, r.given.sentinels) \ Unknown(r)
        BY SnapshotMembers
      <4>3. v = [m \in DOMAIN v |-> v[m]]
        BY SnapshotMembers
      <4> QED
        BY <4>1, <4>2, <4>3
    <3>4. \A m \in DOMAIN v : /\ ValueToJson(m, v[m]) # None
                              /\ ValueFromJson(m, ValueToJson(m, v[m])) = v[m]
      BY ValueRestored
    <3>5. FromJson(Document(r).telemetry)[section]
             = SectionFromJson(section, Document(r).telemetry[section])
      BY DEF FromJson
    <3> HIDE DEF v
    <3>6. SectionFromJson(section, Restrict(object, DOMAIN object \ Unknown(r))) = v
      BY <3>3, <3>4, SectionRestored
    <3> QED
      BY <3>1, <3>5, <3>6 DEF v
  <2>2. /\ FromJson(Document(r).telemetry)
              = [section \in DOMAIN Member |-> FromJson(Document(r).telemetry)[section]]
        /\ Snapshot(r) = [section \in DOMAIN Member |-> Snapshot(r)[section]]
    BY DEF FromJson, Snapshot
  <2> QED
    BY <2>1, <2>2
<1> QED
  BY <1>1, <1>2, <1>3 DEF Sample

-----------------------------------------------------------------------------
(* What was read                                                           *)

\* Only Load reads.
LEMMA OnlyLoadReads ==
    ASSUME Step
    PROVE  Load \/ UNCHANGED <<samples, recording>>
BY DEF Step, Next, Replay, Construct, Start, OpenRecording, Pace, ReturnSamples,
   EvaluateSample, Finish, replayVars, vars

LEMMA LoadedNext == RecorderInv /\ LoadedOK /\ Step => LoadedOK'
<1> SUFFICES ASSUME RecorderInv, LoadedOK, Step PROVE LoadedOK'
  OBVIOUS
<1>1. CASE UNCHANGED <<samples, recording>>
  BY <1>1 DEF LoadedOK, RestoredAsRecorded
<1>2. CASE Load /\ Readable
  <2>1. RecorderTypeOK /\ FileInOrder
    BY DEF RecorderInv
  <2>2. PICK given \in [DOMAIN Contents -> Given], older \in BOOLEAN :
           /\ recording' = [k \in DOMAIN Contents |->
                  [line |-> Contents[k], given |-> given[k], older |-> older]]
           /\ samples' = [k \in DOMAIN Contents |-> Sample(Document(recording'[k]))]
    BY <1>2 DEF Load
  <2>3. PICK n \in Nat : DOMAIN Contents = 1..n
    BY <2>1, ContentsOf
  <2>4. DOMAIN samples' = 1..n /\ DOMAIN recording' = 1..n
    BY <2>2, <2>3
  <2>5. samples' \in Seq({samples'[k] : k \in DOMAIN samples'})
    <3>1. samples' = [k \in 1..n |-> samples'[k]]
      BY <2>2, <2>3
    <3>2. \A k \in 1..n : samples'[k] \in {samples'[l] : l \in DOMAIN samples'}
      BY <2>4
    <3> HIDE DEF LoadedOK
    <3>3. samples' \in [1..n -> {samples'[l] : l \in DOMAIN samples'}]
      BY <3>1, <3>2
    <3> QED
      BY <3>3
  <2>6. ASSUME NEW k \in 1..n
        PROVE  /\ recording'[k].line = Contents[k]
               /\ recording'[k].line \in LineSet /\ recording'[k].given \in Given
    <3>1. recording'[k] = [line |-> Contents[k], given |-> given[k], older |-> older]
      BY <2>2, <2>3
    <3>2. Contents[k] \in LineSet
      BY <2>1, <2>3, ContentsOf
    <3>3. given[k] \in Given
      BY <2>3
    <3> QED
      BY <3>1, <3>2, <3>3
  <2>7. \A k, l \in 1..n : k < l => Follows(recording'[k].line, recording'[l].line)
    BY <1>2, <2>1, <2>3, <2>6, ReadableInOrder
  <2>8. \A k \in 1..n :
           samples'[k] = [recorded_at |-> recording'[k].line.recorded_at,
                          recorded_monotonic_s |-> MonotonicTime(recording'[k]),
                          telemetry |-> Snapshot(recording'[k])]
    BY <2>2, <2>3, <2>6, SampleRestored
  <2> QED
    BY <2>4, <2>5, <2>6, <2>7, <2>8 DEF LoadedOK, RestoredAsRecorded
<1>3. CASE Load /\ ~Readable
  BY <1>1, <1>3 DEF Load
<1> QED
  BY <1>1, <1>2, <1>3, OnlyLoadReads

\* Times that were restored are times.
LEMMA TimesRestored ==
    ASSUME LoadedOK
    PROVE  /\ Len(samples) \in Nat /\ DOMAIN samples = 1..Len(samples)
           /\ \A k \in DOMAIN samples : samples[k].recorded_at \in Nat
<1>1. Len(samples) \in Nat /\ DOMAIN samples = 1..Len(samples)
  BY DEF LoadedOK
<1>2. \A k \in DOMAIN samples :
         samples[k].recorded_at = recording[k].line.recorded_at /\ recording[k].line \in LineSet
  BY DEF LoadedOK, RestoredAsRecorded
<1> QED
  BY <1>1, <1>2 DEF LineSet

-----------------------------------------------------------------------------
(* The order of evaluation                                                 *)

LEMMA PacedNext == LoadedOK /\ LoadedOK' /\ PacedOK /\ Step => PacedOK'
<1> SUFFICES ASSUME LoadedOK, LoadedOK', PacedOK, Step PROVE PacedOK'
  OBVIOUS
<1>0. /\ Len(samples) \in Nat /\ DOMAIN samples = 1..Len(samples)
      /\ \A k \in DOMAIN samples : samples[k].recorded_at \in Nat
  BY TimesRestored
<1>1. CASE UNCHANGED replayVars
  BY <1>1 DEF PacedOK, replayVars, engineVars, Ordered
<1>2. CASE OpenRecording
  BY <1>2 DEF OpenRecording, PacedOK, engineVars
<1>3. CASE Load
  <2>1. /\ rpc = "open" /\ rpc' \in {"loaded", "rejected"}
        /\ UNCHANGED <<i, engineVars, evaluated>>
    BY <1>3 DEF Load
  <2>2. Len(samples') \in Nat /\ DOMAIN samples' = 1..Len(samples')
    BY DEF LoadedOK
  <2>3. \A l \in DOMAIN samples' : ~(l < 1)
    BY <2>2
  <2> QED
    BY <2>1, <2>2, <2>3 DEF PacedOK, engineVars, Ordered
<1>4. CASE Pace
  <2>1. /\ rpc \in {"loaded", "pace"} /\ i <= Len(samples)
        /\ UNCHANGED <<samples, engineVars, evaluated>>
    BY <1>4 DEF Pace
  <2>2. CASE ~InOrder
    BY <1>4, <2>1, <2>2 DEF Pace, PacedOK, engineVars
  <2>3. CASE InOrder
    <3>1. i' = i + 1 /\ rpc' = "pace" /\ Delay >= 0 /\ i \in Nat /\ i >= 1 /\ Ordered(i)
      BY <1>4, <2>1, <2>3 DEF Pace, InOrder, PacedOK
    <3>2. ASSUME NEW k \in DOMAIN samples, NEW l \in DOMAIN samples, k < l, l < i + 1
          PROVE  samples[k].recorded_at <= samples[l].recorded_at
      <4>1. CASE l < i
        BY <3>1, <3>2, <4>1 DEF Ordered
      <4>2. CASE l = i
        <5>1. i - 1 \in DOMAIN samples /\ i # 1 /\ k <= i - 1 /\ k \in Nat
          BY <1>0, <2>1, <3>1, <3>2, <4>2
        <5>2. samples[i].recorded_at - samples[i - 1].recorded_at >= 0
          BY <3>1, <5>1 DEF Delay
        <5>3. samples[i - 1].recorded_at <= samples[i].recorded_at
          BY <1>0, <4>2, <5>1, <5>2
        <5>4. samples[k].recorded_at <= samples[i - 1].recorded_at
          <6>1. CASE k = i - 1
            BY <1>0, <6>1
          <6>2. CASE k < i - 1
            BY <3>1, <5>1, <6>2 DEF Ordered
          <6> QED
            BY <3>1, <5>1, <6>1, <6>2
        <5> QED
          BY <1>0, <4>2, <5>1, <5>3, <5>4
      <4> QED
        BY <1>0, <3>1, <3>2, <4>1, <4>2
    <3>3. Ordered(i)'
      BY <2>1, <3>1, <3>2 DEF Ordered
    <3> QED
      BY <1>0, <2>1, <3>1, <3>3 DEF PacedOK, engineVars
  <2> QED
    BY <2>2, <2>3
<1>5. CASE ReturnSamples
  <2>1. /\ rpc \in {"loaded", "pace"} /\ i > Len(samples) /\ rpc' = "evaluate" /\ i' = 1
        /\ UNCHANGED <<samples, engineVars, evaluated>>
    BY <1>5 DEF ReturnSamples
  <2>2. i = Len(samples) + 1 /\ Ordered(i)
    BY <1>0, <2>1 DEF PacedOK
  <2> QED
    BY <2>1, <2>2 DEF PacedOK, Ordered
<1>6. CASE EvaluateSample
  <2>1. rpc = "evaluate" /\ rpc' = "evaluate" /\ i' = i + 1 /\ samples' = samples
    BY <1>6 DEF EvaluateSample
  <2> QED
    BY <2>1 DEF PacedOK, Ordered
<1>7. CASE Finish
  BY <1>7 DEF Finish, PacedOK, Ordered
<1>8. CASE Construct \/ Start
  BY <1>8 DEF Construct, Start, PacedOK, Ordered, engineVars
<1> QED
  BY <1>1, <1>2, <1>3, <1>4, <1>5, <1>6, <1>7, <1>8 DEF Step, Next, Replay, vars

LEMMA Sorted == LoadedOK /\ PacedOK => EvaluatedInOrder
<1> SUFFICES ASSUME LoadedOK, PacedOK, evaluated # <<>>,
                    NEW k \in DOMAIN samples, NEW l \in DOMAIN samples, k < l
             PROVE  samples[k].recorded_at <= samples[l].recorded_at
  BY DEF EvaluatedInOrder
<1>1. Ordered(Len(samples) + 1)
  BY DEF PacedOK
<1>2. l < Len(samples) + 1
  BY TimesRestored
<1> QED
  BY <1>1, <1>2 DEF Ordered

-----------------------------------------------------------------------------
(* The evaluation                                                          *)

\* What the engine reads of a sample.
LEMMA SampleRead ==
    ASSUME LoadedOK, i \in DOMAIN samples
    PROVE  /\ Value("system", "sensors") = StatesOf(recording[i])
           /\ Value("system", "last_update_monotonic_s") # None =>
                 /\ ~recording[i].older
                 /\ Value("system", "last_update_monotonic_s")
                       = recording[i].line.recorded_monotonic_s - recording[i].given.age
<1>1. samples[i].telemetry = Snapshot(recording[i])
  BY DEF LoadedOK, RestoredAsRecorded
<1>2. "system" \in DOMAIN Member /\ Member["system"] = Member.system
  BY DEF Member
<1>3. DOMAIN Snapshot(recording[i])["system"]
         = Valued("system", recording[i].given.received, recording[i].given.sentinels)
              \ Unknown(recording[i])
  BY <1>2, SnapshotMembers
<1>4. "sensors" \in Valued("system", recording[i].given.received, recording[i].given.sentinels)
  BY <1>2 DEF Valued, Member, Always
<1>5. Value("system", "sensors") = StatesOf(recording[i])
  <2>1. "sensors" \in DOMAIN Snapshot(recording[i])["system"]
    BY <1>3, <1>4 DEF Unknown, Stamp
  <2>2. Snapshot(recording[i])["system"]["sensors"] = StatesOf(recording[i])
    BY <1>2, <2>1, MemberValue DEF Stamp
  <2> QED
    BY <1>1, <2>1, <2>2 DEF Value
<1>6. ASSUME Value("system", "last_update_monotonic_s") # None
      PROVE  /\ ~recording[i].older
             /\ Value("system", "last_update_monotonic_s")
                   = recording[i].line.recorded_monotonic_s - recording[i].given.age
  <2>1. "last_update_monotonic_s" \in DOMAIN Snapshot(recording[i])["system"]
    BY <1>1, <1>6 DEF Value
  <2>2. ~recording[i].older
    BY <1>3, <2>1 DEF Unknown, Stamp
  <2>3. Snapshot(recording[i])["system"]["last_update_monotonic_s"]
           = recording[i].line.recorded_monotonic_s - recording[i].given.age
    BY <1>2, <2>1, MemberValue DEF Stamp
  <2> QED
    BY <1>1, <2>1, <2>2, <2>3 DEF Value
<1> QED
  BY <1>5, <1>6

\* A fresh status is from a recording with freshness metadata, its sensors that are
\* not healthy are those that were bad, and it is evaluated at the recorder's clock.
LEMMA FreshSample ==
    ASSUME LoadedOK, i \in DOMAIN samples, Engine!StatusFresh(EvaluationTime)
    PROVE  /\ EvaluationTime = recording[i].line.recorded_monotonic_s
           /\ \A s \in Engine!CurrentlyUnhealthy : Bad(i, s)
<1>1. Value("system", "last_update_monotonic_s") # None
  BY DEF Engine!StatusFresh, Engine!IsFresh
<1>2. ~recording[i].older
  BY <1>1, SampleRead
<1>3. EvaluationTime = recording[i].line.recorded_monotonic_s
  <2>1. samples[i].recorded_monotonic_s = recording[i].line.recorded_monotonic_s
    BY <1>2 DEF LoadedOK, RestoredAsRecorded, MonotonicTime
  <2>2. recording[i].line \in LineSet
    BY DEF LoadedOK
  <2>3. recording[i].line.recorded_monotonic_s # None
    BY <2>2, NullAssumption DEF LineSet
  <2> QED
    BY <2>1, <2>3 DEF EvaluationTime
<1>4. ASSUME NEW s \in Engine!CurrentlyUnhealthy PROVE s \in recording[i].given.faulty
  <2>1. /\ s \in Sensor
        /\ Value("system", "sensors")[s].present /\ ~Value("system", "sensors")[s].healthy
    BY <1>4 DEF Engine!CurrentlyUnhealthy
  <2>2. StatesOf(recording[i])[s].present /\ ~StatesOf(recording[i])[s].healthy
    BY <2>1, SampleRead
  <2>3. StatesOf(recording[i])[s]
           = [present |-> "SYS_STATUS" \in recording[i].given.received,
              enabled |-> "SYS_STATUS" \in recording[i].given.received,
              healthy |-> "SYS_STATUS" \in recording[i].given.received
                             /\ s \notin recording[i].given.faulty]
    BY <2>1 DEF StatesOf
  <2> QED
    BY <2>2, <2>3
<1>5. recording[i].given.age <= DataTimeout
  <2>1. PICK last : last = Value("system", "last_update_monotonic_s")
    OBVIOUS
  <2>2. EvaluationTime - last <= DataTimeout
    BY <2>1 DEF Engine!StatusFresh, Engine!IsFresh
  <2>3. last = recording[i].line.recorded_monotonic_s - recording[i].given.age
    BY <1>1, <2>1, SampleRead
  <2>4. recording[i].line \in LineSet /\ recording[i].given \in Given
    BY DEF LoadedOK
  <2>5. recording[i].line.recorded_monotonic_s \in Nat /\ recording[i].given.age \in Nat
    BY <2>4, ReplayAssumption DEF LineSet
  <2>6. DataTimeout \in Nat
    BY ReplayAssumption
  <2> QED
    BY <1>3, <2>2, <2>3, <2>5, <2>6
<1> QED
  BY <1>2, <1>3, <1>4, <1>5 DEF Bad

\* What a sample does to the start times and to the sensors raised.
LEMMA EvaluationDoes ==
    ASSUME EvaluateSample
    PROVE  \/ /\ Engine!StatusFresh(EvaluationTime)
              /\ DOMAIN unhealthySince' \subseteq Engine!CurrentlyUnhealthy
              /\ \A s \in DOMAIN unhealthySince' :
                    unhealthySince'[s] = Engine!Started(unhealthySince, s, EvaluationTime)
              /\ \A s \in unhealthySensors' \ unhealthySensors :
                    /\ s \in Engine!CurrentlyUnhealthy
                    /\ EvaluationTime - Engine!Started(unhealthySince, s, EvaluationTime)
                          >= ActivationDelay
           \/ DOMAIN unhealthySince' = {} /\ unhealthySensors' = {}
<1>1. Engine!EvaluateSensors(EvaluationTime)
  BY DEF EvaluateSample, Engine!Evaluate
<1>2. CASE Engine!StatusFresh(EvaluationTime)
  <2>1. /\ unhealthySensors' = (unhealthySensors \cup Engine!Activated(EvaluationTime))
                                  \ Engine!Cleared(EvaluationTime)
        /\ unhealthySince' = [s \in Engine!Pending(EvaluationTime) |->
                                 Engine!Started(unhealthySince, s, EvaluationTime)]
    BY <1>1, <1>2 DEF Engine!EvaluateSensors
  <2>2. Engine!Pending(EvaluationTime) \subseteq Engine!CurrentlyUnhealthy
    BY DEF Engine!Pending
  <2>3. \A s \in Engine!Activated(EvaluationTime) :
           /\ s \in Engine!CurrentlyUnhealthy
           /\ EvaluationTime - Engine!Started(unhealthySince, s, EvaluationTime)
                 >= ActivationDelay
    BY DEF Engine!Activated
  <2> QED
    BY <1>2, <2>1, <2>2, <2>3
<1>3. CASE ~Engine!StatusFresh(EvaluationTime)
  BY <1>1, <1>3 DEF Engine!EvaluateSensors, Engine!EmptyMap
<1> QED
  BY <1>2, <1>3

\* The start of a fault that the sample at the index shows, too.
LEMMA StartConfirmed ==
    ASSUME LoadedOK, PacedOK, SinceIsConfirmed, rpc = "evaluate", i <= Len(samples),
           Engine!StatusFresh(EvaluationTime), NEW s \in Engine!CurrentlyUnhealthy
    PROVE  \E j \in 1..i :
              /\ Engine!Started(unhealthySince, s, EvaluationTime)
                    = recording[j].line.recorded_monotonic_s
              /\ \A m \in j..i : Bad(m, s)
<1>1. i \in Nat /\ i >= 1 /\ i \in DOMAIN samples
  BY TimesRestored DEF PacedOK
<1>2. EvaluationTime = recording[i].line.recorded_monotonic_s /\ Bad(i, s)
  BY <1>1, FreshSample
<1>3. CASE s \in DOMAIN unhealthySince
  <2>1. PICK j \in 1..(i - 1) :
           /\ unhealthySince[s] = recording[j].line.recorded_monotonic_s
           /\ \A m \in j..(i - 1) : Bad(m, s)
    BY <1>3 DEF SinceIsConfirmed
  <2>2. \A m \in j..i : m \in j..(i - 1) \/ m = i
    BY <1>1, <2>1
  <2>3. j \in 1..i
    BY <1>1, <2>1
  <2> QED
    BY <1>2, <1>3, <2>1, <2>2, <2>3 DEF Engine!Started
<1>4. CASE s \notin DOMAIN unhealthySince
  <2>1. i \in 1..i /\ \A m \in i..i : m = i
    BY <1>1
  <2> QED
    BY <1>2, <1>4, <2>1 DEF Engine!Started
<1> QED
  BY <1>3, <1>4

\* Between two samples the recorder's clock has not advanced further than time.
LEMMA ClockIsBehind ==
    ASSUME LoadedOK, NEW k \in DOMAIN samples, NEW j \in 1..k
    PROVE  /\ recording[k].line.recorded_monotonic_s \in Nat /\ recording[k].line.at \in Int
           /\ recording[j].line.recorded_monotonic_s \in Nat /\ recording[j].line.at \in Int
           /\ recording[k].line.recorded_monotonic_s - recording[j].line.recorded_monotonic_s
                 <= recording[k].line.at - recording[j].line.at
<1>1. k \in Nat /\ j \in DOMAIN samples /\ j \in Nat
  BY TimesRestored
<1>2. recording[k].line \in LineSet /\ recording[j].line \in LineSet
  BY <1>1 DEF LoadedOK
<1>3. /\ recording[k].line.recorded_monotonic_s \in Nat /\ recording[k].line.at \in Int
      /\ recording[j].line.recorded_monotonic_s \in Nat /\ recording[j].line.at \in Int
  BY <1>2 DEF LineSet
<1>4. CASE j < k
  BY <1>1, <1>3, <1>4 DEF LoadedOK, Follows
<1>5. CASE j = k
  BY <1>3, <1>5
<1> QED
  BY <1>1, <1>3, <1>4, <1>5

\* A sequence and one element more.
LEMMA Extended ==
    ASSUME NEW q, q \in Seq({q[k] : k \in DOMAIN q}), NEW e, NEW n \in Nat,
           DOMAIN q = 1..(n - 1), n >= 1
    PROVE  /\ DOMAIN Append(q, e) = 1..n
           /\ \A k \in 1..(n - 1) : Append(q, e)[k] = q[k]
           /\ Append(q, e)[n] = e
           /\ Append(q, e) \in Seq({Append(q, e)[k] : k \in DOMAIN Append(q, e)})
<1> DEFINE S == {q[k] : k \in DOMAIN q} \cup {e}
           T == {Append(q, e)[k] : k \in DOMAIN Append(q, e)}
<1>1. q \in Seq(S) /\ e \in S
  BY SeqMonotonic
<1>2. Len(q) = n - 1
  BY <1>1
<1>3. /\ Append(q, e) \in Seq(S) /\ Len(Append(q, e)) = n
      /\ \A k \in 1..Len(q) : Append(q, e)[k] = q[k]
      /\ Append(q, e)[Len(q) + 1] = e
  BY <1>1, <1>2, AppendProperties
<1>4. /\ DOMAIN Append(q, e) = 1..n
      /\ \A k \in 1..(n - 1) : Append(q, e)[k] = q[k]
      /\ Append(q, e)[n] = e
  BY <1>2, <1>3
<1>5. S \subseteq T
  BY <1>4
<1>6. Append(q, e) \in Seq(T)
  BY <1>3, <1>5, SeqMonotonic
<1> QED
  BY <1>4, <1>6

LEMMA SinceNext == LoadedOK /\ PacedOK /\ SinceIsConfirmed /\ Step => SinceIsConfirmed'
<1> SUFFICES ASSUME LoadedOK, PacedOK, SinceIsConfirmed, Step, rpc' = "evaluate"
             PROVE  SinceIsConfirmed'
  BY DEF SinceIsConfirmed
<1>0. Len(samples) \in Nat /\ DOMAIN samples = 1..Len(samples) /\ i \in Nat /\ i >= 1
  BY TimesRestored DEF PacedOK
<1>1. CASE UNCHANGED replayVars
  BY <1>1 DEF SinceIsConfirmed, replayVars, engineVars, Bad
<1>2. CASE ReturnSamples
  <2>1. /\ i' = 1 /\ UNCHANGED <<samples, unhealthySince, evaluated, recording>>
        /\ evaluated = <<>> /\ unhealthySince = [s \in {} |-> 0]
    BY <1>2 DEF ReturnSamples, PacedOK, engineVars
  <2>2. DOMAIN unhealthySince' = {}
    BY <2>1
  <2>3. DOMAIN evaluated' = 1..(i' - 1)
    BY <2>1
  <2>4. evaluated' \in Seq({evaluated'[k] : k \in DOMAIN evaluated'})
    BY <2>1
  <2>5. i' <= Len(samples') + 1
    BY <1>0, <2>1
  <2> QED
    BY <2>2, <2>3, <2>4, <2>5 DEF SinceIsConfirmed
<1>3. CASE EvaluateSample
  <2>1. /\ rpc = "evaluate" /\ i <= Len(samples) /\ i' = i + 1
        /\ evaluated' = Append(evaluated, [elapsed |-> elapsed,
                                           raised |-> unhealthySensors' \ unhealthySensors])
        /\ UNCHANGED <<samples, recording>>
    BY <1>3 DEF EvaluateSample
  <2>2. /\ DOMAIN evaluated = 1..(i - 1)
        /\ evaluated \in Seq({evaluated[k] : k \in DOMAIN evaluated})
    BY <2>1 DEF SinceIsConfirmed
  <2>3. /\ DOMAIN evaluated' = 1..(i' - 1)
        /\ evaluated' \in Seq({evaluated'[k] : k \in DOMAIN evaluated'})
    <3>1. PICK e : evaluated' = Append(evaluated, e)
      BY <2>1
    <3>2. /\ DOMAIN Append(evaluated, e) = 1..i
          /\ Append(evaluated, e) \in Seq({Append(evaluated, e)[k] :
                                             k \in DOMAIN Append(evaluated, e)})
      BY <1>0, <2>2, Extended
    <3>3. i' - 1 = i
      BY <1>0, <2>1
    <3> QED
      BY <3>1, <3>2, <3>3
  <2>4. i' - 1 = i /\ i' <= Len(samples') + 1
    BY <1>0, <2>1
  <2>5. ASSUME NEW s \in DOMAIN unhealthySince'
        PROVE  \E j \in 1..i : /\ unhealthySince'[s] = recording[j].line.recorded_monotonic_s
                               /\ \A m \in j..i : Bad(m, s)
    <3>1. /\ Engine!StatusFresh(EvaluationTime)
          /\ s \in Engine!CurrentlyUnhealthy
          /\ unhealthySince'[s] = Engine!Started(unhealthySince, s, EvaluationTime)
      BY <1>3, <2>5, EvaluationDoes
    <3> QED
      BY <2>1, <3>1, StartConfirmed
  <2> QED
    BY <2>1, <2>3, <2>4, <2>5 DEF SinceIsConfirmed, Bad
<1> QED
  BY <1>1, <1>2, <1>3 DEF Step, Next, Replay, OpenRecording, Load, Pace, Finish, Construct,
     Start, vars

LEMMA RaisedNext ==
    LoadedOK /\ PacedOK /\ SinceIsConfirmed /\ RaisedIsConfirmed /\ Step => RaisedIsConfirmed'
<1> SUFFICES ASSUME LoadedOK, PacedOK, SinceIsConfirmed, RaisedIsConfirmed, Step
             PROVE  RaisedIsConfirmed'
  OBVIOUS
<1>1. CASE UNCHANGED <<evaluated, recording>>
  BY <1>1 DEF RaisedIsConfirmed
<1>2. CASE Load
  BY <1>2 DEF Load, PacedOK, RaisedIsConfirmed
<1>3. CASE EvaluateSample
  <2>1. /\ rpc = "evaluate" /\ i <= Len(samples) /\ UNCHANGED recording
        /\ evaluated' = Append(evaluated, [elapsed |-> elapsed,
                                           raised |-> unhealthySensors' \ unhealthySensors])
    BY <1>3 DEF EvaluateSample
  <2>2. /\ DOMAIN evaluated = 1..(i - 1) /\ i \in Nat /\ i >= 1
        /\ evaluated \in Seq({evaluated[k] : k \in DOMAIN evaluated})
    BY <2>1 DEF SinceIsConfirmed, PacedOK
  <2>3. /\ DOMAIN evaluated' = 1..i
        /\ \A k \in 1..(i - 1) : evaluated'[k] = evaluated[k]
        /\ evaluated'[i].raised = unhealthySensors' \ unhealthySensors
    BY <2>1, <2>2, Extended
  <2>4. ASSUME NEW s \in unhealthySensors' \ unhealthySensors
        PROVE  \E j \in 1..i :
                  /\ recording[i].line.at - recording[j].line.at >= ActivationDelay
                  /\ \A m \in j..i : Bad(m, s)
    <3>1. /\ Engine!StatusFresh(EvaluationTime)
          /\ s \in Engine!CurrentlyUnhealthy
          /\ EvaluationTime - Engine!Started(unhealthySince, s, EvaluationTime)
                >= ActivationDelay
      BY <1>3, EvaluationDoes
    <3>2. PICK j \in 1..i :
             /\ Engine!Started(unhealthySince, s, EvaluationTime)
                   = recording[j].line.recorded_monotonic_s
             /\ \A m \in j..i : Bad(m, s)
      BY <2>1, <3>1, StartConfirmed
    <3>3. i \in DOMAIN samples
      BY <2>1, <2>2, TimesRestored
    <3>4. EvaluationTime = recording[i].line.recorded_monotonic_s
      BY <3>1, <3>3, FreshSample
    <3>5. /\ recording[i].line.recorded_monotonic_s \in Nat /\ recording[i].line.at \in Int
          /\ recording[j].line.recorded_monotonic_s \in Nat /\ recording[j].line.at \in Int
          /\ recording[i].line.recorded_monotonic_s - recording[j].line.recorded_monotonic_s
                <= recording[i].line.at - recording[j].line.at
      BY <3>3, ClockIsBehind
    <3>6. recording[i].line.at - recording[j].line.at >= ActivationDelay
      BY <3>1, <3>2, <3>4, <3>5, ReplayAssumption
    <3> QED
      BY <3>2, <3>6
  <2>5. ASSUME NEW k \in 1..i, NEW s \in evaluated'[k].raised
        PROVE  \E j \in 1..k :
                  /\ recording[k].line.at - recording[j].line.at >= ActivationDelay
                  /\ \A m \in j..k : Bad(m, s)
    <3>1. CASE k = i
      BY <2>3, <2>4, <2>5, <3>1
    <3>2. CASE k \in 1..(i - 1)
      <4>1. s \in evaluated[k].raised /\ k \in DOMAIN evaluated
        BY <2>2, <2>3, <2>5, <3>2
      <4> QED
        BY <4>1 DEF RaisedIsConfirmed, Bad
    <3> QED
      BY <2>2, <3>1, <3>2
  <2>6. /\ DOMAIN evaluated' = 1..i
        /\ \A k \in 1..i : \A s \in evaluated'[k].raised : \E j \in 1..k :
              /\ recording'[k].line.at - recording'[j].line.at >= ActivationDelay
              /\ \A m \in j..k : /\ s \in recording'[m].given.faulty
                                 /\ ~recording'[m].older
                                 /\ recording'[m].given.age <= DataTimeout
    BY <2>1, <2>3, <2>5 DEF Bad
  <2> QED
    BY <2>6 DEF RaisedIsConfirmed
<1> QED
  BY <1>1, <1>2, <1>3 DEF Step, Next, Replay, OpenRecording, Pace, ReturnSamples, Finish,
     Construct, Start, replayVars, vars

-----------------------------------------------------------------------------
(* The theorems                                                            *)

LEMMA InvInit == Init => IInv
<1> SUFFICES ASSUME Init PROVE IInv
  OBVIOUS
<1>1. RecorderInv
  BY RecorderInit0
<1>2. /\ rpc = "start" /\ samples = <<>> /\ i = 1 /\ recording = <<>> /\ evaluated = <<>>
      /\ unhealthySensors = {} /\ unhealthySince = [s \in {} |-> 0]
  BY DEF Init, Engine!EngineInit, Engine!EmptyMap
<1>3. samples \in Seq({samples[k] : k \in DOMAIN samples}) /\ DOMAIN <<>> = {}
  BY <1>2
<1>4. LoadedOK
  BY <1>2, <1>3 DEF LoadedOK, RestoredAsRecorded
<1>5. PacedOK /\ SinceIsConfirmed /\ RaisedIsConfirmed
  BY <1>2, <1>3 DEF PacedOK, SinceIsConfirmed, RaisedIsConfirmed
<1> QED
  BY <1>1, <1>4, <1>5 DEF IInv

LEMMA InvNext == IInv /\ Step => IInv'
BY RecorderNextInv, LoadedNext, PacedNext, SinceNext, RaisedNext DEF IInv

LEMMA InvHolds ==
    IInv => /\ NeverFasterThanPeriod /\ NoSilentLoss /\ RestoredAsRecorded
            /\ EvaluatedInOrder /\ RaisedIsConfirmed
BY NoneLost, Sorted DEF IInv, RecorderInv, LoadedOK

LEMMA InvAlways == Spec => []IInv
BY InvInit, InvNext, Steps, PTL DEF Spec

LEMMA DisplayInvAlways == DisplaySpec => []IInv
BY InvInit, InvNext, Steps, PTL DEF DisplaySpec, DisplayInit

\* In one run the program never takes two snapshots less than a sample period apart,
\* whatever writes fail, and whenever it is late or started again.
THEOREM NeverFaster == Spec => []NeverFasterThanPeriod
BY InvAlways, InvHolds, PTL

\* A recording that can be read holds all that was acknowledged, in the order of
\* recording: a line that could spoil another makes the recording unreadable.
THEOREM NothingSilentlyLost == Spec => []NoSilentLoss
BY InvAlways, InvHolds, PTL

\* Every member of every snapshot and every time comes back, for any zone of an older
\* recorder and any snapshots.
THEOREM Restored == Spec => []RestoredAsRecorded
BY InvAlways, InvHolds, PTL

\* The engine sees a recording in the order of its system clock or not at all.
THEOREM InOrderEvaluated == Spec => []EvaluatedInOrder
BY InvAlways, InvHolds, PTL

\* A sensor that a replay raises was bad for the activation delay, by statuses known to
\* be fresh, whatever the clocks did while it was recorded.
THEOREM Confirmed == Spec => []RaisedIsConfirmed
BY InvAlways, InvHolds, PTL

\* The same with the replay display as the reader of the recording.
THEOREM DisplayKeeps ==
    DisplaySpec => [](/\ NeverFasterThanPeriod /\ NoSilentLoss /\ RestoredAsRecorded
                      /\ EvaluatedInOrder /\ RaisedIsConfirmed)
BY DisplayInvAlways, InvHolds, PTL

-----------------------------------------------------------------------------
(* The replay display                                                      *)

\* The display's state is that of the sample at its index.
ShowsIndex ==
    /\ index \in DOMAIN samples
    /\ valid = {g \in DOMAIN Needed : HasReading(Snapshot(recording[index]), g)}
    /\ \A g \in valid : shown[g] = index
    /\ connected = ("HEARTBEAT" \in recording[index].given.received)

DisplayInv ==
    /\ rpc \in {"display", "displaying"} => ShowsIndex
    /\ rpc = "displaying" => timer

\* Whatever the gap between two samples and whatever its conversion makes of it, the
\* delay is one a timer starts with.
LEMMA DelayStarts ==
    ASSUME LoadedOK, NEW k \in DOMAIN samples
    PROVE  DelayToNextSample(k) >= 0 /\ Following(k) \in DOMAIN samples
<1>1. PICK n \in Nat : n = Len(samples) /\ DOMAIN samples = 1..n /\ k \in 1..n
  BY TimesRestored
<1>2. Following(k) \in 1..n
  <2>1. k % n \in 0..(n - 1)
    BY <1>1
  <2> QED
    BY <1>1, <2>1 DEF Following
<1>3. PICK gap \in Int :
         gap = samples[Following(k)].recorded_at - samples[k].recorded_at
  BY <1>1, <1>2, TimesRestored
<1>4. ToInt(gap * TickMs) \in Int
  <2>1. PICK m \in Int : m = gap * TickMs
    BY PfdReplayAssumption
  <2>2. \A a \in Int, b \in Nat : b > 0 => a % b \in Int
    OBVIOUS
  <2>3. IntLimit \in Nat /\ 2 * IntLimit \in Nat /\ 2 * IntLimit > 0 /\ m + IntLimit \in Int
    BY PfdReplayAssumption
  <2>4. (m + IntLimit) % (2 * IntLimit) \in Int
    BY <2>2, <2>3
  <2> QED
    BY <2>1, <2>3, <2>4 DEF ToInt
<1>5. Clamp(ToInt(gap * TickMs)) >= 0
  BY <1>4, PfdReplayAssumption DEF Clamp
<1>6. LongestDelay \div 2 >= 0 /\ LongestDelay \div 4 >= 0
  BY PfdReplayAssumption
<1>7. DelayToNextSample(k) \in {LongestDelay \div 2, LongestDelay \div 4,
                                Clamp(ToInt(gap * TickMs))}
  BY <1>3 DEF DelayToNextSample
<1> QED
  BY <1>1, <1>2, <1>5, <1>6, <1>7

\* Showing a sample takes everything from it.
LEMMA ApplyShows ==
    ASSUME LoadedOK, NEW k \in DOMAIN samples, ApplySample(k), UNCHANGED <<samples, recording>>
    PROVE  ShowsIndex'
<1>1. samples[k].telemetry = Snapshot(recording[k])
  BY DEF LoadedOK, RestoredAsRecorded
<1>2. ValidIn(k) = {g \in DOMAIN Needed : HasReading(Snapshot(recording[k]), g)}
  BY <1>1 DEF ValidIn
<1>3. samples[k].telemetry.connection["connected"]
         = ("HEARTBEAT" \in recording[k].given.received)
  <2>1. "connection" \in DOMAIN Member
    BY DEF Member
  <2>2. "connected" \in DOMAIN Snapshot(recording[k])["connection"]
    <3>1. DOMAIN Snapshot(recording[k])["connection"]
             = Valued("connection", recording[k].given.received, recording[k].given.sentinels)
                  \ Unknown(recording[k])
      BY <2>1, SnapshotMembers
    <3>2. "connected" \in Valued("connection", recording[k].given.received,
                                 recording[k].given.sentinels)
      BY DEF Valued, Member, Always
    <3> QED
      BY <3>1, <3>2 DEF Unknown, Stamp
  <2>3. Snapshot(recording[k])["connection"]["connected"]
           = ("HEARTBEAT" \in recording[k].given.received)
    BY <2>1, <2>2, MemberValue DEF Stamp
  <2> QED
    BY <1>1, <2>3
<1>4. index' = k /\ valid' = ValidIn(k) /\ valid' \subseteq DOMAIN Needed
  BY DEF ApplySample, ValidIn
<1>5. \A g \in valid' : shown'[g] = k
  BY <1>4 DEF ApplySample
<1>6. connected' = ("HEARTBEAT" \in recording[k].given.received)
  BY <1>3 DEF ApplySample
<1>7. index' \in DOMAIN samples' /\ recording' = recording
  BY <1>4
<1> QED
  BY <1>2, <1>4, <1>5, <1>6, <1>7 DEF ShowsIndex

LEMMA DisplayInvNext ==
    LoadedOK /\ DisplayInv /\ [DisplayNext]_displayAndVars => DisplayInv'
<1> SUFFICES ASSUME LoadedOK, DisplayInv, [DisplayNext]_displayAndVars PROVE DisplayInv'
  OBVIOUS
<1>1. CASE UNCHANGED displayAndVars
  BY <1>1 DEF displayAndVars, displayVars, vars, replayVars, DisplayInv, ShowsIndex
<1>2. CASE Next /\ UNCHANGED displayVars
  <2>1. rpc' \in {"display", "displaying"} =>
           rpc' = rpc /\ UNCHANGED <<samples, recording>>
    BY <1>2 DEF Next, Replay, OpenRecording, Load, Pace, ReturnSamples, EvaluateSample,
       Finish, replayVars
  <2> QED
    BY <1>2, <2>1 DEF displayVars, DisplayInv, ShowsIndex
<1>3. CASE Construct
  <2>1. CASE samples = <<>>
    BY <1>3, <2>1 DEF Construct, DisplayInv
  <2>2. CASE samples # <<>>
    <3>1. 1 \in DOMAIN samples
      BY <2>2, EmptySeq DEF LoadedOK
    <3>2. rpc' = "display" /\ ApplySample(1) /\ UNCHANGED <<samples, recording>>
      BY <1>3, <2>2 DEF Construct
    <3> QED
      BY <3>1, <3>2, ApplyShows DEF DisplayInv
  <2> QED
    BY <2>1, <2>2
<1>4. CASE Start
  <2>1. /\ ShowsIndex /\ timer' = (DelayToNextSample(index) >= 0)
        /\ UNCHANGED <<samples, recording, index, valid, shown, connected>>
    BY <1>4 DEF Start, StartTimer, DisplayInv
  <2>2. DelayToNextSample(index) >= 0
    BY <2>1, DelayStarts DEF ShowsIndex
  <2> QED
    BY <2>1, <2>2 DEF DisplayInv, ShowsIndex
<1>5. CASE Advance
  <2>1. /\ ShowsIndex /\ ApplySample(Following(index))
        /\ timer' = (DelayToNextSample(Following(index)) >= 0)
        /\ UNCHANGED <<rpc, samples, recording>>
    BY <1>5 DEF Advance, StartTimer, DisplayInv, vars, replayVars
  <2>2. Following(index) \in DOMAIN samples
    BY <2>1, DelayStarts DEF ShowsIndex
  <2>3. DelayToNextSample(Following(index)) >= 0
    BY <2>2, DelayStarts
  <2>4. ShowsIndex'
    BY <2>1, <2>2, ApplyShows
  <2> QED
    BY <2>1, <2>3, <2>4 DEF DisplayInv
<1> QED
  BY <1>1, <1>2, <1>3, <1>4, <1>5 DEF DisplayNext

\* The display never stops and mixes no two samples: once started, its timer is always
\* running, and what it shows is the sample at its index as it was recorded, for any
\* gap, any clock set back and any width of the int (pfd_replay_model.cpp:40-45, 80-95).
\* With it, EverySampleIsShown only needs that the timer expires.
THEOREM DisplayGoesOn == DisplaySpec => [](rpc = "displaying" => timer /\ Shows(index))
<1>1. DisplayInit => LoadedOK /\ DisplayInv
  <2>1. Init => rpc = "start"
    BY DEF Init
  <2> QED
    BY <2>1, InvInit DEF DisplayInit, IInv, DisplayInv
<1>2. LoadedOK /\ DisplayInv => (rpc = "displaying" => timer /\ Shows(index))
  BY DEF DisplayInv, ShowsIndex, Shows
<1>3. DisplaySpec => []LoadedOK
  BY DisplayInvAlways, PTL DEF IInv
<1> QED
  BY <1>1, <1>2, <1>3, DisplayInvNext, PTL DEF DisplaySpec

=============================================================================
