--------------------------- MODULE Monitor_proofs ---------------------------
(***************************************************************************)
(* Proofs about the monitor process, for every duration, delay, timeout    *)
(* and set of messages, whichever faults the link and the recorder have.   *)
(***************************************************************************)
EXTENDS Monitor, WarningEngine_proofs

USE DEF Time, OptionalTime

Statement == {"open", "outer", "connect", "inner", "read", "refresh", "evaluate",
              "record", "catch", "recover", "sleep", "cleanup", "done"}

TypeOK ==
    /\ ReaderTypeOK
    /\ EngineTypeOK
    /\ now \in Time
    /\ pc \in Statement
    /\ until \in Time
    /\ shutdown \in BOOLEAN
    /\ linkOpen \in BOOLEAN
    /\ file \in {"none", "closed", "open", "failed"}
    /\ nextRecord \in OptionalTime
    /\ stopAt \in OptionalTime

\* The flag that is evaluated was computed at the time of the evaluation.
StatusIsCurrent == pc = "evaluate" => connected = HeartbeatAlive(now)

\* A blocking call ends by its timeout; it began before the deadline and has waited
\* no longer than it may, nor longer after the signal.
CallsAreBounded ==
    pc \in {"read", "sleep"} =>
        /\ now <= until
        /\ until <= now + LongestWait
        /\ Duration > 0 => until < Duration + PollTimeout
        /\ shutdown => until - stopAt <= LongestWait

\* The last evaluation, or the wait that followed it, knew of a loss at time t.
LossKnownAt(t) ==
    stamp["HEARTBEAT"] # None /\ t - stamp["HEARTBEAT"] > HeartbeatTimeout
      => connectionLostActive

\* Where the loop stands decides for which time the warning is up to date: now,
\* the start of the read in progress, or a read ago.
LossKnown ==
    /\ pc \in {"open", "outer", "connect", "inner", "record"} => LossKnownAt(now)
    /\ pc = "read" => LossKnownAt(until - PollTimeout)
    /\ pc \in {"refresh", "evaluate", "catch"} => LossKnownAt(now - PollTimeout)
    /\ pc \in {"recover", "sleep"} =>
          (stamp["HEARTBEAT"] # None => connectionLostActive)

\* The data of a raised warning is no older than age at time t.
DataWithin(t, age) ==
    unhealthySensors # {}
      => stamp["SYS_STATUS"] # None /\ t - stamp["SYS_STATUS"] <= DataTimeout + age

\* The age grows by the delay of one failed link and by one read between evaluations.
DataAge ==
    /\ pc \in {"record", "recover"} => DataWithin(now, 0)
    /\ pc = "sleep" => DataWithin(until, ReconnectDelay)
    /\ pc \in {"open", "outer", "connect", "inner"} => DataWithin(now, ReconnectDelay)
    /\ pc = "read" => DataWithin(until, ReconnectDelay + PollTimeout)
    /\ pc \in {"refresh", "evaluate", "catch"} =>
          DataWithin(now, ReconnectDelay + PollTimeout)

\* A signal came at a time that is past.
SignalTime == shutdown => stopAt \in Time /\ stopAt <= now

\* The link is closed until it is connected and again when it is to be reopened.
LinkClosed == pc \in {"open", "recover", "sleep"} => ~linkOpen

\* The inductive invariant of the process.
IInv ==
    /\ TypeOK
    /\ StatusIsCurrent
    /\ SignalTime
    /\ CallsAreBounded
    /\ StopsByDeadline
    /\ StopsPromptly
    /\ LossKnown
    /\ DataAge
    /\ LinkClosed
    /\ NothingLeftOpen

-----------------------------------------------------------------------------
(* Type correctness                                                        *)

\* The monitor starts well typed.
LEMMA TypeInit == Init => TypeOK
<1> SUFFICES ASSUME Init PROVE TypeOK
  OBVIOUS
<1>1. ReaderTypeOK /\ EngineTypeOK
  BY ReaderInitType, EngineInitType DEF Init
<1>2. pc \in Statement
  BY DEF Init, Statement
<1> QED
  BY <1>1, <1>2 DEF Init, TypeOK

\* The statements that leave the reader and the engine alone keep the types.
LEMMA TypePlain ==
    ASSUME TypeOK,
           \/ OuterTest \/ Connect \/ InnerTest \/ ReadNothing \/ ReadError
           \/ Record \/ Recover \/ Wake \/ Signal \/ Tick \/ UNCHANGED vars
    PROVE  TypeOK'
<1>1. UNCHANGED <<readerVars, engineVars>>
  BY DEF OuterTest, Connect, InnerTest, ReadNothing, ReadError, Record, Recover, Wake,
     Signal, Tick, vars
<1>2. ReaderTypeOK' /\ EngineTypeOK'
  BY <1>1 DEF TypeOK, ReaderTypeOK, EngineTypeOK, readerVars, engineVars
<1>3. now' \in Time /\ stopAt' \in OptionalTime /\ shutdown' \in BOOLEAN
  <2>1. CASE Signal
    BY <2>1 DEF TypeOK, Signal
  <2>2. CASE Tick
    BY <2>2 DEF TypeOK, Tick
  <2>3. CASE ~Signal /\ ~Tick
    <3>1. UNCHANGED <<now, stopAt, shutdown>>
      BY <2>3 DEF OuterTest, Connect, InnerTest, ReadNothing, ReadError, Record, Recover,
         Wake, vars
    <3> QED
      BY <3>1 DEF TypeOK
  <2> QED
    BY <2>1, <2>2, <2>3
<1>4. pc' \in Statement
  <2>1. \A from, to : Goto(from, to) => pc' = to
    BY DEF Goto
  <2>2. CASE OuterTest \/ Connect \/ InnerTest \/ ReadNothing \/ ReadError
    BY <2>1, <2>2 DEF Statement, OuterTest, Connect, InnerTest, ReadNothing, ReadError
  <2>3. CASE Record \/ Wake
    BY <2>1, <2>3 DEF Statement, Record, Wake
  <2>4. CASE Recover
    BY <2>4 DEF Goto, Statement, Recover
  <2>5. CASE Signal \/ Tick \/ UNCHANGED vars
    BY <2>5 DEF TypeOK, Signal, Tick, vars
  <2> QED
    BY <2>2, <2>3, <2>4, <2>5
<1>5. until' \in Time
  BY MonitorAssumption DEF TypeOK, OuterTest, Connect, InnerTest, ReadNothing, ReadError,
     Record, Recover, SleepEnd, Wake, Signal, Tick, vars, processVars
<1>6. linkOpen' \in BOOLEAN
  BY DEF TypeOK, OuterTest, Connect, InnerTest, ReadNothing, ReadError, Record, Recover,
     Wake, Signal, Tick, vars, processVars
<1>7. file' \in {"none", "closed", "open", "failed"} /\ nextRecord' \in OptionalTime
  <2>1. CASE Record
    BY <2>1, MonitorAssumption DEF TypeOK, Record
  <2>2. CASE ~Record
    BY <2>2 DEF TypeOK, OuterTest, Connect, InnerTest, ReadNothing, ReadError, Recover,
       Wake, Signal, Tick, vars, processVars
  <2> QED
    BY <2>1, <2>2
<1> QED
  BY <1>2, <1>3, <1>4, <1>5, <1>6, <1>7 DEF TypeOK

\* Every step of the monitor keeps the types.
LEMMA TypeNext == TypeOK /\ [Next]_vars => TypeOK'
<1> SUFFICES ASSUME TypeOK, [Next]_vars PROVE TypeOK'
  OBVIOUS
<1>1. CASE OpenRecorder \/ Cleanup \/ RefreshStatus
  <2>1. connected' \in BOOLEAN /\ UNCHANGED <<stamp, finite, sensors, engineVars>>
    BY <1>1 DEF TypeOK, ReaderTypeOK, OpenRecorder, Cleanup, RefreshStatus, HeartbeatAlive
  <2>2. ReaderTypeOK' /\ EngineTypeOK'
    BY <2>1 DEF TypeOK, ReaderTypeOK, EngineTypeOK, engineVars
  <2> QED
    BY <1>1, <2>2 DEF TypeOK, Statement, Goto, OpenRecorder, Cleanup, RefreshStatus,
       processVars
<1>2. ASSUME NEW msg \in Message, ReadMessage(msg) PROVE TypeOK'
  <2>1. ReaderTypeOK'
    BY <1>2, ProcessType DEF TypeOK, ReadMessage
  <2> QED
    BY <1>2, <2>1 DEF TypeOK, EngineTypeOK, engineVars, Statement, Goto, ReadMessage,
       processVars
<1>3. CASE EvaluateLoop \/ CatchError
  <2>1. PICK up \in BOOLEAN : Evaluate(up, now)
    BY <1>3 DEF TypeOK, ReaderTypeOK, EvaluateLoop, CatchError
  <2>2. EngineTypeOK'
    BY <2>1, EvaluateType DEF TypeOK
  <2>3. connected' \in BOOLEAN /\ UNCHANGED <<stamp, finite, sensors>>
    BY <1>3 DEF TypeOK, ReaderTypeOK, EvaluateLoop, CatchError, readerVars
  <2>4. ReaderTypeOK'
    BY <2>3 DEF TypeOK, ReaderTypeOK
  <2> QED
    BY <1>3, <2>2, <2>4 DEF TypeOK, Statement, Goto, EvaluateLoop, CatchError, processVars
<1> QED
  BY <1>1, <1>2, <1>3, TypePlain DEF Next, Process

-----------------------------------------------------------------------------
(* The times of the blocking calls, of the deadline and of the signal      *)

TimesOK == SignalTime /\ CallsAreBounded /\ StopsByDeadline /\ StopsPromptly

\* Only the start of a call, the signal and the clock change what the bounds speak of.
LEMMA OtherSteps ==
    ASSUME [Next]_vars, ~InnerTest, ~Recover, ~Signal, ~Tick
    PROVE  /\ UNCHANGED <<now, until, shutdown, stopAt>>
           /\ pc' \in {"read", "sleep"} => pc' = pc
           /\ pc = "done" => pc' = pc
<1> USE DEF Goto
<1>1. CASE OpenRecorder \/ OuterTest \/ Connect \/ Cleanup
  BY <1>1 DEF OpenRecorder, OuterTest, Connect, Cleanup, processVars
<1>2. CASE ReadNothing \/ ReadError \/ (\E msg \in Message : ReadMessage(msg)) \/ Wake
  BY <1>2 DEF ReadNothing, ReadError, ReadMessage, Wake, processVars
<1>3. CASE RefreshStatus \/ EvaluateLoop \/ Record \/ CatchError
  BY <1>3 DEF RefreshStatus, EvaluateLoop, Record, CatchError, processVars
<1>4. CASE UNCHANGED vars
  BY <1>4 DEF vars, processVars
<1> QED
  BY <1>1, <1>2, <1>3, <1>4 DEF Next, Process

\* A read begins before the deadline and without a signal.
LEMMA ReadBegins ==
    ASSUME TypeOK, TimesOK, InnerTest
    PROVE  TimesOK'
<1>1. UNCHANGED <<now, shutdown, stopAt>> /\ pc = "inner"
  BY DEF InnerTest, Goto
<1>2. CASE shutdown \/ Expired
  <2>1. pc' = "outer"
    BY <1>2 DEF InnerTest, Goto
  <2> QED
    BY <1>1, <2>1 DEF TimesOK, SignalTime, CallsAreBounded, StopsByDeadline, StopsPromptly,
       LongestWait
<1>3. CASE ~shutdown /\ ~Expired
  <2>1. pc' = "read" /\ until' = now + PollTimeout
    BY <1>3 DEF InnerTest, Goto
  <2>2. PollTimeout <= LongestWait /\ LongestWait \in Nat
    BY MonitorAssumption DEF LongestWait
  <2> QED
    BY <1>1, <1>3, <2>1, <2>2, MonitorAssumption
       DEF TimesOK, SignalTime, CallsAreBounded, StopsByDeadline, StopsPromptly,
           LongestWait, Expired, TypeOK
<1> QED
  BY <1>2, <1>3

\* A sleep is cut at the deadline and begins without a signal.
LEMMA SleepBegins ==
    ASSUME TypeOK, TimesOK, Recover
    PROVE  TimesOK'
<1>1. UNCHANGED <<now, shutdown, stopAt>> /\ pc = "recover"
  BY DEF Recover, Goto
<1>2. CASE shutdown \/ Expired
  <2>1. pc' \in {"cleanup", "outer"}
    BY <1>2 DEF Recover, Goto
  <2> QED
    BY <1>1, <2>1 DEF TimesOK, SignalTime, CallsAreBounded, StopsByDeadline, StopsPromptly,
       LongestWait
<1>3. CASE ~shutdown /\ ~Expired
  <2>1. pc' = "sleep" /\ until' = SleepEnd
    BY <1>3 DEF Recover, Goto
  <2>2. /\ now <= SleepEnd /\ SleepEnd <= now + ReconnectDelay
        /\ Duration > 0 => SleepEnd <= Duration
    BY <1>3, MonitorAssumption DEF SleepEnd, Expired, TypeOK
  <2>3. ReconnectDelay <= LongestWait /\ LongestWait \in Nat /\ SleepEnd \in Nat
    BY MonitorAssumption DEF LongestWait, SleepEnd, TypeOK
  <2> QED
    BY <1>1, <1>3, <2>1, <2>2, <2>3, MonitorAssumption
       DEF TimesOK, SignalTime, CallsAreBounded, StopsByDeadline, StopsPromptly,
           LongestWait, Expired, TypeOK
<1> QED
  BY <1>2, <1>3

\* Every step keeps the bounds.
LEMMA TimesNext == TypeOK /\ TimesOK /\ [Next]_vars => TimesOK'
<1> SUFFICES ASSUME TypeOK, TimesOK, [Next]_vars PROVE TimesOK'
  OBVIOUS
<1> USE DEF TimesOK, SignalTime, CallsAreBounded, StopsByDeadline, StopsPromptly
<1>1. LongestWait \in Nat /\ LongestWait' = LongestWait
  BY MonitorAssumption DEF LongestWait
<1>2. CASE Signal
  <2>1. UNCHANGED <<now, pc, until>> /\ stopAt' = now /\ shutdown'
    BY <1>2 DEF Signal, processVars
  <2> QED
    BY <1>1, <2>1, MonitorAssumption DEF TypeOK
<1>3. CASE Tick
  <2>1. UNCHANGED <<pc, until, shutdown, stopAt>> /\ now' = now + 1
    BY <1>3 DEF Tick, processVars
  <2>2. pc \in {"read", "sleep"} /\ now < until
    BY <1>3 DEF Tick
  <2> QED
    BY <1>1, <2>1, <2>2, MonitorAssumption DEF TypeOK
<1>4. CASE ~InnerTest /\ ~Recover /\ ~Signal /\ ~Tick
  BY <1>1, <1>4, OtherSteps
<1> QED
  BY <1>2, <1>3, <1>4, ReadBegins, SleepBegins

\* At the start nothing is waited for.
LEMMA TimesInit == Init => TimesOK
BY MonitorAssumption DEF Init, TimesOK, SignalTime, CallsAreBounded, StopsByDeadline,
   StopsPromptly

\* The bounds on the process's end hold with the times of its blocking calls.
LEMMA TimesHold == Spec => [](StopsByDeadline /\ StopsPromptly)
<1>1. Init => TypeOK /\ TimesOK
  BY TypeInit, TimesInit
<1>2. (TypeOK /\ TimesOK) /\ [Next]_vars => (TypeOK /\ TimesOK)'
  BY TypeNext, TimesNext
<1>3. TimesOK => StopsByDeadline /\ StopsPromptly
  BY DEF TimesOK
<1> QED
  BY <1>1, <1>2, <1>3, PTL DEF Spec

\* The process is nowhere, but ended, one read after the deadline or later, for every
\* duration and delay.
THEOREM StopsInTime == Spec => []StopsByDeadline
BY TimesHold, PTL

\* A signal is obeyed within one blocking call: the one in progress or, when it fell
\* between a test and its call, the one about to be made.
THEOREM StopsSoon == Spec => []StopsPromptly
BY TimesHold, PTL

-----------------------------------------------------------------------------
(* What the process holds open                                             *)

\* Every step keeps the link closed where it must be, and what has ended closed.
LEMMA ClosedNext ==
    ASSUME TypeOK, LinkClosed, NothingLeftOpen, [Next]_vars
    PROVE  LinkClosed' /\ NothingLeftOpen'
<1> USE DEF LinkClosed, NothingLeftOpen, Goto
<1>1. CASE OpenRecorder
  BY <1>1 DEF OpenRecorder, TypeOK
<1>2. CASE Cleanup
  BY <1>2 DEF Cleanup, TypeOK
<1>3. CASE Connect
  BY <1>3 DEF Connect
<1>4. CASE OuterTest \/ InnerTest
  BY <1>4 DEF OuterTest, InnerTest
<1>5. CASE ReadNothing \/ ReadError \/ (\E msg \in Message : ReadMessage(msg))
  BY <1>5 DEF ReadNothing, ReadError, ReadMessage
<1>6. CASE RefreshStatus \/ EvaluateLoop \/ Record
  BY <1>6 DEF RefreshStatus, EvaluateLoop, Record
<1>7. CASE CatchError
  BY <1>7 DEF CatchError
<1>8. CASE Recover
  BY <1>8 DEF Recover, processVars
<1>9. CASE Wake
  BY <1>9 DEF Wake
<1>10. CASE Signal \/ Tick \/ UNCHANGED vars
  <2>1. UNCHANGED <<pc, linkOpen, file, connected>>
    BY <1>10 DEF Signal, Tick, vars, processVars, readerVars
  <2> QED
    BY <2>1
<1> QED
  BY <1>1, <1>2, <1>3, <1>4, <1>5, <1>6, <1>7, <1>8, <1>9, <1>10 DEF Next, Process

\* The link, the recording and the connection flag are closed when the process ends,
\* on every path to its end, and no failed link is held through a delay.
THEOREM NothingLeftOpenHolds == Spec => []NothingLeftOpen
<1> DEFINE Inv == TypeOK /\ LinkClosed /\ NothingLeftOpen
<1>1. Init => Inv
  BY TypeInit DEF Init, LinkClosed, NothingLeftOpen
<1>2. Inv /\ [Next]_vars => Inv'
  BY TypeNext, ClosedNext
<1>3. Inv => NothingLeftOpen
  OBVIOUS
<1> HIDE DEF Inv
<1> QED
  BY <1>1, <1>2, <1>3, PTL DEF Spec

-----------------------------------------------------------------------------
(* The age of what the warnings were evaluated on                          *)

\* The flag evaluated is the one just computed: nothing comes between.
LEMMA StatusNext ==
    ASSUME [Next]_vars, StatusIsCurrent
    PROVE  StatusIsCurrent'
<1> USE DEF StatusIsCurrent, Goto
<1>1. CASE RefreshStatus
  BY <1>1 DEF RefreshStatus, HeartbeatAlive
<1>2. CASE Signal \/ UNCHANGED vars
  <2>1. UNCHANGED <<pc, connected, stamp, now>>
    BY <1>2 DEF Signal, vars, readerVars
  <2> QED
    BY <2>1 DEF HeartbeatAlive
<1>3. CASE ~RefreshStatus /\ ~Signal /\ ~UNCHANGED vars
  <2>1. pc' # "evaluate"
    BY <1>3 DEF Next, Process, OpenRecorder, OuterTest, Connect, Cleanup, InnerTest,
       ReadNothing, ReadError, ReadMessage, EvaluateLoop, Record, CatchError, Recover,
       Wake, Tick
  <2> QED
    BY <2>1
<1> QED
  BY <1>1, <1>2, <1>3

\* What holds between the steps and is used below.
Base == TypeOK /\ StatusIsCurrent /\ SignalTime /\ CallsAreBounded

\* A message brings its own time stamp up to now and changes no warning.
LEMMA MessageStep ==
    ASSUME Base, NEW msg, ReadMessage(msg)
    PROVE  /\ pc = "read" /\ pc' = "refresh" /\ UNCHANGED <<now, engineVars>>
           /\ stamp'["HEARTBEAT"] \in {stamp["HEARTBEAT"], now}
           /\ stamp'["SYS_STATUS"] \in {stamp["SYS_STATUS"], now}
BY ProcessStamps, ReaderAssumption DEF Base, TypeOK, ReadMessage, Goto

\* The steps that neither receive nor evaluate nor wait.
LEMMA QuietSteps ==
    ASSUME [Next]_vars, ~EvaluateLoop, ~CatchError, ~Tick,
           \A msg \in Message : ~ReadMessage(msg)
    PROVE  UNCHANGED <<stamp, engineVars, now>>
BY DEF Next, Process, OpenRecorder, OuterTest, Connect, Cleanup, InnerTest, ReadNothing,
   ReadError, RefreshStatus, Record, Recover, Wake, Signal, vars, readerVars

\* Where those steps lead from and to.
LEMMA QuietMoves ==
    ASSUME [Next]_vars, ~EvaluateLoop, ~CatchError, ~Tick,
           \A msg \in Message : ~ReadMessage(msg)
    PROVE  \/ pc' = pc /\ until' = until
           \/ pc' \in {"cleanup", "done"}
           \/ pc = "open" /\ pc' = "outer"
           \/ pc = "outer" /\ pc' = "connect"
           \/ pc = "connect" /\ pc' \in {"inner", "catch"}
           \/ pc = "inner" /\ pc' = "outer"
           \/ pc = "inner" /\ pc' = "read" /\ until' = now + PollTimeout
           \/ pc = "read" /\ pc' \in {"refresh", "catch"}
           \/ pc = "refresh" /\ pc' = "evaluate"
           \/ pc = "record" /\ pc' \in {"inner", "catch"}
           \/ pc = "recover" /\ pc' = "outer"
           \/ pc = "recover" /\ pc' = "sleep" /\ until' = SleepEnd
           \/ pc = "sleep" /\ pc' = "outer" /\ now >= until
<1> USE DEF Goto
<1>1. CASE OpenRecorder \/ OuterTest \/ Connect \/ Cleanup
  BY <1>1 DEF OpenRecorder, OuterTest, Connect, Cleanup
<1>2. CASE InnerTest
  BY <1>2 DEF InnerTest
<1>3. CASE ReadNothing \/ ReadError \/ RefreshStatus \/ Record
  BY <1>3 DEF ReadNothing, ReadError, RefreshStatus, Record
<1>4. CASE Recover
  BY <1>4 DEF Recover
<1>5. CASE Wake
  BY <1>5 DEF Wake
<1>6. CASE Signal \/ UNCHANGED vars
  BY <1>6 DEF Signal, vars, processVars
<1> QED
  BY <1>1, <1>2, <1>3, <1>4, <1>5, <1>6 DEF Next, Process

\* Every step keeps the loop's knowledge of a loss as recent as it claims.
LEMMA LossNext ==
    ASSUME Base, LossKnown, [Next]_vars
    PROVE  LossKnown'
<1> USE DEF LossKnown, LossKnownAt
<1>0. /\ stamp["HEARTBEAT"] \in OptionalTime /\ now \in Time /\ until \in Time
      /\ stamp["HEARTBEAT"] # None => stamp["HEARTBEAT"] \in Time
  BY ReaderAssumption DEF Base, TypeOK, ReaderTypeOK
<1>1. CASE EvaluateLoop
  <2>1. /\ pc = "evaluate" /\ pc' = "record" /\ UNCHANGED <<now, stamp>>
        /\ Evaluate(connected, now)
    BY <1>1 DEF EvaluateLoop, Goto, readerVars
  <2>2. connectionLostActive' = IF stamp["HEARTBEAT"] = None THEN connectionLostActive
                                ELSE ~connected
    BY <2>1, EvaluatedConnection
  <2>3. connected = HeartbeatAlive(now) /\ connected \in BOOLEAN
    BY <2>1 DEF Base, StatusIsCurrent, TypeOK, ReaderTypeOK
  <2>4. stamp["HEARTBEAT"] # None /\ now - stamp["HEARTBEAT"] > HeartbeatTimeout
          => ~HeartbeatAlive(now)
    BY <1>0, ReaderAssumption DEF HeartbeatAlive
  <2>5. stamp["HEARTBEAT"] # None /\ now - stamp["HEARTBEAT"] > HeartbeatTimeout
          => connectionLostActive'
    BY <2>2, <2>3, <2>4, Zenon
  <2> QED
    BY <2>1, <2>5
<1>2. CASE CatchError
  <2>1. /\ pc' = "recover" /\ UNCHANGED <<now, stamp>>
        /\ Evaluate(FALSE, now)
    BY <1>2 DEF CatchError, Goto
  <2> QED
    BY <2>1, EvaluatedConnection
<1>3. ASSUME NEW msg \in Message, ReadMessage(msg) PROVE LossKnown'
  BY <1>0, <1>3, MessageStep, MonitorAssumption, ReaderAssumption
     DEF Base, CallsAreBounded, engineVars
<1>4. CASE Tick
  <2>1. UNCHANGED <<pc, until, stamp, connectionLostActive>> /\ pc \in {"read", "sleep"}
    BY <1>4 DEF Tick, processVars, readerVars, engineVars
  <2> QED
    BY <2>1
<1>5. CASE /\ ~EvaluateLoop /\ ~CatchError /\ ~Tick
           /\ \A msg \in Message : ~ReadMessage(msg)
  BY <1>0, <1>5, QuietSteps, QuietMoves, MonitorAssumption, ReaderAssumption
     DEF Base, CallsAreBounded, engineVars
<1> QED
  BY <1>1, <1>2, <1>3, <1>4, <1>5

\* Every step keeps the data of a raised warning as recent as the loop claims.
LEMMA DataNext ==
    ASSUME Base, DataAge, [Next]_vars
    PROVE  DataAge'
<1> USE DEF DataAge, DataWithin
<1>0. /\ stamp["SYS_STATUS"] \in OptionalTime /\ now \in Time /\ until \in Time
      /\ stamp["SYS_STATUS"] # None => stamp["SYS_STATUS"] \in Time
  BY ReaderAssumption DEF Base, TypeOK, ReaderTypeOK
<1>1. CASE EvaluateLoop \/ CatchError
  <2>1. /\ pc' \in {"record", "recover"} /\ UNCHANGED <<now, stamp>>
        /\ \E up : Evaluate(up, now)
    BY <1>1 DEF EvaluateLoop, CatchError, Goto, readerVars
  <2> QED
    BY <1>0, <2>1, RaisedWhileFresh, EngineAssumption
<1>2. ASSUME NEW msg \in Message, ReadMessage(msg) PROVE DataAge'
  BY <1>0, <1>2, MessageStep, MonitorAssumption, EngineAssumption, NoneAssumption
     DEF Base, CallsAreBounded, engineVars
<1>3. CASE Tick
  <2>1. UNCHANGED <<pc, until, stamp, unhealthySensors>> /\ pc \in {"read", "sleep"}
    BY <1>3 DEF Tick, processVars, readerVars, engineVars
  <2> QED
    BY <2>1
<1>4. CASE /\ ~EvaluateLoop /\ ~CatchError /\ ~Tick
           /\ \A msg \in Message : ~ReadMessage(msg)
  <2>1. SleepEnd \in Int /\ SleepEnd <= now + ReconnectDelay
    BY <1>0, MonitorAssumption DEF SleepEnd
  <2> QED
    BY <1>0, <1>4, <2>1, QuietSteps, QuietMoves, MonitorAssumption, EngineAssumption
       DEF Base, CallsAreBounded, engineVars
<1> QED
  BY <1>1, <1>2, <1>3, <1>4

\* The inductive invariant holds throughout.
LEMMA InductiveInvariant == Spec => []IInv
<1>1. Init => IInv
  <2>1. Init => StatusIsCurrent /\ LossKnown /\ DataAge /\ LinkClosed /\ NothingLeftOpen
    BY ReaderAssumption DEF Init, ReaderInit, EngineInit, StatusIsCurrent, LossKnown,
       LossKnownAt, DataAge, DataWithin, LinkClosed, NothingLeftOpen
  <2> QED
    BY <2>1, TypeInit, TimesInit DEF IInv, TimesOK
<1>2. IInv /\ [Next]_vars => IInv'
  BY TypeNext, TimesNext, ClosedNext, StatusNext, LossNext, DataNext
     DEF IInv, Base, TimesOK
<1> QED
  BY <1>1, <1>2, PTL DEF Spec

\* While a read is in progress the loss is known as of its start, and the read is
\* no longer than its timeout.
LEMMA LossFollows == IInv => LossDetectedInTime
<1> SUFFICES ASSUME IInv, Running, stamp["HEARTBEAT"] # None,
                    HeartbeatAge > HeartbeatTimeout + PollTimeout
             PROVE  connectionLostActive
  BY DEF LossDetectedInTime
<1>1. stamp["HEARTBEAT"] \in Time /\ now \in Time /\ until \in Time
  BY ReaderAssumption DEF IInv, TypeOK, ReaderTypeOK
<1>2. pc \in Statement \ {"cleanup", "done"}
  BY DEF IInv, TypeOK, Running
<1>3. CASE pc = "read"
  <2>1. now <= until
    BY <1>3 DEF IInv, CallsAreBounded
  <2> QED
    BY <1>1, <1>3, <2>1, MonitorAssumption, ReaderAssumption
       DEF IInv, LossKnown, LossKnownAt, HeartbeatAge
<1>4. CASE pc # "read"
  BY <1>1, <1>2, <1>4, MonitorAssumption, ReaderAssumption
     DEF IInv, LossKnown, LossKnownAt, HeartbeatAge, Statement
<1> QED
  BY <1>3, <1>4

\* The age of the data at each statement is within one delay and one read.
LEMMA AgeFollows == IInv => StaleWarningBounded
<1> SUFFICES ASSUME IInv, Running, unhealthySensors # {}
             PROVE  now - stamp["SYS_STATUS"] <= DataTimeout + ReconnectDelay + PollTimeout
  BY DEF StaleWarningBounded
<1>1. now \in Time /\ until \in Time /\ stamp["SYS_STATUS"] \in OptionalTime
  BY ReaderAssumption DEF IInv, TypeOK, ReaderTypeOK
<1>2. pc \in Statement \ {"cleanup", "done"}
  BY DEF IInv, TypeOK, Running
<1>3. CASE pc \in {"read", "sleep"}
  <2>1. now <= until
    BY <1>3 DEF IInv, CallsAreBounded
  <2> QED
    BY <1>1, <1>3, <2>1, MonitorAssumption, EngineAssumption
       DEF IInv, DataAge, DataWithin
<1>4. CASE pc \notin {"read", "sleep"}
  BY <1>1, <1>2, <1>4, MonitorAssumption, EngineAssumption
     DEF IInv, DataAge, DataWithin, Statement
<1> QED
  BY <1>3, <1>4

\* A silent link is reported within the heartbeat timeout plus one read, for every
\* timeout and delay and whatever faults the loop goes through.
THEOREM LossDetected == Spec => []LossDetectedInTime
<1> QED
  BY InductiveInvariant, LossFollows, PTL

\* A raised sensor warning is never kept on data older than its timeout plus one
\* reconnect delay and one read.
THEOREM StaleWarning == Spec => []StaleWarningBounded
<1> QED
  BY InductiveInvariant, AgeFollows, PTL

-----------------------------------------------------------------------------
(* The monitor drives the reader and the engine as the pipeline may        *)

\* The pipeline's operators are the monitor's own.
LEMMA SameOperators ==
    /\ \A msg : ProcessMessage(msg, now) => Pipeline!ProcessMessage(msg, now)
    /\ Pipeline!HeartbeatAlive(now) = HeartbeatAlive(now)
    /\ \A up : Evaluate(up, now) => Pipeline!Evaluate(up, now)
<1>1. \A msg : ProcessMessage(msg, now) => Pipeline!ProcessMessage(msg, now)
  BY DEF ProcessMessage, HandleHeartbeat, HandleSysStatus, HandleReading, Absent,
     readerVars, Pipeline!ProcessMessage, Pipeline!HandleHeartbeat,
     Pipeline!HandleSysStatus, Pipeline!HandleReading, Pipeline!Absent,
     Pipeline!readerVars
<1>2. Pipeline!HeartbeatAlive(now) = HeartbeatAlive(now)
  BY DEF HeartbeatAlive, Pipeline!HeartbeatAlive
<1>3. \A up : Evaluate(up, now) => Pipeline!Evaluate(up, now)
  <2>1. \A map, s : Pipeline!Started(map, s, now) = Started(map, s, now)
    BY DEF Started, Pipeline!Started
  <2>2. Pipeline!CurrentlyUnhealthy = CurrentlyUnhealthy
    BY DEF CurrentlyUnhealthy, Pipeline!CurrentlyUnhealthy
  <2>3. /\ Pipeline!Activated(now) = Activated(now)
        /\ Pipeline!Cleared(now) = Cleared(now)
    BY <2>1, <2>2 DEF Activated, Cleared, Pipeline!Activated, Pipeline!Cleared
  <2>4. /\ Pipeline!Pending(now) = Pending(now)
        /\ Pipeline!Recovering(now) = Recovering(now)
    BY <2>2, <2>3 DEF Pending, Recovering, Pipeline!Pending, Pipeline!Recovering
  <2>5. Pipeline!StatusFresh(now) = StatusFresh(now)
    BY DEF StatusFresh, IsFresh, Pipeline!StatusFresh, Pipeline!IsFresh
  <2>6. Pipeline!SensorEvents(now) = SensorEvents(now)
    BY <2>3, <2>5 DEF SensorEvents, Pipeline!SensorEvents
  <2>7. \A up : Pipeline!ConnectionEvents(up) = ConnectionEvents(up)
    BY DEF ConnectionEvents, Pipeline!ConnectionEvents
  <2>8. EvaluateSensors(now) => Pipeline!EvaluateSensors(now)
    BY <2>1, <2>3, <2>4, <2>5
       DEF EvaluateSensors, EmptyMap, Pipeline!EvaluateSensors, Pipeline!EmptyMap
  <2> QED
    BY <2>6, <2>7, <2>8
       DEF Evaluate, EvaluateConnection, Pipeline!Evaluate, Pipeline!EvaluateConnection
<1> QED
  BY <1>1, <1>2, <1>3

\* Each statement is a step of the pipeline or leaves its variables alone.
LEMMA StepRefines == [Next]_vars => [Pipeline!Next]_(Pipeline!pipelineVars)
<1> SUFFICES ASSUME [Next]_vars PROVE [Pipeline!Next]_(Pipeline!pipelineVars)
  OBVIOUS
<1> USE DEF Pipeline!pipelineVars, Pipeline!readerVars, Pipeline!engineVars
<1>1. CASE (OpenRecorder /\ pc' = "done") \/ Cleanup
  <2>1. Pipeline!Drop
    BY <1>1 DEF OpenRecorder, Goto, Cleanup, Pipeline!Drop, engineVars
  <2> QED
    BY <2>1 DEF Pipeline!Next
<1>2. ASSUME NEW msg \in Message, ReadMessage(msg)
      PROVE  [Pipeline!Next]_(Pipeline!pipelineVars)
  <2>1. Pipeline!Receive(msg)
    BY <1>2, SameOperators DEF ReadMessage, engineVars, Pipeline!Receive
  <2> QED
    BY <2>1 DEF Pipeline!Next
<1>3. CASE RefreshStatus
  <2>1. Pipeline!Refresh
    BY <1>3, SameOperators DEF RefreshStatus, engineVars, Pipeline!Refresh
  <2> QED
    BY <2>1 DEF Pipeline!Next
<1>4. CASE EvaluateLoop
  <2>1. Pipeline!EvaluateData
    BY <1>4, SameOperators DEF EvaluateLoop, readerVars, Pipeline!EvaluateData
  <2> QED
    BY <2>1 DEF Pipeline!Next
<1>5. CASE CatchError
  <2>1. Pipeline!DeclareDown
    BY <1>5, SameOperators DEF CatchError, Pipeline!DeclareDown
  <2> QED
    BY <2>1 DEF Pipeline!Next
<1>6. CASE Tick
  <2>1. Pipeline!Tick
    BY <1>6 DEF Tick, readerVars, engineVars, Pipeline!Tick
  <2> QED
    BY <2>1 DEF Pipeline!Next
<1>7. CASE \/ OpenRecorder /\ pc' # "done"
           \/ OuterTest \/ Connect \/ InnerTest \/ ReadNothing \/ ReadError
           \/ Record \/ Recover \/ Wake \/ Signal \/ UNCHANGED vars
  BY <1>7 DEF OpenRecorder, Goto, OuterTest, Connect, InnerTest, ReadNothing, ReadError,
     Record, Recover, Wake, Signal, vars, readerVars, engineVars
<1> QED
  BY <1>1, <1>2, <1>3, <1>4, <1>5, <1>6, <1>7 DEF Next, Process

\* The monitor implements the pipeline: whatever holds of every run of a reader and
\* an engine over one clock holds of the monitor's.
THEOREM PipelineImplemented == Spec => ImplementsPipeline
<1>1. Init => Pipeline!Init
  BY DEF Init, ReaderInit, EngineInit, Absent, EmptyMap, Pipeline!Init,
     Pipeline!ReaderInit, Pipeline!EngineInit, Pipeline!Absent, Pipeline!EmptyMap
<1> QED
  BY <1>1, StepRefines, PTL DEF Spec, ImplementsPipeline, Pipeline!Spec

=============================================================================
