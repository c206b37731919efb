------------------------------ MODULE Monitor ------------------------------
(***************************************************************************)
(* The monitor process: run() of main.cpp.  One thread works through the   *)
(* nested loops below; "pc" is the statement it is about to execute.  Time *)
(* passes only while the thread blocks, in read_once and in sleep_for; a   *)
(* signal may set the shutdown flag between any two statements.            *)
(***************************************************************************)
EXTENDS WarningEngine

CONSTANTS
    Message,            \* messages the link may deliver
    Duration,           \* --duration, 0 for none
    PollTimeout,        \* read_once(1000)
    ReconnectDelay,     \* --reconnect-delay
    RecordPeriod,       \* 1 / --record-rate
    Recording,          \* whether --record is given
    LinkFaults,         \* connect and read_once may throw
    RecorderFaults      \* open and record may throw

ASSUME MonitorAssumption ==
    /\ Duration \in Nat
    /\ PollTimeout \in Nat \ {0}
    /\ ReconnectDelay \in Nat
    /\ RecordPeriod \in Nat
    /\ {Recording, LinkFaults, RecorderFaults} \subseteq BOOLEAN

VARIABLES
    now,        \* the monotonic clock
    pc,         \* the next statement
    until,      \* latest return of the blocking call the thread is in
    shutdown,   \* shutdown_requested
    linkOpen,   \* the connection's descriptor is open
    file,       \* the recording: "none", "closed", "open" or "failed" (failbit)
    nextRecord, \* _next_record_time, None when nothing has been recorded
    stopAt      \* history: when the signal came

processVars == <<until, linkOpen, file, nextRecord>>
vars == <<readerVars, engineVars, now, pc, shutdown, processVars, stopAt>>

Init ==
    /\ ReaderInit
    /\ EngineInit
    /\ now = 0
    /\ pc = "open"
    /\ until = 0
    /\ shutdown = FALSE
    /\ linkOpen = FALSE
    /\ file = IF Recording THEN "closed" ELSE "none"
    /\ nextRecord = None
    /\ stopAt = None

Expired == Duration > 0 /\ now >= Duration

Goto(from, to) == pc = from /\ pc' = to

-----------------------------------------------------------------------------
(* Before and around the loops                                             *)

OpenRecorder ==
    /\ \/ /\ Goto("open", "outer")
          /\ file' = IF file = "closed" THEN "open" ELSE file
          /\ UNCHANGED <<connected, linkOpen>>
       \/ /\ file = "closed" /\ RecorderFaults     \* catch (...): fatal
          /\ Goto("open", "done")
          /\ connected' = FALSE
          /\ linkOpen' = FALSE
          /\ UNCHANGED file
    /\ UNCHANGED <<stamp, finite, sensors, engineVars, now, shutdown, until,
                   nextRecord, stopAt>>

\* Mutant of OuterTest: only the signal ends the outer loop.
OuterTestSignalOnly ==
    /\ Goto("outer", IF shutdown THEN "cleanup" ELSE "connect")
    /\ UNCHANGED <<readerVars, engineVars, now, shutdown, processVars, stopAt>>

OuterTest ==
    /\ Goto("outer", IF shutdown \/ Expired THEN "cleanup" ELSE "connect")
    /\ UNCHANGED <<readerVars, engineVars, now, shutdown, processVars, stopAt>>

Connect ==
    /\ \/ Goto("connect", "inner") /\ linkOpen' = TRUE
       \/ ~linkOpen /\ LinkFaults /\ Goto("connect", "catch") /\ UNCHANGED linkOpen
    /\ UNCHANGED <<readerVars, engineVars, now, shutdown, until, file, nextRecord, stopAt>>

Cleanup ==
    /\ Goto("cleanup", "done")
    /\ connected' = FALSE
    /\ linkOpen' = FALSE
    /\ file' = IF file = "none" THEN file ELSE "closed"
    /\ UNCHANGED <<stamp, finite, sensors, engineVars, now, shutdown, until,
                   nextRecord, stopAt>>

-----------------------------------------------------------------------------
(* The inner loop                                                          *)

\* Mutant of InnerTest: only the deadline ends the inner loop.
InnerTestDeadlineOnly ==
    /\ Goto("inner", IF Expired THEN "outer" ELSE "read")
    /\ until' = IF Expired THEN until ELSE now + PollTimeout
    /\ UNCHANGED <<readerVars, engineVars, now, shutdown, linkOpen, file, nextRecord, stopAt>>

InnerTest ==
    /\ Goto("inner", IF shutdown \/ Expired THEN "outer" ELSE "read")
    /\ until' = IF shutdown \/ Expired THEN until ELSE now + PollTimeout
    /\ UNCHANGED <<readerVars, engineVars, now, shutdown, linkOpen, file, nextRecord, stopAt>>

ReadMessage(msg) ==
    /\ Goto("read", "refresh")
    /\ ProcessMessage(msg, now)
    /\ UNCHANGED <<engineVars, now, shutdown, processVars, stopAt>>

\* The timeout, an interrupted poll, or bytes that do not complete a message.
ReadNothing ==
    /\ Goto("read", "refresh")
    /\ UNCHANGED <<readerVars, engineVars, now, shutdown, processVars, stopAt>>

ReadError ==
    /\ LinkFaults
    /\ Goto("read", "catch")
    /\ UNCHANGED <<readerVars, engineVars, now, shutdown, processVars, stopAt>>

RefreshStatus ==
    /\ Goto("refresh", "evaluate")
    /\ connected' = HeartbeatAlive(now)
    /\ UNCHANGED <<stamp, finite, sensors, engineVars, now, shutdown, processVars, stopAt>>

\* Mutant of EvaluateLoop: the clock was read before the blocking read.
EvaluateLoopEarlyClock ==
    /\ Goto("evaluate", "record")
    /\ Evaluate(connected, until - PollTimeout)
    /\ UNCHANGED <<readerVars, now, shutdown, processVars, stopAt>>

EvaluateLoop ==
    /\ Goto("evaluate", "record")
    /\ Evaluate(connected, now)
    /\ UNCHANGED <<readerVars, now, shutdown, processVars, stopAt>>

RecordDue == nextRecord # None => now >= nextRecord

\* record_if_due; a stream that failed once fails again, and a failed attempt
\* does not move the time of the next one.
Record ==
    /\ \/ /\ (file = "none" \/ ~RecordDue)
          /\ Goto("record", "inner")
          /\ UNCHANGED <<file, nextRecord>>
       \/ /\ file = "open" /\ RecordDue
          /\ Goto("record", "inner")
          /\ nextRecord' = now + RecordPeriod
          /\ UNCHANGED file
       \/ /\ (file = "failed" \/ (file = "open" /\ RecorderFaults))
          /\ RecordDue
          /\ Goto("record", "catch")
          /\ file' = "failed"
          /\ UNCHANGED nextRecord
    /\ UNCHANGED <<readerVars, engineVars, now, shutdown, until, linkOpen,
                   stopAt>>

-----------------------------------------------------------------------------
(* The handler of whatever the loop threw                                  *)

\* Mutant of CatchError: the failed link is not closed.
CatchErrorKeepsLink ==
    /\ Goto("catch", "recover")
    /\ connected' = FALSE
    /\ Evaluate(FALSE, now)
    /\ UNCHANGED <<stamp, finite, sensors, now, shutdown, until, linkOpen, file,
                   nextRecord, stopAt>>

CatchError ==
    /\ Goto("catch", "recover")
    /\ connected' = FALSE
    /\ Evaluate(FALSE, now)
    /\ linkOpen' = FALSE
    /\ UNCHANGED <<stamp, finite, sensors, now, shutdown, until, file, nextRecord, stopAt>>

\* Mutant of SleepEnd: the delay is not cut at the deadline.
SleepEndUncut == now + ReconnectDelay

SleepEnd ==
    IF Duration > 0 /\ Duration < now + ReconnectDelay THEN Duration
                                                       ELSE now + ReconnectDelay

Recover ==
    /\ Goto("recover", IF Expired THEN "cleanup" ELSE IF shutdown THEN "outer"
                       ELSE "sleep")
    /\ until' = IF Expired \/ shutdown THEN until ELSE SleepEnd
    /\ UNCHANGED <<readerVars, engineVars, now, shutdown, linkOpen, file, nextRecord, stopAt>>

\* sleep_for is not cut short by the signal.
Wake ==
    /\ now >= until
    /\ Goto("sleep", "outer")
    /\ UNCHANGED <<readerVars, engineVars, now, shutdown, processVars, stopAt>>

-----------------------------------------------------------------------------

\* The environment: SIGINT or SIGTERM, and time.
Signal ==
    /\ ~shutdown /\ pc # "done"
    /\ shutdown' = TRUE
    /\ stopAt' = now
    /\ UNCHANGED <<readerVars, engineVars, now, pc, processVars>>

Tick ==
    /\ pc \in {"read", "sleep"}
    /\ now < until
    /\ now' = now + 1
    /\ UNCHANGED <<readerVars, engineVars, pc, shutdown, processVars, stopAt>>

Process ==
    \/ OpenRecorder \/ OuterTest \/ Connect \/ Cleanup
    \/ InnerTest \/ ReadNothing \/ ReadError
    \/ \E msg \in Message : ReadMessage(msg)
    \/ RefreshStatus \/ EvaluateLoop \/ Record
    \/ CatchError \/ Recover \/ Wake

Next == Process \/ Signal \/ Tick

\* The thread runs, and time passes however often it comes back from its reads.
Spec == Init /\ [][Next]_vars /\ WF_vars(Process) /\ SF_vars(Tick)

-----------------------------------------------------------------------------
(* Properties                                                              *)

HeartbeatAge == now - stamp["HEARTBEAT"]
Running == pc \notin {"cleanup", "done"}

\* A link that went silent is reported within the heartbeat timeout plus one read,
\* whatever mixture of silence, other traffic, failed reads, failed reconnects and
\* failed recordings the loop goes through.
LossDetectedInTime ==
    Running /\ stamp["HEARTBEAT"] # None
        /\ HeartbeatAge > HeartbeatTimeout + PollTimeout
      => connectionLostActive

\* A sensor warning does not outlive the data it was raised on by more than one
\* reconnect delay and one read, although nothing is evaluated during either.
StaleWarningBounded ==
    Running /\ unhealthySensors # {}
      => now - stamp["SYS_STATUS"] <= DataTimeout + ReconnectDelay + PollTimeout

\* --duration is kept up to one read; the reconnect delay does not overrun it.
StopsByDeadline ==
    Duration > 0 /\ pc # "done" => now < Duration + PollTimeout

LongestWait == IF PollTimeout > ReconnectDelay THEN PollTimeout ELSE ReconnectDelay

\* A signal is obeyed after the blocking call in progress: even one that falls
\* between the test of the flag and the call waits for one call only.
StopsPromptly ==
    shutdown /\ pc # "done" => now - stopAt <= LongestWait

\* However the process ends, fatally or not, the link and the recording are closed
\* and the returned snapshot says disconnected; and the descriptor of a failed link
\* is not held through the reconnect delay.
NothingLeftOpen ==
    /\ pc = "done" => ~linkOpen /\ ~connected /\ file \in {"none", "closed"}
    /\ pc \in {"recover", "sleep"} => ~linkOpen

\* The process ends, by the deadline or the signal, however the link behaves.
Ends == <>(pc = "done")

\* Every step of the monitor is one of the pipeline, so what is proved of the
\* pipeline's warnings holds of the monitor's.
Pipeline == INSTANCE WarningPipeline
ImplementsPipeline == Pipeline!Spec

\* docs/fixed_wing_voice_warning_rules_plan.txt:157: the loss is raised when a
\* heartbeat has been received and none came for longer than the timeout.
LostOnlyAfterTimeout ==
    [][ connectionLostActive' /\ ~connectionLostActive
          => HeartbeatAge > HeartbeatTimeout ]_vars

=============================================================================
