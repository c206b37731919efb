-------------------------- MODULE WarningPipeline --------------------------
(***************************************************************************)
(* A TelemetryReader and a WarningEngine over one snapshot and one clock.  *)
(* Messages, refreshes of the connection status, evaluations and the       *)
(* passage of time come in any order: both programs that drive this pair,  *)
(* the monitor (main.cpp) and the live display (pfd_live_model.cpp), are   *)
(* shown to implement this module, so what holds here holds for both.      *)
(***************************************************************************)
EXTENDS WarningEngine

CONSTANT Message    \* the MAVLink messages that may arrive

VARIABLE now        \* the monotonic clock, in ticks

pipelineVars == <<readerVars, engineVars, now>>

Init ==
    /\ ReaderInit
    /\ EngineInit
    /\ now = 0

Receive(msg) ==
    /\ ProcessMessage(msg, now)
    /\ UNCHANGED <<engineVars, now>>

\* refresh_connection_status
Refresh ==
    /\ connected' = HeartbeatAlive(now)
    /\ UNCHANGED <<stamp, finite, sensors, engineVars, now>>

\* evaluate(data), on the connection status data has.
EvaluateData ==
    /\ Evaluate(connected, now)
    /\ UNCHANGED <<readerVars, now>>

\* The monitor clears the flag by hand when the connection fails, and evaluates.
DeclareDown ==
    /\ connected' = FALSE
    /\ Evaluate(FALSE, now)
    /\ UNCHANGED <<stamp, finite, sensors, now>>

\* The monitor clears the flag when it ends; nothing is evaluated any more.
Drop ==
    /\ connected' = FALSE
    /\ UNCHANGED <<stamp, finite, sensors, engineVars, now>>

Tick ==
    /\ now' = now + 1
    /\ UNCHANGED <<readerVars, engineVars>>

Next ==
    \/ \E msg \in Message : Receive(msg)
    \/ Refresh
    \/ EvaluateData
    \/ DeclareDown
    \/ Drop
    \/ Tick

Spec == Init /\ [][Next]_pipelineVars

=============================================================================
