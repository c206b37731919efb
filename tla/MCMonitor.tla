----------------------------- MODULE MCMonitor -----------------------------
(* The monitor with one sensor that the autopilot reports good or bad. *)
EXTENDS Monitor

MCSource == {"HEARTBEAT", "SYS_STATUS"}

Status(health) ==
    [id |-> "SYS_STATUS", present |-> Sensor, enabled |-> Sensor, health |-> health]

MCMessage == {[id |-> "HEARTBEAT"], Status(Sensor), Status({})}
=============================================================================
