-------------------------- MODULE MCAlarmObserver --------------------------
(* The observed pipeline with every kind of SYS_STATUS its sensors allow. *)
EXTENDS AlarmObserver

MCSource == {"HEARTBEAT", "SYS_STATUS"}

\* Each sensor is absent, disabled, healthy or unhealthy; a disabled one has its
\* health bit clear, which must not count as a fault.
Masks ==
    {m \in [id : {"SYS_STATUS"}, present : SUBSET Sensor,
            enabled : SUBSET Sensor, health : SUBSET Sensor] :
        m.health \subseteq m.enabled /\ m.enabled \subseteq m.present}

\* STATUSTEXT has no registered handler.
MCMessage == Masks \cup {[id |-> "HEARTBEAT"], [id |-> "STATUSTEXT"]}
=============================================================================
