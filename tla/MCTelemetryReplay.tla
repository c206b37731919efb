------------------------- MODULE MCTelemetryReplay -------------------------
(* Snapshots before the first message, after all of them with a bad sensor,  *)
(* after some of them with a part of their numbers, as old as may be, and    *)
(* after all of them with a bad sensor, too old.                             *)
(* Microseconds have two digits; the recording begins shortly before a full  *)
(* second.                                                                   *)
EXTENDS TelemetryReplay

All == DOMAIN Assigned

MCGiven ==
    {[received |-> {}, age |-> 0, sentinels |-> {}, faulty |-> {}],
     [received |-> All, age |-> 0, sentinels |-> {}, faulty |-> Sensor],
     [received |-> {"HEARTBEAT", "SYS_STATUS", "ALTITUDE", "LOCAL_POSITION_NED"},
      age |-> 1,
      sentinels |-> {"load_percent", "velocity_east_m_s", "velocity_down_m_s"},
      faulty |-> {}],
     [received |-> All, age |-> 2, sentinels |-> {}, faulty |-> Sensor]}
=============================================================================
