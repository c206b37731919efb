----------------------------- MODULE MCPfdLive -----------------------------
(* A display of the two speeds, which share a message and may lack fields,  *)
(* and a sensor that can fail.                                              *)
EXTENDS PfdLive

MCSource == {"HEARTBEAT", "SYS_STATUS", "LOCAL_POSITION_NED"}
MCItem == {"groundSpeed", "verticalSpeed"}
MCSourceOf == [i \in MCItem |-> "LOCAL_POSITION_NED"]
MCNeeds == [i \in MCItem |-> IF i = "groundSpeed" THEN {"north", "east"} ELSE {"down"}]
MCMaxAge == [g \in MCSource |-> 1]

Status(health) ==
    [id |-> "SYS_STATUS", present |-> Sensor, enabled |-> Sensor, health |-> health]
Speeds(fields) == [id |-> "LOCAL_POSITION_NED", fields |-> fields]

MCMessage ==
    {[id |-> "HEARTBEAT"], Status(Sensor), Status({}),
     Speeds({"down"}), Speeds({"north", "east", "down"})}
=============================================================================
