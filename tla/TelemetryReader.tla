-------------------------- MODULE TelemetryReader --------------------------
(***************************************************************************)
(* TelemetryReader: one handler per MAVLink message, each of which stamps  *)
(* its own group of the shared TelemetryData snapshot with the clock and   *)
(* overwrites the group's values.  The numbers themselves are left out:    *)
(* a reading is the set of its fields that are finite (std::optional with  *)
(* a value), and SYS_STATUS is its three sensor bit masks.                 *)
(***************************************************************************)
EXTENDS Freshness

CONSTANTS
    Sensor,             \* sensors named by SENSOR_BITS
    Source,             \* message ids with a registered handler
    HeartbeatTimeout    \* heartbeat_timeout_s of refresh_connection_status

ASSUME ReaderAssumption ==
    /\ {"HEARTBEAT", "SYS_STATUS"} \subseteq Source
    /\ HeartbeatTimeout \in Nat \ {0}

VARIABLES
    connected,  \* connection.connected
    stamp,      \* time of the last message of each source
    finite,     \* the fields of each source's last reading that have a value
    sensors     \* system.sensors; a name that is not in the map is Absent

readerVars == <<connected, stamp, finite, sensors>>

SensorState == [present : BOOLEAN, enabled : BOOLEAN, healthy : BOOLEAN]
Absent == [present |-> FALSE, enabled |-> FALSE, healthy |-> FALSE]

ReaderInit ==
    /\ connected = FALSE
    /\ stamp = [src \in Source |-> None]
    /\ finite = [src \in Source |-> {}]
    /\ sensors = [s \in Sensor |-> Absent]

-----------------------------------------------------------------------------
(* Message handlers.  "now" is the clock read by process_message.          *)

HandleHeartbeat(now) ==
    /\ connected' = TRUE
    /\ stamp' = [stamp EXCEPT !["HEARTBEAT"] = now]
    /\ UNCHANGED <<finite, sensors>>

\* The map is rebuilt from the masks of this message alone: a sensor that is
\* no longer present disappears with its old state.
HandleSysStatus(msg, now) ==
    /\ stamp' = [stamp EXCEPT !["SYS_STATUS"] = now]
    /\ sensors' = [s \in Sensor |->
                     IF s \in msg.present
                     THEN [present |-> TRUE,
                           enabled |-> s \in msg.enabled,
                           healthy |-> s \in msg.health]
                     ELSE Absent]
    /\ UNCHANGED <<connected, finite>>

\* ATTITUDE, ALTITUDE, LOCAL_POSITION_NED and the other readings.
HandleReading(msg, now) ==
    /\ stamp' = [stamp EXCEPT ![msg.id] = now]
    /\ finite' = [finite EXCEPT ![msg.id] = msg.fields]
    /\ UNCHANGED <<connected, sensors>>

ProcessMessage(msg, now) ==
    \/ msg.id = "HEARTBEAT" /\ HandleHeartbeat(now)
    \/ msg.id = "SYS_STATUS" /\ HandleSysStatus(msg, now)
    \/ msg.id \in Source \ {"HEARTBEAT", "SYS_STATUS"} /\ HandleReading(msg, now)
    \/ msg.id \notin Source /\ UNCHANGED readerVars

\* Mutant of HeartbeatAlive: any message keeps the connection up.
AnyMessageAlive(now) ==
    \E src \in Source : stamp[src] # None /\ now - stamp[src] <= HeartbeatTimeout

\* What refresh_connection_status assigns to connection.connected.
HeartbeatAlive(now) ==
    /\ stamp["HEARTBEAT"] # None
    /\ now - stamp["HEARTBEAT"] <= HeartbeatTimeout

ReaderTypeOK ==
    /\ connected \in BOOLEAN
    /\ stamp \in [Source -> OptionalTime]
    /\ sensors \in [Sensor -> SensorState]

=============================================================================
