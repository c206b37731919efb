--------------------------- MODULE TelemetryRecord ---------------------------
(***************************************************************************)
(* A recorded snapshot: TelemetryData as the reader's handlers fill it,    *)
(* the JSON object the recorder makes of it and what the replay makes of   *)
(* the object.  A section of a snapshot maps its members that have a value *)
(* to the values, a section of an object all its keys, and null is None.   *)
(***************************************************************************)
EXTENDS Integers

CONSTANT None

\* The members of TelemetryData and its sections.
Member ==
    [snapshot     |-> {"last_message_monotonic_s"},
     connection   |-> {"connected", "last_heartbeat_monotonic_s", "autopilot_type",
                       "vehicle_type", "system_status"},
     battery      |-> {"last_update_monotonic_s", "battery_id", "voltage_v", "current_a",
                       "remaining_percent", "temperature_c"},
     system       |-> {"last_update_monotonic_s", "load_percent",
                       "communication_drop_percent", "communication_errors", "sensors"},
     attitude     |-> {"last_update_monotonic_s", "roll_rad", "pitch_rad", "yaw_rad",
                       "roll_rate_rad_s", "pitch_rate_rad_s", "yaw_rate_rad_s"},
     motion       |-> {"altitude_last_update_monotonic_s",
                       "local_position_last_update_monotonic_s", "relative_altitude_m",
                       "local_altitude_m", "velocity_north_m_s", "velocity_east_m_s",
                       "velocity_down_m_s"},
     estimator    |-> {"last_update_monotonic_s", "flags", "velocity_ratio",
                       "horizontal_position_ratio", "vertical_position_ratio",
                       "magnetometer_ratio", "horizontal_accuracy_m",
                       "vertical_accuracy_m"},
     vibration    |-> {"last_update_monotonic_s", "x_m_s2", "y_m_s2", "z_m_s2",
                       "clipping_0", "clipping_1", "clipping_2"},
     flight_state |-> {"last_update_monotonic_s", "landed_state"}]

\* Freshness metadata, which older recordings do not have.
Stamp == {"last_message_monotonic_s", "last_heartbeat_monotonic_s",
          "last_update_monotonic_s", "altitude_last_update_monotonic_s",
          "local_position_last_update_monotonic_s"}

-----------------------------------------------------------------------------
(* What the reader's handlers assign                                       *)

AltitudeMember == {"altitude_last_update_monotonic_s", "relative_altitude_m",
                   "local_altitude_m"}

Assigned ==
    [HEARTBEAT          |-> [section |-> "connection", members |-> Member.connection],
     BATTERY_STATUS     |-> [section |-> "battery",    members |-> Member.battery],
     SYS_STATUS         |-> [section |-> "system",     members |-> Member.system],
     ATTITUDE           |-> [section |-> "attitude",   members |-> Member.attitude],
     ALTITUDE           |-> [section |-> "motion",     members |-> AltitudeMember],
     LOCAL_POSITION_NED |-> [section |-> "motion",
                             members |-> Member.motion \ AltitudeMember],
     ESTIMATOR_STATUS   |-> [section |-> "estimator",  members |-> Member.estimator],
     VIBRATION          |-> [section |-> "vibration",  members |-> Member.vibration],
     EXTENDED_SYS_STATE |-> [section |-> "flight_state", members |-> Member.flight_state]]

\* The flag and the map, which are no optionals.
Always == {"connected", "sensors"}

\* The members of a section that have a value once these messages have been received; a
\* sentinel, or a number that is not finite, leaves its member without.
Valued(section, received, sentinels) ==
    IF section = "snapshot" THEN {m \in Member.snapshot : received # {}}
    ELSE LET sources == {msg \in received : Assigned[msg].section = section}
             assigned == UNION {Assigned[msg].members : msg \in sources}
         IN  (Member[section] \cap Always) \cup (assigned \ sentinels)

-----------------------------------------------------------------------------
(* The two conversions                                                     *)

\* The map of sensors is an object of objects; other values are written as they are.
StateToJson(state) ==
    [present |-> state.present, enabled |-> state.enabled, healthy |-> state.healthy]

ValueToJson(key, value) ==
    IF key = "sensors" THEN [s \in DOMAIN value |-> StateToJson(value[s])] ELSE value

\* to_json writes every member under its own name, one without a value as null.
Written(section) == Member[section]

SectionToJson(section, values) ==
    [key \in Written(section) |->
        IF key \in DOMAIN values THEN ValueToJson(key, values[key]) ELSE None]

ToJson(data) == [section \in DOMAIN Member |-> SectionToJson(section, data[section])]

\* The keys the functions of the replay look up, which the two modules spell apart.
Read ==
    [snapshot     |-> {"last_message_monotonic_s"},
     connection   |-> {"connected", "last_heartbeat_monotonic_s", "autopilot_type",
                       "vehicle_type", "system_status"},
     battery      |-> {"last_update_monotonic_s", "battery_id", "voltage_v", "current_a",
                       "remaining_percent", "temperature_c"},
     system       |-> {"last_update_monotonic_s", "load_percent",
                       "communication_drop_percent", "communication_errors", "sensors"},
     attitude     |-> {"last_update_monotonic_s", "roll_rad", "pitch_rad", "yaw_rad",
                       "roll_rate_rad_s", "pitch_rate_rad_s", "yaw_rate_rad_s"},
     motion       |-> {"altitude_last_update_monotonic_s",
                       "local_position_last_update_monotonic_s", "relative_altitude_m",
                       "local_altitude_m", "velocity_north_m_s", "velocity_east_m_s",
                       "velocity_down_m_s"},
     estimator    |-> {"last_update_monotonic_s", "flags", "velocity_ratio",
                       "horizontal_position_ratio", "vertical_position_ratio",
                       "magnetometer_ratio", "horizontal_accuracy_m",
                       "vertical_accuracy_m"},
     vibration    |-> {"last_update_monotonic_s", "x_m_s2", "y_m_s2", "z_m_s2",
                       "clipping_0", "clipping_1", "clipping_2"},
     flight_state |-> {"last_update_monotonic_s", "landed_state"}]

StateFromJson(object) ==
    [present |-> object.present, enabled |-> object.enabled, healthy |-> object.healthy]

ValueFromJson(key, value) ==
    IF key = "sensors" THEN [s \in DOMAIN value |-> StateFromJson(value[s])] ELSE value

\* A key that is missing reads like null.
SectionFromJson(section, object) ==
    LET found == {key \in Read[section] \cap DOMAIN object : object[key] # None}
    IN  [key \in found |-> ValueFromJson(key, object[key])]

FromJson(object) == [section \in DOMAIN Member |-> SectionFromJson(section, object[section])]

=============================================================================
