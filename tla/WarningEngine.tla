--------------------------- MODULE WarningEngine ---------------------------
(***************************************************************************)
(* WarningEngine::evaluate.  The engine reads the snapshot the reader      *)
(* writes and returns the warnings that changed: at most one event per     *)
(* code and evaluation.  A sensor warning is debounced with two maps of    *)
(* start times; stale SYS_STATUS data clears everything.                   *)
(***************************************************************************)
EXTENDS TelemetryReader

CONSTANTS
    ActivationDelay,    \* _sensor_activation_delay_s
    ClearDelay,         \* _sensor_clear_delay_s
    DataTimeout         \* _sensor_data_timeout_s

\* The checks of the constructor.
ASSUME EngineAssumption ==
    /\ ActivationDelay \in Nat
    /\ ClearDelay \in Nat
    /\ DataTimeout \in Nat \ {0}
    /\ "CONNECTION_LOST" \notin Sensor

VARIABLES
    connectionLostActive,   \* the CONNECTION_LOST warning is raised
    unhealthySensors,       \* sensors whose warning is raised
    unhealthySince,         \* start of a fault that is not raised yet
    healthySince,           \* start of a recovery that is not cleared yet
    events                  \* what the last call of evaluate returned

engineVars == <<connectionLostActive, unhealthySensors, unhealthySince,
                healthySince, events>>

\* SENSOR_UNHEALTHY_<NAME> is written as the sensor itself.
Code == Sensor \cup {"CONNECTION_LOST"}
Event == [code : Code, active : BOOLEAN]

EmptyMap == [s \in {} |-> 0]
IsSinceMap(f) == DOMAIN f \subseteq Sensor /\ \A s \in DOMAIN f : f[s] \in Time

EngineInit ==
    /\ connectionLostActive = FALSE
    /\ unhealthySensors = {}
    /\ unhealthySince = EmptyMap
    /\ healthySince = EmptyMap
    /\ events = {}

-----------------------------------------------------------------------------
(* evaluate_connection                                                     *)

\* Mutant of ConnectionEvents: the comparison with the last state is dropped.
ConnectionEventsAlways(up) ==
    {e \in [code : {"CONNECTION_LOST"}, active : {~up}] : stamp["HEARTBEAT"] # None}

\* No warning before the first heartbeat; afterwards only a change is an event.
ConnectionEvents(up) ==
    {e \in [code : {"CONNECTION_LOST"}, active : {~up}] :
        /\ stamp["HEARTBEAT"] # None
        /\ connectionLostActive = up}

EvaluateConnection(up) ==
    connectionLostActive' = IF stamp["HEARTBEAT"] = None
                            THEN connectionLostActive ELSE ~up

-----------------------------------------------------------------------------
(* evaluate_sensors                                                        *)

\* Mutant of StatusFresh: a status never expires.
StatusOnceReceived(now) == stamp["SYS_STATUS"] # None

StatusFresh(now) == IsFresh(stamp["SYS_STATUS"], now, DataTimeout)

CurrentlyUnhealthy ==
    {s \in Sensor : sensors[s].present /\ sensors[s].enabled /\ ~sensors[s].healthy}

\* Mutant of Started: the entry is made with a sentinel instead of the time.
StartedUnset(map, s, now) == IF s \in DOMAIN map THEN map[s] ELSE -1

\* try_emplace: keep the start time the map has, or start now.
Started(map, s, now) == IF s \in DOMAIN map THEN map[s] ELSE now

\* Mutant of Activated: the delay is not waited for.
ActivatedAtOnce(now) == CurrentlyUnhealthy \ unhealthySensors

\* Not yet raised, and bad for the activation delay.
Activated(now) ==
    {s \in CurrentlyUnhealthy \ unhealthySensors :
        now - Started(unhealthySince, s, now) >= ActivationDelay}

\* Raised, and recovered for the clear delay.
Cleared(now) ==
    {s \in unhealthySensors \ CurrentlyUnhealthy :
        now - Started(healthySince, s, now) >= ClearDelay}

\* Entries left in _unhealthy_since: those of sensors still bad, the new ones,
\* less the ones just raised.
Pending(now) ==
    ((CurrentlyUnhealthy \cap DOMAIN unhealthySince)
        \cup (CurrentlyUnhealthy \ unhealthySensors)) \ Activated(now)

\* Mutant of Recovering: a relapse does not erase the start of the recovery.
RecoveringThroughRelapse(now) ==
    (DOMAIN healthySince \cup (unhealthySensors \ CurrentlyUnhealthy)) \ Cleared(now)

\* Entries left in _healthy_since.
Recovering(now) ==
    ((DOMAIN healthySince \cup unhealthySensors) \ CurrentlyUnhealthy) \ Cleared(now)

\* Mutant of SensorEvents: stale data clears the set without telling anyone.
SensorEventsSilentWhenStale(now) ==
    IF StatusFresh(now)
    THEN [code : Activated(now), active : {TRUE}]
            \cup [code : Cleared(now), active : {FALSE}]
    ELSE {}

SensorEvents(now) ==
    IF StatusFresh(now)
    THEN [code : Activated(now), active : {TRUE}]
            \cup [code : Cleared(now), active : {FALSE}]
    ELSE [code : unhealthySensors, active : {FALSE}]

\* Mutant of EvaluateSensors: pending start times survive a stale period.
EvaluateSensorsKeepPending(now) ==
    IF StatusFresh(now)
    THEN /\ unhealthySensors' = (unhealthySensors \cup Activated(now)) \ Cleared(now)
         /\ unhealthySince' = [s \in Pending(now) |-> Started(unhealthySince, s, now)]
         /\ healthySince' = [s \in Recovering(now) |-> Started(healthySince, s, now)]
    ELSE /\ unhealthySensors' = {}
         /\ healthySince' = EmptyMap
         /\ UNCHANGED unhealthySince

EvaluateSensors(now) ==
    IF StatusFresh(now)
    THEN /\ unhealthySensors' = (unhealthySensors \cup Activated(now)) \ Cleared(now)
         /\ unhealthySince' = [s \in Pending(now) |-> Started(unhealthySince, s, now)]
         /\ healthySince' = [s \in Recovering(now) |-> Started(healthySince, s, now)]
    ELSE /\ unhealthySensors' = {}
         /\ unhealthySince' = EmptyMap
         /\ healthySince' = EmptyMap

-----------------------------------------------------------------------------

\* evaluate(data, now); "up" is data.connection.connected at the call.
Evaluate(up, now) ==
    /\ EvaluateConnection(up)
    /\ EvaluateSensors(now)
    /\ events' = ConnectionEvents(up) \cup SensorEvents(now)

EngineTypeOK ==
    /\ connectionLostActive \in BOOLEAN
    /\ unhealthySensors \subseteq Sensor
    /\ IsSinceMap(unhealthySince)
    /\ IsSinceMap(healthySince)
    /\ events \subseteq Event

=============================================================================
