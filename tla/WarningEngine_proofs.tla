------------------------ MODULE WarningEngine_proofs ------------------------
(***************************************************************************)
(* Lemmas about the operators of the reader and the engine, for the proofs *)
(* of the modules that drive them.  "t" is the time given to the operator. *)
(***************************************************************************)
EXTENDS WarningEngine, TLAPS

USE DEF Time, OptionalTime

-----------------------------------------------------------------------------
(* The reader                                                              *)

\* The snapshot starts well typed.
LEMMA ReaderInitType == ReaderInit => ReaderTypeOK
<1>1. Absent \in SensorState
  BY DEF Absent, SensorState
<1> QED
  BY <1>1 DEF ReaderInit, ReaderTypeOK

\* A message leaves the snapshot well typed.
LEMMA ProcessType ==
    ASSUME ReaderTypeOK, NEW t \in Time, NEW msg, ProcessMessage(msg, t)
    PROVE  ReaderTypeOK'
<1>1. CASE HandleHeartbeat(t)
  BY <1>1, ReaderAssumption DEF HandleHeartbeat, ReaderTypeOK
<1>2. CASE HandleSysStatus(msg, t)
  <2>1. connected' \in BOOLEAN /\ stamp' \in [Source -> OptionalTime]
    BY <1>2 DEF HandleSysStatus, ReaderTypeOK
  <2>2. \A s \in Sensor :
          (IF s \in msg.present
           THEN [present |-> TRUE, enabled |-> s \in msg.enabled,
                 healthy |-> s \in msg.health]
           ELSE Absent) \in SensorState
    BY DEF SensorState, Absent
  <2>3. sensors' \in [Sensor -> SensorState]
    BY <1>2, <2>2 DEF HandleSysStatus
  <2> QED
    BY <2>1, <2>3 DEF ReaderTypeOK
<1>3. CASE msg.id \in Source \ {"HEARTBEAT", "SYS_STATUS"} /\ HandleReading(msg, t)
  BY <1>3 DEF HandleReading, ReaderTypeOK
<1>4. CASE UNCHANGED readerVars
  BY <1>4 DEF readerVars, ReaderTypeOK
<1> QED
  BY <1>1, <1>2, <1>3, <1>4 DEF ProcessMessage

\* A message leaves the time stamp of a source alone or sets it to the clock.
LEMMA ProcessStamps ==
    ASSUME ReaderTypeOK, NEW t, NEW msg, ProcessMessage(msg, t), NEW src \in Source
    PROVE  stamp'[src] \in {stamp[src], t}
BY ReaderAssumption DEF ProcessMessage, HandleHeartbeat, HandleSysStatus, HandleReading,
   readerVars, ReaderTypeOK

-----------------------------------------------------------------------------
(* The engine                                                              *)

\* The engine starts well typed.
LEMMA EngineInitType == EngineInit => EngineTypeOK
<1>1. IsSinceMap(EmptyMap)
  BY DEF IsSinceMap, EmptyMap
<1> QED
  BY <1>1 DEF EngineInit, EngineTypeOK

\* Only bad sensors that are not raised are activated, only raised ones that are
\* not bad are cleared.
LEMMA ChangedSets ==
    ASSUME NEW t
    PROVE  /\ Activated(t) \subseteq CurrentlyUnhealthy \ unhealthySensors
           /\ Cleared(t) \subseteq unhealthySensors \ CurrentlyUnhealthy
           /\ CurrentlyUnhealthy \subseteq Sensor
BY DEF Activated, Cleared, CurrentlyUnhealthy

\* A start time, kept or new, is a time.
LEMMA StartedIsTime ==
    ASSUME NEW map, IsSinceMap(map), NEW s \in Sensor, NEW t \in Time
    PROVE  Started(map, s, t) \in Time
BY DEF Started, IsSinceMap

\* An evaluation leaves the engine well typed.
LEMMA EvaluateType ==
    ASSUME EngineTypeOK, NEW t \in Time, NEW up \in BOOLEAN, Evaluate(up, t)
    PROVE  EngineTypeOK'
<1> USE DEF EngineTypeOK
<1>1. connectionLostActive' \in BOOLEAN
  BY DEF Evaluate, EvaluateConnection
<1>2. unhealthySensors' \subseteq Sensor
  BY ChangedSets DEF Evaluate, EvaluateSensors
<1>3. IsSinceMap(unhealthySince')
  <2>1. CASE StatusFresh(t)
    <3>1. Pending(t) \subseteq Sensor
      BY ChangedSets DEF Pending
    <3>2. \A s \in Pending(t) : Started(unhealthySince, s, t) \in Time
      BY <3>1, StartedIsTime
    <3> QED
      BY <2>1, <3>1, <3>2 DEF Evaluate, EvaluateSensors, IsSinceMap
  <2>2. CASE ~StatusFresh(t)
    BY <2>2 DEF Evaluate, EvaluateSensors, EmptyMap, IsSinceMap
  <2> QED
    BY <2>1, <2>2
<1>4. IsSinceMap(healthySince')
  <2>1. CASE StatusFresh(t)
    <3>1. Recovering(t) \subseteq Sensor
      BY DEF Recovering, IsSinceMap
    <3>2. \A s \in Recovering(t) : Started(healthySince, s, t) \in Time
      BY <3>1, StartedIsTime
    <3> QED
      BY <2>1, <3>1, <3>2 DEF Evaluate, EvaluateSensors, IsSinceMap
  <2>2. CASE ~StatusFresh(t)
    BY <2>2 DEF Evaluate, EvaluateSensors, EmptyMap, IsSinceMap
  <2> QED
    BY <2>1, <2>2
<1>5. events' \subseteq Event
  <2>1. ConnectionEvents(up) \subseteq Event
    BY DEF ConnectionEvents, Event, Code
  <2>2. SensorEvents(t) \subseteq Event
    BY ChangedSets DEF SensorEvents, Event, Code
  <2> QED
    BY <2>1, <2>2 DEF Evaluate
<1> QED
  BY <1>1, <1>2, <1>3, <1>4, <1>5

\* After an evaluation the connection warning says what the flag said, once a
\* heartbeat was ever received.
LEMMA EvaluatedConnection ==
    ASSUME NEW up, NEW t, Evaluate(up, t)
    PROVE  connectionLostActive' =
              IF stamp["HEARTBEAT"] = None THEN connectionLostActive ELSE ~up
BY DEF Evaluate, EvaluateConnection

\* Nothing stays raised past an evaluation of a status that is older than the timeout.
LEMMA RaisedWhileFresh ==
    ASSUME NEW up, NEW t, Evaluate(up, t), unhealthySensors' # {}
    PROVE  stamp["SYS_STATUS"] # None /\ t - stamp["SYS_STATUS"] <= DataTimeout
BY DEF Evaluate, EvaluateSensors, StatusFresh, IsFresh

\* The codes of the warnings that are raised.
RaisedCodes ==
    unhealthySensors \cup IF connectionLostActive THEN {"CONNECTION_LOST"} ELSE {}

\* Applied to what was raised, the events an evaluation returns give what is raised
\* afterwards, and there is at most one event per code.
LEMMA EvaluateEvents ==
    ASSUME EngineTypeOK, NEW up \in BOOLEAN, NEW t, Evaluate(up, t), NEW c \in Code
    PROVE  LET on == [code |-> c, active |-> TRUE]
               off == [code |-> c, active |-> FALSE]
           IN  /\ ~(on \in events' /\ off \in events')
               /\ c \in RaisedCodes' <=> (on \in events' \/ (c \in RaisedCodes /\ off \notin events'))
<1> DEFINE on == [code |-> c, active |-> TRUE]
           off == [code |-> c, active |-> FALSE]
<1> SUFFICES /\ ~(on \in events' /\ off \in events')
             /\ c \in RaisedCodes' <=> (on \in events' \/ (c \in RaisedCodes /\ off \notin events'))
  OBVIOUS
<1>0. on.code = c /\ off.code = c /\ on.active = TRUE /\ off.active = FALSE /\ on # off
  OBVIOUS
<1>1. events' = ConnectionEvents(up) \cup SensorEvents(t)
  BY DEF Evaluate
<1>2. CASE c = "CONNECTION_LOST"
  <2>1. c \notin unhealthySensors /\ c \notin unhealthySensors'
    <3>1. unhealthySensors \subseteq Sensor /\ unhealthySensors' \subseteq Sensor
      BY ChangedSets DEF EngineTypeOK, Evaluate, EvaluateSensors
    <3> QED
      BY <1>2, <3>1, EngineAssumption
  <2>2. on \notin SensorEvents(t) /\ off \notin SensorEvents(t)
    <3>1. \A e \in SensorEvents(t) : e.code \in Sensor
      BY ChangedSets DEF SensorEvents, EngineTypeOK
    <3> QED
      BY <1>0, <1>2, <3>1, EngineAssumption
  <2>3. /\ on \in ConnectionEvents(up) <=>
              (stamp["HEARTBEAT"] # None /\ connectionLostActive = up /\ up = FALSE)
        /\ off \in ConnectionEvents(up) <=>
              (stamp["HEARTBEAT"] # None /\ connectionLostActive = up /\ up = TRUE)
    BY <1>2 DEF ConnectionEvents
  <2>4. connectionLostActive' = IF stamp["HEARTBEAT"] = None
                                THEN connectionLostActive ELSE ~up
    BY EvaluatedConnection
  <2>5. (c \in RaisedCodes <=> connectionLostActive)
          /\ (c \in RaisedCodes' <=> connectionLostActive')
    BY <1>2, <2>1 DEF RaisedCodes
  <2>6. connectionLostActive \in BOOLEAN
    BY DEF EngineTypeOK
  <2> HIDE DEF on, off
  <2>7. (on \in events' <=> on \in ConnectionEvents(up))
          /\ (off \in events' <=> off \in ConnectionEvents(up))
    BY <1>1, <2>2
  <2>8. CASE up = TRUE
    BY <2>3, <2>4, <2>5, <2>6, <2>7, <2>8
  <2>9. CASE up = FALSE
    BY <2>3, <2>4, <2>5, <2>6, <2>7, <2>9
  <2> QED
    BY <2>8, <2>9
<1>3. CASE c # "CONNECTION_LOST"
  <2>1. c \in Sensor
    BY <1>3 DEF Code
  <2>2. on \notin ConnectionEvents(up) /\ off \notin ConnectionEvents(up)
    BY <1>0, <1>3 DEF ConnectionEvents
  <2>3. (c \in RaisedCodes <=> c \in unhealthySensors)
          /\ (c \in RaisedCodes' <=> c \in unhealthySensors')
    BY <1>3 DEF RaisedCodes
  <2>4. CASE StatusFresh(t)
    <3>1. /\ on \in SensorEvents(t) <=> c \in Activated(t)
          /\ off \in SensorEvents(t) <=> c \in Cleared(t)
      BY <2>4 DEF SensorEvents
    <3>2. unhealthySensors' = (unhealthySensors \cup Activated(t)) \ Cleared(t)
      BY <2>4 DEF Evaluate, EvaluateSensors
    <3> HIDE DEF on, off
    <3> QED
      BY <1>1, <2>2, <2>3, <3>1, <3>2, ChangedSets
  <2>5. CASE ~StatusFresh(t)
    <3>1. on \notin SensorEvents(t) /\ (off \in SensorEvents(t) <=> c \in unhealthySensors)
      BY <2>5 DEF SensorEvents
    <3>2. unhealthySensors' = {}
      BY <2>5 DEF Evaluate, EvaluateSensors
    <3> HIDE DEF on, off
    <3> QED
      BY <1>1, <2>2, <2>3, <3>1, <3>2
  <2> QED
    BY <2>4, <2>5
<1> QED
  BY <1>2, <1>3

=============================================================================
