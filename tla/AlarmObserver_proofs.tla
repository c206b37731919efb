------------------------ MODULE AlarmObserver_proofs ------------------------
(***************************************************************************)
(* Proofs about the observed warning pipeline, for every set of sensors,   *)
(* every delay and timeout, every set of messages and every clock bound.   *)
(***************************************************************************)
EXTENDS AlarmObserver, WarningEngine_proofs

USE DEF Time, OptionalTime, Alarm!Time, Alarm!OptionalTime

-----------------------------------------------------------------------------
(* What an evaluation does, one part of the state at a time.               *)

\* Both ways to evaluate are an evaluation under some connection flag.
LEMMA EvaluationSteps ==
    ASSUME TypeOK, Evaluation
    PROVE  /\ \E up \in BOOLEAN : Evaluate(up, now)
           /\ Watch
           /\ connected' \in BOOLEAN
           /\ UNCHANGED <<stamp, finite, sensors, now>>
BY DEF TypeOK, ReaderTypeOK, Evaluation, EvaluateData, DeclareDown, readerVars

\* The engine's pending starts, of a sensor that is bad and not raised, are the
\* observer's; so are the pending recoveries.
LEMMA StartedIsTheRun ==
    ASSUME TypeOK, MapsAreTheRuns, NEW s \in Sensor
    PROVE  /\ s \in CurrentlyUnhealthy \ unhealthySensors =>
                 Started(unhealthySince, s, now)
                    = Alarm!Extend(badRun, CurrentlyUnhealthy)[s]
           /\ s \in unhealthySensors \ CurrentlyUnhealthy =>
                 Started(healthySince, s, now)
                    = Alarm!Extend(goodRun, Sensor \ CurrentlyUnhealthy)[s]
BY DEF TypeOK, MapsAreTheRuns, Started, Alarm!Extend

\* Extending a run yields a time for the sensors of the set and None for others.
LEMMA ExtendType ==
    ASSUME NEW run \in [Sensor -> OptionalTime], NEW set, now \in Time
    PROVE  /\ Alarm!Extend(run, set) \in [Sensor -> OptionalTime]
           /\ \A s \in Sensor :
                /\ s \in set => Alarm!Extend(run, set)[s] \in Time
                /\ s \in set => Alarm!Extend(run, set)[s] # None
                /\ s \notin set => Alarm!Extend(run, set)[s] = None
BY NoneAssumption DEF Alarm!Extend

-----------------------------------------------------------------------------
(* Type correctness                                                        *)

\* The observer's variables stay well typed through an evaluation.
LEMMA WatchType ==
    ASSUME TypeOK, Watch, EngineTypeOK'
    PROVE  /\ badRun' \in [Sensor -> OptionalTime]
           /\ goodRun' \in [Sensor -> OptionalTime]
           /\ raised' \subseteq Code
           /\ lastRaised' \in [Sensor -> OptionalTime]
<1>1. Alarm!NoRun \in [Sensor -> OptionalTime]
  BY DEF Alarm!NoRun
<1>2. badRun' \in [Sensor -> OptionalTime] /\ goodRun' \in [Sensor -> OptionalTime]
  BY <1>1, ExtendType DEF TypeOK, Watch, Alarm!FollowRuns, Alarm!BreakRuns
<1>3. raised' \subseteq Code
  BY DEF TypeOK, EngineTypeOK, Watch, On, Event
<1>4. lastRaised' \in [Sensor -> OptionalTime]
  BY DEF TypeOK, Watch
<1> QED
  BY <1>2, <1>3, <1>4

\* The program starts well typed.
LEMMA TypeInit == ObservedInit => TypeOK
<1> SUFFICES ASSUME ObservedInit PROVE TypeOK
  OBVIOUS
<1>1. ReaderTypeOK
  BY ReaderInitType DEF ObservedInit, Init
<1>2. EngineTypeOK
  BY EngineInitType DEF ObservedInit, Init
<1>3. Alarm!NoRun \in [Sensor -> OptionalTime]
  BY DEF Alarm!NoRun
<1> QED
  BY <1>1, <1>2, <1>3 DEF ObservedInit, Init, TypeOK, Alarm!NoRun

\* Every step of the observed pipeline keeps the types.
LEMMA TypeNext == TypeOK /\ [ObservedNext]_vars => TypeOK'
<1> SUFFICES ASSUME TypeOK, [ObservedNext]_vars PROVE TypeOK'
  OBVIOUS
<1>1. CASE Evaluation
  <2>1. PICK up \in BOOLEAN : Evaluate(up, now)
    BY <1>1, EvaluationSteps
  <2>2. EngineTypeOK'
    BY <2>1, EvaluateType DEF TypeOK
  <2>3. ReaderTypeOK' /\ now' \in Time
    BY <1>1, EvaluationSteps DEF TypeOK, ReaderTypeOK
  <2> QED
    BY <1>1, <2>2, <2>3, EvaluationSteps, WatchType DEF TypeOK
<1>2. CASE Other
  <2>1. CASE \E msg \in Message : Receive(msg)
    <3>1. PICK msg \in Message : Receive(msg)
      BY <2>1
    <3>2. ReaderTypeOK'
      BY <3>1, ProcessType DEF TypeOK, Receive
    <3> QED
      BY <1>2, <3>1, <3>2 DEF Other, historyVars, TypeOK, Receive, engineVars,
         EngineTypeOK
  <2>2. CASE Refresh
    <3>1. connected' \in BOOLEAN
      BY <2>2 DEF Refresh, HeartbeatAlive
    <3> QED
      BY <1>2, <2>2, <3>1 DEF Other, historyVars, TypeOK, Refresh, engineVars,
         EngineTypeOK, ReaderTypeOK
  <2>3. CASE Drop
    BY <1>2, <2>3 DEF Other, historyVars, TypeOK, Drop, engineVars, EngineTypeOK,
       ReaderTypeOK
  <2>4. CASE Tick
    BY <1>2, <2>4 DEF Other, historyVars, TypeOK, Tick, readerVars, engineVars,
       EngineTypeOK, ReaderTypeOK
  <2> QED
    BY <1>2, <2>1, <2>2, <2>3, <2>4 DEF Other
<1>3. CASE UNCHANGED vars
  BY <1>3 DEF vars, pipelineVars, readerVars, engineVars, historyVars, TypeOK,
     EngineTypeOK, ReaderTypeOK
<1> QED
  BY <1>1, <1>2, <1>3 DEF ObservedNext

\* The reader, the engine and the observer never leave their types: in particular
\* evaluate only ever stores times it was given in its maps of start times.
THEOREM TypeCorrect == ObservedSpec => []TypeOK
<1> QED
  BY TypeInit, TypeNext, PTL DEF ObservedSpec

-----------------------------------------------------------------------------
(* The engine's maps are the observer's runs                               *)

\* A fresh evaluation re-establishes the correspondence: the entries left are
\* those of the runs that go on, and each keeps its start.
LEMMA FreshKeepsRuns ==
    ASSUME TypeOK, MapsAreTheRuns, Watch, EvaluateSensors(now), StatusFresh(now)
    PROVE  MapsAreTheRuns'
<1>1. /\ badRun' = Alarm!Extend(badRun, CurrentlyUnhealthy)
      /\ goodRun' = Alarm!Extend(goodRun, Sensor \ CurrentlyUnhealthy)
  BY DEF Watch, Alarm!FollowRuns
<1>2. \A s \in Sensor : /\ badRun'[s] # None <=> s \in CurrentlyUnhealthy
                        /\ goodRun'[s] # None <=> s \notin CurrentlyUnhealthy
  BY <1>1, ExtendType DEF TypeOK
<1>3. unhealthySensors' = (unhealthySensors \cup Activated(now)) \ Cleared(now)
  BY DEF EvaluateSensors
<1>4. DOMAIN unhealthySince' = (CurrentlyUnhealthy \ unhealthySensors) \ Activated(now)
  BY DEF EvaluateSensors, Pending, MapsAreTheRuns
<1>5. DOMAIN unhealthySince' = {s \in Sensor \ unhealthySensors' : badRun'[s] # None}
  BY <1>2, <1>3, <1>4, ChangedSets
<1>6. \A s \in DOMAIN unhealthySince' : unhealthySince'[s] = badRun'[s]
  BY <1>1, <1>4, ChangedSets, StartedIsTheRun DEF EvaluateSensors
<1>7. DOMAIN healthySince' = (unhealthySensors \ CurrentlyUnhealthy) \ Cleared(now)
  BY DEF EvaluateSensors, Recovering, MapsAreTheRuns
<1>8. DOMAIN healthySince' = {s \in unhealthySensors' : goodRun'[s] # None}
  BY <1>2, <1>3, <1>7, ChangedSets DEF TypeOK, EngineTypeOK
<1>9. \A s \in DOMAIN healthySince' : healthySince'[s] = goodRun'[s]
  BY <1>1, <1>7, StartedIsTheRun DEF EvaluateSensors, TypeOK, EngineTypeOK
<1> QED
  BY <1>5, <1>6, <1>8, <1>9 DEF MapsAreTheRuns

\* A blind evaluation empties the maps and breaks the runs.
LEMMA BlindKeepsRuns ==
    ASSUME Watch, EvaluateSensors(now), ~StatusFresh(now)
    PROVE  MapsAreTheRuns'
BY DEF Watch, EvaluateSensors, MapsAreTheRuns, Alarm!BreakRuns, Alarm!NoRun, EmptyMap

\* Every step keeps the engine's maps and the observer's runs equal.
LEMMA RunsNext ==
    TypeOK /\ MapsAreTheRuns /\ [ObservedNext]_vars => MapsAreTheRuns'
<1> SUFFICES ASSUME TypeOK, MapsAreTheRuns, [ObservedNext]_vars
             PROVE  MapsAreTheRuns'
  OBVIOUS
<1>1. CASE Evaluation
  BY <1>1, EvaluationSteps, FreshKeepsRuns, BlindKeepsRuns DEF Evaluate
<1>2. CASE Other \/ UNCHANGED vars
  <2>1. UNCHANGED <<unhealthySensors, unhealthySince, healthySince, badRun, goodRun>>
    BY <1>2 DEF Other, Receive, Refresh, Drop, Tick, engineVars, historyVars, vars,
       pipelineVars
  <2> QED
    BY <2>1 DEF MapsAreTheRuns
<1> QED
  BY <1>1, <1>2 DEF ObservedNext

\* At the start there is no entry and no run.
LEMMA RunsInit == ObservedInit => MapsAreTheRuns
BY DEF ObservedInit, Init, EngineInit, EmptyMap, MapsAreTheRuns, Alarm!NoRun

\* At every moment the engine's two maps of start times are the observer's runs:
\* the debounce of evaluate_sensors never measures from a broken run.
THEOREM MapsCorrect == ObservedSpec => []MapsAreTheRuns
<1>1. ObservedInit => TypeOK /\ MapsAreTheRuns
  BY TypeInit, RunsInit
<1>2. (TypeOK /\ MapsAreTheRuns) /\ [ObservedNext]_vars => (TypeOK /\ MapsAreTheRuns)'
  BY TypeNext, RunsNext
<1> QED
  BY <1>1, <1>2, PTL DEF ObservedSpec

-----------------------------------------------------------------------------
(* The engine implements the debounced alarm                               *)

\* A fresh evaluation changes the raised sensors as the abstract alarm does.
LEMMA FreshIsObserve ==
    ASSUME TypeOK, MapsAreTheRuns, Watch, EvaluateSensors(now), StatusFresh(now),
           UNCHANGED now
    PROVE  Alarm!Observe(CurrentlyUnhealthy)
<1> DEFINE bad == Alarm!Extend(badRun, CurrentlyUnhealthy)
           good == Alarm!Extend(goodRun, Sensor \ CurrentlyUnhealthy)
<1>1. Activated(now) = Alarm!Lasted(bad, ActivationDelay) \ unhealthySensors
  <2>1. \A s \in Sensor : bad[s] # None <=> s \in CurrentlyUnhealthy
    BY ExtendType DEF TypeOK
  <2> QED
    BY <2>1, StartedIsTheRun, ChangedSets DEF Activated, Alarm!Lasted
<1>2. Cleared(now) = Alarm!Lasted(good, ClearDelay) \cap unhealthySensors
  <2>1. \A s \in Sensor : good[s] # None <=> s \notin CurrentlyUnhealthy
    BY ExtendType DEF TypeOK
  <2> QED
    BY <2>1, StartedIsTheRun DEF Cleared, Alarm!Lasted, TypeOK, EngineTypeOK
<1>3. Alarm!Lasted(bad, ActivationDelay) \cap Alarm!Lasted(good, ClearDelay) = {}
  BY ExtendType DEF TypeOK, Alarm!Lasted
<1>4. unhealthySensors' = (unhealthySensors \cup Alarm!Lasted(bad, ActivationDelay))
                            \ Alarm!Lasted(good, ClearDelay)
  BY <1>1, <1>2, <1>3 DEF EvaluateSensors
<1> QED
  BY <1>4 DEF Alarm!Observe, Watch

\* Every step of the observed pipeline is a step of the abstract alarm or a stutter.
LEMMA StepRefines ==
    ASSUME TypeOK, MapsAreTheRuns, [ObservedNext]_vars
    PROVE  [Alarm!Next]_(Alarm!alarmVars)
<1> USE DEF Alarm!Next, Alarm!alarmVars
<1>1. CASE Evaluation
  <2>1. Watch /\ EvaluateSensors(now) /\ UNCHANGED now
    BY <1>1, EvaluationSteps DEF Evaluate
  <2>2. CASE StatusFresh(now)
    BY <2>1, <2>2, FreshIsObserve, ChangedSets
  <2>3. CASE ~StatusFresh(now)
    BY <2>1, <2>3 DEF Watch, EvaluateSensors, Alarm!Blind
  <2> QED
    BY <2>2, <2>3
<1>2. CASE Other \/ UNCHANGED vars
  <2>1. UNCHANGED <<unhealthySensors, badRun, goodRun>>
    BY <1>2 DEF Other, Receive, Refresh, Drop, Tick, engineVars, historyVars, vars,
       pipelineVars
  <2>2. UNCHANGED now \/ now' = now + 1
    BY <1>2 DEF Other, Receive, Refresh, Drop, Tick, vars, pipelineVars
  <2> QED
    BY <2>1, <2>2 DEF Alarm!Tick
<1> QED
  BY <1>1, <1>2 DEF ObservedNext

\* evaluate_sensors implements the debounced alarm: every evaluation is an
\* observation or a blind one, and nothing else changes what is raised.
THEOREM AlarmImplemented == ObservedSpec => ImplementsAlarm
<1>1. ObservedInit => Alarm!Init
  BY DEF ObservedInit, Init, EngineInit, Alarm!Init
<1>2. TypeOK /\ MapsAreTheRuns /\ [ObservedNext]_vars
        => [Alarm!Next]_(Alarm!alarmVars)
  BY StepRefines
<1> QED
  BY <1>1, <1>2, TypeCorrect, MapsCorrect, PTL
     DEF ObservedSpec, ImplementsAlarm, Alarm!Spec

-----------------------------------------------------------------------------
(* The events are exactly the changes                                      *)

\* A returned event is the record of its code and its state.
LEMMA EventShape ==
    ASSUME TypeOK, NEW up \in BOOLEAN, Evaluate(up, now), NEW e \in events'
    PROVE  /\ e = [code |-> e.code, active |-> e.active]
           /\ e.active \in BOOLEAN
<1>1. EngineTypeOK'
  BY EvaluateType DEF TypeOK
<1> QED
  BY <1>1 DEF EngineTypeOK, Event

\* What an evaluation announces, code by code.
LEMMA AnnouncedSensors ==
    ASSUME TypeOK, NEW up \in BOOLEAN, Evaluate(up, now), NEW s \in Sensor
    PROVE  /\ s \in On(events') <=> StatusFresh(now) /\ s \in Activated(now)
           /\ s \in Off(events') <=> IF StatusFresh(now) THEN s \in Cleared(now)
                                     ELSE s \in unhealthySensors
<1>1. s # "CONNECTION_LOST"
  BY EngineAssumption
<1>2. \A active \in BOOLEAN : [code |-> s, active |-> active] \in events'
                             <=> [code |-> s, active |-> active] \in SensorEvents(now)
  BY <1>1 DEF Evaluate, ConnectionEvents
<1>3. s \in On(events') <=> [code |-> s, active |-> TRUE] \in events'
  BY EventShape DEF On
<1>4. s \in Off(events') <=> [code |-> s, active |-> FALSE] \in events'
  BY EventShape DEF Off
<1>5. /\ [code |-> s, active |-> TRUE] \in SensorEvents(now)
            <=> StatusFresh(now) /\ s \in Activated(now)
      /\ [code |-> s, active |-> FALSE] \in SensorEvents(now)
            <=> IF StatusFresh(now) THEN s \in Cleared(now) ELSE s \in unhealthySensors
  BY DEF SensorEvents
<1> QED
  BY <1>2, <1>3, <1>4, <1>5

\* The connection event announces a change of the flag, once a heartbeat was seen.
LEMMA AnnouncedConnection ==
    ASSUME TypeOK, NEW up \in BOOLEAN, Evaluate(up, now)
    PROVE  /\ "CONNECTION_LOST" \in On(events')
                <=> stamp["HEARTBEAT"] # None /\ ~up /\ ~connectionLostActive
           /\ "CONNECTION_LOST" \in Off(events')
                <=> stamp["HEARTBEAT"] # None /\ up /\ connectionLostActive
<1>1. \A e \in SensorEvents(now) : e.code # "CONNECTION_LOST"
  BY EngineAssumption, ChangedSets DEF SensorEvents, TypeOK, EngineTypeOK
<1>2. "CONNECTION_LOST" \in On(events') <=> \E e \in ConnectionEvents(up) : e.active
  BY <1>1 DEF On, Evaluate, ConnectionEvents
<1>3. "CONNECTION_LOST" \in Off(events') <=> \E e \in ConnectionEvents(up) : ~e.active
  BY <1>1 DEF Off, Evaluate, ConnectionEvents
<1>4. /\ (\E e \in ConnectionEvents(up) : e.active)
            <=> stamp["HEARTBEAT"] # None /\ ~up /\ connectionLostActive = up
      /\ (\E e \in ConnectionEvents(up) : ~e.active)
            <=> stamp["HEARTBEAT"] # None /\ up /\ connectionLostActive = up
  <2>1. [code |-> "CONNECTION_LOST", active |-> ~up]
            \in [code : {"CONNECTION_LOST"}, active : {~up}]
    OBVIOUS
  <2>2. \A e \in [code : {"CONNECTION_LOST"}, active : {~up}] : e.active = ~up
    OBVIOUS
  <2> QED
    BY <2>1, <2>2 DEF ConnectionEvents
<1>5. connectionLostActive \in BOOLEAN
  BY DEF TypeOK, EngineTypeOK
<1> QED
  BY <1>2, <1>3, <1>4, <1>5

\* An evaluation's events bring the consumer to the engine's new view.
LEMMA EvaluationAgrees ==
    ASSUME TypeOK, ConsumerAgrees, Evaluation
    PROVE  ConsumerAgrees'
<1>1. PICK up \in BOOLEAN : Evaluate(up, now)
  BY EvaluationSteps
<1>2. raised' = (raised \cup On(events')) \ Off(events')
  BY EvaluationSteps DEF Watch
<1>3. \A s \in Sensor : s \in raised' <=> s \in unhealthySensors'
  <2> SUFFICES ASSUME NEW s \in Sensor
               PROVE  s \in raised' <=> s \in unhealthySensors'
    OBVIOUS
  <2>1. s \in raised <=> s \in unhealthySensors
    BY EngineAssumption DEF ConsumerAgrees, EngineActive
  <2> QED
    BY <1>1, <1>2, <2>1, AnnouncedSensors DEF Evaluate, EvaluateSensors
<1>4. "CONNECTION_LOST" \in raised' <=> connectionLostActive'
  <2>1. "CONNECTION_LOST" \in raised <=> connectionLostActive
    BY EngineAssumption DEF ConsumerAgrees, EngineActive, TypeOK, EngineTypeOK
  <2>2. connectionLostActive' = IF stamp["HEARTBEAT"] = None
                                THEN connectionLostActive ELSE ~up
    BY <1>1 DEF Evaluate, EvaluateConnection
  <2> QED
    BY <1>1, <1>2, <2>1, <2>2, AnnouncedConnection
<1>5. TypeOK'
  BY TypeNext DEF ObservedNext
<1> QED
  BY <1>3, <1>4, <1>5 DEF ConsumerAgrees, EngineActive, TypeOK, EngineTypeOK, Code

\* Between evaluations neither view moves.
LEMMA AgreesNext ==
    TypeOK /\ ConsumerAgrees /\ [ObservedNext]_vars => ConsumerAgrees'
<1>1. ASSUME ConsumerAgrees, Other \/ UNCHANGED vars PROVE ConsumerAgrees'
  <2>1. UNCHANGED <<unhealthySensors, connectionLostActive, raised>>
    BY <1>1 DEF Other, Receive, Refresh, Drop, Tick, engineVars, historyVars, vars,
       pipelineVars
  <2> QED
    BY <1>1, <2>1 DEF ConsumerAgrees, EngineActive
<1> QED
  BY <1>1, EvaluationAgrees DEF ObservedNext

\* Folding the returned events gives the engine's own view: no event is missing,
\* for any number of sensors and any mix of outages and stale periods.
THEOREM ConsumerCorrect == ObservedSpec => []ConsumerAgrees
<1>1. ObservedInit => ConsumerAgrees
  BY DEF ObservedInit, Init, EngineInit, ConsumerAgrees, EngineActive
<1> QED
  BY <1>1, AgreesNext, TypeCorrect, PTL DEF ObservedSpec

\* Every event is a change of what the consumer holds: none is repeated.
THEOREM ChangesOnly == ObservedSpec => OnlyChanges
<1>1. ASSUME TypeOK, ConsumerAgrees, Evaluation, NEW e \in events'
      PROVE  e.active <=> e.code \notin raised
  <2>1. PICK up \in BOOLEAN : Evaluate(up, now)
    BY <1>1, EvaluationSteps
  <2>2. CASE e \in ConnectionEvents(up)
    <3>1. "CONNECTION_LOST" \in raised <=> connectionLostActive
      BY <1>1, EngineAssumption DEF ConsumerAgrees, EngineActive, TypeOK, EngineTypeOK
    <3> QED
      BY <2>2, <3>1 DEF ConnectionEvents
  <2>3. CASE e \in SensorEvents(now)
    <3>1. \A s \in Sensor : s \in raised <=> s \in unhealthySensors
      BY <1>1, EngineAssumption DEF ConsumerAgrees, EngineActive
    <3> QED
      BY <1>1, <2>3, <3>1, ChangedSets DEF SensorEvents, TypeOK, EngineTypeOK
  <2> QED
    BY <1>1, <2>1, <2>2, <2>3 DEF Evaluate
<1>2. TypeOK /\ ConsumerAgrees /\ [ObservedNext]_vars
        => [Evaluation => \A e \in events' : e.active <=> e.code \notin raised]_vars
  BY <1>1
<1> QED
  BY <1>2, TypeCorrect, ConsumerCorrect, PTL DEF ObservedSpec, OnlyChanges

-----------------------------------------------------------------------------
(* Flapping does not chatter                                               *)

\* An activation lies in the past, and the present bad run of a sensor that is
\* not raised began no earlier than the sensor's last activation.
RunsFollowActivations ==
    /\ \A s \in Sensor : lastRaised[s] # None => lastRaised[s] <= now
    /\ \A s \in Sensor \ unhealthySensors :
          badRun[s] # None /\ lastRaised[s] # None => lastRaised[s] <= badRun[s]

\* The inductive invariant: the spacing of activations follows from it alone.
IInv == TypeOK /\ MapsAreTheRuns /\ RunsFollowActivations

\* An activation ends a run that has lasted and began after the last activation.
LEMMA ActivationIsLate ==
    ASSUME IInv, Evaluation, NEW s \in unhealthySensors' \ unhealthySensors,
           lastRaised[s] # None
    PROVE  now - lastRaised[s] >= ActivationDelay
<1>1. StatusFresh(now) /\ s \in Activated(now) /\ s \in Sensor
  BY EvaluationSteps, ChangedSets DEF IInv, Evaluate, EvaluateSensors
<1> DEFINE start == Started(unhealthySince, s, now)
<1>2. now - start >= ActivationDelay
  BY <1>1 DEF Activated
<1>3. start = IF badRun[s] = None THEN now ELSE badRun[s]
  BY <1>1, ChangedSets, StartedIsTheRun DEF IInv, Alarm!Extend
<1>4. lastRaised[s] <= start /\ start \in Time /\ lastRaised[s] \in Time
  BY <1>1, <1>3 DEF IInv, TypeOK, RunsFollowActivations
<1> QED
  BY <1>2, <1>4, EngineAssumption DEF IInv, TypeOK

\* Every step keeps the bad runs behind the last activations.
LEMMA ActivationsNext == IInv /\ [ObservedNext]_vars => RunsFollowActivations'
<1> SUFFICES ASSUME IInv, [ObservedNext]_vars PROVE RunsFollowActivations'
  OBVIOUS
<1>1. CASE Evaluation
  <2>1. PICK up \in BOOLEAN : Evaluate(up, now)
    BY <1>1, EvaluationSteps DEF IInv
  <2>2. Watch /\ now' = now
    BY <1>1, EvaluationSteps DEF IInv
  <2>3. \A s \in Sensor : lastRaised'[s] =
                            IF s \in On(events') THEN now ELSE lastRaised[s]
    BY <2>2 DEF Watch
  <2>4. ASSUME NEW s \in Sensor \ unhealthySensors',
               badRun'[s] # None, lastRaised'[s] # None
        PROVE  lastRaised'[s] <= badRun'[s]
    <3>1. StatusFresh(now) /\ badRun' = Alarm!Extend(badRun, CurrentlyUnhealthy)
      BY <2>2, <2>4 DEF Watch, Alarm!FollowRuns, Alarm!BreakRuns, Alarm!NoRun
    <3>2. s \in CurrentlyUnhealthy
      BY <2>4, <3>1, ExtendType DEF IInv, TypeOK
    <3>3. s \notin unhealthySensors /\ s \notin Activated(now)
      BY <2>1, <2>4, <3>1, <3>2, ChangedSets DEF Evaluate, EvaluateSensors
    <3>4. lastRaised'[s] = lastRaised[s]
      BY <2>1, <2>3, <3>3, AnnouncedSensors DEF IInv
    <3> QED
      BY <2>4, <3>1, <3>2, <3>3, <3>4
         DEF Alarm!Extend, IInv, TypeOK, RunsFollowActivations
  <2> QED
    BY <2>2, <2>3, <2>4 DEF IInv, TypeOK, RunsFollowActivations
<1>2. CASE Other \/ UNCHANGED vars
  <2>1. UNCHANGED <<unhealthySensors, badRun, lastRaised>>
    BY <1>2 DEF Other, Receive, Refresh, Drop, Tick, engineVars, historyVars, vars,
       pipelineVars
  <2>2. UNCHANGED now \/ now' = now + 1
    BY <1>2 DEF Other, Receive, Refresh, Drop, Tick, vars, pipelineVars
  <2> QED
    BY <2>1, <2>2 DEF IInv, TypeOK, RunsFollowActivations
<1> QED
  BY <1>1, <1>2 DEF ObservedNext

\* The inductive invariant holds throughout.
LEMMA InductiveInvariant == ObservedSpec => []IInv
<1>1. ObservedInit => IInv
  BY TypeInit, RunsInit DEF ObservedInit, IInv, RunsFollowActivations
<1>2. IInv /\ [ObservedNext]_vars => IInv'
  BY TypeNext, RunsNext, ActivationsNext DEF IInv
<1> QED
  BY <1>1, <1>2, PTL DEF ObservedSpec

\* Two activations of one sensor are never closer than the activation delay.
THEOREM NoChatterHolds == ObservedSpec => NoChatter
<1>1. ASSUME IInv, [ObservedNext]_vars, NEW s \in Sensor,
             s \in unhealthySensors' \ unhealthySensors, lastRaised[s] # None
      PROVE  now - lastRaised[s] >= ActivationDelay
  <2>1. CASE Evaluation
    BY <1>1, <2>1, ActivationIsLate
  <2>2. CASE Other \/ UNCHANGED vars
    BY <1>1, <2>2 DEF Other, Receive, Refresh, Drop, Tick, engineVars, vars,
       pipelineVars
  <2> QED
    BY <1>1, <2>1, <2>2 DEF ObservedNext
<1>2. IInv /\ [ObservedNext]_vars
        => [\A s \in Sensor :
              s \in unhealthySensors' \ unhealthySensors /\ lastRaised[s] # None
                => now - lastRaised[s] >= ActivationDelay]_vars
  BY <1>1
<1> QED
  BY <1>2, InductiveInvariant, PTL DEF ObservedSpec, NoChatter

=============================================================================
