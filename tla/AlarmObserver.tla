--------------------------- MODULE AlarmObserver ---------------------------
(***************************************************************************)
(* The warning pipeline with an observer that sees every evaluation: the   *)
(* runs SensorAlarm speaks about, and what a consumer of the returned      *)
(* events believes.  The observer only watches; its variables are history. *)
(***************************************************************************)
EXTENDS WarningPipeline

CONSTANT MaxTime    \* bound on the clock

ASSUME ObserverAssumption == MaxTime \in Nat

VARIABLES
    badRun,     \* see SensorAlarm
    goodRun,    \* see SensorAlarm
    raised,     \* the codes a consumer of all events holds active
    lastRaised  \* time of each sensor's last activation

historyVars == <<badRun, goodRun, raised, lastRaised>>
vars == <<pipelineVars, historyVars>>

Alarm == INSTANCE SensorAlarm WITH active <- unhealthySensors

ObservedInit ==
    /\ Init
    /\ badRun = Alarm!NoRun
    /\ goodRun = Alarm!NoRun
    /\ raised = {}
    /\ lastRaised = [s \in Sensor |-> None]

\* The codes activated and cleared by the events of an evaluation.
On(evs) == {e.code : e \in {x \in evs : x.active}}
Off(evs) == {e.code : e \in {x \in evs : ~x.active}}

Watch ==
    /\ IF StatusFresh(now) THEN Alarm!FollowRuns(CurrentlyUnhealthy)
                           ELSE Alarm!BreakRuns
    /\ raised' = (raised \cup On(events')) \ Off(events')
    /\ lastRaised' = [s \in Sensor |->
                        IF s \in On(events') THEN now ELSE lastRaised[s]]

Evaluation == (EvaluateData \/ DeclareDown) /\ Watch

Other ==
    /\ \/ \E msg \in Message : Receive(msg)
       \/ Refresh
       \/ Drop
       \/ now < MaxTime /\ Tick
    /\ UNCHANGED historyVars

ObservedNext == Evaluation \/ Other

ObservedSpec == ObservedInit /\ [][ObservedNext]_vars

-----------------------------------------------------------------------------
(* Properties                                                              *)

\* The types of the reader's, the engine's and the observer's state; the start
\* times of the engine are times, never sentinels.
TypeOK ==
    /\ ReaderTypeOK
    /\ EngineTypeOK
    /\ now \in Time
    /\ badRun \in [Sensor -> OptionalTime]
    /\ goodRun \in [Sensor -> OptionalTime]
    /\ raised \subseteq Code
    /\ lastRaised \in [Sensor -> OptionalTime]

\* The engine's two maps are, at every moment, exactly the runs the observer
\* follows: a pending fault for each sensor that is bad and not raised yet, a
\* pending recovery for each raised one that is not bad, with the time the run
\* began.  No start time survives a flap, an outage or an activation, so no later
\* evaluation measures a delay from a run that was broken.
MapsAreTheRuns ==
    /\ DOMAIN unhealthySince = {s \in Sensor \ unhealthySensors : badRun[s] # None}
    /\ \A s \in DOMAIN unhealthySince : unhealthySince[s] = badRun[s]
    /\ DOMAIN healthySince = {s \in unhealthySensors : goodRun[s] # None}
    /\ \A s \in DOMAIN healthySince : healthySince[s] = goodRun[s]

EngineActive ==
    unhealthySensors \cup (IF connectionLostActive THEN {"CONNECTION_LOST"} ELSE {})

\* Folding the returned events (what the scheduler does with _active) always gives
\* the engine's own view of what is active: no activation or clear is lost on any
\* path, stale data and failed connections included.
ConsumerAgrees == raised = EngineActive

\* evaluate reports changes only: never the activation of a code the consumer
\* already holds active, never the clear of one it does not, so consumers may
\* log or speak events without comparing them with what they know.
OnlyChanges ==
    [][ Evaluation =>
          \A e \in events' : e.active <=> e.code \notin raised ]_vars

\* Flapping cannot make the alarm chatter: two activations of one sensor are
\* never closer than the activation delay, however faults, recoveries, sensors
\* that leave the map and stale periods are mixed in between.
NoChatter ==
    [][ \A s \in Sensor :
          s \in unhealthySensors' \ unhealthySensors /\ lastRaised[s] # None
            => now - lastRaised[s] >= ActivationDelay ]_vars

\* The engine implements the debounced alarm.
ImplementsAlarm == Alarm!Spec

=============================================================================
