------------------------------ MODULE PfdLive ------------------------------
(***************************************************************************)
(* PfdLiveModel: the live primary flight display.  A timer drains the      *)
(* socket, refreshes the connection, evaluates the warnings, submits them  *)
(* to the scheduler, and publishes the properties QML shows.  next() of    *)
(* the scheduler is never called here.  The display is only repainted when *)
(* snapshotChanged is emitted.                                             *)
(* A shown number is represented by the time of the message it came from.  *)
(***************************************************************************)
EXTENDS WarningEngine, Sequences, FiniteSets

CONSTANTS
    Message,        \* messages the socket may deliver
    MaxPerTick,     \* max_messages_per_tick
    Item,           \* the numbers shown
    SourceOf,       \* the message each number comes from
    Needs,          \* the fields of its reading that must have a value
    MaxAge,         \* the age limit of each such message
    MaxTime         \* bound on the clock

ASSUME PfdAssumption ==
    /\ MaxPerTick \in Nat \ {0}
    /\ SourceOf \in [Item -> Source]
    /\ MaxAge \in [Source -> Nat]
    /\ MaxTime \in Nat

VARIABLES
    now,            \* the monotonic clock
    pc,             \* "idle" in the event loop, or the step of pollTelemetry
    drained,        \* messages taken in this poll
    received,       \* one of them had a handler
    wasConnected,   \* connection.connected before the refresh
    pending,        \* events of the evaluation not submitted yet
    active,         \* the scheduler's _active
    transitions,    \* the scheduler's _transitions
    alert,          \* _alert_severity (and the text that goes with it)
    display,        \* what updatePresentation stored last
    shownAlert,     \* what QML read at the last snapshotChanged
    polled          \* history: a poll ended at the present time

pollVars == <<drained, received, wasConnected, pending>>
viewVars == <<alert, display, shownAlert>>
queueVars == <<active, transitions>>
vars == <<readerVars, engineVars, now, pc, pollVars, queueVars, viewVars, polled>>

\* The repeat interval and the cooldown only matter to next().
Scheduler == INSTANCE WarningScheduler WITH
    Severity <- [c \in Code |-> IF c = "CONNECTION_LOST" THEN 3 ELSE 2],
    Repeat <- 5, Cooldown <- 1, sinceOutput <- 1,
    output <- [code |-> "none", active |-> FALSE]

Group == {SourceOf[i] : i \in Item}

Init ==
    /\ ReaderInit
    /\ EngineInit
    /\ now = 0
    /\ pc = "starting"
    /\ drained = 0
    /\ received = FALSE
    /\ wasConnected = FALSE
    /\ pending = {}
    /\ active = [c \in {} |-> 0]
    /\ transitions = <<>>
    /\ alert = "standby"
    /\ display = [connected |-> FALSE,
                  valid |-> [i \in Item |-> FALSE],
                  shown |-> [i \in Item |-> None],
                  state |-> [g \in Group |-> "NO DATA"]]
    /\ shownAlert = [alert |-> "standby", count |-> 0]
    /\ polled = FALSE

-----------------------------------------------------------------------------
(* pollTelemetry                                                           *)

Goto(from, to) == pc = from /\ pc' = to

\* start(): bind the socket and start the timer; a failure to bind is thrown out of
\* a slot, which ends the program.
Start ==
    /\ Goto("starting", "idle") \/ Goto("starting", "terminated")
    /\ UNCHANGED <<readerVars, engineVars, now, pollVars, queueVars, viewVars, polled>>

Poll ==
    /\ Goto("idle", "drain")
    /\ drained' = 0
    /\ received' = FALSE
    /\ UNCHANGED <<readerVars, engineVars, now, wasConnected, pending, queueVars,
                   viewVars, polled>>

Drain(msg) ==
    /\ Goto("drain", "drain")
    /\ drained < MaxPerTick
    /\ drained' = drained + 1
    /\ ProcessMessage(msg, now)
    /\ received' = (received \/ msg.id \in Source)
    /\ UNCHANGED <<engineVars, now, wasConnected, pending, queueVars, viewVars, polled>>

\* The socket is empty, or the budget of this poll is used up.
Drained ==
    /\ Goto("drain", "refresh")
    /\ wasConnected' = connected
    /\ UNCHANGED <<readerVars, engineVars, now, drained, received, pending,
                   queueVars, viewVars, polled>>

\* A socket error is thrown out of the timer's slot, which ends the program.
SocketError ==
    /\ Goto("drain", "terminated")
    /\ UNCHANGED <<readerVars, engineVars, now, pollVars, queueVars, viewVars, polled>>

RefreshStatus ==
    /\ Goto("refresh", "evaluate")
    /\ connected' = HeartbeatAlive(now)
    /\ UNCHANGED <<stamp, finite, sensors, engineVars, now, pollVars, queueVars,
                   viewVars, polled>>

\* Mutant of EvaluateAll: the flag saved before the refresh is evaluated.
EvaluateAllSavedFlag ==
    /\ Goto("evaluate", "submit")
    /\ Evaluate(wasConnected, now)
    /\ pending' = events'
    /\ UNCHANGED <<readerVars, now, drained, received, wasConnected, queueVars,
                   viewVars, polled>>

EvaluateAll ==
    /\ Goto("evaluate", "submit")
    /\ Evaluate(connected, now)
    /\ pending' = events'
    /\ UNCHANGED <<readerVars, now, drained, received, wasConnected, queueVars,
                   viewVars, polled>>

\* The connection event is first in the vector; the order of the sensors' is that
\* of a hash set.
FirstPending ==
    LET lost == {e \in pending : e.code = "CONNECTION_LOST"}
    IN  IF lost = {} THEN pending ELSE lost

SubmitOne ==
    /\ Goto("submit", "submit")
    /\ \E e \in FirstPending :
          /\ Scheduler!Submit(e)
          /\ pending' = pending \ {e}
    /\ UNCHANGED <<readerVars, engineVars, now, drained, received, wasConnected,
                   viewVars, polled>>

SeverityName(e) == IF e.code = "CONNECTION_LOST" THEN "critical" ELSE "warning"

UpdateAlert ==
    /\ Goto("submit", "publish")
    /\ pending = {}
    /\ IF Scheduler!HighestActive = {} THEN alert' = "standby"
       ELSE \E e \in Scheduler!HighestActive : alert' = SeverityName(e)
    /\ UNCHANGED <<readerVars, engineVars, now, pollVars, queueVars, display,
                   shownAlert, polled>>

Available(i) == Needs[i] \subseteq finite[SourceOf[i]] /\ stamp[SourceOf[i]] # None

\* Mutant of Fresh: a reading stays fresh once received.
FreshOnceReceived(g) == stamp[g] # None

Fresh(g) == IsFresh(stamp[g], now, MaxAge[g])

\* Mutant of GroupAvailable: "and" for "or".
GroupAvailableAll(g) == \A i \in Item : SourceOf[i] = g => Available(i)

GroupAvailable(g) == \E i \in Item : SourceOf[i] = g /\ Available(i)

StateFor(available, fresh) ==
    IF ~available THEN "NO DATA" ELSE IF fresh THEN "VALID" ELSE "STALE"

UpdatePresentation ==
    LET valid == [i \in Item |-> Available(i) /\ Fresh(SourceOf[i])]
    IN  display' =
          [connected |-> connected,
           valid |-> valid,
           shown |-> [i \in Item |-> IF valid[i] THEN stamp[SourceOf[i]]
                                                 ELSE display.shown[i]],
           state |-> [g \in Group |-> StateFor(GroupAvailable(g), Fresh(g))]]

\* Mutant of Repaint: a lost connection alone does not repaint.
RepaintOnMessageOnly == received

Repaint == received \/ wasConnected # connected

Publish ==
    /\ Goto("publish", "idle")
    /\ IF Repaint
       THEN /\ UpdatePresentation
            /\ shownAlert' = [alert |-> alert,
                              count |-> Cardinality(DOMAIN active)]
       ELSE UNCHANGED <<display, shownAlert>>
    /\ polled' = TRUE
    /\ UNCHANGED <<readerVars, engineVars, now, pollVars, queueVars, alert>>

Tick ==
    /\ pc = "idle" /\ now < MaxTime
    /\ now' = now + 1
    /\ polled' = FALSE
    /\ UNCHANGED <<readerVars, engineVars, pc, pollVars, queueVars, viewVars>>

Next ==
    \/ Start
    \/ Poll
    \/ \E msg \in Message : Drain(msg)
    \/ Drained
    \/ SocketError
    \/ RefreshStatus
    \/ EvaluateAll
    \/ SubmitOne
    \/ UpdateAlert
    \/ Publish
    \/ Tick

Spec == Init /\ [][Next]_vars

-----------------------------------------------------------------------------
(* Properties                                                              *)

Idle == pc = "idle"

\* Between polls the scheduler's active map holds exactly the engine's warnings:
\* de-duplication and the order of submission lose nothing and, because nothing is
\* ever announced here, no left-over entry appears.
AlertsAreWarnings ==
    Idle => DOMAIN active = unhealthySensors
                \cup (IF connectionLostActive THEN {"CONNECTION_LOST"} ELSE {})

\* The listener's view of a code after the first n - 1 transitions of the queue.
RaisedBefore(c, n) ==
    \E i \in DOMAIN transitions :
        /\ i < n
        /\ transitions[i] = [code |-> c, active |-> TRUE]
        /\ \A j \in DOMAIN transitions : i < j /\ j < n => transitions[j].code # c

\* The queue of transitions, which nothing empties here, grows with the changes of the
\* warnings and never with the polls: what it holds of a code alternates between its
\* activation and its clear and ends with the state the code is in
\* (pfd_live_model.cpp:61).
QueueAlternates ==
    Idle => /\ \A n \in DOMAIN transitions :
                  transitions[n].active <=> ~RaisedBefore(transitions[n].code, n)
            /\ \A c \in Code : c \in DOMAIN active <=> RaisedBefore(c, Len(transitions) + 1)

\* Although the screen is only repainted when a message was handled or the
\* connection changed, it always shows "critical" exactly while CONNECTION_LOST is
\* raised, and agrees with the connection indicator beside it.
CriticalIsShown ==
    Idle => /\ shownAlert.alert = "critical" <=> connectionLostActive
            /\ display.connected => shownAlert.alert # "critical"

\* While the display says connected, no number marked valid is older than its age
\* limit plus the heartbeat timeout: the lack of repainting delays the change to
\* STALE, but a live link bounds the delay.
StalenessBoundedWhileConnected ==
    Idle /\ polled /\ display.connected =>
        \A i \in Item : display.valid[i] =>
            now - display.shown[i] <= MaxAge[SourceOf[i]] + HeartbeatTimeout

\* The labels and the numbers of one message agree, although they are computed
\* apart: a group is labelled VALID exactly when one of its numbers is marked so,
\* and two numbers of a group that are both marked valid stem from the same message,
\* never one from the present reading and one kept from an earlier one.
DisplayIsCoherent ==
    /\ \A g \in Group : display.state[g] = "VALID"
                          <=> \E i \in Item : SourceOf[i] = g /\ display.valid[i]
    /\ \A i, j \in Item :
          SourceOf[i] = SourceOf[j] /\ display.valid[i] /\ display.valid[j]
            => display.shown[i] = display.shown[j]

\* Every step of the display is one of the pipeline.
Pipeline == INSTANCE WarningPipeline
ImplementsPipeline == Pipeline!Spec

\* docs/ALERT_INFRASTRUCTURE.md:28: "Expired values become `STALE`".
ExpiredIsStale ==
    Idle /\ polled =>
        \A i \in Item : display.valid[i] =>
            now - display.shown[i] <= MaxAge[SourceOf[i]]

\* pfd_live_model.hpp:32-34 declares snapshotChanged as the notification of the
\* alert's text, severity and count: QML has read what the model holds.
AlertIsNotified ==
    Idle => shownAlert = [alert |-> alert, count |-> Cardinality(DOMAIN active)]

=============================================================================
