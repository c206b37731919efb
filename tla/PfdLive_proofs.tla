--------------------------- MODULE PfdLive_proofs ---------------------------
(***************************************************************************)
(* Proofs about the live display, for every set of sensors, messages and   *)
(* numbers shown, every age limit and every budget of messages per poll.   *)
(***************************************************************************)
EXTENDS PfdLive, WarningEngine_proofs, SequenceTheorems

USE DEF Time, OptionalTime

-----------------------------------------------------------------------------
(* The inductive invariant                                                 *)

On(c) == [code |-> c, active |-> TRUE]
Off(c) == [code |-> c, active |-> FALSE]

\* Between two polls, before the first one included.
Outside == pc \in {"starting", "idle"}

\* Nothing of this poll reached a handler yet, so nothing read is unpainted.
Untouched == Outside \/ ~received

TypeOK ==
    /\ ReaderTypeOK /\ EngineTypeOK
    /\ now \in Time
    /\ pc \in {"starting", "idle", "terminated", "drain", "refresh", "evaluate",
               "submit", "publish"}
    /\ received \in BOOLEAN /\ wasConnected \in BOOLEAN /\ polled \in BOOLEAN
    /\ pending \subseteq Event
    /\ display.connected \in BOOLEAN

\* No reading is from the future.
StampsPast == \A src \in Source : stamp[src] # None => stamp[src] <= now

\* An entry of the active map holds its code's activation.
EntriesAreRaised ==
    /\ DOMAIN active \subseteq Code
    /\ \A c \in DOMAIN active : active[c].event = On(c)

\* The events not submitted yet lead from the active map to the engine's warnings.
PendingLeads ==
    /\ pc # "submit" => pending = {}
    /\ \A c \in Code : /\ ~(On(c) \in pending /\ Off(c) \in pending)
                       /\ c \in RaisedCodes <=>
                            (On(c) \in pending \/ (c \in DOMAIN active /\ Off(c) \notin pending))

\* Each queued transition changes the state of its code, up to the one it is in.
QueueFollows ==
    /\ transitions \in Seq(Event)
    /\ \A n \in DOMAIN transitions :
          transitions[n].active <=> ~RaisedBefore(transitions[n].code, n)
    /\ \A c \in Code : c \in DOMAIN active <=> RaisedBefore(c, Len(transitions) + 1)

\* The connection warning and the flag it was derived from, "up": they agree once there
\* was a heartbeat, and both are unset before.
WarningSays(up) ==
    IF stamp["HEARTBEAT"] = None THEN ~up /\ ~connectionLostActive
                                 ELSE connectionLostActive = ~up

\* How the connection warning, the flag and the display's copy of it relate in each step.
LinkKnown ==
    /\ stamp["HEARTBEAT"] = None => ~connected /\ ~connectionLostActive
    /\ pc \in {"starting", "idle", "submit", "publish"} => WarningSays(connected)
    /\ pc \in {"drain", "refresh"} /\ ~received => WarningSays(connected)
    /\ pc = "refresh" => wasConnected = connected
    /\ pc = "evaluate" /\ ~received => WarningSays(wasConnected)
    /\ Outside \/ (pc \in {"drain", "refresh"} /\ ~received)
          => (display.connected <=> connected)
    /\ pc \in {"evaluate", "submit", "publish"} /\ ~received
          => display.connected = wasConnected

\* The highest alert, and what QML has read of it: what it read is only behind the
\* warning in a poll that is going to repaint.
AlertKnown ==
    /\ pc = "publish" => (alert = "critical" <=> connectionLostActive)
    /\ \/ pc \in {"submit", "publish"} /\ Repaint
       \/ pc = "terminated"
       \/ (shownAlert.alert = "critical" <=> connectionLostActive)
    /\ display.connected => shownAlert.alert # "critical"

\* The flag is the heartbeat's state from the refresh to the next tick.
FlagIsCurrent ==
    pc \in {"evaluate", "submit", "publish"} \/ (Outside /\ polled)
        => (connected <=> HeartbeatAlive(now))

\* A number marked valid was within its age limit at the last heartbeat, which repainted.
PaintedAtHeartbeat ==
    /\ \A i \in Item : display.valid[i] => display.shown[i] \in Time
    /\ Untouched /\ stamp["HEARTBEAT"] # None =>
          \A i \in Item : display.valid[i] =>
              stamp["HEARTBEAT"] - display.shown[i] <= MaxAge[SourceOf[i]]

IInv ==
    /\ TypeOK
    /\ StampsPast
    /\ EntriesAreRaised
    /\ PendingLeads
    /\ QueueFollows
    /\ LinkKnown
    /\ AlertKnown
    /\ FlagIsCurrent
    /\ PaintedAtHeartbeat
    /\ DisplayIsCoherent

-----------------------------------------------------------------------------
(* Types and time                                                          *)

\* The constants a proof about times needs.
LEMMA Limits ==
    /\ HeartbeatTimeout \in Nat /\ "HEARTBEAT" \in Source
    /\ \A i \in Item : SourceOf[i] \in Source
    /\ \A g \in Source : MaxAge[g] \in Nat
BY ReaderAssumption, PfdAssumption

LEMMA TypeInit == Init => TypeOK
<1> SUFFICES ASSUME Init PROVE TypeOK
  OBVIOUS
<1>1. ReaderTypeOK /\ EngineTypeOK
  BY ReaderInitType, EngineInitType DEF Init
<1>2. display.connected = FALSE
  BY DEF Init
<1> QED
  BY <1>1, <1>2 DEF Init, TypeOK

LEMMA TypeNext == TypeOK /\ [Next]_vars => TypeOK'
<1> SUFFICES ASSUME TypeOK, [Next]_vars PROVE TypeOK'
  OBVIOUS
<1>1. CASE Start \/ Poll \/ Drained \/ SocketError \/ UpdateAlert
  BY <1>1 DEF TypeOK, Start, Poll, Drained, SocketError, UpdateAlert, Goto, readerVars,
     engineVars, pollVars, viewVars, ReaderTypeOK, EngineTypeOK
<1>2. ASSUME NEW msg \in Message, Drain(msg) PROVE TypeOK'
  <2>1. ReaderTypeOK'
    BY <1>2, ProcessType DEF TypeOK, Drain
  <2> QED
    BY <1>2, <2>1 DEF TypeOK, Drain, Goto, engineVars, viewVars, EngineTypeOK
<1>3. CASE RefreshStatus
  BY <1>3 DEF TypeOK, RefreshStatus, Goto, HeartbeatAlive, engineVars, pollVars, viewVars,
     ReaderTypeOK, EngineTypeOK
<1>4. CASE EvaluateAll
  <2>1. EngineTypeOK'
    BY <1>4, EvaluateType DEF TypeOK, EvaluateAll, ReaderTypeOK
  <2>2. pending' \subseteq Event
    BY <1>4, <2>1 DEF EvaluateAll, EngineTypeOK
  <2> QED
    BY <1>4, <2>1, <2>2 DEF TypeOK, EvaluateAll, Goto, readerVars, viewVars, ReaderTypeOK
<1>5. CASE SubmitOne
  BY <1>5 DEF TypeOK, SubmitOne, Goto, readerVars, engineVars, viewVars, ReaderTypeOK,
     EngineTypeOK
<1>6. CASE Publish
  <2>1. display'.connected \in BOOLEAN
    BY <1>6 DEF TypeOK, Publish, UpdatePresentation, ReaderTypeOK
  <2> QED
    BY <1>6, <2>1 DEF TypeOK, Publish, Goto, readerVars, engineVars, pollVars,
       ReaderTypeOK, EngineTypeOK
<1>7. CASE Tick
  <2>1. now' \in Time
    BY <1>7 DEF TypeOK, Tick
  <2> QED
    BY <1>7, <2>1 DEF TypeOK, Tick, readerVars, engineVars, pollVars, viewVars,
       ReaderTypeOK, EngineTypeOK
<1>8. CASE UNCHANGED vars
  BY <1>8 DEF TypeOK, vars, readerVars, engineVars, pollVars, viewVars, ReaderTypeOK,
     EngineTypeOK
<1> QED
  BY <1>1, <1>2, <1>3, <1>4, <1>5, <1>6, <1>7, <1>8 DEF Next

\* Only a message changes the stamps, to the time of the clock.
LEMMA StampsChange ==
    ASSUME [Next]_vars
    PROVE  \/ \E msg \in Message : Drain(msg)
           \/ stamp' = stamp
BY DEF Next, Start, Poll, Drained, SocketError, RefreshStatus, EvaluateAll, SubmitOne,
   UpdateAlert, Publish, Tick, vars, readerVars

\* Time does not go back.
LEMMA TimeChange ==
    ASSUME [Next]_vars
    PROVE  now' = now \/ (Tick /\ now' = now + 1)
BY DEF Next, Start, Poll, Drain, Drained, SocketError, RefreshStatus, EvaluateAll,
   SubmitOne, UpdateAlert, Publish, Tick, vars

LEMMA PastNext == TypeOK /\ StampsPast /\ [Next]_vars => StampsPast'
<1> SUFFICES ASSUME TypeOK, StampsPast, [Next]_vars, NEW src \in Source, stamp'[src] # None
             PROVE  stamp'[src] <= now'
  BY DEF StampsPast
<1>1. now \in Nat /\ (now' = now \/ now' = now + 1)
  BY TimeChange DEF TypeOK
<1>2. CASE \E msg \in Message : Drain(msg)
  <2>1. PICK msg \in Message : Drain(msg)
    BY <1>2
  <2>2. stamp'[src] \in {stamp[src], now} /\ now' = now
    BY <2>1, ProcessStamps DEF TypeOK, Drain
  <2> QED
    BY <1>1, <2>2 DEF StampsPast
<1>3. CASE stamp' = stamp
  BY <1>1, <1>3 DEF StampsPast, TypeOK, ReaderTypeOK
<1> QED
  BY <1>2, <1>3, StampsChange

-----------------------------------------------------------------------------
(* The warnings and the active map                                         *)

\* An event is its code's activation or its code's recovery.
LEMMA EventIs ==
    ASSUME NEW e \in Event
    PROVE  /\ e.code \in Code /\ e.active \in BOOLEAN
           /\ e.active => e = On(e.code)
           /\ ~e.active => e = Off(e.code)
<1>1. e = [code |-> e.code, active |-> e.active] /\ e.code \in Code /\ e.active \in BOOLEAN
  BY DEF Event
<1> QED
  BY <1>1 DEF On, Off

\* What submitting an event does to the map.
LEMMA SubmitMap ==
    ASSUME NEW e, Scheduler!Submit(e)
    PROVE  /\ e.active =>
                /\ DOMAIN active' = DOMAIN active \cup {e.code}
                /\ active'[e.code].event = e
                /\ \A d \in DOMAIN active : d # e.code => active'[d] = active[d]
           /\ ~e.active =>
                /\ DOMAIN active' = DOMAIN active \ {e.code}
                /\ \A d \in DOMAIN active' : active'[d] = active[d]
BY DEF Scheduler!Submit, Scheduler!Put, Scheduler!Erase

\* An evaluation leaves what the map holds; a submission moves the map towards it.
LEMMA EntriesNext ==
    TypeOK /\ EntriesAreRaised /\ PendingLeads /\ [Next]_vars
        => EntriesAreRaised' /\ PendingLeads'
<1> SUFFICES ASSUME TypeOK, EntriesAreRaised, PendingLeads, [Next]_vars
             PROVE  EntriesAreRaised' /\ PendingLeads'
  OBVIOUS
<1> USE DEF EntriesAreRaised, PendingLeads
<1>1. ASSUME UNCHANGED <<pending, active, unhealthySensors, connectionLostActive>>,
             pc' # "submit" => pending = {}
      PROVE  EntriesAreRaised' /\ PendingLeads'
  BY <1>1 DEF RaisedCodes
<1>2. ASSUME \/ Start \/ Poll \/ Drained \/ SocketError \/ RefreshStatus \/ UpdateAlert
             \/ Publish \/ Tick \/ UNCHANGED vars
      PROVE  EntriesAreRaised' /\ PendingLeads'
  BY <1>1, <1>2 DEF Start, Poll, Drained, SocketError, RefreshStatus, UpdateAlert, Publish,
     Tick, vars, Goto, engineVars, pollVars, queueVars
<1>3. ASSUME NEW msg \in Message, Drain(msg)
      PROVE  EntriesAreRaised' /\ PendingLeads'
  BY <1>1, <1>3 DEF Drain, Goto, engineVars, queueVars
<1>4. ASSUME EvaluateAll
      PROVE  EntriesAreRaised' /\ PendingLeads'
  <2>1. /\ Evaluate(connected, now) /\ pending' = events' /\ UNCHANGED queueVars
        /\ pc = "evaluate" /\ pc' = "submit"
    BY <1>4 DEF EvaluateAll, Goto
  <2>2. \A c \in Code : c \in RaisedCodes <=> c \in DOMAIN active
    BY <2>1
  <2>3. \A c \in Code :
          /\ ~(On(c) \in events' /\ Off(c) \in events')
          /\ c \in RaisedCodes'
                <=> (On(c) \in events' \/ (c \in RaisedCodes /\ Off(c) \notin events'))
    BY <2>1, EvaluateEvents DEF On, Off, TypeOK, ReaderTypeOK
  <2> QED
    BY <2>1, <2>2, <2>3 DEF queueVars
<1>5. ASSUME SubmitOne
      PROVE  EntriesAreRaised' /\ PendingLeads'
  <2>1. PICK e \in pending : Scheduler!Submit(e) /\ pending' = pending \ {e}
    BY <1>5 DEF SubmitOne, FirstPending
  <2>2. UNCHANGED RaisedCodes /\ pc = "submit" /\ pc' = "submit"
    BY <1>5 DEF SubmitOne, Goto, engineVars, RaisedCodes
  <2>3. e \in Event
    BY <2>1 DEF TypeOK
  <2>0. /\ e.active =>
             /\ DOMAIN active' = DOMAIN active \cup {e.code}
             /\ active'[e.code].event = e
             /\ \A d \in DOMAIN active : d # e.code => active'[d] = active[d]
        /\ ~e.active =>
             /\ DOMAIN active' = DOMAIN active \ {e.code}
             /\ \A d \in DOMAIN active' : active'[d] = active[d]
    BY <2>1, SubmitMap
  <2>4. EntriesAreRaised'
    BY <2>0, <2>3, EventIs
  <2>5. ASSUME NEW c \in Code
        PROVE  /\ ~(On(c) \in pending' /\ Off(c) \in pending')
               /\ c \in RaisedCodes <=>
                    (On(c) \in pending' \/ (c \in DOMAIN active' /\ Off(c) \notin pending'))
    <3>1. On(c) # Off(c) /\ On(c).code = c /\ Off(c).code = c
            /\ On(c).active = TRUE /\ Off(c).active = FALSE
      BY DEF On, Off
    <3>2. CASE e.code # c
      <4>1. c \in DOMAIN active' <=> c \in DOMAIN active
        BY <2>0, <2>3, <3>2, EventIs
      <4>2. e # On(c) /\ e # Off(c)
        BY <3>1, <3>2
      <4> QED
        BY <2>1, <4>1, <4>2
    <3>3. CASE e = On(c)
      <4>1. c \in DOMAIN active'
        BY <2>0, <3>1, <3>3
      <4> QED
        BY <2>1, <3>1, <3>3, <4>1
    <3>4. CASE e = Off(c)
      <4>1. c \notin DOMAIN active'
        BY <2>0, <3>1, <3>4
      <4> QED
        BY <2>1, <3>1, <3>4, <4>1
    <3> QED
      BY <2>3, <3>2, <3>3, <3>4, EventIs
  <2> QED
    BY <2>2, <2>4, <2>5
<1> QED
  BY <1>2, <1>3, <1>4, <1>5 DEF Next

-----------------------------------------------------------------------------
(* The queue of transitions                                                *)

\* A transition at the end is the last word on its code, and changes nothing before it.
LEMMA AppendTold ==
    ASSUME transitions \in Seq(Event), NEW e \in Event,
           transitions' = Append(transitions, e), NEW c, NEW N, N = Len(transitions)
    PROVE  /\ Len(transitions') = N + 1
           /\ \A n \in 1..(N + 1) : RaisedBefore(c, n)' <=> RaisedBefore(c, n)
           /\ RaisedBefore(c, N + 2)' <=>
                 IF e.code = c THEN e.active ELSE RaisedBefore(c, N + 1)
<1>1. /\ DOMAIN transitions = 1..N /\ N \in Nat /\ DOMAIN transitions' = 1..(N + 1)
      /\ \A i \in 1..N : transitions'[i] = transitions[i]
      /\ transitions'[N + 1] = e /\ Len(transitions') = N + 1
  BY AppendProperties
<1>2. e = On(c) <=> e.code = c /\ e.active
  <2>1. On(c).code = c /\ On(c).active = TRUE
    BY DEF On
  <2> QED
    BY <2>1, EventIs
<1>3. /\ \A n : RaisedBefore(c, n) <=>
              \E i \in 1..N : /\ i < n /\ transitions[i] = On(c)
                              /\ \A j \in 1..N : i < j /\ j < n => transitions[j].code # c
      /\ \A n : RaisedBefore(c, n)' <=>
              \E i \in 1..(N + 1) :
                  /\ i < n /\ transitions'[i] = On(c)
                  /\ \A j \in 1..(N + 1) : i < j /\ j < n => transitions'[j].code # c
  BY <1>1 DEF RaisedBefore, On
<1>4. \A n \in 1..(N + 1) : RaisedBefore(c, n)' <=> RaisedBefore(c, n)
  <2> SUFFICES ASSUME NEW n \in 1..(N + 1) PROVE RaisedBefore(c, n)' <=> RaisedBefore(c, n)
    OBVIOUS
  <2>1. \A i \in 1..(N + 1) : i < n => i \in 1..N
    BY <1>1
  <2>2. \A i \in 1..N : i \in 1..(N + 1)
    BY <1>1
  <2>3. ASSUME RaisedBefore(c, n) PROVE RaisedBefore(c, n)'
    <3>1. PICK i \in 1..N : /\ i < n /\ transitions[i] = On(c)
                            /\ \A j \in 1..N : i < j /\ j < n => transitions[j].code # c
      BY <1>3, <2>3
    <3>2. \A j \in 1..(N + 1) : i < j /\ j < n => transitions'[j].code # c
      BY <1>1, <2>1, <3>1
    <3>3. i \in 1..(N + 1) /\ i < n /\ transitions'[i] = On(c)
      BY <1>1, <2>2, <3>1
    <3> QED
      BY <1>3, <3>2, <3>3
  <2>4. ASSUME RaisedBefore(c, n)' PROVE RaisedBefore(c, n)
    <3>1. PICK i \in 1..(N + 1) :
              /\ i < n /\ transitions'[i] = On(c)
              /\ \A j \in 1..(N + 1) : i < j /\ j < n => transitions'[j].code # c
      BY <1>3, <2>4
    <3>2. \A j \in 1..N : i < j /\ j < n => transitions[j].code # c
      BY <1>1, <2>2, <3>1
    <3>3. i \in 1..N /\ i < n /\ transitions[i] = On(c)
      BY <1>1, <2>1, <3>1
    <3> QED
      BY <1>3, <3>2, <3>3
  <2> QED
    BY <2>3, <2>4
<1>5. ASSUME e.code = c PROVE RaisedBefore(c, N + 2)' <=> e.active
  <2>1. N + 1 \in 1..(N + 1) /\ N + 1 < N + 2 /\ \A j \in 1..(N + 1) : ~(N + 1 < j)
    BY <1>1
  <2>2. \A i \in 1..(N + 1) : i = N + 1 \/ i < N + 1
    BY <1>1
  <2>3. ASSUME e.active PROVE RaisedBefore(c, N + 2)'
    BY <1>1, <1>2, <1>3, <1>5, <2>1, <2>3
  <2>4. ASSUME RaisedBefore(c, N + 2)' PROVE e.active
    <3>1. PICK i \in 1..(N + 1) :
              /\ transitions'[i] = On(c)
              /\ \A j \in 1..(N + 1) : i < j /\ j < N + 2 => transitions'[j].code # c
      BY <1>3, <2>4
    <3>2. i = N + 1
      BY <1>1, <1>5, <2>1, <2>2, <3>1
    <3> QED
      BY <1>1, <1>2, <3>1, <3>2
  <2> QED
    BY <2>3, <2>4
<1>6. ASSUME e.code # c
      PROVE  RaisedBefore(c, N + 2)' <=> RaisedBefore(c, N + 1)
  <2>1. e # On(c)
    BY <1>2, <1>6
  <2>2. \A i \in 1..N : i \in 1..(N + 1) /\ i < N + 1 /\ i < N + 2
    BY <1>1
  <2>3. \A i \in 1..(N + 1) : i \in 1..N \/ i = N + 1
    BY <1>1
  <2>4. ASSUME RaisedBefore(c, N + 1) PROVE RaisedBefore(c, N + 2)'
    <3>1. PICK i \in 1..N : /\ transitions[i] = On(c)
                            /\ \A j \in 1..N : i < j /\ j < N + 1 => transitions[j].code # c
      BY <1>3, <2>4
    <3>2. \A j \in 1..(N + 1) : i < j => transitions'[j].code # c
      BY <1>1, <1>6, <2>2, <2>3, <3>1
    <3> QED
      BY <1>1, <1>3, <2>2, <3>1, <3>2
  <2>5. ASSUME RaisedBefore(c, N + 2)' PROVE RaisedBefore(c, N + 1)
    <3>1. PICK i \in 1..(N + 1) :
              /\ transitions'[i] = On(c)
              /\ \A j \in 1..(N + 1) : i < j /\ j < N + 2 => transitions'[j].code # c
      BY <1>3, <2>5
    <3>2. i \in 1..N
      BY <1>1, <2>1, <2>3, <3>1
    <3>3. \A j \in 1..N : i < j => transitions[j].code # c
      BY <1>1, <2>2, <3>1
    <3> QED
      BY <1>1, <1>3, <2>2, <3>1, <3>2, <3>3
  <2> QED
    BY <2>4, <2>5
<1> QED
  BY <1>1, <1>4, <1>5, <1>6

\* Submitting an event keeps the queue in step with the map.
LEMMA QueueNext ==
    TypeOK /\ QueueFollows /\ [Next]_vars => QueueFollows'
<1> SUFFICES ASSUME TypeOK, QueueFollows, [Next]_vars PROVE QueueFollows'
  OBVIOUS
<1> USE DEF QueueFollows
<1>1. ASSUME UNCHANGED <<transitions, DOMAIN active>> PROVE QueueFollows'
  BY <1>1 DEF RaisedBefore
<1>2. CASE \/ Start \/ Poll \/ Drained \/ SocketError \/ RefreshStatus \/ EvaluateAll
           \/ UpdateAlert \/ Publish \/ Tick \/ UNCHANGED vars
  BY <1>1, <1>2 DEF Start, Poll, Drained, SocketError, RefreshStatus, EvaluateAll,
     UpdateAlert, Publish, Tick, vars, queueVars
<1>3. ASSUME NEW msg \in Message, Drain(msg) PROVE QueueFollows'
  BY <1>1, <1>3 DEF Drain, queueVars
<1>4. CASE SubmitOne
  <2>1. PICK e \in Event : Scheduler!Submit(e)
    BY <1>4 DEF SubmitOne, FirstPending, TypeOK
  <2>2. e.code \in Code /\ e.active \in BOOLEAN
    BY EventIs
  <2>3. /\ e.active => DOMAIN active' = DOMAIN active \cup {e.code}
        /\ ~e.active => DOMAIN active' = DOMAIN active \ {e.code}
    BY <2>1, SubmitMap
  <2>4. CASE e.active <=> e.code \in DOMAIN active
    <3>1. UNCHANGED transitions
      BY <2>1, <2>2, <2>4 DEF Scheduler!Submit, Scheduler!IsTransition
    <3>2. UNCHANGED DOMAIN active
      BY <2>2, <2>3, <2>4
    <3> QED
      BY <1>1, <3>1, <3>2
  <2>5. CASE e.active <=> e.code \notin DOMAIN active
    <3>1. transitions' = Append(transitions, e)
      BY <2>1, <2>2, <2>5 DEF Scheduler!Submit, Scheduler!IsTransition
    <3>2. PICK N \in Nat : N = Len(transitions)
      OBVIOUS
    <3>3. \A c : /\ \A n \in 1..(N + 1) : RaisedBefore(c, n)' <=> RaisedBefore(c, n)
                 /\ RaisedBefore(c, N + 2)' <=>
                       IF e.code = c THEN e.active ELSE RaisedBefore(c, N + 1)
      BY <3>1, <3>2, AppendTold
    <3>4. /\ transitions' \in Seq(Event) /\ DOMAIN transitions' = 1..(N + 1)
          /\ Len(transitions') + 1 = N + 2
          /\ \A n \in 1..(N + 1) :
                \/ n \in DOMAIN transitions /\ transitions'[n] = transitions[n]
                \/ n = N + 1 /\ transitions'[n] = e
      BY <3>1, <3>2, AppendProperties
    <3>5. \A c \in Code : c \in DOMAIN active <=> RaisedBefore(c, N + 1)
      BY <3>2
    <3>6. \A c \in Code : c \in DOMAIN active' <=> RaisedBefore(c, N + 2)'
      BY <2>2, <2>3, <3>3, <3>5
    <3>7. \A n \in 1..(N + 1) : \A f :
             f = transitions'[n] => (f.active <=> ~RaisedBefore(f.code, n)')
      <4> SUFFICES ASSUME NEW n \in 1..(N + 1), NEW f, f = transitions'[n]
                   PROVE  f.active <=> ~RaisedBefore(f.code, n)'
        OBVIOUS
      <4>1. CASE n \in DOMAIN transitions /\ f = transitions[n]
        <5>1. f.active <=> ~RaisedBefore(f.code, n)
          BY <4>1
        <5> QED
          BY <3>3, <5>1
      <4>2. CASE n = N + 1 /\ f = e
        <5>1. RaisedBefore(f.code, n)' <=> RaisedBefore(e.code, N + 1)
          BY <3>3, <4>2
        <5> QED
          BY <2>2, <2>5, <3>5, <4>2, <5>1
      <4> QED
        BY <3>4, <4>1, <4>2
    <3> QED
      BY <3>4, <3>6, <3>7
  <2> QED
    BY <2>2, <2>4, <2>5
<1> QED
  BY <1>2, <1>3, <1>4 DEF Next

-----------------------------------------------------------------------------
(* The connection and its warning                                          *)

\* What a poll that reached no handler leaves.
LEMMA UnhandledMessage ==
    ASSUME NEW msg, NEW t, ProcessMessage(msg, t), msg.id \notin Source
    PROVE  UNCHANGED readerVars
BY ReaderAssumption DEF ProcessMessage

LEMMA LinkInit == Init => LinkKnown /\ FlagIsCurrent
<1> SUFFICES ASSUME Init PROVE LinkKnown /\ FlagIsCurrent
  OBVIOUS
<1>1. /\ pc = "starting" /\ received = FALSE /\ polled = FALSE
      /\ display.connected = FALSE /\ connected = FALSE /\ connectionLostActive = FALSE
  BY DEF Init, ReaderInit, EngineInit
<1>2. stamp["HEARTBEAT"] = None
  BY ReaderAssumption DEF Init, ReaderInit
<1> QED
  BY <1>1, <1>2 DEF LinkKnown, FlagIsCurrent, WarningSays, Outside

LEMMA LinkNext == TypeOK /\ LinkKnown /\ [Next]_vars => LinkKnown'
<1> SUFFICES ASSUME TypeOK, LinkKnown, [Next]_vars PROVE LinkKnown'
  OBVIOUS
<1> USE DEF LinkKnown, WarningSays, Outside
<1>1. connected \in BOOLEAN /\ connectionLostActive \in BOOLEAN /\ received \in BOOLEAN
        /\ wasConnected \in BOOLEAN /\ display.connected \in BOOLEAN
  BY DEF TypeOK, ReaderTypeOK, EngineTypeOK
<1>2. CASE Start \/ Poll \/ Drained \/ SocketError \/ SubmitOne \/ UpdateAlert \/ Tick
             \/ UNCHANGED vars
  BY <1>1, <1>2 DEF Start, Poll, Drained, SocketError, SubmitOne, UpdateAlert, Tick, vars,
     Goto, readerVars, engineVars, pollVars, viewVars
<1>3. ASSUME NEW msg \in Message, Drain(msg) PROVE LinkKnown'
  <2>1. /\ pc = "drain" /\ pc' = "drain" /\ UNCHANGED <<connectionLostActive, display>>
        /\ received' = (received \/ msg.id \in Source)
        /\ ProcessMessage(msg, now) /\ now \in Time
    BY <1>3 DEF Drain, Goto, engineVars, viewVars, TypeOK
  <2>2. CASE msg.id \notin Source
    <3>1. UNCHANGED readerVars
      BY <2>1, <2>2, UnhandledMessage
    <3> QED
      BY <1>1, <2>1, <2>2, <3>1 DEF readerVars
  <2>3. CASE msg.id \in Source
    <3>1. received'
      BY <2>1, <2>3
    <3>2. stamp'["HEARTBEAT"] = None => ~connected' /\ ~connectionLostActive
      <4>1. CASE msg.id = "HEARTBEAT"
        <5>1. stamp'["HEARTBEAT"] = now
          BY <2>1, <4>1, ReaderAssumption DEF ProcessMessage, HandleHeartbeat, TypeOK, ReaderTypeOK
        <5>2. now # None
          BY <2>1, NoneAssumption
        <5> QED
          BY <5>1, <5>2
      <4>2. CASE msg.id # "HEARTBEAT"
        <5>1. connected' = connected /\ stamp'["HEARTBEAT"] = stamp["HEARTBEAT"]
          BY <2>1, <2>3, <4>2, ReaderAssumption
             DEF ProcessMessage, HandleSysStatus, HandleReading, TypeOK, ReaderTypeOK
        <5> QED
          BY <5>1
      <4> QED
        BY <4>1, <4>2
    <3> QED
      BY <2>1, <3>1, <3>2
  <2> QED
    BY <2>2, <2>3
<1>4. CASE RefreshStatus
  <2>1. connected' = HeartbeatAlive(now) /\ pc = "refresh" /\ pc' = "evaluate"
          /\ UNCHANGED <<stamp, connectionLostActive, received, wasConnected, display>>
    BY <1>4 DEF RefreshStatus, Goto, engineVars, pollVars, viewVars
  <2>2. stamp["HEARTBEAT"] = None => ~connected'
    BY <2>1 DEF HeartbeatAlive
  <2> QED
    BY <1>1, <2>1, <2>2
<1>5. CASE EvaluateAll
  <2>1. /\ connectionLostActive' =
              IF stamp["HEARTBEAT"] = None THEN connectionLostActive ELSE ~connected
        /\ pc = "evaluate" /\ pc' = "submit"
        /\ UNCHANGED <<stamp, connected, received, wasConnected, display>>
    BY <1>5, EvaluatedConnection DEF EvaluateAll, Goto, readerVars, viewVars
  <2> QED
    BY <1>1, <2>1
<1>6. CASE Publish
  <2>1. /\ pc = "publish" /\ pc' = "idle"
        /\ UNCHANGED <<stamp, connected, connectionLostActive, received, wasConnected>>
    BY <1>6 DEF Publish, Goto, readerVars, engineVars, pollVars
  <2>2. display'.connected = connected
    <3>1. CASE Repaint
      BY <1>6, <3>1 DEF Publish, UpdatePresentation
    <3>2. CASE ~Repaint
      BY <1>1, <1>6, <2>1, <3>2 DEF Publish, Repaint
    <3> QED
      BY <3>1, <3>2
  <2> QED
    BY <1>1, <2>1, <2>2
<1> QED
  BY <1>2, <1>3, <1>4, <1>5, <1>6 DEF Next

\* The flag is only stale while messages are taken and after time passed.
LEMMA FlagNext == TypeOK /\ FlagIsCurrent /\ [Next]_vars => FlagIsCurrent'
<1> SUFFICES ASSUME TypeOK, FlagIsCurrent, [Next]_vars PROVE FlagIsCurrent'
  OBVIOUS
<1> USE DEF FlagIsCurrent, Outside
<1>1. ASSUME UNCHANGED <<connected, stamp, now>>
      PROVE  UNCHANGED <<connected, HeartbeatAlive(now)>>
  BY <1>1 DEF HeartbeatAlive
<1>2. CASE \/ Start \/ Poll \/ Drained \/ SocketError \/ EvaluateAll \/ SubmitOne
           \/ UpdateAlert \/ Publish \/ UNCHANGED vars
  <2>1. UNCHANGED <<connected, HeartbeatAlive(now)>>
    BY <1>1, <1>2 DEF Start, Poll, Drained, SocketError, EvaluateAll, SubmitOne,
       UpdateAlert, Publish, vars, readerVars
  <2> HIDE DEF HeartbeatAlive
  <2> QED
    BY <1>2, <2>1 DEF Start, Poll, Drained, SocketError, EvaluateAll, SubmitOne,
       UpdateAlert, Publish, vars, Goto
<1>3. CASE RefreshStatus
  BY <1>3 DEF RefreshStatus, Goto, HeartbeatAlive
<1>4. CASE (\E msg \in Message : Drain(msg)) \/ Tick
  BY <1>4 DEF Drain, Goto, Tick
<1> QED
  BY <1>2, <1>3, <1>4 DEF Next

-----------------------------------------------------------------------------
(* The highest alert                                                       *)

\* The connection warning outranks every sensor's.
LEMMA HighestIsCritical ==
    ASSUME EntriesAreRaised, NEW e \in Scheduler!HighestActive
    PROVE  e.code = "CONNECTION_LOST" <=> "CONNECTION_LOST" \in DOMAIN active
<1> DEFINE R(c) == IF c = "CONNECTION_LOST" THEN 3 ELSE 2
<1>1. \A c \in DOMAIN active : Scheduler!Rank(active[c].event) = R(c)
  <2> SUFFICES ASSUME NEW c \in DOMAIN active
               PROVE  Scheduler!Rank(active[c].event) = R(c)
    OBVIOUS
  <2>1. active[c].event = On(c) /\ c \in Code
    BY DEF EntriesAreRaised
  <2>2. On(c).code = c /\ On(c) # Scheduler!Blank
    BY DEF On, Scheduler!Blank
  <2> QED
    BY <2>1, <2>2 DEF Scheduler!Rank
<1>2. PICK d \in DOMAIN active :
          /\ e = active[d].event
          /\ \A c \in DOMAIN active :
                Scheduler!Rank(active[c].event) <= Scheduler!Rank(active[d].event)
  BY DEF Scheduler!HighestActive, Scheduler!Choices
<1>3. \A c \in DOMAIN active : R(c) <= R(d)
  BY <1>1, <1>2
<1>4. e.code = d
  <2>1. e = On(d)
    BY <1>2 DEF EntriesAreRaised
  <2>2. On(d).code = d
    BY DEF On
  <2> QED
    BY <2>1, <2>2
<1> QED
  BY <1>3, <1>4

\* Something is the highest when something is active.
LEMMA HighestExists ==
    ASSUME EntriesAreRaised, "CONNECTION_LOST" \in DOMAIN active
    PROVE  Scheduler!HighestActive # {}
<1>1. \A c \in DOMAIN active : Scheduler!Rank(active[c].event) \in {2, 3}
  <2> SUFFICES ASSUME NEW c \in DOMAIN active
               PROVE  Scheduler!Rank(active[c].event) \in {2, 3}
    OBVIOUS
  <2>1. active[c].event = On(c) /\ c \in Code
    BY DEF EntriesAreRaised
  <2>2. On(c).code = c /\ On(c) # Scheduler!Blank
    BY DEF On, Scheduler!Blank
  <2> QED
    BY <2>1, <2>2 DEF Scheduler!Rank
<1>2. Scheduler!Rank(active["CONNECTION_LOST"].event) = 3
  <2>1. active["CONNECTION_LOST"].event = On("CONNECTION_LOST")
          /\ "CONNECTION_LOST" \in Code
    BY DEF EntriesAreRaised
  <2>2. On("CONNECTION_LOST").code = "CONNECTION_LOST" /\ On("CONNECTION_LOST") # Scheduler!Blank
    BY DEF On, Scheduler!Blank
  <2> QED
    BY <2>1, <2>2 DEF Scheduler!Rank
<1>3. "CONNECTION_LOST" \in Scheduler!Choices(DOMAIN active)
  BY <1>1, <1>2 DEF Scheduler!Choices
<1> QED
  BY <1>3 DEF Scheduler!HighestActive

\* What the model holds as its alert is known when it is published, and what QML read
\* is only behind when it is about to read again.
LEMMA AlertNext ==
    TypeOK /\ EntriesAreRaised /\ PendingLeads /\ LinkKnown /\ AlertKnown /\ [Next]_vars
    => AlertKnown'
<1> SUFFICES ASSUME TypeOK, EntriesAreRaised, PendingLeads, LinkKnown, AlertKnown, [Next]_vars
             PROVE  AlertKnown'
  OBVIOUS
<1> USE DEF AlertKnown
<1>1. connected \in BOOLEAN /\ connectionLostActive \in BOOLEAN /\ received \in BOOLEAN
        /\ wasConnected \in BOOLEAN /\ display.connected \in BOOLEAN
  BY DEF TypeOK, ReaderTypeOK, EngineTypeOK
<1>2. CASE Start \/ Poll \/ Drained \/ SocketError \/ SubmitOne \/ Tick
             \/ RefreshStatus \/ UNCHANGED vars
  BY <1>1, <1>2 DEF Start, Poll, Drained, SocketError, SubmitOne, Tick, RefreshStatus, vars,
     Goto, readerVars, engineVars, pollVars, viewVars, Repaint
<1>3. ASSUME NEW msg \in Message, Drain(msg) PROVE AlertKnown'
  BY <1>3 DEF Drain, Goto, engineVars, viewVars, Repaint
<1>4. CASE EvaluateAll
  <2>1. /\ connectionLostActive' =
              IF stamp["HEARTBEAT"] = None THEN connectionLostActive ELSE ~connected
        /\ pc = "evaluate" /\ pc' = "submit"
        /\ UNCHANGED <<connected, received, wasConnected, display, shownAlert>>
    BY <1>4, EvaluatedConnection DEF EvaluateAll, Goto, readerVars, viewVars
  <2>2. CASE Repaint
    BY <2>1, <2>2 DEF Repaint
  <2>3. CASE ~Repaint
    <3>1. connectionLostActive' = connectionLostActive
      BY <1>1, <2>1, <2>3 DEF Repaint, LinkKnown, WarningSays
    <3> QED
      BY <2>1, <3>1
  <2> QED
    BY <2>2, <2>3
<1>5. CASE UpdateAlert
  <2>1. pc = "submit" /\ pending = {} /\ pc' = "publish"
          /\ UNCHANGED <<connected, received, wasConnected, connectionLostActive, display,
                         shownAlert>>
    BY <1>5 DEF UpdateAlert, Goto, readerVars, engineVars, pollVars
  <2>2. "CONNECTION_LOST" \in DOMAIN active <=> connectionLostActive
    <3>1. "CONNECTION_LOST" \in Code /\ "CONNECTION_LOST" \notin unhealthySensors
      BY EngineAssumption DEF Code, TypeOK, EngineTypeOK
    <3>2. "CONNECTION_LOST" \in RaisedCodes <=> connectionLostActive
      BY <3>1 DEF RaisedCodes
    <3> QED
      BY <2>1, <3>1, <3>2 DEF PendingLeads
  <2>3. alert' = "critical" <=> "CONNECTION_LOST" \in DOMAIN active
    <3>1. CASE Scheduler!HighestActive = {}
      BY <1>5, <3>1, HighestExists DEF UpdateAlert
    <3>2. CASE Scheduler!HighestActive # {}
      <4>1. PICK e \in Scheduler!HighestActive : alert' = SeverityName(e)
        BY <1>5, <3>2 DEF UpdateAlert
      <4>2. e.code = "CONNECTION_LOST" <=> "CONNECTION_LOST" \in DOMAIN active
        BY HighestIsCritical
      <4> QED
        BY <4>1, <4>2 DEF SeverityName
    <3> QED
      BY <3>1, <3>2
  <2> QED
    BY <2>1, <2>2, <2>3 DEF Repaint
<1>6. CASE Publish
  <2>1. /\ pc = "publish" /\ pc' = "idle"
        /\ UNCHANGED <<connected, connectionLostActive, received, wasConnected>>
    BY <1>6 DEF Publish, Goto, readerVars, engineVars, pollVars
  <2>2. CASE Repaint
    <3>1. display'.connected = connected /\ shownAlert'.alert = alert
      BY <1>6, <2>2 DEF Publish, UpdatePresentation
    <3>2. connected => ~connectionLostActive
      BY <1>1, <2>1 DEF LinkKnown, WarningSays
    <3> QED
      BY <2>1, <3>1, <3>2
  <2>3. CASE ~Repaint
    BY <1>6, <2>1, <2>3 DEF Publish
  <2> QED
    BY <2>2, <2>3
<1> QED
  BY <1>2, <1>3, <1>4, <1>5, <1>6 DEF Next

-----------------------------------------------------------------------------
(* The numbers shown                                                       *)

\* What updatePresentation stores.
LEMMA Presented ==
    ASSUME UpdatePresentation
    PROVE  /\ \A i \in Item :
                 /\ display'.valid[i] <=> Available(i) /\ Fresh(SourceOf[i])
                 /\ display'.valid[i] => display'.shown[i] = stamp[SourceOf[i]]
           /\ \A g \in Group :
                 display'.state[g] = StateFor(GroupAvailable(g), Fresh(g))
BY DEF UpdatePresentation

\* A poll without a handled message leaves the heartbeat's time alone.
LEMMA PaintedNext ==
    TypeOK /\ StampsPast /\ PaintedAtHeartbeat /\ [Next]_vars => PaintedAtHeartbeat'
<1> SUFFICES ASSUME TypeOK, StampsPast, PaintedAtHeartbeat, [Next]_vars
             PROVE  PaintedAtHeartbeat'
  OBVIOUS
<1> USE DEF PaintedAtHeartbeat
<1>1. ASSUME UNCHANGED <<stamp, display>>, Untouched' => Untouched
      PROVE  PaintedAtHeartbeat'
  BY <1>1
<1>2. CASE \/ Start \/ Poll \/ Drained \/ SocketError \/ RefreshStatus \/ EvaluateAll
           \/ SubmitOne \/ UpdateAlert \/ Tick \/ UNCHANGED vars
  BY <1>1, <1>2 DEF Start, Poll, Drained, SocketError, RefreshStatus, EvaluateAll, SubmitOne,
     UpdateAlert, Tick, vars, Goto, readerVars, engineVars, pollVars, viewVars, Untouched,
     Outside
<1>3. ASSUME NEW msg \in Message, Drain(msg) PROVE PaintedAtHeartbeat'
  <2>1. /\ pc = "drain" /\ pc' = "drain" /\ UNCHANGED display
        /\ received' = (received \/ msg.id \in Source)
        /\ ProcessMessage(msg, now)
    BY <1>3 DEF Drain, Goto, viewVars
  <2>2. CASE msg.id \notin Source
    <3>1. UNCHANGED readerVars
      BY <2>1, <2>2, UnhandledMessage
    <3>2. Untouched' => Untouched
      BY <2>1 DEF Untouched, Outside
    <3> QED
      BY <1>1, <2>1, <3>1, <3>2 DEF readerVars
  <2>3. CASE msg.id \in Source
    <3>1. ~Untouched'
      BY <2>1, <2>3 DEF Untouched, Outside
    <3> QED
      BY <2>1, <3>1
  <2> QED
    BY <2>2, <2>3
<1>4. CASE Publish
  <2>1. pc = "publish" /\ UNCHANGED <<stamp, received>>
    BY <1>4 DEF Publish, Goto, readerVars, pollVars
  <2>2. CASE Repaint
    <3>1. ASSUME NEW i \in Item, display'.valid[i]
          PROVE  /\ display'.shown[i] \in Nat
                 /\ now - display'.shown[i] <= MaxAge[SourceOf[i]]
      <4>1. Fresh(SourceOf[i]) /\ display'.shown[i] = stamp[SourceOf[i]]
        BY <1>4, <2>2, <3>1, Presented DEF Publish
      <4>2. stamp[SourceOf[i]] \in Nat
        BY <4>1, Limits DEF Fresh, IsFresh, TypeOK, ReaderTypeOK
      <4> QED
        BY <4>1, <4>2 DEF Fresh, IsFresh
    <3>2. stamp["HEARTBEAT"] # None => stamp["HEARTBEAT"] \in Nat /\ stamp["HEARTBEAT"] <= now
      BY Limits DEF StampsPast, TypeOK, ReaderTypeOK
    <3>3. \A i \in Item : MaxAge[SourceOf[i]] \in Nat
      BY Limits
    <3>4. ASSUME NEW i \in Item, display'.valid[i], stamp["HEARTBEAT"] # None
          PROVE  stamp["HEARTBEAT"] - display'.shown[i] <= MaxAge[SourceOf[i]]
      BY <3>1, <3>2, <3>3, <3>4 DEF TypeOK
    <3> QED
      BY <2>1, <3>1, <3>4
  <2>3. CASE ~Repaint
    <3>1. ~received /\ UNCHANGED display
      BY <1>4, <2>3 DEF Repaint, Publish
    <3> QED
      BY <1>1, <2>1, <3>1 DEF Untouched
  <2> QED
    BY <2>2, <2>3
<1> QED
  BY <1>2, <1>3, <1>4 DEF Next

\* A group is labelled VALID exactly when one of its numbers is.
LEMMA PresentedCoherent == UpdatePresentation => DisplayIsCoherent'
<1> SUFFICES ASSUME UpdatePresentation PROVE DisplayIsCoherent'
  OBVIOUS
<1>1. ASSUME NEW g \in Group
      PROVE  display'.state[g] = "VALID" <=> \E i \in Item : SourceOf[i] = g /\ display'.valid[i]
  <2>1. display'.state[g] = "VALID" <=> GroupAvailable(g) /\ Fresh(g)
    <3>1. display'.state[g] = StateFor(GroupAvailable(g), Fresh(g))
      BY Presented
    <3>2. \A a, f \in BOOLEAN : StateFor(a, f) = "VALID" <=> a /\ f
      BY DEF StateFor
    <3>3. GroupAvailable(g) \in BOOLEAN /\ Fresh(g) \in BOOLEAN
      BY DEF GroupAvailable, Fresh, IsFresh
    <3> QED
      BY <3>1, <3>2, <3>3
  <2>2. \A i \in Item : display'.valid[i] <=> Available(i) /\ Fresh(SourceOf[i])
    BY Presented
  <2> QED
    BY <2>1, <2>2 DEF GroupAvailable
<1>2. ASSUME NEW i \in Item, NEW j \in Item, SourceOf[i] = SourceOf[j],
             display'.valid[i], display'.valid[j]
      PROVE  display'.shown[i] = display'.shown[j]
  BY <1>2, Presented
<1> QED
  BY <1>1, <1>2 DEF DisplayIsCoherent, Group

LEMMA CoherentNext == DisplayIsCoherent /\ [Next]_vars => DisplayIsCoherent'
<1> SUFFICES ASSUME DisplayIsCoherent, [Next]_vars PROVE DisplayIsCoherent'
  OBVIOUS
<1>1. UNCHANGED display \/ UpdatePresentation
  BY DEF Next, Start, Poll, Drain, Drained, SocketError, RefreshStatus, EvaluateAll,
     SubmitOne, UpdateAlert, Publish, Tick, vars, viewVars
<1>2. CASE UNCHANGED display
  BY <1>2 DEF DisplayIsCoherent, Group
<1> QED
  BY <1>1, <1>2, PresentedCoherent

-----------------------------------------------------------------------------
(* The inductive invariant holds, and implies the properties               *)

LEMMA InvInit == Init => IInv
<1> SUFFICES ASSUME Init PROVE IInv
  OBVIOUS
<1>1. TypeOK /\ LinkKnown /\ FlagIsCurrent
  BY TypeInit, LinkInit
<1>2. StampsPast
  BY DEF Init, ReaderInit, StampsPast
<1>3. EntriesAreRaised /\ PendingLeads
  BY DEF Init, EngineInit, EntriesAreRaised, PendingLeads, RaisedCodes
<1>4. AlertKnown
  BY DEF Init, EngineInit, AlertKnown
<1>5. /\ \A i \in Item : display.valid[i] = FALSE
      /\ \A g \in Group : display.state[g] = "NO DATA"
  BY DEF Init
<1>6. PaintedAtHeartbeat /\ DisplayIsCoherent
  BY <1>5 DEF PaintedAtHeartbeat, DisplayIsCoherent
<1>7. QueueFollows
  <2>1. transitions = <<>> /\ DOMAIN active = {}
    BY DEF Init
  <2>2. transitions \in Seq(Event) /\ DOMAIN transitions = {}
    BY <2>1
  <2>3. \A c, n : ~RaisedBefore(c, n)
    BY <2>2 DEF RaisedBefore
  <2> QED
    BY <2>1, <2>2, <2>3 DEF QueueFollows
<1> QED
  BY <1>1, <1>2, <1>3, <1>4, <1>6, <1>7 DEF IInv

LEMMA InvNext == IInv /\ [Next]_vars => IInv'
BY TypeNext, PastNext, EntriesNext, QueueNext, LinkNext, AlertNext, FlagNext, PaintedNext,
   CoherentNext DEF IInv

LEMMA Invariant == Spec => []IInv
BY InvInit, InvNext, PTL DEF Spec

-----------------------------------------------------------------------------
(* Theorems                                                                *)

\* Between polls the scheduler's map holds exactly the engine's warnings
\* (pfd_live_model.cpp:56-66).
THEOREM AlertsAreTheWarnings == Spec => []AlertsAreWarnings
<1>1. IInv => AlertsAreWarnings
  <2> SUFFICES ASSUME IInv, Idle PROVE DOMAIN active = RaisedCodes
    BY DEF AlertsAreWarnings, RaisedCodes
  <2>1. pending = {}
    BY DEF IInv, PendingLeads, Idle
  <2>2. \A c \in Code : c \in RaisedCodes <=> c \in DOMAIN active
    BY <2>1 DEF IInv, PendingLeads
  <2>3. RaisedCodes \subseteq Code
    BY DEF IInv, TypeOK, EngineTypeOK, RaisedCodes, Code
  <2>4. DOMAIN active \subseteq Code
    BY DEF IInv, EntriesAreRaised
  <2> QED
    BY <2>2, <2>3, <2>4
<1> QED
  BY Invariant, <1>1, PTL

\* The queue of transitions that nothing empties holds, of every code, its activation
\* and its clear in turn, and ends with the state the code is in.
THEOREM QueueAlternating == Spec => []QueueAlternates
<1>1. IInv => QueueAlternates
  BY DEF IInv, QueueFollows, QueueAlternates
<1> QED
  BY Invariant, <1>1, PTL

\* Whatever a poll skips to repaint, the screen says critical exactly while the
\* connection warning is raised, and never beside "connected".
THEOREM CriticalShown == Spec => []CriticalIsShown
<1>1. IInv => CriticalIsShown
  BY DEF IInv, AlertKnown, CriticalIsShown, Idle
<1> QED
  BY Invariant, <1>1, PTL

\* While the display says connected, a number marked valid is at most its age limit and
\* the heartbeat timeout old: every heartbeat repaints.
THEOREM StalenessBounded == Spec => []StalenessBoundedWhileConnected
<1>1. IInv => StalenessBoundedWhileConnected
  <2> SUFFICES ASSUME IInv, Idle, polled, display.connected, NEW i \in Item,
                      display.valid[i]
               PROVE  now - display.shown[i] <= MaxAge[SourceOf[i]] + HeartbeatTimeout
    BY DEF StalenessBoundedWhileConnected
  <2>1. connected /\ HeartbeatAlive(now)
    <3>1. display.connected <=> connected
      BY DEF IInv, LinkKnown, Outside, Idle
    <3> QED
      BY <3>1 DEF IInv, FlagIsCurrent, Outside, Idle
  <2>2. stamp["HEARTBEAT"] \in Nat /\ now - stamp["HEARTBEAT"] <= HeartbeatTimeout
    BY <2>1, Limits DEF HeartbeatAlive, IInv, TypeOK, ReaderTypeOK
  <2>3. /\ display.shown[i] \in Nat
        /\ stamp["HEARTBEAT"] - display.shown[i] <= MaxAge[SourceOf[i]]
    BY <2>1 DEF HeartbeatAlive, IInv, PaintedAtHeartbeat, Untouched, Outside, Idle
  <2>4. now \in Nat /\ HeartbeatTimeout \in Nat /\ MaxAge[SourceOf[i]] \in Nat
    BY Limits DEF IInv, TypeOK
  <2> QED
    BY <2>2, <2>3, <2>4
<1> QED
  BY Invariant, <1>1, PTL

\* The labels and the numbers of one message agree on the screen.
THEOREM DisplayCoherent == Spec => []DisplayIsCoherent
<1>1. IInv => DisplayIsCoherent
  BY DEF IInv
<1> QED
  BY Invariant, <1>1, PTL

-----------------------------------------------------------------------------
(* The display implements the pipeline                                     *)

\* The pipeline's operators are the display's.
LEMMA SameOperators ==
    /\ \A msg : ProcessMessage(msg, now) => Pipeline!ProcessMessage(msg, now)
    /\ Pipeline!HeartbeatAlive(now) = HeartbeatAlive(now)
    /\ \A up : Evaluate(up, now) => Pipeline!Evaluate(up, now)
<1>1. \A msg : ProcessMessage(msg, now) => Pipeline!ProcessMessage(msg, now)
  BY DEF ProcessMessage, HandleHeartbeat, HandleSysStatus, HandleReading, Absent,
     readerVars, Pipeline!ProcessMessage, Pipeline!HandleHeartbeat,
     Pipeline!HandleSysStatus, Pipeline!HandleReading, Pipeline!Absent,
     Pipeline!readerVars
<1>2. Pipeline!HeartbeatAlive(now) = HeartbeatAlive(now)
  BY DEF HeartbeatAlive, Pipeline!HeartbeatAlive
<1>3. \A up : Evaluate(up, now) => Pipeline!Evaluate(up, now)
  <2>1. \A map, s : Pipeline!Started(map, s, now) = Started(map, s, now)
    BY DEF Started, Pipeline!Started
  <2>2. Pipeline!CurrentlyUnhealthy = CurrentlyUnhealthy
    BY DEF CurrentlyUnhealthy, Pipeline!CurrentlyUnhealthy
  <2>3. /\ Pipeline!Activated(now) = Activated(now)
        /\ Pipeline!Cleared(now) = Cleared(now)
    BY <2>1, <2>2 DEF Activated, Cleared, Pipeline!Activated, Pipeline!Cleared
  <2>4. /\ Pipeline!Pending(now) = Pending(now)
        /\ Pipeline!Recovering(now) = Recovering(now)
    BY <2>2, <2>3 DEF Pending, Recovering, Pipeline!Pending, Pipeline!Recovering
  <2>5. Pipeline!StatusFresh(now) = StatusFresh(now)
    BY DEF StatusFresh, IsFresh, Pipeline!StatusFresh, Pipeline!IsFresh
  <2>6. Pipeline!SensorEvents(now) = SensorEvents(now)
    BY <2>3, <2>5 DEF SensorEvents, Pipeline!SensorEvents
  <2>7. \A up : Pipeline!ConnectionEvents(up) = ConnectionEvents(up)
    BY DEF ConnectionEvents, Pipeline!ConnectionEvents
  <2>8. EvaluateSensors(now) => Pipeline!EvaluateSensors(now)
    BY <2>1, <2>3, <2>4, <2>5
       DEF EvaluateSensors, EmptyMap, Pipeline!EvaluateSensors, Pipeline!EmptyMap
  <2> QED
    BY <2>6, <2>7, <2>8
       DEF Evaluate, EvaluateConnection, Pipeline!Evaluate, Pipeline!EvaluateConnection
<1> QED
  BY <1>1, <1>2, <1>3

\* Each step of a poll is a step of the pipeline or leaves its variables alone.
LEMMA StepRefines == [Next]_vars => [Pipeline!Next]_(Pipeline!pipelineVars)
<1> SUFFICES ASSUME [Next]_vars PROVE [Pipeline!Next]_(Pipeline!pipelineVars)
  OBVIOUS
<1> USE DEF Pipeline!pipelineVars, Pipeline!readerVars, Pipeline!engineVars
<1>1. ASSUME NEW msg \in Message, Drain(msg)
      PROVE  [Pipeline!Next]_(Pipeline!pipelineVars)
  <2>1. Pipeline!Receive(msg)
    BY <1>1, SameOperators DEF Drain, engineVars, Pipeline!Receive
  <2> QED
    BY <2>1 DEF Pipeline!Next
<1>2. CASE RefreshStatus
  <2>1. Pipeline!Refresh
    BY <1>2, SameOperators DEF RefreshStatus, engineVars, Pipeline!Refresh
  <2> QED
    BY <2>1 DEF Pipeline!Next
<1>3. CASE EvaluateAll
  <2>1. Pipeline!EvaluateData
    BY <1>3, SameOperators DEF EvaluateAll, readerVars, Pipeline!EvaluateData
  <2> QED
    BY <2>1 DEF Pipeline!Next
<1>4. CASE Tick
  <2>1. Pipeline!Tick
    BY <1>4 DEF Tick, readerVars, engineVars, Pipeline!Tick
  <2> QED
    BY <2>1 DEF Pipeline!Next
<1>5. CASE \/ Start \/ Poll \/ Drained \/ SocketError \/ SubmitOne \/ UpdateAlert
           \/ Publish \/ UNCHANGED vars
  BY <1>5 DEF Start, Poll, Drained, SocketError, SubmitOne, UpdateAlert, Publish, vars,
     readerVars, engineVars
<1> QED
  BY <1>1, <1>2, <1>3, <1>4, <1>5 DEF Next

\* The live display implements the pipeline: what holds of every run of a reader and an
\* engine over one clock holds of the display's.
THEOREM PipelineImplemented == Spec => ImplementsPipeline
<1>1. Init => Pipeline!Init
  BY DEF Init, ReaderInit, EngineInit, Absent, EmptyMap, Pipeline!Init,
     Pipeline!ReaderInit, Pipeline!EngineInit, Pipeline!Absent, Pipeline!EmptyMap
<1> QED
  BY <1>1, StepRefines, PTL DEF Spec, ImplementsPipeline, Pipeline!Spec

=============================================================================
