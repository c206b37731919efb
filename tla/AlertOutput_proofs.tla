------------------------- MODULE AlertOutput_proofs -------------------------
(***************************************************************************)
(* Proofs about the scheduler, its two users and the audio output, for     *)
(* every set of codes and severities, every interval and any number of     *)
(* submissions and processes.                                              *)
(***************************************************************************)
EXTENDS AlertOutput, SequenceTheorems, WellFoundedInduction, TLAPS

-----------------------------------------------------------------------------
(* The inductive invariant of the scheduler and its listener               *)

On(c) == [code |-> c, active |-> TRUE]
Off(c) == [code |-> c, active |-> FALSE]

\* An entry holds its code's activation while the code is live, and the blank event
\* operator[] made otherwise.
EntriesAreLive ==
    \A c \in DOMAIN active : active[c].event = IF c \in live THEN On(c) ELSE Blank

\* A transition of one code is queued once, and its recovery before its activation.
QueuedOnce(c) ==
    /\ \A i, j \in DOMAIN transitions :
          transitions[i] = transitions[j] /\ transitions[i].code = c => i = j
    /\ \A i, j \in DOMAIN transitions :
          transitions[i] = Off(c) /\ transitions[j] = On(c) => i < j

\* What the listener heard last of a code and what is queued of it lead to its state.
Reconciles(c) ==
    /\ Queued(On(c)) => c \in live
    /\ Queued(Off(c)) => c \in heard
    /\ Queued(Off(c)) /\ ~Queued(On(c)) => c \notin live
    /\ Queued(On(c)) /\ ~Queued(Off(c)) => c \notin heard
    /\ ~Queued(On(c)) /\ ~Queued(Off(c)) => (c \in heard <=> c \in live)

NoneMissed == \A c \in Code \ withdrawn : QueuedOnce(c) /\ Reconciles(c)

SchedulerInv == TypeOK /\ OnlyWithdrawnLinger /\ EntriesAreLive /\ NoneMissed

\* The type of the process table.
AudioTypeOK ==
    /\ process \in [Pid -> {"free", "playing", "ended", "given up"}]
    /\ pid \in Pid \cup {NoPid}

IInv == SchedulerInv /\ AudioTypeOK /\ KillsOnlyItsPlayer /\ VoiceAgrees

-----------------------------------------------------------------------------
(* What next() picks and leaves                                            *)

\* A nonempty set of natural numbers has a least element.
LEMMA LeastElement ==
    ASSUME NEW S \in SUBSET Nat, S # {}
    PROVE  \E m \in S : \A k \in S : m <= k
<1> DEFINE less == OpToRel(<, Nat)
<1>1. IsWellFoundedOn(less, Nat)
  BY NatLessThanWellFounded
<1>2. \A x, y \in Nat : <<x, y>> \in less <=> x < y
  BY DEF OpToRel
<1> HIDE DEF less
<1>3. PICK m \in S : \A k \in S : ~(<<k, m>> \in less)
  BY <1>1, WFMin
<1>4. \A k \in S : ~(k < m)
  BY <1>2, <1>3
<1> QED
  BY <1>4

\* The rank of an event, blank or not, is a severity.
LEMMA RankType ==
    ASSUME NEW e \in Event \cup {Blank}
    PROVE  /\ Rank(e) \in 0..3
           /\ e \in Event => Rank(e) = Severity[e.code]
<1>1. "" \notin Code /\ Severity \in [Code -> 0..3]
  BY SchedulerAssumption
<1>2. Blank.code = ""
  BY DEF Blank
<1>3. CASE e \in Event
  <2>1. e.code \in Code
    BY <1>3 DEF Event
  <2>2. e # Blank
    BY <1>1, <1>2, <2>1
  <2> QED
    BY <1>1, <2>1, <2>2 DEF Rank
<1>4. CASE e = Blank /\ e \notin Event
  BY <1>4 DEF Rank
<1> QED
  BY <1>3, <1>4

\* max_element finds the first of the most severe transitions.
LEMMA FirstHighestExists ==
    ASSUME transitions \in Seq(Event), transitions # <<>>
    PROVE  /\ FirstHighest \in DOMAIN transitions
           /\ \A j \in DOMAIN transitions :
                \/ Rank(transitions[j]) < Rank(transitions[FirstHighest])
                \/ /\ Rank(transitions[j]) = Rank(transitions[FirstHighest])
                   /\ FirstHighest <= j
<1> DEFINE D == DOMAIN transitions
           R(i) == Rank(transitions[i])
           At(r) == {i \in D : R(i) = r}
<1>1. D # {} /\ D \subseteq Nat /\ \A i \in D : transitions[i] \in Event
  OBVIOUS
<1>2. \A i \in D : R(i) \in 0..3
  BY <1>1, RankType
<1> HIDE DEF D, R
<1>3. PICK r \in 0..3 : At(r) # {} /\ \A i \in D : R(i) <= r
  <2>1. CASE At(3) # {}
    BY <1>2, <2>1
  <2>2. CASE At(3) = {} /\ At(2) # {}
    BY <1>2, <2>2
  <2>3. CASE At(3) = {} /\ At(2) = {} /\ At(1) # {}
    BY <1>2, <2>3
  <2>4. CASE At(3) = {} /\ At(2) = {} /\ At(1) = {}
    <3>1. \A i \in D : R(i) = 0
      BY <1>2, <2>4
    <3>2. At(0) # {}
      <4>1. PICK i \in D : R(i) = 0
        BY <1>1, <3>1
      <4> QED
        BY <4>1
    <3>3. \A i \in D : R(i) <= 0
      BY <3>1
    <3> QED
      BY <3>2, <3>3
  <2> QED
    BY <2>1, <2>2, <2>3, <2>4
<1>4. PICK m \in At(r) : \A k \in At(r) : m <= k
  BY <1>1, <1>3, LeastElement
<1>5. m \in D /\ \A j \in D : R(j) < R(m) \/ (R(j) = R(m) /\ m <= j)
  BY <1>2, <1>3, <1>4
<1>6. \E i \in DOMAIN transitions : \A j \in DOMAIN transitions :
          \/ Rank(transitions[j]) < Rank(transitions[i])
          \/ Rank(transitions[j]) = Rank(transitions[i]) /\ i <= j
  BY <1>5 DEF D, R
<1> QED
  BY <1>6 DEF FirstHighest

\* Erasing one element of a queue shifts those behind it.
LEMMA WithoutIs ==
    ASSUME NEW S, NEW queue \in Seq(S), NEW p \in DOMAIN queue
    PROVE  /\ Without(queue, p) \in Seq(S)
           /\ DOMAIN Without(queue, p) = 1..(Len(queue) - 1)
           /\ \A k \in 1..(Len(queue) - 1) :
                 Without(queue, p)[k] = IF k < p THEN queue[k] ELSE queue[k + 1]
<1> DEFINE a == SubSeq(queue, 1, p - 1)
           b == SubSeq(queue, p + 1, Len(queue))
<1>1. p \in 1..Len(queue) /\ Len(queue) \in Nat /\ \A k \in 1..Len(queue) : queue[k] \in S
  OBVIOUS
<1>2. /\ a \in Seq(S) /\ Len(a) = p - 1
      /\ \A k \in 1..(p - 1) : a[k] = queue[k]
  <2>1. \A k \in 1..(p - 1) : queue[k] \in S
    BY <1>1
  <2> QED
    BY <1>1, <2>1, SubSeqProperties
<1>3. /\ b \in Seq(S) /\ Len(b) = Len(queue) - p
      /\ \A k \in 1..(Len(queue) - p) : b[k] = queue[p + k]
  <2>1. \A k \in (p + 1)..Len(queue) : queue[k] \in S
    BY <1>1
  <2> QED
    BY <1>1, <2>1, SubSeqProperties
<1> HIDE DEF a, b
<1>4. /\ a \o b \in Seq(S) /\ Len(a \o b) = Len(a) + Len(b)
      /\ \A k \in 1..(Len(a) + Len(b)) : (a \o b)[k] =
            IF k <= Len(a) THEN a[k] ELSE b[k - Len(a)]
  BY <1>2, <1>3, ConcatProperties
<1>5. Without(queue, p) = a \o b
  BY DEF Without, a, b
<1>6. Len(a) + Len(b) = Len(queue) - 1
  BY <1>1, <1>2, <1>3
<1>7. ASSUME NEW k \in 1..(Len(queue) - 1)
      PROVE  (a \o b)[k] = IF k < p THEN queue[k] ELSE queue[k + 1]
  <2>1. (a \o b)[k] = IF k <= p - 1 THEN a[k] ELSE b[k - (p - 1)]
    BY <1>2, <1>4, <1>6
  <2>2. CASE k < p
    BY <1>1, <1>2, <2>1, <2>2
  <2>3. CASE k >= p
    <3> DEFINE m == k - (p - 1)
    <3>1. m \in 1..(Len(queue) - p) /\ p + m = k + 1
      BY <1>1, <2>3
    <3>2. b[m] = queue[k + 1]
      <4>1. b[m] = queue[p + m]
        BY <1>3, <3>1
      <4> QED
        BY <3>1, <4>1
    <3>3. ~(k <= p - 1) /\ ~(k < p)
      BY <1>1, <2>3
    <3> QED
      BY <2>1, <3>2, <3>3
  <2>4. k < p \/ k >= p
    BY <1>1
  <2> QED
    BY <2>2, <2>3, <2>4, Zenon
<1>8. DOMAIN (a \o b) = 1..Len(a \o b)
  BY <1>4
<1> QED
  BY <1>4, <1>5, <1>6, <1>7, <1>8

-----------------------------------------------------------------------------
(* Type correctness                                                        *)

\* The intervals are natural numbers.
LEMMA Intervals == Repeat \in Nat /\ Cooldown \in Nat
BY SchedulerAssumption

\* Announcing a code makes an entry or keeps the event of the one there is.
LEMMA MarkedType ==
    ASSUME SchedulerTypeOK, NEW c \in Code
    PROVE  /\ DOMAIN MarkAnnounced(c) = DOMAIN active \cup {c}
           /\ \A d \in DOMAIN active : MarkAnnounced(c)[d].event = active[d].event
           /\ c \notin DOMAIN active => MarkAnnounced(c)[c].event = Blank
           /\ \A d \in DOMAIN active \cup {c} : MarkAnnounced(c)[d] \in Entry
<1> DEFINE new == [event |-> IF c \in DOMAIN active THEN active[c].event ELSE Blank,
                   age |-> 0]
<1>1. MarkAnnounced(c) = [d \in DOMAIN active \cup {c} |-> IF d = c THEN new ELSE active[d]]
  BY DEF MarkAnnounced, Put
<1>2. Repeat \in Nat
  BY Intervals
<1>3. \A d \in DOMAIN active : active[d] \in Entry
  BY DEF SchedulerTypeOK
<1>4. new \in Entry /\ new.event = IF c \in DOMAIN active THEN active[c].event ELSE Blank
  BY <1>2, <1>3 DEF Entry
<1> HIDE DEF new
<1> QED
  BY <1>1, <1>3, <1>4

\* Submitting an event keeps the scheduler's types.
LEMMA SubmitType ==
    ASSUME SchedulerTypeOK, NEW e \in Event, Submit(e)
    PROVE  SchedulerTypeOK'
<1>1. e.code \in Code /\ e.active \in BOOLEAN
  BY DEF Event
<1>2. \A d \in DOMAIN active : active[d] \in Entry /\ active[d].age \in 0..Repeat
  BY DEF SchedulerTypeOK, Entry
<1>3. AgeOf(e.code) \in 0..Repeat
  BY <1>2, Intervals DEF AgeOf
<1> DEFINE new == [event |-> e, age |-> AgeOf(e.code)]
<1>4. new \in Entry
  BY <1>3 DEF Entry
<1> HIDE DEF new
<1>5. DOMAIN active' \subseteq Code /\ \A d \in DOMAIN active' : active'[d] \in Entry
  <2>1. CASE e.active
    <3>1. active' = [d \in DOMAIN active \cup {e.code} |->
                        IF d = e.code THEN new ELSE active[d]]
      BY <2>1 DEF Submit, Put, new
    <3> QED
      BY <1>1, <1>2, <1>4, <3>1 DEF SchedulerTypeOK
  <2>2. CASE ~e.active
    <3>1. active' = [d \in DOMAIN active \ {e.code} |-> active[d]]
      BY <2>2 DEF Submit, Erase
    <3> QED
      BY <1>2, <3>1 DEF SchedulerTypeOK
  <2> QED
    BY <2>1, <2>2
<1>6. transitions' \in Seq(Event)
  BY DEF Submit, SchedulerTypeOK
<1>7. sinceOutput' \in 0..Cooldown /\ output' \in Event \cup {Blank, Silent}
  BY DEF Submit, SchedulerTypeOK
<1> QED
  BY <1>5, <1>6, <1>7 DEF SchedulerTypeOK

\* Announcing a transition removes the one picked, and keeps the types.
LEMMA TransitionType ==
    ASSUME SchedulerTypeOK, transitions # <<>>, AnnounceTransition
    PROVE  /\ SchedulerTypeOK'
           /\ output' \in Event
           /\ output' = transitions[FirstHighest]
           /\ FirstHighest \in DOMAIN transitions
           /\ active' = IF output'.active THEN MarkAnnounced(output'.code) ELSE active
<1>1. transitions \in Seq(Event)
  BY DEF SchedulerTypeOK
<1>2. FirstHighest \in DOMAIN transitions
  BY <1>1, FirstHighestExists
<1>3. transitions[FirstHighest] \in Event
  BY <1>1, <1>2
<1>4. transitions' \in Seq(Event)
  BY <1>1, <1>2, WithoutIs DEF AnnounceTransition
<1>5. /\ output' = transitions[FirstHighest]
      /\ active' = IF output'.active THEN MarkAnnounced(output'.code) ELSE active
      /\ sinceOutput' = 0
  BY DEF AnnounceTransition
<1>6. output'.code \in Code
  BY <1>3, <1>5 DEF Event
<1>7. DOMAIN active' \subseteq Code /\ \A d \in DOMAIN active' : active'[d] \in Entry
  <2>1. CASE output'.active
    <3>1. active' = MarkAnnounced(output'.code)
      BY <1>5, <2>1
    <3>2. /\ DOMAIN active' = DOMAIN active \cup {output'.code}
          /\ \A d \in DOMAIN active' : active'[d] \in Entry
      BY <1>6, <3>1, MarkedType
    <3> QED
      BY <1>6, <3>2 DEF SchedulerTypeOK
  <2>2. CASE ~output'.active
    BY <1>5, <2>2 DEF SchedulerTypeOK
  <2> QED
    BY <2>1, <2>2
<1>8. sinceOutput' \in 0..Cooldown
  BY <1>5, Intervals
<1>9. SchedulerTypeOK'
  BY <1>3, <1>4, <1>5, <1>7, <1>8 DEF SchedulerTypeOK
<1> QED
  BY <1>2, <1>3, <1>5, <1>9

\* Announcing a repeat keeps the types.
LEMMA RepeatType ==
    ASSUME SchedulerTypeOK, AnnounceRepeat
    PROVE  /\ SchedulerTypeOK'
           /\ output' \in Event \cup {Blank}
           /\ \E c \in DOMAIN active : /\ output' = active[c].event
                                       /\ active' = MarkAnnounced(c)
           /\ UNCHANGED transitions
<1>1. PICK c \in DOMAIN active : /\ output' = active[c].event
                                 /\ active' = MarkAnnounced(c)
                                 /\ sinceOutput' = 0
                                 /\ UNCHANGED transitions
  BY DEF AnnounceRepeat, Choices, Due
<1>2. c \in Code /\ output' \in Event \cup {Blank}
  BY <1>1 DEF SchedulerTypeOK, Entry
<1>3. DOMAIN active' \subseteq Code /\ \A d \in DOMAIN active' : active'[d] \in Entry
  <2>1. /\ DOMAIN MarkAnnounced(c) = DOMAIN active \cup {c}
        /\ \A d \in DOMAIN active \cup {c} : MarkAnnounced(c)[d] \in Entry
    BY <1>2, MarkedType
  <2>2. DOMAIN active \subseteq Code
    BY DEF SchedulerTypeOK
  <2> QED
    BY <1>1, <1>2, <2>1, <2>2
<1>4. sinceOutput' \in 0..Cooldown
  BY <1>1, Intervals
<1>5. SchedulerTypeOK'
  BY <1>1, <1>2, <1>3, <1>4 DEF SchedulerTypeOK
<1> QED
  BY <1>1, <1>2, <1>5

\* One tick of the clock keeps the types, and every entry's event.
LEMMA AgeType ==
    ASSUME SchedulerTypeOK, AgeAll
    PROVE  /\ SchedulerTypeOK'
           /\ DOMAIN active' = DOMAIN active
           /\ \A c \in DOMAIN active : active'[c].event = active[c].event
<1>1. ASSUME NEW limit \in Nat, NEW age \in 0..limit
      PROVE  Older(age, limit) \in 0..limit
  BY DEF Older
<1>2. ASSUME NEW c \in DOMAIN active
      PROVE  active'[c] \in Entry /\ active'[c].event = active[c].event
  <2>1. active[c] \in Entry
    BY DEF SchedulerTypeOK, Entry
  <2>2. active'[c] = [active[c] EXCEPT !.age = Older(active[c].age, Repeat)]
    BY DEF AgeAll
  <2>3. Older(active[c].age, Repeat) \in 0..Repeat
    BY <1>1, <2>1, SchedulerAssumption DEF Entry
  <2> QED
    BY <2>1, <2>2, <2>3 DEF Entry
<1>3. DOMAIN active' = DOMAIN active
  BY DEF AgeAll
<1>4. sinceOutput' \in 0..Cooldown
  BY <1>1, Intervals DEF AgeAll, SchedulerTypeOK
<1> QED
  BY <1>2, <1>3, <1>4 DEF AgeAll, SchedulerTypeOK, Entry


\* Every step of the scheduler's users keeps the types.
LEMMA TypeNext == TypeOK /\ [Next]_vars => TypeOK'
<1> SUFFICES ASSUME TypeOK, [Next]_vars PROVE TypeOK'
  OBVIOUS
<1>1. ASSUME NEW e \in Event, SubmitEvent(e) PROVE TypeOK'
  <2>1. SchedulerTypeOK'
    BY <1>1, SubmitType DEF TypeOK, SubmitEvent
  <2>2. e.code \in Code
    BY DEF Event
  <2> QED
    BY <1>1, <2>1, <2>2 DEF TypeOK, SubmitEvent
<1>2. CASE Announce
  <2>1. SchedulerTypeOK' /\ (output' \in Event \/ ~output'.active)
    <3>1. CASE transitions # <<>> /\ AnnounceTransition
      BY <3>1, TransitionType DEF TypeOK
    <3>2. CASE AnnounceRepeat
      <4>1. SchedulerTypeOK' /\ output' \in Event \cup {Blank}
        BY <3>2, RepeatType DEF TypeOK
      <4>2. ~Blank.active
        BY DEF Blank
      <4> QED
        BY <4>1, <4>2
    <3>3. CASE output' = Silent /\ UNCHANGED <<active, transitions, sinceOutput>>
      BY <3>3 DEF TypeOK, SchedulerTypeOK, Silent
    <3> QED
      BY <1>2, <3>1, <3>2, <3>3 DEF Announce, NextOutput
  <2>2. heard' \subseteq Code
    BY <1>2, <2>1 DEF TypeOK, Announce, Event
  <2> QED
    BY <1>2, <2>1, <2>2 DEF TypeOK, Announce
<1>3. CASE Tick
  BY <1>3, AgeType DEF TypeOK, Tick, clientVars
<1>4. CASE UNCHANGED vars
  BY <1>4 DEF TypeOK, SchedulerTypeOK, vars, schedulerVars, clientVars
<1> QED
  BY <1>1, <1>2, <1>3, <1>4 DEF Next

-----------------------------------------------------------------------------
(* The entries of the active map                                           *)

\* An event is its code's activation or its code's recovery.
LEMMA EventIs ==
    ASSUME NEW e \in Event
    PROVE  /\ e.code \in Code /\ e.active \in BOOLEAN
           /\ e.active => e = On(e.code)
           /\ ~e.active => e = Off(e.code)
<1>1. e = [code |-> e.code, active |-> e.active] /\ e.code \in Code /\ e.active \in BOOLEAN
  BY DEF Event
<1> QED
  BY <1>1 DEF On, Off

\* A submission sets the entry of a live code and erases that of a cleared one.
LEMMA SubmitEntries ==
    ASSUME TypeOK, OnlyWithdrawnLinger, EntriesAreLive, NEW e \in Event, SubmitEvent(e)
    PROVE  OnlyWithdrawnLinger' /\ EntriesAreLive'
<1> USE DEF OnlyWithdrawnLinger, EntriesAreLive
<1>1. withdrawn \subseteq withdrawn'
  BY DEF SubmitEvent
<1>2. CASE e.active
  <2>1. /\ DOMAIN active' = DOMAIN active \cup {e.code}
        /\ active'[e.code].event = e
        /\ \A d \in DOMAIN active : d # e.code => active'[d] = active[d]
    BY <1>2 DEF SubmitEvent, Submit, Put
  <2>2. live' = live \cup {e.code} /\ e = On(e.code)
    BY <1>2, EventIs DEF SubmitEvent
  <2> QED
    BY <1>1, <2>1, <2>2
<1>3. CASE ~e.active
  <2>1. /\ DOMAIN active' = DOMAIN active \ {e.code}
        /\ \A d \in DOMAIN active : d # e.code => active'[d] = active[d]
    BY <1>3 DEF SubmitEvent, Submit, Erase
  <2>2. live' = live \ {e.code}
    BY <1>3 DEF SubmitEvent
  <2> QED
    BY <1>1, <2>1, <2>2
<1> QED
  BY <1>2, <1>3

\* An announcement makes an entry at most for an activation withdrawn in the queue.
LEMMA AnnounceEntries ==
    ASSUME TypeOK, OnlyWithdrawnLinger, EntriesAreLive, NoneMissed, Announce
    PROVE  OnlyWithdrawnLinger' /\ EntriesAreLive'
<1> USE DEF OnlyWithdrawnLinger, EntriesAreLive
<1>1. UNCHANGED <<live, withdrawn>> /\ SchedulerTypeOK
  BY DEF Announce, TypeOK
<1>2. CASE transitions # <<>> /\ AnnounceTransition
  <2>1. /\ output' \in Event /\ Queued(output')
        /\ active' = IF output'.active THEN MarkAnnounced(output'.code) ELSE active
    BY <1>1, <1>2, TransitionType DEF Queued
  <2>2. CASE output'.active
    <3> DEFINE c == output'.code
    <3>1. output' = On(c) /\ c \in Code
      BY <2>1, <2>2, EventIs
    <3>2. c \in live \cup withdrawn
      BY <2>1, <3>1 DEF NoneMissed, Reconciles
    <3>3. /\ DOMAIN active' = DOMAIN active \cup {c}
          /\ \A d \in DOMAIN active : active'[d].event = active[d].event
          /\ c \notin DOMAIN active => active'[c].event = Blank
      BY <1>1, <2>1, <2>2, <3>1, MarkedType
    <3> HIDE DEF c
    <3> QED
      BY <1>1, <3>2, <3>3
  <2>3. CASE ~output'.active
    BY <1>1, <2>1, <2>3
  <2> QED
    BY <2>2, <2>3
<1>3. CASE AnnounceRepeat
  <2>1. PICK c \in DOMAIN active : active' = MarkAnnounced(c)
    BY <1>1, <1>3, RepeatType
  <2>2. c \in Code
    BY <1>1 DEF SchedulerTypeOK
  <2>3. /\ DOMAIN active' = DOMAIN active \cup {c}
        /\ \A d \in DOMAIN active : active'[d].event = active[d].event
    BY <1>1, <2>1, <2>2, MarkedType
  <2> QED
    BY <1>1, <2>3
<1>4. CASE UNCHANGED active
  BY <1>1, <1>4
<1> QED
  BY <1>2, <1>3, <1>4 DEF Announce, NextOutput

-----------------------------------------------------------------------------
(* The queue of one code                                                   *)

\* Appending an event that is not queued, nor its code's activation when it is a
\* recovery, keeps the order of a code's transitions.
LEMMA AppendKeeps ==
    ASSUME transitions \in Seq(Event), NEW e \in Event, NEW c,
           transitions' = Append(transitions, e)
    PROVE  /\ \A f : Queued(f)' <=> Queued(f) \/ f = e
           /\ QueuedOnce(c) /\ (e.code = c => ~Queued(e)) /\ (e = Off(c) => ~Queued(On(c)))
                => QueuedOnce(c)'
<1>1. /\ DOMAIN transitions = 1..Len(transitions) /\ Len(transitions) \in Nat
      /\ DOMAIN transitions' = 1..(Len(transitions) + 1)
      /\ \A i \in DOMAIN transitions : transitions'[i] = transitions[i]
      /\ transitions'[Len(transitions) + 1] = e
  BY AppendProperties
<1>2. DOMAIN transitions' = DOMAIN transitions \cup {Len(transitions) + 1}
  BY <1>1
<1>3. \A f : Queued(f)' <=> Queued(f) \/ f = e
  BY <1>1, <1>2 DEF Queued
<1>4. ASSUME QueuedOnce(c), e.code = c => ~Queued(e), e = Off(c) => ~Queued(On(c))
      PROVE  QueuedOnce(c)'
  <2>1. ASSUME NEW i \in DOMAIN transitions', NEW j \in DOMAIN transitions',
               transitions'[i] = transitions'[j], transitions'[i].code = c
        PROVE  i = j
    <3>1. CASE i \in DOMAIN transitions /\ j \in DOMAIN transitions
      BY <1>1, <1>4, <2>1, <3>1 DEF QueuedOnce
    <3>2. CASE i \notin DOMAIN transitions \/ j \notin DOMAIN transitions
      BY <1>1, <1>2, <1>4, <2>1, <3>2 DEF Queued
    <3> QED
      BY <3>1, <3>2
  <2>2. ASSUME NEW i \in DOMAIN transitions', NEW j \in DOMAIN transitions',
               transitions'[i] = Off(c), transitions'[j] = On(c)
        PROVE  i < j
    <3>1. On(c) # Off(c)
      BY DEF On, Off
    <3>2. i # j
      BY <2>2, <3>1
    <3>3. CASE i \in DOMAIN transitions /\ j \in DOMAIN transitions
      BY <1>1, <1>4, <2>2, <3>3 DEF QueuedOnce
    <3>4. CASE i \notin DOMAIN transitions
      BY <1>1, <1>2, <1>4, <2>2, <3>2, <3>4 DEF Queued
    <3>5. CASE i \in DOMAIN transitions /\ j \notin DOMAIN transitions
      BY <1>1, <1>2, <3>5
    <3> QED
      BY <3>3, <3>4, <3>5
  <2> QED
    BY <2>1, <2>2 DEF QueuedOnce, On, Off
<1> QED
  BY <1>3, <1>4

\* Removing a transition keeps that order, and the other transitions.
LEMMA RemoveKeeps ==
    ASSUME transitions \in Seq(Event), NEW p \in DOMAIN transitions, NEW c,
           transitions' = Without(transitions, p)
    PROVE  /\ \A f : f # transitions[p] => (Queued(f)' <=> Queued(f))
           /\ QueuedOnce(c) => QueuedOnce(c)'
           /\ \A f : QueuedOnce(c) /\ f = transitions[p] /\ f.code = c => ~Queued(f)'
<1> DEFINE n == Len(transitions)
           At(k) == IF k < p THEN k ELSE k + 1
<1>1. /\ DOMAIN transitions = 1..n /\ n \in Nat /\ p \in 1..n
      /\ DOMAIN transitions' = 1..(n - 1)
  BY WithoutIs
<1>2. \A k \in 1..(n - 1) : transitions'[k] = transitions[At(k)]
  BY WithoutIs
<1>3. /\ \A k \in 1..(n - 1) : At(k) \in (1..n) \ {p}
      /\ \A i, j \in 1..(n - 1) : /\ At(i) = At(j) => i = j
                                  /\ At(i) < At(j) => i < j
      /\ \A i \in (1..n) \ {p} : \E k \in 1..(n - 1) : At(k) = i
  <2>1. \A k \in 1..(n - 1) : At(k) \in (1..n) \ {p}
    BY <1>1
  <2>2. \A i, j \in 1..(n - 1) : (At(i) = At(j) => i = j) /\ (At(i) < At(j) => i < j)
    BY <1>1
  <2>3. ASSUME NEW i \in (1..n) \ {p} PROVE \E k \in 1..(n - 1) : At(k) = i
    <3>1. CASE i < p
      <4>1. i \in 1..(n - 1) /\ At(i) = i
        BY <1>1, <3>1
      <4> QED
        BY <4>1
    <3>2. CASE i > p
      <4>1. i - 1 \in 1..(n - 1) /\ At(i - 1) = i
        BY <1>1, <3>2
      <4> QED
        BY <4>1
    <3> QED
      BY <1>1, <3>1, <3>2
  <2> QED
    BY <2>1, <2>2, <2>3
<1> HIDE DEF n, At
<1>4. \A f : f # transitions[p] => (Queued(f)' <=> Queued(f))
  <2> SUFFICES ASSUME NEW f, f # transitions[p] PROVE Queued(f)' <=> Queued(f)
    OBVIOUS
  <2>1. ASSUME NEW k \in 1..(n - 1), transitions'[k] = f PROVE Queued(f)
    BY <1>1, <1>2, <1>3, <2>1 DEF Queued
  <2>2. ASSUME NEW i \in 1..n, transitions[i] = f
        PROVE  \E k \in 1..(n - 1) : transitions'[k] = f
    <3>1. PICK k \in 1..(n - 1) : At(k) = i
      BY <1>3, <2>2
    <3> QED
      BY <1>2, <2>2, <3>1
  <2> QED
    BY <1>1, <2>1, <2>2 DEF Queued
<1>5. QueuedOnce(c) => QueuedOnce(c)'
  <2> SUFFICES ASSUME QueuedOnce(c) PROVE QueuedOnce(c)'
    OBVIOUS
  <2>1. ASSUME NEW i \in 1..(n - 1), NEW j \in 1..(n - 1),
               transitions'[i] = transitions'[j], transitions'[i].code = c
        PROVE  i = j
    <3>1. At(i) = At(j)
      BY <1>1, <1>2, <1>3, <2>1 DEF QueuedOnce
    <3> QED
      BY <1>3, <3>1
  <2>2. ASSUME NEW i \in 1..(n - 1), NEW j \in 1..(n - 1),
               transitions'[i] = Off(c), transitions'[j] = On(c)
        PROVE  i < j
    <3>1. At(i) < At(j)
      BY <1>1, <1>2, <1>3, <2>2 DEF QueuedOnce
    <3> QED
      BY <1>3, <3>1
  <2> QED
    BY <1>1, <2>1, <2>2 DEF QueuedOnce, On, Off
<1>6. ASSUME NEW f, QueuedOnce(c), f = transitions[p], f.code = c, Queued(f)'
      PROVE  FALSE
  <2>1. PICK k \in 1..(n - 1) : transitions'[k] = f
    BY <1>1, <1>6 DEF Queued
  <2>2. At(k) = p
    BY <1>1, <1>2, <1>3, <1>6, <2>1 DEF QueuedOnce
  <2> QED
    BY <1>3, <2>2
<1> QED
  BY <1>4, <1>5, <1>6

\* The activation and the recovery of a code are different events, of that code.
LEMMA OnOff ==
    ASSUME NEW c
    PROVE  /\ On(c) # Off(c) /\ On(c).code = c /\ Off(c).code = c
           /\ On(c).active = TRUE /\ Off(c).active = FALSE
BY DEF On, Off

\* A submission queues a transition exactly when the listener will need it.
LEMMA SubmitMissesNone ==
    ASSUME TypeOK, OnlyWithdrawnLinger, NoneMissed, NEW e \in Event, SubmitEvent(e)
    PROVE  NoneMissed'
<1> SUFFICES ASSUME NEW c \in Code, c \notin withdrawn'
             PROVE  QueuedOnce(c)' /\ Reconciles(c)'
  BY DEF NoneMissed
<1>1. c \notin withdrawn /\ (e = Off(c) => ~Queued(On(c)))
  <2>1. withdrawn' = IF ~e.active /\ Queued(On(e.code))
                     THEN withdrawn \cup {e.code} ELSE withdrawn
    BY DEF SubmitEvent, On
  <2> QED
    BY <2>1, OnOff
<1>2. QueuedOnce(c) /\ Reconciles(c)
  BY <1>1 DEF NoneMissed
<1>3. c \in DOMAIN active <=> c \in live
  BY <1>1 DEF OnlyWithdrawnLinger
<1>4. /\ transitions' = IF IsTransition(e) THEN Append(transitions, e) ELSE transitions
      /\ live' = IF e.active THEN live \cup {e.code} ELSE live \ {e.code}
      /\ heard' = heard
  BY DEF SubmitEvent, Submit
<1>5. transitions \in Seq(Event)
  BY DEF TypeOK, SchedulerTypeOK
<1>6. CASE ~IsTransition(e)
  <2>1. UNCHANGED transitions
    BY <1>4, <1>6
  <2>2. QueuedOnce(c)' /\ \A f : Queued(f)' <=> Queued(f)
    BY <1>2, <2>1 DEF QueuedOnce, Queued
  <2>3. c \in live' <=> c \in live
    <3>1. CASE e.code = c
      BY <1>3, <1>4, <1>6, <3>1 DEF IsTransition
    <3>2. CASE e.code # c
      BY <1>4, <3>2
    <3> QED
      BY <3>1, <3>2
  <2> QED
    BY <1>2, <1>4, <2>2, <2>3 DEF Reconciles
<1>7. CASE IsTransition(e)
  <2>1. transitions' = Append(transitions, e)
    BY <1>4, <1>7
  <2>2. \A f : Queued(f)' <=> Queued(f) \/ f = e
    BY <1>5, <2>1, AppendKeeps
  <2>3. CASE e.code # c
    <3>1. e # On(c) /\ e # Off(c)
      BY <2>3, OnOff
    <3>2. QueuedOnce(c)'
      BY <1>2, <1>5, <2>1, <2>3, <3>1, AppendKeeps
    <3>3. (c \in live' <=> c \in live) /\ (Queued(On(c))' <=> Queued(On(c)))
            /\ (Queued(Off(c))' <=> Queued(Off(c)))
      BY <1>4, <2>2, <2>3, <3>1
    <3> QED
      BY <1>2, <1>4, <3>2, <3>3 DEF Reconciles
  <2>4. CASE e = On(c)
    <3>1. c \notin live /\ c \in live' /\ ~Queued(On(c))
      BY <1>2, <1>3, <1>4, <1>7, <2>4, OnOff DEF IsTransition, Reconciles
    <3>2. QueuedOnce(c)'
      BY <1>2, <1>5, <2>1, <2>4, <3>1, OnOff, AppendKeeps
    <3>3. Queued(On(c))' /\ (Queued(Off(c))' <=> Queued(Off(c)))
      BY <2>2, <2>4, OnOff
    <3> QED
      BY <1>2, <1>4, <3>1, <3>2, <3>3 DEF Reconciles
  <2>5. CASE e = Off(c)
    <3>1. c \in live /\ c \notin live' /\ ~Queued(On(c)) /\ ~Queued(Off(c)) /\ c \in heard
      <4>1. c \in live /\ c \notin live'
        <5>1. e.code = c /\ e.active = FALSE
          BY <2>5, OnOff
        <5>2. ~e.active /\ e.active \in BOOLEAN
          BY <5>1
        <5>3. e.active # (e.code \in DOMAIN active)
          BY <1>7 DEF IsTransition
        <5>4. e.code \in DOMAIN active
          BY <5>2, <5>3, SMT
        <5> QED
          BY <1>3, <1>4, <5>1, <5>2, <5>4
      <4>2. ~Queued(On(c))
        BY <1>1, <2>5
      <4> QED
        BY <1>2, <4>1, <4>2 DEF Reconciles
    <3>2. QueuedOnce(c)'
      BY <1>2, <1>5, <2>1, <2>5, <3>1, OnOff, AppendKeeps
    <3>3. Queued(Off(c))' /\ ~Queued(On(c))'
      BY <2>2, <2>5, <3>1, OnOff
    <3> QED
      BY <1>4, <3>1, <3>2, <3>3 DEF Reconciles
  <2> QED
    BY <2>3, <2>4, <2>5, EventIs
<1> QED
  BY <1>6, <1>7

\* The events that are no event of a code, and what the listener hears of an output.
LEMMA NoCode ==
    /\ Blank.active = FALSE /\ Blank.code \notin Code
    /\ Silent.active = FALSE /\ Silent.code \notin Code
BY SchedulerAssumption DEF Blank, Silent

\* The three outcomes of next(); a repeat is only announced when nothing is queued.
LEMMA OutcomesOfNext ==
    ASSUME NextOutput
    PROVE  \/ transitions # <<>> /\ AnnounceTransition
           \/ transitions = <<>> /\ AnnounceRepeat
           \/ output' = Silent /\ UNCHANGED <<active, transitions, sinceOutput>>
BY DEF NextOutput

\* The transition picked is the first of its code: a recovery queued before an
\* activation of the same code has the same rank and an earlier place.
LEMMA RecoveryFirst ==
    ASSUME transitions \in Seq(Event), transitions # <<>>, NEW c \in Code, QueuedOnce(c),
           transitions[FirstHighest] = On(c)
    PROVE  ~Queued(Off(c))
<1> SUFFICES ASSUME NEW i \in DOMAIN transitions, transitions[i] = Off(c) PROVE FALSE
  BY DEF Queued
<1>1. /\ FirstHighest \in DOMAIN transitions
      /\ \/ Rank(transitions[i]) < Rank(transitions[FirstHighest])
         \/ FirstHighest <= i
  BY FirstHighestExists
<1>2. On(c) \in Event /\ Off(c) \in Event
  BY DEF On, Off, Event
<1>3. Rank(On(c)) = Rank(Off(c)) /\ Rank(On(c)) \in 0..3
  <2>1. ASSUME NEW e \in Event PROVE Rank(e) = Severity[e.code] /\ Rank(e) \in 0..3
    BY RankType
  <2>2. /\ Rank(On(c)) = Severity[On(c).code] /\ Rank(On(c)) \in 0..3
        /\ Rank(Off(c)) = Severity[Off(c).code]
    BY <1>2, <2>1
  <2>3. On(c).code = c /\ Off(c).code = c
    BY OnOff
  <2> QED
    BY <2>2, <2>3
<1>4. i < FirstHighest
  BY <1>1 DEF QueuedOnce
<1>5. i \in Nat /\ FirstHighest \in Nat
  BY <1>1
<1> QED
  BY <1>1, <1>3, <1>4, <1>5

\* An announcement takes from the queue exactly what the listener hears.
LEMMA AnnounceMissesNone ==
    ASSUME TypeOK, EntriesAreLive, NoneMissed, Announce
    PROVE  NoneMissed'
<1>1. UNCHANGED <<live, withdrawn>> /\ SchedulerTypeOK /\ transitions \in Seq(Event)
  BY DEF Announce, TypeOK, SchedulerTypeOK
<1> SUFFICES ASSUME NEW c \in Code, c \notin withdrawn
             PROVE  QueuedOnce(c)' /\ Reconciles(c)'
  BY <1>1 DEF NoneMissed
<1>2. QueuedOnce(c) /\ Reconciles(c)
  BY DEF NoneMissed
<1>3. heard' = IF output'.active THEN heard \cup {output'.code} ELSE heard \ {output'.code}
  BY DEF Announce
<1>4. CASE transitions # <<>> /\ AnnounceTransition
  <2>0. PICK p \in DOMAIN transitions, f \in Event : p = FirstHighest /\ f = transitions[p]
    <3>1. FirstHighest \in DOMAIN transitions /\ transitions[FirstHighest] \in Event
      BY <1>1, <1>4, FirstHighestExists
    <3> QED
      BY <3>1
  <2>1. output' = f
    BY <1>1, <1>4, <2>0, TransitionType
  <2>2. transitions' = Without(transitions, p)
    BY <1>4, <2>0 DEF AnnounceTransition
  <2>3. \A e : e # f => (Queued(e)' <=> Queued(e))
    BY <1>1, <2>0, <2>2, RemoveKeeps
  <2>4. QueuedOnce(c)'
    BY <1>1, <1>2, <2>0, <2>2, RemoveKeeps
  <2>5. f.code = c => ~Queued(f)'
    BY <1>1, <1>2, <2>0, <2>2, RemoveKeeps
  <2>6. Queued(f)
    BY <2>0 DEF Queued
  <2>7. f = On(c) => ~Queued(Off(c))
    BY <1>1, <1>2, <1>4, <2>0, RecoveryFirst
  <2>8. CASE f.code # c
    <3>1. f # On(c) /\ f # Off(c)
      BY <2>8, OnOff
    <3>2. (Queued(On(c))' <=> Queued(On(c))) /\ (Queued(Off(c))' <=> Queued(Off(c)))
      BY <2>3, <3>1
    <3>3. c \in heard' <=> c \in heard
      BY <1>3, <2>1, <2>8
    <3> QED
      BY <1>1, <1>2, <2>4, <3>2, <3>3 DEF Reconciles
  <2>9. CASE f = On(c)
    <3>1. c \in live /\ ~Queued(On(c))'
      BY <1>2, <2>5, <2>6, <2>9, OnOff DEF Reconciles
    <3>2. ~Queued(Off(c))'
      BY <2>3, <2>7, <2>9, OnOff
    <3>3. c \in heard'
      BY <1>3, <2>1, <2>9, OnOff
    <3> QED
      BY <1>1, <2>4, <3>1, <3>2, <3>3 DEF Reconciles
  <2>10. CASE f = Off(c)
    <3>1. ~Queued(Off(c))' /\ (Queued(On(c))' <=> Queued(On(c)))
      BY <2>3, <2>5, <2>10, OnOff
    <3>2. c \notin heard'
      BY <1>3, <2>1, <2>10, OnOff
    <3>3. Queued(On(c)) <=> c \in live
      BY <1>2, <2>6, <2>10 DEF Reconciles
    <3> QED
      BY <1>1, <2>4, <3>1, <3>2, <3>3 DEF Reconciles
  <2> QED
    BY <2>0, <2>8, <2>9, <2>10, EventIs
<1>5. CASE transitions = <<>> /\ AnnounceRepeat
  <2>1. PICK d \in DOMAIN active : output' = active[d].event
    BY <1>1, <1>5, RepeatType
  <2>2. UNCHANGED transitions
    BY <1>1, <1>5, RepeatType
  <2>3. QueuedOnce(c)' /\ \A f : ~Queued(f)' /\ ~Queued(f)
    BY <1>2, <1>5, <2>2 DEF QueuedOnce, Queued
  <2>4. c \in heard <=> c \in live
    BY <1>2, <2>3 DEF Reconciles
  <2>5. c \in heard' <=> c \in live
    <3>1. CASE d \in live
      <4>1. output' = On(d)
        BY <2>1, <3>1 DEF EntriesAreLive
      <4>2. heard' = heard \cup {d}
        BY <1>3, <4>1, OnOff
      <4> QED
        BY <2>4, <3>1, <4>2
    <3>2. CASE d \notin live
      <4>1. output' = Blank
        BY <2>1, <3>2 DEF EntriesAreLive
      <4> QED
        BY <1>3, <2>4, <4>1, NoCode
    <3> QED
      BY <3>1, <3>2
  <2> QED
    BY <1>1, <2>3, <2>5 DEF Reconciles
<1>6. CASE output' = Silent /\ UNCHANGED <<active, transitions, sinceOutput>>
  <2>1. QueuedOnce(c)' /\ \A f : Queued(f)' <=> Queued(f)
    BY <1>2, <1>6 DEF QueuedOnce, Queued
  <2>2. c \in heard' <=> c \in heard
    BY <1>3, <1>6, NoCode
  <2> QED
    BY <1>1, <1>2, <2>1, <2>2 DEF Reconciles
<1> QED
  BY <1>4, <1>5, <1>6, OutcomesOfNext DEF Announce

-----------------------------------------------------------------------------
(* The invariant of the scheduler                                          *)

LEMMA SchedulerStart == Init => SchedulerInv
<1> SUFFICES ASSUME Init PROVE SchedulerInv
  OBVIOUS
<1>1. /\ DOMAIN active = {} /\ transitions = <<>> /\ output = Silent
      /\ sinceOutput = Cooldown /\ live = {} /\ heard = {} /\ withdrawn = {}
  BY DEF Init, SchedulerInit
<1>2. TypeOK
  BY <1>1, Intervals DEF TypeOK, SchedulerTypeOK
<1>3. OnlyWithdrawnLinger /\ EntriesAreLive
  BY <1>1 DEF OnlyWithdrawnLinger, EntriesAreLive
<1>4. NoneMissed
  BY <1>1 DEF NoneMissed, QueuedOnce, Reconciles, Queued
<1> QED
  BY <1>2, <1>3, <1>4 DEF SchedulerInv

LEMMA SchedulerNext == SchedulerInv /\ [Next]_vars => SchedulerInv'
<1> SUFFICES ASSUME SchedulerInv, [Next]_vars PROVE SchedulerInv'
  OBVIOUS
<1>1. TypeOK /\ OnlyWithdrawnLinger /\ EntriesAreLive /\ NoneMissed
  BY DEF SchedulerInv
<1>2. TypeOK'
  BY <1>1, TypeNext
<1>3. ASSUME NEW e \in Event, SubmitEvent(e)
      PROVE  OnlyWithdrawnLinger' /\ EntriesAreLive' /\ NoneMissed'
  BY <1>1, <1>3, SubmitEntries, SubmitMissesNone
<1>4. ASSUME Announce
      PROVE  OnlyWithdrawnLinger' /\ EntriesAreLive' /\ NoneMissed'
  BY <1>1, <1>4, AnnounceEntries, AnnounceMissesNone
<1>5. ASSUME /\ DOMAIN active' = DOMAIN active
             /\ \A c \in DOMAIN active : active'[c].event = active[c].event
             /\ UNCHANGED <<transitions, live, heard, withdrawn>>
      PROVE  OnlyWithdrawnLinger' /\ EntriesAreLive' /\ NoneMissed'
  <2>1. OnlyWithdrawnLinger' /\ EntriesAreLive'
    BY <1>1, <1>5 DEF OnlyWithdrawnLinger, EntriesAreLive
  <2>2. NoneMissed'
    BY <1>1, <1>5 DEF NoneMissed, QueuedOnce, Reconciles, Queued
  <2> QED
    BY <2>1, <2>2
<1>6. ASSUME Tick
      PROVE  OnlyWithdrawnLinger' /\ EntriesAreLive' /\ NoneMissed'
  <2>1. /\ DOMAIN active' = DOMAIN active
        /\ \A c \in DOMAIN active : active'[c].event = active[c].event
    BY <1>1, <1>6, AgeType DEF Tick, TypeOK
  <2> QED
    BY <1>5, <1>6, <2>1 DEF Tick, AgeAll, clientVars
<1>7. ASSUME UNCHANGED vars
      PROVE  OnlyWithdrawnLinger' /\ EntriesAreLive' /\ NoneMissed'
  BY <1>5, <1>7 DEF vars, schedulerVars, clientVars
<1> QED
  BY <1>2, <1>3, <1>4, <1>6, <1>7 DEF Next, SchedulerInv

\* With nothing queued, what the listener heard of every code is its state.
LEMMA InvListener == SchedulerInv => ListenerUpToDate
<1> SUFFICES ASSUME SchedulerInv, transitions = <<>>, NEW c \in Code, c \notin withdrawn
             PROVE  c \in heard <=> c \in live
  BY DEF SchedulerInv, TypeOK, ListenerUpToDate
<1>1. Reconciles(c)
  BY DEF SchedulerInv, NoneMissed
<1>2. \A f : ~Queued(f)
  BY DEF Queued
<1> QED
  BY <1>1, <1>2 DEF Reconciles

\* A left-over entry ranks as INFO, below every live warning.
LEMMA InvHighest == AboveInfo /\ SchedulerInv => HighestIsLive
<1> SUFFICES ASSUME AboveInfo, SchedulerInv, live # {}, NEW e \in HighestActive
             PROVE  e.code \in live /\ \A c \in live : Severity[c] <= Severity[e.code]
  BY DEF HighestIsLive
<1>1. /\ live \subseteq Code /\ live \subseteq DOMAIN active
      /\ \A c \in DOMAIN active : active[c].event = IF c \in live THEN On(c) ELSE Blank
  BY DEF SchedulerInv, TypeOK, OnlyWithdrawnLinger, EntriesAreLive
<1>2. PICK d \in DOMAIN active :
          /\ e = active[d].event
          /\ \A c \in DOMAIN active : Rank(active[c].event) <= Rank(e)
  BY DEF HighestActive, Choices
<1>3. \A c \in live : Rank(On(c)) = Severity[c] /\ Severity[c] \in 1..3
  <2> SUFFICES ASSUME NEW c \in live
               PROVE  Rank(On(c)) = Severity[c] /\ Severity[c] \in 1..3
    OBVIOUS
  <2>1. c \in Code /\ On(c) \in Event /\ On(c).code = c
    BY <1>1 DEF On, Event
  <2>2. Rank(On(c)) = Severity[On(c).code]
    BY <2>1, RankType
  <2>3. Severity[c] \in 0..3 /\ Severity[c] > 0
    BY <2>1, SchedulerAssumption DEF AboveInfo
  <2> QED
    BY <2>1, <2>2, <2>3
<1>4. \A c \in live : Severity[c] <= Rank(e)
  BY <1>1, <1>2, <1>3
<1>5. Rank(Blank) = 0
  BY NoCode DEF Rank
<1>6. d \in live
  <2>1. PICK c \in live : TRUE
    OBVIOUS
  <2>2. Rank(e) > 0
    <3>1. Severity[c] \in 1..3 /\ Severity[c] <= Rank(e)
      BY <1>3, <1>4
    <3>2. Rank(e) \in 0..3
      BY <1>1, <1>2, <1>3, <1>5
    <3> QED
      BY <3>1, <3>2
  <2>3. e # Blank
    BY <1>5, <2>2
  <2> QED
    BY <1>1, <1>2, <2>3
<1>7. e = On(d)
  BY <1>1, <1>2, <1>6
<1>8. e.code = d
  BY <1>7, OnOff
<1>9. Rank(e) = Severity[d]
  BY <1>3, <1>6, <1>7
<1> QED
  BY <1>4, <1>6, <1>8, <1>9

\* What a step announces is at least as severe as everything queued.
LEMMA AnnouncesHighest ==
    ASSUME TypeOK, Next, output' \notin {output, Silent}, NEW i \in DOMAIN transitions
    PROVE  Rank(transitions[i]) <= Rank(output')
<1>1. SchedulerTypeOK /\ transitions \in Seq(Event) /\ transitions # <<>>
  BY DEF TypeOK, SchedulerTypeOK
<1>2. Announce
  BY DEF Next, SubmitEvent, Submit, Tick, AgeAll
<1>3. AnnounceTransition
  BY <1>1, <1>2, OutcomesOfNext DEF Announce
<1>4. FirstHighest \in DOMAIN transitions /\ output' = transitions[FirstHighest]
  BY <1>1, <1>3, TransitionType
<1>5. \/ Rank(transitions[i]) < Rank(transitions[FirstHighest])
      \/ Rank(transitions[i]) = Rank(transitions[FirstHighest])
  BY <1>1, FirstHighestExists
<1>6. \A j \in DOMAIN transitions : Rank(transitions[j]) \in 0..3
  <2>1. \A j \in DOMAIN transitions : transitions[j] \in Event
    BY <1>1
  <2> QED
    BY <2>1, RankType
<1> QED
  BY <1>4, <1>5, <1>6

-----------------------------------------------------------------------------
(* The audio output                                                        *)

LEMMA AudioStart == AudioInit => AudioTypeOK /\ KillsOnlyItsPlayer /\ VoiceAgrees
BY DEF AudioInit, AudioTypeOK, KillsOnlyItsPlayer, VoiceAgrees

\* What stop() leaves: no player that has not been signalled.
LEMMA StoppedTable ==
    ASSUME AudioTypeOK, VoiceAgrees, NEW table \in AfterStop
    PROVE  /\ table \in [Pid -> {"free", "playing", "ended", "given up"}]
           /\ \A p \in Pid : table[p] # "playing"
<1>1. CASE pid = NoPid
  BY <1>1, AudioAssumption DEF AudioTypeOK, VoiceAgrees, AfterStop
<1>2. CASE pid # NoPid
  <2>1. PICK s \in {"given up", "free"} : table = [process EXCEPT ![pid] = s]
    BY <1>2 DEF AfterStop
  <2>2. pid \in Pid /\ process \in [Pid -> {"free", "playing", "ended", "given up"}]
    BY <1>2 DEF AudioTypeOK
  <2>3. \A p \in Pid : p # pid => process[p] # "playing"
    BY DEF VoiceAgrees
  <2> QED
    BY <2>1, <2>2, <2>3
<1> QED
  BY <1>1, <1>2

\* What the listener hears of a code: its last announcement.
Hears(e) ==
    heard' = IF e.active THEN heard \cup {e.code} ELSE heard \ {e.code}

\* stop() and speak() keep the identifier of a child that was not waited for, or none,
\* and the announcement that is made sounds or nothing.
LEMMA SpeakKeeps ==
    ASSUME AudioTypeOK, VoiceAgrees, NEW e, Speak(e), Hears(e)
    PROVE  AudioTypeOK' /\ KillsOnlyItsPlayer' /\ VoiceAgrees'
<1>1. PICK table \in AfterStop : \/ Silence(table)
                                 \/ \E p \in Pid : Start(table, p, e)
  BY DEF Speak
<1>2. /\ table \in [Pid -> {"free", "playing", "ended", "given up"}]
      /\ \A p \in Pid : table[p] # "playing"
  BY StoppedTable
<1>3. CASE Silence(table)
  BY <1>2, <1>3 DEF Silence, AudioTypeOK, KillsOnlyItsPlayer, VoiceAgrees
<1>4. ASSUME NEW p \in Pid, Start(table, p, e)
      PROVE  AudioTypeOK' /\ KillsOnlyItsPlayer' /\ VoiceAgrees'
  <2>1. process' = [table EXCEPT ![p] = "playing"] /\ pid' = p /\ spoken' = e
    BY <1>4 DEF Start
  <2>2. AudioTypeOK' /\ KillsOnlyItsPlayer'
    BY <1>2, <2>1 DEF AudioTypeOK, KillsOnlyItsPlayer
  <2>3. \A q \in Pid : process'[q] = "playing" => q = pid'
    BY <1>2, <2>1
  <2>4. e.active <=> e.code \in heard'
    BY DEF Hears
  <2> QED
    BY <2>1, <2>2, <2>3, <2>4 DEF VoiceAgrees
<1> QED
  BY <1>1, <1>3, <1>4

-----------------------------------------------------------------------------
(* The two together                                                        *)

\* A step of the composition is a step of the scheduler or leaves it alone.
LEMMA AlertStep == [AlertNext]_alertVars => [Next]_vars
BY DEF AlertNext, Say, Next, alertVars, vars

LEMMA Start0 == AlertInit => IInv
BY SchedulerStart, AudioStart DEF AlertInit, IInv

LEMMA AlertNextInv == IInv /\ [AlertNext]_alertVars => IInv'
<1> SUFFICES ASSUME IInv, [AlertNext]_alertVars PROVE IInv'
  OBVIOUS
<1>1. SchedulerInv /\ AudioTypeOK /\ KillsOnlyItsPlayer /\ VoiceAgrees
  BY DEF IInv
<1>2. SchedulerInv'
  BY <1>1, AlertStep, SchedulerNext
<1>3. AudioTypeOK' /\ KillsOnlyItsPlayer' /\ VoiceAgrees'
  <2>1. CASE UNCHANGED audioVars /\ UNCHANGED heard
    BY <1>1, <2>1 DEF audioVars, AudioTypeOK, KillsOnlyItsPlayer, VoiceAgrees
  <2>2. CASE Say
    <3>1. Hears(output')
      BY <2>2 DEF Say, Announce, Hears
    <3>2. CASE output' = Silent
      <4>1. "none" \notin heard
        BY <1>1, SchedulerAssumption DEF SchedulerInv, TypeOK
      <4>2. heard' = heard
        BY <3>1, <3>2, <4>1 DEF Hears, Silent
      <4> QED
        BY <2>1, <2>2, <3>2, <4>2 DEF Say
    <3>3. CASE output' # Silent
      <4>1. Speak(output')
        BY <2>2, <3>3 DEF Say
      <4> QED
        BY <1>1, <3>1, <4>1, SpeakKeeps
    <3> QED
      BY <3>2, <3>3
  <2>3. CASE PlayerEnds /\ UNCHANGED vars
    <3>1. pid \in Pid /\ process[pid] = "playing" /\ UNCHANGED heard
      BY <1>1, <2>3 DEF PlayerEnds, AudioTypeOK, vars, clientVars
    <3>2. process' = [process EXCEPT ![pid] = "ended"] /\ UNCHANGED <<pid, spoken>>
      BY <2>3 DEF PlayerEnds
    <3> QED
      BY <1>1, <3>1, <3>2 DEF AudioTypeOK, KillsOnlyItsPlayer, VoiceAgrees
  <2>4. ASSUME NEW e \in Event, SubmitEvent(e) PROVE UNCHANGED heard
    BY <2>4 DEF SubmitEvent
  <2>5. Tick \/ UNCHANGED vars => UNCHANGED heard
    BY DEF Tick, vars, clientVars
  <2> QED
    BY <2>1, <2>2, <2>3, <2>4, <2>5 DEF AlertNext, alertVars
<1> QED
  BY <1>2, <1>3 DEF IInv

\* The inductive invariant holds of every behaviour of the scheduler and its output.
LEMMA AlertInvariant == AlertSpec => []IInv
<1> QED
  BY Start0, AlertNextInv, PTL DEF AlertSpec

-----------------------------------------------------------------------------
(* Theorems                                                                *)

\* The scheduler's map, queue and clock and the histories keep their types
\* (warning_scheduler.hpp:9-20).
THEOREM SchedulerTypes == AlertSpec => []TypeOK
<1>1. IInv => TypeOK
  BY DEF IInv, SchedulerInv
<1> QED
  BY AlertInvariant, <1>1, PTL

\* Beside the live warnings, the map holds at most entries of codes whose activation
\* was cleared before it was spoken (warning_scheduler.cpp:8-9).
THEOREM OnlyWithdrawnLingers == AlertSpec => []OnlyWithdrawnLinger
<1>1. IInv => OnlyWithdrawnLinger
  BY DEF IInv, SchedulerInv
<1> QED
  BY AlertInvariant, <1>1, PTL

\* Whenever the queue is empty, every alarm and every recovery was spoken, in the order
\* in which the ones of its code were submitted, whatever severity reordered.
THEOREM ListenerKnows == AlertSpec => []ListenerUpToDate
<1>1. IInv => ListenerUpToDate
  BY InvListener DEF IInv
<1> QED
  BY AlertInvariant, <1>1, PTL

\* When no event is INFO, as in warning_engine.cpp, what highest_active() returns is
\* live and the most severe of what is live, although blank entries may linger.
THEOREM HighestShownIsLive ==
    ASSUME AboveInfo
    PROVE  AlertSpec => []HighestIsLive
<1>1. IInv => HighestIsLive
  BY InvHighest DEF IInv
<1> QED
  BY AlertInvariant, <1>1, PTL

\* No transition and no repeat is spoken while a more severe transition is queued.
THEOREM MostSevereFirst == AlertSpec => SeverityFirst
<1> DEFINE A == output' \notin {output, Silent} =>
                   \A i \in DOMAIN transitions : Rank(transitions[i]) <= Rank(output')
<1>1. IInv /\ [AlertNext]_alertVars => [A]_vars
  <2> SUFFICES ASSUME IInv, Next PROVE A
    BY AlertStep
  <2>1. TypeOK
    BY DEF IInv, SchedulerInv
  <2> QED
    BY <2>1, AnnouncesHighest
<1> HIDE DEF A
<1>2. AlertSpec => [][A]_vars
  BY AlertInvariant, <1>1, PTL DEF AlertSpec
<1> QED
  BY <1>2 DEF SeverityFirst, A

\* stop() only ever signals a child that was not waited for.
THEOREM KillsOnlyIts == AlertSpec => []KillsOnlyItsPlayer
<1>1. IInv => KillsOnlyItsPlayer
  BY DEF IInv
<1> QED
  BY AlertInvariant, <1>1, PTL

\* One announcement sounds at a time, and it is the one the listener heard last of its
\* code, for any files that are missing and any player that cannot be started.
THEOREM VoiceAgreeing == AlertSpec => []VoiceAgrees
<1>1. IInv => VoiceAgrees
  BY DEF IInv
<1> QED
  BY AlertInvariant, <1>1, PTL

=============================================================================
