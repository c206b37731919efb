--------------------------- MODULE SchedulerClient ---------------------------
(***************************************************************************)
(* A scheduler with its two users: a rule evaluation that submits events   *)
(* and an output stage that calls next() and speaks what it returns.  The  *)
(* submissions are arbitrary: activations may be repeated, clears may come *)
(* for codes that are not active, and either may come at any moment.       *)
(***************************************************************************)
EXTENDS WarningScheduler

CONSTANT MaxSubmits     \* bound on the number of events submitted

ASSUME ClientAssumption == MaxSubmits \in Nat

VARIABLES
    submits,    \* number of events submitted so far
    live,       \* history: codes whose last submitted event is an activation
    heard,      \* history: codes whose last spoken event is an activation
    withdrawn   \* history: codes cleared while their activation was queued

clientVars == <<submits, live, heard, withdrawn>>
vars == <<schedulerVars, clientVars>>

Init ==
    /\ SchedulerInit
    /\ submits = 0
    /\ live = {}
    /\ heard = {}
    /\ withdrawn = {}

Queued(e) == \E i \in DOMAIN transitions : transitions[i] = e

SubmitEvent(e) ==
    /\ submits < MaxSubmits
    /\ submits' = submits + 1
    /\ Submit(e)
    /\ live' = IF e.active THEN live \cup {e.code} ELSE live \ {e.code}
    /\ withdrawn' = IF ~e.active /\ Queued([code |-> e.code, active |-> TRUE])
                    THEN withdrawn \cup {e.code} ELSE withdrawn
    /\ UNCHANGED heard

Announce ==
    /\ NextOutput
    /\ heard' = IF output'.active THEN heard \cup {output'.code}
                                  ELSE heard \ {output'.code}
    /\ UNCHANGED <<submits, live, withdrawn>>

Tick == AgeAll /\ UNCHANGED clientVars

Next == (\E e \in Event : SubmitEvent(e)) \/ Announce \/ Tick

\* Time passes and the output stage keeps polling; nothing makes a source submit.
Spec == Init /\ [][Next]_vars /\ WF_vars(Announce) /\ WF_vars(Tick)

-----------------------------------------------------------------------------
(* Properties                                                              *)

TypeOK ==
    /\ SchedulerTypeOK
    /\ live \subseteq Code
    /\ heard \subseteq Code
    /\ withdrawn \subseteq Code

\* Every event warning_engine.cpp creates is WARNING or CRITICAL; a blank one is INFO.
AboveInfo == \A c \in Code : Severity[c] > 0

\* What the display shows as the highest alert belongs to a warning that is live
\* and no live warning is more severe: neither de-duplication, nor the entries
\* operator[] makes for codes already cleared, ever hide or outrank an alarm.
\* (True of severities above INFO, AboveInfo: no rule uses INFO.)
HighestIsLive ==
    live # {} => \A e \in HighestActive :
                    /\ e.code \in live
                    /\ \A c \in live : Severity[c] <= Severity[e.code]

\* An entry of the active map that is not live exists only for a code whose
\* activation was withdrawn before it was spoken, so an evaluation that never
\* does that always sees active_count() equal to the number of live warnings.
OnlyWithdrawnLinger ==
    /\ live \subseteq DOMAIN active
    /\ DOMAIN active \ live \subseteq withdrawn

\* Once the queue is empty the listener knows exactly what is live: every alarm
\* and every recovery was spoken, the ones of one code in the order submitted,
\* whatever was reordered by severity (a withdrawn activation excepted).
ListenerUpToDate ==
    transitions = <<>> => heard \ withdrawn = live \ withdrawn

\* Nothing waits behind something less severe: while a more severe transition is
\* queued no other transition and no repeat is spoken.
SeverityFirst ==
    [][ output' \notin {output, Silent} =>
          \A i \in DOMAIN transitions : Rank(transitions[i]) <= Rank(output') ]_vars

\* Every transition is spoken in the end, and once the sources are quiet the
\* queue stays empty: repeats cannot keep transitions waiting.
QueueDrains == <>[](transitions = <<>>)

\* The most severe warning, while it stays active, is repeated for ever, however
\* irregularly next() is called: neither less severe warnings, that may be due just
\* as long, nor left-over entries keep its turn.  (Less severe ones can starve.)
MostSevereIsRepeated ==
    \A c \in Code :
        (\A d \in Code \ {c} : Severity[d] < Severity[c])
            => (<>[](c \in live) => []<>(output = [code |-> c, active |-> TRUE]))

\* Something could be announced now.
Ready == sinceOutput >= Cooldown /\ (transitions # <<>> \/ Due # {})

\* An output stage that polls promptly, so that time does not pass while something could
\* be announced, repeats every warning that stays active: when all codes fit into one
\* repeat interval, neither the order of the hash map nor severity starves any.
AllAreRepeated ==
    <>[][AgeAll => ~Ready]_vars
        => \A c \in Code : <>[](c \in live) => []<>(output = [code |-> c, active |-> TRUE])

\* docs/ALERT_INFRASTRUCTURE.md calls highest_active() the "current highest active
\* event" and the RepeatsAndClears test expects active_count() to be 0 once every
\* warning is cleared.
NothingLiveNothingActive == live = {} => DOMAIN active = {}

=============================================================================
