-------------------------- MODULE WarningScheduler --------------------------
(***************************************************************************)
(* WarningScheduler: the active warnings by code, a queue of transitions   *)
(* not announced yet, and the rule that picks what next() returns.         *)
(* Instead of absolute times the module keeps ages, saturated at the       *)
(* interval they are compared with; "never" (-1e30) is a saturated age.    *)
(***************************************************************************)
EXTENDS Integers, Sequences

CONSTANTS
    Code,           \* event codes
    Severity,       \* severity_rank of each code's events
    Repeat,         \* _repeat_interval_s
    Cooldown        \* _cooldown_s

\* No event has the empty code of a value-initialised one; "none" stands for nullopt.
ASSUME SchedulerAssumption ==
    /\ {"", "none"} \cap Code = {}
    /\ Severity \in [Code -> 0..3]
    /\ Repeat \in Nat \ {0}
    /\ Cooldown \in Nat

VARIABLES
    active,         \* _active: code -> the event and the age of its last output
    transitions,    \* _transitions
    sinceOutput,    \* age of _last_output_s
    output          \* what the last call of next() returned

schedulerVars == <<active, transitions, sinceOutput, output>>

Event == [code : Code, active : BOOLEAN]

\* The value-initialised event operator[] makes: no code, rank INFO, inactive.
Blank == [code |-> "", active |-> FALSE]
Silent == [code |-> "none", active |-> FALSE]

\* Mutant of Rank: a blank event has an arbitrary severity.
RankUninitialised(e) == IF e = Blank THEN 3 ELSE Severity[e.code]

Rank(e) == IF e = Blank THEN 0 ELSE Severity[e.code]

SchedulerInit ==
    /\ active = [c \in {} |-> [event |-> Blank, age |-> Repeat]]
    /\ transitions = <<>>
    /\ sinceOutput = Cooldown
    /\ output = Silent

-----------------------------------------------------------------------------
(* submit                                                                  *)

Put(map, c, state) ==
    [d \in DOMAIN map \cup {c} |-> IF d = c THEN state ELSE map[d]]

\* Mutant of Erase: the entry is looked up but not removed.
EraseNothing(map, c) == map

Erase(map, c) == [d \in DOMAIN map \ {c} |-> map[d]]

\* Mutant of AgeOf: the sentinel of a time is taken for an age.
AgeOfSentinel(c) == IF c \in DOMAIN active THEN active[c].age ELSE -1

AgeOf(c) == IF c \in DOMAIN active THEN active[c].age ELSE Repeat

\* A new activation, or the clear of a code the map knows.
IsTransition(e) == e.active # (e.code \in DOMAIN active)

\* A repeated activation only replaces the event, and keeps its age.
Submit(e) ==
    /\ active' = IF e.active
                 THEN Put(active, e.code, [event |-> e, age |-> AgeOf(e.code)])
                 ELSE Erase(active, e.code)
    /\ transitions' = IF IsTransition(e) THEN Append(transitions, e) ELSE transitions
    /\ UNCHANGED <<sinceOutput, output>>

-----------------------------------------------------------------------------
(* next                                                                    *)

\* Mutant of FirstHighest: among equals the newest is taken.
LastHighest ==
    CHOOSE i \in DOMAIN transitions : \A j \in DOMAIN transitions :
        \/ Rank(transitions[j]) < Rank(transitions[i])
        \/ Rank(transitions[j]) = Rank(transitions[i]) /\ j <= i

\* Mutant of FirstHighest: plain first-in, first-out.
FirstIn == CHOOSE i \in DOMAIN transitions : i = 1

\* max_element: the first of the transitions of the highest severity.
FirstHighest ==
    CHOOSE i \in DOMAIN transitions : \A j \in DOMAIN transitions :
        \/ Rank(transitions[j]) < Rank(transitions[i])
        \/ Rank(transitions[j]) = Rank(transitions[i]) /\ i <= j

Without(queue, i) == SubSeq(queue, 1, i - 1) \o SubSeq(queue, i + 1, Len(queue))

\* Mutant of MarkAnnounced: the time of a repeat is not stored.
MarkAnnouncedKeepsAge(c) ==
    Put(active, c, [event |-> IF c \in DOMAIN active THEN active[c].event ELSE Blank,
                    age |-> AgeOf(c)])

\* _active[code].last_announced = now.  operator[] makes an entry around a blank
\* event when the code has been cleared since the transition was queued.
MarkAnnounced(c) ==
    Put(active, c, [event |-> IF c \in DOMAIN active THEN active[c].event ELSE Blank,
                    age |-> 0])

AnnounceTransition ==
    LET e == transitions[FirstHighest]
    IN  /\ output' = e
        /\ transitions' = Without(transitions, FirstHighest)
        /\ active' = IF e.active THEN MarkAnnounced(e.code) ELSE active
        /\ sinceOutput' = 0

Due == {c \in DOMAIN active : active[c].age >= Repeat}

\* Mutant of Choices: any entry that is due, whatever its severity.
AnyChoice(codes) == codes

\* The entries a scan for the highest severity may end with; which of several
\* equals it is depends on the order of the hash map.
Choices(codes) ==
    {c \in codes : \A d \in codes : Rank(active[d].event) <= Rank(active[c].event)}

AnnounceRepeat ==
    \E c \in Choices(Due) :
        /\ output' = active[c].event
        /\ active' = MarkAnnounced(c)
        /\ sinceOutput' = 0
        /\ UNCHANGED transitions

\* Mutant of NextOutput: repeats are served before transitions.
NextOutputRepeatsFirst ==
    IF sinceOutput >= Cooldown /\ Due # {} THEN AnnounceRepeat
    ELSE IF sinceOutput >= Cooldown /\ transitions # <<>> THEN AnnounceTransition
    ELSE output' = Silent /\ UNCHANGED <<active, transitions, sinceOutput>>

NextOutput ==
    IF sinceOutput >= Cooldown /\ transitions # <<>> THEN AnnounceTransition
    ELSE IF sinceOutput >= Cooldown /\ Due # {} THEN AnnounceRepeat
    ELSE output' = Silent /\ UNCHANGED <<active, transitions, sinceOutput>>

\* highest_active(): the events it may return, none when nothing is active.
HighestActive == {active[c].event : c \in Choices(DOMAIN active)}

-----------------------------------------------------------------------------

Older(age, limit) == IF age < limit THEN age + 1 ELSE age

\* One tick of the caller's clock.
AgeAll ==
    /\ active' = [c \in DOMAIN active |->
                     [active[c] EXCEPT !.age = Older(active[c].age, Repeat)]]
    /\ sinceOutput' = Older(sinceOutput, Cooldown)
    /\ UNCHANGED <<transitions, output>>

Entry == [event : Event \cup {Blank}, age : 0..Repeat]

SchedulerTypeOK ==
    /\ DOMAIN active \subseteq Code
    /\ \A c \in DOMAIN active : active[c] \in Entry
    /\ transitions \in Seq(Event)
    /\ sinceOutput \in 0..Cooldown
    /\ output \in Event \cup {Blank, Silent}

=============================================================================
