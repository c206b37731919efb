----------------------------- MODULE AudioOutput -----------------------------
(***************************************************************************)
(* WavAudioOutput: each event is spoken by a player process of its own.    *)
(* The process table has the player's children only; an identifier that is *)
(* free in it may be any other process of the machine.                     *)
(***************************************************************************)
CONSTANTS
    Pid,        \* identifiers of processes
    NoPid,      \* _pid when there is no player: -1
    Recorded    \* the events with a file in the directory

ASSUME AudioAssumption == NoPid \notin Pid

VARIABLES
    process,    \* each identifier: free, a player, a player that has ended and not
                \* been waited for, or one that was signalled and given up
    pid,        \* _pid
    spoken      \* history: the event the player of pid was started with, or Mute

audioVars == <<process, pid, spoken>>

\* No player has been started since the last one was stopped.
Mute == [code |-> "none", active |-> FALSE]

AudioInit ==
    /\ process = [p \in Pid |-> "free"]
    /\ pid = NoPid
    /\ spoken = Mute

\* stop(): kill, then one waitpid that does not wait: a player that has not ended by
\* then is never waited for again.
AfterStop ==
    IF pid = NoPid THEN {process}
    ELSE {[process EXCEPT ![pid] = s] :
             s \in IF process[pid] = "playing" THEN {"given up", "free"} ELSE {"free"}}

Silence(table) ==
    /\ process' = table
    /\ pid' = NoPid
    /\ spoken' = Mute

Start(table, p, e) ==
    /\ table[p] = "free"
    /\ process' = [table EXCEPT ![p] = "playing"]
    /\ pid' = p
    /\ spoken' = e

\* Mutant of Speak: the file is looked for before the last player is stopped.
SpeakKeepsLast(e) ==
    IF e \in Recorded
    THEN \E table \in AfterStop : Silence(table) \/ \E p \in Pid : Start(table, p, e)
    ELSE UNCHANGED audioVars

\* Mutant of Speak: without a file _pid is kept although stop() has waited for it.
SpeakKeepsPid(e) ==
    \E table \in AfterStop :
        IF e \in Recorded
        THEN Silence(table) \/ \E p \in Pid : Start(table, p, e)
        ELSE process' = table /\ spoken' = Mute /\ UNCHANGED pid

\* speak(): stop(), and start a player when the file exists and fork() succeeds.
Speak(e) ==
    \E table \in AfterStop :
        \/ Silence(table)
        \/ e \in Recorded /\ \E p \in Pid : Start(table, p, e)

\* The player has played the file, or could not be executed.
PlayerEnds ==
    /\ pid # NoPid /\ process[pid] = "playing"
    /\ process' = [process EXCEPT ![pid] = "ended"]
    /\ UNCHANGED <<pid, spoken>>

-----------------------------------------------------------------------------
(* Properties                                                              *)

\* The process that stop() signals is always a child not waited for: an identifier
\* that was reaped may belong to any other process by now, and is never kept, whatever
\* files are missing and forks fail (tts.cpp:10-11).
KillsOnlyItsPlayer == pid # NoPid => process[pid] # "free"

=============================================================================
