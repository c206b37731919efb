----------------------------- MODULE AlertOutput -----------------------------
(***************************************************************************)
(* The output stage of SchedulerClient speaks what next() returns through  *)
(* WavAudioOutput, the path docs/ALERT_INFRASTRUCTURE.md describes.        *)
(***************************************************************************)
EXTENDS SchedulerClient, AudioOutput

alertVars == <<vars, audioVars>>

AlertInit == Init /\ AudioInit

Say ==
    /\ Announce
    /\ IF output' = Silent THEN UNCHANGED audioVars ELSE Speak(output')

AlertNext ==
    \/ \E e \in Event : SubmitEvent(e) /\ UNCHANGED audioVars
    \/ Say
    \/ Tick /\ UNCHANGED audioVars
    \/ PlayerEnds /\ UNCHANGED vars

\* The output stage keeps polling and time passes; neither the sources nor the players
\* have to do anything.
AlertSpec ==
    /\ AlertInit /\ [][AlertNext]_alertVars
    /\ WF_alertVars(Say)
    /\ WF_alertVars(Tick /\ UNCHANGED audioVars)

-----------------------------------------------------------------------------
(* Properties                                                              *)

\* One announcement sounds at a time (the plan's first rule for the speech output,
\* fixed_wing_voice_warning_rules_plan.txt:351), and it is the last one of its code: an
\* alarm is not heard on after its recovery was announced, nor a recovery after its alarm
\* was announced again, whatever files are missing and forks fail (tts.cpp:10-11, between
\* two calls of next()).  A player that was signalled is taken to fall silent.  Nothing
\* is said of which announcement may interrupt another: stop() asks nothing, where the
\* plan (353-355) has P0 interrupt all others and nothing below it interrupt P0.
VoiceAgrees ==
    \A p \in Pid : process[p] = "playing" =>
        /\ p = pid
        /\ spoken.active <=> spoken.code \in heard

=============================================================================
