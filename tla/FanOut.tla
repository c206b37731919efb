------------------------------- MODULE FanOut -------------------------------
(***************************************************************************)
(* What a fan-out of telemetry promises: every destination is handed some  *)
(* of the published frames, each at most once and in the order published.  *)
(***************************************************************************)
EXTENDS Integers, Sequences

CONSTANTS Frame, Destination

VARIABLES
    published,  \* frames published so far; their numbers grow
    got         \* the frames each destination has been handed

fanOutVars == <<published, got>>

Newer(f, seq) == \A i \in DOMAIN seq : seq[i] < f

Init ==
    /\ published = <<>>
    /\ got = [d \in Destination |-> <<>>]

Publish(f) ==
    /\ Newer(f, published)
    /\ published' = Append(published, f)
    /\ UNCHANGED got

Deliver(d, f) ==
    /\ \E i \in DOMAIN published : published[i] = f
    /\ Newer(f, got[d])
    /\ got' = [got EXCEPT ![d] = Append(@, f)]
    /\ UNCHANGED published

Next ==
    \/ \E f \in Frame : Publish(f)
    \/ \E d \in Destination, f \in Frame : Deliver(d, f)

Spec == Init /\ [][Next]_fanOutVars

=============================================================================
