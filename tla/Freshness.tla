----------------------------- MODULE Freshness -----------------------------
(***************************************************************************)
(* The age test every consumer of telemetry applies to a timestamp         *)
(* (telemetry_data.hpp, free function is_fresh).  Times are whole ticks of *)
(* the monotonic clock; std::nullopt is None.                              *)
(***************************************************************************)
EXTENDS Integers

CONSTANT None      \* an absent std::optional timestamp

ASSUME NoneAssumption == None \notin Int

Time == Nat
OptionalTime == Time \cup {None}

\* An absent timestamp, an update in the future of the evaluation time and a
\* negative maximum age are never fresh; the maximum age itself still is.
IsFresh(last, now, maxAge) ==
    /\ last # None
    /\ maxAge >= 0
    /\ last <= now
    /\ now - last <= maxAge

=============================================================================
