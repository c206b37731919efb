------------------------- MODULE MCSchedulerClient -------------------------
(* One critical alarm and two sensor warnings of equal severity. *)
EXTENDS SchedulerClient

MCCode == {"LOST", "GYRO", "MAG"}
MCSeverity == [c \in Code |-> IF c = "LOST" THEN 3 ELSE 2]
=============================================================================
