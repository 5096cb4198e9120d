---------------------------- MODULE MCMotorBench ----------------------------
(* MotorBench with two responders and two tests.  Both are asked to turn   *)
(* within the ceiling; one alone is asked for a throttle above its ceiling *)
(* but not above the sender's, and for one that does not fit its byte.     *)
EXTENDS MotorBench
MCThrottles == {-250, 8, 20}
MCAsks == {<<Broadcast, 8>>} \cup (Targets \ {Broadcast}) \X {-250, 20}
=============================================================================
