---------------------------- MODULE MCMavrosGoto ----------------------------
(* Two targets; a thread for each of two calls and one for the timer. *)
EXTENDS MavrosGoto
=============================================================================
