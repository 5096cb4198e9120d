--------------------------- MODULE MCSwarmServer ---------------------------
(* SwarmServer on a leader and one follower. *)
EXTENDS SwarmServer
=============================================================================
