----------------------------- MODULE MCFleetOps -----------------------------
(* FleetOps with two drones and one handler: takeoffs and landings in turn,  *)
(* never one during the other, with the requests that earlier ones gave up   *)
(* still to be carried out.                                                  *)
EXTENDS FleetOps
=============================================================================
