--------------------------- MODULE MCRadioCommand ---------------------------
(* RadioCommand with two followers. *)
EXTENDS RadioCommand
=============================================================================
