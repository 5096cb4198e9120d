--------------------------- MODULE MCRadioFraming ---------------------------
(* RadioFraming with two types; one payload is as long as STX is large. *)
EXTENDS RadioFraming
MCId == [cmd |-> 0, ack |-> 1]
MCSize == [cmd |-> 1, ack |-> 2]
MCMessages == {[kind |-> "cmd", body |-> <<2>>], [kind |-> "ack", body |-> <<1, 3>>]}
=============================================================================
