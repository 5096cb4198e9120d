--------------------------- MODULE CommandService ---------------------------
(***************************************************************************)
(* What the command services of a set of vehicles promise their clients: a *)
(* call is answered once, and with success only if a call of its number    *)
(* has been carried out.  If no two calls have one number, that is the     *)
(* promise a MAVROS makes; else a call may be answered for its namesake.   *)
(* A call answered with failure may have been carried out, or may still be. *)
(***************************************************************************)
CONSTANTS
    Tickets,   \* the calls, in no order
    Numbers,   \* what calls are told apart by
    None

VARIABLES
    status,    \* each call: not made, open, or answered
    number,    \* each call's number, None before it is made
    executed   \* the calls carried out by the vehicle they are addressed to

vars == <<status, number, executed>>

Init == /\ status = [k \in Tickets |-> "unused"]
        /\ number = [k \in Tickets |-> None] /\ executed = {}

Open(k) ==
    /\ status[k] = "unused" /\ status' = [status EXCEPT ![k] = "open"]
    /\ \E n \in Numbers : number' = [number EXCEPT ![k] = n]
    /\ UNCHANGED executed

\* A vehicle may carry a call out twice: nothing new happens then.
Execute(k) ==
    /\ status[k] # "unused" /\ executed' = executed \cup {k}
    /\ UNCHANGED <<status, number>>

Succeed(k) ==
    /\ status[k] = "open" /\ \E j \in executed : number[j] = number[k]
    /\ status' = [status EXCEPT ![k] = "ok"] /\ UNCHANGED <<number, executed>>

\* A crash of the service fails every open call at once.
Fail(S) ==
    /\ \A k \in S : status[k] = "open"
    /\ status' = [k \in Tickets |-> IF k \in S THEN "failed" ELSE status[k]]
    /\ UNCHANGED <<number, executed>>

Next == \/ \E k \in Tickets : Open(k) \/ Execute(k) \/ Succeed(k)
        \/ \E S \in SUBSET Tickets : Fail(S)

Spec == Init /\ [][Next]_vars
=============================================================================
