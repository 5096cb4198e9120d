---------------------------- MODULE FrameChannel ----------------------------
(***************************************************************************)
(* What a radio link promises its two ends: messages arrive as they were   *)
(* sent, each at most once, in the order of sending.  Some may be lost.    *)
(***************************************************************************)
EXTENDS Naturals, Sequences

CONSTANT Messages

VARIABLES
    sent,      \* the messages sent, in order
    arrived    \* the messages handed over, each with its place in `sent'

vars == <<sent, arrived>>

Init == sent = <<>> /\ arrived = <<>>

Send(m) == sent' = Append(sent, m) /\ UNCHANGED arrived

Deliver(n) ==
    /\ \A i \in DOMAIN arrived : arrived[i].place < n
    /\ arrived' = Append(arrived, [place |-> n, message |-> sent[n]])
    /\ UNCHANGED sent

Next == (\E m \in Messages : Send(m)) \/ (\E n \in DOMAIN sent : Deliver(n))

Spec == Init /\ [][Next]_vars
=============================================================================
