---------------------------- MODULE MCFieldFrame ----------------------------
(* FieldFrame with two drones switched on one spacing apart.                *)
EXTENDS FieldFrame, TLC
MCHome == (0 :> <<0, 0>> @@ 1 :> <<0, 1>>)
MCZeros == [i \in 0 .. 1 |-> <<0, 0>>]
MCDeployments == {[link |-> "wifi", offsets |-> MCZeros],
                  [link |-> "radio", offsets |-> MCHome]}
MCFlights == {<<<<2, 0>>, 1>>}
MCNowhere == <<90, 90>>
=============================================================================
