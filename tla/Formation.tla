----------------------------- MODULE Formation -----------------------------
(***************************************************************************)
(* Formation geometry (formation.py).  A layout gives every slot an offset *)
(* from the leader, <<forward, left>>, in units of the spacing; slot 0 is  *)
(* the leader.  Points of the field are <<east, north>>; lengths are whole *)
(* and headings whole quarter turns, so that the rotation is exact.        *)
(* Altitude is left out: every offset is level.                            *)
(***************************************************************************)
EXTENDS Integers

Points == Int \X Int
Headings == 0 .. 3   \* quarter turns counterclockwise from east

Plus(p, q) == <<p[1] + q[1], p[2] + q[2]>>
Minus(p, q) == <<p[1] - q[1], p[2] - q[2]>>

\* _diamond: front point, wings, tail, centre
Diamond == [i \in 0 .. 4 |-> CASE i = 0 -> <<0, 0>>
                               [] i = 1 -> <<-1, 1>>
                               [] i = 2 -> <<-1, -1>>
                               [] i = 3 -> <<-2, 0>>
                               [] i = 4 -> <<-1, 0>>]

\* mutant: the rank is rounded down
RankDown(i) == i \div 2

\* _vee: odd slots on the left arm, even ones on the right
Rank(i) == (i + 1) \div 2
Arm(i) == IF i % 2 = 1 THEN Rank(i) ELSE -Rank(i)

FormationNames == {"diamond", "vee", "column", "line"}

Slot(name, i) ==
    CASE name = "diamond" -> Diamond[i]
      [] name = "vee" -> <<-Rank(i), Arm(i)>>
      [] name = "column" -> <<-i, 0>>
      [] name = "line" -> <<0, i>>

\* build_formation accepts n vehicles at spacing s.
Builds(name, n, s) == /\ name \in FormationNames /\ n >= 1 /\ s > 0
                      /\ name = "diamond" => n <= 5

Offset(name, s, i) == <<s * Slot(name, i)[1], s * Slot(name, i)[2]>>

\* forward goes to (cos, sin), left to (-sin, cos)
Cos == [h \in Headings |-> IF h = 0 THEN 1 ELSE IF h = 2 THEN -1 ELSE 0]
Sin == [h \in Headings |-> IF h = 1 THEN 1 ELSE IF h = 3 THEN -1 ELSE 0]
Rotate(o, h) == <<o[1] * Cos[h] - o[2] * Sin[h], o[1] * Sin[h] + o[2] * Cos[h]>>

\* place_formation: where slot i is when the leader is at ref
Place(name, s, i, ref, h) == Plus(ref, Rotate(Offset(name, s, i), h))
=============================================================================
