-------------------------- MODULE FieldFrame_proofs --------------------------
(***************************************************************************)
(* What the swarm relies on of its layouts, for any number of vehicles,    *)
(* and what setpoints make of it: for any drones, homes, headings and      *)
(* calls, FieldFrame is type correct, and no tick sends two drones to one  *)
(* place while the offsets are true.                                       *)
(***************************************************************************)
EXTENDS FieldFrame, TLAPS

-----------------------------------------------------------------------------
(* Formation: slots and places *)

\* A layout gives no two slots one offset: two followers are never sent to
\* one place, nor a follower to the leader's.
LEMMA SlotsApart ==
    ASSUME NEW f, NEW n \in Nat, Builds(f, n, 1),
           NEW i \in 0 .. n - 1, NEW j \in 0 .. n - 1, i # j
    PROVE  Slot(f, i) # Slot(f, j)
<1>1. CASE f = "diamond"
  <2>1. i \in 0 .. 4 /\ j \in 0 .. 4
    BY <1>1 DEF Builds
  <2> QED BY <1>1, <2>1 DEF Slot, Diamond
<1>2. CASE f = "vee"
  <2>1. Slot(f, i) = <<-Rank(i), Arm(i)>> /\ Slot(f, j) = <<-Rank(j), Arm(j)>>
    BY <1>2 DEF Slot
  <2>2. Rank(i) # Rank(j) \/ Arm(i) # Arm(j)
    BY DEF Rank, Arm
  <2>3. Rank(i) \in Int /\ Rank(j) \in Int
    BY DEF Rank
  <2> QED BY <2>1, <2>2, <2>3
<1>3. CASE f = "column"
  BY <1>3 DEF Slot
<1>4. CASE f = "line"
  BY <1>4 DEF Slot
<1> QED BY <1>1, <1>2, <1>3, <1>4 DEF Builds, FormationNames

LEMMA SlotType ==
    ASSUME NEW f, NEW n \in Nat, Builds(f, n, 1), NEW i \in 0 .. n - 1
    PROVE  Slot(f, i) \in Points
<1>1. CASE f = "diamond"
  <2>1. i \in 0 .. 4
    BY <1>1 DEF Builds
  <2> QED BY <1>1, <2>1 DEF Slot, Diamond, Points
<1>2. CASE f = "vee"
  <2>1. Rank(i) \in Int /\ Arm(i) \in Int
    BY DEF Rank, Arm
  <2> QED BY <1>2, <2>1 DEF Slot, Points
<1>3. CASE f = "column"
  BY <1>3 DEF Slot, Points
<1>4. CASE f = "line"
  BY <1>4 DEF Slot, Points
<1> QED BY <1>1, <1>2, <1>3, <1>4 DEF Builds, FormationNames

LEMMA ScalingApart ==
    ASSUME NEW s \in Nat \ {0}, NEW a \in Int, NEW b \in Int, a # b
    PROVE  s * a # s * b
  OBVIOUS

\* A quarter turn moves no two offsets to one.
LEMMA RotationApart ==
    ASSUME NEW p \in Points, NEW q \in Points, p # q, NEW h \in Headings
    PROVE  Rotate(p, h) # Rotate(q, h)
<1>1. h = 0 \/ h = 1 \/ h = 2 \/ h = 3
  BY DEF Headings
<1>2. PICK a \in Int, b \in Int : p = <<a, b>>
  BY DEF Points
<1>3. PICK c \in Int, d \in Int : q = <<c, d>>
  BY DEF Points
<1>4. a # c \/ b # d
  BY <1>2, <1>3
<1>5. /\ Rotate(p, h) = <<a * Cos[h] - b * Sin[h], a * Sin[h] + b * Cos[h]>>
      /\ Rotate(q, h) = <<c * Cos[h] - d * Sin[h], c * Sin[h] + d * Cos[h]>>
  BY <1>2, <1>3 DEF Rotate
<1>6. CASE h = 0
  <2>1. Cos[h] = 1 /\ Sin[h] = 0
    BY <1>6 DEF Cos, Sin, Headings
  <2> QED BY <1>4, <1>5, <2>1
<1>7. CASE h = 1
  <2>1. Cos[h] = 0 /\ Sin[h] = 1
    BY <1>7 DEF Cos, Sin, Headings
  <2>2. Rotate(p, h) = <<-b, a>> /\ Rotate(q, h) = <<-d, c>>
    BY <1>5, <2>1
  <2> QED BY <1>4, <2>2
<1>8. CASE h = 2
  <2>1. Cos[h] = -1 /\ Sin[h] = 0
    BY <1>8 DEF Cos, Sin, Headings
  <2>2. Rotate(p, h) = <<-a, -b>> /\ Rotate(q, h) = <<-c, -d>>
    BY <1>5, <2>1
  <2> QED BY <1>4, <2>2
<1>9. CASE h = 3
  <2>1. Cos[h] = 0 /\ Sin[h] = -1
    BY <1>9 DEF Cos, Sin, Headings
  <2> QED BY <1>4, <1>5, <2>1
<1> QED BY <1>1, <1>6, <1>7, <1>8, <1>9

\* place_formation sends every vehicle to a place of its own, at any spacing,
\* wherever the reference is and whichever way it heads.
THEOREM PlacesApart ==
    ASSUME NEW f, NEW n \in Nat, NEW s \in Nat \ {0}, Builds(f, n, s),
           NEW r \in Points, NEW h \in Headings,
           NEW i \in 0 .. n - 1, NEW j \in 0 .. n - 1, i # j
    PROVE  Place(f, s, i, r, h) # Place(f, s, j, r, h)
<1>1. Builds(f, n, 1)
  BY DEF Builds
<1>2. PICK a \in Int, b \in Int : Slot(f, i) = <<a, b>>
  BY <1>1, SlotType DEF Points
<1>3. PICK c \in Int, d \in Int : Slot(f, j) = <<c, d>>
  BY <1>1, SlotType DEF Points
<1>4. a # c \/ b # d
  BY <1>1, <1>2, <1>3, SlotsApart
<1>5. /\ Offset(f, s, i) = <<s * a, s * b>> /\ Offset(f, s, j) = <<s * c, s * d>>
      /\ s * a \in Int /\ s * b \in Int /\ s * c \in Int /\ s * d \in Int
  BY <1>2, <1>3 DEF Offset
<1>6. Offset(f, s, i) # Offset(f, s, j)
  BY <1>4, <1>5, ScalingApart
<1>7. /\ Offset(f, s, i) \in Points /\ Offset(f, s, j) \in Points
  BY <1>5 DEF Points
<1>8. Rotate(Offset(f, s, i), h) # Rotate(Offset(f, s, j), h)
  BY <1>6, <1>7, RotationApart
<1>9. ASSUME NEW o \in Points
      PROVE  /\ Rotate(o, h) \in Points
             /\ Plus(r, Rotate(o, h)) = <<r[1] + Rotate(o, h)[1], r[2] + Rotate(o, h)[2]>>
  <2>1. Cos[h] \in Int /\ Sin[h] \in Int
    BY DEF Cos, Sin, Headings
  <2> QED BY <2>1 DEF Rotate, Plus, Points
<1>10. PICK x1 \in Int, y1 \in Int : Rotate(Offset(f, s, i), h) = <<x1, y1>>
  BY <1>7, <1>9 DEF Points
<1>11. PICK x2 \in Int, y2 \in Int : Rotate(Offset(f, s, j), h) = <<x2, y2>>
  BY <1>7, <1>9 DEF Points
<1>12. PICK u \in Int, v \in Int : r = <<u, v>>
  BY DEF Points
<1> QED BY <1>8, <1>10, <1>11, <1>12 DEF Place, Plus

\* Slot 0 is the reference itself: the leader's place in its own formation.
THEOREM LeaderOnReference ==
    ASSUME NEW f \in FormationNames, NEW s \in Nat \ {0},
           NEW r \in Points, NEW h \in Headings
    PROVE  Place(f, s, 0, r, h) = r
<1>1. Slot(f, 0) = <<0, 0>>
  <2>1. (0 + 1) \div 2 = 0 /\ 0 % 2 = 0
    BY SMT
  <2>2. Rank(0) = 0
    BY <2>1 DEF Rank
  <2>3. Arm(0) = 0 /\ -Rank(0) = 0
    BY <2>1, <2>2 DEF Arm
  <2> QED BY <2>2, <2>3 DEF Slot, Diamond, FormationNames
<1>2. Offset(f, s, 0) = <<0, 0>>
  BY <1>1 DEF Offset
<1>3. Cos[h] \in Int /\ Sin[h] \in Int
  BY DEF Cos, Sin, Headings
<1>4. Rotate(<<0, 0>>, h) = <<0, 0>>
  BY <1>3 DEF Rotate
<1> QED BY <1>2, <1>4 DEF Place, Plus, Points

LEMMA PointSums ==
    ASSUME NEW p \in Points, NEW q \in Points
    PROVE  Plus(p, q) \in Points /\ Minus(p, q) \in Points
  BY DEF Plus, Minus, Points

LEMMA PlaceType ==
    ASSUME NEW f, NEW n \in Nat, NEW s \in Nat \ {0}, Builds(f, n, s),
           NEW r \in Points, NEW h \in Headings, NEW i \in 0 .. n - 1
    PROVE  Place(f, s, i, r, h) \in Points
<1>1. Builds(f, n, 1)
  BY DEF Builds
<1>2. PICK a \in Int, b \in Int : Slot(f, i) = <<a, b>>
  BY <1>1, SlotType DEF Points
<1>3. PICK c \in Int, d \in Int : Offset(f, s, i) = <<c, d>>
  BY <1>2 DEF Offset
<1>4. Cos[h] \in Int /\ Sin[h] \in Int
  BY DEF Cos, Sin, Headings
<1>5. Rotate(Offset(f, s, i), h) \in Points
  BY <1>3, <1>4 DEF Rotate, Points
<1> QED BY <1>5, PointSums DEF Place

-----------------------------------------------------------------------------
(* Types *)

CallType ==
    /\ call \in [step : {"idle", "calibrate", "latch"},
                 phase : {"off", "hold", "follow"},
                 name : Names \cup {None}, heading : Headings]
    /\ call.step # "idle" => call.phase # "off" /\ call.name \in Names

TickType ==
    /\ tick \in [next : 0 .. N + 1, name : Names \cup {None},
                 ref : Points \cup {None}, heading : Headings,
                 told : [Drones -> Points \cup {None}], agreed : BOOLEAN]
    /\ tick.next <= N => tick.name \in Names /\ tick.ref \in Points

\* The types, with those of the call being served and of the tick under way.
AllTypes == TypeOK /\ CallType /\ TickType

LEMMA ConstantFacts ==
    /\ N \in Nat \ {0} /\ 0 \in 0 .. N /\ 1 \in 0 .. N /\ 0 \in 0 .. MaxCalls
    /\ 0 \in Drones /\ 0 \in Headings /\ Home \in [Drones -> Points]
    /\ None \notin Points /\ None \notin Names /\ Nowhere \in Points
    /\ Spacing \in Nat \ {0} /\ MaxCalls \in Nat
    /\ \A f \in Names : Builds(f, N, Spacing)
    /\ NoTick \in [next : 0 .. N + 1, name : Names \cup {None},
                   ref : Points \cup {None}, heading : Headings,
                   told : [Drones -> Points \cup {None}], agreed : BOOLEAN]
    /\ NoTick.next = N + 1 /\ NoTick.told = [i \in Drones |-> None]
  BY FieldAssumption DEF Drones, Headings, NoTick

LEMMA InitTypes == Init => AllTypes
<1> SUFFICES ASSUME Init PROVE AllTypes
  OBVIOUS
<1>1. link \in {"wifi", "radio"} /\ offsets \in [Drones -> Points]
  BY FieldAssumption DEF Init
<1>2. CallType
  BY ConstantFacts DEF Init, CallType, Idle
<1>3. TickType
  BY ConstantFacts DEF Init, TickType
<1>4. /\ tick.next \in 0 .. N + 1 /\ ~(tick.next <= N)
      /\ tick.told \in [Drones -> Points \cup {None}] /\ tick.agreed \in BOOLEAN
  BY ConstantFacts DEF Init
<1>5. /\ pos \in [Drones -> Points] /\ yaw \in Headings
      /\ order \in [Drones -> Points \cup {None}]
      /\ cached \in [Drones -> Poses \cup {None}]
      /\ pose \in [Drones -> Poses \cup {None}]
      /\ fixed \in BOOLEAN /\ phase = "off" /\ name = None /\ ref = None
      /\ heading \in Headings /\ leaderHeading \in Headings
      /\ call.step = "idle" /\ astray = {} /\ calls \in 0 .. MaxCalls
  BY ConstantFacts DEF Init, Idle
<1>6. TypeOK
  BY <1>1, <1>4, <1>5 DEF TypeOK
<1> QED BY <1>2, <1>3, <1>6 DEF AllTypes

LEMMA MeasuredType ==
    ASSUME TypeOK, NEW i \in Drones
    PROVE  Measured(i) \in Poses
  BY ConstantFacts, PointSums DEF TypeOK, Measured, Poses

LEMMA FieldPositionType ==
    ASSUME TypeOK, NEW i \in Drones, pose[i] # None
    PROVE  FieldPosition(i) \in Points /\ pose[i].yaw \in Headings
<1>1. pose[i] \in Poses /\ offsets[i] \in Points
  BY DEF TypeOK
<1> QED BY <1>1, PointSums DEF FieldPosition, Poses

\* A tick that begins takes formation and reference as they are.
LEMMA BeginType ==
    ASSUME TypeOK, phase # "off", NEW first \in 0 .. N, NEW r \in Points,
           NEW h \in Headings, Begin(first, r, h)
    PROVE  TickType' /\ tick'.told = [i \in Drones |-> None] /\ tick'.next = first
<1>1. name \in Names
  BY DEF TypeOK
<1>2. tick' = [next |-> first, name |-> name, ref |-> r, heading |-> h,
               told |-> [i \in Drones |-> None], agreed |-> TRUE]
  BY DEF Begin, NoTick
<1>3. first \in 0 .. N + 1
  BY ConstantFacts
<1> QED BY <1>1, <1>2, <1>3 DEF TickType

LEMMA TargetType ==
    ASSUME TypeOK, TickType, NEW i \in Drones, tick.next = i
    PROVE  Target(i) \in Points /\ LocalTarget(i) \in Points
<1>1. tick.name \in Names /\ tick.ref \in Points /\ tick.heading \in Headings
  BY ConstantFacts DEF TickType, Drones
<1>2. Target(i) \in Points
  BY <1>1, ConstantFacts, PlaceType DEF Target, Drones
<1> QED BY <1>2, PointSums DEF LocalTarget, TypeOK

LEMMA CommandType ==
    ASSUME TypeOK, TickType, NEW i \in Drones, Command(i, LocalTarget(i))
    PROVE  /\ TickType'
           /\ tick'.told = [tick.told EXCEPT ![i] = Plus(Home[i], LocalTarget(i))]
           /\ tick'.next = i + 1 /\ tick.next = i
           /\ tick'.name = tick.name /\ tick'.ref = tick.ref
           /\ tick'.heading = tick.heading
           /\ tick'.agreed => tick.agreed /\ FramesAgree
<1> DEFINE p == Plus(Home[i], LocalTarget(i))
<1>1. p \in Points /\ tick.next = i
  BY ConstantFacts, PointSums, TargetType DEF Command
<1> HIDE DEF p
<1> DEFINE a == tick.agreed /\ FramesAgree
<1>2. tick' = [tick EXCEPT !.next = i + 1, !.told[i] = p, !.agreed = a]
  BY DEF Command, p
<1>7. a \in BOOLEAN /\ (a => tick.agreed /\ FramesAgree)
  OBVIOUS
<1> HIDE DEF a
<1>3. i \in 0 .. N - 1 /\ i + 1 \in 0 .. N + 1
  BY ConstantFacts DEF Drones
<1>4. tick.name \in Names /\ tick.ref \in Points
  BY <1>1, <1>3, ConstantFacts DEF TickType
<1>5. [tick.told EXCEPT ![i] = p] \in [Drones -> Points \cup {None}]
  BY <1>1 DEF TickType
<1>6. tick' = [tick EXCEPT !.next = i + 1, !.told = [tick.told EXCEPT ![i] = p],
                           !.agreed = a]
  BY <1>2 DEF TickType
<1> QED BY <1>1, <1>3, <1>4, <1>5, <1>6, <1>7 DEF TickType, p

LEMMA NextTypes == AllTypes /\ [Next]_vars => AllTypes'
<1> SUFFICES ASSUME AllTypes, [Next]_vars PROVE AllTypes'
  OBVIOUS
<1> USE DEF world, heard, mission, serving
<1>1. TypeOK /\ CallType /\ TickType
  BY DEF AllTypes
\* The tick of a state that has the wider type has TypeOK's.
<1>2. TickType' => /\ tick'.next \in 0 .. N + 1
                   /\ tick'.next <= N => tick'.name \in Names /\ tick'.ref \in Points
                   /\ tick'.told \in [Drones -> Points \cup {None}]
                   /\ tick'.agreed \in BOOLEAN
  BY DEF TickType
<1>3. ASSUME NEW f \in Flights, Operate(f[1], f[2]) PROVE AllTypes'
  <2>1. f[1] \in Points /\ f[2] \in Headings
    BY FieldAssumption
  <2>2. pos' \in [Drones -> Points] /\ order' \in [Drones -> Points \cup {None}]
    BY <1>1, <1>3, <2>1 DEF Operate, TypeOK
  <2> QED BY <1>1, <1>3, <2>1, <2>2 DEF Operate, AllTypes, TypeOK, CallType, TickType
<1>4. ASSUME NEW i \in Drones, Fly(i) PROVE AllTypes'
  <2>1. Plus(Home[i], order[i]) \in Points
    BY <1>1, <1>4, ConstantFacts, PointSums DEF Fly, TypeOK
  <2>2. pos' \in [Drones -> Points]
    BY <1>1, <1>4, <2>1 DEF Fly, TypeOK
  <2> QED BY <1>1, <1>4, <2>2 DEF Fly, AllTypes, TypeOK, CallType, TickType
<1>5. ASSUME NEW i \in Drones, Cache(i) PROVE AllTypes'
  <2>1. cached' \in [Drones -> Poses \cup {None}]
    BY <1>1, <1>5, MeasuredType DEF Cache, TypeOK
  <2> QED BY <1>1, <1>5, <2>1 DEF Cache, AllTypes, TypeOK, CallType, TickType
<1>6. ASSUME NEW i \in Drones, HearPose(i) PROVE AllTypes'
  <2>1. Told(i) \in Poses \cup {None}
    BY <1>1, MeasuredType DEF Told, TypeOK
  <2>2. pose' \in [Drones -> Poses \cup {None}]
    BY <1>1, <1>6, <2>1 DEF HearPose, TypeOK
  <2> QED BY <1>1, <1>6, <2>2 DEF HearPose, AllTypes, TypeOK, CallType, TickType
<1>7. CASE HearFixes
  BY <1>1, <1>7 DEF HearFixes, AllTypes, TypeOK, CallType, TickType
<1>8. ASSUME NEW p \in {"hold", "follow"}, NEW n \in Names, NEW h \in Headings,
             Call(p, n, h)
      PROVE  AllTypes'
  <2>1. CallType' /\ call'.step = "calibrate"
    BY <1>8 DEF Call, CallType
  <2>2. calls' \in 0 .. MaxCalls
    BY <1>1, <1>8, ConstantFacts DEF Call, TypeOK
  <2> QED BY <1>1, <1>8, <2>1, <2>2 DEF Call, AllTypes, TypeOK, TickType
<1>9. CASE Calibrate
  <2>1. [i \in Drones |-> Minus(Fix(i), Fix(0))] \in [Drones -> Points]
    BY <1>1, ConstantFacts, PointSums DEF Fix, TypeOK
  <2>2. offsets' \in [Drones -> Points]
    BY <1>1, <1>9, <2>1 DEF Calibrate, TypeOK
  <2>3. CallType' /\ call'.step = "latch"
    BY <1>1, <1>9 DEF Calibrate, CallType
  <2> QED BY <1>1, <1>9, <2>2, <2>3 DEF Calibrate, AllTypes, TypeOK, TickType
<1>10. CASE Reject
  <2>1. CallType' /\ call'.step = "idle"
    BY <1>10, ConstantFacts DEF Reject, CallType, Idle
  <2> QED BY <1>1, <1>10, <2>1 DEF Reject, AllTypes, TypeOK, TickType
<1>11. CASE LatchHold \/ LatchFollow
  <2>1. /\ pose[0] # None /\ call' = Idle /\ phase' \in {"hold", "follow"}
        /\ name' = call.name /\ call.step # "idle" /\ ref' = FieldPosition(0)
        /\ UNCHANGED <<world, heard, offsets, calls, tick, astray>>
    BY <1>11 DEF LatchHold, LatchFollow, Latch
  <2>2. name' \in Names /\ name' # None
    BY <1>1, <2>1, ConstantFacts DEF CallType
  <2>3. ref' \in Points /\ ref' # None /\ pose[0].yaw \in Headings
    BY <1>1, <2>1, ConstantFacts, FieldPositionType
  <2>4. heading' \in Headings /\ leaderHeading' \in Headings
    BY <1>1, <1>11, <2>3 DEF LatchHold, LatchFollow, CallType, TypeOK
  <2>5. CallType' /\ call'.step = "idle"
    BY <2>1, ConstantFacts DEF CallType, Idle
  <2> QED BY <1>1, <2>1, <2>2, <2>3, <2>4, <2>5 DEF AllTypes, TypeOK, TickType
<1>12. CASE TickHold
  <2>1. TickType'
    BY <1>1, <1>12, ConstantFacts, BeginType DEF TickHold, TypeOK
  <2> QED BY <1>1, <1>2, <1>12, <2>1 DEF TickHold, AllTypes, TypeOK, CallType
<1>13. CASE TickLive
  <2>1. FieldPosition(0) \in Points /\ pose[0].yaw \in Headings
    BY <1>1, <1>13, ConstantFacts, FieldPositionType DEF TickLive
  <2>2. ref' \in Points /\ ref' # None /\ leaderHeading' \in Headings
    BY <1>1, <1>13, <2>1, ConstantFacts DEF TickLive, TypeOK
  <2>3. TickType'
    <3>1. phase # "off" /\ Begin(1, ref', leaderHeading')
      BY <1>13 DEF TickLive
    <3> QED BY <1>1, <2>2, <3>1, ConstantFacts, BeginType
  <2> QED BY <1>1, <1>2, <1>13, <2>2, <2>3 DEF TickLive, AllTypes, TypeOK, CallType
<1>14. CASE TickStale
  <2>1. TickType'
    <3>1. ref \in Points /\ leaderHeading \in Headings
      BY <1>1, <1>14 DEF TickStale, TypeOK
    <3> QED BY <1>1, <1>14, <3>1, ConstantFacts, BeginType DEF TickStale
  <2> QED BY <1>1, <1>2, <1>14, <2>1 DEF TickStale, AllTypes, TypeOK, CallType
<1>15. ASSUME NEW i \in Drones, Send(i) \/ SendLost(i) PROVE AllTypes'
  <2>1. Command(i, LocalTarget(i))
    BY <1>15 DEF Send, SendLost
  <2>2. TickType' /\ tick.next = i
    BY <1>1, <2>1, CommandType
  <2>3. order' \in [Drones -> Points \cup {None}]
    BY <1>1, <1>15, <2>2, TargetType DEF Send, SendLost, TypeOK
  <2> QED BY <1>1, <1>2, <2>1, <2>2, <2>3 DEF Command, AllTypes, TypeOK, CallType
<1>16. CASE Report
  <2>1. TickType'
    BY <1>16, ConstantFacts DEF Report, TickType
  <2>2. astray' \subseteq 1 .. N - 1
    BY <1>16 DEF Report
  <2> QED BY <1>1, <1>2, <1>16, <2>1, <2>2 DEF Report, AllTypes, TypeOK, CallType
<1>17. CASE UNCHANGED vars
  BY <1>1, <1>17 DEF vars, AllTypes, TypeOK, CallType, TickType
<1>18. Turns \subseteq Headings /\ 0 \in Headings
  BY FieldAssumption, ConstantFacts
<1> QED BY <1>3, <1>4, <1>5, <1>6, <1>7, <1>8, <1>9, <1>10, <1>11, <1>12, <1>13,
           <1>14, <1>15, <1>16, <1>17, <1>18 DEF Next

\* Poses, setpoints, offsets and the mission state keep their types; a swarm
\* that is not "off" has a formation and a reference.
THEOREM TypeCorrect == Spec => []TypeOK
<1>1. AllTypes => TypeOK
  BY DEF AllTypes
<1> QED BY <1>1, InitTypes, NextTypes, PTL DEF Spec

-----------------------------------------------------------------------------
(***************************************************************************)
(* Setpoints.  A setpoint is a place of the formation less the offset its  *)
(* drone has when it is sent.  Offsets may be replaced in the middle of a  *)
(* tick; as long as each sent with was true, the places of the tick are    *)
(* those of one formation round one reference, seen from the leader's home.*)
(***************************************************************************)

\* What the tick under way has told a drone with true offsets is its slot of
\* the formation.
ToldSlots ==
    tick.agreed => \A i \in Drones : tick.told[i] # None =>
        tick.next <= N /\ tick.told[i] = Plus(Home[0], Target(i))

LEMMA TrueOffset ==
    ASSUME NEW a \in Points, NEW b \in Points, NEW t \in Points
    PROVE  Plus(a, Minus(t, Minus(a, b))) = Plus(b, t)
<1>1. PICK a1 \in Int, a2 \in Int : a = <<a1, a2>>
  BY DEF Points
<1>2. PICK b1 \in Int, b2 \in Int : b = <<b1, b2>>
  BY DEF Points
<1>3. PICK t1 \in Int, t2 \in Int : t = <<t1, t2>>
  BY DEF Points
<1>4. Minus(a, b) = <<a1 - b1, a2 - b2>>
  BY <1>1, <1>2 DEF Minus
<1>5. Minus(t, Minus(a, b)) = <<t1 - (a1 - b1), t2 - (a2 - b2)>>
  BY <1>3, <1>4 DEF Minus
<1>6. /\ a1 + (t1 - (a1 - b1)) = b1 + t1
      /\ a2 + (t2 - (a2 - b2)) = b2 + t2
  OBVIOUS
<1>7. Plus(a, Minus(t, Minus(a, b))) = <<a1 + (t1 - (a1 - b1)), a2 + (t2 - (a2 - b2))>>
  BY <1>1, <1>5 DEF Plus
<1>8. Plus(b, t) = <<b1 + t1, b2 + t2>>
  BY <1>2, <1>3 DEF Plus
<1> QED BY <1>6, <1>7, <1>8

LEMMA ShiftApart ==
    ASSUME NEW p \in Points, NEW a \in Points, NEW b \in Points, a # b
    PROVE  Plus(p, a) # Plus(p, b)
<1>1. PICK p1 \in Int, p2 \in Int : p = <<p1, p2>>
  BY DEF Points
<1>2. PICK a1 \in Int, a2 \in Int : a = <<a1, a2>>
  BY DEF Points
<1>3. PICK b1 \in Int, b2 \in Int : b = <<b1, b2>>
  BY DEF Points
<1>4. a1 # b1 \/ a2 # b2
  BY <1>2, <1>3
<1>5. Plus(p, a) = <<p1 + a1, p2 + a2>> /\ Plus(p, b) = <<p1 + b1, p2 + b2>>
  BY <1>1, <1>2, <1>3 DEF Plus
<1> QED BY <1>4, <1>5

LEMMA InitToldSlots == Init => ToldSlots
  BY ConstantFacts DEF Init, ToldSlots

LEMMA BeginTellsNone ==
    ASSUME NEW f, NEW r, NEW h, Begin(f, r, h)
    PROVE  tick'.told = [i \in Drones |-> None]
  BY DEF Begin, NoTick

LEMMA NextToldSlots == AllTypes /\ ToldSlots /\ [Next]_vars => ToldSlots'
<1> SUFFICES ASSUME AllTypes, ToldSlots, [Next]_vars PROVE ToldSlots'
  OBVIOUS
<1> USE DEF world, heard, mission, serving
<1>1. TypeOK /\ TickType
  BY DEF AllTypes
<1>2. CASE tick' = tick
  BY <1>2 DEF ToldSlots, Target
<1>3. CASE tick'.told = [i \in Drones |-> None]
  BY <1>3 DEF ToldSlots
<1>4. ASSUME NEW i \in Drones, Command(i, LocalTarget(i)) PROVE ToldSlots'
  <2>1. /\ tick'.told = [tick.told EXCEPT ![i] = Plus(Home[i], LocalTarget(i))]
        /\ tick'.next = i + 1 /\ tick.next = i
        /\ tick'.name = tick.name /\ tick'.ref = tick.ref
        /\ tick'.heading = tick.heading
        /\ tick'.agreed => tick.agreed /\ FramesAgree
    BY <1>1, <1>4, CommandType
  <2>2. tick'.next <= N
    BY <2>1, ConstantFacts DEF Drones
  <2>3. \A j \in Drones : Target(j)' = Target(j)
    BY <2>1 DEF Target
  <2>4. tick'.agreed => Plus(Home[i], LocalTarget(i)) = Plus(Home[0], Target(i))
    <3> SUFFICES ASSUME FramesAgree
                 PROVE  Plus(Home[i], LocalTarget(i)) = Plus(Home[0], Target(i))
      BY <2>1
    <3>1. Target(i) \in Points /\ Home[i] \in Points /\ Home[0] \in Points
      BY <1>1, <2>1, ConstantFacts, TargetType
    <3>2. LocalTarget(i) = Minus(Target(i), Minus(Home[i], Home[0]))
      BY DEF LocalTarget, FramesAgree
    <3> QED BY <3>1, <3>2, TrueOffset
  <2>5. tick.told \in [Drones -> Points \cup {None}]
    BY <1>1 DEF TickType
  <2>6. ASSUME tick'.agreed, NEW j \in Drones, tick'.told[j] # None
        PROVE  tick'.told[j] = Plus(Home[0], Target(j))
    BY <2>1, <2>4, <2>5, <2>6, SMTT(30) DEF ToldSlots
  <2> QED BY <2>2, <2>3, <2>6, SMTT(30) DEF ToldSlots
<1>5. CASE TickHold \/ TickLive \/ TickStale \/ Report
  <2>1. tick'.told = [i \in Drones |-> None]
    <3>1. CASE TickHold
      BY <3>1, BeginTellsNone DEF TickHold
    <3>2. CASE TickLive
      BY <3>2, BeginTellsNone DEF TickLive
    <3>3. CASE TickStale
      BY <3>3, BeginTellsNone DEF TickStale
    <3>4. CASE Report
      BY <3>4 DEF Report, NoTick
    <3> QED BY <1>5, <3>1, <3>2, <3>3, <3>4
  <2> QED BY <1>3, <2>1
<1>6. ASSUME NEW i \in Drones, Fly(i) \/ Cache(i) \/ HearPose(i) PROVE tick' = tick
  BY <1>6 DEF Fly, Cache, HearPose
<1>7. ASSUME NEW f \in Flights, Operate(f[1], f[2]) PROVE tick' = tick
  BY <1>7 DEF Operate
<1>8. ASSUME NEW p, NEW n, NEW h, Call(p, n, h) PROVE tick' = tick
  BY <1>8 DEF Call
<1>9. CASE \/ HearFixes \/ Calibrate \/ Reject \/ LatchHold \/ LatchFollow
           \/ UNCHANGED vars
  BY <1>2, <1>9 DEF HearFixes, Calibrate, Reject, LatchHold, LatchFollow, Latch, vars
<1> QED BY <1>2, <1>4, <1>5, <1>6, <1>7, <1>8, <1>9 DEF Next, Send, SendLost

LEMMA SlotsKeepApart == AllTypes /\ ToldSlots => TrueFramesKeepApart
<1> SUFFICES ASSUME AllTypes, ToldSlots, tick.agreed, NEW i \in Drones, NEW j \in Drones, i # j,
                    tick.told[i] # None
             PROVE  tick.told[i] # tick.told[j]
  BY DEF TrueFramesKeepApart, SpacingKeepsApart
<1>1. tick.next <= N /\ tick.told[i] = Plus(Home[0], Target(i))
  BY DEF ToldSlots
<1>2. CASE tick.told[j] = None
  BY <1>2
<1>3. CASE tick.told[j] # None
  <2>1. tick.told[j] = Plus(Home[0], Target(j))
    BY <1>3 DEF ToldSlots
  <2>2. tick.name \in Names /\ tick.ref \in Points /\ tick.heading \in Headings
    BY <1>1 DEF AllTypes, TickType
  <2>3. Builds(tick.name, N, Spacing) /\ i \in 0 .. N - 1 /\ j \in 0 .. N - 1
    BY <2>2, ConstantFacts DEF Drones
  <2>4. Target(i) \in Points /\ Target(j) \in Points
    BY <2>2, <2>3, ConstantFacts, PlaceType DEF Target
  <2>5. Target(i) # Target(j)
    BY <2>2, <2>3, ConstantFacts, PlacesApart DEF Target
  <2>6. Home[0] \in Points
    BY ConstantFacts
  <2> QED BY <1>1, <2>1, <2>4, <2>5, <2>6, ShiftApart
<1> QED BY <1>2, <1>3

\* With true offsets no tick sends two drones to one place, whatever
\* the layout, the number of drones, their homes, the leader's flight and the
\* engagements that come in between.
THEOREM TrueFramesKeepApartAlways == Spec => []TrueFramesKeepApart
  BY InitTypes, NextTypes, InitToldSlots, NextToldSlots, SlotsKeepApart, PTL
     DEF Spec
=============================================================================
