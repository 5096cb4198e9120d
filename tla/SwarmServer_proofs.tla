------------------------- MODULE SwarmServer_proofs -------------------------
(***************************************************************************)
(* For any number of drones and of executor threads: SwarmServer is type   *)
(* correct, a swarm that follows its leader has a formation and a          *)
(* reference, and a standing alarm freezes the reference.                  *)
(***************************************************************************)
EXTENDS SwarmServer, TLAPS

\* What a thread has in hand between its critical sections: an engagement
\* about to be latched, or a fresh leader pose about to become the reference.
LocalsInHand ==
    \A t \in Threads :
        /\ pc[t] \in {"engage", "latch"} => /\ loc[t].formation # None
                                            /\ loc[t].to \in HoldPhases
        /\ pc[t] \in {"latch", "tick_track"} => loc[t].ref # None

IInv == TypeOK /\ FollowHasReference /\ LocalsInHand

LEMMA ConstantFacts ==
    /\ 0 \in Drones /\ None \notin Formations /\ None \notin Poses
    /\ NoLocals \in Locals /\ HoldPhases \subseteq Phases
    /\ N \in Nat /\ MaxPose \in Nat /\ MaxCalls \in Nat
  BY ServerAssumption DEF Drones, Poses, NoLocals, Locals, Phases, HoldPhases

LEMMA InitIInv == Init => IInv
<1> SUFFICES ASSUME Init PROVE IInv
  OBVIOUS
<1>1. TypeOK
  <2>1. 0 \in 0 .. MaxCalls
    BY ConstantFacts
  <2> QED
    BY <2>1, ConstantFacts DEF Init, TypeOK, Phases, Steps
<1>2. FollowHasReference
  BY DEF Init, FollowHasReference
<1>3. LocalsInHand
  BY DEF Init, LocalsInHand
<1> QED  BY <1>1, <1>2, <1>3 DEF IInv

\* A step of thread t sets its pc and its locals and leaves the others alone.
LEMMA ThreadStep ==
  ASSUME IInv, NEW t \in Threads, NEW s \in Steps, NEW l \in Locals,
         pc' = [pc EXCEPT ![t] = s], loc' = [loc EXCEPT ![t] = l],
         s \in {"engage", "latch"} => l.formation # None /\ l.to \in HoldPhases,
         s \in {"latch", "tick_track"} => l.ref # None
  PROVE  /\ pc' \in [Threads -> Steps] /\ loc' \in [Threads -> Locals]
         /\ LocalsInHand'
<1>1. /\ pc \in [Threads -> Steps] /\ loc \in [Threads -> Locals]
      /\ LocalsInHand
  BY DEF IInv, TypeOK
<1>2. pc' \in [Threads -> Steps] /\ loc' \in [Threads -> Locals]
  BY <1>1
<1>3. LocalsInHand'
  BY <1>1 DEF LocalsInHand
<1> QED  BY <1>2, <1>3

LEMMA FinishStep ==
  ASSUME IInv, NEW t \in Threads, Finish(t)
  PROVE  /\ pc' \in [Threads -> Steps] /\ loc' \in [Threads -> Locals]
         /\ LocalsInHand'
  BY ThreadStep, ConstantFacts DEF Finish, Go, Steps

\* Place with no reference or no slot to command ends the tick.
LEMMA PlaceStep ==
  ASSUME IInv, NEW t \in Threads, NEW r \in Poses \cup {None},
         NEW first \in 0 .. N, Place(t, r, first)
  PROVE  /\ pc' \in [Threads -> Steps] /\ loc' \in [Threads -> Locals]
         /\ LocalsInHand'
<1>1. CASE r = None \/ first = N
  BY <1>1, FinishStep DEF Place
<1>2. CASE ~(r = None \/ first = N)
  <2> DEFINE l == [loc[t] EXCEPT !.ref = r, !.drone = first]
  <2>1. loc \in [Threads -> Locals] /\ first \in Drones
    BY <1>2, ConstantFacts DEF IInv, TypeOK, Drones
  <2>2. l \in Locals
    BY <2>1 DEF Locals
  <2>3. pc' = [pc EXCEPT ![t] = "tick_send"] /\ loc' = [loc EXCEPT ![t] = l]
    BY <1>2, <2>1 DEF Place, Go
  <2> QED  BY <2>2, <2>3, ThreadStep DEF Steps
<1> QED  BY <1>1, <1>2

LEMMA TickIInv ==
  ASSUME IInv, NEW t \in Threads, Tick(t)
  PROVE  IInv'
<1> USE DEF mission, leader
<1>1. /\ TypeOK /\ FollowHasReference /\ LocalsInHand
      /\ loc \in [Threads -> Locals] /\ loc[t] \in Locals
      /\ ref \in Poses \cup {None} /\ pose \in Poses \cup {None}
      /\ 0 \in 0 .. N /\ 1 \in 0 .. N
  BY ServerAssumption DEF IInv, TypeOK
<1> DEFINE Threaded == /\ pc' \in [Threads -> Steps]
                       /\ loc' \in [Threads -> Locals] /\ LocalsInHand'
<1>2. CASE TickHold(t)
  <2>1. Threaded
    BY <1>1, <1>2, PlaceStep DEF TickHold
  <2> QED  BY <1>1, <1>2, <2>1 DEF TickHold, IInv, TypeOK, FollowHasReference
<1>3. CASE TickLive(t)
  <2> DEFINE l == [loc[t] EXCEPT !.ref = pose]
  <2>1. l \in Locals
    BY <1>1 DEF Locals
  <2>2. Threaded
    BY <1>1, <1>3, <2>1, ThreadStep DEF TickLive, Go, Steps
  <2> QED  BY <1>1, <1>3, <2>2 DEF TickLive, IInv, TypeOK, FollowHasReference
<1>4. CASE TickAge(t)
  <2>1. loc' = [loc EXCEPT ![t] = loc[t]]
    BY <1>1, <1>4 DEF TickAge
  <2>2. Threaded
    <3>1. CASE loc[t].ref = None \/ lost
      <4>1. pc' = [pc EXCEPT ![t] = "tick_freeze"]
        BY <1>4, <3>1 DEF TickAge, Go
      <4> QED  BY <1>1, <2>1, <4>1, ThreadStep DEF Steps
    <3>2. CASE ~(loc[t].ref = None \/ lost)
      <4>1. pc' = [pc EXCEPT ![t] = "tick_track"]
        BY <1>4, <3>2 DEF TickAge, Go
      <4> QED  BY <1>1, <2>1, <3>2, <4>1, ThreadStep DEF Steps
    <3> QED  BY <3>1, <3>2
  <2> QED  BY <1>1, <1>4, <2>2 DEF TickAge, IInv, TypeOK, FollowHasReference
<1>5. CASE TickTrack(t)
  <2>1. loc[t].ref \in Poses
    BY <1>1, <1>5 DEF TickTrack, LocalsInHand, Locals
  <2>2. Threaded
    BY <1>1, <1>5, <2>1, PlaceStep DEF TickTrack
  <2>3. ref' # None
    BY <1>5, <2>1, ConstantFacts DEF TickTrack
  <2> QED  BY <1>1, <1>5, <2>1, <2>2, <2>3
           DEF TickTrack, IInv, TypeOK, FollowHasReference
<1>6. CASE TickFreeze(t)
  <2>1. Threaded
    BY <1>1, <1>6, PlaceStep DEF TickFreeze
  <2> QED  BY <1>1, <1>6, <2>1 DEF TickFreeze, IInv, TypeOK, FollowHasReference
<1>7. CASE TickSend(t)
  <2>1. CASE loc[t].drone = N - 1
    <3>1. Threaded
      BY <1>7, <2>1, FinishStep DEF TickSend
    <3> QED  BY <1>1, <1>7, <3>1 DEF TickSend, IInv, TypeOK, FollowHasReference
  <2>2. CASE loc[t].drone # N - 1
    <3> DEFINE l == [loc[t] EXCEPT !.drone = loc[t].drone + 1]
    <3>1. loc[t].drone + 1 \in Drones
      BY <1>1, <2>2, ConstantFacts DEF Locals, Drones
    <3>2. l \in Locals
      BY <1>1, <3>1 DEF Locals
    <3>3. /\ loc' = [loc EXCEPT ![t] = l]
          /\ pc' = [pc EXCEPT ![t] = "tick_send"]
      BY <1>1, <1>7, <2>2 DEF TickSend, IInv, TypeOK
    <3>4. Threaded
      BY <3>2, <3>3, ThreadStep DEF Steps
    <3> QED  BY <1>1, <1>7, <3>4 DEF TickSend, IInv, TypeOK, FollowHasReference
  <2> QED  BY <2>1, <2>2
<1> QED  BY <1>2, <1>3, <1>4, <1>5, <1>6, <1>7 DEF Tick

LEMMA ResumeIInv ==
  ASSUME IInv, NEW t \in Threads, Resume(t)
  PROVE  IInv'
<1> USE DEF mission, leader
<1>1. /\ TypeOK /\ FollowHasReference /\ LocalsInHand
      /\ loc \in [Threads -> Locals] /\ loc[t] \in Locals
      /\ ref \in Poses \cup {None} /\ pose \in Poses \cup {None}
  BY DEF IInv, TypeOK
<1> DEFINE Threaded == /\ pc' \in [Threads -> Steps]
                       /\ loc' \in [Threads -> Locals] /\ LocalsInHand'
<1>2. CASE EndTakeoff(t)
  <2>1. Threaded
    BY <1>1, <1>2, FinishStep DEF EndTakeoff
  <2> QED  BY <1>1, <1>2, <2>1
           DEF EndTakeoff, SetPhase, Phases, IInv, TypeOK, FollowHasReference
<1>3. CASE EndLand(t)
  <2>1. Threaded
    BY <1>1, <1>3, FinishStep DEF EndLand
  <2> QED  BY <1>1, <1>3, <2>1
           DEF EndLand, SetPhase, Phases, IInv, TypeOK, FollowHasReference
<1>4. CASE ReadReference(t)
  <2>1. CASE pose = None
    <3>1. Threaded
      BY <1>1, <1>4, <2>1, FinishStep DEF ReadReference
    <3> QED  BY <1>1, <1>4, <3>1
             DEF ReadReference, IInv, TypeOK, FollowHasReference
  <2>2. CASE pose # None
    <3> DEFINE l == [loc[t] EXCEPT !.ref = pose]
    <3>1. /\ l \in Locals /\ l.ref # None
          /\ l.formation # None /\ l.to \in HoldPhases
      BY <1>1, <1>4, <2>2 DEF ReadReference, LocalsInHand, Locals
    <3>2. pc' = [pc EXCEPT ![t] = "latch"] /\ loc' = [loc EXCEPT ![t] = l]
      BY <1>1, <1>4, <2>2 DEF ReadReference, Go
    <3>3. Threaded
      BY <3>1, <3>2, ThreadStep DEF Steps
    <3> QED  BY <1>1, <1>4, <3>3
             DEF ReadReference, IInv, TypeOK, FollowHasReference
  <2> QED  BY <2>1, <2>2
<1>5. CASE Latch(t)
  <2>1. Threaded
    BY <1>1, <1>5, FinishStep DEF Latch
  <2>2. /\ loc[t].formation \in Formations /\ loc[t].formation # None
        /\ loc[t].ref \in Poses /\ loc[t].ref # None /\ loc[t].to \in Phases
    BY <1>1, <1>5, ConstantFacts DEF Latch, LocalsInHand, Locals
  <2>3. (stale /\ loc[t].to # "follow_leader") \in BOOLEAN
    OBVIOUS
  <2> QED  BY <1>1, <1>5, <2>1, <2>2, <2>3
           DEF Latch, IInv, TypeOK, FollowHasReference
<1>6. CASE EndGoto(t)
  <2>1. Threaded
    BY <1>1, <1>6, FinishStep DEF EndGoto
  <2> QED  BY <1>1, <1>6, <2>1 DEF EndGoto, IInv, TypeOK, FollowHasReference
<1>7. CASE Tick(t)
  BY <1>7, TickIInv
<1> QED  BY <1>2, <1>3, <1>4, <1>5, <1>6, <1>7 DEF Resume

LEMMA CallIInv ==
  ASSUME IInv, NEW t \in Threads, Call(t)
  PROVE  IInv'
<1> USE DEF mission, leader
<1>1. /\ TypeOK /\ FollowHasReference /\ LocalsInHand
      /\ loc \in [Threads -> Locals] /\ loc[t] \in Locals
      /\ pc \in [Threads -> Steps]
  BY DEF IInv, TypeOK
<1>2. calls' \in 0 .. MaxCalls
  <2>1. calls < MaxCalls /\ calls' = calls + 1
    BY DEF Call, StartTakeoff, StartLand, StartEngage, Disengage, StartGoto,
           Serve
  <2> QED  BY <1>1, <2>1, ConstantFacts DEF TypeOK
<1> DEFINE Threaded == /\ pc' \in [Threads -> Steps]
                       /\ loc' \in [Threads -> Locals] /\ LocalsInHand'
<1>3. CASE StartTakeoff(t)
  <2>1. /\ pc' = [pc EXCEPT ![t] = "takeoff"]
        /\ loc' = [loc EXCEPT ![t] = loc[t]]
    BY <1>1, <1>3 DEF StartTakeoff, Go
  <2>2. Threaded
    BY <1>1, <2>1, ThreadStep DEF Steps
  <2> QED  BY <1>1, <1>2, <1>3, <2>2
           DEF StartTakeoff, SetPhaseAndClear, Phases, IInv, TypeOK,
               FollowHasReference
<1>4. CASE StartLand(t)
  <2>1. /\ pc' = [pc EXCEPT ![t] = "land"]
        /\ loc' = [loc EXCEPT ![t] = loc[t]]
    BY <1>1, <1>4 DEF StartLand, Go
  <2>2. Threaded
    BY <1>1, <2>1, ThreadStep DEF Steps
  <2> QED  BY <1>1, <1>2, <1>4, <2>2
           DEF StartLand, SetPhaseAndClear, Phases, IInv, TypeOK,
               FollowHasReference
<1>5. CASE StartEngage(t)
  <2>1. PICK f \in Formations, p \in HoldPhases :
          loc' = [loc EXCEPT ![t].formation = f, ![t].to = p]
    BY <1>5 DEF StartEngage
  <2> DEFINE l == [loc[t] EXCEPT !.formation = f, !.to = p]
  <2>2. l \in Locals /\ l.formation # None /\ l.to \in HoldPhases
    BY <1>1, ConstantFacts DEF Locals
  <2>3. loc' = [loc EXCEPT ![t] = l] /\ pc' = [pc EXCEPT ![t] = "engage"]
    BY <1>1, <1>5, <2>1 DEF StartEngage, Go
  <2>4. Threaded
    BY <2>2, <2>3, ThreadStep DEF Steps
  <2> QED  BY <1>1, <1>2, <1>5, <2>4
           DEF StartEngage, IInv, TypeOK, FollowHasReference
<1>6. CASE Disengage(t)
  <2>1. Threaded
    BY <1>1, <1>6 DEF Disengage, LocalsInHand
  <2>2. phase' \in Phases /\ phase' # "follow_leader"
    BY <1>1, <1>6 DEF Disengage, TypeOK, Phases
  <2> QED  BY <1>1, <1>2, <1>6, <2>1, <2>2
           DEF Disengage, IInv, TypeOK, FollowHasReference
<1>7. CASE StartGoto(t)
  <2>1. PICK d \in Drones : /\ manual' = manual \cup {d}
                            /\ loc' = [loc EXCEPT ![t].drone = d]
    BY <1>7 DEF StartGoto
  <2> DEFINE l == [loc[t] EXCEPT !.drone = d]
  <2>2. l \in Locals /\ manual' \in SUBSET Drones
    BY <1>1, <2>1 DEF Locals, TypeOK
  <2>3. loc' = [loc EXCEPT ![t] = l] /\ pc' = [pc EXCEPT ![t] = "goto"]
    BY <1>1, <1>7, <2>1 DEF StartGoto, Go
  <2>4. Threaded
    BY <2>2, <2>3, ThreadStep DEF Steps
  <2> QED  BY <1>1, <1>2, <1>7, <2>2, <2>4
           DEF StartGoto, IInv, TypeOK, FollowHasReference
<1> QED  BY <1>3, <1>4, <1>5, <1>6, <1>7 DEF Call

LEMMA NextIInv == IInv /\ [Next]_vars => IInv'
<1> SUFFICES ASSUME IInv, [Next]_vars PROVE IInv'
  OBVIOUS
<1>1. ASSUME NEW t \in Threads, StartTick(t) PROVE IInv'
  <2>1. /\ TypeOK /\ FollowHasReference /\ LocalsInHand
        /\ loc \in [Threads -> Locals] /\ loc[t] \in Locals
    BY DEF IInv, TypeOK
  <2> DEFINE l == [loc[t] EXCEPT !.formation = formation, !.manual = manual]
             s == IF phase = "follow_leader" THEN "tick_live" ELSE "tick_hold"
  <2>2. l \in Locals /\ s \in Steps
    BY <2>1 DEF TypeOK, Locals, Steps
  <2>3. loc' = [loc EXCEPT ![t] = l] /\ pc' = [pc EXCEPT ![t] = s]
    BY <1>1, <2>1 DEF StartTick, Go
  <2>4. /\ pc' \in [Threads -> Steps] /\ loc' \in [Threads -> Locals]
        /\ LocalsInHand'
    BY <2>2, <2>3, ThreadStep
  <2> QED  BY <1>1, <2>1, <2>4
           DEF StartTick, mission, leader, IInv, TypeOK, FollowHasReference
<1>2. CASE PoseArrives
  <2>1. pose \in Poses \cup {None} /\ lost \in BOOLEAN
    BY DEF IInv, TypeOK
  <2>2. pose' \in Poses
    BY <1>2, <2>1, ConstantFacts DEF PoseArrives, Poses
  <2>3. lost' \in BOOLEAN
    BY <1>2, <2>1, Zenon DEF PoseArrives
  <2> QED  BY <1>2, <2>2, <2>3
           DEF PoseArrives, mission, IInv, TypeOK, FollowHasReference,
               LocalsInHand
<1>3. ASSUME NEW b \in BOOLEAN, SetLost(b) PROVE IInv'
  BY <1>3 DEF SetLost, mission, IInv, TypeOK, FollowHasReference, LocalsInHand
<1>4. CASE UNCHANGED vars
  BY <1>4 DEF vars, IInv, TypeOK, FollowHasReference, LocalsInHand
<1> QED  BY <1>1, <1>2, <1>3, <1>4, CallIInv, ResumeIInv DEF Next

\* Any number of drones, threads, poses and calls: the mission state, the
\* threads and their locals keep their types.
THEOREM TypeCorrect == Spec => []TypeOK
<1>1. IInv => TypeOK
  BY DEF IInv
<1> QED  BY <1>1, InitIInv, NextIInv, PTL DEF Spec

\* A swarm in follow_leader has a formation and a last good reference.
THEOREM FollowHasReferenceAlways == Spec => []FollowHasReference
<1>1. IInv => FollowHasReference
  BY DEF IInv
<1> QED  BY <1>1, InitIInv, NextIInv, PTL DEF Spec

\* While the alarm stands the followers' reference does not move: only Latch
\* and TickTrack set a reference, and the first, into follow_leader, and the
\* second end the alarm in the same critical section.
THEOREM StaleFreezesReferenceAlways == Spec => StaleFreezesReference
<1>1. ASSUME [Next]_vars, Emergency, Emergency' PROVE ref' = ref
  <2> USE DEF mission, leader
  <2>1. ASSUME NEW t \in Threads, Call(t) PROVE ref' = ref
    <3>1. ~StartTakeoff(t) /\ ~StartLand(t) /\ ~Disengage(t)
      BY <1>1 DEF StartTakeoff, StartLand, Disengage, SetPhaseAndClear,
                  Emergency
    <3> QED  BY <2>1, <3>1 DEF Call, StartEngage, StartGoto
  <2>2. ASSUME NEW t \in Threads, StartTick(t) PROVE ref' = ref
    BY <2>2 DEF StartTick
  <2>3. ASSUME NEW t \in Threads, Resume(t) PROVE ref' = ref
    <3>1. ~Latch(t) /\ ~TickTrack(t)
      BY <1>1 DEF Latch, TickTrack, Emergency
    <3> QED  BY <2>3, <3>1
             DEF Resume, Tick, EndTakeoff, EndLand, SetPhase, ReadReference,
                 EndGoto, TickHold, TickLive, TickAge, TickFreeze, TickSend
  <2>4. CASE PoseArrives
    BY <2>4 DEF PoseArrives
  <2>5. ASSUME NEW b \in BOOLEAN, SetLost(b) PROVE ref' = ref
    BY <2>5 DEF SetLost
  <2>6. CASE UNCHANGED vars
    BY <2>6 DEF vars
  <2> QED  BY <1>1, <2>1, <2>2, <2>3, <2>4, <2>5, <2>6 DEF Next
<1>2. [Next]_vars => [Emergency /\ Emergency' => ref' = ref]_vars
  BY <1>1
<1> QED  BY <1>2, PTL DEF Spec, StaleFreezesReference
=============================================================================
