----------------------------- MODULE FieldFrame -----------------------------
(***************************************************************************)
(* The field frame of swarm_server and the path of poses and setpoints.    *)
(* Each drone's EKF measures from where the drone was switched on.  The    *)
(* server adds an offset per drone to bring poses into one field frame,    *)
(* and takes it off again to send setpoints.  Offsets are configured, and  *)
(* replaced at every engagement by what the GPS fixes say.                 *)
(*                                                                         *)
(* On a swarm linked by radio the leader's radio_bridge republishes the    *)
(* poses its followers send, with placeholder fixes: DroneState has none.  *)
(*                                                                         *)
(* SwarmServer has the finer steps of a tick and of the handlers; here a   *)
(* tick takes its reference in one step, then sends one setpoint a step,   *)
(* reading the offsets anew for each as the code does.                     *)
(* A definition headed `mutant' is no part of the specification.           *)
(***************************************************************************)
EXTENDS Formation

CONSTANTS
    N,            \* drone_count
    Spacing,
    Names,        \* formations asked for
    Turns,        \* headings asked for
    LockHeading,  \* formation_lock_heading
    Home,         \* where each drone was switched on
    Deployments,  \* records [link : "wifi" or "radio", offsets : field_offsets]
    Flights,      \* where, and with what heading, the operator takes the leader
    Nowhere,      \* where latitude 0, longitude 0 lies, from here
    MaxCalls,     \* bound: engagements asked for
    None

Drones == 0 .. N - 1

ASSUME FieldAssumption ==
    /\ N \in Nat \ {0} /\ Spacing \in Nat \ {0} /\ LockHeading \in BOOLEAN
    /\ \A name \in Names : Builds(name, N, Spacing)
    /\ Turns \subseteq Headings /\ Home \in [Drones -> Points]
    /\ Deployments \subseteq [link : {"wifi", "radio"}, offsets : [Drones -> Points]]
    /\ Flights \subseteq Points \X Headings
    /\ Nowhere \in Points /\ MaxCalls \in Nat /\ None \notin Points \cup Names

VARIABLES
    link,     \* the deployment's, for good
    pos, yaw, \* where the drones are; the leader's heading
    order,    \* each flight controller's setpoint, None before the first
    cached,   \* _pose of each follower's radio_bridge
    pose,     \* the last pose each adapter has heard
    fixed,    \* whether every adapter has heard a fix
    offsets,                      \* SwarmServer._offsets
    phase, name, ref, heading,    \* the mission state
    leaderHeading,                \* SwarmServer._leader_heading
    call,     \* the engagement being served
    tick,     \* the formation tick under way
    astray,   \* drones with an error on /swarm/formation_error
    calls

vars == <<link, pos, yaw, order, cached, pose, fixed, offsets, phase, name, ref,
          heading, leaderHeading, call, tick, astray, calls>>
world == <<link, pos, yaw, order>>
heard == <<cached, pose, fixed>>
mission == <<phase, name, ref, heading, leaderHeading>>
serving == <<call, calls>>

Poses == [at : Points, yaw : Headings]
Idle == [step |-> "idle", phase |-> "off", name |-> None, heading |-> 0]
NoTick == [next |-> N + 1, name |-> None, ref |-> None, heading |-> 0,
           told |-> [i \in Drones |-> None], agreed |-> TRUE]

Init ==
    /\ \E d \in Deployments : link = d.link /\ offsets = d.offsets
    /\ pos = Home /\ yaw = 0
    /\ order = [i \in Drones |-> None] /\ cached = [i \in Drones |-> None]
    /\ pose = [i \in Drones |-> None] /\ fixed = FALSE
    /\ phase = "off" /\ name = None /\ ref = None
    /\ heading = 0 /\ leaderHeading = 0
    /\ call = Idle /\ tick = NoTick
    /\ astray = {} /\ calls = 0

----------------------------------------------------------------------------
(* Drones and links *)

\* The operator takes the leader somewhere; setpoints no longer hold it.
Operate(p, h) ==
    /\ phase # "hold" /\ <<p, h>> # <<pos[0], yaw>>
    /\ pos' = [pos EXCEPT ![0] = p] /\ yaw' = h
    /\ order' = [order EXCEPT ![0] = None]
    /\ UNCHANGED <<link, heard, offsets, mission, serving, tick, astray>>

\* A setpoint is a place in the drone's own frame.
Fly(i) ==
    /\ order[i] # None /\ pos[i] # Plus(Home[i], order[i])
    /\ pos' = [pos EXCEPT ![i] = Plus(Home[i], order[i])]
    /\ UNCHANGED <<link, yaw, order, heard, offsets, mission, serving, tick, astray>>

Remote(i) == link = "radio" /\ i # 0
Measured(i) == [at |-> Minus(pos[i], Home[i]), yaw |-> IF i = 0 THEN yaw ELSE 0]

\* _on_local_pose of the follower's bridge
Cache(i) ==
    /\ Remote(i) /\ cached[i] # Measured(i)
    /\ cached' = [cached EXCEPT ![i] = Measured(i)]
    /\ UNCHANGED <<world, pose, fixed, offsets, mission, serving, tick, astray>>

\* _publish_drone_state sends the cached pose, however old.
Told(i) == IF Remote(i) THEN cached[i] ELSE Measured(i)

\* The leader's bridge publishes what it is told, and the adapter keeps the last.
HearPose(i) ==
    /\ Told(i) \notin {None, pose[i]} /\ pose' = [pose EXCEPT ![i] = Told(i)]
    /\ UNCHANGED <<world, cached, fixed, offsets, mission, serving, tick, astray>>

\* The last fix comes.  A fix is taken to be no older than a period.
HearFixes ==
    /\ ~fixed /\ fixed' = TRUE /\ \A i \in Drones : Remote(i) => cached[i] # None
    /\ UNCHANGED <<world, cached, pose, offsets, mission, serving, tick, astray>>

----------------------------------------------------------------------------
(* _on_engage_formation and _on_follow_leader *)

\* mutant: the offset is forgotten
FieldPositionLocal(i) == pose[i].at

FieldPosition(i) == Plus(pose[i].at, offsets[i])

Call(p, n, h) ==
    /\ call = Idle /\ calls < MaxCalls /\ calls' = calls + 1
    /\ call' = [step |-> "calibrate", phase |-> p, name |-> n, heading |-> h]
    /\ UNCHANGED <<world, heard, offsets, mission, tick, astray>>

\* The fix of the leader's bridge has neither latitude nor longitude.
Fix(i) == IF Remote(i) THEN Nowhere ELSE pos[i]

\* _calibrate_offsets: every drone has a fix, or nothing changes.
Calibrate ==
    /\ call.step = "calibrate" /\ call' = [call EXCEPT !.step = "latch"]
    /\ offsets' = IF fixed
                  THEN [i \in Drones |-> Minus(Fix(i), Fix(0))] ELSE offsets
    /\ UNCHANGED <<world, heard, mission, calls, tick, astray>>

\* No pose of the leader, no formation.
Reject ==
    /\ call.step = "latch" /\ pose[0] = None /\ call' = Idle
    /\ UNCHANGED <<world, heard, offsets, mission, calls, tick, astray>>

Latch(p) ==
    /\ call.step = "latch" /\ call.phase = p /\ pose[0] # None /\ call' = Idle
    /\ phase' = p /\ name' = call.name
    /\ UNCHANGED <<world, heard, offsets, calls, tick, astray>>

\* mutant: the reference is not taken
LatchHoldWithoutReference ==
    Latch("hold") /\ heading' = call.heading /\ UNCHANGED <<ref, leaderHeading>>

LatchHold ==
    /\ Latch("hold") /\ ref' = FieldPosition(0) /\ heading' = call.heading
    /\ UNCHANGED leaderHeading

LatchFollow ==
    /\ Latch("follow") /\ ref' = FieldPosition(0) /\ leaderHeading' = pose[0].yaw
    /\ UNCHANGED heading

----------------------------------------------------------------------------
(* _formation_tick *)

Begin(first, r, h) ==
    tick' = [NoTick EXCEPT !.next = first, !.name = name, !.ref = r, !.heading = h]

TickHold ==
    /\ tick.next > N /\ phase = "hold" /\ Begin(0, ref, heading)
    /\ UNCHANGED <<world, heard, offsets, mission, serving, astray>>

\* _follow_leader_reference with a fresh pose of the leader
TickLive ==
    /\ tick.next > N /\ phase = "follow" /\ pose[0] # None
    /\ ref' = FieldPosition(0)
    /\ leaderHeading' = IF LockHeading THEN leaderHeading ELSE pose[0].yaw
    /\ Begin(1, ref', leaderHeading')
    /\ UNCHANGED <<world, heard, offsets, phase, name, heading, serving,
                   astray>>

\* and with one that is too old
TickStale ==
    /\ tick.next > N /\ phase = "follow" /\ Begin(1, ref, leaderHeading)
    /\ UNCHANGED <<world, heard, offsets, mission, serving, astray>>

\* The offsets tell the truth about where the drones' frames are.
FramesAgree == offsets = [i \in Drones |-> Minus(Home[i], Home[0])]

Target(i) == Place(tick.name, Spacing, i, tick.ref, tick.heading)

\* The topic, or the radio and both bridges, bring a setpoint as it is, or
\* lose it on the way to a follower; the server runs beside the leader.
\* told: where the setpoints of this tick send the drones; agreed: whether the
\* offsets were true for each of them.
Command(i, local) ==
    /\ tick.next = i
    /\ tick' = [tick EXCEPT !.next = i + 1, !.told[i] = Plus(Home[i], local),
                            !.agreed = @ /\ FramesAgree]
    /\ UNCHANGED <<link, pos, yaw, heard, offsets, mission, serving, astray>>

\* mutant: the offset is not taken off
LocalTargetUnshifted(i) == Target(i)

\* The place of slot i in drone i's own frame
LocalTarget(i) == Minus(Target(i), offsets[i])

Send(i) == Command(i, LocalTarget(i)) /\ order' = [order EXCEPT ![i] = LocalTarget(i)]
SendLost(i) == i # 0 /\ Command(i, LocalTarget(i)) /\ UNCHANGED order

\* _publish_formation_error
Report ==
    /\ tick.next = N /\ tick' = NoTick
    /\ astray' = {i \in 1 .. N - 1 :
                    pose[i] # None /\ FieldPosition(i) # Target(i)}
    /\ UNCHANGED <<world, heard, offsets, mission, serving>>

----------------------------------------------------------------------------

Next == \/ \E f \in Flights : Operate(f[1], f[2])
        \/ \E i \in Drones : \/ Fly(i) \/ Cache(i) \/ HearPose(i)
                             \/ Send(i) \/ SendLost(i)
        \/ \E n \in Names : \/ \E h \in Turns : Call("hold", n, h)
                            \/ Call("follow", n, 0)
        \/ HearFixes \/ Calibrate \/ Reject \/ LatchHold \/ LatchFollow
        \/ TickHold \/ TickLive \/ TickStale \/ Report

\* The timer and the drones go on; telemetry and setpoints get through now and
\* then, and now and then a tick finds the leader's pose fresh.  Nothing is
\* assumed of the handlers.
Commands == TickHold \/ Report \/ \E i \in Drones : Send(i) \/ SendLost(i)
Telemetry == \E i \in Drones : Cache(i) \/ HearPose(i)
Fairness ==
    /\ WF_vars(Commands) /\ WF_vars(Telemetry) /\ WF_vars(\E i \in Drones : Fly(i))
    /\ SF_vars(TickLive) /\ \A i \in 1 .. N - 1 : SF_vars(Send(i))
Spec == Init /\ [][Next]_vars /\ Fairness

----------------------------------------------------------------------------
(* Properties *)

TypeOK ==
    /\ link \in {"wifi", "radio"} /\ pos \in [Drones -> Points] /\ yaw \in Headings
    /\ order \in [Drones -> Points \cup {None}]
    /\ cached \in [Drones -> Poses \cup {None}]
    /\ pose \in [Drones -> Poses \cup {None}]
    /\ fixed \in BOOLEAN
    /\ offsets \in [Drones -> Points]
    /\ phase \in {"off", "hold", "follow"}
    /\ (phase = "off") = (name = None) /\ (phase = "off") = (ref = None)
    /\ name \in Names \cup {None} /\ ref \in Points \cup {None}
    /\ heading \in Headings /\ leaderHeading \in Headings
    /\ call.step \in {"idle", "calibrate", "latch"}
    /\ tick.next \in 0 .. N + 1
    /\ tick.next <= N => tick.name \in Names /\ tick.ref \in Points
    /\ tick.told \in [Drones -> Points \cup {None}] /\ tick.agreed \in BOOLEAN
    /\ astray \subseteq 1 .. N - 1 /\ calls \in 0 .. MaxCalls

\* Every drone is at its place round the leader, whichever way that heads.
InFormation ==
    phase # "off" => \A i \in Drones :
        pos[i] = Place(name, Spacing, i, pos[0],
                       IF phase = "hold" THEN heading
                       ELSE IF LockHeading THEN leaderHeading ELSE yaw)

\* A formation that stays engaged is flown in the end if the offsets are true,
\* configured or calibrated: although poses are old, setpoints are lost, ticks
\* find the leader stale, and offsets change while a tick is sending.
FormationIsFlown ==
    <>[](phase # "off" /\ FramesAgree) => <>[]InFormation

\* The error on /swarm/formation_error goes away in any case: the offsets that
\* mislead the setpoints mislead it the same way.
ErrorVanishes == <>[](phase # "off") => <>[](astray = {})

\* No tick sends two drones to one place.  Not an invariant: at a second
\* engagement the fixes are those of drones spread out in the first formation,
\* the offsets count that spread twice, and two drones can be sent to one place.
SpacingKeepsApart ==
    \A i, j \in Drones : i # j /\ tick.told[i] # None => tick.told[i] # tick.told[j]

\* It does with offsets that are true when the tick sends: however false they
\* were when its reference was taken or are in between, however the leader moves
\* and turns, and whatever is engaged while the tick is sending.
TrueFramesKeepApart == tick.agreed => SpacingKeepsApart
=============================================================================
