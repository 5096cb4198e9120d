---------------------------- MODULE SwarmServer ----------------------------
(***************************************************************************)
(* The mission state of swarm_server_node.SwarmServer: phase, latched      *)
(* formation and reference, the drones detached from the formation, and    *)
(* the leader-pose watchdog.  Every service handler and every timer is in  *)
(* one reentrant callback group under a multi-threaded executor, so any    *)
(* idle thread may start any callback, the same one twice included.  The   *)
(* lock is held for one critical section at a time: each action below is   *)
(* one critical section, or one unlocked read, of a callback.              *)
(*                                                                         *)
(* Positions are abstracted to the number of the leader pose they were     *)
(* taken from; a heading travels with its reference.  What an adapter call *)
(* does to its vehicle is left to MavrosGoto and RadioCommand: here a      *)
(* blocking call ends when it likes, with either result.                   *)
(*                                                                         *)
(* A definition headed `mutant' is no part of the specification: it is a   *)
(* wrong version of the definition after it, which a property must refute. *)
(***************************************************************************)
EXTENDS Integers

CONSTANTS
    N,           \* drones, numbered from 0; drone 0 is the leader
    Threads,     \* the threads of the executor
    Formations,  \* the layouts build_formation accepts
    None,        \* Python's None
    MaxPose,     \* bound: leader poses received
    MaxCalls     \* bound: service calls served

ASSUME ServerAssumption ==
    /\ N \in Nat \ {0}
    /\ MaxPose \in Nat
    /\ MaxCalls \in Nat
    /\ None \notin Formations
    /\ None \notin 0 .. MaxPose

VARIABLES
    phase, formation, ref, stale, manual,   \* SwarmServer, under its lock
    pose, lost,   \* drone_0's adapter: last pose, and whether it is too old
    pc, loc,      \* each thread: where it is, and its local variables
    calls         \* service calls served so far

vars == <<phase, formation, ref, stale, manual, pose, lost, pc, loc, calls>>
mission == <<phase, formation, ref, stale, manual>>
leader == <<pose, lost>>

Drones == 0 .. N - 1
Poses == 0 .. MaxPose
Phases == {"idle", "taking_off", "airborne", "landing", "landed",
           "formation_hold", "follow_leader"}
HoldPhases == {"formation_hold", "follow_leader"}
Steps == {"idle", "takeoff", "land", "engage", "latch", "goto",
          "tick_hold", "tick_live", "tick_age", "tick_track", "tick_freeze",
          "tick_send"}

\* A thread's locals.  `to` is the phase an engagement latches; `drone` is
\* the vehicle a goto flies or the slot a tick commands next.
Locals == [formation : Formations \cup {None}, ref : Poses \cup {None},
           manual : SUBSET Drones, drone : Drones, to : Phases]
NoLocals == [formation |-> None, ref |-> None, manual |-> {}, drone |-> 0,
             to |-> "idle"]

Init ==
    /\ phase = "idle" /\ formation = None /\ ref = None
    /\ stale = FALSE /\ manual = {}
    /\ pose = None /\ lost = FALSE
    /\ pc = [t \in Threads |-> "idle"]
    /\ loc = [t \in Threads |-> NoLocals]
    /\ calls = 0

Go(t, step) == pc' = [pc EXCEPT ![t] = step]
Finish(t) == Go(t, "idle") /\ loc' = [loc EXCEPT ![t] = NoLocals]
Serve(t) == pc[t] = "idle" /\ calls < MaxCalls /\ calls' = calls + 1

----------------------------------------------------------------------------
(* Coordinated takeoff and landing *)

\* _set_phase with both clear flags
SetPhaseAndClear(p) ==
    /\ phase' = p
    /\ manual' = {} /\ formation' = None /\ ref' = None /\ stale' = FALSE

\* _set_phase with neither
SetPhase(p) == phase' = p /\ UNCHANGED <<formation, ref, stale, manual>>

StartTakeoff(t) ==
    /\ Serve(t) /\ SetPhaseAndClear("taking_off")
    /\ Go(t, "takeoff") /\ UNCHANGED <<leader, loc>>

\* The phase a finished fleet operation leaves says nothing about the phase
\* it finds: the handler overwrites it.
EndTakeoff(t) ==
    /\ pc[t] = "takeoff" /\ \E ok \in BOOLEAN :
         SetPhase(IF ok THEN "airborne" ELSE "idle")
    /\ Finish(t) /\ UNCHANGED <<leader, calls>>

StartLand(t) ==
    /\ Serve(t) /\ SetPhaseAndClear("landing")
    /\ Go(t, "land") /\ UNCHANGED <<leader, loc>>

EndLand(t) ==
    /\ pc[t] = "land" /\ \E ok \in BOOLEAN :
         SetPhase(IF ok THEN "landed" ELSE "airborne")
    /\ Finish(t) /\ UNCHANGED <<leader, calls>>

----------------------------------------------------------------------------
(* Engaging and releasing a formation *)

\* The head of engage_formation and of follow_leader(enable): a request that
\* build_formation rejects changes nothing.
StartEngage(t) ==
    /\ Serve(t) /\ Go(t, "engage")
    /\ \E f \in Formations, p \in HoldPhases :
         loc' = [loc EXCEPT ![t].formation = f, ![t].to = p]
    /\ UNCHANGED <<mission, leader>>

\* mutant: no check for a missing pose
ReadReferenceUnchecked(t) ==
    /\ pc[t] = "engage"
    /\ loc' = [loc EXCEPT ![t].ref = pose] /\ Go(t, "latch")
    /\ UNCHANGED <<mission, leader, calls>>

\* _field_position(0), read outside the lock; with no pose the call fails
ReadReference(t) ==
    /\ pc[t] = "engage"
    /\ IF pose = None
       THEN Finish(t)
       ELSE loc' = [loc EXCEPT ![t].ref = pose] /\ Go(t, "latch")
    /\ UNCHANGED <<mission, leader, calls>>

\* Only the follow_leader handler resets the watchdog.
Latch(t) ==
    /\ pc[t] = "latch"
    /\ formation' = loc[t].formation /\ ref' = loc[t].ref
    /\ phase' = loc[t].to /\ manual' = {}
    /\ stale' = (stale /\ loc[t].to # "follow_leader")
    /\ Finish(t) /\ UNCHANGED <<leader, calls>>

\* follow_leader(enable=false): the formation goes in every phase, the phase
\* changes only if it was follow_leader.
Disengage(t) ==
    /\ Serve(t)
    /\ phase' = IF phase = "follow_leader" THEN "airborne" ELSE phase
    /\ formation' = None /\ ref' = None /\ stale' = FALSE
    /\ UNCHANGED <<manual, leader, pc, loc>>

----------------------------------------------------------------------------
(* Manual control of one drone *)

StartGoto(t) ==
    /\ Serve(t) /\ Go(t, "goto")
    /\ \E d \in Drones : /\ manual' = manual \cup {d}
                         /\ loc' = [loc EXCEPT ![t].drone = d]
    /\ UNCHANGED <<phase, formation, ref, stale, leader>>

\* go_to returned: arrived, cancelled or timed out.  The drone stays detached.
EndGoto(t) ==
    /\ pc[t] = "goto" /\ Finish(t) /\ UNCHANGED <<mission, leader, calls>>

----------------------------------------------------------------------------
(* The formation timer *)

\* mutant: detached drones are not left out
StartTickIgnoringManual(t) ==
    /\ pc[t] = "idle" /\ phase \in HoldPhases /\ formation # None
    /\ Go(t, IF phase = "follow_leader" THEN "tick_live" ELSE "tick_hold")
    /\ loc' = [loc EXCEPT ![t].formation = formation]
    /\ UNCHANGED <<mission, leader, calls>>

\* The snapshot at the head of _formation_tick.  The rest of the tick works
\* on it, whatever has happened since.
StartTick(t) ==
    /\ pc[t] = "idle" /\ phase \in HoldPhases /\ formation # None
    /\ Go(t, IF phase = "follow_leader" THEN "tick_live" ELSE "tick_hold")
    /\ loc' = [loc EXCEPT ![t].formation = formation, ![t].manual = manual]
    /\ UNCHANGED <<mission, leader, calls>>

\* Go on to command the slots from `first`, unless there is no reference.
Place(t, r, first) ==
    IF r = None \/ first = N
    THEN Finish(t)
    ELSE /\ Go(t, "tick_send")
         /\ loc' = [loc EXCEPT ![t].ref = r, ![t].drone = first]

TickHold(t) ==
    /\ pc[t] = "tick_hold" /\ Place(t, ref, 0)
    /\ UNCHANGED <<mission, leader, calls>>

\* _follow_leader_reference: the live position, then its age, both unlocked.
\* The dropout parameter, read just before them, is read with the age here.
TickLive(t) ==
    /\ pc[t] = "tick_live" /\ loc' = [loc EXCEPT ![t].ref = pose]
    /\ Go(t, "tick_age") /\ UNCHANGED <<mission, leader, calls>>

TickAge(t) ==
    /\ pc[t] = "tick_age"
    /\ Go(t, IF loc[t].ref = None \/ lost THEN "tick_freeze"
                                            ELSE "tick_track")
    /\ UNCHANGED <<mission, leader, loc, calls>>

\* mutant: the alarm is not cleared
TickTrackStaysStale(t) ==
    /\ pc[t] = "tick_track" /\ ref' = loc[t].ref
    /\ Place(t, loc[t].ref, 1)
    /\ UNCHANGED <<stale, phase, formation, manual, leader, calls>>

\* The phase is not looked at again before the reference is overwritten.
TickTrack(t) ==
    /\ pc[t] = "tick_track" /\ ref' = loc[t].ref /\ stale' = FALSE
    /\ Place(t, loc[t].ref, 1)
    /\ UNCHANGED <<phase, formation, manual, leader, calls>>

\* mutant: the alarm is not raised
TickFreezeSilently(t) ==
    /\ pc[t] = "tick_freeze" /\ Place(t, ref, 1)
    /\ UNCHANGED <<mission, leader, calls>>

TickFreeze(t) ==
    /\ pc[t] = "tick_freeze" /\ stale' = TRUE /\ Place(t, ref, 1)
    /\ UNCHANGED <<phase, formation, ref, manual, leader, calls>>

\* mutant: one slot too many
TickSendPastTheEnd(t) ==
    /\ pc[t] = "tick_send"
    /\ IF loc[t].drone = N
       THEN Finish(t)
       ELSE loc' = [loc EXCEPT ![t].drone = @ + 1] /\ UNCHANGED pc
    /\ UNCHANGED <<mission, leader, calls>>

\* hold_reference for one slot; a detached drone is passed over
TickSend(t) ==
    /\ pc[t] = "tick_send"
    /\ IF loc[t].drone = N - 1
       THEN Finish(t)
       ELSE loc' = [loc EXCEPT ![t].drone = @ + 1] /\ UNCHANGED pc
    /\ UNCHANGED <<mission, leader, calls>>

\* Drone d is being sent a formation setpoint by thread t.
Commands(t, d) ==
    pc[t] = "tick_send" /\ loc[t].drone = d /\ d \notin loc[t].manual

\* SwarmStatus.emergency as _publish_status computes it
Emergency == phase = "follow_leader" /\ stale

----------------------------------------------------------------------------
(* The leader's pose topic, and simulate_leader_dropout *)

PoseArrives ==
    /\ pose # MaxPose
    /\ pose' = IF pose = None THEN 0 ELSE pose + 1
    /\ lost' \in {FALSE, lost}   \* TRUE stays: the dropout is simulated
    /\ UNCHANGED <<mission, pc, loc, calls>>

SetLost(l) ==
    /\ lost # l /\ lost' = l /\ UNCHANGED <<mission, pose, pc, loc, calls>>

----------------------------------------------------------------------------

Tick(t) == \/ TickHold(t) \/ TickLive(t) \/ TickAge(t) \/ TickTrack(t)
           \/ TickFreeze(t) \/ TickSend(t)
Resume(t) == \/ EndTakeoff(t) \/ EndLand(t) \/ ReadReference(t) \/ Latch(t)
             \/ EndGoto(t) \/ Tick(t)
Call(t) == \/ StartTakeoff(t) \/ StartLand(t) \/ StartEngage(t)
           \/ Disengage(t) \/ StartGoto(t)

Next == \/ \E t \in Threads : Call(t) \/ StartTick(t) \/ Resume(t)
        \/ PoseArrives \/ \E l \in BOOLEAN : SetLost(l)

(***************************************************************************)
(* A started callback is run to its end (every adapter call has a          *)
(* deadline), and the timer fires at formation_rate_hz whenever a thread   *)
(* is free.  Nothing is assumed of clients or of the leader's poses.       *)
(***************************************************************************)
Fairness == /\ \A t \in Threads : WF_vars(Resume(t))
            /\ WF_vars(\E t \in Threads : StartTick(t))
Spec == Init /\ [][Next]_vars /\ Fairness
----------------------------------------------------------------------------
(* Properties *)

TypeOK ==
    /\ phase \in Phases /\ formation \in Formations \cup {None}
    /\ ref \in Poses \cup {None} /\ stale \in BOOLEAN
    /\ manual \in SUBSET Drones
    /\ pose \in Poses \cup {None} /\ lost \in BOOLEAN
    /\ pc \in [Threads -> Steps] /\ loc \in [Threads -> Locals]
    /\ calls \in 0 .. MaxCalls

\* While the swarm follows the leader there is a formation to place and a
\* last good reference to fall back on, whatever takeoffs, landings,
\* releases and late ticks are interleaved: the watchdog branch of
\* _follow_leader_reference never finds nothing to freeze on.
FollowHasReference ==
    phase = "follow_leader" => formation # None /\ ref # None

\* While the alarm stands the followers' reference does not move.  With two
\* ticks in flight, one that found the leader fresh and one that did not, no
\* step moves the reference and leaves the alarm up.
StaleFreezesReference ==
    [][Emergency /\ Emergency' => ref' = ref]_vars

LeaderLost == lost \/ pose = None

\* A leader lost for good while the swarm follows it is reported for good,
\* though late ticks that saw it alive may still clear the alarm once each.
AlarmIsRaised ==
    <>[](phase = "follow_leader" /\ LeaderLost) => <>[]Emergency

\* A leader whose pose stays fresh is followed to its last pose, and the
\* alarm is off: no late tick leaves an older reference behind for good.
FollowersTrack ==
    <>[](phase = "follow_leader" /\ ~LeaderLost)
        => <>[](ref = pose /\ ~stale)

\* A drone detached by manual_goto and not re-engaged is released from the
\* formation: ticks that began before may still command it, no later one.
DetachedIsReleased ==
    \A d \in Drones :
        <>[](d \in manual) => <>[](\A t \in Threads : ~Commands(t, d))

(* Refuted: what the code's comments say, and a run of the code does not *)

\* "holds the formation on a static centroid captured at engage time" (module
\* docstring): a static hold's reference changes only by a new engagement.
StaticReferenceIsStatic ==
    [][ /\ phase = "formation_hold" /\ phase' = "formation_hold"
        /\ formation' # None /\ ref' # ref
        => \E t \in Threads : pc[t] = "latch" /\ pc'[t] = "idle" ]_vars
=============================================================================
