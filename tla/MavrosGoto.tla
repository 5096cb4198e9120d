----------------------------- MODULE MavrosGoto -----------------------------
(***************************************************************************)
(* The motion of one drone: who streams setpoints to it.  manual_goto      *)
(* calls run MavrosAdapter.go_to on executor threads, all on one flag,     *)
(* _goto_active; the formation timer streams to the drone's slot on other  *)
(* threads.  Calls overlap: leader_keyboard makes one per key, and waits   *)
(* for none.                                                               *)
(*                                                                         *)
(* A point stands for all positions within tolerance of it.  Where the     *)
(* vehicle flies is not modelled: any pose may be heard at any time.       *)
(* A definition headed `mutant' is no part of the specification.           *)
(***************************************************************************)
EXTENDS Integers

CONSTANTS
    Threads,   \* the threads of the executor
    Points,    \* targets of manual_goto
    Slot,      \* the drone's place in the formation
    None,      \* Python's None
    MaxGotos   \* bound: manual_goto calls served

ASSUME GotoAssumption ==
    /\ MaxGotos \in Nat
    /\ Slot \notin Points /\ None \notin Points /\ Slot # None

VARIABLES
    holding,      \* the server is in formation_hold with a formation
    detached,     \* the drone is in _manual
    active,       \* _goto_active
    seen,         \* the last pose heard, None if none or at no point
    setpoint,     \* the last setpoint published, None if none
    pc, target,   \* each thread: its step, and what its go_to flies to
    gotos         \* manual_goto calls served so far

vars == <<holding, detached, active, seen, setpoint, pc, target, gotos>>
server == <<holding, detached>>

Loop == {"check", "publish", "measure", "arrive"}
Steps == {"idle", "cancel", "begin", "send"} \cup Loop

Init ==
    /\ holding = FALSE /\ detached = FALSE /\ active = FALSE
    /\ seen = None /\ setpoint = None
    /\ pc = [t \in Threads |-> "idle"] /\ target = [t \in Threads |-> None]
    /\ gotos = 0

Go(t, step) == pc' = [pc EXCEPT ![t] = step]
Finish(t) == /\ Go(t, "idle") /\ target' = [target EXCEPT ![t] = None]

----------------------------------------------------------------------------
(* The manual_goto handler, and go_to *)

ManualGoto(t) ==
    /\ pc[t] = "idle" /\ gotos < MaxGotos /\ gotos' = gotos + 1
    /\ detached' = TRUE /\ Go(t, "cancel")
    /\ \E p \in Points : target' = [target EXCEPT ![t] = p]
    /\ UNCHANGED <<holding, active, seen, setpoint>>

CancelMotion(t) ==
    /\ pc[t] = "cancel" /\ active' = FALSE /\ Go(t, "begin")
    /\ UNCHANGED <<server, seen, setpoint, target, gotos>>

Begin(t) ==
    /\ pc[t] = "begin" /\ active' = TRUE /\ Go(t, "check")
    /\ UNCHANGED <<server, seen, setpoint, target, gotos>>

\* The loop's head, before the deadline: cancelled, or another round.
Check(t) ==
    /\ pc[t] = "check"
    /\ IF active THEN Go(t, "publish") /\ UNCHANGED target
                 ELSE Finish(t)
    /\ UNCHANGED <<server, active, seen, setpoint, gotos>>

\* mutant: no deadline
ExpireNever(t) == pc[t] = "check" /\ ~active /\ Finish(t)
                  /\ UNCHANGED <<server, active, seen, setpoint, gotos>>

\* mutant: the flag is not lowered
ExpireLeavingFlag(t) ==
    /\ pc[t] = "check" /\ Finish(t)
    /\ UNCHANGED <<server, active, seen, setpoint, gotos>>

\* The loop's head, after the deadline.
Expire(t) ==
    /\ pc[t] = "check" /\ active' = FALSE /\ Finish(t)
    /\ UNCHANGED <<server, seen, setpoint, gotos>>

Publish(t) ==
    /\ pc[t] = "publish" /\ setpoint' = target[t] /\ Go(t, "measure")
    /\ UNCHANGED <<server, active, seen, target, gotos>>

Measure(t) ==
    /\ pc[t] = "measure"
    /\ Go(t, IF seen = target[t] THEN "arrive" ELSE "check")
    /\ UNCHANGED <<server, active, seen, setpoint, target, gotos>>

\* Lowering the flag cancels every other go_to of the drone, a later one too.
Arrive(t) ==
    /\ pc[t] = "arrive" /\ active' = FALSE /\ Finish(t)
    /\ UNCHANGED <<server, seen, setpoint, gotos>>

----------------------------------------------------------------------------
(* The formation timer, seen from this drone *)

StartTick(t) ==
    /\ pc[t] = "idle" /\ holding /\ ~detached /\ Go(t, "send")
    /\ UNCHANGED <<server, active, seen, setpoint, target, gotos>>

HoldReference(t) ==
    /\ pc[t] = "send" /\ setpoint' = Slot /\ Go(t, "idle")
    /\ UNCHANGED <<server, active, seen, target, gotos>>

----------------------------------------------------------------------------
(* What other handlers do to this drone.  None of them cancels its go_to.  *)

Engage == /\ holding' = TRUE /\ detached' = FALSE
          /\ UNCHANGED <<active, seen, setpoint, pc, target, gotos>>

\* mutant: the manual set is dropped where it should be emptied
DisbandDroppingSet ==
    /\ holding' = FALSE /\ detached' \in {None, detached}
    /\ UNCHANGED <<active, seen, setpoint, pc, target, gotos>>

\* Takeoff and landing clear the manual set, disengaging does not.
Disband == /\ holding' = FALSE /\ detached' \in {FALSE, detached}
           /\ UNCHANGED <<active, seen, setpoint, pc, target, gotos>>

PoseArrives == /\ seen' \in Points \cup {Slot, None}
               /\ UNCHANGED <<server, active, setpoint, pc, target, gotos>>

----------------------------------------------------------------------------

Resume(t) == \/ CancelMotion(t) \/ Begin(t) \/ Check(t) \/ Expire(t)
             \/ Publish(t) \/ Measure(t) \/ Arrive(t) \/ HoldReference(t)

Next == \/ \E t \in Threads : ManualGoto(t) \/ StartTick(t) \/ Resume(t)
        \/ Engage \/ Disband \/ PoseArrives

(***************************************************************************)
(* Started callbacks go on.  The deadline of a go_to passes some time, and *)
(* the loop then sees it at its head: Expire may not be put off for ever   *)
(* by rounds of the loop, hence strong fairness.  The timer fires whenever *)
(* a thread is free.                                                       *)
(***************************************************************************)
Fairness == /\ \A t \in Threads : WF_vars(Resume(t)) /\ SF_vars(Expire(t))
            /\ WF_vars(\E t \in Threads : StartTick(t))
Spec == Init /\ [][Next]_vars /\ Fairness

----------------------------------------------------------------------------
(* Properties *)

TypeOK ==
    /\ holding \in BOOLEAN /\ detached \in BOOLEAN /\ active \in BOOLEAN
    /\ seen \in Points \cup {Slot, None}
    /\ setpoint \in Points \cup {Slot, None}
    /\ pc \in [Threads -> Steps] /\ target \in [Threads -> Points \cup {None}]
    /\ gotos \in 0 .. MaxGotos

\* A raised flag has a go_to to lower it: however calls overlap, cancel and
\* end one another, the flag is down when none is under way.
FlagHasOwner == active => \E t \in Threads : pc[t] \in Loop

\* A drone taken back into a formation is flown to its slot in the end,
\* although engaging cancels no go_to: the last one runs out, and the timer
\* goes on.
FormationWins == <>[](holding /\ ~detached) => <>[](setpoint = Slot)

\* Every manual_goto call returns, though overlapping calls share one flag
\* and the drone may never arrive.
GotoReturns ==
    \A t \in Threads : pc[t] = "cancel" ~> pc[t] = "idle"
=============================================================================
