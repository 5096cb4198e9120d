------------------------------ MODULE FleetOps ------------------------------
(***************************************************************************)
(* Coordinated takeoff and landing.  /swarm/takeoff and /swarm/land each   *)
(* run one worker thread per drone (_parallel) and wait for all of them;   *)
(* a worker takes its drone through the blocking calls of MavrosAdapter:   *)
(* connect, set GUIDED, arm with retries, take off; or land.  Every stage  *)
(* asks a MAVROS service, waits for the answer, and then for telemetry to  *)
(* confirm it, each with a deadline.                                       *)
(*                                                                         *)
(* Answers and telemetry reach a worker only when the node's executor has  *)
(* a thread for them, and handlers hold its threads: here neither need     *)
(* ever come, and a deadline may pass at any moment.                       *)
(*                                                                         *)
(* set_mode, arming, takeoff and land are four services without an order   *)
(* among them, and behind the radio their frames and polls overlap.  So a  *)
(* request whose caller has given up, or whose bridge has answered "no"    *)
(* for it, is kept without an order either: the vehicle may carry it out   *)
(* whenever it likes, after any later request, or never.  That a "yes" is  *)
(* of the worker's own request is taken here; RadioCommand says when the   *)
(* radio keeps it.                                                         *)
(* A definition headed `mutant' is no part of the specification.           *)
(***************************************************************************)
EXTENDS Naturals

CONSTANTS
    Drones,
    Handlers,  \* threads serving /swarm/takeoff and /swarm/land
    MaxTries,  \* arm attempts that fit in _arm_timeout_s
    MaxOps,    \* bound: operations called
    MaxLeft,   \* bound: requests given up and not carried out, of a kind, for
               \* the next of that kind to be asked
    None

ASSUME FleetAssumption ==
    /\ MaxTries \in Nat \ {0} /\ MaxOps \in Nat /\ MaxLeft \in Nat
    /\ None \notin Handlers \cup {"takeoff", "land", "yes", "no"}
    /\ None \notin [armed : BOOLEAN, guided : BOOLEAN, up : BOOLEAN]

VARIABLES
    phase,   \* SwarmServer._phase
    op,      \* the operation each handler runs, or None
    at,      \* each worker: [stage, step]
    tries,   \* each worker: attempts made in the arm loop it is in
    answer,  \* each worker: the answer to its last request, None if not come
    heard,   \* each adapter: the last telemetry, None before the first
    left,    \* each vehicle: how many requests of each kind were given up and
             \* may still be carried out
    armed, mode, up,   \* each vehicle
    late,    \* history: drones that a request given up by its caller took out
             \* of LAND, since they last went into it
    ops      \* operations called

vars == <<phase, op, at, tries, answer, heard, left, armed, mode, up, late, ops>>
server == <<phase, op, ops>>
vehicle == <<armed, mode, up, late>>

Stages == {"connect", "guided", "arm", "takeoff", "land"}
Asked == Stages \ {"connect"}
Places == (Asked \X {"ask", "await", "confirm"})
          \cup {<<"connect", "confirm">>, <<"end", "ok">>, <<"end", "failed">>}
Reports == [armed : BOOLEAN, guided : BOOLEAN, up : BOOLEAN]

Ok == <<"end", "ok">>
Failed == <<"end", "failed">>

Init ==
    /\ phase = "idle" /\ op = [h \in Handlers |-> None] /\ ops = 0
    /\ at = [h \in Handlers |-> [d \in Drones |-> Ok]]
    /\ tries = [h \in Handlers |-> [d \in Drones |-> 0]]
    /\ answer = [h \in Handlers |-> [d \in Drones |-> None]]
    /\ left = [d \in Drones |-> [s \in Asked |-> 0]] /\ late = {}
    /\ heard = [d \in Drones |-> None]
    /\ armed = [d \in Drones |-> FALSE] /\ up = [d \in Drones |-> FALSE]
    /\ mode = [d \in Drones |-> "OTHER"]

----------------------------------------------------------------------------
(* _on_takeoff, _on_land and _parallel *)

First(kind) == IF kind = "takeoff" THEN <<"connect", "confirm">>
                                   ELSE <<"land", "ask">>

Start(h, kind) ==
    /\ op[h] = None /\ ops < MaxOps /\ ops' = ops + 1
    /\ phase' = IF kind = "takeoff" THEN "taking_off" ELSE "landing"
    /\ op' = [op EXCEPT ![h] = kind]
    /\ at' = [at EXCEPT ![h] = [d \in Drones |-> First(kind)]]
    /\ UNCHANGED <<tries, answer, heard, left, vehicle>>

\* mutant: one drone is enough
EndAny(h) ==
    /\ op[h] # None /\ \A d \in Drones : at[h][d] \in {Ok, Failed}
    /\ LET ok == \E d \in Drones : at[h][d] = Ok IN
       phase' = IF op[h] = "takeoff" THEN IF ok THEN "airborne" ELSE "idle"
                                     ELSE IF ok THEN "landed" ELSE "airborne"
    /\ op' = [op EXCEPT ![h] = None]
    /\ UNCHANGED <<at, tries, answer, heard, left, vehicle, ops>>

\* The phase says how the operation that ended last went, not how the drones
\* are: takeoffs that fail leave "idle" over drones in the air.
End(h) ==
    /\ op[h] # None /\ \A d \in Drones : at[h][d] \in {Ok, Failed}
    /\ LET ok == \A d \in Drones : at[h][d] = Ok IN
       phase' = IF op[h] = "takeoff" THEN IF ok THEN "airborne" ELSE "idle"
                                     ELSE IF ok THEN "landed" ELSE "airborne"
    /\ op' = [op EXCEPT ![h] = None]
    /\ UNCHANGED <<at, tries, answer, heard, left, vehicle, ops>>

----------------------------------------------------------------------------
(* The worker of drone d under handler h *)

Stage(h, d) == at[h][d][1]
Is(h, d, step) == op[h] # None /\ at[h][d][2] = step
Move(h, d, place) == at' = [at EXCEPT ![h][d] = place]

\* What the caller does once the FCU has confirmed a stage.
After(stage) == CASE stage = "connect" -> <<"guided", "ask">>
                  [] stage = "guided" -> <<"arm", "ask">>
                  [] stage = "arm" -> <<"takeoff", "ask">>
                  [] stage \in {"takeoff", "land"} -> Ok

\* A request refused or unanswered, or a confirmation that does not come:
\* arm goes round its loop, every other call fails.
Otherwise(stage) == IF stage = "arm" THEN <<"arm", "ask">> ELSE Failed

LoopOver(h, d) == tries' = [tries EXCEPT ![h][d] = 0]

\* arm's loop ends at its deadline
GiveUp(h, d) ==
    /\ Is(h, d, "ask") /\ Stage(h, d) = "arm" /\ Move(h, d, Failed)
    /\ LoopOver(h, d)
    /\ UNCHANGED <<server, answer, heard, left, vehicle>>

\* mutant: the deadline is looked at too late
MayAskOnceMore(h, d) == Stage(h, d) = "arm" => tries[h][d] <= MaxTries

\* The retry loop of arm makes at most MaxTries attempts before its deadline.
MayAsk(h, d) == Stage(h, d) = "arm" => tries[h][d] < MaxTries
Try(h, d) == tries' = IF Stage(h, d) = "arm"
                      THEN [tries EXCEPT ![h][d] = @ + 1] ELSE tries

Ask(h, d) ==
    /\ Is(h, d, "ask") /\ MayAsk(h, d) /\ left[d][Stage(h, d)] < MaxLeft
    /\ Try(h, d) /\ Move(h, d, <<Stage(h, d), "await">>)
    /\ UNCHANGED <<server, answer, heard, left, vehicle>>

\* wait_for_service finds no service before its deadline
Unavailable(h, d) ==
    /\ Is(h, d, "ask") /\ MayAsk(h, d) /\ Try(h, d)
    /\ Move(h, d, Otherwise(Stage(h, d)))
    /\ UNCHANGED <<server, answer, heard, left, vehicle>>

\* mutant: a refusal is taken for an answer
AnsweredAny(h, d) ==
    /\ Is(h, d, "await") /\ answer[h][d] # None
    /\ answer' = [answer EXCEPT ![h][d] = None]
    /\ Move(h, d, <<Stage(h, d), "confirm">>)
    /\ UNCHANGED <<server, tries, heard, left, vehicle>>

Answered(h, d) ==
    /\ Is(h, d, "await") /\ answer[h][d] # None
    /\ answer' = [answer EXCEPT ![h][d] = None]
    /\ Move(h, d, IF answer[h][d] = "yes" THEN <<Stage(h, d), "confirm">>
                                          ELSE Otherwise(Stage(h, d)))
    /\ UNCHANGED <<server, tries, heard, left, vehicle>>

\* mutant: the call waits for its answer for ever
NoCallTimeout(h, d) == Is(h, d, "await") /\ answer[h][d] # None /\ UNCHANGED vars

Waits(h, d) == Is(h, d, "await") /\ answer[h][d] = None

\* No one waits for the request of h any more; it may still be carried out.
Leave(h, d) == left' = [left EXCEPT ![d][Stage(h, d)] = @ + 1]

\* The future is dropped; the request is not.  One whose answer was lost is
\* among those that are carried out after this.
CallTimeout(h, d) ==
    /\ Waits(h, d) /\ Leave(h, d)
    /\ Move(h, d, Otherwise(Stage(h, d)))
    /\ UNCHANGED <<server, tries, answer, heard, vehicle>>

\* What telemetry must say for a stage to be over.
Confirms(stage, r) ==
    /\ r # None
    /\ CASE stage = "connect" -> TRUE
         [] stage = "guided" -> r.guided
         [] stage = "arm" -> r.armed
         [] stage = "takeoff" -> r.up
         [] stage = "land" -> ~r.armed

Confirmed(h, d) ==
    /\ Is(h, d, "confirm") /\ Confirms(Stage(h, d), heard[d])
    /\ Move(h, d, After(Stage(h, d)))
    /\ IF Stage(h, d) = "arm" THEN LoopOver(h, d) ELSE UNCHANGED tries
    /\ UNCHANGED <<server, answer, heard, left, vehicle>>

ConfirmTimeout(h, d) ==
    /\ Is(h, d, "confirm") /\ Move(h, d, Otherwise(Stage(h, d)))
    /\ UNCHANGED <<server, tries, answer, heard, left, vehicle>>

----------------------------------------------------------------------------
(* The vehicle, as the adapter relies on it *)

\* _on_state and _on_pose: the two topics are not told apart.
Hear(d) ==
    /\ heard' = [heard EXCEPT ![d] = [armed |-> armed[d], up |-> up[d],
                                      guided |-> mode[d] = "GUIDED"]]
    /\ UNCHANGED <<server, at, tries, answer, left, vehicle>>

\* It arms outside LAND, takes off armed in GUIDED, and may refuse anything.
Obeys(d, ask) ==
    CASE ask = "guided" -> mode' = [mode EXCEPT ![d] = "GUIDED"]
                           /\ UNCHANGED <<armed, up>>
      [] ask = "arm" -> mode[d] # "LAND" /\ armed' = [armed EXCEPT ![d] = TRUE]
                        /\ UNCHANGED <<mode, up>>
      [] ask = "takeoff" -> armed[d] /\ mode[d] = "GUIDED"
                            /\ up' = [up EXCEPT ![d] = TRUE]
                            /\ UNCHANGED <<armed, mode>>
      [] ask = "land" -> mode' = [mode EXCEPT ![d] = "LAND"]
                         /\ UNCHANGED <<armed, up>>

Answer(h, d, a) == answer' = [answer EXCEPT ![h][d] = a]

Obey(h, d) ==
    /\ Waits(h, d) /\ Obeys(d, Stage(h, d)) /\ Answer(h, d, "yes")
    /\ late' = IF Stage(h, d) = "land" THEN late \ {d} ELSE late
    /\ UNCHANGED <<server, at, tries, heard, left>>

Refuse(h, d) ==
    /\ Waits(h, d) /\ Answer(h, d, "no")
    /\ UNCHANGED <<server, at, tries, heard, left, vehicle>>

\* The radio bridge answers for a follower it has not heard within its own
\* deadline, which is shorter than the worker's.
BridgeTimeout(h, d) ==
    /\ Waits(h, d) /\ Leave(h, d) /\ Answer(h, d, "no")
    /\ UNCHANGED <<server, at, tries, heard, vehicle>>

\* A request that was given up reaches the vehicle, which may refuse it too.
ObeyLeft(d, ask) ==
    /\ left[d][ask] > 0
    /\ left' = [left EXCEPT ![d][ask] = @ - 1]
    /\ \/ /\ Obeys(d, ask)
          /\ late' = CASE ask = "guided" /\ mode[d] = "LAND" -> late \cup {d}
                       [] ask = "land" -> late \ {d}
                       [] OTHER -> late
       \/ UNCHANGED vehicle
    /\ UNCHANGED <<server, at, tries, answer, heard>>

\* In LAND it comes down and disarms.
TouchDown(d) ==
    /\ mode[d] = "LAND" /\ (armed[d] \/ up[d])
    /\ armed' = [armed EXCEPT ![d] = FALSE] /\ up' = [up EXCEPT ![d] = FALSE]
    /\ UNCHANGED <<server, at, tries, answer, heard, left, mode, late>>

\* Armed on the ground and left alone, it disarms after a while.
Relax(d) ==
    /\ armed[d] /\ ~up[d] /\ armed' = [armed EXCEPT ![d] = FALSE]
    /\ UNCHANGED <<server, at, tries, answer, heard, left, mode, up, late>>

----------------------------------------------------------------------------

Work(h, d) == \/ GiveUp(h, d) \/ Ask(h, d) \/ Unavailable(h, d)
              \/ Answered(h, d) \/ CallTimeout(h, d)
              \/ Confirmed(h, d) \/ ConfirmTimeout(h, d)

Next == \/ \E h \in Handlers : \/ \E kind \in {"takeoff", "land"} : Start(h, kind)
                               \/ End(h)
                               \/ \E d \in Drones : \/ Work(h, d) \/ Obey(h, d)
                                                     \/ Refuse(h, d)
                                                     \/ BridgeTimeout(h, d)
        \/ \E d \in Drones : \/ Hear(d) \/ TouchDown(d) \/ Relax(d)
                              \/ \E ask \in Asked : ObeyLeft(d, ask)

\* Threads that have work go on, and a vehicle in LAND comes down.  Nothing is
\* assumed of telemetry, of MAVROS or of the executor's threads.
Fairness == /\ \A h \in Handlers : /\ WF_vars(End(h))
                                   /\ \A d \in Drones : WF_vars(Work(h, d))
            /\ \A d \in Drones : WF_vars(TouchDown(d))
Spec == Init /\ [][Next]_vars /\ Fairness

----------------------------------------------------------------------------
(* Properties *)

TypeOK ==
    /\ phase \in {"idle", "taking_off", "airborne", "landing", "landed"}
    /\ op \in [Handlers -> {None, "takeoff", "land"}] /\ ops \in 0 .. MaxOps
    /\ at \in [Handlers -> [Drones -> Places]]
    /\ tries \in [Handlers -> [Drones -> 0 .. MaxTries]]
    /\ answer \in [Handlers -> [Drones -> {None, "yes", "no"}]]
    /\ heard \in [Drones -> Reports \cup {None}]
    /\ left \in [Drones -> [Asked -> Nat]] /\ late \subseteq Drones
    /\ armed \in [Drones -> BOOLEAN] /\ up \in [Drones -> BOOLEAN]
    /\ mode \in [Drones -> {"OTHER", "GUIDED", "LAND"}]

\* Every takeoff and landing is answered, though telemetry and answers may
\* never come: no wait of the adapter is without a deadline, and the deadline
\* of arm ends its retries.
OperationsReturn == \A h \in Handlers : op[h] # None ~> op[h] = None

Overlap == (\E h \in Handlers : op[h] = "takeoff")
           /\ \E h \in Handlers : op[h] = "land"

\* A landing is reported only of drones that are in LAND, though it may be
\* confirmed by old telemetry, answers are lost or are "no" for a request that
\* is carried out, and requests of earlier operations are still obeyed.
\* It excepts the drones that a request given up, a GUIDED that comes after
\* LAND, has taken out of LAND again: nothing in the code withdraws it.  And
\* no takeoff may have been under way during a landing, which one handler sees
\* to; of more handlers it holds from []~Overlap.
LandedIsTrue == phase = "landed" =>
    \A d \in Drones : mode[d] = "LAND" \/ d \in late

\* So a swarm that stays "landed" ends disarmed, but for drones that such a
\* late GUIDED took out of LAND, which a late arming may have armed.
LandedSettles == <>[](phase = "landed") /\ []~Overlap =>
    <>[](\A d \in Drones : armed[d] => d \in late)
=============================================================================
