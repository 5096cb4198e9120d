-------------------------- MODULE FleetOps_proofs --------------------------
(***************************************************************************)
(* For any drones, handlers, attempts, operations and requests given up:   *)
(* FleetOps is type correct, and a swarm is reported landed only when each *)
(* drone is in LAND, or a request given up by its caller has taken it out  *)
(* of LAND again, if no takeoff has been under way during a landing.       *)
(* Requests need be obeyed in no order: a landing vouches for its drones   *)
(* by the answers to its own requests alone.                               *)
(***************************************************************************)
EXTENDS FleetOps, TLAPS

LEMMA PlaceKinds ==
    ASSUME NEW p \in Places
    PROVE  /\ p = <<p[1], p[2]>>
           /\ p[2] \in {"ask", "await"} => p[1] \in Asked
           /\ p[2] = "confirm" => p[1] \in Stages
  BY DEF Places, Asked, Stages

LEMMA WorkPlaces ==
    /\ \A s \in Asked : /\ <<s, "ask">> \in Places /\ <<s, "await">> \in Places
                        /\ <<s, "confirm">> \in Places
    /\ \A s \in Stages : Otherwise(s) \in Places /\ After(s) \in Places
    /\ Ok \in Places /\ Failed \in Places /\ Asked \subseteq Stages
    /\ First("takeoff") \in Places /\ First("land") \in Places
  BY DEF Places, Asked, Stages, Otherwise, After, Ok, Failed, First

LEMMA MoveType ==
    ASSUME at \in [Handlers -> [Drones -> Places]],
           NEW h \in Handlers, NEW d \in Drones, NEW p \in Places, Move(h, d, p)
    PROVE  /\ at' \in [Handlers -> [Drones -> Places]]
           /\ at'[h][d] = p
           /\ \A g \in Handlers, e \in Drones :
                 g # h \/ e # d => at'[g][e] = at[g][e]
  BY DEF Move

\* What the worker of drone d is about to do.
LEMMA WorkerPlace ==
    ASSUME TypeOK, NEW h \in Handlers, NEW d \in Drones
    PROVE  /\ at[h][d] = <<Stage(h, d), at[h][d][2]>>
           /\ Is(h, d, "ask") \/ Is(h, d, "await") => Stage(h, d) \in Asked
           /\ Is(h, d, "confirm") => Stage(h, d) \in Stages
<1>1. at[h][d] \in Places
  BY DEF TypeOK
<1> QED BY <1>1, PlaceKinds DEF Stage, Is

-----------------------------------------------------------------------------
(* Types *)

LEMMA InitType == Init => TypeOK
<1> SUFFICES ASSUME Init PROVE TypeOK
  OBVIOUS
<1>1. 0 \in 0 .. MaxOps /\ 0 \in 0 .. MaxTries
  BY FleetAssumption
<1>2. at \in [Handlers -> [Drones -> Places]]
  BY WorkPlaces DEF Init
<1>3. left \in [Drones -> [Asked -> Nat]] /\ late \subseteq Drones
  BY DEF Init
<1>4. armed \in [Drones -> BOOLEAN] /\ up \in [Drones -> BOOLEAN]
  BY DEF Init
<1>5. /\ op \in [Handlers -> {None, "takeoff", "land"}] /\ ops \in 0 .. MaxOps
      /\ tries \in [Handlers -> [Drones -> 0 .. MaxTries]]
      /\ answer \in [Handlers -> [Drones -> {None, "yes", "no"}]]
      /\ heard \in [Drones -> Reports \cup {None}]
      /\ mode \in [Drones -> {"OTHER", "GUIDED", "LAND"}]
      /\ phase \in {"idle", "taking_off", "airborne", "landing", "landed"}
  BY <1>1 DEF Init
<1> QED BY <1>2, <1>3, <1>4, <1>5 DEF TypeOK

LEMMA TryType ==
    ASSUME TypeOK, NEW h \in Handlers, NEW d \in Drones, Try(h, d), MayAsk(h, d)
    PROVE  tries' \in [Handlers -> [Drones -> 0 .. MaxTries]]
<1>1. tries \in [Handlers -> [Drones -> 0 .. MaxTries]]
  BY DEF TypeOK
<1>2. tries[h][d] < MaxTries => tries[h][d] + 1 \in 0 .. MaxTries
  BY <1>1, FleetAssumption
<1> QED BY <1>1, <1>2 DEF Try, MayAsk

LEMMA LoopOverType ==
    ASSUME TypeOK, NEW h \in Handlers, NEW d \in Drones,
           LoopOver(h, d) \/ UNCHANGED tries
    PROVE  tries' \in [Handlers -> [Drones -> 0 .. MaxTries]]
<1>1. tries \in [Handlers -> [Drones -> 0 .. MaxTries]] /\ 0 \in 0 .. MaxTries
  BY FleetAssumption DEF TypeOK
<1> QED BY <1>1 DEF LoopOver

LEMMA LeaveType ==
    ASSUME TypeOK, NEW h \in Handlers, NEW d \in Drones, Waits(h, d), Leave(h, d)
    PROVE  left' \in [Drones -> [Asked -> Nat]]
<1>1. left \in [Drones -> [Asked -> Nat]] /\ Stage(h, d) \in Asked
  BY WorkerPlace DEF TypeOK, Waits
<1>2. left[d][Stage(h, d)] + 1 \in Nat
  BY <1>1
<1> QED BY <1>1, <1>2 DEF Leave

LEMMA WorkType ==
    ASSUME TypeOK, NEW h \in Handlers, NEW d \in Drones, Work(h, d)
    PROVE  TypeOK'
<1> USE DEF server, vehicle
<1>1. /\ at \in [Handlers -> [Drones -> Places]]
      /\ answer \in [Handlers -> [Drones -> {None, "yes", "no"}]]
  BY DEF TypeOK
<1>2. /\ Is(h, d, "ask") \/ Is(h, d, "await") => Stage(h, d) \in Asked
      /\ Is(h, d, "confirm") => Stage(h, d) \in Stages
  BY WorkerPlace
<1>3. CASE GiveUp(h, d)
  <2>1. at' \in [Handlers -> [Drones -> Places]]
    BY <1>1, <1>3, MoveType, WorkPlaces DEF GiveUp
  <2>2. tries' \in [Handlers -> [Drones -> 0 .. MaxTries]]
    BY <1>3, LoopOverType DEF GiveUp
  <2> QED BY <1>3, <2>1, <2>2 DEF GiveUp, TypeOK
<1>4. CASE Ask(h, d)
  <2>1. at' \in [Handlers -> [Drones -> Places]]
    BY <1>1, <1>2, <1>4, MoveType, WorkPlaces DEF Ask
  <2>2. tries' \in [Handlers -> [Drones -> 0 .. MaxTries]]
    BY <1>4, TryType DEF Ask
  <2> QED BY <1>4, <2>1, <2>2 DEF Ask, TypeOK
<1>5. CASE Unavailable(h, d)
  <2>1. at' \in [Handlers -> [Drones -> Places]]
    BY <1>1, <1>2, <1>5, MoveType, WorkPlaces DEF Unavailable
  <2>2. tries' \in [Handlers -> [Drones -> 0 .. MaxTries]]
    BY <1>5, TryType DEF Unavailable
  <2> QED BY <1>5, <2>1, <2>2 DEF Unavailable, TypeOK
<1>6. CASE Answered(h, d)
  <2>1. at' \in [Handlers -> [Drones -> Places]]
    BY <1>1, <1>2, <1>6, MoveType, WorkPlaces DEF Answered
  <2>2. answer' \in [Handlers -> [Drones -> {None, "yes", "no"}]]
    BY <1>1, <1>6 DEF Answered
  <2> QED BY <1>6, <2>1, <2>2 DEF Answered, TypeOK
<1>7. CASE CallTimeout(h, d)
  <2>1. at' \in [Handlers -> [Drones -> Places]]
    BY <1>1, <1>2, <1>7, MoveType, WorkPlaces DEF CallTimeout, Waits
  <2>2. left' \in [Drones -> [Asked -> Nat]]
    BY <1>7, LeaveType DEF CallTimeout
  <2> QED BY <1>7, <2>1, <2>2 DEF CallTimeout, TypeOK
<1>8. CASE Confirmed(h, d)
  <2>1. at' \in [Handlers -> [Drones -> Places]]
    BY <1>1, <1>2, <1>8, MoveType, WorkPlaces DEF Confirmed
  <2>2. tries' \in [Handlers -> [Drones -> 0 .. MaxTries]]
    BY <1>8, LoopOverType DEF Confirmed
  <2> QED BY <1>8, <2>1, <2>2 DEF Confirmed, TypeOK
<1>9. CASE ConfirmTimeout(h, d)
  <2>1. at' \in [Handlers -> [Drones -> Places]]
    BY <1>1, <1>2, <1>9, MoveType, WorkPlaces DEF ConfirmTimeout
  <2> QED BY <1>9, <2>1 DEF ConfirmTimeout, TypeOK
<1> QED BY <1>3, <1>4, <1>5, <1>6, <1>7, <1>8, <1>9 DEF Work

\* What an obeyed request makes of a vehicle's types.
LEMMA ObeysType ==
    ASSUME TypeOK, NEW d \in Drones, NEW ask \in Asked, Obeys(d, ask)
    PROVE  /\ armed' \in [Drones -> BOOLEAN] /\ up' \in [Drones -> BOOLEAN]
           /\ mode' \in [Drones -> {"OTHER", "GUIDED", "LAND"}]
<1>1. /\ armed \in [Drones -> BOOLEAN] /\ up \in [Drones -> BOOLEAN]
      /\ mode \in [Drones -> {"OTHER", "GUIDED", "LAND"}]
  BY DEF TypeOK
<1>2. armed' = armed \/ armed' = [armed EXCEPT ![d] = TRUE]
  BY DEF Obeys, Asked, Stages
<1>3. up' = up \/ up' = [up EXCEPT ![d] = TRUE]
  BY DEF Obeys, Asked, Stages
<1>4. mode' \in [Drones -> {"OTHER", "GUIDED", "LAND"}]
  BY <1>1 DEF Obeys, Asked, Stages
<1>5. armed' \in [Drones -> BOOLEAN]
  BY <1>1, <1>2
<1>6. up' \in [Drones -> BOOLEAN]
  BY <1>1, <1>3
<1> QED BY <1>4, <1>5, <1>6

LEMMA RequestType ==
    ASSUME TypeOK, NEW h \in Handlers, NEW d \in Drones,
           Obey(h, d) \/ Refuse(h, d) \/ BridgeTimeout(h, d)
    PROVE  TypeOK'
<1> USE DEF server, vehicle
<1>1. /\ answer \in [Handlers -> [Drones -> {None, "yes", "no"}]]
      /\ Stage(h, d) \in Asked
  BY WorkerPlace DEF TypeOK, Obey, Refuse, BridgeTimeout, Waits
<1>2. answer' \in [Handlers -> [Drones -> {None, "yes", "no"}]]
  BY <1>1 DEF Obey, Refuse, BridgeTimeout, Answer
<1>3. CASE Obey(h, d)
  <2>1. /\ armed' \in [Drones -> BOOLEAN] /\ up' \in [Drones -> BOOLEAN]
        /\ mode' \in [Drones -> {"OTHER", "GUIDED", "LAND"}]
    BY <1>1, <1>3, ObeysType DEF Obey
  <2>2. late' \subseteq Drones
    BY <1>3 DEF Obey, TypeOK
  <2> QED BY <1>2, <1>3, <2>1, <2>2 DEF Obey, TypeOK
<1>4. CASE Refuse(h, d)
  BY <1>2, <1>4 DEF Refuse, TypeOK
<1>5. CASE BridgeTimeout(h, d)
  <2>1. left' \in [Drones -> [Asked -> Nat]]
    BY <1>5, LeaveType DEF BridgeTimeout
  <2> QED BY <1>2, <1>5, <2>1 DEF BridgeTimeout, TypeOK
<1> QED BY <1>3, <1>4, <1>5

LEMMA ObeyLeftType ==
    ASSUME TypeOK, NEW d \in Drones, NEW ask \in Asked, ObeyLeft(d, ask)
    PROVE  TypeOK'
<1> USE DEF server, vehicle
<1>1. left \in [Drones -> [Asked -> Nat]] /\ late \subseteq Drones
  BY DEF TypeOK
<1>2. left[d][ask] - 1 \in Nat
  BY <1>1 DEF ObeyLeft
<1>3. left' \in [Drones -> [Asked -> Nat]]
  BY <1>1, <1>2 DEF ObeyLeft
<1>4. CASE UNCHANGED vehicle
  BY <1>3, <1>4 DEF ObeyLeft, TypeOK
<1>5. CASE ~UNCHANGED vehicle
  <2>1. Obeys(d, ask)
    BY <1>5 DEF ObeyLeft
  <2>2. /\ armed' \in [Drones -> BOOLEAN] /\ up' \in [Drones -> BOOLEAN]
        /\ mode' \in [Drones -> {"OTHER", "GUIDED", "LAND"}]
    BY <2>1, ObeysType
  <2>3. late' = late \cup {d} \/ late' = late \ {d} \/ late' = late
    BY <1>5 DEF ObeyLeft
  <2>4. late' \subseteq Drones
    BY <1>1, <2>3
  <2> QED BY <1>3, <2>2, <2>4 DEF ObeyLeft, TypeOK
<1> QED BY <1>4, <1>5

LEMMA NextType == TypeOK /\ [Next]_vars => TypeOK'
<1> SUFFICES ASSUME TypeOK, [Next]_vars PROVE TypeOK'
  OBVIOUS
<1> USE DEF server, vehicle
<1>1. ASSUME NEW h \in Handlers, NEW kind \in {"takeoff", "land"}, Start(h, kind)
      PROVE  TypeOK'
  <2>1. ops' \in 0 .. MaxOps /\ op' \in [Handlers -> {None, "takeoff", "land"}]
    BY <1>1, FleetAssumption DEF Start, TypeOK
  <2>2. at' \in [Handlers -> [Drones -> Places]]
    BY <1>1, WorkPlaces DEF Start, TypeOK
  <2> QED BY <1>1, <2>1, <2>2 DEF Start, TypeOK
<1>2. ASSUME NEW h \in Handlers, End(h) PROVE TypeOK'
  <2>1. op' \in [Handlers -> {None, "takeoff", "land"}]
    BY <1>2 DEF End, TypeOK
  <2>2. phase' \in {"airborne", "idle", "landed"}
    BY <1>2 DEF End
  <2> QED BY <1>2, <2>1, <2>2 DEF End, TypeOK
<1>3. ASSUME NEW d \in Drones, Hear(d) PROVE TypeOK'
  <2>1. heard' \in [Drones -> Reports \cup {None}]
    <3>1. [armed |-> armed[d], up |-> up[d], guided |-> mode[d] = "GUIDED"] \in Reports
      BY DEF TypeOK, Reports
    <3> QED BY <1>3, <3>1 DEF Hear, TypeOK
  <2> QED BY <1>3, <2>1 DEF Hear, TypeOK
<1>4. ASSUME NEW d \in Drones, TouchDown(d) \/ Relax(d) PROVE TypeOK'
  <2>1. armed' \in [Drones -> BOOLEAN] /\ up' \in [Drones -> BOOLEAN]
    BY <1>4 DEF TouchDown, Relax, TypeOK
  <2> QED BY <1>4, <2>1 DEF TouchDown, Relax, TypeOK
<1>5. CASE UNCHANGED vars
  BY <1>5 DEF vars, TypeOK
<1> QED BY <1>1, <1>2, <1>3, <1>4, <1>5, WorkType, RequestType, ObeyLeftType DEF Next

\* Phase, workers, answers, telemetry and requests keep their types, and no
\* worker makes more attempts to arm than its deadline allows.
THEOREM TypeCorrect == Spec => []TypeOK
  BY InitType, NextType, PTL DEF Spec

-----------------------------------------------------------------------------
(***************************************************************************)
(* The invariant.  A worker has an answer only while it awaits it, so a    *)
(* "yes" is of the request it has made: once a landing has one, the drone  *)
(* is in LAND, and with no takeoff under way only a request that was given *)
(* up can take it out.                                                     *)
(***************************************************************************)

InLand(d) == mode[d] = "LAND" \/ d \in late

AnswerAwaited(h, d) ==
    answer[h][d] # None => op[h] # None /\ at[h][d][2] = "await"

LandPlaces == {<<"land", "ask">>, <<"land", "await">>, <<"land", "confirm">>,
               Ok, Failed}

\* Once a landing is answered with yes the vehicle has gone into LAND.
Landing(h, d) == op[h] = "land" =>
    /\ at[h][d] \in LandPlaces
    /\ at[h][d] \in {<<"land", "confirm">>, Ok} \/ answer[h][d] = "yes" => InLand(d)

Worker(h, d) == AnswerAwaited(h, d) /\ Landing(h, d)

LandedAlone == phase = "landed" => \A h \in Handlers : op[h] # "takeoff"

IInv == /\ TypeOK /\ LandedIsTrue /\ LandedAlone
        /\ \A h \in Handlers, d \in Drones : Worker(h, d)

LEMMA InitIInv == Init => IInv
<1> SUFFICES ASSUME Init PROVE IInv
  OBVIOUS
<1>1. ASSUME NEW h \in Handlers, NEW d \in Drones PROVE Worker(h, d)
  <2>1. op[h] = None /\ answer[h][d] = None
    BY DEF Init
  <2> QED BY <2>1, FleetAssumption DEF Worker, AnswerAwaited, Landing
<1> QED BY <1>1, InitType DEF Init, IInv, LandedIsTrue, LandedAlone

\* What a worker keeps that a step does not touch.
LEMMA WorkerSame ==
    ASSUME NEW h \in Handlers, NEW d \in Drones, Worker(h, d),
           op'[h] = op[h], at'[h][d] = at[h][d], answer'[h][d] = answer[h][d],
           op[h] = "land" /\ InLand(d) => InLand(d)'
    PROVE  Worker(h, d)'
  BY DEF Worker, AnswerAwaited, Landing

\* What a step of another's worker changes of its own worker's places.
LEMMA WorkElsewhere ==
    ASSUME TypeOK, NEW g \in Handlers, NEW e \in Drones, Work(g, e),
           NEW h \in Handlers, NEW d \in Drones, h # g \/ d # e
    PROVE  at'[h][d] = at[h][d] /\ answer'[h][d] = answer[h][d]
<1>1. /\ at \in [Handlers -> [Drones -> Places]]
      /\ answer \in [Handlers -> [Drones -> {None, "yes", "no"}]]
  BY DEF TypeOK
<1>2. answer'[h][d] = answer[h][d]
  BY <1>1 DEF Work, GiveUp, Ask, Unavailable, Answered, CallTimeout,
              Confirmed, ConfirmTimeout
<1>3. at'[h][d] = at[h][d]
  BY <1>1 DEF Work, GiveUp, Ask, Unavailable, Answered, CallTimeout,
              Confirmed, ConfirmTimeout, Move
<1> QED BY <1>2, <1>3

LEMMA WorkOwn ==
    ASSUME TypeOK, NEW h \in Handlers, NEW d \in Drones, Work(h, d), Worker(h, d)
    PROVE  Worker(h, d)'
<1> USE DEF server, vehicle
<1>1. /\ op' = op /\ op[h] # None /\ InLand(d)' = InLand(d)
      /\ at \in [Handlers -> [Drones -> Places]]
      /\ answer \in [Handlers -> [Drones -> {None, "yes", "no"}]]
  BY DEF Work, GiveUp, Ask, Unavailable, Answered, CallTimeout, Confirmed,
         ConfirmTimeout, Is, Waits, InLand, TypeOK
<1>2. /\ at[h][d] = <<Stage(h, d), at[h][d][2]>>
      /\ AnswerAwaited(h, d) /\ Landing(h, d)
  BY WorkerPlace DEF Worker
<1>3. op[h] = "land" /\ at[h][d][2] \in {"ask", "await", "confirm"}
        => Stage(h, d) = "land"
  BY <1>2 DEF Landing, LandPlaces, Ok, Failed
<1>4. answer'[h][d] = None
  <2>1. CASE Answered(h, d)
    BY <1>1, <2>1 DEF Answered
  <2>2. CASE ~Answered(h, d)
    <3>1. answer' = answer /\ (answer[h][d] = None \/ at[h][d][2] # "await")
      BY <2>2 DEF Work, GiveUp, Ask, Unavailable, CallTimeout, Confirmed,
                  ConfirmTimeout, Is, Waits
    <3> QED BY <1>2, <3>1 DEF AnswerAwaited
  <2> QED BY <2>1, <2>2
<1>5. ASSUME op[h] = "land" PROVE Landing(h, d)'
  <2>1. CASE GiveUp(h, d)
    BY <1>3, <1>5, <2>1 DEF GiveUp, Is
  <2>2. CASE Ask(h, d)
    <3>1. at'[h][d] = <<"land", "await">>
      BY <1>1, <1>3, <1>5, <2>2 DEF Ask, Is, Move
    <3> QED BY <1>4, <3>1, FleetAssumption DEF Landing, LandPlaces, Ok
  <2>3. CASE Unavailable(h, d) \/ CallTimeout(h, d) \/ ConfirmTimeout(h, d)
    <3>1. at'[h][d] = Failed
      BY <1>1, <1>3, <1>5, <2>3
      DEF Unavailable, CallTimeout, ConfirmTimeout, Waits, Is, Move, Otherwise
    <3> QED BY <1>4, <3>1, FleetAssumption DEF Landing, LandPlaces, Ok, Failed
  <2>4. CASE Answered(h, d)
    <3>1. \/ at'[h][d] = Failed
          \/ answer[h][d] = "yes" /\ at'[h][d] = <<"land", "confirm">>
      BY <1>1, <1>3, <1>5, <2>4 DEF Answered, Is, Move, Otherwise
    <3> QED BY <1>1, <1>2, <1>4, <1>5, <3>1, FleetAssumption
            DEF Landing, LandPlaces, Ok, Failed
  <2>5. CASE Confirmed(h, d)
    <3>1. at[h][d] = <<"land", "confirm">> /\ at'[h][d] = Ok
      BY <1>1, <1>2, <1>3, <1>5, <2>5 DEF Confirmed, Is, Move, After
    <3> QED BY <1>1, <1>2, <1>5, <3>1 DEF Landing, LandPlaces
  <2> QED BY <2>1, <2>2, <2>3, <2>4, <2>5 DEF Work
<1>6. AnswerAwaited(h, d)'
  BY <1>1, <1>2, <1>4 DEF AnswerAwaited
<1> QED BY <1>1, <1>5, <1>6 DEF Worker, Landing

LEMMA WorkIInv ==
    ASSUME IInv, NEW g \in Handlers, NEW e \in Drones, Work(g, e)
    PROVE  IInv'
<1>1. TypeOK /\ TypeOK' /\ LandedIsTrue /\ LandedAlone
  BY WorkType DEF IInv
<1>2. op' = op /\ mode' = mode /\ late' = late /\ phase' = phase
  BY DEF Work, GiveUp, Ask, Unavailable, Answered, CallTimeout, Confirmed,
         ConfirmTimeout, server, vehicle
<1>3. ASSUME NEW h \in Handlers, NEW d \in Drones PROVE Worker(h, d)'
  <2>1. Worker(h, d)
    BY DEF IInv
  <2>2. CASE h = g /\ d = e
    BY <1>1, <2>1, <2>2, WorkOwn
  <2>3. CASE h # g \/ d # e
    <3>1. at'[h][d] = at[h][d] /\ answer'[h][d] = answer[h][d]
      BY <1>1, <2>3, WorkElsewhere
    <3> QED BY <1>2, <2>1, <3>1, WorkerSame DEF InLand
  <2> QED BY <2>2, <2>3
<1> QED BY <1>1, <1>2, <1>3 DEF IInv, LandedIsTrue, LandedAlone

\* While a landing or the report of one stands and no takeoff is under way.
Holds == (\E h \in Handlers : op[h] = "land") \/ phase = "landed"

LEMMA NoTakeoff ==
    ASSUME LandedAlone, ~Overlap, Holds
    PROVE  \A h \in Handlers : op[h] # "takeoff"
  BY DEF LandedAlone, Overlap, Holds

\* Only LAND is asked by workers then, so what they are obeyed in keeps a
\* drone where its landing put it.
LEMMA ObeyInLand ==
    ASSUME IInv, ~Overlap, Holds, NEW g \in Handlers, NEW e \in Drones, Obey(g, e),
           NEW d \in Drones, InLand(d)
    PROVE  InLand(d)'
<1>1. /\ mode \in [Drones -> {"OTHER", "GUIDED", "LAND"}] /\ op[g] = "land"
      /\ at[g][e] \in LandPlaces /\ at[g][e][2] = "await"
  BY NoTakeoff DEF IInv, TypeOK, Obey, Waits, Is, Worker, Landing
<1>2. Stage(g, e) = "land"
  BY <1>1 DEF LandPlaces, Ok, Failed, Stage
<1>3. mode' = [mode EXCEPT ![e] = "LAND"] /\ late' = late \ {e}
  BY <1>2 DEF Obey, Obeys
<1> QED BY <1>1, <1>3 DEF InLand

\* A request given up takes a drone out of LAND only into `late'.
LEMMA LeftInLand ==
    ASSUME TypeOK, NEW e \in Drones, NEW ask \in Asked, ObeyLeft(e, ask),
           NEW d \in Drones, InLand(d)
    PROVE  InLand(d)'
<1>1. mode \in [Drones -> {"OTHER", "GUIDED", "LAND"}]
  BY DEF TypeOK
<1>2. CASE UNCHANGED vehicle
  BY <1>2 DEF vehicle, InLand
<1>3. CASE ~UNCHANGED vehicle
  <2>1. /\ Obeys(e, ask)
        /\ late' = CASE ask = "guided" /\ mode[e] = "LAND" -> late \cup {e}
                     [] ask = "land" -> late \ {e}
                     [] OTHER -> late
    BY <1>3 DEF ObeyLeft
  <2>2. CASE ask = "guided"
    <3>1. mode' = [mode EXCEPT ![e] = "GUIDED"]
      BY <2>1, <2>2 DEF Obeys
    <3>2. mode[e] = "LAND" => late' = late \cup {e}
      BY <2>1, <2>2
    <3>3. mode[e] # "LAND" => late' = late
      BY <2>1, <2>2
    <3> QED BY <1>1, <3>1, <3>2, <3>3 DEF InLand
  <2>3. CASE ask = "land"
    <3>1. mode' = [mode EXCEPT ![e] = "LAND"] /\ late' = late \ {e}
      BY <2>1, <2>3 DEF Obeys
    <3> QED BY <1>1, <3>1 DEF InLand
  <2>4. CASE ask \in {"arm", "takeoff"}
    <3>1. mode' = mode /\ late' = late
      BY <2>1, <2>4 DEF Obeys
    <3> QED BY <3>1 DEF InLand
  <2> QED BY <2>2, <2>3, <2>4 DEF Asked, Stages
<1> QED BY <1>2, <1>3

LEMMA RequestIInv ==
    ASSUME IInv, ~Overlap, NEW g \in Handlers, NEW e \in Drones,
           Obey(g, e) \/ Refuse(g, e) \/ BridgeTimeout(g, e)
    PROVE  IInv'
<1>1. /\ TypeOK /\ TypeOK' /\ LandedIsTrue /\ LandedAlone
      /\ answer \in [Handlers -> [Drones -> {None, "yes", "no"}]]
  BY RequestType DEF IInv, TypeOK
<1>2. op' = op /\ at' = at /\ phase' = phase /\ Waits(g, e)
  BY DEF Obey, Refuse, BridgeTimeout, server
<1>3. Holds => \A d \in Drones : InLand(d) => InLand(d)'
  <2>1. CASE Obey(g, e)
    BY <2>1, ObeyInLand
  <2>2. CASE Refuse(g, e) \/ BridgeTimeout(g, e)
    BY <2>2 DEF Refuse, BridgeTimeout, vehicle, InLand
  <2> QED BY <2>1, <2>2
<1>4. ASSUME NEW h \in Handlers, NEW d \in Drones PROVE Worker(h, d)'
  <2>1. Worker(h, d) /\ (op[h] = "land" /\ InLand(d) => InLand(d)')
    BY <1>3 DEF IInv, Holds
  <2>2. CASE h # g \/ d # e
    <3>1. answer'[h][d] = answer[h][d]
      BY <1>1, <2>2 DEF Obey, Refuse, BridgeTimeout, Answer
    <3> QED BY <1>2, <2>1, <3>1, WorkerSame
  <2>3. CASE h = g /\ d = e
    <3>1. AnswerAwaited(h, d)'
      BY <1>2, <2>3 DEF AnswerAwaited, Waits, Is
    <3>2. ASSUME op[h] = "land", answer'[h][d] = "yes" PROVE InLand(d)'
      <4>1. Obey(h, d)
        BY <1>1, <2>3, <3>2 DEF Refuse, BridgeTimeout, Answer
      <4>2. Stage(h, d) = "land"
        BY <1>2, <2>1, <2>3, <3>2
        DEF Worker, Landing, LandPlaces, Ok, Failed, Waits, Is, Stage
      <4>3. mode' = [mode EXCEPT ![d] = "LAND"]
        BY <4>1, <4>2 DEF Obey, Obeys
      <4> QED BY <1>1, <4>3 DEF InLand, TypeOK
    <3>3. at[h][d][2] = "await"
      BY <1>2, <2>3 DEF Waits, Is
    <3> QED BY <1>2, <2>1, <3>1, <3>2, <3>3 DEF Worker, Landing, Ok
  <2> QED BY <2>2, <2>3
<1>5. LandedIsTrue'
  BY <1>1, <1>2, <1>3 DEF LandedIsTrue, InLand, Holds
<1> QED BY <1>1, <1>2, <1>4, <1>5 DEF IInv, LandedAlone

LEMMA ObeyLeftIInv ==
    ASSUME IInv, NEW e \in Drones, NEW ask \in Asked, ObeyLeft(e, ask)
    PROVE  IInv'
<1>1. TypeOK /\ TypeOK' /\ LandedIsTrue /\ LandedAlone
  BY ObeyLeftType DEF IInv
<1>2. op' = op /\ at' = at /\ phase' = phase /\ answer' = answer
  BY DEF ObeyLeft, server
<1>3. \A d \in Drones : InLand(d) => InLand(d)'
  BY <1>1, LeftInLand
<1>4. \A h \in Handlers, d \in Drones : Worker(h, d)'
  BY <1>2, <1>3, WorkerSame DEF IInv
<1> QED BY <1>1, <1>2, <1>3, <1>4 DEF IInv, LandedIsTrue, LandedAlone, InLand

LEMMA NextIInv == IInv /\ ~Overlap /\ [Next]_vars => IInv'
<1> SUFFICES ASSUME IInv, ~Overlap, [Next]_vars PROVE IInv'
  OBVIOUS
<1> USE DEF server, vehicle
<1>1. TypeOK /\ TypeOK' /\ LandedIsTrue /\ LandedAlone
  BY NextType DEF IInv
<1>2. \A h \in Handlers, d \in Drones : Worker(h, d)
  BY DEF IInv
<1>3. ASSUME NEW g \in Handlers, NEW kind \in {"takeoff", "land"}, Start(g, kind)
      PROVE  IInv'
  <2>1. /\ phase' # "landed" /\ op[g] = None /\ op'[g] = kind
        /\ \A d \in Drones : at'[g][d] = First(kind)
        /\ \A h \in Handlers \ {g}, d \in Drones :
              op'[h] = op[h] /\ at'[h][d] = at[h][d]
        /\ answer' = answer /\ mode' = mode /\ late' = late
    BY <1>1, <1>3 DEF Start, TypeOK
  <2>2. ASSUME NEW d \in Drones PROVE Worker(g, d)'
    <3>1. answer'[g][d] = None
      BY <1>2, <2>1 DEF Worker, AnswerAwaited
    <3>2. op'[g] = "land" => at'[g][d] = <<"land", "ask">>
      BY <2>1 DEF First
    <3> QED BY <3>1, <3>2, FleetAssumption
            DEF Worker, AnswerAwaited, Landing, LandPlaces, Ok
  <2>3. ASSUME NEW h \in Handlers \ {g}, NEW d \in Drones PROVE Worker(h, d)'
    BY <1>2, <2>1, WorkerSame DEF InLand
  <2> QED BY <1>1, <2>1, <2>2, <2>3 DEF IInv, LandedIsTrue, LandedAlone
<1>4. ASSUME NEW g \in Handlers, End(g) PROVE IInv'
  <2>1. /\ op'[g] = None /\ op[g] # None
        /\ \A d \in Drones : at[g][d] \in {Ok, Failed}
        /\ \A h \in Handlers \ {g} : op'[h] = op[h]
        /\ at' = at /\ answer' = answer /\ mode' = mode /\ late' = late
    BY <1>1, <1>4 DEF End, TypeOK
  <2>2. ASSUME NEW d \in Drones PROVE Worker(g, d)'
    <3>1. answer'[g][d] = None
      BY <1>2, <2>1 DEF Worker, AnswerAwaited, Ok, Failed
    <3> QED BY <2>1, <3>1, FleetAssumption DEF Worker, AnswerAwaited, Landing
  <2>3. ASSUME NEW h \in Handlers \ {g}, NEW d \in Drones PROVE Worker(h, d)'
    BY <1>2, <2>1, WorkerSame DEF InLand
  <2>4. ASSUME phase' = "landed"
        PROVE  /\ \A h \in Handlers : op'[h] # "takeoff"
               /\ \A d \in Drones : InLand(d)
    <3>1. op[g] = "land" /\ \A d \in Drones : at[g][d] = Ok
      BY <1>1, <1>4, <2>4 DEF End, TypeOK
    <3>2. \A h \in Handlers : op'[h] # "takeoff"
      BY <2>1, <3>1, FleetAssumption DEF Overlap
    <3>3. \A d \in Drones : InLand(d)
      BY <1>2, <3>1 DEF Worker, Landing
    <3> QED BY <3>2, <3>3
  <2> QED BY <1>1, <2>1, <2>2, <2>3, <2>4 DEF IInv, LandedIsTrue, LandedAlone, InLand
<1>5. CASE \/ UNCHANGED vars
           \/ \E d \in Drones : Hear(d) \/ TouchDown(d) \/ Relax(d)
  <2>1. UNCHANGED <<phase, op, at, answer, mode, late>>
    BY <1>5 DEF vars, Hear, TouchDown, Relax
  <2>2. \A h \in Handlers, d \in Drones : Worker(h, d)'
    BY <1>2, <2>1, WorkerSame DEF InLand
  <2> QED BY <1>1, <2>1, <2>2 DEF IInv, LandedIsTrue, LandedAlone
<1> QED BY <1>3, <1>4, <1>5, WorkIInv, RequestIInv, ObeyLeftIInv DEF Next

\* A landing is reported only of drones that are in LAND, or that a request
\* its caller had given up took out of LAND again, in whatever order requests
\* are obeyed and whatever was refused, lost or late, if no takeoff is ever
\* under way during a landing.
THEOREM LandedIsTrueAlways == Spec => ([]~Overlap => []LandedIsTrue)
<1>1. IInv => LandedIsTrue
  BY DEF IInv
<1> QED BY <1>1, InitIInv, NextIInv, PTL DEF Spec
=============================================================================
