------------------------ MODULE RadioWatchdog_proofs ------------------------
(***************************************************************************)
(* The watchdog's reaction times, for any limits, throttle, request time   *)
(* and history of the radio.                                               *)
(***************************************************************************)
EXTENDS RadioWatchdog, TLAPS

\* What the code stores is never later than the last request's start, however
\* the requests overlap and end.
StoredIsStarted ==
    /\ startedAt <= now /\ disarmAt <= startedAt /\ lastAction <= startedAt
    /\ \A r \in requests : r.at <= startedAt

\* A request that is not a DISARM was started within the second limit.
BrakeIsEarly ==
    heard # None => startedAt = disarmAt \/ startedAt <= heard + DisarmAfter

HeardIsPast == heard # None => heard <= now

IInv == /\ TypeOK /\ StoredIsStarted /\ BrakeIsEarly /\ HeardIsPast
        /\ BrakeInTime /\ DisarmInTime

LEMMA Numbers ==
  ASSUME IInv
  PROVE  /\ now \in Nat /\ lastAction \in Nat /\ startedAt \in Nat
         /\ disarmAt \in Nat /\ (heard # None => heard \in Nat)
         /\ now \in Uptime .. MaxTime
         /\ BrakeAfter \in Nat /\ DisarmAfter \in Nat /\ Throttle \in Nat
         /\ BrakeAfter <= DisarmAfter
         /\ Uptime \in Nat /\ MaxTime \in Nat
  BY WatchdogAssumption DEF IInv, TypeOK, Times

LEMMA InitIInv == Init => IInv
<1> SUFFICES ASSUME Init PROVE IInv
  OBVIOUS
<1>1. Uptime \in Uptime .. MaxTime /\ 0 \in Times /\ 0 <= Uptime
  BY WatchdogAssumption DEF Times
<1>2. TypeOK
  BY <1>1 DEF Init, TypeOK
<1>3. StoredIsStarted
  BY <1>1 DEF Init, StoredIsStarted
<1>4. BrakeIsEarly /\ HeardIsPast /\ BrakeInTime /\ DisarmInTime
  BY DEF Init, BrakeIsEarly, HeardIsPast, BrakeInTime, DisarmInTime, Silent
<1> QED  BY <1>2, <1>3, <1>4 DEF IInv

LEMMA HearIInv == IInv /\ Hear => IInv'
<1> SUFFICES ASSUME IInv, Hear PROVE IInv'
  OBVIOUS
<1> QED
  BY Numbers, WatchdogAssumption
  DEF Hear, IInv, TypeOK, StoredIsStarted, BrakeIsEarly, HeardIsPast, Times,
      BrakeInTime, DisarmInTime, Silent, Age

LEMMA AdvanceIInv == IInv /\ Advance => IInv'
<1> SUFFICES ASSUME IInv, Advance PROVE IInv'
  OBVIOUS
<1> QED
  BY Numbers, WatchdogAssumption
  DEF Advance, IInv, TypeOK, StoredIsStarted, BrakeIsEarly, HeardIsPast,
      Times, BrakeInTime, DisarmInTime, Silent, Age

LEMMA ReturnIInv == \A r \in requests : IInv /\ Return(r) => IInv'
<1> SUFFICES ASSUME NEW r \in requests, IInv, Return(r) PROVE IInv'
  OBVIOUS
<1>1. r.at \in Times
  BY DEF IInv, TypeOK, Requests
<1> QED
  BY <1>1, Numbers
  DEF Return, IInv, TypeOK, StoredIsStarted, BrakeIsEarly, HeardIsPast,
      Times, BrakeInTime, DisarmInTime, Silent, Age

\* A tick either starts a request, of the kind the age of the last frame
\* calls for, or finds the last action within the throttle, or no silence.
LEMMA TickIInv == IInv /\ WatchdogTick => IInv'
<1> SUFFICES ASSUME IInv, WatchdogTick PROVE IInv'
  OBVIOUS
<1>1. due' = FALSE /\ now' = now /\ heard' = heard /\ Decide
  BY DEF WatchdogTick
<1>2. ASSUME NEW ask \in {"BRAKE", "DISARM"}, Request(ask), heard # None,
             ask = "BRAKE" => Age <= DisarmAfter /\ Age > BrakeAfter,
             ask = "DISARM" => Age > DisarmAfter
      PROVE  IInv'
  <2>1. now \in Times /\ TypeOK
    BY Numbers DEF Times, IInv
  <2>2. TypeOK'
    <3>1. [ask |-> ask, at |-> now] \in Requests
      BY <1>2, <2>1 DEF Requests
    <3>2. requests' \in SUBSET Requests
      BY <1>2, <2>1, <3>1 DEF Request, TypeOK
    <3>3. startedAt' \in Times /\ disarmAt' \in Times /\ lastAction' \in Times
      BY <1>2, <2>1 DEF Request, TypeOK
    <3>4. now' \in Uptime .. MaxTime /\ heard' \in Uptime .. MaxTime \cup {None}
      BY <1>1, <2>1 DEF TypeOK
    <3>5. due' \in BOOLEAN
      BY <1>1
    <3> QED  BY <3>2, <3>3, <3>4, <3>5 DEF TypeOK
  <2>3. StoredIsStarted'
    <3>1. /\ startedAt' = now /\ now' = now /\ lastAction' = lastAction
          /\ disarmAt' \in {now, disarmAt}
      BY <1>1, <1>2 DEF Request
    <3>2. ASSUME NEW r \in requests' PROVE r.at <= now
      <4>1. CASE r \in requests
        <5>1. r.at \in Nat /\ r.at <= startedAt /\ startedAt <= now
          BY <4>1 DEF IInv, TypeOK, StoredIsStarted, Requests, Times
        <5> QED  BY <5>1, Numbers
      <4>2. CASE r = [ask |-> ask, at |-> now]
        BY <4>2, Numbers
      <4> QED  BY <1>2, <3>2, <4>1, <4>2 DEF Request
    <3> QED  BY <3>1, <3>2, Numbers DEF IInv, StoredIsStarted
  <2>4. BrakeIsEarly' /\ HeardIsPast'
    BY <1>1, <1>2, Numbers DEF Request, IInv, BrakeIsEarly, HeardIsPast, Age
  <2>5. BrakeInTime' /\ DisarmInTime'
    BY <1>1, <1>2, Numbers
    DEF Request, IInv, BrakeInTime, DisarmInTime, Silent, Age
  <2> QED  BY <2>2, <2>3, <2>4, <2>5 DEF IInv
<1>3. ASSUME Wait,
             heard = None \/ Age <= BrakeAfter \/ now - lastAction <= Throttle
      PROVE  IInv'
  <2>1. TypeOK' /\ StoredIsStarted' /\ BrakeIsEarly' /\ HeardIsPast'
    BY <1>1, <1>3
    DEF Wait, IInv, TypeOK, StoredIsStarted, BrakeIsEarly, HeardIsPast
  <2>2. BrakeInTime' /\ DisarmInTime'
    BY <1>1, <1>3, Numbers
    DEF Wait, IInv, StoredIsStarted, BrakeIsEarly, BrakeInTime, DisarmInTime,
        Silent, Age
  <2> QED  BY <2>1, <2>2 DEF IInv
<1> QED  BY <1>1, <1>2, <1>3, Numbers DEF Decide, Age

LEMMA NextIInv == IInv /\ [Next]_vars => IInv'
<1>1. IInv /\ UNCHANGED vars => IInv'
  BY DEF vars, IInv, TypeOK, StoredIsStarted, BrakeIsEarly, HeardIsPast,
         BrakeInTime, DisarmInTime, Silent, Age
<1> QED  BY <1>1, HearIInv, TickIInv, AdvanceIInv, ReturnIInv DEF Next

LEMMA Invariance == Spec => []IInv
  BY InitIInv, NextIInv, PTL DEF Spec

\* The times the watchdog keeps and its table of requests stay well typed.
THEOREM TypeCorrect == Spec => []TypeOK
<1>1. IInv => TypeOK
  BY DEF IInv
<1> QED  BY <1>1, Invariance, PTL

\* A silence past the first limit and past the throttle has been acted on.
THEOREM BrakeInTimeAlways == Spec => []BrakeInTime
<1>1. IInv => BrakeInTime
  BY DEF IInv
<1> QED  BY <1>1, Invariance, PTL

\* Past the second limit only the throttle after a BRAKE from before the limit
\* holds DISARM back, and DISARM is repeated within the throttle.
THEOREM DisarmInTimeAlways == Spec => []DisarmInTime
<1>1. IInv => DisarmInTime
  BY DEF IInv
<1> QED  BY <1>1, Invariance, PTL
=============================================================================
