------------------------- MODULE MotorBench_proofs -------------------------
(***************************************************************************)
(* For any drones, numbers of tests, throttles asked for and ceilings the  *)
(* scripts accept: types are kept, a motor is told to turn as asked within *)
(* the limits, and "OK" is honest.  TurnsAsAsked needs that a frame on its *)
(* way is its test, encoded, and that the sender has looked at the         *)
(* duration.  OkIsHonest needs to be followed back along the way of an     *)
(* answer: while no responder has given up, all that is between it and its *)
(* flight controller belongs to the test it waits for, a good answer is of *)
(* a test accepted, and so is a good Ack.                                  *)
(***************************************************************************)
EXTENDS MotorBench, SequenceTheorems, TLAPS

USE BenchAssumption DEF HARD_THROTTLE_CAP_PCT, HARD_DURATION_CAP_S

\* The tail of a sequence holds nothing the sequence does not.
LEMMA TailHolds ==
    ASSUME NEW S, NEW s \in Seq(S), s # <<>>
    PROVE  /\ Tail(s) \in Seq(S) /\ Head(s) \in S
           /\ \A i \in DOMAIN Tail(s) : i + 1 \in DOMAIN s /\ Tail(s)[i] = s[i + 1]
           /\ 1 \in DOMAIN s /\ Head(s) = s[1]
BY HeadTailProperties, EmptySeq

\* What is appended is at the end, and the rest is as before.
LEMMA AppendHolds ==
    ASSUME NEW S, NEW s \in Seq(S), NEW e \in S
    PROVE  /\ Append(s, e) \in Seq(S)
           /\ \A i \in DOMAIN Append(s, e) :
                 \/ i \in DOMAIN s /\ Append(s, e)[i] = s[i]
                 \/ Append(s, e)[i] = e
           /\ DOMAIN s \subseteq DOMAIN Append(s, e)
           /\ \A i \in DOMAIN s : Append(s, e)[i] = s[i]
           /\ Len(Append(s, e)) = Len(s) + 1
           /\ Append(s, e)[Len(s) + 1] = e
           /\ DOMAIN Append(s, e) = 1 .. Len(s) + 1
BY AppendProperties

\* Limits give numbers within them.
LEMMA Limited ==
    ASSUME NEW f \in Frames
    PROVE  /\ Throttle(f) \in 0 .. HARD_THROTTLE_CAP_PCT
           /\ Duration(f) \in 1 .. HARD_DURATION_CAP_S
BY DEF Frames, Throttle, Duration, Clamp

\* A test that has been sent, encoded, is a frame.
LEMMA Encoded ==
    ASSUME NEW a \in Asked, NEW n \in Number PROVE Encode(n, a) \in Frames
<1>1. a.throttle \in Int /\ a.duration \in Int
  BY DEF Asked
<1>2. a.throttle % 256 \in 0 .. 255 /\ a.duration % 256 \in 0 .. 255
  BY <1>1
<1> QED
  BY <1>2 DEF Encode, Frames, Asked

----------------------------------------------------------------------------
(* The type invariant, in parts *)

SenderTypes ==
    /\ tests \in Seq(Asked) /\ Len(tests) <= MaxTests
    /\ told \in [Number -> {None, "ok", "refused", "no ack"}]
    /\ waiting \in 0 .. Len(tests)
RadioTypes == up \in [Drones -> Seq(Frames)] /\ down \in Seq(Acks)
DroneTypes ==
    /\ at \in [Drones -> Frames \cup {None}]
    /\ fcIn \in [Drones -> Seq(Commands)] /\ fcOut \in [Drones -> Seq(Answers)]
HistoryTypes == accepted \subseteq Number \X Drones /\ late \subseteq Drones

LEMMA TypeParts ==
    TypeOK <=> SenderTypes /\ RadioTypes /\ DroneTypes /\ HistoryTypes
BY DEF TypeOK, SenderTypes, RadioTypes, DroneTypes, HistoryTypes

LEMMA ZeroIn == ASSUME NEW k \in Nat PROVE 0 \in 0 .. k
OBVIOUS

\* Whether the radio brings an Ack or not, what is on its way is Acks.
LEMMA ReplyType ==
    ASSUME RadioTypes, NEW f \in Frames, NEW success \in BOOLEAN,
           Reply(f, success)
    PROVE  down' \in Seq(Acks)
<1>1. [seq |-> f.seq, success |-> success] \in Acks
  BY DEF Frames, Acks
<1> QED
  BY <1>1, AppendHolds DEF Reply, RadioTypes

LEMMA ReceiveType ==
    ASSUME RadioTypes, NEW d \in Drones, Receive(d)
    PROVE  First(d) \in Frames /\ up' \in [Drones -> Seq(Frames)]
BY TailHolds DEF Receive, First, RadioTypes

\* The sender's part: a test is filed under the next number.
LEMMA SenderStep ==
    ASSUME SenderTypes, [Next]_vars PROVE SenderTypes'
<1> DEFINE Told == {None, "ok", "refused", "no ack"}
<1>1. tests \in Seq(Asked) /\ Len(tests) \in Nat
  <2>1. tests \in Seq(Asked)
    BY DEF SenderTypes
  <2> QED
    BY <2>1, LenProperties
<1>2. ASSUME NEW a \in Asked, NEW heard \in SUBSET Drones, Run(a, heard)
      PROVE  SenderTypes'
  <2>1. /\ tests' = Append(tests, a) /\ waiting' = Len(tests) + 1
        /\ told' = told /\ Len(tests) < MaxTests
    BY <1>2 DEF Run
  <2>2. tests' \in Seq(Asked) /\ Len(tests') = Len(tests) + 1
    BY <2>1, <1>1, AppendHolds
  <2>3. told' \in [Number -> Told]
    BY <2>1 DEF SenderTypes
  <2>4. Len(tests') <= MaxTests /\ waiting' \in 0 .. Len(tests')
    BY <2>1, <2>2, <1>1
  <2> QED
    BY <2>2, <2>3, <2>4 DEF SenderTypes
<1>3. ASSUME NEW outcome \in Told, Exit(outcome), UNCHANGED tests
      PROVE  SenderTypes'
  <2>1. told' \in [Number -> Told]
    BY <1>3 DEF Exit, SenderTypes
  <2>2. 0 \in 0 .. Len(tests)
    BY <1>1, ZeroIn
  <2>3. waiting' \in 0 .. Len(tests')
    BY <1>1, <1>3, <2>2 DEF Exit
  <2> QED
    BY <1>3, <2>1, <2>3 DEF SenderTypes
<1>4. CASE Hear
  BY <1>4, <1>3 DEF Hear, SenderTypes
<1>5. CASE NoAck
  BY <1>5, <1>3 DEF NoAck
<1>6. CASE UNCHANGED sender
  BY <1>6 DEF sender, SenderTypes
<1>7. ASSUME NEW d \in Drones, Respond(d) PROVE UNCHANGED sender
  BY <1>7 DEF Respond, Ignore, Refuse, Dispatch, Answered, NoAnswer
<1>8. ASSUME NEW d \in Drones, NEW success \in BOOLEAN, Serve(d, success)
      PROVE  UNCHANGED sender
  BY <1>8 DEF Serve
<1>9. CASE UNCHANGED vars
  BY <1>6, <1>9 DEF vars, sender
<1> QED
  BY <1>2, <1>4, <1>5, <1>6, <1>7, <1>8, <1>9 DEF Next

\* A number a test is filed under is a number.
LEMMA NumberOfTest ==
    ASSUME NEW s \in Seq(Asked), Len(s) <= MaxTests
    PROVE  DOMAIN s = 1 .. Len(s) /\ DOMAIN s \subseteq Number
<1>1. DOMAIN s = 1 .. Len(s) /\ Len(s) \in Nat
  BY LenProperties
<1>2. 1 .. Len(s) \subseteq 1 .. MaxTests
  BY <1>1
<1> QED
  BY <1>1, <1>2 DEF Number

----------------------------------------------------------------------------

LEMMA TypeInit == Init => TypeOK
<1> SUFFICES ASSUME Init PROVE TypeOK
  OBVIOUS
<1>1. SenderTypes
  BY LenProperties, EmptySeq DEF Init, SenderTypes
<1>2. RadioTypes /\ DroneTypes
  BY EmptySeq DEF Init, RadioTypes, DroneTypes
<1>3. HistoryTypes
  BY DEF Init, HistoryTypes
<1> QED
  BY <1>1, <1>2, <1>3, TypeParts

LEMMA TypeStep == TypeOK /\ [Next]_vars => TypeOK'
<1> SUFFICES ASSUME SenderTypes, RadioTypes, DroneTypes, HistoryTypes,
                    [Next]_vars
             PROVE  SenderTypes' /\ RadioTypes' /\ DroneTypes' /\ HistoryTypes'
  BY TypeParts DEF TypeOK, SenderTypes, RadioTypes, DroneTypes, HistoryTypes
<1>0. SenderTypes'
  BY SenderStep
<1> SUFFICES RadioTypes' /\ DroneTypes' /\ HistoryTypes'
  BY <1>0
<1>1. ASSUME NEW a \in Asked, NEW heard \in SUBSET Drones, Run(a, heard)
      PROVE  RadioTypes' /\ DroneTypes' /\ HistoryTypes'
  <2>1. Len(tests) + 1 \in Number
    <3>1. tests \in Seq(Asked)
      BY DEF SenderTypes
    <3>2. Len(tests) \in Nat /\ Len(tests) < MaxTests
      BY <1>1, <3>1, LenProperties DEF Run
    <3> QED
      BY <3>2 DEF Number
  <2>2. Encode(Len(tests) + 1, a) \in Frames
    BY <2>1, Encoded
  <2>3. \A d \in Drones : /\ up[d] \in Seq(Frames)
                          /\ Append(up[d], Encode(Len(tests) + 1, a)) \in Seq(Frames)
    BY <2>2, AppendHolds DEF RadioTypes
  <2>4. RadioTypes'
    BY <1>1, <2>3 DEF Run, RadioTypes
  <2> QED
    BY <1>1, <2>4 DEF Run, history, DroneTypes, HistoryTypes
<1>2. CASE Hear
  <2>1. down' \in Seq(Acks)
    BY <1>2, TailHolds DEF Hear, RadioTypes
  <2> QED
    BY <1>2, <2>1 DEF Hear, history, RadioTypes, DroneTypes, HistoryTypes
<1>3. CASE NoAck
  BY <1>3 DEF NoAck, history, RadioTypes, DroneTypes, HistoryTypes
<1>4. ASSUME NEW d \in Drones, Ignore(d) \/ Refuse(d)
      PROVE  RadioTypes' /\ DroneTypes' /\ HistoryTypes'
  <2>1. First(d) \in Frames /\ up' \in [Drones -> Seq(Frames)]
    BY <1>4, ReceiveType DEF Ignore, Refuse
  <2>2. down' \in Seq(Acks)
    BY <1>4, <2>1, ReplyType DEF Ignore, Refuse, RadioTypes
  <2> QED
    BY <1>4, <2>1, <2>2
    DEF Ignore, Refuse, history, RadioTypes, DroneTypes, HistoryTypes
<1>5. ASSUME NEW d \in Drones, Dispatch(d)
      PROVE  RadioTypes' /\ DroneTypes' /\ HistoryTypes'
  <2> DEFINE c == [test |-> First(d).test, duration |-> Duration(First(d)),
                   throttle |-> Throttle(First(d))]
  <2>1. First(d) \in Frames /\ up' \in [Drones -> Seq(Frames)]
    BY <1>5, ReceiveType DEF Dispatch
  <2>2. c \in Commands
    BY <2>1, Limited DEF Frames, Commands
  <2>3. Append(fcIn[d], c) \in Seq(Commands)
    BY <2>2, AppendHolds DEF DroneTypes
  <2>4. DroneTypes'
    BY <1>5, <2>1, <2>3 DEF Dispatch, DroneTypes
  <2> QED
    BY <1>5, <2>1, <2>4 DEF Dispatch, history, RadioTypes, HistoryTypes
<1>6. ASSUME NEW d \in Drones, Answered(d)
      PROVE  RadioTypes' /\ DroneTypes' /\ HistoryTypes'
  <2>1. Head(fcOut[d]) \in Answers /\ Tail(fcOut[d]) \in Seq(Answers)
    BY <1>6, TailHolds DEF Answered, DroneTypes
  <2>2. at[d] \in Frames /\ Head(fcOut[d]).success \in BOOLEAN
    BY <1>6, <2>1 DEF Answered, DroneTypes, Answers
  <2>3. down' \in Seq(Acks)
    BY <1>6, <2>2, ReplyType DEF Answered
  <2> QED
    BY <1>6, <2>1, <2>3
    DEF Answered, history, RadioTypes, DroneTypes, HistoryTypes
<1>7. ASSUME NEW d \in Drones, NoAnswer(d)
      PROVE  RadioTypes' /\ DroneTypes' /\ HistoryTypes'
  <2>1. at[d] \in Frames
    BY <1>7 DEF NoAnswer, DroneTypes
  <2>2. down' \in Seq(Acks)
    BY <1>7, <2>1, ReplyType DEF NoAnswer
  <2> QED
    BY <1>7, <2>2 DEF NoAnswer, RadioTypes, DroneTypes, HistoryTypes
<1>8. ASSUME NEW d \in Drones, NEW success \in BOOLEAN, Serve(d, success)
      PROVE  RadioTypes' /\ DroneTypes' /\ HistoryTypes'
  <2> DEFINE n == Head(fcIn[d]).test
             a == [test |-> n, success |-> success]
  <2>0. fcIn[d] \in Seq(Commands) /\ fcIn[d] # <<>>
    BY <1>8 DEF Serve, DroneTypes
  <2>1. Head(fcIn[d]) \in Commands /\ Tail(fcIn[d]) \in Seq(Commands)
    BY <2>0, TailHolds
  <2>6. n \in Number
    BY <2>1 DEF Commands
  <2>2. a \in Answers
    BY <2>6 DEF Answers
  <2>3. Append(fcOut[d], a) \in Seq(Answers)
    BY <2>2, AppendHolds DEF DroneTypes
  <2>4. DroneTypes'
    BY <1>8, <2>1, <2>3 DEF Serve, DroneTypes
  <2>5. HistoryTypes'
    BY <1>8, <2>6 DEF Serve, HistoryTypes
  <2> QED
    BY <1>8, <2>4, <2>5 DEF Serve, RadioTypes
<1>9. CASE UNCHANGED vars
  BY <1>9 DEF vars, RadioTypes, DroneTypes, HistoryTypes
<1> QED
  BY <1>1, <1>2, <1>3, <1>4, <1>5, <1>6, <1>7, <1>8, <1>9 DEF Next, Respond

\* Every variable keeps its type, for any constants.
THEOREM TypeCorrect == Spec => []TypeOK
BY TypeInit, TypeStep, PTL DEF Spec

----------------------------------------------------------------------------
(* What is on its way to a motor *)

\* A test that is sent has a duration the sender has looked at, and the
\* operator has been told only of tests that were sent.
Sent ==
    /\ \A n \in DOMAIN tests : tests[n].duration \in 1 .. HARD_DURATION_CAP_S
    /\ \A n \in Number : told[n] = "ok" => n \in DOMAIN tests

\* A frame is its test, encoded.
IsTest(f) == f.test \in DOMAIN tests /\ f = Encode(f.test, tests[f.test])
InFlight ==
    \A d \in Drones : /\ \A i \in DOMAIN up[d] : IsTest(up[d][i])
                      /\ at[d] # None => IsTest(at[d])

\* Of the bytes a test is sent in, the responder keeps the duration, and of a
\* throttle that is a byte all but the cap cuts.
LEMMA LimitsKeep ==
    ASSUME NEW a \in Asked, NEW n, a.duration \in 1 .. HARD_DURATION_CAP_S
    PROVE  /\ Duration(Encode(n, a)) = a.duration
           /\ a.throttle \in 0 .. 255 =>
                Throttle(Encode(n, a)) = Clamp(0, HARD_THROTTLE_CAP_PCT, a.throttle)
<1>1. a.duration \in Int /\ 1 <= a.duration /\ a.duration <= 10
  BY DEF Asked
<1>2. /\ Encode(n, a).throttle = a.throttle % 256
      /\ Encode(n, a).duration = a.duration % 256
  BY DEF Encode
<1>3. a.duration % 256 = a.duration
  BY <1>1
<1>4. Duration(Encode(n, a)) = a.duration
  BY <1>1, <1>2, <1>3 DEF Duration, Clamp
<1>5. ASSUME a.throttle \in 0 .. 255 PROVE a.throttle % 256 = a.throttle
  BY <1>5
<1> QED
  BY <1>2, <1>4, <1>5 DEF Throttle

\* Tests are only added, each under the next number.
LEMMA TestsGrow ==
    ASSUME SenderTypes, [Next]_vars
    PROVE  /\ DOMAIN tests \subseteq DOMAIN tests'
           /\ \A n \in DOMAIN tests : tests'[n] = tests[n]
<1>1. tests \in Seq(Asked)
  BY DEF SenderTypes
<1>2. ASSUME NEW a \in Asked, NEW heard \in SUBSET Drones, Run(a, heard)
      PROVE  /\ DOMAIN tests \subseteq DOMAIN tests'
             /\ \A n \in DOMAIN tests : tests'[n] = tests[n]
  BY <1>1, <1>2, AppendHolds DEF Run
<1>3. CASE UNCHANGED tests
  BY <1>3
<1>4. Hear \/ NoAck => UNCHANGED tests
  BY DEF Hear, NoAck
<1>5. \A d \in Drones : Respond(d) => UNCHANGED tests
  BY DEF Respond, Ignore, Refuse, Dispatch, Answered, NoAnswer, sender
<1>6. \A d \in Drones, success \in BOOLEAN : Serve(d, success) => UNCHANGED tests
  BY DEF Serve, sender
<1>7. UNCHANGED vars => UNCHANGED tests
  BY DEF vars
<1> QED
  BY <1>2, <1>3, <1>4, <1>5, <1>6, <1>7 DEF Next

LEMMA StillTest ==
    ASSUME SenderTypes, [Next]_vars, NEW f, IsTest(f)
    PROVE  f.test \in DOMAIN tests' /\ f = Encode(f.test, tests'[f.test])
BY TestsGrow DEF IsTest

LEMMA SentStep ==
    ASSUME SenderTypes, Sent, [Next]_vars PROVE Sent'
<1>1. tests \in Seq(Asked) /\ told \in [Number -> {None, "ok", "refused", "no ack"}]
  BY DEF SenderTypes
<1>2. ASSUME NEW a \in Asked, NEW heard \in SUBSET Drones, Run(a, heard)
      PROVE  Sent'
  <2>1. /\ tests' = Append(tests, a) /\ told' = told
        /\ a.duration \in 1 .. HARD_DURATION_CAP_S
    BY <1>2 DEF Run
  <2>0. tests \in Seq(Asked)
    BY <1>1
  <2>2. \A n \in DOMAIN Append(tests, a) :
           \/ n \in DOMAIN tests /\ Append(tests, a)[n] = tests[n]
           \/ Append(tests, a)[n] = a
    BY ONLY <2>0, a \in Asked, AppendHolds
  <2>3. DOMAIN tests \subseteq DOMAIN Append(tests, a)
    BY <1>1, AppendHolds
  <2> QED
    BY <2>1, <2>2, <2>3 DEF Sent
<1>3. ASSUME NEW outcome, Exit(outcome), UNCHANGED tests, waiting # 0
      PROVE  Sent'
  <2>1. waiting \in DOMAIN tests
    <3>1. waiting \in 0 .. Len(tests) /\ DOMAIN tests = 1 .. Len(tests)
      BY NumberOfTest DEF SenderTypes
    <3>2. Len(tests) \in Nat
      BY <1>1, LenProperties
    <3> QED
      BY <1>3, <3>1, <3>2
  <2>2. \A n \in Number : n # waiting => told'[n] = told[n]
    BY <1>1, <1>3 DEF Exit
  <2> QED
    BY <1>3, <2>1, <2>2 DEF Sent
<1>4. CASE Hear
  BY <1>4, <1>3 DEF Hear, Sent
<1>5. CASE NoAck
  BY <1>5, <1>3 DEF NoAck
<1>6. CASE UNCHANGED sender
  BY <1>6 DEF sender, Sent
<1>7. ASSUME NEW d \in Drones, Respond(d) PROVE UNCHANGED sender
  BY <1>7 DEF Respond, Ignore, Refuse, Dispatch, Answered, NoAnswer
<1>8. ASSUME NEW d \in Drones, NEW success \in BOOLEAN, Serve(d, success)
      PROVE  UNCHANGED sender
  BY <1>8 DEF Serve
<1>9. CASE UNCHANGED vars
  BY <1>6, <1>9 DEF vars, sender
<1> QED
  BY <1>2, <1>4, <1>5, <1>6, <1>7, <1>8, <1>9 DEF Next

LEMMA InFlightStep ==
    ASSUME SenderTypes, RadioTypes, DroneTypes, InFlight, [Next]_vars
    PROVE  InFlight'
<1> DEFINE Still(f) == f.test \in DOMAIN tests' /\ f = Encode(f.test, tests'[f.test])
<1>1. \A f : IsTest(f) => Still(f)
  BY StillTest
<1> SUFFICES ASSUME NEW d \in Drones
             PROVE  /\ \A i \in DOMAIN up'[d] : Still(up'[d][i])
                    /\ at'[d] # None => Still(at'[d])
  BY DEF InFlight, IsTest
<1>2. /\ \A i \in DOMAIN up[d] : Still(up[d][i])
      /\ at[d] # None => Still(at[d])
  BY <1>1 DEF InFlight
<1>3. up[d] \in Seq(Frames) /\ at \in [Drones -> Frames \cup {None}]
  BY DEF RadioTypes, DroneTypes
<1> HIDE DEF Still
<1>4. ASSUME NEW a \in Asked, NEW heard \in SUBSET Drones, Run(a, heard)
      PROVE  /\ \A i \in DOMAIN up'[d] : Still(up'[d][i])
             /\ at'[d] # None => Still(at'[d])
  <2> DEFINE n == Len(tests) + 1
             f == Encode(n, a)
  <2>1. tests \in Seq(Asked) /\ Len(tests) \in Nat /\ Len(tests) < MaxTests
    <3>1. tests \in Seq(Asked)
      BY DEF SenderTypes
    <3> QED
      BY <1>4, <3>1, LenProperties DEF Run
  <2>2. n \in DOMAIN Append(tests, a) /\ Append(tests, a)[n] = a
    BY <2>1, AppendHolds
  <2>3. Still(f)
    <3>1. f.test = n
      BY DEF Encode
    <3>2. tests' = Append(tests, a)
      BY <1>4 DEF Run
    <3> QED
      BY <2>2, <3>1, <3>2 DEF Still
  <2>4. f \in Frames
    <3>1. n \in Number
      BY <2>1 DEF Number
    <3> QED
      BY <3>1, Encoded
  <2>5. \A i \in DOMAIN Append(up[d], f) : Still(Append(up[d], f)[i])
    <3>1. \A i \in DOMAIN Append(up[d], f) :
             \/ i \in DOMAIN up[d] /\ Append(up[d], f)[i] = up[d][i]
             \/ Append(up[d], f)[i] = f
      BY <1>3, <2>4, AppendHolds
    <3> QED
      BY <1>2, <2>3, <3>1
  <2>6. up'[d] = up[d] \/ up'[d] = Append(up[d], f)
    BY <1>4 DEF Run
  <2>7. at' = at
    BY <1>4 DEF Run
  <2> QED
    BY <1>2, <2>5, <2>6, <2>7
<1>5. ASSUME NEW e \in Drones, Ignore(e) \/ Refuse(e) \/ Dispatch(e)
      PROVE  /\ \A i \in DOMAIN up'[d] : Still(up'[d][i])
             /\ at'[d] # None => Still(at'[d])
  <2>1. Receive(e) /\ (at' = at \/ at' = [at EXCEPT ![e] = First(e)])
    BY <1>5 DEF Ignore, Refuse, Dispatch
  <2>2. \/ up'[d] = up[d]
        \/ e = d /\ up[d] # <<>> /\ up'[d] = Tail(up[d])
    BY <2>1 DEF Receive, RadioTypes
  <2>3. \A i \in DOMAIN up'[d] : Still(up'[d][i])
    <3>1. CASE up[d] # <<>> /\ up'[d] = Tail(up[d])
      <4>1. \A i \in DOMAIN Tail(up[d]) :
               i + 1 \in DOMAIN up[d] /\ Tail(up[d])[i] = up[d][i + 1]
        BY <1>3, <3>1, TailHolds
      <4> QED
        BY <1>2, <3>1, <4>1
    <3> QED
      BY <1>2, <2>2, <3>1
  <2>4. e = d => Still(First(d))
    <3> SUFFICES ASSUME e = d PROVE Still(First(d))
      OBVIOUS
    <3>1. up[d] # <<>>
      BY <2>1 DEF Receive
    <3>2. 1 \in DOMAIN up[d] /\ Head(up[d]) = up[d][1]
      BY <1>3, <3>1, TailHolds
    <3> QED
      BY <1>2, <3>2 DEF First
  <2> QED
    BY <1>2, <1>3, <2>1, <2>3, <2>4
<1>6. ASSUME NEW e \in Drones, Answered(e) \/ NoAnswer(e)
      PROVE  /\ \A i \in DOMAIN up'[d] : Still(up'[d][i])
             /\ at'[d] # None => Still(at'[d])
  BY <1>2, <1>3, <1>6 DEF Answered, NoAnswer
<1>7. CASE UNCHANGED <<up, at>>
  BY <1>2, <1>7
<1>8. Hear \/ NoAck => UNCHANGED <<up, at>>
  BY DEF Hear, NoAck
<1>9. \A e \in Drones, success \in BOOLEAN : Serve(e, success) => UNCHANGED <<up, at>>
  BY DEF Serve
<1>10. UNCHANGED vars => UNCHANGED <<up, at>>
  BY DEF vars
<1> QED
  BY <1>4, <1>5, <1>6, <1>7, <1>8, <1>9, <1>10 DEF Next, Respond

\* A command a responder passes on is as the operator asked, within the limits.
LEMMA TurnsStep ==
    ASSUME SenderTypes, RadioTypes, DroneTypes, Sent, InFlight, TurnsAsAsked,
           [Next]_vars
    PROVE  TurnsAsAsked'
<1> DEFINE As(c, d) == /\ c.test \in DOMAIN tests'
                       /\ tests'[c.test].target \in {d, Broadcast}
                       /\ c.duration = tests'[c.test].duration
                       /\ c.throttle <= Ceiling
                       /\ tests'[c.test].throttle \in 0 .. 255 =>
                            c.throttle = Clamp(0, HARD_THROTTLE_CAP_PCT,
                                               tests'[c.test].throttle)
<1> SUFFICES ASSUME NEW d \in Drones
             PROVE  \A i \in DOMAIN fcIn'[d] : As(fcIn'[d][i], d)
  BY DEF TurnsAsAsked
<1>1. \A i \in DOMAIN fcIn[d] : As(fcIn[d][i], d)
  <2> SUFFICES ASSUME NEW i \in DOMAIN fcIn[d] PROVE As(fcIn[d][i], d)
    OBVIOUS
  <2>1. fcIn[d][i].test \in DOMAIN tests
    BY DEF TurnsAsAsked
  <2>2. /\ fcIn[d][i].test \in DOMAIN tests'
        /\ tests'[fcIn[d][i].test] = tests[fcIn[d][i].test]
    BY <2>1, TestsGrow
  <2> QED BY <2>2 DEF TurnsAsAsked
<1> HIDE DEF As
<1>2. fcIn[d] \in Seq(Commands) /\ fcIn \in [Drones -> Seq(Commands)]
  BY DEF DroneTypes
<1>3. CASE UNCHANGED fcIn
  BY <1>1, <1>3
<1>4. CASE Dispatch(d)
  <2> DEFINE f == First(d)
             c == [test |-> f.test, duration |-> Duration(f),
                   throttle |-> Throttle(f)]
  <2>1. /\ Receive(d) /\ f.target \in {d, Broadcast} /\ Throttle(f) <= Ceiling
        /\ fcIn' = [fcIn EXCEPT ![d] = Append(@, c)] /\ tests' = tests
    BY <1>4 DEF Dispatch, ForMe, sender
  <2>2. f \in Frames
    BY <2>1, ReceiveType
  <2>3. IsTest(f)
    <3>1. up[d] \in Seq(Frames) /\ up[d] # <<>>
      BY <2>1 DEF Receive, RadioTypes
    <3>2. 1 \in DOMAIN up[d] /\ Head(up[d]) = up[d][1]
      BY <3>1, TailHolds
    <3> QED
      BY <3>2 DEF InFlight, First
  <2> HIDE DEF f
  <2>4. f.test \in DOMAIN tests /\ f = Encode(f.test, tests[f.test])
    BY <2>3 DEF IsTest
  <2> DEFINE a == tests[f.test]
  <2>5. a \in Asked /\ a.duration \in 1 .. HARD_DURATION_CAP_S
    <3>1. tests \in Seq(Asked)
      BY DEF SenderTypes
    <3> QED
      BY <2>4, <3>1, NumberOfTest, ElementOfSeq, LenProperties DEF Sent
  <2>6. /\ Duration(f) = a.duration
        /\ a.throttle \in 0 .. 255 =>
             Throttle(f) = Clamp(0, HARD_THROTTLE_CAP_PCT, a.throttle)
    BY <2>4, <2>5, LimitsKeep
  <2>7. f.target = a.target
    BY <2>4 DEF Encode
  <2>8. As(c, d)
    BY <2>1, <2>4, <2>6, <2>7 DEF As
  <2>9. c \in Commands
    BY <2>2, Limited DEF Frames, Commands
  <2> HIDE DEF c
  <2>10. \A i \in DOMAIN Append(fcIn[d], c) :
            \/ i \in DOMAIN fcIn[d] /\ Append(fcIn[d], c)[i] = fcIn[d][i]
            \/ Append(fcIn[d], c)[i] = c
    BY <1>2, <2>9, AppendHolds
  <2>11. fcIn'[d] = Append(fcIn[d], c)
    BY <1>2, <2>1
  <2> QED
    BY <1>1, <2>8, <2>10, <2>11
<1>5. ASSUME NEW e \in Drones, Dispatch(e), e # d PROVE fcIn'[d] = fcIn[d]
  BY <1>5 DEF Dispatch
<1>6. ASSUME NEW e \in Drones, NEW success \in BOOLEAN, Serve(e, success)
      PROVE  \/ fcIn'[d] = fcIn[d]
             \/ fcIn[d] # <<>> /\ fcIn'[d] = Tail(fcIn[d])
  BY <1>2, <1>6 DEF Serve
<1>7. CASE fcIn[d] # <<>> /\ fcIn'[d] = Tail(fcIn[d])
  <2>1. \A i \in DOMAIN Tail(fcIn[d]) :
           i + 1 \in DOMAIN fcIn[d] /\ Tail(fcIn[d])[i] = fcIn[d][i + 1]
    BY <1>2, <1>7, TailHolds
  <2> QED
    BY <1>1, <1>7, <2>1
<1>8. CASE fcIn'[d] = fcIn[d]
  BY <1>1, <1>8
<1>9. \A a \in Asked, heard \in SUBSET Drones : Run(a, heard) => UNCHANGED fcIn
  BY DEF Run
<1>10. Hear \/ NoAck \/ UNCHANGED vars => UNCHANGED fcIn
  BY DEF Hear, NoAck, vars
<1>11. \A e \in Drones : Ignore(e) \/ Refuse(e) \/ Answered(e) \/ NoAnswer(e)
                           => UNCHANGED fcIn
  BY DEF Ignore, Refuse, Answered, NoAnswer
<1> QED
  BY <1>3, <1>4, <1>5, <1>6, <1>7, <1>8, <1>9, <1>10, <1>11 DEF Next, Respond

\* Whatever the operator asks for and whatever the ceilings, a motor turns for
\* the test and the seconds asked of its drone and no faster than the ceiling,
\* and a throttle that is a byte turns it as asked, up to the cap, or not at all.
THEOREM TurnsAsAskedAlways == Spec => []TurnsAsAsked
<1> DEFINE IInv == TypeOK /\ Sent /\ InFlight /\ TurnsAsAsked
<1>1. Init => IInv
  <2> SUFFICES ASSUME Init PROVE Sent /\ InFlight /\ TurnsAsAsked
    BY TypeInit
  <2>1. Sent
    BY NoneIsApart, EmptySeq DEF Init, Sent
  <2>2. DOMAIN <<>> = {}
    OBVIOUS
  <2>3. InFlight
    BY <2>2 DEF Init, InFlight
  <2> QED
    BY <2>1, <2>2, <2>3 DEF Init, TurnsAsAsked
<1>2. IInv /\ [Next]_vars => IInv'
  <2> SUFFICES ASSUME TypeOK, Sent, InFlight, TurnsAsAsked, [Next]_vars PROVE IInv'
    OBVIOUS
  <2>1. TypeOK'
    BY TypeStep
  <2> QED
    BY <2>1, TypeParts, SentStep, InFlightStep, TurnsStep
<1> QED
  BY <1>1, <1>2, PTL DEF Spec

----------------------------------------------------------------------------
(* What an Ack can say while no responder has given up *)

\* Between a responder and its flight controller is nothing but the test it
\* waits for, as a command or as an answer, and a good answer is of a test
\* accepted.
OneTest(d) ==
    \/ fcIn[d] = <<>> /\ fcOut[d] = <<>>
    \/ /\ at[d] # None /\ fcOut[d] = <<>>
       /\ \E c \in Commands : fcIn[d] = <<c>> /\ c.test = at[d].test
    \/ /\ at[d] # None /\ fcIn[d] = <<>>
       /\ \E a \in Answers : /\ fcOut[d] = <<a>> /\ a.test = at[d].test
                             /\ a.success => <<a.test, d>> \in accepted

\* Some test of the Ack's number has been accepted.
Honest(ack) ==
    ack.success => \E n \in DOMAIN tests : /\ tests[n].seq = ack.seq
                                          /\ \E d \in Drones : <<n, d>> \in accepted

OneByOne ==
    late = {} => /\ \A d \in Drones : OneTest(d)
                 /\ \A i \in DOMAIN down : Honest(down[i])

\* A sequence of one thing, filled and emptied.
LEMMA OneElement ==
    ASSUME NEW e
    PROVE  /\ Append(<<>>, e) = <<e>> /\ Head(<<e>>) = e /\ Tail(<<e>>) = <<>>
           /\ <<e>> # <<>>
OBVIOUS

LEMMA OneByOneStep ==
    ASSUME SenderTypes, RadioTypes, DroneTypes, InFlight, OneByOne, [Next]_vars
    PROVE  OneByOne'
<1> SUFFICES ASSUME late' = {}
             PROVE  /\ \A d \in Drones : OneTest(d)'
                    /\ \A i \in DOMAIN down' : Honest(down[i])'
  BY DEF OneByOne
<1>1. ASSUME NEW d \in Drones, NoAnswer(d) PROVE FALSE
  BY <1>1 DEF NoAnswer
<1>2. late' = late \/ \E d \in Drones : NoAnswer(d)
  BY DEF Next, vars, history, Run, Hear, NoAck, Respond, Ignore, Refuse,
         Dispatch, Answered, Serve
<1>3. /\ \A d \in Drones : OneTest(d)
      /\ \A i \in DOMAIN down : Honest(down[i])
  BY <1>1, <1>2 DEF OneByOne
<1>4. accepted \subseteq accepted'
  BY DEF Next, vars, history, Run, Hear, NoAck, Respond, Ignore, Refuse,
         Dispatch, Answered, NoAnswer, Serve
<1> DEFINE Still(ack) == ack.success =>
               \E n \in DOMAIN tests' : /\ tests'[n].seq = ack.seq
                                       /\ \E d \in Drones : <<n, d>> \in accepted'
<1>5. \A ack : Honest(ack) => Still(ack)
  BY <1>4, TestsGrow DEF Honest
<1>6. \A i \in DOMAIN down : Still(down[i])
  BY <1>3, <1>5
<1>7. down \in Seq(Acks)
  BY DEF RadioTypes
<1>8. /\ fcIn \in [Drones -> Seq(Commands)] /\ fcOut \in [Drones -> Seq(Answers)]
      /\ at \in [Drones -> Frames \cup {None}]
  BY DEF DroneTypes
<1> SUFFICES /\ \A d \in Drones : OneTest(d)'
             /\ \A i \in DOMAIN down' : Still(down'[i])
  BY DEF Honest
<1>9. ASSUME NEW f \in Frames, NEW success \in BOOLEAN, Reply(f, success),
             Still([seq |-> f.seq, success |-> success])
      PROVE  \A i \in DOMAIN down' : Still(down'[i])
  <2> DEFINE ack == [seq |-> f.seq, success |-> success]
  <2>1. ack \in Acks
    BY DEF Frames, Acks
  <2>2. down' = down \/ down' = Append(down, ack)
    BY <1>9 DEF Reply
  <2>3. Still(ack)
    BY <1>9
  <2> HIDE DEF ack, Still
  <2>4. \A i \in DOMAIN Append(down, ack) :
           \/ i \in DOMAIN down /\ Append(down, ack)[i] = down[i]
           \/ Append(down, ack)[i] = ack
    BY <1>7, <2>1, AppendHolds
  <2> QED
    BY <1>6, <2>2, <2>3, <2>4
<1>10. ASSUME UNCHANGED <<at, fcIn, fcOut>>, NEW d \in Drones
       PROVE  OneTest(d)'
  BY <1>3, <1>4, <1>10 DEF OneTest
<1>11. ASSUME NEW a \in Asked, NEW heard \in SUBSET Drones, Run(a, heard)
       PROVE  /\ \A d \in Drones : OneTest(d)'
              /\ \A i \in DOMAIN down' : Still(down'[i])
  <2>1. UNCHANGED <<down, at, fcIn, fcOut>>
    BY <1>11 DEF Run
  <2> HIDE DEF Still
  <2> QED
    BY <1>6, <1>10, <2>1
<1>12. CASE Hear
  <2>1. UNCHANGED <<at, fcIn, fcOut>> /\ down # <<>> /\ down' = Tail(down)
    BY <1>12 DEF Hear
  <2>2. \A i \in DOMAIN Tail(down) :
           i + 1 \in DOMAIN down /\ Tail(down)[i] = down[i + 1]
    BY <1>7, <2>1, TailHolds
  <2> HIDE DEF Still
  <2> QED
    BY <1>6, <1>10, <2>1, <2>2
<1>13. CASE UNCHANGED <<down, at, fcIn, fcOut>>
  <2> HIDE DEF Still
  <2> QED
    BY <1>6, <1>10, <1>13
<1>14. NoAck \/ UNCHANGED vars => UNCHANGED <<down, at, fcIn, fcOut>>
  BY DEF NoAck, vars
<1>15. ASSUME NEW e \in Drones, Ignore(e)
       PROVE  UNCHANGED <<down, at, fcIn, fcOut>>
  BY <1>15 DEF Ignore
<1>16. ASSUME NEW e \in Drones, Refuse(e)
       PROVE  /\ \A d \in Drones : OneTest(d)'
              /\ \A i \in DOMAIN down' : Still(down'[i])
  <2>1. First(e) \in Frames
    BY <1>16, ReceiveType DEF Refuse
  <2>2. Reply(First(e), FALSE) /\ UNCHANGED <<at, fcIn, fcOut>>
    BY <1>16 DEF Refuse
  <2>3. Still([seq |-> First(e).seq, success |-> FALSE])
    OBVIOUS
  <2> HIDE DEF Still
  <2> QED
    BY <1>9, <1>10, <2>1, <2>2, <2>3
<1>17. ASSUME NEW e \in Drones, Dispatch(e)
       PROVE  /\ \A d \in Drones : OneTest(d)'
              /\ \A i \in DOMAIN down' : Still(down'[i])
  <2> DEFINE c == [test |-> First(e).test, duration |-> Duration(First(e)),
                   throttle |-> Throttle(First(e))]
  <2>1. /\ Receive(e) /\ at' = [at EXCEPT ![e] = First(e)]
        /\ fcIn' = [fcIn EXCEPT ![e] = Append(@, c)]
        /\ UNCHANGED <<down, fcOut>> /\ at[e] = None
    BY <1>17 DEF Dispatch, Receive
  <2>2. First(e) \in Frames
    BY <2>1, ReceiveType
  <2>3. c \in Commands
    BY <2>2, Limited DEF Frames, Commands
  <2>4. fcIn[e] = <<>> /\ fcOut[e] = <<>>
    BY <1>3, <2>1 DEF OneTest
  <2>5. c.test = First(e).test
    OBVIOUS
  <2>6. First(e) # None
    BY <2>2, NoneIsApart
  <2> HIDE DEF c, Still
  <2>7. fcIn'[e] = <<c>> /\ fcOut'[e] = <<>> /\ at'[e] = First(e)
    BY <1>8, <2>1, <2>4, OneElement
  <2>8. OneTest(e)'
    BY <2>3, <2>5, <2>6, <2>7 DEF OneTest
  <2>9. ASSUME NEW d \in Drones, d # e PROVE OneTest(d)'
    <3>1. at'[d] = at[d] /\ fcIn'[d] = fcIn[d] /\ fcOut'[d] = fcOut[d]
      BY <1>8, <2>1, <2>9
    <3> QED
      BY <1>3, <1>4, <3>1 DEF OneTest
  <2> QED
    BY <1>6, <2>1, <2>8, <2>9
<1>18. ASSUME NEW e \in Drones, Answered(e)
       PROVE  /\ \A d \in Drones : OneTest(d)'
              /\ \A i \in DOMAIN down' : Still(down'[i])
  <2>1. /\ at[e] # None /\ fcOut[e] # <<>> /\ fcOut' = [fcOut EXCEPT ![e] = Tail(@)]
        /\ Reply(at[e], Head(fcOut[e]).success) /\ at' = [at EXCEPT ![e] = None]
        /\ UNCHANGED fcIn
    BY <1>18 DEF Answered
  <2>2. fcIn[e] = <<>>
    BY <1>3, <2>1 DEF OneTest
  <2>3. PICK a \in Answers : /\ fcOut[e] = <<a>> /\ a.test = at[e].test
                             /\ a.success => <<a.test, e>> \in accepted
    BY <1>3, <2>1 DEF OneTest
  <2>4. Head(fcOut[e]) = a /\ Tail(fcOut[e]) = <<>>
    BY <2>3, OneElement
  <2>5. at[e] \in Frames /\ a.success \in BOOLEAN
    BY <1>8, <2>1 DEF Answers
  <2>6. Still([seq |-> at[e].seq, success |-> a.success])
    <3>1. at[e].test \in DOMAIN tests /\ at[e] = Encode(at[e].test, tests[at[e].test])
      BY <2>1 DEF InFlight, IsTest
    <3>2. tests[at[e].test].seq = at[e].seq
      BY <3>1 DEF Encode
    <3>3. a.success => <<at[e].test, e>> \in accepted'
      BY <1>4, <2>3
    <3>4. /\ at[e].test \in DOMAIN tests'
          /\ tests'[at[e].test].seq = at[e].seq
      BY <3>1, <3>2, TestsGrow
    <3> QED
      BY <3>3, <3>4
  <2> HIDE DEF Still
  <2>7. \A i \in DOMAIN down' : Still(down'[i])
    BY <1>9, <2>1, <2>4, <2>5, <2>6
  <2>8. OneTest(e)'
    BY <1>8, <2>1, <2>2, <2>4 DEF OneTest
  <2>9. ASSUME NEW d \in Drones, d # e PROVE OneTest(d)'
    <3>1. at'[d] = at[d] /\ fcIn'[d] = fcIn[d] /\ fcOut'[d] = fcOut[d]
      BY <1>8, <2>1, <2>9
    <3> QED
      BY <1>3, <1>4, <3>1 DEF OneTest
  <2> QED
    BY <2>7, <2>8, <2>9
<1>19. ASSUME NEW e \in Drones, NEW success \in BOOLEAN, Serve(e, success)
       PROVE  /\ \A d \in Drones : OneTest(d)'
              /\ \A i \in DOMAIN down' : Still(down'[i])
  <2> DEFINE n == Head(fcIn[e]).test
             a == [test |-> n, success |-> success]
  <2>1. /\ fcIn[e] # <<>> /\ fcIn' = [fcIn EXCEPT ![e] = Tail(@)]
        /\ fcOut' = fcOut \/ fcOut' = [fcOut EXCEPT ![e] = Append(@, a)]
        /\ success => <<n, e>> \in accepted'
        /\ UNCHANGED <<down, at>>
    BY <1>19 DEF Serve
  <2>2. PICK c \in Commands : fcIn[e] = <<c>> /\ c.test = at[e].test
    BY <1>3, <2>1 DEF OneTest
  <2>3. at[e] # None /\ fcOut[e] = <<>>
    BY <1>3, <2>1 DEF OneTest
  <2>4. n = at[e].test /\ Tail(fcIn[e]) = <<>>
    BY <2>2, OneElement
  <2>5. n \in Number
    BY <2>2, <2>4 DEF Commands
  <2>6. /\ a \in Answers /\ a.test = at[e].test
        /\ a.success => <<a.test, e>> \in accepted'
    BY <2>1, <2>4, <2>5 DEF Answers
  <2> HIDE DEF a, n, Still
  <2>7. /\ at'[e] = at[e] /\ fcIn'[e] = <<>>
        /\ fcOut'[e] = <<>> \/ fcOut'[e] = <<a>>
    BY <1>8, <2>1, <2>3, <2>4, OneElement
  <2>8. OneTest(e)'
    BY <2>3, <2>6, <2>7 DEF OneTest
  <2>9. ASSUME NEW d \in Drones, d # e PROVE OneTest(d)'
    <3>1. at'[d] = at[d] /\ fcIn'[d] = fcIn[d] /\ fcOut'[d] = fcOut[d]
      BY <1>8, <2>1, <2>9
    <3> QED
      BY <1>3, <1>4, <3>1 DEF OneTest
  <2> QED
    BY <1>6, <2>1, <2>8, <2>9
<1> QED
  BY <1>1, <1>11, <1>12, <1>13, <1>14, <1>15, <1>16, <1>17, <1>18, <1>19
  DEF Next, Respond

\* The operator is told "OK" on an Ack of the test's number: of that test, or
\* of one it shares the number with.
LEMMA OkStep ==
    ASSUME SenderTypes, RadioTypes, Sent, OneByOne, OkIsHonest, [Next]_vars,
           HistoryTypes
    PROVE  OkIsHonest'
<1> DEFINE Good(n) == \/ \E d \in Drones : <<n, d>> \in accepted'
                      \/ late' # {}
                      \/ \E m \in DOMAIN tests' : m # n /\ tests'[m].seq = tests'[n].seq
<1> SUFFICES ASSUME NEW n \in DOMAIN tests', told'[n] = "ok" PROVE Good(n)
  BY DEF OkIsHonest, Shared
<1>1. accepted \subseteq accepted' /\ late \subseteq late'
  BY DEF Next, vars, history, Run, Hear, NoAck, Respond, Ignore, Refuse,
         Dispatch, Answered, NoAnswer, Serve
<1>2. n \in Number
  <2>1. SenderTypes'
    BY SenderStep
  <2>2. tests' \in Seq(Asked) /\ Len(tests') <= MaxTests
    BY <2>1 DEF SenderTypes
  <2> QED
    BY <2>2, NumberOfTest
<1>3. CASE n \in DOMAIN tests /\ told[n] = "ok"
  <2>1. \/ \E d \in Drones : <<n, d>> \in accepted
        \/ late # {}
        \/ \E m \in DOMAIN tests : m # n /\ tests[m].seq = tests[n].seq
    BY <1>3 DEF OkIsHonest, Shared
  <2> QED
    BY <1>1, <1>3, <2>1, TestsGrow
<1>4. ASSUME Hear, told[n] # "ok" PROVE Good(n)
  <2>1. /\ tests' = tests /\ accepted' = accepted /\ late' = late
        /\ down # <<>>
    BY <1>4 DEF Hear, history
  <2>2. /\ n = waiting /\ Head(down).success
        /\ Head(down).seq = tests[waiting].seq
    <3>1. told' = told \/ told' = [told EXCEPT ![waiting] =
                                     IF Head(down).success THEN "ok" ELSE "refused"]
      BY <1>4 DEF Hear, Exit
    <3>2. n = waiting /\ Head(down).success
      BY <1>4, <1>2, <3>1 DEF SenderTypes
    <3> QED
      BY <1>4, <3>2 DEF Hear
  <2>3. CASE late = {}
    <3>1. down \in Seq(Acks)
      BY DEF RadioTypes
    <3>2. 1 \in DOMAIN down /\ Head(down) = down[1]
      BY <2>1, <3>1, TailHolds
    <3>3. PICK m \in DOMAIN tests : /\ tests[m].seq = Head(down).seq
                                    /\ \E d \in Drones : <<m, d>> \in accepted
      BY <2>2, <2>3, <3>2 DEF OneByOne, Honest
    <3> QED
      BY <2>1, <2>2, <3>3
  <2> QED
    BY <2>1, <2>3
<1>5. told' = told \/ Hear \/ NoAck
  BY DEF Next, vars, sender, Run, Respond, Ignore, Refuse, Dispatch,
         Answered, NoAnswer, Serve
<1>6. NoAck => told'[n] = told[n] \/ told'[n] = "no ack"
  BY <1>2 DEF NoAck, Exit, SenderTypes
<1>7. told[n] = "ok" => n \in DOMAIN tests
  BY <1>2 DEF Sent
<1> QED
  BY <1>3, <1>4, <1>5, <1>6, <1>7

\* "OK" is of a test a flight controller has accepted, unless a responder has
\* given up on an answer before or two tests have one number.
THEOREM OkIsHonestAlways == Spec => []OkIsHonest
<1> DEFINE IInv == TypeOK /\ Sent /\ InFlight /\ OneByOne /\ OkIsHonest
<1>1. Init => IInv
  <2> SUFFICES ASSUME Init PROVE Sent /\ InFlight /\ OneByOne /\ OkIsHonest
    BY TypeInit
  <2>1. Sent
    BY NoneIsApart, EmptySeq DEF Init, Sent
  <2>2. InFlight
    <3>1. \A d \in Drones : up[d] = <<>> /\ at[d] = None
      BY DEF Init
    <3>2. DOMAIN <<>> = {}
      OBVIOUS
    <3> QED
      BY <3>1, <3>2 DEF InFlight
  <2>3. OneByOne
    BY EmptySeq DEF Init, OneByOne, OneTest
  <2>4. OkIsHonest
    BY EmptySeq DEF Init, OkIsHonest
  <2> QED
    BY <2>1, <2>2, <2>3, <2>4
<1>2. IInv /\ [Next]_vars => IInv'
  <2> SUFFICES ASSUME TypeOK, Sent, InFlight, OneByOne, OkIsHonest, [Next]_vars
               PROVE  IInv'
    OBVIOUS
  <2>1. TypeOK'
    BY TypeStep
  <2> QED
    BY <2>1, TypeParts, SentStep, InFlightStep, OneByOneStep, OkStep
<1> QED
  BY <1>1, <1>2, PTL DEF Spec
=============================================================================
