----------------------------- MODULE MotorBench -----------------------------
(***************************************************************************)
(* The motor test over the radio (scripts/hardware).  radio_motor_test, on *)
(* the operator's computer, sends one MotorTest frame and waits for an Ack *)
(* of its number; it is run once per test.  radio_motor_responder, on each *)
(* drone, takes frames one by one: it limits what they ask, passes them to *)
(* the flight controller, waits for a COMMAND_ACK and sends the Ack.       *)
(*                                                                         *)
(* The radio loses frames and delays them, and keeps their order.  The     *)
(* flight controller may refuse a test or say nothing, and what it says    *)
(* late stays in the serial buffer.  Frames and commands carry the test    *)
(* they belong to, which no code reads.  The number of the motor is left   *)
(* out.  A definition headed `mutant' is no part of the specification.     *)
(***************************************************************************)
EXTENDS Integers, Sequences

CONSTANTS
    Drones,
    Targets,        \* ids the operator addresses
    Broadcast,      \* drone id 255
    Throttles,      \* percentages the operator asks for
    Durations,      \* seconds the operator asks for
    SenderCeiling,  \* --max-throttle of the sender
    Ceiling,        \* --max-throttle of the responder
    SeqMod,         \* width of seq: 2^16 in the code
    MaxTests,       \* bound: tests run
    Asks,           \* bound: <<target, throttle>> asked for together
    None

HARD_THROTTLE_CAP_PCT == 30
HARD_DURATION_CAP_S == 10

ASSUME BenchAssumption ==
    /\ Broadcast \notin Drones /\ None \notin Drones
    /\ Throttles \subseteq Int /\ Durations \subseteq Int
    /\ SenderCeiling \in Int
    /\ Ceiling \in Int /\ Ceiling <= HARD_THROTTLE_CAP_PCT   \* main refuses more
    /\ SeqMod \in Nat \ {0} /\ MaxTests \in Nat

VARIABLES
    tests,     \* the tests sent: what the operator asked, and seq
    told,      \* what the operator was told of each
    waiting,   \* the test radio_motor_test waits for, 0 if it is not running
    up,        \* frames on their way to each responder
    down,      \* Acks on their way back
    at,        \* each responder: the frame it has dispatched, None if none
    fcIn,      \* commands on their way to each flight controller
    fcOut,     \* COMMAND_ACKs the responder has not read
    accepted,  \* history: the tests each flight controller has accepted
    late       \* history: responders that gave up on a COMMAND_ACK

vars == <<tests, told, waiting, up, down, at, fcIn, fcOut, accepted, late>>
sender == <<tests, told, waiting>>
history == <<accepted, late>>

Asked == [target : Targets, seq : 0 .. SeqMod - 1,
          throttle : Throttles, duration : Durations]
Number == 1 .. MaxTests
Frames == [test : Number, target : Targets,
           seq : 0 .. SeqMod - 1, throttle : 0 .. 255, duration : 0 .. 255]
Commands == [test : Number, throttle : 0 .. HARD_THROTTLE_CAP_PCT,
             duration : 1 .. HARD_DURATION_CAP_S]
Acks == [seq : 0 .. SeqMod - 1, success : BOOLEAN]
Answers == [test : Number, success : BOOLEAN]

ASSUME NoneIsApart == None \notin Frames /\ None # "ok"

Init ==
    /\ tests = <<>> /\ waiting = 0 /\ down = <<>>
    /\ told = [n \in Number |-> None]
    /\ up = [d \in Drones |-> <<>>] /\ at = [d \in Drones |-> None]
    /\ fcIn = [d \in Drones |-> <<>>] /\ fcOut = [d \in Drones |-> <<>>]
    /\ accepted = {} /\ late = {}

----------------------------------------------------------------------------
(* radio_motor_test *)

\* mutant: a field is packed as it is
EncodeUncut(n, a) == [test |-> n, target |-> a.target, seq |-> a.seq,
                      throttle |-> a.throttle, duration |-> a.duration]

\* send_motor_test cuts every field to its width.
Encode(n, a) == [test |-> n, target |-> a.target, seq |-> a.seq,
                 throttle |-> a.throttle % 256, duration |-> a.duration % 256]

\* seq is the clock's milliseconds, cut to 16 bits: any number.
Run(a, heard) ==
    /\ waiting = 0 /\ Len(tests) < MaxTests /\ <<a.target, a.throttle>> \in Asks
    /\ a.throttle <= SenderCeiling /\ a.duration \in 1 .. HARD_DURATION_CAP_S
    /\ tests' = Append(tests, a) /\ waiting' = Len(tests) + 1
    /\ up' = [d \in Drones |-> IF d \in heard
                               THEN Append(up[d], Encode(Len(tests) + 1, a))
                               ELSE up[d]]
    /\ UNCHANGED <<told, down, at, fcIn, fcOut, history>>

\* main ends, and its port is closed
Exit(outcome) ==
    told' = [told EXCEPT ![waiting] = outcome] /\ waiting' = 0

\* mutant: the number is not compared
HearAny ==
    /\ waiting # 0 /\ down # <<>> /\ down' = Tail(down)
    /\ Exit(IF Head(down).success THEN "ok" ELSE "refused")
    /\ UNCHANGED <<tests, up, at, fcIn, fcOut, history>>

\* wait_for_ack: an Ack of another number is passed over.
Hear ==
    /\ waiting # 0 /\ down # <<>> /\ down' = Tail(down)
    /\ IF Head(down).seq = tests[waiting].seq
       THEN Exit(IF Head(down).success THEN "ok" ELSE "refused")
       ELSE UNCHANGED <<told, waiting>>
    /\ UNCHANGED <<tests, up, at, fcIn, fcOut, history>>

NoAck ==
    /\ waiting # 0 /\ Exit("no ack")
    /\ UNCHANGED <<tests, up, down, at, fcIn, fcOut, history>>

----------------------------------------------------------------------------
(* radio_motor_responder on drone d *)

\* The Ack of frame f: the radio brings it, or loses it.
Reply(f, success) ==
    down' \in {down, Append(down, [seq |-> f.seq, success |-> success])}

Clamp(lo, hi, x) == IF x < lo THEN lo ELSE IF x > hi THEN hi ELSE x
Throttle(f) == Clamp(0, HARD_THROTTLE_CAP_PCT, f.throttle)
Duration(f) == Clamp(1, HARD_DURATION_CAP_S, f.duration)

First(d) == Head(up[d])
Receive(d) == at[d] = None /\ up[d] # <<>> /\ up' = [up EXCEPT ![d] = Tail(@)]
ForMe(d) == First(d).target \in {d, Broadcast}

Ignore(d) ==
    /\ Receive(d) /\ ~ForMe(d)
    /\ UNCHANGED <<sender, down, at, fcIn, fcOut, history>>

Refuse(d) ==
    /\ Receive(d) /\ ForMe(d) /\ Throttle(First(d)) > Ceiling
    /\ Reply(First(d), FALSE)
    /\ UNCHANGED <<sender, at, fcIn, fcOut, history>>

\* mutant: the throttle is cut to the ceiling where it should be refused
DispatchCut(d) ==
    /\ Receive(d) /\ ForMe(d)
    /\ at' = [at EXCEPT ![d] = First(d)]
    /\ fcIn' = [fcIn EXCEPT ![d] = Append(@,
         [test |-> First(d).test, duration |-> Duration(First(d)),
          throttle |-> Clamp(0, Ceiling, First(d).throttle)])]
    /\ UNCHANGED <<sender, down, fcOut, history>>

\* Whether the vehicle is armed has been looked at when the responder started,
\* and is not looked at again; nor whether a motor is still turning.
Dispatch(d) ==
    /\ Receive(d) /\ ForMe(d) /\ Throttle(First(d)) <= Ceiling
    /\ at' = [at EXCEPT ![d] = First(d)]
    /\ fcIn' = [fcIn EXCEPT ![d] = Append(@,
         [test |-> First(d).test, duration |-> Duration(First(d)),
          throttle |-> Throttle(First(d))])]
    /\ UNCHANGED <<sender, down, fcOut, history>>

\* The next COMMAND_ACK in the buffer, whichever test it answers.
Answered(d) ==
    /\ at[d] # None /\ fcOut[d] # <<>> /\ fcOut' = [fcOut EXCEPT ![d] = Tail(@)]
    /\ Reply(at[d], Head(fcOut[d]).success) /\ at' = [at EXCEPT ![d] = None]
    /\ UNCHANGED <<sender, up, fcIn, history>>

\* mutant: no deadline
WaitOn(d) == at[d] # None /\ fcOut[d] = <<>> /\ UNCHANGED vars

NoAnswer(d) ==
    /\ at[d] # None /\ fcOut[d] = <<>> /\ late' = late \cup {d}
    /\ Reply(at[d], FALSE) /\ at' = [at EXCEPT ![d] = None]
    /\ UNCHANGED <<sender, up, fcIn, fcOut, accepted>>

Respond(d) == \/ Ignore(d) \/ Refuse(d) \/ Dispatch(d)
              \/ Answered(d) \/ NoAnswer(d)

----------------------------------------------------------------------------
(* The flight controller of drone d: it may refuse, and may say nothing. *)

Serve(d, success) ==
    /\ fcIn[d] # <<>> /\ fcIn' = [fcIn EXCEPT ![d] = Tail(@)]
    /\ LET n == Head(fcIn[d]).test IN
       /\ accepted' = IF success THEN accepted \cup {<<n, d>>} ELSE accepted
       /\ fcOut' \in {fcOut, [fcOut EXCEPT ![d] =
                        Append(@, [test |-> n, success |-> success])]}
    /\ UNCHANGED <<sender, up, down, at, late>>

----------------------------------------------------------------------------

Next == \/ \E a \in Asked, heard \in SUBSET Drones : Run(a, heard)
        \/ Hear \/ NoAck
        \/ \E d \in Drones : Respond(d)
        \/ \E d \in Drones, success \in BOOLEAN : Serve(d, success)

\* The responder's loop goes on; nothing is assumed of the flight controller,
\* of the radio or of the operator.
Fairness == \A d \in Drones : WF_vars(Respond(d))
Spec == Init /\ [][Next]_vars /\ Fairness

----------------------------------------------------------------------------
(* Properties *)

TypeOK ==
    /\ tests \in Seq(Asked) /\ Len(tests) <= MaxTests
    /\ told \in [Number -> {None, "ok", "refused", "no ack"}]
    /\ waiting \in 0 .. Len(tests)
    /\ up \in [Drones -> Seq(Frames)] /\ down \in Seq(Acks)
    /\ at \in [Drones -> Frames \cup {None}]
    /\ fcIn \in [Drones -> Seq(Commands)] /\ fcOut \in [Drones -> Seq(Answers)]
    /\ accepted \subseteq Number \X Drones /\ late \subseteq Drones

\* A motor turns for the test and the seconds that were asked of its drone, and
\* never faster than the responder's ceiling.  A throttle that fits its byte
\* turns it as asked or not at all: the ceiling refuses and never cuts, and
\* only the hard cap, which the ceiling may be raised to, cuts.  One that does
\* not fit is another throttle on the radio: -250 is a 6, and turns the motor.
TurnsAsAsked ==
    \A d \in Drones : \A i \in DOMAIN fcIn[d] :
        LET c == fcIn[d][i]
            asked == tests[c.test]
        IN  /\ c.test \in DOMAIN tests /\ asked.target \in {d, Broadcast}
            /\ c.duration = asked.duration /\ c.throttle <= Ceiling
            /\ asked.throttle \in 0 .. 255 =>
                  c.throttle = Clamp(0, HARD_THROTTLE_CAP_PCT, asked.throttle)

\* "OK" is of a test some flight controller has accepted, however late Acks
\* come - unless a responder has given up on a COMMAND_ACK, which then answers
\* the next test, or two tests have one number.
Shared(n) == \E m \in DOMAIN tests : m # n /\ tests[m].seq = tests[n].seq
OkIsHonest ==
    \A n \in DOMAIN tests :
        told[n] = "ok" => \/ \E d \in Drones : <<n, d>> \in accepted
                          \/ late # {} \/ Shared(n)

\* The responder comes back to its radio and takes every frame, though the
\* flight controller may never answer.
ResponderListens == \A d \in Drones : []<>(up[d] = <<>> /\ at[d] = None)
=============================================================================
