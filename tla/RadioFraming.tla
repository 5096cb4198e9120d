---------------------------- MODULE RadioFraming ----------------------------
(***************************************************************************)
(* One direction of a radio link (radio_link.py).  The sender packs each   *)
(* message into a frame: a start byte, a header with the payload's length, *)
(* a rolling number and the message's id, the payload, a CRC over header   *)
(* and payload.  The serial line loses and changes bytes and adds some of  *)
(* its own.  The receiver's poll appends what it reads to one buffer and   *)
(* drains it: it looks for the start byte, waits for a whole frame, checks *)
(* the CRC, and on a mismatch drops the start byte and looks again.        *)
(*                                                                         *)
(* The poll timer of radio_bridge_node is in a reentrant group and a read  *)
(* of the serial port (0.05 s) outlasts its period (0.02 s), so polls      *)
(* overlap: each step below is one operation on the shared buffer.         *)
(*                                                                         *)
(* Bytes are numbers below Values; the header is three bytes long and the  *)
(* CRC one.  The CRC is perfect: its byte carries, beside a value, what it *)
(* was computed over.  A byte also carries the frame it belongs to, which  *)
(* no code reads.  A definition headed `mutant' is no part of the          *)
(* specification.                                                          *)
(***************************************************************************)
EXTENDS Naturals, Sequences

CONSTANTS
    Pollers,    \* threads that poll the link
    Values,     \* the number of byte values: 2^8 in the code
    Kinds,      \* message types
    Id, Size,   \* each type's msgid and payload length
    Messages,   \* the messages sent: records [kind, body]
    SeqMod,     \* width of the frame number: 2^8 in the code
    MaxFrames,  \* bound: frames sent
    MaxFaults   \* bound: bytes lost, changed or added

Byte == 0 .. Values - 1
STX == Values - 1     \* 0xFD: may occur in any field
Overhead == 5         \* start byte, header, CRC: 12 in the code

ASSUME FramingAssumption ==
    /\ Values \in Nat \ {0, 1} /\ SeqMod \in 1 .. Values
    /\ Id \in [Kinds -> Byte] /\ Size \in [Kinds -> Byte]
    /\ \A j, k \in Kinds : Id[j] = Id[k] => j = k
    /\ \A m \in Messages : /\ m \in [kind : Kinds, body : Seq(Nat)]
                           /\ Len(m.body) = Size[m.kind]
    /\ MaxFrames \in Nat /\ MaxFaults \in Nat

VARIABLES
    txSeq,    \* the sender's _tx_seq
    air,      \* the bytes on the line, oldest first
    rx,       \* _rx_buf
    pc, loc,  \* each poller: next step, locals
    sent,     \* history: the messages sent
    got,      \* history: the messages handed to the dispatcher
    damaged,  \* history: the frames that lost or changed a byte
    faults

vars == <<txSeq, air, rx, pc, loc, sent, got, damaged, faults>>
history == <<sent, damaged, faults>>

Bytes == [val : Byte, crc : Seq(Byte), frame : 0 .. MaxFrames]
Locals == [chunk : Seq(Bytes), idx : Nat, len : Byte, covered : Seq(Byte),
           frame : 0 .. MaxFrames]
Fresh == [chunk |-> <<>>, idx |-> 0, len |-> 0, covered |-> <<>>, frame |-> 0]
Steps == {"idle", "extend", "find", "clear", "trim", "enough", "length",
          "whole", "header", "payload", "crc", "skip", "take", "deliver",
          "crashed"}

Init ==
    /\ txSeq = 0 /\ air = <<>> /\ rx = <<>>
    /\ pc = [p \in Pollers |-> "idle"] /\ loc = [p \in Pollers |-> Fresh]
    /\ sent = <<>> /\ got = <<>> /\ damaged = {} /\ faults = 0

----------------------------------------------------------------------------
(* The sender *)

\* mutant: a field is packed as it is
EncodeUnmasked(m) == m.body

\* send_drone_state and its like: every field is cut to its width.
Encode(m) == [i \in DOMAIN m.body |-> m.body[i] % Values]

Vals(bytes) == [i \in DOMAIN bytes |-> bytes[i].val]
Plain(v, n) == [val |-> v, crc |-> <<>>, frame |-> n]

\* The bytes of the n-th frame.  The value of the CRC byte is any v.
Frame(m, n, v) ==
    LET covered == <<Size[m.kind], txSeq, Id[m.kind]>> \o Encode(m)
    IN  <<Plain(STX, n)>>
        \o [i \in DOMAIN covered |-> Plain(covered[i], n)]
        \o <<[val |-> v, crc |-> covered, frame |-> n]>>

\* _send_frame, atomic under _tx_lock
Send(m) ==
    /\ Len(sent) < MaxFrames /\ sent' = Append(sent, m)
    /\ \E v \in {0, STX} : air' = air \o Frame(m, Len(sent) + 1, v)
    /\ txSeq' = (txSeq + 1) % SeqMod
    /\ UNCHANGED <<rx, pc, loc, got, damaged, faults>>

----------------------------------------------------------------------------
(* The line *)

Fault == faults < MaxFaults /\ faults' = faults + 1
         /\ UNCHANGED <<txSeq, rx, pc, loc, sent, got>>

Lose(i) ==
    /\ Fault /\ air' = SubSeq(air, 1, i - 1) \o SubSeq(air, i + 1, Len(air))
    /\ damaged' = damaged \cup {air[i].frame}

Change(i, v) ==
    /\ Fault /\ air' = [air EXCEPT ![i] = Plain(v, 0)]
    /\ damaged' = damaged \cup {air[i].frame}

\* A byte of nobody's before byte i, between two frames or inside one.
Insert(i, v) ==
    /\ Fault
    /\ air' = SubSeq(air, 1, i - 1) \o <<Plain(v, 0)>> \o SubSeq(air, i, Len(air))
    /\ damaged' = IF i > Len(air) \/ (i > 1 /\ air[i].frame # air[i - 1].frame)
                  THEN damaged ELSE damaged \cup {air[i].frame}

----------------------------------------------------------------------------
(* poll and _drain, by poller p *)

At(p, step) == pc[p] = step
Go(p, step) == pc' = [pc EXCEPT ![p] = step]
Drop(n) == rx' = SubSeq(rx, n + 1, Len(rx))
Local == UNCHANGED <<txSeq, air, rx, got, history>>
Shared == UNCHANGED <<txSeq, air, got, history>>

\* Transport.read: what has come in, up to a limit.
Read(p) ==
    /\ At(p, "idle") /\ Go(p, "extend")
    /\ \E n \in 0 .. Len(air) :
         /\ loc' = [loc EXCEPT ![p] = [Fresh EXCEPT !.chunk = SubSeq(air, 1, n)]]
         /\ air' = SubSeq(air, n + 1, Len(air))
    /\ UNCHANGED <<txSeq, rx, got, history>>

Extend(p) ==
    /\ At(p, "extend") /\ rx' = rx \o loc[p].chunk /\ Go(p, "find")
    /\ loc' = [loc EXCEPT ![p] = Fresh] /\ Shared

Find(p) ==
    /\ At(p, "find")
    /\ \/ /\ \A i \in DOMAIN rx : rx[i].val # STX
          /\ Go(p, "clear") /\ UNCHANGED loc
       \/ \E i \in DOMAIN rx :
            /\ rx[i].val = STX /\ \A j \in 1 .. i - 1 : rx[j].val # STX
            /\ loc' = [loc EXCEPT ![p] = [Fresh EXCEPT !.idx = i - 1]]
            /\ Go(p, IF i > 1 THEN "trim" ELSE "enough")
    /\ Local

Clear(p) == At(p, "clear") /\ rx' = <<>> /\ Go(p, "idle")
            /\ Shared /\ UNCHANGED loc

Trim(p) == At(p, "trim") /\ Drop(loc[p].idx) /\ Go(p, "enough")
           /\ Shared /\ UNCHANGED loc

\* mutant: the buffer's length is not looked at before its second byte is
EnoughUnlooked(p) == At(p, "enough") /\ Local /\ UNCHANGED loc /\ Go(p, "length")

Enough(p) == At(p, "enough") /\ Local /\ UNCHANGED loc
             /\ Go(p, IF Len(rx) < Overhead THEN "idle" ELSE "length")

\* buf[1] raises if another poll has emptied the buffer: no one catches it.
Length(p) ==
    /\ At(p, "length") /\ Local
    /\ IF Len(rx) < 2 THEN Go(p, "crashed") /\ UNCHANGED loc
       ELSE Go(p, "whole") /\ loc' = [loc EXCEPT ![p].len = rx[2].val]

\* mutant: the CRC is forgotten in the length of a frame
WholeShort(p) == At(p, "whole") /\ Local /\ UNCHANGED loc
                 /\ Go(p, IF Len(rx) < Overhead + loc[p].len - 1 THEN "idle"
                          ELSE "header")

\* mutant: a frame of the greatest length is refused, and not dropped
WholeBelowMax(p) == At(p, "whole") /\ Local /\ UNCHANGED loc
                    /\ Go(p, IF Len(rx) < Overhead + loc[p].len
                                \/ loc[p].len = Values - 1 THEN "idle"
                             ELSE "header")

Whole(p) == At(p, "whole") /\ Local /\ UNCHANGED loc
            /\ Go(p, IF Len(rx) < Overhead + loc[p].len THEN "idle"
                     ELSE "header")

\* A slice of the buffer; past its end it is short.
Slice(a, b) == SubSeq(rx, a, IF b < Len(rx) THEN b ELSE Len(rx))

Header(p) ==
    /\ At(p, "header") /\ Go(p, "payload") /\ Local
    /\ loc' = [loc EXCEPT ![p].covered = Vals(Slice(2, 4))]

Payload(p) ==
    /\ At(p, "payload") /\ Go(p, "crc") /\ Local
    /\ loc' = [loc EXCEPT ![p].covered =
                  @ \o Vals(Slice(5, 4 + loc[p].len))]

\* mutant: the CRC is not looked at
CheckNothing(p) ==
    /\ At(p, "crc") /\ Local
    /\ LET i == Overhead + loc[p].len IN
       IF Len(rx) < i THEN Go(p, "crashed") /\ UNCHANGED loc
       ELSE /\ loc' = [loc EXCEPT ![p].frame = rx[i].frame] /\ Go(p, "take")

\* unpack raises on a short slice, and no one catches it.
Check(p) ==
    /\ At(p, "crc") /\ Local
    /\ LET i == Overhead + loc[p].len IN
       IF Len(rx) < i THEN Go(p, "crashed") /\ UNCHANGED loc
       ELSE /\ loc' = [loc EXCEPT ![p].frame = rx[i].frame]
            /\ Go(p, IF rx[i].crc # <<>> /\ rx[i].crc = loc[p].covered
                     THEN "take" ELSE "skip")

\* mutant: the frame that failed its check is dropped whole
SkipFrame(p) == At(p, "skip") /\ Drop(Overhead + loc[p].len) /\ Go(p, "find")
                /\ loc' = [loc EXCEPT ![p] = Fresh] /\ Shared

\* Drop the start byte and look for the next.
Skip(p) == At(p, "skip") /\ Drop(1) /\ Go(p, "find")
           /\ loc' = [loc EXCEPT ![p] = Fresh] /\ Shared

Take(p) == At(p, "take") /\ Drop(Overhead + loc[p].len) /\ Go(p, "deliver")
           /\ Shared /\ UNCHANGED loc

\* A frame of no known id, or not of its length, is dropped in silence.
Decode(covered) ==
    {m \in [kind : Kinds, body : {SubSeq(covered, 4, Len(covered))}] :
        Id[m.kind] = covered[3] /\ Size[m.kind] = Len(m.body)}

Deliver(p) ==
    /\ At(p, "deliver") /\ Go(p, "find")
    /\ IF Decode(loc[p].covered) = {} THEN UNCHANGED got
       ELSE \E m \in Decode(loc[p].covered) :
              got' = Append(got, [place |-> loc[p].frame, message |-> m])
    /\ loc' = [loc EXCEPT ![p] = Fresh]
    /\ UNCHANGED <<txSeq, air, rx, history>>

----------------------------------------------------------------------------

Poll(p) == \/ Read(p) \/ Extend(p) \/ Find(p) \/ Clear(p) \/ Trim(p)
           \/ Enough(p) \/ Length(p) \/ Whole(p) \/ Header(p) \/ Payload(p)
           \/ Check(p) \/ Skip(p) \/ Take(p) \/ Deliver(p)

Next == \/ \E m \in Messages : Send(m)
        \/ \E i \in DOMAIN air : Lose(i)
        \/ \E i \in DOMAIN air, v \in Byte : Change(i, v)
        \/ \E i \in 1 .. Len(air) + 1, v \in Byte : Insert(i, v)
        \/ \E p \in Pollers : Poll(p)

\* The poll timer fires for ever, and a read returns what is there in the end.
Fairness == \A p \in Pollers : /\ WF_vars(Poll(p))
                               /\ SF_vars(Read(p) /\ air' = <<>>)
Spec == Init /\ [][Next]_vars /\ Fairness

----------------------------------------------------------------------------
(* Properties *)

TypeOK ==
    /\ txSeq \in 0 .. SeqMod - 1 /\ air \in Seq(Bytes) /\ rx \in Seq(Bytes)
    /\ pc \in [Pollers -> Steps] /\ loc \in [Pollers -> Locals]
    /\ sent \in Seq(Messages) /\ Len(sent) <= MaxFrames
    /\ damaged \subseteq 0 .. Len(sent) /\ faults \in 0 .. MaxFaults
    /\ got \in Seq([place : 1 .. MaxFrames,
                   message : [kind : Kinds, body : Seq(Byte)]])
    /\ \A i \in DOMAIN got : got[i].place \in DOMAIN sent

\* The link implements an ordered channel without copies: whatever the line
\* loses, changes and adds, and wherever the reads cut the stream, a message
\* handed over is one that was sent, and no older than those before it.
Told == [i \in DOMAIN sent |-> [sent[i] EXCEPT !.body = Encode(sent[i])]]
Channel == INSTANCE FrameChannel WITH
             Messages <- [kind : Kinds, body : {Encode(m) : m \in Messages}],
             sent <- Told, arrived <- got
ImplementsChannel == Channel!Spec

\* Resynchronisation drops no good frame: one that reached the receiver with
\* all its bytes is handed over, or still in the buffer, though garbage before
\* it may look like a longer frame that swallows it.  With more faults than a
\* frame has bytes besides its payload one may be: as the payload of a later
\* frame, of which the line has left little but the CRC.
Arrived(n) == \E i \in DOMAIN got : got[i].place = n
HasCrc(bytes, n) == \E i \in DOMAIN bytes : bytes[i].frame = n /\ bytes[i].crc # <<>>
NothingDropped ==
    faults <= Overhead => \A n \in DOMAIN sent \ damaged :
        \/ Arrived(n) \/ HasCrc(air, n) \/ HasCrc(rx, n)
        \/ \E p \in Pollers : \/ HasCrc(loc[p].chunk, n)
                              \/ At(p, "deliver") /\ loc[p].frame = n

\* The buffer never holds a whole frame of the greatest length when the drain
\* is over: no garbage makes it grow, nor holds a good frame back for longer.
BufferBounded ==
    (\A p \in Pollers : At(p, "idle")) => Len(rx) < Overhead + Values - 1

\* With no fault on the line every message arrives, wherever reads cut it.
EveryFrameArrives ==
    \A n \in 1 .. MaxFrames :
        n \in DOMAIN sent ~> Arrived(n) \/ faults > 0

\* No poll reads past the end of the buffer.  It holds with one poller, and is
\* refuted with two.  poll: "Malformed or unknown frames are dropped
\* silently".  RadioLink: "single-threaded by default: call ``poll()`` from a
\* ROS 2 timer" - which the bridge does, from a timer that overlaps itself.
PollSurvives == \A p \in Pollers : ~At(p, "crashed")
=============================================================================
