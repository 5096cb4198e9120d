------------------------ MODULE RadioFraming_proofs ------------------------
(***************************************************************************)
(* What is proved of the radio link's framing, for every value of the      *)
(* constants.                                                              *)
(*                                                                         *)
(* However many polls overlap: the state has its type, every byte with a   *)
(* CRC ends a frame that was sent, what passes the check is such a frame   *)
(* (General), and the buffer stays short when the drain is over.           *)
(*                                                                         *)
(* With one poller: each step of the drain finds the buffer as the last    *)
(* one left it (Control), so no poll raises; the frames in the buffer, the *)
(* chunk read and the line - the stream - keep their order, and come no    *)
(* closer than the faults allow (InOrder), so the link is an ordered       *)
(* channel without copies; and a frame with all its bytes is dropped by no *)
(* step (AllKept).                                                         *)
(***************************************************************************)
EXTENDS RadioFraming, SequenceTheorems, TLAPS

----------------------------------------------------------------------------
(* Sequences *)

LEMMA Joined ==
    ASSUME NEW S, NEW s \in Seq(S), NEW t \in Seq(S)
    PROVE  /\ s \o t \in Seq(S) /\ Len(s \o t) = Len(s) + Len(t)
           /\ Len(s) \in Nat /\ Len(t) \in Nat
           /\ \A i \in 1 .. Len(s) : (s \o t)[i] = s[i]
           /\ \A i \in 1 .. Len(t) : (s \o t)[Len(s) + i] = t[i]
  OBVIOUS

----------------------------------------------------------------------------
(* The sender's bytes *)

LEMMA ByteFacts ==
    ASSUME FramingAssumption
    PROVE  /\ STX \in Byte /\ 0 \in Byte /\ Byte \subseteq Nat
           /\ \A x \in Nat : x % Values \in Byte
           /\ 0 .. SeqMod - 1 \subseteq Byte
           /\ \A x \in Nat : x % SeqMod \in 0 .. SeqMod - 1
  BY DEF FramingAssumption, Byte, STX

LEMMA EncodeType ==
    ASSUME FramingAssumption, NEW m \in Messages
    PROVE  /\ Encode(m) \in Seq(Byte) /\ Len(Encode(m)) = Size[m.kind]
           /\ m.kind \in Kinds /\ Size[m.kind] \in Byte /\ Id[m.kind] \in Byte
<1>1. /\ m.body \in Seq(Nat) /\ Len(m.body) = Size[m.kind] /\ m.kind \in Kinds
      /\ Size[m.kind] \in Byte /\ Id[m.kind] \in Byte
  BY DEF FramingAssumption
<1>2. DOMAIN m.body = 1 .. Len(m.body) /\ \A i \in DOMAIN m.body : m.body[i] \in Nat
  BY <1>1
<1>3. Encode(m) \in [1 .. Len(m.body) -> Byte]
  BY <1>2, ByteFacts DEF Encode
<1>4. Len(m.body) \in Nat
  BY <1>1
<1> QED BY <1>1, <1>3, <1>4

\* What a frame's CRC is computed over: header and payload, sent with number s.
Covered(m, s) == <<Size[m.kind], s, Id[m.kind]>> \o Encode(m)

LEMMA CoveredType ==
    ASSUME FramingAssumption, NEW m \in Messages, NEW s \in Byte
    PROVE  /\ Covered(m, s) \in Seq(Byte) /\ Len(Covered(m, s)) = 3 + Size[m.kind]
           /\ Covered(m, s)[1] = Size[m.kind] /\ Covered(m, s)[3] = Id[m.kind]
           /\ \A i \in 1 .. Size[m.kind] : Covered(m, s)[3 + i] = Encode(m)[i]
           /\ Size[m.kind] \in Nat
<1> DEFINE h == <<Size[m.kind], s, Id[m.kind]>>
<1>1. h \in Seq(Byte) /\ Encode(m) \in Seq(Byte)
  BY EncodeType
<1>2. /\ Len(h) = 3 /\ h[1] = Size[m.kind] /\ h[3] = Id[m.kind]
      /\ Len(Encode(m)) = Size[m.kind] /\ Size[m.kind] \in Nat
  BY EncodeType, ByteFacts
<1>3. Covered(m, s) = h \o Encode(m)
  BY DEF Covered
<1> HIDE DEF h
<1>4. /\ h \o Encode(m) \in Seq(Byte) /\ Len(h \o Encode(m)) = Len(h) + Len(Encode(m))
      /\ \A i \in 1 .. Len(h) : (h \o Encode(m))[i] = h[i]
      /\ \A i \in 1 .. Len(Encode(m)) : (h \o Encode(m))[Len(h) + i] = Encode(m)[i]
  BY <1>1
<1> QED BY <1>1, <1>2, <1>3, <1>4

LEMMA FrameShape ==
    ASSUME FramingAssumption, txSeq \in Byte, NEW m \in Messages,
           NEW n \in 0 .. MaxFrames, NEW v \in Byte
    PROVE  LET f == Frame(m, n, v)
               c == Covered(m, txSeq)
           IN  /\ f \in Seq(Bytes) /\ Len(f) = Len(c) + 2 /\ f[1] = Plain(STX, n)
               /\ \A q \in 1 .. Len(c) : f[1 + q] = Plain(c[q], n)
               /\ f[Len(c) + 2] = [val |-> v, crc |-> c, frame |-> n]
<1> DEFINE f == Frame(m, n, v)
           c == Covered(m, txSeq)
           mid == [i \in DOMAIN c |-> Plain(c[i], n)]
           end == [val |-> v, crc |-> c, frame |-> n]
<1>1. c \in Seq(Byte) /\ Len(c) \in Nat /\ DOMAIN c = 1 .. Len(c)
  BY CoveredType, LenProperties
<1>2. \A x \in Byte : Plain(x, n) \in Bytes
  <2>1. <<>> \in Seq(Byte)
    OBVIOUS
  <2> QED BY <2>1 DEF Plain, Bytes
<1>3. mid \in [1 .. Len(c) -> Bytes] /\ \A q \in 1 .. Len(c) : mid[q] = Plain(c[q], n)
  <2>1. \A q \in 1 .. Len(c) : c[q] \in Byte
    BY <1>1, ElementOfSeq
  <2> HIDE DEF c
  <2> QED BY <1>1, <1>2, <2>1
<1>13. mid \in Seq(Bytes) /\ Len(mid) = Len(c)
  <2> HIDE DEF mid, c
  <2> QED BY <1>1, <1>3
<1>4. mid \in Seq(Bytes)
  <2> HIDE DEF mid, c
  <2> QED BY <1>13
<1>5. end \in Bytes
  BY <1>1 DEF Bytes
<1>6. Plain(STX, n) \in Bytes
  BY <1>2, ByteFacts
<1>7. <<Plain(STX, n)>> \in Seq(Bytes) /\ <<end>> \in Seq(Bytes)
  BY <1>5, <1>6
<1>8. f = <<Plain(STX, n)>> \o mid \o <<end>>
  BY Zenon DEF Frame, Covered
<1> DEFINE s == <<Plain(STX, n)>>
           e == <<end>>
<1>9. Len(s) = 1 /\ s[1] = Plain(STX, n) /\ Len(e) = 1 /\ e[1] = end
  OBVIOUS
<1>10. s \in Seq(Bytes) /\ e \in Seq(Bytes) /\ f = s \o mid \o e
  BY <1>7, <1>8
<1> HIDE DEF s, e, mid, f, c, end
<1>11. /\ s \o mid \in Seq(Bytes) /\ Len(s \o mid) = 1 + Len(c)
       /\ (s \o mid)[1] = Plain(STX, n)
       /\ \A q \in 1 .. Len(c) : (s \o mid)[1 + q] = Plain(c[q], n)
  <2>1. /\ s \o mid \in Seq(Bytes) /\ Len(s \o mid) = Len(s) + Len(mid)
        /\ \A i \in 1 .. Len(s) : (s \o mid)[i] = s[i]
        /\ \A i \in 1 .. Len(mid) : (s \o mid)[Len(s) + i] = mid[i]
    BY <1>4, <1>10
  <2> QED BY <1>1, <1>3, <1>13, <1>9, <2>1
<1>12. /\ f \in Seq(Bytes) /\ Len(f) = Len(c) + 2 /\ f[1] = Plain(STX, n)
       /\ \A q \in 1 .. Len(c) : f[1 + q] = Plain(c[q], n)
       /\ f[Len(c) + 2] = end
  <2> DEFINE r == s \o mid
  <2>1. Len(r) = 1 + Len(c) /\ f = r \o e
    BY <1>10, <1>11
  <2>7. r \in Seq(Bytes)
    BY <1>11
  <2> HIDE DEF r
  <2>2. /\ r \o e \in Seq(Bytes) /\ Len(r \o e) = Len(r) + Len(e)
        /\ \A i \in 1 .. Len(r) : (r \o e)[i] = r[i]
        /\ \A i \in 1 .. Len(e) : (r \o e)[Len(r) + i] = e[i]
    BY <1>10, <2>7
  <2>3. /\ f \in Seq(Bytes) /\ Len(f) = Len(c) + 2
        /\ \A i \in 1 .. 1 + Len(c) : f[i] = r[i]
    BY <1>1, <1>9, <2>1, <2>2
  <2>4. f[(1 + Len(c)) + 1] = e[1]
    BY <1>9, <2>1, <2>2
  <2>5. (1 + Len(c)) + 1 = Len(c) + 2
    BY <1>1
  <2>6. f[1] = (s \o mid)[1] /\ \A q \in 1 .. Len(c) : f[1 + q] = (s \o mid)[1 + q]
    <3>1. 1 \in 1 .. 1 + Len(c) /\ \A q \in 1 .. Len(c) : 1 + q \in 1 .. 1 + Len(c)
      BY <1>1
    <3> QED BY <2>3, <3>1 DEF r
  <2> QED BY <1>9, <1>11, <2>3, <2>4, <2>5, <2>6
<1> QED BY <1>12 DEF f, c, end

----------------------------------------------------------------------------
(* Every byte with a CRC is the last of a frame that was sent *)

Good(b, h) ==
    /\ b.frame <= Len(h)
    /\ b.crc # <<>> => /\ b.frame \in DOMAIN h
                       /\ \E s \in Byte : b.crc = Covered(h[b.frame], s)
Goods(bytes, h) == \A i \in DOMAIN bytes : Good(bytes[i], h)

\* A frame that has passed its check is one that was sent.
True(l, h) == /\ l.frame \in DOMAIN h
              /\ \E s \in Byte : l.covered = Covered(h[l.frame], s)

General ==
    /\ TypeOK /\ Goods(rx, sent) /\ Goods(air, sent)
    /\ \A p \in Pollers : Goods(loc[p].chunk, sent)
    /\ \A p \in Pollers : pc[p] \in {"take", "deliver"} => True(loc[p], sent)
    /\ \A i \in DOMAIN got : /\ got[i].place \in DOMAIN sent
                             /\ got[i].message = Told[got[i].place]

LEMMA GoodsJoined ==
    ASSUME NEW h, NEW s \in Seq(Bytes), NEW t \in Seq(Bytes),
           Goods(s, h), Goods(t, h)
    PROVE  s \o t \in Seq(Bytes) /\ Goods(s \o t, h)
<1>1. /\ s \o t \in Seq(Bytes) /\ DOMAIN (s \o t) = 1 .. Len(s) + Len(t)
      /\ Len(s) \in Nat /\ Len(t) \in Nat
      /\ DOMAIN s = 1 .. Len(s) /\ DOMAIN t = 1 .. Len(t)
      /\ \A i \in 1 .. Len(s) : (s \o t)[i] = s[i]
      /\ \A i \in 1 .. Len(t) : (s \o t)[Len(s) + i] = t[i]
  OBVIOUS
<1>2. ASSUME NEW i \in 1 .. Len(s) + Len(t)
      PROVE  Good((s \o t)[i], h)
  <2>1. CASE i \in 1 .. Len(s)
    BY <1>1, <2>1 DEF Goods
  <2>2. CASE ~(i \in 1 .. Len(s))
    <3>1. i - Len(s) \in 1 .. Len(t) /\ Len(s) + (i - Len(s)) = i
      BY <1>1, <2>2
    <3>2. Good(t[i - Len(s)], h)
      BY <1>1, <3>1 DEF Goods
    <3>3. (s \o t)[Len(s) + (i - Len(s))] = t[i - Len(s)]
      BY <1>1, <3>1
    <3> QED BY <3>1, <3>2, <3>3
  <2> QED BY <2>1, <2>2
<1> QED BY <1>1, <1>2 DEF Goods

LEMMA Part ==
    ASSUME NEW S, NEW s \in Seq(S), NEW a \in Nat \ {0}, NEW b \in 0 .. Len(s)
    PROVE  /\ SubSeq(s, a, b) \in Seq(S)
           /\ DOMAIN SubSeq(s, a, b) = 1 .. Len(SubSeq(s, a, b))
           /\ Len(SubSeq(s, a, b)) = IF a <= b THEN b - a + 1 ELSE 0
           /\ \A i \in DOMAIN SubSeq(s, a, b) :
                /\ a - 1 + i \in DOMAIN s /\ SubSeq(s, a, b)[i] = s[a - 1 + i]
                /\ i \in Nat
<1>1. \A i \in a .. b : s[i] \in S
  OBVIOUS
<1>2. /\ SubSeq(s, a, b) \in Seq(S)
      /\ Len(SubSeq(s, a, b)) = IF a <= b THEN b - a + 1 ELSE 0
      /\ \A i \in 1 .. b - a + 1 : SubSeq(s, a, b)[i] = s[a + i - 1]
  BY <1>1, SubSeqProperties
<1>3. DOMAIN SubSeq(s, a, b) = 1 .. Len(SubSeq(s, a, b))
  BY <1>2
<1>4. DOMAIN s = 1 .. Len(s) /\ Len(s) \in Nat
  OBVIOUS
<1> DEFINE q == SubSeq(s, a, b)
<1>5. ASSUME NEW i \in DOMAIN q
      PROVE  /\ a - 1 + i \in DOMAIN s /\ q[i] = s[a - 1 + i] /\ i \in Nat
  <2>1. i \in 1 .. (IF a <= b THEN b - a + 1 ELSE 0)
    BY <1>2, <1>3
  <2>2. i \in 1 .. b - a + 1 /\ a - 1 + i \in 1 .. Len(s) /\ a + i - 1 = a - 1 + i
    BY <2>1, <1>4
  <2> QED BY <1>2, <1>4, <2>2
<1> QED BY <1>2, <1>3, <1>5

LEMMA GoodsPart ==
    ASSUME NEW h, NEW s \in Seq(Bytes), Goods(s, h),
           NEW a \in Nat \ {0}, NEW b \in 0 .. Len(s)
    PROVE  SubSeq(s, a, b) \in Seq(Bytes) /\ Goods(SubSeq(s, a, b), h)
  BY Part DEF Goods

LEMMA GeneralInit ==
    ASSUME FramingAssumption, Init
    PROVE  General
<1>1. <<>> \in Seq(Bytes) /\ <<>> \in Seq(Byte) /\ DOMAIN <<>> = {}
  OBVIOUS
<1>2. Fresh \in Locals /\ Fresh.chunk = <<>>
  BY ByteFacts, <1>1 DEF Fresh, Locals, FramingAssumption
<1>3. TypeOK
  BY <1>1, <1>2 DEF Init, TypeOK, FramingAssumption, Steps
<1> QED BY <1>1, <1>2, <1>3 DEF Init, General, Goods

LEMMA SendGeneral ==
    ASSUME FramingAssumption, General, NEW m \in Messages, Send(m)
    PROVE  General'
<1> DEFINE n == Len(sent) + 1
<1>1. /\ TypeOK /\ sent \in Seq(Messages) /\ Len(sent) \in Nat
      /\ sent' = Append(sent, m) /\ sent' \in Seq(Messages)
      /\ Len(sent') = n /\ sent'[n] = m
      /\ n \in DOMAIN sent' /\ n \in 1 .. MaxFrames
      /\ \A i \in DOMAIN sent : i \in DOMAIN sent' /\ sent'[i] = sent[i]
      /\ DOMAIN sent' = 1 .. n /\ DOMAIN sent = 1 .. Len(sent)
  <2>1. /\ TypeOK /\ sent \in Seq(Messages) /\ sent' = Append(sent, m)
        /\ Len(sent) < MaxFrames
    BY DEF General, TypeOK, Send
  <2>2. /\ sent' \in Seq(Messages) /\ Len(sent') = Len(sent) + 1
        /\ sent'[Len(sent) + 1] = m /\ Len(sent) \in Nat
        /\ \A i \in 1 .. Len(sent) : sent'[i] = sent[i]
    BY <2>1
  <2>3. DOMAIN sent = 1 .. Len(sent) /\ DOMAIN sent' = 1 .. n
    BY <2>1, <2>2
  <2>4. n \in 1 .. n /\ 1 .. Len(sent) \subseteq 1 .. n
    BY <2>2
  <2>5. n \in 1 .. MaxFrames
    BY <2>1, <2>2 DEF FramingAssumption
  <2> QED BY <2>1, <2>2, <2>3, <2>4, <2>5
<1>2. \A b \in Bytes : Good(b, sent) => Good(b, sent')
  BY <1>1 DEF Good, Bytes
<1>3. \A bytes \in Seq(Bytes) : Goods(bytes, sent) => Goods(bytes, sent')
  BY <1>2 DEF Goods
<1>4. txSeq \in Byte
  BY ByteFacts DEF General, TypeOK
<1>5. PICK v \in Byte : air' = air \o Frame(m, n, v)
  BY ByteFacts DEF Send
<1> DEFINE f == Frame(m, n, v)
           c == Covered(m, txSeq)
<1>6. c \in Seq(Byte) /\ Len(c) \in Nat
  BY <1>4, CoveredType
<1>7. /\ f \in Seq(Bytes) /\ Len(f) = Len(c) + 2 /\ f[1] = Plain(STX, n)
      /\ \A q \in 1 .. Len(c) : f[1 + q] = Plain(c[q], n)
      /\ f[Len(c) + 2] = [val |-> v, crc |-> c, frame |-> n]
  <2>1. n \in 0 .. MaxFrames
    BY <1>1 DEF General, TypeOK, FramingAssumption
  <2> QED BY <1>4, <2>1, FrameShape
<1>8. Goods(f, sent')
  <2>1. \A x \in Byte : Good(Plain(x, n), sent')
    BY <1>1 DEF Good, Plain
  <2>2. Good([val |-> v, crc |-> c, frame |-> n], sent')
    BY <1>1, <1>4 DEF Good
  <2>3. DOMAIN f = 1 .. Len(c) + 2
    BY <1>7
  <2>4. \A q \in 1 .. Len(c) : c[q] \in Byte
    BY <1>6
  <2> HIDE DEF f, c
  <2>5. ASSUME NEW i \in DOMAIN f
        PROVE  Good(f[i], sent')
    <3>1. CASE i = 1
      BY <3>1, <1>7, <2>1, ByteFacts
    <3>2. CASE i = Len(c) + 2
      BY <3>2, <1>7, <2>2
    <3>3. CASE i # 1 /\ i # Len(c) + 2
      <4>1. i - 1 \in 1 .. Len(c) /\ 1 + (i - 1) = i
        BY <3>3, <2>3, <1>6
      <4>2. f[1 + (i - 1)] = Plain(c[i - 1], n)
        BY <4>1, <1>7
      <4> QED BY <4>1, <4>2, <2>1, <2>4
    <3> QED BY <3>1, <3>2, <3>3
  <2> QED BY <2>5 DEF Goods
<1>9. air' \in Seq(Bytes) /\ Goods(air', sent')
  <2>1. air \in Seq(Bytes) /\ Goods(air, sent')
    BY <1>3 DEF General, TypeOK
  <2> QED BY <2>1, <1>5, <1>7, <1>8, GoodsJoined
<1>10. TypeOK'
  <2>1. txSeq' \in 0 .. SeqMod - 1
    BY ByteFacts DEF General, TypeOK, Send, FramingAssumption
  <2>2. damaged' \subseteq 0 .. Len(sent')
    BY <1>1 DEF General, TypeOK, Send
  <2>3. \A i \in DOMAIN got' : got'[i].place \in DOMAIN sent'
    BY <1>1 DEF General, TypeOK, Send
  <2>4. Len(sent') <= MaxFrames
    BY <1>1
  <2> QED BY <1>1, <1>9, <2>1, <2>2, <2>3, <2>4 DEF TypeOK, Send
<1>11. Goods(rx', sent') /\ \A p \in Pollers : Goods(loc'[p].chunk, sent')
  BY <1>3 DEF General, TypeOK, Locals, Send
<1>12. \A p \in Pollers : pc'[p] \in {"take", "deliver"} => True(loc'[p], sent')
  BY <1>1 DEF General, Send, True
<1>13. \A i \in DOMAIN got' : /\ got'[i].place \in DOMAIN sent'
                              /\ got'[i].message = Told'[got'[i].place]
  <2>1. \A i \in DOMAIN sent : Told'[i] = Told[i]
    BY <1>1 DEF Told
  <2> QED BY <1>1, <2>1 DEF General, Send
<1> QED BY <1>9, <1>10, <1>11, <1>12, <1>13 DEF General

\* What is left of the line when a fault has struck.
LEMMA LineGeneral ==
    ASSUME FramingAssumption, General, Fault,
           air' \in Seq(Bytes), Goods(air', sent),
           damaged' \subseteq 0 .. Len(sent)
    PROVE  General'
<1>1. UNCHANGED <<txSeq, rx, pc, loc, sent, got>> /\ faults' \in 0 .. MaxFaults
  BY DEF Fault, General, TypeOK, FramingAssumption
<1>2. TypeOK'
  BY <1>1 DEF General, TypeOK
<1>3. Told' = Told
  BY <1>1 DEF Told
<1> QED BY <1>1, <1>2, <1>3 DEF General

LEMMA PlainGood ==
    ASSUME FramingAssumption, NEW v \in Byte, sent \in Seq(Messages)
    PROVE  Plain(v, 0) \in Bytes /\ Good(Plain(v, 0), sent)
<1>1. <<>> \in Seq(Byte) /\ 0 \in 0 .. MaxFrames /\ Len(sent) \in Nat
  BY DEF FramingAssumption
<1> QED BY <1>1 DEF Plain, Bytes, Good

LEMMA FrameOfByte ==
    ASSUME NEW h \in Seq(Messages), NEW s \in Seq(Bytes), Goods(s, h),
           NEW i \in DOMAIN s
    PROVE  s[i] \in Bytes /\ Good(s[i], h) /\ s[i].frame \in 0 .. Len(h)
<1>1. s[i] \in Bytes /\ Len(h) \in Nat
  OBVIOUS
<1>2. Good(s[i], h)
  BY DEF Goods
<1>3. s[i].frame \in Nat
  BY <1>1 DEF Bytes
<1> QED BY <1>1, <1>2, <1>3 DEF Good

LEMMA LoseGeneral ==
    ASSUME FramingAssumption, General, NEW i \in DOMAIN air, Lose(i)
    PROVE  General'
<1>1. /\ air \in Seq(Bytes) /\ Goods(air, sent) /\ DOMAIN air = 1 .. Len(air)
      /\ Len(air) \in Nat
  BY DEF General, TypeOK
<1>2. i - 1 \in 0 .. Len(air) /\ i + 1 \in Nat \ {0} /\ Len(air) \in 0 .. Len(air)
      /\ 1 \in Nat \ {0}
  BY <1>1
<1>3. /\ SubSeq(air, 1, i - 1) \in Seq(Bytes) /\ Goods(SubSeq(air, 1, i - 1), sent)
      /\ SubSeq(air, i + 1, Len(air)) \in Seq(Bytes)
      /\ Goods(SubSeq(air, i + 1, Len(air)), sent)
  BY <1>1, <1>2, GoodsPart
<1>4. air' \in Seq(Bytes) /\ Goods(air', sent)
  BY <1>3, GoodsJoined DEF Lose
<1>5. damaged' \subseteq 0 .. Len(sent)
  <2>1. sent \in Seq(Messages) /\ damaged \subseteq 0 .. Len(sent)
    BY DEF General, TypeOK
  <2>2. air[i].frame \in 0 .. Len(sent)
    BY <1>1, <2>1, FrameOfByte
  <2> QED BY <2>1, <2>2 DEF Lose
<1> QED BY <1>4, <1>5, LineGeneral DEF Lose

LEMMA ChangeGeneral ==
    ASSUME FramingAssumption, General, NEW i \in DOMAIN air, NEW v \in Byte,
           Change(i, v)
    PROVE  General'
<1>1. /\ air \in Seq(Bytes) /\ Goods(air, sent) /\ DOMAIN air = 1 .. Len(air)
      /\ Len(air) \in Nat /\ sent \in Seq(Messages)
  BY DEF General, TypeOK
<1>2. Plain(v, 0) \in Bytes /\ Good(Plain(v, 0), sent)
  BY <1>1, PlainGood
<1>3. air' = [air EXCEPT ![i] = Plain(v, 0)]
  BY DEF Change
<1>4. air' \in Seq(Bytes) /\ Goods(air', sent)
  BY <1>1, <1>2, <1>3 DEF Goods
<1>5. damaged' \subseteq 0 .. Len(sent)
  <2>1. sent \in Seq(Messages) /\ damaged \subseteq 0 .. Len(sent)
    BY DEF General, TypeOK
  <2>2. air[i].frame \in 0 .. Len(sent)
    BY <1>1, <2>1, FrameOfByte
  <2> QED BY <2>1, <2>2 DEF Change
<1> QED BY <1>4, <1>5, LineGeneral DEF Change

LEMMA InsertGeneral ==
    ASSUME FramingAssumption, General, NEW i \in 1 .. Len(air) + 1,
           NEW v \in Byte, Insert(i, v)
    PROVE  General'
<1>1. /\ air \in Seq(Bytes) /\ Goods(air, sent) /\ DOMAIN air = 1 .. Len(air)
      /\ Len(air) \in Nat /\ sent \in Seq(Messages)
  BY DEF General, TypeOK
<1>2. /\ i - 1 \in 0 .. Len(air) /\ i \in Nat \ {0} /\ Len(air) \in 0 .. Len(air)
      /\ 1 \in Nat \ {0}
  BY <1>1
<1> DEFINE b == Plain(v, 0)
           l == SubSeq(air, 1, i - 1)
           r == SubSeq(air, i, Len(air))
<1>3. l \in Seq(Bytes) /\ Goods(l, sent) /\ r \in Seq(Bytes) /\ Goods(r, sent)
  BY <1>1, <1>2, GoodsPart
<1>4. <<b>> \in Seq(Bytes) /\ Goods(<<b>>, sent)
  <2>1. b \in Bytes /\ Good(b, sent)
    BY <1>1, PlainGood
  <2> HIDE DEF b
  <2> QED BY <2>1 DEF Goods
<1>5. air' = l \o <<b>> \o r
  BY DEF Insert
<1> HIDE DEF l, r, b
<1>6. l \o <<b>> \in Seq(Bytes) /\ Goods(l \o <<b>>, sent)
  BY <1>3, <1>4, GoodsJoined
<1>7. air' \in Seq(Bytes) /\ Goods(air', sent)
  BY <1>3, <1>5, <1>6, GoodsJoined
<1>8. damaged' \subseteq 0 .. Len(sent)
  <2>1. damaged \subseteq 0 .. Len(sent) /\ Len(sent) \in Nat
    BY DEF General, TypeOK
  <2>2. CASE i > Len(air)
    BY <2>1, <2>2 DEF Insert
  <2>3. CASE i <= Len(air)
    <3>1. i \in DOMAIN air
      BY <1>1, <2>3
    <3>2. air[i].frame \in 0 .. Len(sent)
      BY <1>1, <3>1, FrameOfByte
    <3> QED BY <2>1, <3>2 DEF Insert
  <2> QED BY <1>1, <2>2, <2>3
<1> QED BY <1>7, <1>8, LineGeneral DEF Insert

\* Poller p goes to a step with locals l; what the sender and the line keep is
\* left alone.
LEMMA PollGeneral ==
    ASSUME FramingAssumption, General, NEW p \in Pollers,
           NEW step \in Steps, NEW l \in Locals,
           pc' = [pc EXCEPT ![p] = step], loc' = [loc EXCEPT ![p] = l],
           Goods(l.chunk, sent), step \in {"take", "deliver"} => True(l, sent),
           rx' \in Seq(Bytes), Goods(rx', sent),
           air' \in Seq(Bytes), Goods(air', sent),
           UNCHANGED <<txSeq, got, history>>
    PROVE  General'
<1>1. sent' = sent /\ got' = got /\ Told' = Told
  BY DEF history, Told
<1>2. TypeOK'
  BY DEF General, TypeOK, history
<1>3. \A q \in Pollers : /\ loc'[q] = IF q = p THEN l ELSE loc[q]
                         /\ pc'[q] = IF q = p THEN step ELSE pc[q]
  BY DEF General, TypeOK
<1>4. \A q \in Pollers : Goods(loc'[q].chunk, sent')
  BY <1>1, <1>3 DEF General
<1>5. \A q \in Pollers : pc'[q] \in {"take", "deliver"} => True(loc'[q], sent')
  BY <1>1, <1>3 DEF General
<1> QED BY <1>1, <1>2, <1>4, <1>5 DEF General

LEMMA LocalTypes ==
    ASSUME General, NEW p \in Pollers
    PROVE  /\ loc[p] \in Locals
           /\ loc[p].chunk \in Seq(Bytes) /\ loc[p].idx \in Nat
           /\ loc[p].len \in Byte /\ loc[p].covered \in Seq(Byte)
           /\ loc[p].frame \in 0 .. MaxFrames
           /\ loc = [loc EXCEPT ![p] = loc[p]] /\ Goods(loc[p].chunk, sent)
<1>1. loc \in [Pollers -> Locals] /\ loc[p] \in Locals
  BY DEF General, TypeOK
<1>2. /\ loc[p].chunk \in Seq(Bytes) /\ loc[p].idx \in Nat
      /\ loc[p].len \in Byte /\ loc[p].covered \in Seq(Byte)
      /\ loc[p].frame \in 0 .. MaxFrames
  BY <1>1 DEF Locals
<1>3. loc = [loc EXCEPT ![p] = loc[p]]
  BY <1>1
<1> QED BY <1>1, <1>2, <1>3 DEF General

\* A poller that covers other bytes keeps its types and its chunk.
LEMMA CoverType ==
    ASSUME General, NEW p \in Pollers, NEW c \in Seq(Byte)
    PROVE  /\ [loc[p] EXCEPT !.covered = c] \in Locals
           /\ [loc[p] EXCEPT !.covered = c].chunk = loc[p].chunk
<1> DEFINE l == loc[p]
<1>1. l \in Locals
  BY LocalTypes
<1> HIDE DEF l
<1>2. [l EXCEPT !.covered = c] \in Locals /\ [l EXCEPT !.covered = c].chunk = l.chunk
  BY <1>1 DEF Locals
<1> QED BY <1>2 DEF l

LEMMA LengthType ==
    ASSUME FramingAssumption, General, NEW p \in Pollers
    PROVE  /\ loc[p].len \in Nat /\ Overhead + loc[p].len \in Nat \ {0}
           /\ 4 + loc[p].len \in Nat
<1>1. loc[p].len \in Nat
  BY LocalTypes, ByteFacts
<1> QED BY <1>1 DEF Overhead

LEMMA FreshType ==
    ASSUME FramingAssumption
    PROVE  /\ Fresh \in Locals /\ Fresh.chunk = <<>>
           /\ \A h : Goods(<<>>, h) /\ Goods(Fresh.chunk, h)
<1>1. <<>> \in Seq(Bytes) /\ <<>> \in Seq(Byte) /\ DOMAIN <<>> = {}
  OBVIOUS
<1> QED BY ByteFacts, <1>1 DEF Fresh, Locals, FramingAssumption, Goods

LEMMA BufferTypes ==
    ASSUME General
    PROVE  /\ rx \in Seq(Bytes) /\ Goods(rx, sent)
           /\ air \in Seq(Bytes) /\ Goods(air, sent)
           /\ <<>> \in Seq(Bytes)
  BY DEF General, TypeOK

LEMMA DropGeneral ==
    ASSUME FramingAssumption, General, NEW n \in Nat, Drop(n)
    PROVE  rx' \in Seq(Bytes) /\ Goods(rx', sent)
<1>1. rx \in Seq(Bytes) /\ Goods(rx, sent)
  BY DEF General, TypeOK
<1>2. n + 1 \in Nat \ {0} /\ Len(rx) \in 0 .. Len(rx)
  BY <1>1
<1> QED BY <1>1, <1>2, GoodsPart DEF Drop

LEMMA ValsType ==
    ASSUME NEW s \in Seq(Bytes)
    PROVE  /\ Vals(s) \in Seq(Byte) /\ Len(Vals(s)) = Len(s)
           /\ \A i \in DOMAIN s : Vals(s)[i] = s[i].val
<1>1. DOMAIN s = 1 .. Len(s) /\ Len(s) \in Nat /\ \A i \in 1 .. Len(s) : s[i] \in Bytes
  OBVIOUS
<1>2. Vals(s) \in [1 .. Len(s) -> Byte] /\ \A i \in DOMAIN s : Vals(s)[i] = s[i].val
  BY <1>1 DEF Vals, Bytes
<1> QED BY <1>1, <1>2

\* A slice of the buffer: short where the buffer ends.
LEMMA SliceType ==
    ASSUME FramingAssumption, General, NEW a \in Nat \ {0}, NEW b \in Nat
    PROVE  Vals(Slice(a, b)) \in Seq(Byte)
<1> DEFINE e == IF b < Len(rx) THEN b ELSE Len(rx)
<1>1. rx \in Seq(Bytes) /\ e \in 0 .. Len(rx)
  BY BufferTypes
<1> HIDE DEF e
<1>2. SubSeq(rx, a, e) \in Seq(Bytes)
  BY <1>1, Part
<1>3. Slice(a, b) = SubSeq(rx, a, e)
  BY DEF Slice, e
<1> QED BY <1>2, <1>3, ValsType

LEMMA ReadGeneral ==
    ASSUME FramingAssumption, General, NEW p \in Pollers, Read(p)
    PROVE  General'
<1>1. PICK n \in 0 .. Len(air) :
         /\ loc' = [loc EXCEPT ![p] = [Fresh EXCEPT !.chunk = SubSeq(air, 1, n)]]
         /\ air' = SubSeq(air, n + 1, Len(air))
  BY DEF Read
<1> DEFINE c == SubSeq(air, 1, n)
           l == [Fresh EXCEPT !.chunk = c]
<1>2. /\ n \in Nat /\ 1 \in Nat \ {0} /\ n + 1 \in Nat \ {0}
      /\ Len(air) \in 0 .. Len(air)
  BY BufferTypes
<1>3. /\ c \in Seq(Bytes) /\ Goods(c, sent)
      /\ air' \in Seq(Bytes) /\ Goods(air', sent)
  BY <1>1, <1>2, BufferTypes, GoodsPart
<1> HIDE DEF c
<1>4. l \in Locals /\ l.chunk = c
  BY <1>3, FreshType DEF Locals
<1>5. "extend" \in Steps /\ pc' = [pc EXCEPT ![p] = "extend"]
  BY DEF Steps, Read, Go
<1>6. rx' = rx /\ UNCHANGED <<txSeq, got, history>>
  BY DEF Read
<1>7. loc' = [loc EXCEPT ![p] = l]
  BY <1>1 DEF c
<1> HIDE DEF l
<1> QED BY <1>3, <1>4, <1>5, <1>6, <1>7, LocalTypes, FreshType, BufferTypes, PollGeneral

LEMMA ExtendGeneral ==
    ASSUME FramingAssumption, General, NEW p \in Pollers, Extend(p)
    PROVE  General'
<1>1. rx' \in Seq(Bytes) /\ Goods(rx', sent)
  BY LocalTypes, BufferTypes, GoodsJoined DEF Extend
<1>2. /\ pc' = [pc EXCEPT ![p] = "find"] /\ loc' = [loc EXCEPT ![p] = Fresh]
      /\ air' = air /\ UNCHANGED <<txSeq, got, history>> /\ "find" \in Steps
  BY DEF Extend, Go, Shared, Steps
<1> QED BY <1>1, <1>2, LocalTypes, FreshType, BufferTypes, PollGeneral

LEMMA FindGeneral ==
    ASSUME FramingAssumption, General, NEW p \in Pollers, Find(p)
    PROVE  General'
<1>1. rx' = rx /\ air' = air /\ UNCHANGED <<txSeq, got, history>>
  BY DEF Find, Local
<1>2. "clear" \in Steps /\ "trim" \in Steps /\ "enough" \in Steps
  BY DEF Steps
<1>3. CASE Go(p, "clear") /\ UNCHANGED loc
  BY <1>1, <1>2, <1>3, LocalTypes, FreshType, BufferTypes, PollGeneral DEF Go
<1>4. CASE \E i \in DOMAIN rx :
             /\ loc' = [loc EXCEPT ![p] = [Fresh EXCEPT !.idx = i - 1]]
             /\ Go(p, IF i > 1 THEN "trim" ELSE "enough")
  <2>1. PICK i \in DOMAIN rx :
             /\ loc' = [loc EXCEPT ![p] = [Fresh EXCEPT !.idx = i - 1]]
             /\ Go(p, IF i > 1 THEN "trim" ELSE "enough")
    BY <1>4
  <2> DEFINE l == [Fresh EXCEPT !.idx = i - 1]
             step == IF i > 1 THEN "trim" ELSE "enough"
  <2>2. i - 1 \in Nat
    <3>1. rx \in Seq(Bytes)
      BY BufferTypes
    <3> QED BY <3>1
  <2>3. l \in Locals /\ l.chunk = <<>>
    BY <2>2, FreshType DEF Locals
  <2>4. step \in Steps /\ step \notin {"take", "deliver"}
    BY <1>2
  <2>5. pc' = [pc EXCEPT ![p] = step] /\ loc' = [loc EXCEPT ![p] = l]
    BY <2>1 DEF Go
  <2> HIDE DEF l, step
  <2> QED BY <1>1, <2>3, <2>4, <2>5, LocalTypes, FreshType, BufferTypes, PollGeneral
<1> QED BY <1>3, <1>4 DEF Find

\* The steps that only drop bytes, or only look.
LEMMA PlainStepGeneral ==
    ASSUME FramingAssumption, General, NEW p \in Pollers,
           \/ Clear(p) \/ Trim(p) \/ Enough(p) \/ Whole(p) \/ Skip(p) \/ Take(p)
    PROVE  General'
<1>1. \A s \in {"idle", "enough", "length", "header", "find", "deliver"} : s \in Steps
  BY DEF Steps
<1>2. 1 \in Nat /\ Overhead + loc[p].len \in Nat
  BY LengthType
<1>3. CASE Clear(p)
  <2>1. /\ pc' = [pc EXCEPT ![p] = "idle"] /\ loc' = loc /\ rx' = <<>>
        /\ air' = air /\ UNCHANGED <<txSeq, got, history>>
    BY <1>3 DEF Clear, Go, Shared
  <2> QED BY <1>1, <2>1, LocalTypes, FreshType, BufferTypes, PollGeneral
<1>4. CASE Trim(p)
  <2>1. /\ pc' = [pc EXCEPT ![p] = "enough"] /\ loc' = loc /\ Drop(loc[p].idx)
        /\ air' = air /\ UNCHANGED <<txSeq, got, history>>
    BY <1>4 DEF Trim, Go, Shared
  <2>2. rx' \in Seq(Bytes) /\ Goods(rx', sent)
    BY <2>1, LocalTypes, DropGeneral
  <2> QED BY <1>1, <2>1, <2>2, LocalTypes, FreshType, BufferTypes, PollGeneral
<1>5. CASE Enough(p)
  <2> DEFINE step == IF Len(rx) < Overhead THEN "idle" ELSE "length"
  <2>1. /\ pc' = [pc EXCEPT ![p] = step] /\ loc' = loc /\ rx' = rx
        /\ air' = air /\ UNCHANGED <<txSeq, got, history>>
    BY <1>5 DEF Enough, Go, Local
  <2>2. step \in Steps /\ step \notin {"take", "deliver"}
    BY <1>1
  <2> HIDE DEF step
  <2> QED BY <2>1, <2>2, LocalTypes, FreshType, BufferTypes, PollGeneral
<1>6. CASE Whole(p)
  <2> DEFINE step == IF Len(rx) < Overhead + loc[p].len THEN "idle" ELSE "header"
  <2>1. /\ pc' = [pc EXCEPT ![p] = step] /\ loc' = loc /\ rx' = rx
        /\ air' = air /\ UNCHANGED <<txSeq, got, history>>
    BY <1>6 DEF Whole, Go, Local
  <2>2. step \in Steps /\ step \notin {"take", "deliver"}
    BY <1>1
  <2> HIDE DEF step
  <2> QED BY <2>1, <2>2, LocalTypes, FreshType, BufferTypes, PollGeneral
<1>7. CASE Skip(p)
  <2>1. /\ pc' = [pc EXCEPT ![p] = "find"] /\ loc' = [loc EXCEPT ![p] = Fresh]
        /\ Drop(1) /\ air' = air /\ UNCHANGED <<txSeq, got, history>>
    BY <1>7 DEF Skip, Go, Shared
  <2>2. rx' \in Seq(Bytes) /\ Goods(rx', sent)
    BY <1>2, <2>1, DropGeneral
  <2> QED BY <1>1, <2>1, <2>2, LocalTypes, FreshType, BufferTypes, PollGeneral
<1>8. CASE Take(p)
  <2>1. /\ pc' = [pc EXCEPT ![p] = "deliver"] /\ loc' = loc
        /\ Drop(Overhead + loc[p].len) /\ air' = air
        /\ UNCHANGED <<txSeq, got, history>>
    BY <1>8 DEF Take, Go, Shared
  <2>2. rx' \in Seq(Bytes) /\ Goods(rx', sent)
    BY <1>2, <2>1, DropGeneral
  <2>3. True(loc[p], sent)
    BY <1>8 DEF General, Take, At
  <2> QED BY <1>1, <2>1, <2>2, <2>3, LocalTypes, FreshType, BufferTypes, PollGeneral
<1> QED BY <1>3, <1>4, <1>5, <1>6, <1>7, <1>8

\* The steps that read the buffer into the poller's locals.
LEMMA LookStepGeneral ==
    ASSUME FramingAssumption, General, NEW p \in Pollers,
           Length(p) \/ Header(p) \/ Payload(p)
    PROVE  General'
<1>1. \A s \in {"crashed", "whole", "payload", "crc"} : s \in Steps
  BY DEF Steps
<1>2. rx' = rx /\ air' = air /\ UNCHANGED <<txSeq, got, history>>
  BY DEF Length, Header, Payload, Local
<1>3. CASE Go(p, "crashed") /\ UNCHANGED loc
  BY <1>1, <1>2, <1>3, LocalTypes, FreshType, BufferTypes, PollGeneral DEF Go
<1>4. CASE /\ ~(Len(rx) < 2) /\ Go(p, "whole")
           /\ loc' = [loc EXCEPT ![p].len = rx[2].val]
  <2> DEFINE l == [loc[p] EXCEPT !.len = rx[2].val]
  <2>1. rx[2].val \in Byte
    <3>1. rx \in Seq(Bytes)
      BY BufferTypes
    <3>3. 2 \in 1 .. Len(rx)
      BY <1>4, <3>1
    <3>2. rx[2] \in Bytes
      BY <3>1, <3>3
    <3> QED BY <3>2 DEF Bytes
  <2>2. l \in Locals /\ l.chunk = loc[p].chunk
    BY <2>1, LocalTypes DEF Locals
  <2>3. loc' = [loc EXCEPT ![p] = l] /\ pc' = [pc EXCEPT ![p] = "whole"]
    BY <1>4 DEF Go
  <2> HIDE DEF l
  <2> QED BY <1>1, <1>2, <2>2, <2>3, LocalTypes, FreshType, BufferTypes, PollGeneral
<1>5. CASE Header(p)
  <2> DEFINE l == [loc[p] EXCEPT !.covered = Vals(Slice(2, 4))]
  <2>1. Vals(Slice(2, 4)) \in Seq(Byte)
    <3>1. 2 \in Nat \ {0} /\ 4 \in Nat
      OBVIOUS
    <3> QED BY <3>1, SliceType, Zenon
  <2>2. l \in Locals /\ l.chunk = loc[p].chunk
    BY <2>1, CoverType
  <2>3. loc' = [loc EXCEPT ![p] = l] /\ pc' = [pc EXCEPT ![p] = "payload"]
    BY <1>5 DEF Header, Go
  <2> HIDE DEF l
  <2> QED BY <1>1, <1>2, <2>2, <2>3, LocalTypes, FreshType, BufferTypes, PollGeneral
<1>6. CASE Payload(p)
  <2> DEFINE c == loc[p].covered \o Vals(Slice(5, 4 + loc[p].len))
             l == [loc[p] EXCEPT !.covered = c]
  <2>1. Vals(Slice(5, 4 + loc[p].len)) \in Seq(Byte)
    <3>1. 5 \in Nat \ {0} /\ 4 + loc[p].len \in Nat
      BY LengthType
    <3> QED BY <3>1, SliceType, Zenon
  <2>2. c \in Seq(Byte)
    BY <2>1, LocalTypes
  <2>3. loc' = [loc EXCEPT ![p] = l] /\ pc' = [pc EXCEPT ![p] = "crc"]
    BY <1>6 DEF Payload, Go
  <2> HIDE DEF c
  <2>4. l \in Locals /\ l.chunk = loc[p].chunk
    BY <2>2, CoverType
  <2> HIDE DEF l
  <2> QED BY <1>1, <1>2, <2>3, <2>4, LocalTypes, FreshType, BufferTypes, PollGeneral
<1> QED BY <1>3, <1>4, <1>5, <1>6 DEF Length

\* A byte with a CRC that is that of the covered bytes ends a frame of them.
LEMMA CheckGeneral ==
    ASSUME FramingAssumption, General, NEW p \in Pollers, Check(p)
    PROVE  General'
<1> DEFINE i == Overhead + loc[p].len
<1>1. rx' = rx /\ air' = air /\ UNCHANGED <<txSeq, got, history>>
  BY DEF Check, Local
<1>2. \A s \in {"crashed", "take", "skip"} : s \in Steps
  BY DEF Steps
<1>3. CASE Len(rx) < i
  <2>1. pc' = [pc EXCEPT ![p] = "crashed"] /\ loc' = loc
    BY <1>3 DEF Check, Go
  <2> QED BY <1>1, <1>2, <2>1, LocalTypes, FreshType, BufferTypes, PollGeneral
<1>4. CASE ~(Len(rx) < i)
  <2> DEFINE l == [loc[p] EXCEPT !.frame = rx[i].frame]
             step == IF rx[i].crc # <<>> /\ rx[i].crc = loc[p].covered
                     THEN "take" ELSE "skip"
  <2>1. loc' = [loc EXCEPT ![p] = l] /\ pc' = [pc EXCEPT ![p] = step]
    BY <1>4 DEF Check, Go
  <2>2. i \in DOMAIN rx /\ rx[i] \in Bytes /\ Good(rx[i], sent)
    <3>1. rx \in Seq(Bytes) /\ Goods(rx, sent)
      BY BufferTypes
    <3>2. i \in Nat \ {0}
      BY LengthType
    <3>3. i \in 1 .. Len(rx) /\ DOMAIN rx = 1 .. Len(rx)
      BY <1>4, <3>1, <3>2
    <3>4. rx[i] \in Bytes
      BY <3>1, <3>3
    <3> QED BY <3>1, <3>3, <3>4 DEF Goods
  <2>3. l \in Locals /\ l.chunk = loc[p].chunk
    BY <2>2, LocalTypes, ZenonT(30) DEF Locals, Bytes
  <2>4. step \in {"take", "deliver"} => True(l, sent)
    <3>1. ASSUME rx[i].crc # <<>>, rx[i].crc = loc[p].covered
          PROVE  True(l, sent)
      <4>1. l.frame = rx[i].frame /\ l.covered = rx[i].crc
        BY <3>1, LocalTypes DEF Locals
      <4> HIDE DEF l
      <4> QED BY <2>2, <3>1, <4>1 DEF Good, True
    <3> HIDE DEF l
    <3> QED BY <3>1
  <2>5. step \in Steps
    BY <1>2
  <2> HIDE DEF l, step
  <2> QED BY <1>1, <2>1, <2>3, <2>4, <2>5, LocalTypes, BufferTypes, PollGeneral
<1> QED BY <1>3, <1>4

\* The covered bytes of a frame are decoded to the message it was made of.
LEMMA DecodeTrue ==
    ASSUME FramingAssumption, NEW m \in Messages, NEW s \in Byte
    PROVE  /\ Decode(Covered(m, s)) = {[m EXCEPT !.body = Encode(m)]}
           /\ [m EXCEPT !.body = Encode(m)] \in [kind : Kinds, body : Seq(Byte)]
<1> DEFINE c == Covered(m, s)
           b == SubSeq(c, 4, Len(c))
           x == [m EXCEPT !.body = Encode(m)]
<1>1. /\ c \in Seq(Byte) /\ Len(c) = 3 + Size[m.kind] /\ c[3] = Id[m.kind]
      /\ \A i \in 1 .. Size[m.kind] : c[3 + i] = Encode(m)[i]
      /\ Size[m.kind] \in Nat
  BY CoveredType
<1>2. Encode(m) \in Seq(Byte) /\ Len(Encode(m)) = Size[m.kind] /\ m.kind \in Kinds
  BY EncodeType
<1> HIDE DEF c
<1>3. b = Encode(m)
  <2>1. 4 \in Nat \ {0} /\ Len(c) \in 0 .. Len(c)
    BY <1>1
  <2>2. /\ b \in Seq(Byte)
        /\ Len(b) = IF 4 <= Len(c) THEN Len(c) - 4 + 1 ELSE 0
        /\ \A i \in DOMAIN b : b[i] = c[4 - 1 + i]
        /\ DOMAIN b = 1 .. Len(b)
    BY <1>1, <2>1, Part
  <2>3. Len(b) = Size[m.kind]
    BY <1>1, <2>2
  <2> HIDE DEF b
  <2>4. ASSUME NEW i \in 1 .. Len(b)
        PROVE  b[i] = Encode(m)[i]
    <3>1. i \in 1 .. Size[m.kind] /\ 4 - 1 + i = 3 + i
      BY <1>1, <2>3
    <3>2. b[i] = c[3 + i]
      BY <2>2, <3>1
    <3> QED BY <1>1, <3>1, <3>2
  <2>5. b \in Seq(Byte) /\ Encode(m) \in Seq(Byte) /\ Len(b) = Len(Encode(m))
    BY <1>2, <2>2, <2>3
  <2> QED BY <2>4, <2>5, SeqEqual
<1>4. m \in [kind : Kinds, body : Seq(Nat)]
  BY DEF FramingAssumption
<1>5. x = [kind |-> m.kind, body |-> Encode(m)]
  BY <1>4
<1>6. Decode(c) = {y \in [kind : Kinds, body : {Encode(m)}] :
                      Id[y.kind] = Id[m.kind] /\ Size[y.kind] = Len(y.body)}
  BY <1>1, <1>3 DEF Decode
<1>7. \A j, k \in Kinds : Id[j] = Id[k] => j = k
  BY DEF FramingAssumption
<1>8. Decode(c) = {[kind |-> m.kind, body |-> Encode(m)]}
  BY <1>2, <1>6, <1>7
<1> QED BY <1>2, <1>5, <1>8 DEF c

\* What a poller about to deliver hands over.
LEMMA DeliverTrue ==
    ASSUME FramingAssumption, General, NEW p \in Pollers, Deliver(p)
    PROVE  /\ loc[p].frame \in DOMAIN sent
           /\ got' = Append(got, [place   |-> loc[p].frame,
                                  message |-> Told[loc[p].frame]])
           /\ Told[loc[p].frame] \in [kind : Kinds, body : Seq(Byte)]
<1> DEFINE f == loc[p].frame
<1>1. f \in DOMAIN sent /\ \E s \in Byte : loc[p].covered = Covered(sent[f], s)
  BY DEF General, Deliver, At, True
<1>2. PICK s \in Byte : loc[p].covered = Covered(sent[f], s)
  BY <1>1
<1>3. sent[f] \in Messages
  BY <1>1 DEF General, TypeOK
<1>4. Told[f] = [sent[f] EXCEPT !.body = Encode(sent[f])]
  BY <1>1 DEF Told
<1>5. /\ Decode(loc[p].covered) = {Told[f]}
      /\ Told[f] \in [kind : Kinds, body : Seq(Byte)]
  BY <1>2, <1>3, <1>4, DecodeTrue
<1>6. got' = Append(got, [place |-> f, message |-> Told[f]])
  BY <1>5 DEF Deliver
<1> QED BY <1>1, <1>5, <1>6

LEMMA DeliverGeneral ==
    ASSUME FramingAssumption, General, NEW p \in Pollers, Deliver(p)
    PROVE  General'
<1> DEFINE f == loc[p].frame
           g == [place |-> f, message |-> Told[f]]
           T == [place : 1 .. MaxFrames, message : [kind : Kinds, body : Seq(Byte)]]
<1>1. f \in DOMAIN sent /\ got' = Append(got, g)
      /\ Told[f] \in [kind : Kinds, body : Seq(Byte)]
  BY DeliverTrue
<1>2. f \in 1 .. MaxFrames
  <2>1. sent \in Seq(Messages) /\ Len(sent) <= MaxFrames
    BY DEF General, TypeOK
  <2> QED BY <1>1, <2>1 DEF FramingAssumption
<1>3. g \in T /\ g.place = f /\ g.message = Told[f]
  BY <1>1, <1>2
<1>4. got \in Seq(T)
  BY DEF General, TypeOK
<1> HIDE DEF g, T
<1>5. /\ got' \in Seq(T)
      /\ \A i \in DOMAIN got' : \/ i \in DOMAIN got /\ got'[i] = got[i]
                               \/ got'[i] = g
  BY <1>1, <1>3, <1>4
<1>6. UNCHANGED <<txSeq, air, rx, history>> /\ pc' = [pc EXCEPT ![p] = "find"]
      /\ loc' = [loc EXCEPT ![p] = Fresh] /\ Told' = Told /\ sent' = sent
  BY DEF Deliver, Go, history, Told
<1>7. \A i \in DOMAIN got' : /\ got'[i].place \in DOMAIN sent
                             /\ got'[i].message = Told[got'[i].place]
  BY <1>1, <1>3, <1>5 DEF General
<1>8. "find" \in Steps
  BY DEF Steps
<1>9. TypeOK'
  BY <1>5, <1>6, <1>7, <1>8, FreshType DEF General, TypeOK, history, T
<1>10. \A q \in Pollers : /\ loc'[q] = IF q = p THEN Fresh ELSE loc[q]
                          /\ pc'[q] = IF q = p THEN "find" ELSE pc[q]
  BY <1>6 DEF General, TypeOK
<1>11. \A q \in Pollers : Goods(loc'[q].chunk, sent')
  BY <1>6, <1>10, FreshType DEF General
<1>12. \A q \in Pollers : pc'[q] \in {"take", "deliver"} => True(loc'[q], sent')
  BY <1>6, <1>10 DEF General
<1> QED BY <1>6, <1>7, <1>9, <1>11, <1>12 DEF General

LEMMA GeneralStep ==
    ASSUME FramingAssumption, General, [Next]_vars
    PROVE  General'
<1>1. CASE UNCHANGED vars
  BY <1>1 DEF vars, General, TypeOK, Told
<1>2. CASE \E m \in Messages : Send(m)
  BY <1>2, SendGeneral
<1>3. CASE \E i \in DOMAIN air : Lose(i)
  BY <1>3, LoseGeneral
<1>4. CASE \E i \in DOMAIN air, v \in Byte : Change(i, v)
  BY <1>4, ChangeGeneral
<1>5. CASE \E i \in 1 .. Len(air) + 1, v \in Byte : Insert(i, v)
  BY <1>5, InsertGeneral
<1>6. ASSUME NEW p \in Pollers, Poll(p)
      PROVE  General'
  BY <1>6, ReadGeneral, ExtendGeneral, FindGeneral, PlainStepGeneral,
     LookStepGeneral, CheckGeneral, DeliverGeneral DEF Poll
<1> QED BY <1>1, <1>2, <1>3, <1>4, <1>5, <1>6 DEF Next

\* Every byte on the line, in the buffer and in the pollers' hands is a byte,
\* and every message handed over has the fields of its type.
THEOREM TypeCorrect == Spec => []TypeOK
<1>1. Init => General
  BY FramingAssumption, GeneralInit
<1>2. General /\ [Next]_vars => General'
  BY FramingAssumption, GeneralStep
<1>3. General => TypeOK
  BY DEF General
<1> QED BY <1>1, <1>2, <1>3, PTL DEF Spec

----------------------------------------------------------------------------
(* The buffer stays short *)

\* A drain is over only when the buffer has been emptied, holds less than any
\* frame, or less than the frame its length byte announces.
LEMMA LastPoll ==
    ASSUME FramingAssumption, General, NEW p \in Pollers, Poll(p), At(p, "idle")'
    PROVE  Len(rx') < Overhead + Values - 1
<1>1. pc \in [Pollers -> Steps] /\ rx \in Seq(Bytes) /\ Len(rx) \in Nat
  BY DEF General, TypeOK
<1>2. Values \in Nat /\ Values >= 2 /\ Overhead = 5
  BY DEF FramingAssumption, Overhead
<1>3. loc[p].len \in 0 .. Values - 1
  BY LocalTypes DEF Byte
<1>4. CASE Clear(p)
  BY <1>2, <1>4 DEF Clear
<1>5. CASE Enough(p)
  BY <1>1, <1>2, <1>5 DEF Enough, Go, At, Local
<1>6. CASE Whole(p)
  <2>1. Len(rx) < Overhead + loc[p].len /\ rx' = rx
    BY <1>1, <1>6 DEF Whole, Go, At, Local
  <2> QED BY <1>1, <1>2, <1>3, <2>1
<1>7. ~(Read(p) \/ Extend(p) \/ Find(p) \/ Trim(p) \/ Length(p))
  BY <1>1 DEF Read, Extend, Find, Trim, Length, Go, At
<1>8. ~(Header(p) \/ Payload(p) \/ Check(p) \/ Skip(p) \/ Take(p) \/ Deliver(p))
  BY <1>1 DEF Header, Payload, Check, Skip, Take, Deliver, Go, At
<1> QED BY <1>4, <1>5, <1>6, <1>7, <1>8 DEF Poll

\* However many threads poll, and whatever the line adds: when none is at work
\* the buffer holds less than the longest frame.
THEOREM BufferBoundedAlways == Spec => []BufferBounded
<1>1. Init => General /\ BufferBounded
  BY FramingAssumption, GeneralInit DEF Init, BufferBounded, FramingAssumption, Overhead
<1>2. ASSUME General, BufferBounded, [Next]_vars
      PROVE  General' /\ BufferBounded'
  <2>1. General'
    BY <1>2, FramingAssumption, GeneralStep
  <2>2. CASE UNCHANGED <<rx, pc>>
    BY <1>2, <2>1, <2>2 DEF BufferBounded, At
  <2>3. ASSUME NEW p \in Pollers, Poll(p), \A q \in Pollers : At(q, "idle")'
        PROVE  Len(rx') < Overhead + Values - 1
    BY <1>2, <2>3, FramingAssumption, LastPoll
  <2>4. (\E p \in Pollers : Poll(p)) \/ UNCHANGED <<rx, pc>>
    BY <1>2 DEF Next, vars, Send, Lose, Change, Insert, Fault
  <2> QED BY <2>1, <2>2, <2>3, <2>4 DEF BufferBounded, At
<1> QED BY <1>1, <1>2, PTL DEF Spec

----------------------------------------------------------------------------
(* One poller: the stream of bytes before it *)

\* The bytes on their way through poller p, the next to be drained first.
Ahead(p) == rx \o loc[p].chunk
Stream(p) == Ahead(p) \o air

LEMMA Parts ==
    ASSUME NEW a \in Seq(Bytes), NEW b \in Seq(Bytes), NEW c \in Seq(Bytes),
           NEW u, NEW s, u = a \o b, s = u \o c
    PROVE  /\ s \in Seq(Bytes) /\ DOMAIN s = 1 .. Len(s)
           /\ Len(s) = Len(u) + Len(c) /\ Len(u) = Len(a) + Len(b)
           /\ Len(a) \in Nat /\ Len(b) \in Nat /\ Len(c) \in Nat
           /\ \A i \in 1 .. Len(u) : s[i] = u[i]
           /\ \A i \in 1 .. Len(c) : s[Len(u) + i] = c[i]
           /\ \A i \in 1 .. Len(a) : s[i] = a[i]
           /\ \A i \in 1 .. Len(b) : s[Len(a) + i] = b[i]
<1>1. /\ u \in Seq(Bytes) /\ Len(u) = Len(a) + Len(b)
      /\ Len(a) \in Nat /\ Len(b) \in Nat
      /\ \A i \in 1 .. Len(a) : u[i] = a[i]
      /\ \A i \in 1 .. Len(b) : u[Len(a) + i] = b[i]
  OBVIOUS
<1>2. u \in Seq(Bytes)
  BY <1>1
<1>3. /\ s \in Seq(Bytes) /\ Len(s) = Len(u) + Len(c) /\ Len(c) \in Nat
      /\ \A i \in 1 .. Len(u) : s[i] = u[i]
      /\ \A i \in 1 .. Len(c) : s[Len(u) + i] = c[i]
  BY <1>2
<1>4. DOMAIN s = 1 .. Len(s)
  BY <1>3
<1>5. /\ 1 .. Len(a) \subseteq 1 .. Len(u)
      /\ \A i \in 1 .. Len(b) : Len(a) + i \in 1 .. Len(u)
  BY <1>1
<1>6. /\ \A i \in 1 .. Len(a) : s[i] = a[i]
      /\ \A i \in 1 .. Len(b) : s[Len(a) + i] = b[i]
  BY <1>1, <1>3, <1>5, Zenon
<1> QED BY <1>1, <1>3, <1>4, <1>6

LEMMA Streams ==
    ASSUME General, NEW p \in Pollers
    PROVE  /\ Stream(p) \in Seq(Bytes) /\ DOMAIN Stream(p) = 1 .. Len(Stream(p))
           /\ Len(Stream(p)) = Len(Ahead(p)) + Len(air)
           /\ Len(Ahead(p)) = Len(rx) + Len(loc[p].chunk)
           /\ Len(rx) \in Nat /\ Len(loc[p].chunk) \in Nat /\ Len(air) \in Nat
           /\ \A i \in 1 .. Len(Ahead(p)) : Stream(p)[i] = Ahead(p)[i]
           /\ \A i \in 1 .. Len(air) : Stream(p)[Len(Ahead(p)) + i] = air[i]
           /\ \A i \in 1 .. Len(rx) : Stream(p)[i] = rx[i]
           /\ \A i \in 1 .. Len(loc[p].chunk) :
                 Stream(p)[Len(rx) + i] = loc[p].chunk[i]
           /\ Goods(Stream(p), sent)
<1>1. /\ rx \in Seq(Bytes) /\ loc[p].chunk \in Seq(Bytes) /\ air \in Seq(Bytes)
      /\ Goods(rx, sent) /\ Goods(loc[p].chunk, sent) /\ Goods(air, sent)
  BY LocalTypes, BufferTypes
<1>2. Ahead(p) \in Seq(Bytes) /\ Goods(Ahead(p), sent)
  BY <1>1, GoodsJoined DEF Ahead
<1>3. Goods(Stream(p), sent)
  BY <1>1, <1>2, GoodsJoined DEF Stream
<1> DEFINE a == rx
           b == loc[p].chunk
           c == air
           u == Ahead(p)
           s == Stream(p)
<1>4. /\ a \in Seq(Bytes) /\ b \in Seq(Bytes) /\ c \in Seq(Bytes)
      /\ u = a \o b /\ s = u \o c
  BY <1>1 DEF Ahead, Stream
<1> HIDE DEF a, b, c, u, s
<1>5. /\ s \in Seq(Bytes) /\ DOMAIN s = 1 .. Len(s)
      /\ Len(s) = Len(u) + Len(c) /\ Len(u) = Len(a) + Len(b)
      /\ Len(a) \in Nat /\ Len(b) \in Nat /\ Len(c) \in Nat
      /\ \A i \in 1 .. Len(u) : s[i] = u[i]
      /\ \A i \in 1 .. Len(c) : s[Len(u) + i] = c[i]
      /\ \A i \in 1 .. Len(a) : s[i] = a[i]
      /\ \A i \in 1 .. Len(b) : s[Len(a) + i] = b[i]
  BY <1>4, Parts
<1> QED BY <1>3, <1>5 DEF a, b, c, u, s

LEMMA StreamsNext ==
    ASSUME General', NEW p \in Pollers
    PROVE  /\ Stream(p)' \in Seq(Bytes) /\ DOMAIN Stream(p)' = 1 .. Len(Stream(p)')
           /\ Len(Stream(p)') = Len(Ahead(p)') + Len(air')
           /\ Len(Ahead(p)') = Len(rx') + Len(loc'[p].chunk)
           /\ Len(rx') \in Nat /\ Len(loc'[p].chunk) \in Nat /\ Len(air') \in Nat
           /\ \A i \in 1 .. Len(Ahead(p)') : Stream(p)'[i] = Ahead(p)'[i]
           /\ \A i \in 1 .. Len(air') : Stream(p)'[Len(Ahead(p)') + i] = air'[i]
           /\ \A i \in 1 .. Len(rx') : Stream(p)'[i] = rx'[i]
           /\ \A i \in 1 .. Len(loc'[p].chunk) :
                 Stream(p)'[Len(rx') + i] = loc'[p].chunk[i]
<1>1. loc' \in [Pollers -> Locals] /\ rx' \in Seq(Bytes) /\ air' \in Seq(Bytes)
  BY DEF General, TypeOK
<1>2. loc'[p].chunk \in Seq(Bytes)
  BY <1>1 DEF Locals
<1> DEFINE a == rx'
           b == loc'[p].chunk
           c == air'
           u == Ahead(p)'
           s == Stream(p)'
<1>4. /\ a \in Seq(Bytes) /\ b \in Seq(Bytes) /\ c \in Seq(Bytes)
      /\ u = a \o b /\ s = u \o c
  BY <1>1, <1>2 DEF Ahead, Stream
<1> HIDE DEF a, b, c, u, s
<1>5. /\ s \in Seq(Bytes) /\ DOMAIN s = 1 .. Len(s)
      /\ Len(s) = Len(u) + Len(c) /\ Len(u) = Len(a) + Len(b)
      /\ Len(a) \in Nat /\ Len(b) \in Nat /\ Len(c) \in Nat
      /\ \A i \in 1 .. Len(u) : s[i] = u[i]
      /\ \A i \in 1 .. Len(c) : s[Len(u) + i] = c[i]
      /\ \A i \in 1 .. Len(a) : s[i] = a[i]
      /\ \A i \in 1 .. Len(b) : s[Len(a) + i] = b[i]
  BY <1>4, Parts
<1> QED BY <1>5 DEF a, b, c, u, s

\* The CRC bytes of t are those of s, in the same order, and no two of them
\* are more than d bytes closer.
Within(t, s, d) ==
    \E f \in [DOMAIN t -> Int] :
      /\ \A j \in DOMAIN t : t[j].crc # <<>> => f[j] \in DOMAIN s /\ s[f[j]] = t[j]
      /\ \A i, j \in DOMAIN t :
           i < j /\ t[i].crc # <<>> /\ t[j].crc # <<>> =>
             f[i] < f[j] /\ f[j] - f[i] <= j - i + d

\* No two frames have come closer than the faults allow, and none overtakes.
Spaced(s, d) ==
    \A i, j \in DOMAIN s :
      i < j /\ s[i].crc # <<>> /\ s[j].crc # <<>> =>
        s[i].frame < s[j].frame /\ Len(s[j].crc) + 2 <= j - i + d

LEMMA GapsAdd ==
    ASSUME NEW c \in Int, NEW d \in Int, NEW e \in Int, NEW i \in Int,
           NEW j \in Int, NEW x \in Int, NEW y \in Int,
           c + 2 <= y - x + d, y - x <= j - i + e
    PROVE  c + 2 <= j - i + (d + e)
  OBVIOUS

LEMMA WithinSpaced ==
    ASSUME NEW s \in Seq(Bytes), NEW t \in Seq(Bytes), NEW d \in Nat, NEW e \in Nat,
           Within(t, s, e), Spaced(s, d)
    PROVE  Spaced(t, d + e)
<1>1. PICK f \in [DOMAIN t -> Int] :
        /\ \A j \in DOMAIN t : t[j].crc # <<>> => f[j] \in DOMAIN s /\ s[f[j]] = t[j]
        /\ \A i, j \in DOMAIN t :
             i < j /\ t[i].crc # <<>> /\ t[j].crc # <<>> =>
               f[i] < f[j] /\ f[j] - f[i] <= j - i + e
  BY DEF Within
<1>2. ASSUME NEW i \in DOMAIN t, NEW j \in DOMAIN t,
             i < j, t[i].crc # <<>>, t[j].crc # <<>>
      PROVE  t[i].frame < t[j].frame /\ Len(t[j].crc) + 2 <= j - i + (d + e)
  <2>1. /\ f[i] \in DOMAIN s /\ f[j] \in DOMAIN s /\ s[f[i]] = t[i] /\ s[f[j]] = t[j]
        /\ f[i] < f[j] /\ f[j] - f[i] <= j - i + e
    BY <1>1, <1>2
  <2>2. t[i].frame < t[j].frame /\ Len(t[j].crc) + 2 <= f[j] - f[i] + d
    BY <1>2, <2>1 DEF Spaced
  <2>3. t[j] \in Bytes /\ i \in Int /\ j \in Int
    OBVIOUS
  <2>4. Len(t[j].crc) \in Nat
    BY <2>3 DEF Bytes
  <2>5. f[i] \in Int /\ f[j] \in Int
    BY <1>1
  <2> DEFINE c == Len(t[j].crc)
             x == f[i]
             y == f[j]
  <2>6. c \in Nat /\ x \in Int /\ y \in Int /\ c + 2 <= y - x + d
    BY <2>2, <2>4, <2>5
  <2>7. y - x <= j - i + e
    BY <2>1
  <2> HIDE DEF c, x, y
  <2>8. c \in Int /\ d \in Int /\ e \in Int
    BY <2>6
  <2>9. c + 2 <= j - i + (d + e)
    BY <2>3, <2>6, <2>7, <2>8, GapsAdd, Zenon
  <2> QED BY <2>2, <2>9 DEF c
<1> QED BY <1>2 DEF Spaced

\* An undamaged frame n in s, with its CRC at e.
Start(s, e) == e - Len(s[e].crc) - 1
WholeAt(s, e, n) ==
    /\ e \in DOMAIN s /\ s[e].crc # <<>> /\ s[e].frame = n
    /\ Start(s, e) >= 1 /\ s[Start(s, e)].val = STX
    /\ \A q \in 1 .. Len(s[e].crc) : s[Start(s, e) + q].val = s[e].crc[q]
    /\ \A i \in Start(s, e) .. e : s[i].frame = n

LEMMA WholeFacts ==
    ASSUME NEW s \in Seq(Bytes), NEW e, NEW n, WholeAt(s, e, n)
    PROVE  /\ e \in Nat \ {0} /\ Len(s[e].crc) \in Nat /\ Start(s, e) \in Nat
           /\ Start(s, e) >= 1 /\ Start(s, e) < e /\ e <= Len(s)
           /\ e = Start(s, e) + Len(s[e].crc) + 1
           /\ s[e].frame = n /\ s[Start(s, e)].frame = n
           /\ Start(s, e) \in DOMAIN s /\ e \in DOMAIN s
<1>1. e \in 1 .. Len(s) /\ DOMAIN s = 1 .. Len(s) /\ s[e] \in Bytes /\ Len(s) \in Nat
  BY DEF WholeAt
<1>2. Len(s[e].crc) \in Nat
  BY <1>1 DEF Bytes
<1>3. e \in Nat \ {0} /\ e <= Len(s)
  BY <1>1
<1>4. Start(s, e) = e - Len(s[e].crc) - 1 /\ Start(s, e) >= 1 /\ s[e].frame = n
  BY DEF WholeAt, Start
<1>5. /\ Start(s, e) \in Nat /\ Start(s, e) < e /\ Start(s, e) \in 1 .. Len(s)
      /\ e = Start(s, e) + Len(s[e].crc) + 1
  BY <1>2, <1>3, <1>4
<1>6. Start(s, e) \in Start(s, e) .. e
  BY <1>3, <1>5
<1> QED BY <1>1, <1>2, <1>3, <1>4, <1>5, <1>6 DEF WholeAt

\* A frame all of whose bytes are d places further on is still whole.
LEMMA WholeMoves ==
    ASSUME NEW s \in Seq(Bytes), NEW t \in Seq(Bytes), NEW e, NEW n, NEW d \in Int,
           WholeAt(s, e, n),
           \A i \in Start(s, e) .. e : i + d \in DOMAIN t /\ t[i + d] = s[i]
    PROVE  WholeAt(t, e + d, n)
<1> DEFINE b == Start(s, e)
           c == s[e].crc
<1>1. /\ e \in Nat /\ Len(c) \in Nat /\ b \in Nat /\ b < e /\ e = b + Len(c) + 1
      /\ s[e].frame = n
  BY WholeFacts
<1>2. e \in b .. e /\ b \in b .. e /\ \A q \in 1 .. Len(c) : b + q \in b .. e
  <2> HIDE DEF b, c
  <2> QED BY <1>1
<1>3. e + d \in DOMAIN t /\ t[e + d] = s[e] /\ t[b + d] = s[b] /\ b + d \in DOMAIN t
  BY <1>2
<1>4. Start(t, e + d) = b + d
  BY <1>1, <1>3 DEF Start
<1>5. b + d >= 1
  BY <1>3
<1>6. ASSUME NEW q \in 1 .. Len(c)
      PROVE  t[(b + d) + q].val = c[q]
  <2>1. t[(b + q) + d] = s[b + q]
    BY <1>2
  <2>2. (b + q) + d = (b + d) + q
    BY <1>1
  <2>3. s[b + q].val = c[q]
    BY DEF WholeAt
  <2> QED BY <2>1, <2>2, <2>3
<1>7. ASSUME NEW i \in b + d .. e + d
      PROVE  t[i].frame = n
  <2>1. i - d \in b .. e /\ (i - d) + d = i
    BY <1>1
  <2>2. t[(i - d) + d] = s[i - d] /\ s[i - d].frame = n
    BY <2>1 DEF WholeAt
  <2> QED BY <2>1, <2>2
<1>8. c # <<>> /\ s[b].val = STX
  BY DEF WholeAt
<1> HIDE DEF b
<1> QED BY <1>1, <1>3, <1>4, <1>5, <1>6, <1>7, <1>8 DEF WholeAt

----------------------------------------------------------------------------
(* What each step does to the stream *)

\* A fault strikes behind what has been read.
LEMMA FaultStream ==
    ASSUME General, General', NEW p \in Pollers, UNCHANGED <<rx, loc>>
    PROVE  LET k == Len(Ahead(p))
           IN  /\ k \in Nat /\ Len(air) \in Nat /\ Len(air') \in Nat
               /\ Stream(p) \in Seq(Bytes) /\ Stream(p)' \in Seq(Bytes)
               /\ DOMAIN Stream(p) = 1 .. k + Len(air)
               /\ DOMAIN Stream(p)' = 1 .. k + Len(air')
               /\ Len(Stream(p)) = k + Len(air) /\ Len(Stream(p)') = k + Len(air')
               /\ \A i \in 1 .. k : Stream(p)'[i] = Stream(p)[i]
               /\ \A i \in 1 .. Len(air) : Stream(p)[k + i] = air[i]
               /\ \A i \in 1 .. Len(air') : Stream(p)'[k + i] = air'[i]
<1> DEFINE s == Stream(p)
           t == Stream(p)'
           k == Len(Ahead(p))
<1>1. Ahead(p)' = Ahead(p) /\ k = Len(Ahead(p)')
  BY DEF Ahead
<1>2. /\ s \in Seq(Bytes) /\ DOMAIN s = 1 .. Len(s) /\ Len(s) = k + Len(air)
      /\ k = Len(rx) + Len(loc[p].chunk) /\ Len(rx) \in Nat
      /\ Len(loc[p].chunk) \in Nat /\ Len(air) \in Nat
      /\ \A i \in 1 .. k : s[i] = Ahead(p)[i]
      /\ \A i \in 1 .. Len(air) : s[k + i] = air[i]
  BY Streams
<1>3. /\ t \in Seq(Bytes) /\ DOMAIN t = 1 .. Len(t) /\ Len(t) = k + Len(air')
      /\ Len(air') \in Nat
      /\ \A i \in 1 .. k : t[i] = Ahead(p)'[i]
      /\ \A i \in 1 .. Len(air') : t[k + i] = air'[i]
  BY <1>1, StreamsNext
<1>4. k \in Nat
  BY <1>2
<1> HIDE DEF s, t, k
<1>5. \A i \in 1 .. k : t[i] = s[i]
  BY <1>1, <1>2, <1>3
<1> QED BY <1>2, <1>3, <1>4, <1>5 DEF s, t, k

LEMMA LoseStream ==
    ASSUME General, General', NEW p \in Pollers, NEW i \in DOMAIN air, Lose(i)
    PROVE  LET s == Stream(p)
               t == Stream(p)'
               x == Len(Ahead(p)) + i
           IN  /\ x \in DOMAIN s /\ s[x] = air[i]
               /\ s \in Seq(Bytes) /\ t \in Seq(Bytes)
               /\ DOMAIN s = 1 .. Len(s) /\ DOMAIN t = 1 .. Len(s) - 1
               /\ Len(s) \in Nat
               /\ \A j \in DOMAIN t : t[j] = s[IF j < x THEN j ELSE j + 1]
<1> DEFINE s == Stream(p)
           t == Stream(p)'
           k == Len(Ahead(p))
           n == Len(air)
           x == k + i
           l == SubSeq(air, 1, i - 1)
           r == SubSeq(air, i + 1, n)
<1>1. air \in Seq(Bytes) /\ i \in 1 .. n /\ n \in Nat /\ UNCHANGED <<rx, loc>>
  BY BufferTypes DEF Lose, Fault
<1>2. /\ i - 1 \in 0 .. n /\ i + 1 \in Nat \ {0} /\ n \in 0 .. n /\ 1 \in Nat \ {0}
      /\ i \in 1 .. n /\ n \in Nat
  BY <1>1
<1>3. /\ l \in Seq(Bytes) /\ DOMAIN l = 1 .. Len(l)
      /\ Len(l) = IF 1 <= i - 1 THEN i - 1 - 1 + 1 ELSE 0
      /\ \A j \in DOMAIN l : l[j] = air[1 - 1 + j]
  BY <1>1, <1>2, Part
<1>4. /\ r \in Seq(Bytes) /\ DOMAIN r = 1 .. Len(r)
      /\ Len(r) = IF i + 1 <= n THEN n - (i + 1) + 1 ELSE 0
      /\ \A j \in DOMAIN r : r[j] = air[i + 1 - 1 + j]
  BY <1>1, <1>2, Part
<1>5. Len(l) = i - 1 /\ Len(r) = n - i
  BY <1>1, <1>2, <1>3, <1>4, SMTT(30)
<1>6. air' = l \o r
  BY DEF Lose
<1> HIDE DEF l, r
<1>14. l \in Seq(Bytes) /\ r \in Seq(Bytes)
  BY <1>3, <1>4
<1>7. /\ Len(l \o r) = Len(l) + Len(r)
      /\ \A j \in 1 .. Len(l) : (l \o r)[j] = l[j]
      /\ \A j \in 1 .. Len(r) : (l \o r)[Len(l) + j] = r[j]
  BY <1>14
<1>8. Len(air') = n - 1
  BY <1>1, <1>5, <1>6, <1>7
<1>9. ASSUME NEW j \in 1 .. n - 1
      PROVE  air'[j] = air[IF j < i THEN j ELSE j + 1]
  <2>1. CASE j < i
    <3>1. j \in 1 .. Len(l) /\ j \in DOMAIN l /\ 1 - 1 + j = j
      BY <1>1, <1>3, <1>5, <2>1
    <3> QED BY <2>1, <3>1, <1>3, <1>6, <1>7
  <2>2. CASE ~(j < i)
    <3>4. /\ j - i + 1 \in 1 .. n - i /\ i - 1 + (j - i + 1) = j
          /\ i + 1 - 1 + (j - i + 1) = j + 1
      BY <1>2, <2>2
    <3>1. /\ j - i + 1 \in 1 .. Len(r) /\ Len(l) + (j - i + 1) = j
          /\ i + 1 - 1 + (j - i + 1) = j + 1 /\ j - i + 1 \in DOMAIN r
      BY <1>4, <1>5, <3>4
    <3>2. (l \o r)[Len(l) + (j - i + 1)] = r[j - i + 1]
      BY <1>7, <3>1
    <3>3. r[j - i + 1] = air[i + 1 - 1 + (j - i + 1)]
      BY <1>4, <3>1
    <3> QED BY <2>2, <3>1, <3>2, <3>3, <1>6
  <2> QED BY <2>1, <2>2
<1>10. /\ k \in Nat /\ s \in Seq(Bytes) /\ t \in Seq(Bytes)
       /\ DOMAIN s = 1 .. k + n /\ Len(s) = k + n
       /\ DOMAIN t = 1 .. k + Len(air')
       /\ \A j \in 1 .. k : t[j] = s[j]
       /\ \A j \in 1 .. n : s[k + j] = air[j]
       /\ \A j \in 1 .. Len(air') : t[k + j] = air'[j]
  BY <1>1, FaultStream
<1>15. k \in Nat
  BY <1>10
<1> HIDE DEF s, t, k, n
<1>11. ASSUME NEW j \in 1 .. k + (n - 1)
       PROVE  t[j] = s[IF j < x THEN j ELSE j + 1]
  <2>1. CASE j <= k
    BY <1>1, <1>10, <2>1
  <2>2. CASE j > k
    <3>1. j - k \in 1 .. n - 1 /\ k + (j - k) = j
      BY <1>1, <1>10, <2>2
    <3>2. t[j] = air[IF j - k < i THEN j - k ELSE j - k + 1]
      BY <1>8, <1>9, <1>10, <3>1
    <3>3. CASE j < x
      <4>1. j - k < i /\ j - k \in 1 .. n
        BY <1>2, <1>15, <3>1, <3>3
      <4>2. s[k + (j - k)] = air[j - k]
        BY <1>10, <4>1
      <4> QED BY <3>1, <3>2, <3>3, <4>1, <4>2
    <3>4. CASE ~(j < x)
      <4>1. ~(j - k < i) /\ j - k + 1 \in 1 .. n /\ k + (j - k + 1) = j + 1
        BY <1>1, <1>10, <3>1, <3>4
      <4>2. s[k + (j - k + 1)] = air[j - k + 1]
        BY <1>10, <4>1
      <4> QED BY <3>2, <3>4, <4>1, <4>2
    <3> QED BY <3>3, <3>4
  <2> QED BY <1>1, <1>10, <2>1, <2>2
<1>12. x \in DOMAIN s /\ s[x] = air[i] /\ k + (n - 1) = Len(s) - 1 /\ Len(s) \in Nat
  BY <1>1, <1>10
<1> HIDE DEF x
<1>13. DOMAIN t = 1 .. Len(s) - 1 /\ DOMAIN s = 1 .. Len(s)
  BY <1>8, <1>10, <1>12
<1> QED BY <1>10, <1>11, <1>12, <1>13 DEF s, t, k, n, x

LEMMA ChangeStream ==
    ASSUME General, General', NEW p \in Pollers, NEW i \in DOMAIN air,
           NEW v \in Byte, Change(i, v)
    PROVE  LET s == Stream(p)
               t == Stream(p)'
               x == Len(Ahead(p)) + i
           IN  /\ x \in DOMAIN s /\ s[x] = air[i]
               /\ s \in Seq(Bytes) /\ t \in Seq(Bytes) /\ DOMAIN t = DOMAIN s
               /\ t[x] = Plain(v, 0)
               /\ \A j \in DOMAIN t : j # x => t[j] = s[j]
<1> DEFINE s == Stream(p)
           t == Stream(p)'
           k == Len(Ahead(p))
           n == Len(air)
           x == k + i
<1>1. air \in Seq(Bytes) /\ UNCHANGED <<rx, loc>>
  BY BufferTypes DEF Change, Fault
<1>2. i \in 1 .. n /\ n \in Nat
  BY <1>1
<1>3. air' = [air EXCEPT ![i] = Plain(v, 0)]
  BY DEF Change
<1>4. /\ Len(air') = n /\ air'[i] = Plain(v, 0)
      /\ \A j \in 1 .. n : j # i => air'[j] = air[j]
  BY <1>1, <1>2, <1>3
<1>5. /\ k \in Nat /\ s \in Seq(Bytes) /\ t \in Seq(Bytes)
      /\ DOMAIN s = 1 .. k + n /\ DOMAIN t = 1 .. k + Len(air')
      /\ \A j \in 1 .. k : t[j] = s[j]
      /\ \A j \in 1 .. n : s[k + j] = air[j]
      /\ \A j \in 1 .. Len(air') : t[k + j] = air'[j]
  BY <1>1, FaultStream
<1>6. k \in Nat /\ x = k + i
  BY <1>5
<1> HIDE DEF s, t, k, n, x
<1>7. x \in 1 .. k + n
  BY <1>2, <1>6
<1>8. ASSUME NEW j \in 1 .. k + n, j # x
      PROVE  t[j] = s[j]
  <2>1. CASE j <= k
    <3>1. j \in 1 .. k
      BY <1>2, <1>6, <2>1
    <3> QED BY <3>1, <1>5
  <2>2. CASE j > k
    <3>1. j - k \in 1 .. n /\ k + (j - k) = j /\ j - k # i
      BY <1>2, <1>6, <1>8, <2>2
    <3>2. s[k + (j - k)] = air[j - k] /\ t[k + (j - k)] = air'[j - k]
      BY <1>4, <1>5, <3>1
    <3> QED BY <1>4, <3>1, <3>2
  <2> QED BY <1>2, <1>6, <2>1, <2>2
<1>9. s[x] = air[i] /\ t[x] = Plain(v, 0)
  BY <1>2, <1>4, <1>5, <1>6
<1> QED BY <1>4, <1>5, <1>7, <1>8, <1>9 DEF s, t, k, n, x

LEMMA InsertStream ==
    ASSUME General, General', NEW p \in Pollers, NEW i \in 1 .. Len(air) + 1,
           NEW v \in Byte, Insert(i, v)
    PROVE  LET s == Stream(p)
               t == Stream(p)'
               x == Len(Ahead(p)) + i
           IN  /\ x \in 1 .. Len(s) + 1 /\ Len(s) \in Nat
               /\ s \in Seq(Bytes) /\ t \in Seq(Bytes)
               /\ DOMAIN s = 1 .. Len(s) /\ DOMAIN t = 1 .. Len(s) + 1
               /\ t[x] = Plain(v, 0)
               /\ \A j \in DOMAIN t : j # x => t[j] = s[IF j < x THEN j ELSE j - 1]
               /\ \A j \in 1 .. Len(air) : s[Len(Ahead(p)) + j] = air[j]
               /\ Len(s) = Len(Ahead(p)) + Len(air) /\ Len(air) \in Nat
               /\ Len(Ahead(p)) \in Nat
<1> DEFINE s == Stream(p)
           t == Stream(p)'
           k == Len(Ahead(p))
           n == Len(air)
           x == k + i
           b == <<Plain(v, 0)>>
           l == SubSeq(air, 1, i - 1)
           r == SubSeq(air, i, n)
<1>1. air \in Seq(Bytes) /\ UNCHANGED <<rx, loc>>
  BY BufferTypes DEF Insert, Fault
<1>2. n \in Nat
  BY <1>1
<1>3. /\ i - 1 \in 0 .. n /\ i \in Nat \ {0} /\ n \in 0 .. n /\ 1 \in Nat \ {0}
      /\ i \in 1 .. n + 1
  BY <1>2
<1>4. /\ l \in Seq(Bytes) /\ DOMAIN l = 1 .. Len(l)
      /\ Len(l) = IF 1 <= i - 1 THEN i - 1 - 1 + 1 ELSE 0
      /\ \A j \in DOMAIN l : l[j] = air[1 - 1 + j]
  BY <1>1, <1>3, Part
<1>5. /\ r \in Seq(Bytes) /\ DOMAIN r = 1 .. Len(r)
      /\ Len(r) = IF i <= n THEN n - i + 1 ELSE 0
      /\ \A j \in DOMAIN r : r[j] = air[i - 1 + j]
  BY <1>1, <1>3, Part
<1>6. Len(l) = i - 1 /\ Len(r) = n - i + 1
  BY <1>2, <1>3, <1>4, <1>5
<1>7. air' = l \o b \o r
  BY DEF Insert
<1>8. b \in Seq(Bytes) /\ l \in Seq(Bytes) /\ r \in Seq(Bytes)
  <2>1. Plain(v, 0) \in Bytes
    BY FramingAssumption DEF Plain, Bytes, FramingAssumption
  <2> QED BY <1>4, <1>5, <2>1
<1>9. Len(b) = 1 /\ b[1] = Plain(v, 0)
  OBVIOUS
<1> DEFINE u == l \o b
           w == air'
<1>10. u = l \o b /\ w = u \o r
  BY <1>7
<1> HIDE DEF l, r, b, u, w
<1>11. /\ Len(w) = Len(u) + Len(r) /\ Len(u) = Len(l) + Len(b)
       /\ \A j \in 1 .. Len(r) : w[Len(u) + j] = r[j]
       /\ \A j \in 1 .. Len(l) : w[j] = l[j]
       /\ \A j \in 1 .. Len(b) : w[Len(l) + j] = b[j]
  BY <1>8, <1>10, Parts
<1>12. Len(u) = i /\ Len(w) = n + 1
  BY <1>2, <1>3, <1>6, <1>9, <1>11
<1>13. w[i] = Plain(v, 0)
  <2>1. 1 \in 1 .. Len(b) /\ Len(l) + 1 = i
    BY <1>3, <1>6, <1>9
  <2>2. w[Len(l) + 1] = b[1]
    BY <1>11, <2>1
  <2> QED BY <1>9, <2>1, <2>2
<1>14. ASSUME NEW j \in 1 .. n + 1, j # i
       PROVE  w[j] = air[IF j < i THEN j ELSE j - 1]
  <2>1. CASE j < i
    <3>1. j \in 1 .. i - 1 /\ 1 - 1 + j = j
      BY <1>2, <1>3, <2>1
    <3>2. j \in 1 .. Len(l) /\ j \in DOMAIN l
      BY <1>4, <1>6, <3>1
    <3> QED BY <1>4, <1>11, <2>1, <3>1, <3>2
  <2>2. CASE ~(j < i)
    <3>1. j - i \in 1 .. n - i + 1 /\ i + (j - i) = j /\ i - 1 + (j - i) = j - 1
      BY <1>2, <1>3, <1>14, <2>2
    <3>2. j - i \in 1 .. Len(r) /\ j - i \in DOMAIN r
      BY <1>5, <1>6, <3>1
    <3>3. w[Len(u) + (j - i)] = r[j - i] /\ r[j - i] = air[i - 1 + (j - i)]
      BY <1>5, <1>11, <3>2
    <3> QED BY <1>12, <2>2, <3>1, <3>3
  <2> QED BY <2>1, <2>2
<1>15. /\ k \in Nat /\ s \in Seq(Bytes) /\ t \in Seq(Bytes)
       /\ DOMAIN s = 1 .. k + n /\ DOMAIN t = 1 .. k + Len(w) /\ Len(s) = k + n
       /\ \A j \in 1 .. k : t[j] = s[j]
       /\ \A j \in 1 .. n : s[k + j] = air[j]
       /\ \A j \in 1 .. Len(w) : t[k + j] = w[j]
  BY <1>1, FaultStream DEF w
<1>16. k \in Nat /\ x = k + i
  BY <1>15
<1> HIDE DEF s, t, k, n, x
<1>17. ASSUME NEW j \in 1 .. k + (n + 1), j # x
       PROVE  t[j] = s[IF j < x THEN j ELSE j - 1]
  <2>1. CASE j <= k
    <3>1. j \in 1 .. k /\ j < x
      BY <1>2, <1>3, <1>16, <2>1
    <3> QED BY <3>1, <1>15
  <2>2. CASE j > k
    <3>1. j - k \in 1 .. n + 1 /\ k + (j - k) = j /\ j - k # i
      BY <1>2, <1>16, <1>17, <2>2
    <3>2. t[k + (j - k)] = w[j - k]
      BY <1>12, <1>15, <3>1
    <3>3. w[j - k] = air[IF j - k < i THEN j - k ELSE j - k - 1]
      BY <1>14, <3>1
    <3>4. CASE j < x
      <4>1. j - k < i /\ j - k \in 1 .. n
        BY <1>2, <1>3, <1>16, <3>1, <3>4
      <4>2. s[k + (j - k)] = air[j - k]
        BY <1>15, <4>1
      <4> QED BY <3>1, <3>2, <3>3, <3>4, <4>1, <4>2
    <3>5. CASE ~(j < x)
      <4>1. ~(j - k < i) /\ j - k - 1 \in 1 .. n /\ k + (j - k - 1) = j - 1
        BY <1>2, <1>3, <1>16, <3>1, <3>5
      <4>2. s[k + (j - k - 1)] = air[j - k - 1]
        BY <1>15, <4>1
      <4> QED BY <3>1, <3>2, <3>3, <3>5, <4>1, <4>2
    <3> QED BY <3>4, <3>5
  <2> QED BY <1>2, <1>16, <2>1, <2>2
<1>18. t[x] = Plain(v, 0)
  BY <1>2, <1>3, <1>12, <1>13, <1>15, <1>16
<1>19. x \in 1 .. (k + n) + 1 /\ k + (n + 1) = (k + n) + 1 /\ k + n \in Nat
  BY <1>2, <1>3, <1>16
<1> HIDE DEF x
<1>20. /\ x \in 1 .. Len(s) + 1 /\ DOMAIN s = 1 .. Len(s) /\ Len(s) \in Nat
       /\ DOMAIN t = 1 .. Len(s) + 1 /\ Len(s) = k + n
  BY <1>12, <1>15, <1>19
<1> QED BY <1>2, <1>12, <1>15, <1>17, <1>18, <1>19, <1>20 DEF s, t, k, n, x

\* The first n bytes of the buffer are dropped, with nothing in between.
LEMMA DropStream ==
    ASSUME General, General', NEW p \in Pollers, NEW n \in 0 .. Len(rx),
           rx' = SubSeq(rx, n + 1, Len(rx)), UNCHANGED air,
           loc[p].chunk = <<>>, loc'[p].chunk = <<>>
    PROVE  LET s == Stream(p)
               t == Stream(p)'
           IN  /\ s \in Seq(Bytes) /\ t \in Seq(Bytes) /\ Len(s) \in Nat
               /\ DOMAIN s = 1 .. Len(s) /\ DOMAIN t = 1 .. Len(s) - n
               /\ Len(rx) <= Len(s) /\ n \in Nat
               /\ \A j \in DOMAIN t : t[j] = s[j + n]
<1> DEFINE s == Stream(p)
           t == Stream(p)'
           k == Len(rx)
           m == Len(air)
<1>1. rx \in Seq(Bytes) /\ air \in Seq(Bytes)
  BY BufferTypes
<1>2. k \in Nat /\ m \in Nat /\ n \in 0 .. k /\ n + 1 \in Nat \ {0} /\ k \in 0 .. k
  BY <1>1
<1>3. /\ DOMAIN rx' = 1 .. Len(rx')
      /\ Len(rx') = IF n + 1 <= k THEN k - (n + 1) + 1 ELSE 0
      /\ \A i \in DOMAIN rx' : rx'[i] = rx[n + 1 - 1 + i]
  BY <1>1, <1>2, Part
<1>4. Len(rx') = k - n
  BY <1>2, <1>3
<1>5. Len(<<>>) = 0
  OBVIOUS
<1>6. /\ s \in Seq(Bytes) /\ DOMAIN s = 1 .. Len(s)
      /\ Len(s) = Len(Ahead(p)) + m /\ Len(Ahead(p)) = k + Len(loc[p].chunk)
      /\ \A i \in 1 .. m : s[Len(Ahead(p)) + i] = air[i]
      /\ \A i \in 1 .. k : s[i] = rx[i]
  BY Streams
<1>7. /\ t \in Seq(Bytes) /\ DOMAIN t = 1 .. Len(t)
      /\ Len(t) = Len(Ahead(p)') + Len(air')
      /\ Len(Ahead(p)') = Len(rx') + Len(loc'[p].chunk)
      /\ \A i \in 1 .. Len(air') : t[Len(Ahead(p)') + i] = air'[i]
      /\ \A i \in 1 .. Len(rx') : t[i] = rx'[i]
  BY StreamsNext
<1> HIDE DEF s, t, k, m
<1>8. Len(Ahead(p)) = k /\ Len(Ahead(p)') = k - n /\ air' = air
  BY <1>2, <1>4, <1>5, <1>6, <1>7
<1>9. Len(s) = k + m /\ Len(t) = (k - n) + m
  BY <1>6, <1>7, <1>8 DEF m
<1>10. ASSUME NEW j \in 1 .. (k - n) + m
       PROVE  t[j] = s[j + n]
  <2>1. CASE j <= k - n
    <3>1. /\ j \in 1 .. k - n /\ j + n \in 1 .. k /\ n + 1 - 1 + j = j + n
      BY <1>2, <2>1
    <3>2. j \in 1 .. Len(rx') /\ j \in DOMAIN rx'
      BY <1>3, <1>4, <3>1
    <3>3. t[j] = rx'[j]
      BY <1>7, <3>2
    <3>4. rx'[j] = rx[j + n]
      BY <1>3, <3>1, <3>2
    <3>5. s[j + n] = rx[j + n]
      BY <1>6, <3>1
    <3> QED BY <3>3, <3>4, <3>5
  <2>2. CASE j > k - n
    <3>1. j - (k - n) \in 1 .. m /\ (k - n) + (j - (k - n)) = j
          /\ k + (j - (k - n)) = j + n
      BY <1>2, <2>2
    <3>2. t[(k - n) + (j - (k - n))] = air[j - (k - n)]
      BY <1>7, <1>8, <3>1 DEF m
    <3>3. s[k + (j - (k - n))] = air[j - (k - n)]
      BY <1>6, <1>8, <3>1
    <3> QED BY <3>1, <3>2, <3>3
  <2> QED BY <1>2, <2>1, <2>2
<1>11. /\ Len(s) \in Nat /\ (k - n) + m = Len(s) - n /\ k <= Len(s) /\ n \in Nat
  BY <1>2, <1>9
<1> QED BY <1>6, <1>7, <1>9, <1>10, <1>11 DEF s, t, k

LEMMA Regrouped ==
    ASSUME NEW a \in Seq(Bytes), NEW b \in Seq(Bytes), NEW c \in Seq(Bytes)
    PROVE  (a \o b) \o c = a \o (b \o c)
  BY ConcatAssociative

LEMMA SendStream ==
    ASSUME General, General', NEW p \in Pollers, NEW f \in Seq(Bytes),
           UNCHANGED <<rx, loc>>, air' = air \o f
    PROVE  LET s == Stream(p)
               t == Stream(p)'
           IN  /\ s \in Seq(Bytes) /\ t \in Seq(Bytes)
               /\ Len(s) \in Nat /\ Len(f) \in Nat
               /\ DOMAIN s = 1 .. Len(s) /\ DOMAIN t = 1 .. Len(s) + Len(f)
               /\ \A j \in DOMAIN s : t[j] = s[j]
               /\ \A j \in 1 .. Len(f) : t[Len(s) + j] = f[j]
<1> DEFINE s == Stream(p)
           a == Ahead(p)
           t == Stream(p)'
<1>1. rx \in Seq(Bytes) /\ air \in Seq(Bytes) /\ loc[p].chunk \in Seq(Bytes)
  BY BufferTypes, LocalTypes
<1>2. a \in Seq(Bytes) /\ s = a \o air /\ t = a \o (air \o f)
  BY <1>1 DEF Ahead, Stream
<1>3. s \in Seq(Bytes)
  BY <1>1, <1>2
<1> HIDE DEF s, a, t
<1>4. t = s \o f
  BY <1>1, <1>2, Regrouped
<1>5. /\ t \in Seq(Bytes) /\ Len(t) = Len(s) + Len(f)
      /\ Len(s) \in Nat /\ Len(f) \in Nat
      /\ \A j \in 1 .. Len(s) : t[j] = s[j]
      /\ \A j \in 1 .. Len(f) : t[Len(s) + j] = f[j]
  BY <1>3, <1>4
<1>6. DOMAIN s = 1 .. Len(s) /\ DOMAIN t = 1 .. Len(t)
  BY <1>3, <1>5
<1> QED BY <1>3, <1>5, <1>6 DEF s, t

\* Reading and extending the buffer only move the bytes along.
LEMMA ReadStream ==
    ASSUME General, NEW p \in Pollers, Read(p), loc[p].chunk = <<>>
    PROVE  Stream(p)' = Stream(p)
<1>1. PICK n \in 0 .. Len(air) :
         /\ loc' = [loc EXCEPT ![p] = [Fresh EXCEPT !.chunk = SubSeq(air, 1, n)]]
         /\ air' = SubSeq(air, n + 1, Len(air))
  BY DEF Read
<1> DEFINE c == SubSeq(air, 1, n)
           d == SubSeq(air, n + 1, Len(air))
<1>2. rx \in Seq(Bytes) /\ air \in Seq(Bytes)
  BY BufferTypes
<1>3. /\ 1 \in 1 .. Len(air) + 1 /\ n \in 1 - 1 .. Len(air)
      /\ Len(air) \in n .. Len(air) /\ n + 1 \in Nat \ {0} /\ 1 \in Nat \ {0}
      /\ Len(air) \in 0 .. Len(air)
  BY <1>2
<1>4. c \in Seq(Bytes) /\ d \in Seq(Bytes)
  BY <1>2, <1>3, Part
<1>5. c \o d = SubSeq(air, 1, Len(air))
  BY <1>2, <1>3, ConcatAdjacentSubSeq
<1>6. SubSeq(air, 1, Len(air)) = air
  BY <1>2, SubSeqFull
<1>7. loc'[p].chunk = c /\ rx' = rx /\ air' = d
  BY <1>1 DEF General, TypeOK, Fresh, Read
<1> HIDE DEF c, d
<1>8. Stream(p)' = (rx \o c) \o d
  BY <1>7 DEF Stream, Ahead
<1>9. (rx \o c) \o d = rx \o (c \o d)
  BY <1>2, <1>4, Regrouped
<1>10. Stream(p) = (rx \o <<>>) \o air /\ rx \o <<>> = rx
  BY <1>2, ConcatEmptySeq DEF Stream, Ahead
<1> QED BY <1>5, <1>6, <1>8, <1>9, <1>10

LEMMA ExtendStream ==
    ASSUME General, NEW p \in Pollers, Extend(p)
    PROVE  Stream(p)' = Stream(p)
<1>1. rx \in Seq(Bytes) /\ loc[p].chunk \in Seq(Bytes)
  BY BufferTypes, LocalTypes
<1>2. rx' = rx \o loc[p].chunk /\ loc'[p].chunk = <<>> /\ air' = air
  BY DEF General, TypeOK, Fresh, Extend, Shared
<1>3. rx \o loc[p].chunk \in Seq(Bytes)
  BY <1>1
<1>4. (rx \o loc[p].chunk) \o <<>> = rx \o loc[p].chunk
  BY <1>3, ConcatEmptySeq
<1> QED BY <1>2, <1>4 DEF Stream, Ahead

----------------------------------------------------------------------------
(* One poller: what it knows of the buffer at each step *)

Framed   == {"length", "whole", "header", "payload", "crc", "skip", "take"}
Measured == {"whole", "header", "payload", "crc", "skip", "take"}
Enclosed == {"header", "payload", "crc", "skip", "take"}
Checked  == {"crc", "skip", "take"}

\* At step w, with locals l and buffer b.
Knows(w, l, b) ==
    LET k == Overhead + l.len
    IN  /\ w # "crashed" /\ (w # "extend" => l.chunk = <<>>)
        /\ w = "clear" => \A i \in DOMAIN b : b[i].val # STX
        /\ w = "trim" => /\ l.idx + 1 \in DOMAIN b
                         /\ \A i \in 1 .. l.idx : b[i].val # STX
                         /\ b[l.idx + 1].val = STX
        /\ w \in Framed \cup {"enough"} => 1 \in DOMAIN b /\ b[1].val = STX
        /\ w \in Framed => Len(b) >= Overhead
        /\ w \in Measured => l.len = b[2].val
        /\ w \in Enclosed => Len(b) >= k
        /\ w = "payload" => /\ Len(l.covered) = 3
                            /\ \A q \in 1 .. 3 : l.covered[q] = b[1 + q].val
        /\ w \in Checked => /\ Len(l.covered) = k - 2
                            /\ \A q \in 1 .. k - 2 : l.covered[q] = b[1 + q].val
        /\ w = "skip" => b[k].crc = <<>> \/ b[k].crc # l.covered
        /\ w = "take" => /\ b[k].crc # <<>> /\ b[k].crc = l.covered
                         /\ b[k].frame = l.frame

Control(p) == Knows(pc[p], loc[p], rx)

LEMMA Moved ==
    ASSUME General, NEW p \in Pollers, NEW w, NEW l
    PROVE  /\ pc' = [pc EXCEPT ![p] = w] => pc'[p] = w
           /\ loc' = [loc EXCEPT ![p] = l] => loc'[p] = l
  BY DEF General, TypeOK

LEMMA InitControl ==
    ASSUME Init, NEW p \in Pollers
    PROVE  Control(p)
  BY DEF Init, Control, Knows, Fresh, Framed, Measured, Enclosed, Checked

\* The steps after which nothing is known of the buffer.
LEMMA RestControl ==
    ASSUME General, NEW p \in Pollers, Control(p),
           Read(p) \/ Extend(p) \/ Clear(p) \/ Skip(p) \/ Take(p) \/ Deliver(p)
    PROVE  Control(p)'
<1> USE Moved DEF Knows, Control, Framed, Measured, Enclosed, Checked, Go, At
<1>1. CASE Read(p)
  <2>1. pc'[p] = "extend"
    BY <1>1 DEF Read
  <2> QED BY <2>1
<1>2. CASE Extend(p) \/ Skip(p) \/ Deliver(p)
  <2>1. pc'[p] = "find" /\ loc'[p] = Fresh
    BY <1>2 DEF Extend, Skip, Deliver
  <2> QED BY <2>1 DEF Fresh
<1>3. CASE Clear(p)
  <2>1. pc'[p] = "idle" /\ loc'[p] = loc[p] /\ pc[p] = "clear"
    BY <1>3 DEF Clear
  <2> QED BY <2>1
<1>4. CASE Take(p)
  <2>1. pc'[p] = "deliver" /\ loc'[p] = loc[p] /\ pc[p] = "take"
    BY <1>4 DEF Take
  <2> QED BY <2>1
<1> QED BY <1>1, <1>2, <1>3, <1>4

LEMMA FindControl ==
    ASSUME General, NEW p \in Pollers, Control(p), Find(p)
    PROVE  Control(p)'
<1> USE DEF Knows, Control, Framed, Measured, Enclosed, Checked
<1>1. rx' = rx /\ pc[p] = "find" /\ loc[p].chunk = <<>>
  BY DEF Find, Local, At
<1>2. CASE /\ \A i \in DOMAIN rx : rx[i].val # STX
           /\ Go(p, "clear") /\ UNCHANGED loc
  <2>1. pc'[p] = "clear" /\ loc'[p] = loc[p]
    BY <1>2, Moved DEF Go
  <2> QED BY <1>1, <1>2, <2>1
<1>3. ASSUME NEW i \in DOMAIN rx, rx[i].val = STX,
             \A j \in 1 .. i - 1 : rx[j].val # STX,
             loc' = [loc EXCEPT ![p] = [Fresh EXCEPT !.idx = i - 1]],
             Go(p, IF i > 1 THEN "trim" ELSE "enough")
      PROVE  Control(p)'
  <2>1. i \in 1 .. Len(rx) /\ DOMAIN rx = 1 .. Len(rx) /\ Len(rx) \in Nat
    <3>1. rx \in Seq(Bytes)
      BY BufferTypes
    <3> QED BY <3>1
  <2>2. loc'[p] = [Fresh EXCEPT !.idx = i - 1]
    BY <1>3, Moved
  <2>3. loc'[p].idx = i - 1 /\ loc'[p].chunk = <<>>
    BY <2>2 DEF Fresh
  <2>4. (i - 1) + 1 = i
    BY <2>1
  <2>5. CASE i > 1
    <3>1. pc'[p] = "trim"
      BY <1>3, <2>5, Moved DEF Go
    <3> QED BY <1>1, <1>3, <2>3, <2>4, <3>1
  <2>6. CASE ~(i > 1)
    <3>1. pc'[p] = "enough"
      BY <1>3, <2>6, Moved DEF Go
    <3>2. i = 1
      BY <2>1, <2>6
    <3> QED BY <1>1, <1>3, <2>3, <3>1, <3>2
  <2> QED BY <2>5, <2>6
<1> QED BY <1>2, <1>3 DEF Find

LEMMA TrimControl ==
    ASSUME General, NEW p \in Pollers, Control(p), Trim(p)
    PROVE  Control(p)'
<1> DEFINE n == loc[p].idx
<1>1. pc[p] = "trim" /\ pc'[p] = "enough" /\ loc'[p] = loc[p]
      /\ rx' = SubSeq(rx, n + 1, Len(rx))
  BY Moved DEF Trim, At, Go, Drop
<1>2. loc[p].chunk = <<>> /\ n + 1 \in DOMAIN rx /\ rx[n + 1].val = STX
  BY <1>1 DEF Control, Knows
<1>3. rx \in Seq(Bytes) /\ n \in Nat
  BY BufferTypes, LocalTypes
<1> HIDE DEF n
<1>4. n + 1 \in Nat \ {0} /\ Len(rx) \in 0 .. Len(rx) /\ n + 1 <= Len(rx)
      /\ Len(rx) \in Nat
  BY <1>2, <1>3
<1>5. /\ DOMAIN rx' = 1 .. Len(rx')
      /\ Len(rx') = IF n + 1 <= Len(rx) THEN Len(rx) - (n + 1) + 1 ELSE 0
      /\ \A i \in DOMAIN rx' : rx'[i] = rx[n + 1 - 1 + i]
  BY <1>1, <1>3, <1>4, Part
<1>6. 1 \in DOMAIN rx'
  BY <1>3, <1>4, <1>5
<1>7. rx'[1] = rx[n + 1]
  BY <1>3, <1>5, <1>6
<1> QED BY <1>1, <1>2, <1>6, <1>7 DEF Control, Knows, Framed, Measured, Enclosed, Checked

\* The tests of the length: what they find stays true, no one else drains.
LEMMA TestControl ==
    ASSUME General, NEW p \in Pollers, Control(p),
           Enough(p) \/ Length(p) \/ Whole(p)
    PROVE  Control(p)'
<1> USE DEF Knows, Control, Framed, Measured, Enclosed, Checked
<1>1. rx' = rx /\ rx \in Seq(Bytes) /\ Len(rx) \in Nat
  BY BufferTypes DEF Enough, Length, Whole, Local
<1>2. loc[p].len \in Byte
  BY LocalTypes
<1>3. loc[p].len \in Nat
  BY <1>2, FramingAssumption, ByteFacts
<1>4. CASE Enough(p)
  <2>1. pc[p] = "enough" /\ loc'[p] = loc[p]
        /\ pc'[p] = IF Len(rx) < Overhead THEN "idle" ELSE "length"
    BY <1>4, Moved DEF Enough, At, Go
  <2>2. Len(rx) < Overhead \/ Len(rx) >= Overhead
    BY <1>1 DEF Overhead
  <2> QED BY <1>1, <2>1, <2>2
<1>5. CASE Length(p)
  <2>1. pc[p] = "length" /\ ~(Len(rx) < 2)
    BY <1>1, <1>5 DEF Length, At, Overhead
  <2>2. pc'[p] = "whole" /\ loc'[p] = [loc[p] EXCEPT !.len = rx[2].val]
    <3>1. loc' = [loc EXCEPT ![p].len = rx[2].val] /\ pc' = [pc EXCEPT ![p] = "whole"]
      BY <1>5, <2>1 DEF Length, Go
    <3> QED BY <3>1, Moved
  <2>3. loc'[p].chunk = loc[p].chunk /\ loc'[p].len = rx[2].val
    <3>1. loc[p] \in Locals
      BY LocalTypes
    <3> QED BY <2>2, <3>1 DEF Locals
  <2> QED BY <1>1, <2>1, <2>2, <2>3
<1>6. CASE Whole(p)
  <2>1. pc[p] = "whole" /\ loc'[p] = loc[p]
        /\ pc'[p] = IF Len(rx) < Overhead + loc[p].len THEN "idle" ELSE "header"
    BY <1>6, Moved DEF Whole, At, Go
  <2>2. Len(rx) < Overhead + loc[p].len \/ Len(rx) >= Overhead + loc[p].len
    BY <1>1, <1>3 DEF Overhead
  <2> QED BY <1>1, <2>1, <2>2
<1> QED BY <1>4, <1>5, <1>6

\* A slice that ends within the buffer.
LEMMA SliceValues ==
    ASSUME General, NEW a \in Nat \ {0}, NEW b \in Nat, a <= b + 1, b <= Len(rx)
    PROVE  LET c == Vals(Slice(a, b))
           IN  /\ c \in Seq(Byte) /\ Len(c) = b - a + 1
               /\ \A q \in 1 .. b - a + 1 : c[q] = rx[a - 1 + q].val
<1>1. rx \in Seq(Bytes) /\ Len(rx) \in Nat
  BY BufferTypes
<1>2. b \in 0 .. Len(rx) /\ (IF b < Len(rx) THEN b ELSE Len(rx)) = b
  BY <1>1
<1> DEFINE s == SubSeq(rx, a, b)
<1>3. Slice(a, b) = s
  BY <1>2 DEF Slice
<1>4. /\ s \in Seq(Bytes) /\ DOMAIN s = 1 .. Len(s)
      /\ Len(s) = IF a <= b THEN b - a + 1 ELSE 0
      /\ \A i \in DOMAIN s : s[i] = rx[a - 1 + i]
  BY <1>1, <1>2, Part
<1>5. Len(s) = b - a + 1
  BY <1>4
<1> HIDE DEF s
<1>6. /\ Vals(s) \in Seq(Byte) /\ Len(Vals(s)) = Len(s)
      /\ \A i \in DOMAIN s : Vals(s)[i] = s[i].val
  BY <1>4, ValsType
<1> QED BY <1>3, <1>4, <1>5, <1>6

LEMMA HeaderControl ==
    ASSUME General, NEW p \in Pollers, Control(p), Header(p)
    PROVE  Control(p)'
<1> DEFINE c == Vals(Slice(2, 4))
<1>1. rx' = rx /\ Len(rx) \in Nat /\ pc[p] = "header"
  <2>1. rx \in Seq(Bytes)
    BY BufferTypes
  <2> QED BY <2>1 DEF Header, Local, At
<1>2. pc'[p] = "payload" /\ loc'[p] = [loc[p] EXCEPT !.covered = c]
  <2>1. loc' = [loc EXCEPT ![p].covered = c] /\ pc' = [pc EXCEPT ![p] = "payload"]
    BY DEF Header, Go
  <2> QED BY <2>1, Moved
<1>3. Len(rx) >= 5
  BY <1>1 DEF Control, Knows, Framed, Overhead
<1>4. 2 \in Nat \ {0} /\ 4 \in Nat /\ 2 <= 4 + 1 /\ 4 <= Len(rx) /\ 4 - 2 + 1 = 3
  BY <1>1, <1>3
<1>5. /\ Len(c) = 4 - 2 + 1
      /\ \A q \in 1 .. 4 - 2 + 1 : c[q] = rx[2 - 1 + q].val
  BY <1>4, SliceValues
<1> HIDE DEF c
<1>6. Len(c) = 3 /\ \A q \in 1 .. 3 : c[q] = rx[1 + q].val
  BY <1>4, <1>5
<1>7. loc[p] \in Locals
  BY LocalTypes
<1>8. loc'[p].covered = c /\ loc'[p].len = loc[p].len /\ loc'[p].chunk = loc[p].chunk
  BY <1>2, <1>7 DEF Locals
<1> QED BY <1>1, <1>2, <1>6, <1>8
        DEF Control, Knows, Framed, Measured, Enclosed, Checked

LEMMA PayloadControl ==
    ASSUME General, NEW p \in Pollers, Control(p), Payload(p)
    PROVE  Control(p)'
<1> DEFINE n == loc[p].len
           h == loc[p].covered
           d == Vals(Slice(5, 4 + n))
           c == h \o d
<1>1. rx' = rx /\ pc[p] = "payload"
  BY DEF Payload, Local, At
<1>2. pc'[p] = "crc" /\ loc'[p] = [loc[p] EXCEPT !.covered = c]
  <2>1. loc' = [loc EXCEPT ![p].covered = c] /\ pc' = [pc EXCEPT ![p] = "crc"]
    BY DEF Payload, Go
  <2> QED BY <2>1, Moved
<1>3. n \in Nat /\ 4 + n \in Nat
  BY FramingAssumption, LengthType
<1>4. Len(rx) >= Overhead + n /\ Len(rx) \in Nat
  <2>1. rx \in Seq(Bytes)
    BY BufferTypes
  <2> QED BY <1>1, <2>1 DEF Control, Knows, Enclosed
<1>5. /\ 5 \in Nat \ {0} /\ 5 <= (4 + n) + 1 /\ 4 + n <= Len(rx)
      /\ (4 + n) - 5 + 1 = n
  BY <1>3, <1>4 DEF Overhead
<1>6. /\ d \in Seq(Byte) /\ Len(d) = (4 + n) - 5 + 1
      /\ \A q \in 1 .. (4 + n) - 5 + 1 : d[q] = rx[5 - 1 + q].val
  BY <1>3, <1>5, SliceValues
<1>7. Len(h) = 3 /\ \A q \in 1 .. 3 : h[q] = rx[1 + q].val
  BY <1>1 DEF Control, Knows
<1>8. h \in Seq(Byte)
  BY LocalTypes
<1> HIDE DEF h, d, n
<1>9. d \in Seq(Byte)
  BY <1>6
<1>10. /\ Len(c) = Len(h) + Len(d)
       /\ \A q \in 1 .. Len(h) : c[q] = h[q]
       /\ \A q \in 1 .. Len(d) : c[Len(h) + q] = d[q]
  BY <1>8, <1>9
<1> HIDE DEF c
<1>11. Len(d) = n /\ Len(c) = 3 + n
  BY <1>5, <1>6, <1>7, <1>10
<1>12. ASSUME NEW q \in 1 .. 3 + n
       PROVE  c[q] = rx[1 + q].val
  <2>1. CASE q <= 3
    <3>1. q \in 1 .. 3
      BY <1>3, <2>1
    <3> QED BY <1>7, <1>10, <3>1
  <2>2. CASE q > 3
    <3>1. q - 3 \in 1 .. n /\ 3 + (q - 3) = q /\ 5 - 1 + (q - 3) = 1 + q
      BY <1>3, <2>2
    <3>2. c[3 + (q - 3)] = d[q - 3] /\ d[q - 3] = rx[5 - 1 + (q - 3)].val
      BY <1>5, <1>6, <1>7, <1>10, <1>11, <3>1
    <3> QED BY <3>1, <3>2
  <2> QED BY <1>3, <2>1, <2>2
<1>13. loc[p] \in Locals
  BY LocalTypes
<1>14. loc'[p].covered = c /\ loc'[p].len = n /\ loc'[p].chunk = loc[p].chunk
  BY <1>2, <1>13 DEF Locals, n
<1>15. (Overhead + n) - 2 = 3 + n
  BY <1>3 DEF Overhead
<1> QED BY <1>1, <1>2, <1>11, <1>12, <1>14, <1>15
        DEF Control, Knows, Framed, Measured, Enclosed, Checked, n

LEMMA CheckControl ==
    ASSUME General, NEW p \in Pollers, Control(p), Check(p)
    PROVE  Control(p)'
<1> DEFINE k == Overhead + loc[p].len
           l == [loc[p] EXCEPT !.frame = rx[k].frame]
<1>1. rx' = rx /\ pc[p] = "crc" /\ Len(rx) >= k /\ Len(rx) \in Nat /\ k \in Nat
  <2>1. rx \in Seq(Bytes) /\ k \in Nat
    BY BufferTypes, LengthType, FramingAssumption
  <2> QED BY <2>1 DEF Check, Local, At, Control, Knows, Enclosed
<1>2. ~(Len(rx) < k)
  BY <1>1
<1>3. loc'[p] = l /\ pc'[p] = IF rx[k].crc # <<>> /\ rx[k].crc = loc[p].covered
                              THEN "take" ELSE "skip"
  <2>1. /\ loc' = [loc EXCEPT ![p].frame = rx[k].frame]
        /\ pc' = [pc EXCEPT ![p] = IF rx[k].crc # <<>> /\ rx[k].crc = loc[p].covered
                                   THEN "take" ELSE "skip"]
    BY <1>2 DEF Check, Go
  <2> QED BY <2>1, Moved
<1>4. loc[p] \in Locals
  BY LocalTypes
<1>5. /\ l.covered = loc[p].covered /\ l.len = loc[p].len /\ l.chunk = loc[p].chunk
      /\ l.frame = rx[k].frame
  BY <1>4 DEF Locals
<1> HIDE DEF l
<1> QED BY <1>1, <1>3, <1>5
        DEF Control, Knows, Framed, Measured, Enclosed, Checked

LEMMA PollControl ==
    ASSUME General, NEW p \in Pollers, Control(p), Poll(p)
    PROVE  Control(p)'
  BY RestControl, FindControl, TrimControl, TestControl, HeaderControl,
     PayloadControl, CheckControl DEF Poll

----------------------------------------------------------------------------
(* One poller: frames keep their order and their distance *)

LEMMA SameWithin ==
    ASSUME NEW s \in Seq(Bytes)
    PROVE  Within(s, s, 0)
<1> DEFINE f == [j \in DOMAIN s |-> j]
<1>1. DOMAIN s \subseteq Int
  OBVIOUS
<1>2. f \in [DOMAIN s -> Int] /\ \A j \in DOMAIN s : f[j] = j
  BY <1>1
<1> HIDE DEF f
<1> QED BY <1>1, <1>2 DEF Within

LEMMA LostWithin ==
    ASSUME NEW s \in Seq(Bytes), NEW t \in Seq(Bytes), NEW x \in Int, NEW n \in Nat,
           DOMAIN s = 1 .. n, DOMAIN t = 1 .. n - 1,
           \A j \in DOMAIN t : t[j] = s[IF j < x THEN j ELSE j + 1]
    PROVE  Within(t, s, 1)
<1> DEFINE f == [j \in DOMAIN t |-> IF j < x THEN j ELSE j + 1]
<1>1. /\ f \in [DOMAIN t -> Int]
      /\ \A j \in 1 .. n - 1 : f[j] = IF j < x THEN j ELSE j + 1
  OBVIOUS
<1> HIDE DEF f
<1>2. ASSUME NEW j \in 1 .. n - 1
      PROVE  f[j] \in 1 .. n
  <2>1. f[j] = j \/ f[j] = j + 1
    BY <1>1
  <2> QED BY <2>1
<1>3. \A j \in DOMAIN t : f[j] \in DOMAIN s /\ s[f[j]] = t[j]
  BY <1>1, <1>2
<1>4. ASSUME NEW i \in 1 .. n - 1, NEW j \in 1 .. n - 1, i < j
      PROVE  f[i] < f[j] /\ f[j] - f[i] <= j - i + 1
  <2>1. f[i] = IF i < x THEN i ELSE i + 1
    BY <1>1
  <2>2. f[j] = IF j < x THEN j ELSE j + 1
    BY <1>1
  <2>3. i \in Int /\ j \in Int /\ (i < x \/ i >= x) /\ (j < x \/ j >= x)
    OBVIOUS
  <2> QED BY <1>4, <2>1, <2>2, <2>3
<1> QED BY <1>1, <1>3, <1>4 DEF Within

LEMMA ChangedWithin ==
    ASSUME NEW s \in Seq(Bytes), NEW t \in Seq(Bytes), NEW x,
           DOMAIN t = DOMAIN s, t[x].crc = <<>>,
           \A j \in DOMAIN t : j # x => t[j] = s[j]
    PROVE  Within(t, s, 1)
<1> DEFINE f == [j \in DOMAIN t |-> j]
<1>1. DOMAIN s \subseteq Int
  OBVIOUS
<1>2. f \in [DOMAIN t -> Int] /\ \A j \in DOMAIN t : f[j] = j
  BY <1>1
<1> HIDE DEF f
<1>3. \A i, j \in DOMAIN t : i < j => f[i] < f[j] /\ f[j] - f[i] <= j - i + 1
  BY <1>1, <1>2
<1> QED BY <1>2, <1>3 DEF Within

LEMMA InsertedWithin ==
    ASSUME NEW s \in Seq(Bytes), NEW t \in Seq(Bytes), NEW n \in Nat,
           NEW x \in 1 .. n + 1, DOMAIN s = 1 .. n, DOMAIN t = 1 .. n + 1,
           t[x].crc = <<>>,
           \A j \in DOMAIN t : j # x => t[j] = s[IF j < x THEN j ELSE j - 1]
    PROVE  Within(t, s, 1)
<1> DEFINE f == [j \in DOMAIN t |-> IF j < x THEN j ELSE j - 1]
<1>1. /\ f \in [DOMAIN t -> Int]
      /\ \A j \in 1 .. n + 1 : f[j] = IF j < x THEN j ELSE j - 1
  OBVIOUS
<1> HIDE DEF f
<1>2. \A j \in 1 .. n + 1 : j # x => f[j] \in 1 .. n
  BY <1>1
<1>3. \A j \in DOMAIN t : j # x => f[j] \in DOMAIN s /\ s[f[j]] = t[j]
  BY <1>1, <1>2
<1>4. \A i, j \in 1 .. n + 1 :
         i # x /\ j # x /\ i < j => f[i] < f[j] /\ f[j] - f[i] <= j - i + 1
  BY <1>1, SMTT(30)
<1>5. \A j \in DOMAIN t : t[j].crc # <<>> => j # x
  OBVIOUS
<1> QED BY <1>1, <1>3, <1>4, <1>5 DEF Within

LEMMA DroppedWithin ==
    ASSUME NEW s \in Seq(Bytes), NEW t \in Seq(Bytes), NEW m \in Nat, NEW n \in Nat,
           DOMAIN s = 1 .. m, DOMAIN t = 1 .. m - n,
           \A j \in DOMAIN t : t[j] = s[j + n]
    PROVE  Within(t, s, 0)
<1> DEFINE f == [j \in DOMAIN t |-> j + n]
<1>1. f \in [DOMAIN t -> Int] /\ \A j \in 1 .. m - n : f[j] = j + n
  OBVIOUS
<1> HIDE DEF f
<1>2. \A j \in 1 .. m - n : f[j] \in 1 .. m
  BY <1>1
<1>3. \A j \in DOMAIN t : f[j] \in DOMAIN s /\ s[f[j]] = t[j]
  BY <1>1, <1>2
<1>4. \A i, j \in 1 .. m - n : i < j => f[i] < f[j] /\ f[j] - f[i] <= j - i + 0
  BY <1>1
<1> QED BY <1>1, <1>3, <1>4 DEF Within

\* A frame still on its way, or in the hands of the poller, is newer than those
\* handed over before it.
NewerAhead(p) ==
    \A i \in DOMAIN Stream(p) : Stream(p)[i].crc # <<>> =>
      /\ \A g \in DOMAIN got : got[g].place < Stream(p)[i].frame
      /\ pc[p] = "deliver" => loc[p].frame < Stream(p)[i].frame
NewerInHand(p) ==
    pc[p] = "deliver" => \A g \in DOMAIN got : got[g].place < loc[p].frame

InOrder(p) == Spaced(Stream(p), faults) /\ NewerAhead(p) /\ NewerInHand(p)

\* Faults, and the steps that take no frame out of the stream.
LEMMA OrderKept ==
    ASSUME General, General', NEW p \in Pollers, InOrder(p), NEW d \in Nat,
           Within(Stream(p)', Stream(p), d), faults' = faults + d, got' = got,
           pc'[p] = "deliver" => pc[p] = "deliver" /\ loc'[p] = loc[p]
    PROVE  InOrder(p)'
<1> DEFINE s == Stream(p)
           t == Stream(p)'
<1>1. s \in Seq(Bytes) /\ t \in Seq(Bytes) /\ faults \in Nat
  <2>1. faults \in Nat
    BY FramingAssumption DEF General, TypeOK, FramingAssumption
  <2> QED BY <2>1, Streams, StreamsNext
<1>2. Spaced(t, faults')
  BY <1>1, WithinSpaced DEF InOrder
<1>3. \A j \in DOMAIN t : t[j].crc # <<>> => \E i \in DOMAIN s : s[i] = t[j]
  BY DEF Within
<1>4. NewerAhead(p)'
  <2>1. \A i \in DOMAIN s : s[i].crc # <<>> =>
          /\ \A g \in DOMAIN got : got[g].place < s[i].frame
          /\ pc[p] = "deliver" => loc[p].frame < s[i].frame
    BY DEF InOrder, NewerAhead
  <2> HIDE DEF s, t
  <2>2. \A j \in DOMAIN t : t[j].crc # <<>> =>
          /\ \A g \in DOMAIN got' : got'[g].place < t[j].frame
          /\ pc'[p] = "deliver" => loc'[p].frame < t[j].frame
    BY <1>3, <2>1
  <2> QED BY <2>2 DEF NewerAhead, t
<1>5. NewerInHand(p)'
  BY DEF InOrder, NewerInHand
<1> QED BY <1>2, <1>4, <1>5 DEF InOrder

\* The whole frame follows what is in the stream.
LEMMA SendShape ==
    ASSUME General, General', NEW p \in Pollers, NEW m \in Messages, Send(m)
    PROVE  LET s == Stream(p)
               t == Stream(p)'
               n == Len(sent) + 1
               c == Covered(m, txSeq)
           IN  /\ s \in Seq(Bytes) /\ t \in Seq(Bytes)
               /\ Len(s) \in Nat /\ Len(c) \in Nat /\ DOMAIN s = 1 .. Len(s)
               /\ DOMAIN t = 1 .. Len(s) + (Len(c) + 2)
               /\ \A j \in DOMAIN s : t[j] = s[j]
               /\ t[Len(s) + 1] = Plain(STX, n)
               /\ \A q \in 1 .. Len(c) : t[Len(s) + (1 + q)] = Plain(c[q], n)
               /\ \E v \in Byte : t[Len(s) + (Len(c) + 2)] =
                                    [val |-> v, crc |-> c, frame |-> n]
<1> DEFINE s == Stream(p)
           t == Stream(p)'
           n == Len(sent) + 1
           c == Covered(m, txSeq)
<1>1. PICK v \in Byte : air' = air \o Frame(m, n, v)
  BY FramingAssumption, ByteFacts DEF Send
<1> DEFINE f == Frame(m, n, v)
<1>2. txSeq \in Byte
  BY FramingAssumption, ByteFacts DEF General, TypeOK
<1>3. n \in 0 .. MaxFrames
  <2>1. sent \in Seq(Messages) /\ Len(sent) < MaxFrames
    BY DEF General, TypeOK, Send
  <2>2. Len(sent) \in Nat
    BY <2>1
  <2> QED BY <2>1, <2>2, FramingAssumption DEF FramingAssumption
<1>4. /\ f \in Seq(Bytes) /\ Len(f) = Len(c) + 2 /\ f[1] = Plain(STX, n)
      /\ \A q \in 1 .. Len(c) : f[1 + q] = Plain(c[q], n)
      /\ f[Len(c) + 2] = [val |-> v, crc |-> c, frame |-> n]
  BY <1>2, <1>3, FramingAssumption, FrameShape
<1>5. Len(c) \in Nat
  <2>1. c \in Seq(Byte)
    BY <1>2, FramingAssumption, CoveredType
  <2> QED BY <2>1
<1>6. UNCHANGED <<rx, loc>> /\ air' = air \o f
  BY <1>1 DEF Send
<1> HIDE DEF f
<1>7. /\ s \in Seq(Bytes) /\ t \in Seq(Bytes)
      /\ Len(s) \in Nat /\ Len(f) \in Nat
      /\ DOMAIN s = 1 .. Len(s) /\ DOMAIN t = 1 .. Len(s) + Len(f)
      /\ \A j \in DOMAIN s : t[j] = s[j]
      /\ \A j \in 1 .. Len(f) : t[Len(s) + j] = f[j]
  BY <1>4, <1>6, SendStream
<1> HIDE DEF s, t, c, n
<1>8. /\ 1 \in 1 .. Len(f) /\ Len(c) + 2 \in 1 .. Len(f)
      /\ \A q \in 1 .. Len(c) : 1 + q \in 1 .. Len(f)
  BY <1>4, <1>5
<1>9. /\ t[Len(s) + 1] = Plain(STX, n)
      /\ \A q \in 1 .. Len(c) : t[Len(s) + (1 + q)] = Plain(c[q], n)
      /\ t[Len(s) + (Len(c) + 2)] = [val |-> v, crc |-> c, frame |-> n]
  BY <1>4, <1>7, <1>8
<1> QED BY <1>4, <1>5, <1>7, <1>9 DEF s, t, c, n

LEMMA SendOrder ==
    ASSUME General, General', NEW p \in Pollers, InOrder(p),
           NEW m \in Messages, Send(m)
    PROVE  InOrder(p)'
<1> DEFINE s == Stream(p)
           t == Stream(p)'
           n == Len(sent) + 1
           c == Covered(m, txSeq)
           e == Len(s) + (Len(c) + 2)
<1>1. /\ s \in Seq(Bytes) /\ t \in Seq(Bytes)
      /\ Len(s) \in Nat /\ Len(c) \in Nat /\ DOMAIN s = 1 .. Len(s)
      /\ DOMAIN t = 1 .. Len(s) + (Len(c) + 2)
      /\ \A j \in DOMAIN s : t[j] = s[j]
      /\ t[Len(s) + 1] = Plain(STX, n)
      /\ \A q \in 1 .. Len(c) : t[Len(s) + (1 + q)] = Plain(c[q], n)
      /\ \E v \in Byte : t[e] = [val |-> v, crc |-> c, frame |-> n]
  BY SendShape
<1>2. t[e].crc = c /\ t[e].frame = n
  BY <1>1
<1>3. \A i \in DOMAIN s : s[i].frame \in Nat /\ s[i].frame < n
  <2>1. Goods(s, sent) /\ sent \in Seq(Messages)
    BY Streams DEF General, TypeOK
  <2>2. Len(sent) \in Nat /\ \A i \in DOMAIN s : s[i].frame \in 0 .. Len(sent)
    BY <1>1, <2>1, FrameOfByte
  <2> QED BY <2>2
<1> HIDE DEF s, t, n, c, e
<1>4. ASSUME NEW j \in DOMAIN t, t[j].crc # <<>>
      PROVE  j \in DOMAIN s \/ j = e
  <2>1. CASE j <= Len(s)
    BY <1>1, <2>1
  <2>2. CASE j = Len(s) + 1
    BY <1>1, <1>4, <2>2 DEF Plain
  <2>3. CASE j > Len(s) + 1 /\ j # e
    <3>1. j - Len(s) - 1 \in 1 .. Len(c) /\ Len(s) + (1 + (j - Len(s) - 1)) = j
      <4>1. j \in 1 .. Len(s) + (Len(c) + 2) /\ Len(s) \in Nat /\ Len(c) \in Nat
        BY <1>1
      <4>2. \A a, b \in Nat : \A i \in 1 .. a + (b + 2) :
              i > a + 1 /\ i # a + (b + 2) =>
                i - a - 1 \in 1 .. b /\ a + (1 + (i - a - 1)) = i
        OBVIOUS
      <4> QED BY <2>3, <4>1, <4>2 DEF e
    <3>2. t[Len(s) + (1 + (j - Len(s) - 1))] = Plain(c[j - Len(s) - 1], n)
      BY <1>1, <3>1
    <3> QED BY <1>4, <3>1, <3>2 DEF Plain
  <2> QED BY <1>1, <2>1, <2>2, <2>3
<1>5. Spaced(t, faults')
  <2>1. faults' = faults /\ faults \in Nat
    BY FramingAssumption DEF Send, General, TypeOK, FramingAssumption
  <2>2. ASSUME NEW i \in DOMAIN t, NEW j \in DOMAIN t,
               i < j, t[i].crc # <<>>, t[j].crc # <<>>
        PROVE  t[i].frame < t[j].frame /\ Len(t[j].crc) + 2 <= j - i + faults
    <3>1. CASE j \in DOMAIN s
      <4>1. i \in DOMAIN s
        BY <1>1, <2>2, <3>1
      <4>2. s[i] = t[i] /\ s[j] = t[j] /\ Spaced(s, faults)
        BY <1>1, <3>1, <4>1 DEF InOrder, s
      <4> QED BY <2>2, <3>1, <4>1, <4>2 DEF Spaced
    <3>2. CASE j = e
      <4>1. i \in DOMAIN s
        <5>1. i # e
          BY <1>1, <2>2, <3>2
        <5> QED BY <1>4, <2>2, <5>1
      <4>2. t[i].frame < n
        BY <1>1, <1>3, <4>1
      <4>3. Len(c) + 2 <= e - i + faults
        <5>1. i \in 1 .. Len(s)
          BY <1>1, <4>1
        <5>2. Len(s) \in Nat /\ Len(c) \in Nat
          BY <1>1
        <5> QED BY <2>1, <5>1, <5>2 DEF e
      <4> QED BY <1>2, <3>2, <4>2, <4>3
    <3> QED BY <1>4, <2>2, <3>1, <3>2
  <2> QED BY <2>1, <2>2 DEF Spaced
<1>6. got' = got /\ pc' = pc /\ loc' = loc
  BY DEF Send
<1>7. /\ \A g \in DOMAIN got : got[g].place < n
      /\ pc[p] = "deliver" => loc[p].frame < n
  <2>1. sent \in Seq(Messages)
    BY DEF General, TypeOK
  <2>2. DOMAIN sent = 1 .. Len(sent) /\ Len(sent) \in Nat
    BY <2>1
  <2>3. /\ \A g \in DOMAIN got : got[g].place \in DOMAIN sent
        /\ pc[p] = "deliver" => loc[p].frame \in DOMAIN sent
    BY DEF General, True
  <2> QED BY <2>2, <2>3 DEF n
<1>8. ASSUME NEW j \in DOMAIN t, t[j].crc # <<>>
      PROVE  /\ \A g \in DOMAIN got' : got'[g].place < t[j].frame
             /\ pc'[p] = "deliver" => loc'[p].frame < t[j].frame
  <2>1. CASE j \in DOMAIN s
    <3>1. t[j] = s[j]
      BY <1>1, <2>1
    <3> QED BY <1>6, <1>8, <2>1, <3>1 DEF InOrder, NewerAhead, s
  <2>2. CASE j = e
    BY <1>2, <1>6, <1>7, <2>2
  <2> QED BY <1>4, <1>8, <2>1, <2>2
<1>9. NewerAhead(p)'
  BY <1>8 DEF NewerAhead, t
<1>10. NewerInHand(p)'
  BY <1>6 DEF NewerInHand, InOrder
<1> QED BY <1>5, <1>9, <1>10 DEF InOrder, t

LEMMA FaultOrder ==
    ASSUME General, General', NEW p \in Pollers, InOrder(p),
           \/ \E i \in DOMAIN air : Lose(i)
           \/ \E i \in DOMAIN air, v \in Byte : Change(i, v)
           \/ \E i \in 1 .. Len(air) + 1, v \in Byte : Insert(i, v)
    PROVE  InOrder(p)'
<1> DEFINE s == Stream(p)
           t == Stream(p)'
<1>1. /\ faults' = faults + 1 /\ got' = got /\ 1 \in Nat
      /\ pc'[p] = "deliver" => pc[p] = "deliver" /\ loc'[p] = loc[p]
  BY DEF Lose, Change, Insert, Fault
<1>2. Within(t, s, 1)
  <2>1. ASSUME NEW i \in DOMAIN air, Lose(i)
        PROVE  Within(t, s, 1)
    <3> DEFINE x == Len(Ahead(p)) + i
               n == Len(s)
    <3>1. /\ s \in Seq(Bytes) /\ t \in Seq(Bytes) /\ x \in DOMAIN s
          /\ DOMAIN s = 1 .. n /\ DOMAIN t = 1 .. n - 1 /\ n \in Nat
          /\ \A j \in DOMAIN t : t[j] = s[IF j < x THEN j ELSE j + 1]
      BY <2>1, LoseStream
    <3> HIDE DEF s, t, x, n
    <3>2. x \in Int
      BY <3>1
    <3> QED BY <3>1, <3>2, LostWithin
  <2>2. ASSUME NEW i \in DOMAIN air, NEW v \in Byte, Change(i, v)
        PROVE  Within(t, s, 1)
    <3> DEFINE x == Len(Ahead(p)) + i
    <3>1. /\ s \in Seq(Bytes) /\ t \in Seq(Bytes) /\ DOMAIN t = DOMAIN s
          /\ t[x] = Plain(v, 0) /\ \A j \in DOMAIN t : j # x => t[j] = s[j]
      BY <2>2, ChangeStream
    <3> HIDE DEF s, t, x
    <3>2. t[x].crc = <<>>
      BY <3>1 DEF Plain
    <3> QED BY <3>1, <3>2, ChangedWithin
  <2>3. ASSUME NEW i \in 1 .. Len(air) + 1, NEW v \in Byte, Insert(i, v)
        PROVE  Within(t, s, 1)
    <3> DEFINE x == Len(Ahead(p)) + i
               n == Len(s)
    <3>1. /\ s \in Seq(Bytes) /\ t \in Seq(Bytes) /\ x \in 1 .. n + 1
          /\ DOMAIN s = 1 .. n /\ DOMAIN t = 1 .. n + 1 /\ n \in Nat
          /\ t[x] = Plain(v, 0)
          /\ \A j \in DOMAIN t : j # x => t[j] = s[IF j < x THEN j ELSE j - 1]
      BY <2>3, InsertStream
    <3> HIDE DEF s, t, x, n
    <3>2. t[x].crc = <<>>
      BY <3>1 DEF Plain
    <3> QED BY <3>1, <3>2, InsertedWithin
  <2> QED BY <2>1, <2>2, <2>3
<1> QED BY <1>1, <1>2, OrderKept

\* What a step of the poller drops is in the buffer.
LEMMA DropStep ==
    ASSUME General, General', NEW p \in Pollers, Control(p), NEW n,
           \/ Clear(p) /\ n = Len(rx)
           \/ Trim(p) /\ n = loc[p].idx
           \/ Skip(p) /\ n = 1
           \/ Take(p) /\ n = Overhead + loc[p].len
    PROVE  LET s == Stream(p)
               t == Stream(p)'
           IN  /\ s \in Seq(Bytes) /\ t \in Seq(Bytes) /\ Len(s) \in Nat
               /\ DOMAIN s = 1 .. Len(s) /\ DOMAIN t = 1 .. Len(s) - n
               /\ n \in 0 .. Len(rx) /\ n \in Nat
               /\ Len(rx) <= Len(s) /\ Len(rx) \in Nat
               /\ \A j \in DOMAIN t : t[j] = s[j + n]
               /\ UNCHANGED <<got, sent, damaged, faults>>
<1>1. rx \in Seq(Bytes)
  BY BufferTypes
<1>2. Len(rx) \in Nat /\ DOMAIN rx = 1 .. Len(rx)
  BY <1>1
<1>3. loc[p].idx \in Nat
  BY LocalTypes
<1>4. n \in 0 .. Len(rx)
  <2>1. CASE Clear(p) /\ n = Len(rx)
    BY <1>2, <2>1
  <2>2. CASE Trim(p) /\ n = loc[p].idx
    <3>1. n + 1 \in 1 .. Len(rx)
      BY <1>2, <2>2 DEF Trim, At, Control, Knows
    <3> QED BY <1>2, <1>3, <2>2, <3>1
  <2>3. CASE Skip(p) /\ n = 1
    <3>1. 1 \in 1 .. Len(rx)
      BY <1>2, <2>3 DEF Skip, At, Control, Knows, Framed
    <3> QED BY <1>2, <2>3, <3>1
  <2>4. CASE Take(p) /\ n = Overhead + loc[p].len
    <3>1. Len(rx) >= Overhead + loc[p].len
      BY <2>4 DEF Take, At, Control, Knows, Enclosed
    <3>2. Overhead + loc[p].len \in Nat
      BY FramingAssumption, LengthType
    <3> QED BY <1>2, <2>4, <3>1, <3>2
  <2> QED BY <2>1, <2>2, <2>3, <2>4
<1>5. rx' = SubSeq(rx, n + 1, Len(rx))
  <2>1. CASE Clear(p) /\ n = Len(rx)
    <3>1. SubSeq(rx, n + 1, Len(rx)) = <<>>
      BY <1>2, <2>1, SubSeqEmpty
    <3> QED BY <2>1, <3>1 DEF Clear
  <2>2. CASE ~(Clear(p) /\ n = Len(rx))
    BY <2>2 DEF Trim, Skip, Take, Drop
  <2> QED BY <2>1, <2>2
<1>6. loc[p].chunk = <<>> /\ loc'[p].chunk = <<>>
  <2>1. loc[p].chunk = <<>>
    BY DEF Clear, Trim, Skip, Take, At, Control, Knows
  <2>2. loc'[p] = loc[p] \/ loc'[p] = Fresh
    BY Moved DEF Clear, Trim, Skip, Take
  <2> QED BY <2>1, <2>2 DEF Fresh
<1>7. air' = air /\ UNCHANGED <<got, sent, damaged, faults>>
  BY DEF Clear, Trim, Skip, Take, Shared, history
<1> QED BY <1>2, <1>4, <1>5, <1>6, <1>7, DropStream

LEMMA TakeOrder ==
    ASSUME General, General', NEW p \in Pollers, Control(p), InOrder(p), Take(p)
    PROVE  InOrder(p)'
<1> DEFINE s == Stream(p)
           t == Stream(p)'
           k == Overhead + loc[p].len
           n == Len(s)
           f == loc[p].frame
<1>1. /\ s \in Seq(Bytes) /\ t \in Seq(Bytes) /\ n \in Nat
      /\ DOMAIN s = 1 .. n /\ DOMAIN t = 1 .. n - k
      /\ k \in 0 .. Len(rx) /\ k \in Nat
      /\ Len(rx) <= n /\ Len(rx) \in Nat
      /\ \A j \in DOMAIN t : t[j] = s[j + k]
      /\ UNCHANGED <<got, sent, damaged, faults>>
  BY DropStep
<1>2. k \in Nat \ {0}
  BY FramingAssumption, LengthType
<1>3. /\ rx[k].crc # <<>> /\ rx[k].frame = f /\ pc'[p] = "deliver"
      /\ loc'[p] = loc[p]
  BY Moved DEF Take, At, Go, Control, Knows
<1>4. s[k] = rx[k]
  <2>1. k \in 1 .. Len(rx)
    BY <1>1, <1>2
  <2> QED BY <2>1, Streams
<1>5. Spaced(s, faults) /\ \A i \in DOMAIN s : s[i].crc # <<>> =>
                             \A g \in DOMAIN got : got[g].place < s[i].frame
  BY DEF InOrder, NewerAhead
<1> HIDE DEF s, t, k, n, f
<1>6. k \in DOMAIN s /\ s[k].crc # <<>> /\ s[k].frame = f
  BY <1>1, <1>2, <1>3, <1>4
<1>7. Spaced(t, faults')
  <2>1. Within(t, s, 0)
    BY <1>1, DroppedWithin
  <2>2. faults \in Nat
    BY FramingAssumption DEF General, TypeOK, FramingAssumption
  <2>3. Spaced(t, faults + 0)
    BY <1>1, <1>5, <2>1, <2>2, WithinSpaced
  <2> QED BY <1>1, <2>2, <2>3
<1>8. ASSUME NEW j \in DOMAIN t, t[j].crc # <<>>
      PROVE  /\ \A g \in DOMAIN got' : got'[g].place < t[j].frame
             /\ f < t[j].frame
  <2>1. t[j] = s[j + k]
    BY <1>1
  <2>2. j + k \in DOMAIN s /\ k < j + k
    <3>1. j \in 1 .. n - k
      BY <1>1
    <3>2. j + k \in 1 .. n /\ k < j + k
      BY <1>1, <3>1
    <3> QED BY <1>1, <3>2
  <2>3. s[k].frame < s[j + k].frame
    BY <1>5, <1>6, <1>8, <2>1, <2>2 DEF Spaced
  <2>4. got' = got
    BY <1>1
  <2> QED BY <1>5, <1>6, <1>8, <2>1, <2>2, <2>3, <2>4
<1>9. NewerAhead(p)'
  BY <1>3, <1>8 DEF NewerAhead, t, f
<1>10. NewerInHand(p)'
  <2>1. got' = got
    BY <1>1
  <2> QED BY <1>3, <1>5, <1>6, <2>1 DEF NewerInHand, f
<1> QED BY <1>7, <1>9, <1>10 DEF InOrder, t

LEMMA DeliverOrder ==
    ASSUME General, General', NEW p \in Pollers, Control(p), InOrder(p), Deliver(p)
    PROVE  InOrder(p)'
<1> DEFINE s == Stream(p)
           f == loc[p].frame
           m == Told[f]
<1>1. /\ pc[p] = "deliver" /\ pc'[p] = "find" /\ loc'[p] = Fresh
      /\ rx' = rx /\ air' = air /\ faults' = faults
  BY Moved DEF Deliver, At, Go, history
<1>2. Stream(p)' = s
  BY <1>1, SMTT(30) DEF Control, Knows, Stream, Ahead, Fresh
<1>3. got' = Append(got, [place |-> f, message |-> m])
  BY FramingAssumption, DeliverTrue
<1>4. \A g \in DOMAIN got' :
        (g \in DOMAIN got /\ got'[g].place = got[g].place) \/ got'[g].place = f
  <2> DEFINE r == [place |-> f, message |-> m]
             T == [place : 1 .. MaxFrames, message : [kind : Kinds, body : Seq(Byte)]]
  <2>1. got \in Seq(T) /\ got' \in Seq(T) /\ r.place = f
    BY DEF General, TypeOK
  <2>2. got' = Append(got, r)
    BY <1>3
  <2> HIDE DEF r, T
  <2>3. \A g \in DOMAIN got' : (g \in DOMAIN got /\ got'[g] = got[g]) \/ got'[g] = r
    BY <2>1, <2>2
  <2> QED BY <2>1, <2>3
<1>5. \A i \in DOMAIN s : s[i].crc # <<>> =>
        f < s[i].frame /\ \A g \in DOMAIN got : got[g].place < s[i].frame
  BY <1>1 DEF InOrder, NewerAhead
<1> HIDE DEF s, f, m
<1>6. NewerAhead(p)'
  BY <1>1, <1>2, <1>4, <1>5 DEF NewerAhead
<1>7. NewerInHand(p)'
  BY <1>1 DEF NewerInHand
<1>8. Spaced(Stream(p)', faults')
  BY <1>1, <1>2 DEF InOrder, s
<1> QED BY <1>6, <1>7, <1>8 DEF InOrder

Looks(p) == \/ Read(p) \/ Extend(p) \/ Find(p) \/ Enough(p) \/ Length(p)
            \/ Whole(p) \/ Header(p) \/ Payload(p) \/ Check(p)

LEMMA LookStep ==
    ASSUME General, NEW p \in Pollers, Control(p), Looks(p)
    PROVE  /\ Stream(p)' = Stream(p) /\ UNCHANGED <<got, sent, damaged, faults>>
           /\ pc[p] # "deliver" /\ pc'[p] # "deliver"
<1>1. UNCHANGED <<got, sent, damaged, faults>>
  BY DEF Looks, Read, Extend, Find, Enough, Length, Whole, Header, Payload, Check,
         Local, Shared, history
<1>2. pc[p] # "deliver"
  BY DEF Looks, Read, Extend, Find, Enough, Length, Whole, Header, Payload, Check, At
<1>3. pc'[p] # "deliver"
  <2> USE DEF Go, General, TypeOK
  <2>1. CASE Read(p) \/ Extend(p) \/ Find(p) \/ Enough(p)
    BY <2>1 DEF Read, Extend, Find, Enough
  <2>2. CASE Length(p) \/ Whole(p)
    BY <2>2 DEF Length, Whole
  <2>3. CASE Header(p) \/ Payload(p)
    BY <2>3 DEF Header, Payload
  <2>4. CASE Check(p)
    <3>1. pc' = [pc EXCEPT ![p] = "crashed"] \/ pc' = [pc EXCEPT ![p] = "take"]
          \/ pc' = [pc EXCEPT ![p] = "skip"]
      BY <2>4 DEF Check
    <3> QED BY <3>1
  <2> QED BY <2>1, <2>2, <2>3, <2>4 DEF Looks
<1>4. Stream(p)' = Stream(p)
  <2>1. CASE Read(p)
    <3>1. loc[p].chunk = <<>>
      BY <2>1 DEF Read, At, Control, Knows
    <3> QED BY <2>1, <3>1, ReadStream
  <2>2. CASE Extend(p)
    BY <2>2, ExtendStream
  <2>3. CASE ~(Read(p) \/ Extend(p))
    <3>1. rx' = rx /\ air' = air
      BY <2>3 DEF Looks, Find, Enough, Length, Whole, Header, Payload, Check, Local
    <3>2. loc[p].chunk = <<>>
      BY <2>3 DEF Looks, Find, Enough, Length, Whole, Header, Payload, Check, At,
                  Control, Knows
    <3>3. loc'[p].chunk = <<>>
      <4>1. Control(p)'
        BY PollControl DEF Looks, Poll
      <4>2. pc'[p] # "extend"
        <5> USE DEF Go, General, TypeOK
        <5>1. CASE Find(p) \/ Enough(p)
          BY <5>1 DEF Find, Enough
        <5>2. CASE Length(p) \/ Whole(p)
          BY <5>2 DEF Length, Whole
        <5>3. CASE Header(p) \/ Payload(p)
          BY <5>3 DEF Header, Payload
        <5>4. CASE Check(p)
          <6>1. pc' = [pc EXCEPT ![p] = "crashed"] \/ pc' = [pc EXCEPT ![p] = "take"]
                \/ pc' = [pc EXCEPT ![p] = "skip"]
            BY <5>4 DEF Check
          <6> QED BY <6>1
        <5> QED BY <2>3, <5>1, <5>2, <5>3, <5>4 DEF Looks
      <4> QED BY <4>1, <4>2 DEF Control, Knows
    <3> QED BY <3>1, <3>2, <3>3 DEF Stream, Ahead
  <2> QED BY <2>1, <2>2, <2>3
<1> QED BY <1>1, <1>2, <1>3, <1>4

LEMMA PollOrder ==
    ASSUME General, General', NEW p \in Pollers, Control(p), InOrder(p), Poll(p)
    PROVE  InOrder(p)'
<1>1. faults \in Nat /\ faults + 0 = faults /\ 0 \in Nat
  BY FramingAssumption DEF General, TypeOK, FramingAssumption
<1>2. CASE Looks(p)
  <2>1. /\ Stream(p)' = Stream(p) /\ UNCHANGED <<got, faults>>
        /\ pc'[p] # "deliver"
    BY <1>2, LookStep
  <2>2. Within(Stream(p)', Stream(p), 0)
    BY <2>1, Streams, SameWithin
  <2> QED BY <1>1, <2>1, <2>2, OrderKept
<1>3. ASSUME NEW n, \/ Clear(p) /\ n = Len(rx)
                    \/ Trim(p) /\ n = loc[p].idx
                    \/ Skip(p) /\ n = 1
      PROVE  InOrder(p)'
  <2> DEFINE s == Stream(p)
             t == Stream(p)'
             m == Len(s)
  <2>1. /\ s \in Seq(Bytes) /\ t \in Seq(Bytes) /\ m \in Nat /\ n \in Nat
        /\ DOMAIN s = 1 .. m /\ DOMAIN t = 1 .. m - n
        /\ \A j \in DOMAIN t : t[j] = s[j + n]
        /\ UNCHANGED <<got, faults>>
    BY <1>3, DropStep
  <2>2. pc'[p] # "deliver"
    BY <1>3, Moved DEF Clear, Trim, Skip, Go
  <2> HIDE DEF s, t, m
  <2>3. Within(t, s, 0)
    BY <2>1, DroppedWithin
  <2> QED BY <1>1, <2>1, <2>2, <2>3, OrderKept DEF s, t
<1>4. CASE Take(p)
  BY <1>4, TakeOrder
<1>5. CASE Deliver(p)
  BY <1>5, DeliverOrder
<1> QED BY <1>2, <1>3, <1>4, <1>5 DEF Poll, Looks

\* The invariant with one poller.
One(p) == General /\ Control(p) /\ InOrder(p)

LEMMA OneInit ==
    ASSUME Init, NEW p \in Pollers
    PROVE  One(p)
<1>1. General /\ Control(p)
  BY FramingAssumption, GeneralInit, InitControl
<1>2. Stream(p) = <<>>
  <2>1. rx = <<>> /\ air = <<>> /\ loc[p].chunk = <<>>
    BY DEF Init, Fresh
  <2>2. Stream(p) = (<<>> \o <<>>) \o <<>>
    BY <2>1 DEF Stream, Ahead
  <2> QED BY <2>2
<1>3. DOMAIN Stream(p) = {} /\ pc[p] = "idle"
  BY <1>2 DEF Init
<1> QED BY <1>1, <1>3 DEF One, InOrder, Spaced, NewerAhead, NewerInHand

LEMMA OneStep ==
    ASSUME NEW p, Pollers = {p}, One(p), [Next]_vars
    PROVE  One(p)'
<1>1. p \in Pollers /\ General /\ Control(p) /\ InOrder(p)
  BY DEF One
<1>2. General'
  BY <1>1, FramingAssumption, GeneralStep
<1>3. CASE UNCHANGED vars
  <2>1. Control(p)' /\ Stream(p)' = Stream(p)
    BY <1>1, <1>3 DEF vars, Control, Stream, Ahead
  <2> QED BY <1>1, <1>2, <1>3, <2>1
          DEF One, InOrder, NewerAhead, NewerInHand, vars
<1>4. CASE \E m \in Messages : Send(m)
  <2>1. Control(p)'
    BY <1>1, <1>4 DEF Send, Control
  <2> QED BY <1>1, <1>2, <1>4, <2>1, SendOrder DEF One
<1>5. CASE \/ \E i \in DOMAIN air : Lose(i)
           \/ \E i \in DOMAIN air, v \in Byte : Change(i, v)
           \/ \E i \in 1 .. Len(air) + 1, v \in Byte : Insert(i, v)
  <2>1. Control(p)'
    BY <1>1, <1>5 DEF Lose, Change, Insert, Fault, Control
  <2> QED BY <1>1, <1>2, <1>5, <2>1, FaultOrder DEF One
<1>6. CASE Poll(p)
  BY <1>1, <1>2, <1>6, PollControl, PollOrder DEF One
<1> QED BY <1>3, <1>4, <1>5, <1>6 DEF Next

----------------------------------------------------------------------------
(* One poller: the link is an ordered channel *)

LEMMA SendChannel ==
    ASSUME General, NEW m \in Messages, Send(m)
    PROVE  \E x \in [kind : Kinds, body : {Encode(k) : k \in Messages}] :
             Channel!Send(x)
<1> DEFINE x == [m EXCEPT !.body = Encode(m)]
           n == Len(sent)
           S == Seq(Byte)
           T == [kind : Kinds, body : S]
<1>1. /\ sent \in Seq(Messages) /\ sent' = Append(sent, m) /\ got' = got
  BY DEF General, TypeOK, Send
<1>2. /\ n \in Nat /\ DOMAIN sent = 1 .. n /\ DOMAIN sent' = 1 .. n + 1
      /\ sent'[n + 1] = m /\ \A i \in 1 .. n : sent'[i] = sent[i]
  BY <1>1
<1>3. x \in [kind : Kinds, body : {Encode(k) : k \in Messages}]
  <2>1. m \in [kind : Kinds, body : Seq(Nat)]
    BY FramingAssumption DEF FramingAssumption
  <2> QED BY <2>1
<1>4. \A k \in Messages : [k EXCEPT !.body = Encode(k)] \in T
  <2>1. ASSUME NEW k \in Messages
        PROVE  [k EXCEPT !.body = Encode(k)] \in T
    <3>1. k \in [kind : Kinds, body : Seq(Nat)] /\ Encode(k) \in S
      BY FramingAssumption, EncodeType DEF FramingAssumption
    <3> QED BY <3>1
  <2> QED BY <2>1
<1> HIDE DEF x, T
<1>5. /\ Told = [i \in 1 .. n |-> [sent[i] EXCEPT !.body = Encode(sent[i])]]
      /\ Told' = [i \in 1 .. n + 1 |-> [sent'[i] EXCEPT !.body = Encode(sent'[i])]]
  BY <1>2 DEF Told
<1>6. /\ \A i \in 1 .. n : sent[i] \in Messages
      /\ \A i \in 1 .. n + 1 : sent'[i] \in Messages
  BY <1>1, <1>2
<1>7. Told \in [1 .. n -> T] /\ Told' \in [1 .. n + 1 -> T]
  BY <1>4, <1>5, <1>6
<1>8. Told \in Seq(T) /\ Len(Told) = n
  BY <1>2, <1>7
<1>9. Told' \in Seq(T) /\ Len(Told') = n + 1
  BY <1>2, <1>7
<1>10. Told'[n + 1] = x /\ \A i \in 1 .. n : Told'[i] = Told[i]
  <2>1. n + 1 \in 1 .. n + 1 /\ \A i \in 1 .. n : i \in 1 .. n + 1
    BY <1>2
  <2>2. Told'[n + 1] = [sent'[n + 1] EXCEPT !.body = Encode(sent'[n + 1])]
    BY <1>5, <2>1
  <2>3. \A i \in 1 .. n :
          /\ Told'[i] = [sent'[i] EXCEPT !.body = Encode(sent'[i])]
          /\ Told[i] = [sent[i] EXCEPT !.body = Encode(sent[i])]
    BY <1>5, <2>1
  <2> QED BY <1>2, <2>2, <2>3, ZenonT(30) DEF x
<1>11. x \in T
  BY <1>4 DEF x
<1>12. Append(Told, x) \in Seq(T) /\ Len(Append(Told, x)) = n + 1
       /\ \A i \in 1 .. n : Append(Told, x)[i] = Told[i]
       /\ Append(Told, x)[n + 1] = x
  BY <1>8, <1>11
<1>13. \A i \in 1 .. n + 1 : Told'[i] = Append(Told, x)[i]
  <2>1. \A i \in 1 .. n + 1 : i \in 1 .. n \/ i = n + 1
    BY <1>2
  <2> QED BY <1>10, <1>12, <2>1
<1>14. Told' = Append(Told, x)
  BY <1>9, <1>12, <1>13, SeqEqual
<1> QED BY <1>1, <1>3, <1>14 DEF Channel!Send

LEMMA DeliverChannel ==
    ASSUME General, NEW p \in Pollers, InOrder(p), Deliver(p)
    PROVE  \E n \in DOMAIN Told : Channel!Deliver(n)
<1> DEFINE f == loc[p].frame
<1>1. f \in DOMAIN sent /\ got' = Append(got, [place |-> f, message |-> Told[f]])
  BY FramingAssumption, DeliverTrue
<1>2. \A i \in DOMAIN got : got[i].place < f
  BY DEF InOrder, NewerInHand, Deliver, At
<1>3. DOMAIN Told = DOMAIN sent /\ Told' = Told
  BY DEF Told, Deliver, history
<1> HIDE DEF f
<1>4. Channel!Deliver(f)
  BY <1>1, <1>2, <1>3 DEF Channel!Deliver
<1> QED BY <1>1, <1>3, <1>4

LEMMA ChannelStep ==
    ASSUME NEW p, Pollers = {p}, One(p), [Next]_vars
    PROVE  [Channel!Next]_(Channel!vars)
<1>1. p \in Pollers /\ General /\ Control(p) /\ InOrder(p)
  BY DEF One
<1>2. General'
  BY <1>1, FramingAssumption, GeneralStep
<1>3. CASE UNCHANGED <<got, sent>>
  BY <1>3 DEF Told, Channel!vars
<1>4. CASE \E m \in Messages : Send(m)
  BY <1>1, <1>4, SendChannel DEF Channel!Next
<1>5. CASE Deliver(p)
  BY <1>1, <1>5, DeliverChannel DEF Channel!Next
<1>6. CASE Looks(p)
  BY <1>1, <1>3, <1>6, LookStep
<1>7. ASSUME NEW n, \/ Clear(p) /\ n = Len(rx)
                    \/ Trim(p) /\ n = loc[p].idx
                    \/ Skip(p) /\ n = 1
                    \/ Take(p) /\ n = Overhead + loc[p].len
      PROVE  UNCHANGED <<got, sent>>
  BY <1>1, <1>2, <1>7, DropStep
<1>8. CASE UNCHANGED vars \/ Fault
  BY <1>3, <1>8 DEF vars, Fault
<1>9. \/ \E m \in Messages : Send(m)
      \/ UNCHANGED vars \/ Fault \/ Poll(p)
  BY DEF Next, Lose, Change, Insert
<1> QED BY <1>3, <1>4, <1>5, <1>6, <1>7, <1>8, <1>9 DEF Poll, Looks

\* With one poller the link implements FrameChannel: whatever the line does to
\* the bytes and wherever reads cut the stream, what is handed over was sent,
\* at most once and in order.
THEOREM ImplementsChannelAlways ==
    ASSUME NEW p, Pollers = {p}
    PROVE  Spec => ImplementsChannel
<1>1. Init => One(p) /\ Channel!Init
  <2>1. ASSUME Init
        PROVE  Channel!Init
    <3>1. Told = <<>> /\ got = <<>>
      BY <2>1 DEF Init, Told
    <3> QED BY <3>1 DEF Channel!Init
  <2>2. p \in Pollers
    OBVIOUS
  <2> QED BY <2>1, <2>2, OneInit
<1>2. One(p) /\ [Next]_vars => One(p)' /\ [Channel!Next]_(Channel!vars)
  BY OneStep, ChannelStep
<1> QED BY <1>1, <1>2, PTL DEF Spec, ImplementsChannel, Channel!Spec

\* With one poller the drain never reads past the end of what it has checked.
THEOREM OnePollSurvives ==
    ASSUME NEW p, Pollers = {p}
    PROVE  Spec => []PollSurvives
<1>1. Init => One(p)
  <2>1. p \in Pollers
    OBVIOUS
  <2> QED BY <2>1, OneInit
<1>2. One(p) /\ [Next]_vars => One(p)'
  BY OneStep
<1>3. One(p) => PollSurvives
  BY DEF One, Control, Knows, PollSurvives, At
<1> QED BY <1>1, <1>2, <1>3, PTL DEF Spec

----------------------------------------------------------------------------
(* One poller: no good frame is dropped *)

\* An undamaged frame has arrived, is in the poller's hands, or is on its way
\* with all its bytes.
Kept(p, n) ==
    \/ Arrived(n)
    \/ pc[p] = "deliver" /\ loc[p].frame = n
    \/ \E e : WholeAt(Stream(p), e, n)
AllKept(p) == faults <= Overhead => \A n \in DOMAIN sent \ damaged : Kept(p, n)

\* Faults, and the steps that take nothing out of the stream.
LEMMA KeptMoved ==
    ASSUME NEW p \in Pollers, NEW n, Kept(p, n), UNCHANGED got,
           pc[p] = "deliver" => pc'[p] = "deliver" /\ loc'[p] = loc[p],
           \A e : WholeAt(Stream(p), e, n) => \E d : WholeAt(Stream(p)', d, n)
    PROVE  Kept(p, n)'
<1>1. CASE Arrived(n)
  BY <1>1 DEF Kept, Arrived
<1>2. CASE pc[p] = "deliver" /\ loc[p].frame = n
  BY <1>2 DEF Kept
<1>3. CASE \E e : WholeAt(Stream(p), e, n)
  BY <1>3 DEF Kept
<1> QED BY <1>1, <1>2, <1>3 DEF Kept

LEMMA SendKept ==
    ASSUME General, General', NEW p \in Pollers, AllKept(p),
           NEW m \in Messages, Send(m)
    PROVE  AllKept(p)'
<1> DEFINE s == Stream(p)
           t == Stream(p)'
           k == Len(sent) + 1
           c == Covered(m, txSeq)
           b == Len(s) + 1
           e == Len(s) + (Len(c) + 2)
<1>1. /\ s \in Seq(Bytes) /\ t \in Seq(Bytes)
      /\ Len(s) \in Nat /\ Len(c) \in Nat /\ DOMAIN s = 1 .. Len(s)
      /\ DOMAIN t = 1 .. Len(s) + (Len(c) + 2)
      /\ \A j \in DOMAIN s : t[j] = s[j]
      /\ t[b] = Plain(STX, k)
      /\ \A q \in 1 .. Len(c) : t[Len(s) + (1 + q)] = Plain(c[q], k)
      /\ \E v \in Byte : t[e] = [val |-> v, crc |-> c, frame |-> k]
  BY SendShape
<1>2. /\ UNCHANGED <<got, pc, loc, damaged, faults>>
      /\ \A n \in DOMAIN sent' : n \in DOMAIN sent \/ n = k
  <2>1. sent \in Seq(Messages) /\ sent' = Append(sent, m)
    BY DEF General, TypeOK, Send
  <2>2. \A n \in DOMAIN sent' : n \in DOMAIN sent \/ n = k
    BY <2>1
  <2> QED BY <2>2 DEF Send
<1>3. t[e].crc = c /\ t[e].frame = k
  BY <1>1
<1>4. c # <<>>
  <2>1. Len(c) = 3 + Size[m.kind] /\ Size[m.kind] \in Nat
    <3>1. txSeq \in Byte
      BY FramingAssumption, ByteFacts DEF General, TypeOK
    <3> QED BY <3>1, FramingAssumption, CoveredType
  <2>2. Len(<<>>) = 0
    OBVIOUS
  <2> HIDE DEF c
  <2> QED BY <2>1, <2>2
<1> HIDE DEF s, t, c
<1>5. Len(s) \in Nat /\ Len(c) \in Nat
  BY <1>1
<1>6. Start(t, e) = b
  BY <1>3, <1>5 DEF Start
<1>7. /\ e \in 1 .. Len(s) + (Len(c) + 2) /\ b >= 1
      /\ \A q \in 1 .. Len(c) : b + q = Len(s) + (1 + q)
  BY <1>5
<1>8. ASSUME NEW q \in 1 .. Len(c)
      PROVE  t[b + q].val = c[q] /\ t[b + q].frame = k
  <2>1. t[Len(s) + (1 + q)] = Plain(c[q], k)
    BY <1>1
  <2>2. b + q = Len(s) + (1 + q)
    BY <1>7
  <2> HIDE DEF b, k
  <2>3. t[b + q] = Plain(c[q], k)
    BY <2>1, <2>2
  <2> QED BY <2>3 DEF Plain
<1>9. ASSUME NEW i \in b .. e
      PROVE  t[i].frame = k
  <2>1. CASE i = b
    BY <1>1, <2>1 DEF Plain
  <2>2. CASE i = e
    BY <1>3, <2>2
  <2>3. CASE i # b /\ i # e
    <3>1. i - b \in 1 .. Len(c) /\ b + (i - b) = i
      BY <1>5, <2>3
    <3> QED BY <1>8, <3>1
  <2> QED BY <2>1, <2>2, <2>3
<1>10. t[b].val = STX
  BY <1>1 DEF Plain
<1>11. WholeAt(t, e, k)
  <2>1. e \in DOMAIN t
    BY <1>1, <1>7
  <2> HIDE DEF b, e, k
  <2> QED BY <1>3, <1>4, <1>6, <1>7, <1>8, <1>9, <1>10, <2>1 DEF WholeAt
<1>12. ASSUME NEW n, NEW d, WholeAt(s, d, n)
       PROVE  WholeAt(t, d, n)
  <2>1. d \in Nat /\ Start(s, d) \in Nat /\ Start(s, d) >= 1 /\ d <= Len(s)
    BY <1>1, <1>12, WholeFacts
  <2>2. \A i \in Start(s, d) .. d : i \in 1 .. Len(s) /\ i + 0 = i
    BY <1>5, <2>1
  <2>3. \A i \in 1 .. Len(s) : i \in 1 .. Len(s) + (Len(c) + 2)
    BY <1>5
  <2>4. \A i \in Start(s, d) .. d : i + 0 \in DOMAIN t /\ t[i + 0] = s[i]
    BY <1>1, <2>2, <2>3
  <2>5. WholeAt(t, d + 0, n)
    BY <1>1, <1>12, <2>4, WholeMoves
  <2> QED BY <2>1, <2>5
<1>13. ASSUME faults <= Overhead, NEW n \in DOMAIN sent' \ damaged'
       PROVE  Kept(p, n)'
  <2>1. CASE n = k
    BY <1>11, <2>1 DEF Kept, t
  <2>2. CASE n \in DOMAIN sent
    <3>1. Kept(p, n)
      BY <1>2, <1>13, <2>2 DEF AllKept
    <3> QED BY <1>2, <1>12, <3>1, KeptMoved DEF s, t
  <2> QED BY <1>2, <2>1, <2>2
<1> QED BY <1>2, <1>13 DEF AllKept

\* A fault that does no damage to a frame moves its bytes together.
LEMMA FaultWhole ==
    ASSUME General, General', NEW p \in Pollers, NEW n, n \notin damaged',
           \/ \E i \in DOMAIN air : Lose(i)
           \/ \E i \in DOMAIN air, v \in Byte : Change(i, v)
           \/ \E i \in 1 .. Len(air) + 1, v \in Byte : Insert(i, v),
           NEW e, WholeAt(Stream(p), e, n)
    PROVE  \E d : WholeAt(Stream(p)', d, n)
<1> DEFINE s == Stream(p)
           t == Stream(p)'
           b == Start(s, e)
           m == Len(s)
           k == Len(Ahead(p))
<1>1. s \in Seq(Bytes) /\ t \in Seq(Bytes) /\ DOMAIN s = 1 .. m /\ m \in Nat
  BY Streams, StreamsNext
<1>2. b \in Nat /\ e \in Nat /\ b >= 1 /\ b < e /\ e <= m
  BY <1>1, WholeFacts
<1>3. \A i \in b .. e : s[i].frame = n
  BY DEF WholeAt
<1>4. ASSUME NEW d \in Int,
             \A i \in b .. e : i + d \in DOMAIN t /\ t[i + d] = s[i]
      PROVE  \E x : WholeAt(t, x, n)
  <2>1. WholeAt(t, e + d, n)
    BY <1>1, <1>4, WholeMoves
  <2> QED BY <2>1
<1>5. ASSUME NEW i \in DOMAIN air, Lose(i)
      PROVE  \E d : WholeAt(t, d, n)
  <2> DEFINE x == k + i
  <2>1. /\ x \in DOMAIN s /\ s[x] = air[i] /\ DOMAIN t = 1 .. m - 1
        /\ \A j \in DOMAIN t : t[j] = s[IF j < x THEN j ELSE j + 1]
    BY <1>5, LoseStream
  <2>2. s[x].frame # n
    BY <1>5, <2>1 DEF Lose
  <2> HIDE DEF s, t, b, x, m
  <2>3. x \in 1 .. m /\ ~(x \in b .. e)
    BY <1>1, <1>3, <2>1, <2>2
  <2>4. CASE x > e
    <3> DEFINE d == 0
    <3>1. d \in Int /\ \A j \in b .. e : j + d \in 1 .. m - 1 /\ j + d = j /\ j < x
      BY <1>1, <1>2, <2>3, <2>4
    <3> HIDE DEF d
    <3>2. \A j \in b .. e : j + d \in DOMAIN t /\ t[j + d] = s[j]
      BY <2>1, <3>1
    <3> QED BY <1>4, <3>1, <3>2
  <2>5. CASE x < b
    <3> DEFINE d == -1
    <3>1. d \in Int /\ \A j \in b .. e : /\ j + d \in 1 .. m - 1
                                         /\ (j + d) + 1 = j /\ ~(j + d < x)
      BY <1>1, <1>2, <2>3, <2>5
    <3> HIDE DEF d
    <3>2. \A j \in b .. e : j + d \in DOMAIN t /\ t[j + d] = s[j]
      BY <2>1, <3>1
    <3> QED BY <1>4, <3>1, <3>2
  <2> QED BY <1>2, <2>3, <2>4, <2>5
<1>6. ASSUME NEW i \in DOMAIN air, NEW v \in Byte, Change(i, v)
      PROVE  \E d : WholeAt(t, d, n)
  <2> DEFINE x == k + i
  <2>1. /\ x \in DOMAIN s /\ s[x] = air[i] /\ DOMAIN t = DOMAIN s
        /\ \A j \in DOMAIN t : j # x => t[j] = s[j]
    BY <1>6, ChangeStream
  <2>2. s[x].frame # n
    BY <1>6, <2>1 DEF Change
  <2> HIDE DEF s, t, b, x, m
  <2> DEFINE d == 0
  <2>3. d \in Int /\ \A j \in b .. e : j + d = j /\ j \in 1 .. m
    BY <1>1, <1>2
  <2> HIDE DEF d
  <2>4. \A j \in b .. e : j + d \in DOMAIN t /\ t[j + d] = s[j]
    BY <1>1, <1>3, <2>1, <2>2, <2>3
  <2> QED BY <1>4, <2>3, <2>4
<1>7. ASSUME NEW i \in 1 .. Len(air) + 1, NEW v \in Byte, Insert(i, v)
      PROVE  \E d : WholeAt(t, d, n)
  <2> DEFINE x == k + i
             l == Len(air)
  <2>1. /\ x \in 1 .. m + 1 /\ DOMAIN t = 1 .. m + 1
        /\ \A j \in DOMAIN t : j # x => t[j] = s[IF j < x THEN j ELSE j - 1]
        /\ \A j \in 1 .. l : s[k + j] = air[j]
        /\ m = k + l /\ l \in Nat /\ k \in Nat
    BY <1>7, InsertStream
  <2>2. i \in 1 .. l + 1 /\ x = k + i
    OBVIOUS
  <2> HIDE DEF s, t, b, x, m, k, l
  <2>3. CASE x > e
    <3> DEFINE d == 0
    <3>1. d \in Int /\ \A j \in b .. e : /\ j + d \in 1 .. m + 1 /\ j + d = j
                                         /\ j < x /\ j # x
      BY <1>1, <1>2, <2>1, <2>3
    <3> HIDE DEF d
    <3>2. \A j \in b .. e : j + d \in DOMAIN t /\ t[j + d] = s[j]
      BY <2>1, <3>1
    <3> QED BY <1>4, <3>1, <3>2
  <2>4. CASE x <= b
    <3> DEFINE d == 1
    <3>1. d \in Int /\ \A j \in b .. e : /\ j + d \in 1 .. m + 1 /\ (j + d) - 1 = j
                                         /\ ~(j + d < x) /\ j + d # x
      BY <1>1, <1>2, <2>1, <2>4
    <3> HIDE DEF d
    <3>2. \A j \in b .. e : j + d \in DOMAIN t /\ t[j + d] = s[j]
      BY <2>1, <3>1
    <3> QED BY <1>4, <3>1, <3>2
  <2>5. ~(x > b /\ x <= e)
    <3>1. SUFFICES ASSUME x > b, x <= e
                   PROVE  FALSE
      OBVIOUS
    <3>2. i \in 1 .. l /\ x \in b .. e /\ x - 1 \in b .. e
      BY <1>1, <1>2, <2>1, <2>2, <3>1
    <3>3. air[i].frame = n
      BY <1>3, <2>1, <2>2, <3>2
    <3>4. i > 1 => air[i - 1].frame = n
      <4>1. SUFFICES ASSUME i > 1
                     PROVE  air[i - 1].frame = n
        OBVIOUS
      <4>2. i - 1 \in 1 .. l /\ k + (i - 1) = x - 1
        BY <2>1, <2>2, <3>2, <4>1
      <4> QED BY <1>3, <2>1, <3>2, <4>2
    <3>5. ~(i > l)
      BY <2>1, <3>2
    <3>6. damaged' = damaged \cup {air[i].frame}
      BY <1>7, <3>3, <3>4, <3>5 DEF Insert, l
    <3> QED BY <3>3, <3>6
  <2> QED BY <1>1, <1>2, <2>1, <2>3, <2>4, <2>5
<1> QED BY <1>5, <1>6, <1>7

LEMMA FaultKept ==
    ASSUME General, General', NEW p \in Pollers, AllKept(p),
           \/ \E i \in DOMAIN air : Lose(i)
           \/ \E i \in DOMAIN air, v \in Byte : Change(i, v)
           \/ \E i \in 1 .. Len(air) + 1, v \in Byte : Insert(i, v)
    PROVE  AllKept(p)'
<1>1. /\ faults' = faults + 1 /\ UNCHANGED <<got, sent, pc, loc>>
      /\ damaged \subseteq damaged'
  BY DEF Lose, Change, Insert, Fault
<1>2. faults \in Nat /\ Overhead \in Nat
  BY FramingAssumption DEF General, TypeOK, FramingAssumption, Overhead
<1>3. ASSUME faults' <= Overhead, NEW n \in DOMAIN sent' \ damaged'
      PROVE  Kept(p, n)'
  <2>1. faults <= Overhead
    BY <1>1, <1>2, <1>3
  <2>2. Kept(p, n)
    BY <1>1, <1>3, <2>1 DEF AllKept
  <2>3. \A e : WholeAt(Stream(p), e, n) => \E d : WholeAt(Stream(p)', d, n)
    BY <1>3, FaultWhole
  <2> QED BY <1>1, <2>2, <2>3, KeptMoved
<1> QED BY <1>3 DEF AllKept

\* A whole frame at the head of the buffer is found to be one.
LEMMA HeadWhole ==
    ASSUME General, NEW p \in Pollers, Control(p), pc[p] \in Checked,
           NEW e, NEW n, WholeAt(Stream(p), e, n), Start(Stream(p), e) = 1
    PROVE  /\ e = Overhead + loc[p].len /\ rx[e] = Stream(p)[e]
           /\ rx[e].crc # <<>> /\ rx[e].crc = loc[p].covered /\ rx[e].frame = n
<1> DEFINE s == Stream(p)
           c == s[e].crc
           l == loc[p].len
           k == Overhead + l
           h == loc[p].covered
<1>1. /\ s \in Seq(Bytes) /\ Len(rx) \in Nat /\ \A i \in 1 .. Len(rx) : s[i] = rx[i]
      /\ Goods(s, sent)
  BY Streams
<1>2. /\ e \in Nat \ {0} /\ Len(c) \in Nat /\ e = 1 + Len(c) + 1 /\ e \in DOMAIN s
      /\ s[e].frame = n /\ c # <<>>
  <2>1. c # <<>> /\ Start(s, e) = 1
    BY DEF WholeAt
  <2> QED BY <1>1, <2>1, WholeFacts
<1>3. \A q \in 1 .. Len(c) : s[1 + q].val = c[q]
  BY DEF WholeAt
<1>4. /\ Len(rx) >= k /\ l = rx[2].val /\ Len(h) = k - 2
      /\ \A q \in 1 .. k - 2 : h[q] = rx[1 + q].val
  BY DEF Control, Knows, Measured, Enclosed, Checked
<1>5. l \in Nat /\ h \in Seq(Byte)
  BY FramingAssumption, LengthType, LocalTypes
<1>6. c \in Seq(Byte) /\ \E x \in Nat : Len(c) = 3 + x /\ c[1] = x
  <2>1. Good(s[e], sent)
    BY <1>1, <1>2 DEF Goods
  <2>2. PICK y \in Byte : c = Covered(sent[s[e].frame], y)
    BY <1>2, <2>1 DEF Good
  <2>3. sent[s[e].frame] \in Messages
    BY <1>2, <2>1 DEF Good, General, TypeOK
  <2> HIDE DEF c
  <2> QED BY <2>2, <2>3, FramingAssumption, CoveredType
<1> HIDE DEF s, c, l, h
<1>7. PICK x \in Nat : Len(c) = 3 + x /\ c[1] = x
  BY <1>6
<1>8. k >= 5 /\ k \in Nat
  BY <1>5 DEF Overhead
<1>9. l = x
  <2>1. 2 \in 1 .. Len(rx) /\ 1 \in 1 .. Len(c) /\ 1 + 1 = 2
    BY <1>1, <1>4, <1>7, <1>8
  <2> QED BY <1>1, <1>3, <1>4, <1>7, <2>1
<1>10. e = k /\ k - 2 = Len(c) /\ k \in 1 .. Len(rx)
  BY <1>1, <1>2, <1>4, <1>7, <1>9 DEF Overhead
<1>11. h = c
  <2>1. \A q \in 1 .. Len(c) : 1 + q \in 1 .. Len(rx)
    BY <1>1, <1>2, <1>4, <1>8, <1>10
  <2>2. \A q \in 1 .. Len(c) : h[q] = c[q]
    BY <1>1, <1>3, <1>4, <1>10, <2>1
  <2>3. Len(h) = Len(c)
    BY <1>4, <1>10
  <2> QED BY <1>5, <1>6, <2>2, <2>3, SeqEqual
<1>12. rx[e] = s[e]
  BY <1>1, <1>10
<1> QED BY <1>2, <1>10, <1>11, <1>12 DEF s, c, l, h

\* A frame that begins after the bytes dropped stays whole.
LEMMA DropWhole ==
    ASSUME NEW s \in Seq(Bytes), NEW t \in Seq(Bytes), NEW m \in Nat, NEW k \in Nat,
           DOMAIN s = 1 .. m, DOMAIN t = 1 .. m - k,
           \A j \in DOMAIN t : t[j] = s[j + k],
           NEW e, NEW n, WholeAt(s, e, n), Start(s, e) > k
    PROVE  \E d : WholeAt(t, d, n)
<1> DEFINE b == Start(s, e)
           d == 0 - k
<1>1. b \in Nat /\ e \in 1 .. m /\ b < e
  BY WholeFacts
<1> HIDE DEF b
<1>2. d \in Int /\ \A j \in b .. e : j + d \in 1 .. m - k /\ (j + d) + k = j
  BY <1>1 DEF b
<1> HIDE DEF d
<1>3. \A j \in b .. e : j + d \in DOMAIN t /\ t[j + d] = s[j]
  BY <1>2
<1>4. WholeAt(t, e + d, n)
  BY <1>2, <1>3, WholeMoves DEF b
<1> QED BY <1>4

LEMMA DropKept ==
    ASSUME General, General', NEW p \in Pollers, Control(p), AllKept(p), NEW k,
           \/ Clear(p) /\ k = Len(rx)
           \/ Trim(p) /\ k = loc[p].idx
           \/ Skip(p) /\ k = 1
    PROVE  AllKept(p)'
<1> DEFINE s == Stream(p)
           t == Stream(p)'
           m == Len(s)
<1>1. /\ s \in Seq(Bytes) /\ t \in Seq(Bytes) /\ m \in Nat
      /\ DOMAIN s = 1 .. m /\ DOMAIN t = 1 .. m - k
      /\ k \in 0 .. Len(rx) /\ k \in Nat /\ Len(rx) \in Nat
      /\ \A j \in DOMAIN t : t[j] = s[j + k]
      /\ UNCHANGED <<got, sent, damaged, faults>>
  BY DropStep
<1>2. pc[p] # "deliver"
  BY DEF Clear, Trim, Skip, At
<1>3. \A i \in 1 .. Len(rx) : s[i] = rx[i]
  BY Streams
<1>4. ASSUME NEW e, NEW n, WholeAt(s, e, n)
      PROVE  Start(s, e) > k
  <2> DEFINE b == Start(s, e)
  <2>1. b \in Nat /\ b >= 1 /\ s[b].val = STX
    <3>1. s[b].val = STX
      BY <1>4 DEF WholeAt
    <3> QED BY <1>1, <1>4, <3>1, WholeFacts
  <2>2. CASE Skip(p) /\ k = 1
    <3>1. pc[p] = "skip"
      BY <2>2 DEF Skip, At
    <3>2. b # 1
      <4>1. SUFFICES ASSUME b = 1
                     PROVE  FALSE
        OBVIOUS
      <4>2. e = Overhead + loc[p].len /\ rx[e].crc # <<>> /\ rx[e].crc = loc[p].covered
        BY <1>4, <3>1, <4>1, HeadWhole DEF Checked
      <4> QED BY <3>1, <4>2 DEF Control, Knows
    <3> QED BY <2>1, <2>2, <3>2
  <2>3. CASE ~(Skip(p) /\ k = 1)
    <3>1. \A i \in 1 .. k : rx[i].val # STX
      <4>1. CASE Clear(p) /\ k = Len(rx)
        <5>1. rx \in Seq(Bytes) /\ DOMAIN rx = 1 .. Len(rx)
          BY BufferTypes
        <5> QED BY <4>1, <5>1 DEF Clear, At, Control, Knows
      <4>2. CASE Trim(p) /\ k = loc[p].idx
        BY <4>2 DEF Trim, At, Control, Knows
      <4> QED BY <2>3, <4>1, <4>2
    <3>2. \A i \in 1 .. k : s[i] = rx[i]
      BY <1>1, <1>3
    <3> HIDE DEF b, s
    <3>3. ~(b \in 1 .. k)
      BY <2>1, <3>1, <3>2
    <3> QED BY <1>1, <2>1, <3>3 DEF b
  <2> QED BY <2>2, <2>3
<1>5. ASSUME NEW n, NEW e, WholeAt(s, e, n)
      PROVE  \E d : WholeAt(t, d, n)
  <2>1. Start(s, e) > k
    BY <1>4, <1>5
  <2> HIDE DEF s, t, m
  <2> QED BY <1>1, <1>5, <2>1, DropWhole
<1>6. ASSUME faults' <= Overhead, NEW n \in DOMAIN sent' \ damaged'
      PROVE  Kept(p, n)'
  <2>1. Kept(p, n)
    BY <1>1, <1>6 DEF AllKept
  <2> QED BY <1>1, <1>2, <1>5, <2>1, KeptMoved
<1> QED BY <1>6 DEF AllKept

\* With a frame taken, one of those before it is lost only to garbage that a
\* CRC fits: to the frame taken itself, fewer of whose bytes were lost than the
\* shortest frame has.
LEMMA TakeKept ==
    ASSUME General, General', NEW p \in Pollers, Control(p), InOrder(p),
           AllKept(p), Take(p)
    PROVE  AllKept(p)'
<1> DEFINE s == Stream(p)
           t == Stream(p)'
           m == Len(s)
           k == Overhead + loc[p].len
<1>1. /\ s \in Seq(Bytes) /\ t \in Seq(Bytes) /\ m \in Nat
      /\ DOMAIN s = 1 .. m /\ DOMAIN t = 1 .. m - k
      /\ k \in 0 .. Len(rx) /\ k \in Nat /\ Len(rx) \in Nat /\ Len(rx) <= m
      /\ \A j \in DOMAIN t : t[j] = s[j + k]
      /\ UNCHANGED <<got, sent, damaged, faults>>
  BY DropStep
<1>2. pc[p] = "take" /\ pc'[p] = "deliver" /\ loc'[p] = loc[p]
  BY Moved DEF Take, At, Go
<1>3. /\ rx[k].crc # <<>> /\ rx[k].crc = loc[p].covered
      /\ rx[k].frame = loc[p].frame /\ Len(loc[p].covered) = k - 2
  BY <1>2 DEF Control, Knows, Checked
<1>4. k \in Nat \ {0}
  BY FramingAssumption, LengthType
<1>5. k \in 1 .. m /\ s[k] = rx[k]
  <2>1. k \in 1 .. Len(rx)
    BY <1>1, <1>4
  <2> QED BY <1>1, <2>1, Streams
<1>6. faults \in Nat
  BY FramingAssumption DEF General, TypeOK, FramingAssumption
<1>7. Spaced(s, faults)
  BY DEF InOrder
<1>8. ASSUME faults <= Overhead, NEW n, NEW e, WholeAt(s, e, n), n # loc[p].frame
      PROVE  Start(s, e) > k
  <2> DEFINE b == Start(s, e)
             c == Len(s[e].crc)
  <2>1. /\ b \in Nat /\ b >= 1 /\ e \in 1 .. m /\ c \in Nat /\ e = b + c + 1
        /\ e \in DOMAIN s /\ s[e].frame = n /\ s[e].crc # <<>>
        /\ \A i \in b .. e : s[i].frame = n
    <3>1. /\ e \in DOMAIN s /\ s[e].crc # <<>>
          /\ \A i \in b .. e : s[i].frame = n
      BY <1>8 DEF WholeAt
    <3> QED BY <1>1, <1>8, <3>1, WholeFacts
  <2>2. s[k].frame # n
    BY <1>3, <1>5, <1>8
  <2>3. c >= 3
    <3>1. Good(s[e], sent)
      BY <2>1, Streams DEF Goods
    <3>2. PICK y \in Byte : s[e].crc = Covered(sent[s[e].frame], y)
      BY <2>1, <3>1 DEF Good
    <3>3. sent[s[e].frame] \in Messages
      BY <2>1, <3>1, SMTT(30) DEF Good, General, TypeOK
    <3>4. \E x \in Nat : c = 3 + x
      BY <3>2, <3>3, FramingAssumption, CoveredType
    <3> HIDE DEF c
    <3> QED BY <3>4
  <2>4. b = 1 => e = k
    BY <1>2, <1>8, HeadWhole DEF Checked
  <2>5. e < k => Len(s[k].crc) + 2 <= k - e + faults
    BY <1>1, <1>3, <1>5, <1>7, <2>1 DEF Spaced
  <2>6. Len(s[k].crc) = k - 2
    BY <1>3, <1>5
  <2> DEFINE z == Len(s[k].crc)
  <2>7. z = k - 2 /\ (e < k => z + 2 <= k - e + faults)
    BY <2>5, <2>6
  <2> HIDE DEF b, c, s, m, k, z
  <2>8. ~(e < k)
    <3>1. SUFFICES ASSUME e < k
                   PROVE  FALSE
      OBVIOUS
    <3>2. b >= 2
      BY <2>1, <2>4, <3>1
    <3>3. e >= 6
      BY <2>1, <2>3, <3>2
    <3> QED BY <1>1, <1>6, <1>8, <2>1, <2>7, <3>1, <3>3 DEF Overhead
  <2>9. ~(k \in b .. e)
    BY <2>1, <2>2
  <2> QED BY <1>1, <2>1, <2>8, <2>9 DEF b
<1>9. ASSUME faults' <= Overhead, NEW n \in DOMAIN sent' \ damaged'
      PROVE  Kept(p, n)'
  <2>1. Kept(p, n)
    BY <1>1, <1>9 DEF AllKept
  <2>2. CASE n = loc[p].frame
    BY <1>2, <2>2 DEF Kept
  <2>3. CASE Arrived(n)
    BY <1>1, <2>3 DEF Kept, Arrived
  <2>4. CASE n # loc[p].frame /\ \E e : WholeAt(s, e, n)
    <3>1. PICK e : WholeAt(s, e, n)
      BY <2>4
    <3>2. Start(s, e) > k
      BY <1>1, <1>8, <1>9, <2>4, <3>1
    <3>3. \E d : WholeAt(t, d, n)
      <4> HIDE DEF s, t, m, k
      <4> QED BY <1>1, <3>1, <3>2, DropWhole
    <3> QED BY <3>3 DEF Kept
  <2> QED BY <1>2, <2>1, <2>2, <2>3, <2>4 DEF Kept
<1> QED BY <1>9 DEF AllKept

LEMMA DeliverKept ==
    ASSUME General, General', NEW p \in Pollers, Control(p), AllKept(p), Deliver(p)
    PROVE  AllKept(p)'
<1> DEFINE f == loc[p].frame
           g == [place |-> f, message |-> Told[f]]
<1>1. got' = Append(got, g)
  BY FramingAssumption, DeliverTrue
<1>2. /\ pc[p] = "deliver" /\ loc'[p].chunk = <<>>
      /\ UNCHANGED <<rx, air, sent, damaged, faults>>
  <2>1. loc'[p] = Fresh
    BY Moved DEF Deliver
  <2> QED BY <2>1 DEF Deliver, At, history, Fresh
<1>3. Stream(p)' = Stream(p)
  BY <1>2 DEF Control, Knows, Stream, Ahead
<1>4. \A n : Arrived(n) \/ n = f => Arrived(n)'
  <2>1. \E S : got \in Seq(S)
    BY DEF General, TypeOK
  <2> HIDE DEF g
  <2>2. /\ Len(got) + 1 \in DOMAIN got' /\ got'[Len(got) + 1] = g
        /\ \A i \in DOMAIN got : i \in DOMAIN got' /\ got'[i] = got[i]
    <3>1. PICK S : got \in Seq(S)
      BY <2>1
    <3>2. got \in Seq(S \cup {g}) /\ g \in S \cup {g}
      BY <3>1
    <3> QED BY <1>1, <3>2
  <2>3. g.place = f
    BY DEF g
  <2> QED BY <2>2, <2>3 DEF Arrived
<1>5. ASSUME faults' <= Overhead, NEW n \in DOMAIN sent' \ damaged'
      PROVE  Kept(p, n)'
  <2>1. Kept(p, n)
    BY <1>2, <1>5 DEF AllKept
  <2> QED BY <1>3, <1>4, <2>1 DEF Kept
<1> QED BY <1>5 DEF AllKept

LEMMA PollKept ==
    ASSUME General, General', NEW p \in Pollers, Control(p), InOrder(p), AllKept(p),
           Poll(p)
    PROVE  AllKept(p)'
<1>1. CASE Looks(p)
  <2>1. /\ Stream(p)' = Stream(p) /\ UNCHANGED <<got, sent, damaged, faults>>
        /\ pc[p] # "deliver"
    BY <1>1, LookStep
  <2>2. ASSUME faults' <= Overhead, NEW n \in DOMAIN sent' \ damaged'
        PROVE  Kept(p, n)'
    <3>1. Kept(p, n)
      BY <2>1, <2>2 DEF AllKept
    <3> QED BY <2>1, <3>1, KeptMoved
  <2> QED BY <2>2 DEF AllKept
<1>2. CASE Clear(p) \/ Trim(p) \/ Skip(p)
  BY <1>2, DropKept
<1>3. CASE Take(p)
  BY <1>3, TakeKept
<1>4. CASE Deliver(p)
  BY <1>4, DeliverKept
<1> QED BY <1>1, <1>2, <1>3, <1>4 DEF Poll, Looks

LEMMA KeptStep ==
    ASSUME NEW p, Pollers = {p}, One(p), AllKept(p), [Next]_vars
    PROVE  AllKept(p)'
<1>1. p \in Pollers /\ General /\ Control(p) /\ InOrder(p)
  BY DEF One
<1>2. General'
  BY <1>1, FramingAssumption, GeneralStep
<1>3. CASE UNCHANGED vars
  <2>1. Stream(p)' = Stream(p)
    BY <1>3 DEF vars, Stream, Ahead
  <2> QED BY <1>3, <2>1 DEF vars, AllKept, Kept, Arrived
<1>4. CASE \E m \in Messages : Send(m)
  BY <1>1, <1>2, <1>4, SendKept
<1>5. CASE \/ \E i \in DOMAIN air : Lose(i)
           \/ \E i \in DOMAIN air, v \in Byte : Change(i, v)
           \/ \E i \in 1 .. Len(air) + 1, v \in Byte : Insert(i, v)
  BY <1>1, <1>2, <1>5, FaultKept
<1>6. CASE Poll(p)
  BY <1>1, <1>2, <1>6, PollKept
<1> QED BY <1>3, <1>4, <1>5, <1>6 DEF Next

\* A frame whole in the stream has its CRC in the buffer, the chunk or the air.
LEMMA WholeSomewhere ==
    ASSUME General, NEW p \in Pollers, NEW e, NEW n, WholeAt(Stream(p), e, n)
    PROVE  HasCrc(air, n) \/ HasCrc(rx, n) \/ HasCrc(loc[p].chunk, n)
<1> DEFINE s == Stream(p)
           a == Len(rx)
           b == Len(loc[p].chunk)
           c == Len(air)
<1>1. /\ DOMAIN s = 1 .. (a + b) + c /\ a \in Nat /\ b \in Nat /\ c \in Nat
      /\ \A i \in 1 .. c : s[(a + b) + i] = air[i]
      /\ \A i \in 1 .. a : s[i] = rx[i]
      /\ \A i \in 1 .. b : s[a + i] = loc[p].chunk[i]
  BY Streams
<1>2. /\ DOMAIN rx = 1 .. a /\ DOMAIN loc[p].chunk = 1 .. b /\ DOMAIN air = 1 .. c
  <2>1. /\ rx \in Seq(Bytes) /\ loc[p].chunk \in Seq(Bytes) /\ air \in Seq(Bytes)
    BY BufferTypes, LocalTypes
  <2> QED BY <2>1
<1>3. e \in DOMAIN s /\ s[e].crc # <<>> /\ s[e].frame = n
  BY DEF WholeAt
<1> HIDE DEF s, a, b, c
<1>4. e \in 1 .. (a + b) + c
  BY <1>1, <1>3
<1>5. CASE e <= a
  <2>1. e \in 1 .. a
    BY <1>1, <1>4, <1>5
  <2> QED BY <1>1, <1>2, <1>3, <2>1 DEF HasCrc
<1>6. CASE e > a /\ e <= a + b
  <2>1. e - a \in 1 .. b /\ a + (e - a) = e
    BY <1>1, <1>4, <1>6
  <2>2. s[a + (e - a)] = loc[p].chunk[e - a]
    BY <1>1, <2>1
  <2> QED BY <1>2, <1>3, <2>1, <2>2 DEF HasCrc
<1>7. CASE e > a + b
  <2>1. e - (a + b) \in 1 .. c /\ (a + b) + (e - (a + b)) = e
    BY <1>1, <1>4, <1>7
  <2>2. s[(a + b) + (e - (a + b))] = air[e - (a + b)]
    BY <1>1, <2>1
  <2> QED BY <1>2, <1>3, <2>1, <2>2 DEF HasCrc
<1> QED BY <1>1, <1>4, <1>5, <1>6, <1>7

\* With one poller, and no more faults than a frame has bytes besides its
\* payload, a frame that reached the receiver with all its bytes is never
\* dropped: neither with garbage before it nor as part of another frame.
THEOREM NothingDroppedAlways ==
    ASSUME NEW p, Pollers = {p}
    PROVE  Spec => []NothingDropped
<1>1. Init => One(p) /\ AllKept(p)
  <2>1. p \in Pollers
    OBVIOUS
  <2>2. Init => DOMAIN sent = {}
    BY DEF Init
  <2> QED BY <2>1, <2>2, OneInit DEF AllKept
<1>2. One(p) /\ AllKept(p) /\ [Next]_vars => One(p)' /\ AllKept(p)'
  BY OneStep, KeptStep
<1>3. ASSUME One(p), AllKept(p)
      PROVE  NothingDropped
  <2>1. General /\ p \in Pollers
    BY <1>3 DEF One
  <2>2. ASSUME faults <= Overhead, NEW n \in DOMAIN sent \ damaged
        PROVE  \/ Arrived(n) \/ HasCrc(air, n) \/ HasCrc(rx, n)
               \/ HasCrc(loc[p].chunk, n)
               \/ At(p, "deliver") /\ loc[p].frame = n
    <3>1. Kept(p, n)
      BY <1>3, <2>2 DEF AllKept
    <3>2. CASE \E e : WholeAt(Stream(p), e, n)
      <4>1. PICK e : WholeAt(Stream(p), e, n)
        BY <3>2
      <4>2. HasCrc(air, n) \/ HasCrc(rx, n) \/ HasCrc(loc[p].chunk, n)
        BY <2>1, <4>1, WholeSomewhere
      <4> QED BY <4>2
    <3>3. CASE pc[p] = "deliver" /\ loc[p].frame = n
      BY <3>3 DEF At
    <3> QED BY <3>1, <3>2, <3>3 DEF Kept
  <2>3. ASSUME faults <= Overhead, NEW n \in DOMAIN sent \ damaged
        PROVE  \/ Arrived(n) \/ HasCrc(air, n) \/ HasCrc(rx, n)
               \/ \E q \in Pollers : \/ HasCrc(loc[q].chunk, n)
                                     \/ At(q, "deliver") /\ loc[q].frame = n
    BY <2>1, <2>2, <2>3
  <2> QED BY <2>3 DEF NothingDropped
<1> QED BY <1>1, <1>2, <1>3, PTL DEF Spec
=============================================================================
