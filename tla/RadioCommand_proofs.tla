------------------------- MODULE RadioCommand_proofs -------------------------
(***************************************************************************)
(* For any number of callers, followers, restarts and calls, and any width *)
(* of the sequence number: a success is honest unless two calls have       *)
(* shared a number, and the table of pending acks does not leak.           *)
(***************************************************************************)
EXTENDS RadioCommand, TLAPS

Made(k) == k \in 1 .. issued

\* A caller past "idle" owns a ticket that no other caller owns, still open.
CallersOwn ==
    \A c \in Callers :
        /\ mine[c] = None <=> pc[c] = "idle"
        /\ result[c] => pc[c] = "pop"
        /\ mine[c] # None => Made(mine[c]) /\ status[mine[c]] = "open"
        /\ \A b \in Callers : mine[c] # None /\ mine[b] = mine[c] => b = c

\* A call of number n was carried out.
Backed(n) == \E j \in executed : Made(j) /\ object[j].seq = n

\* A command frame carries the number of its call, and an ack of success, on
\* its way or looked up, the number of a call that was carried out.
FramesTrue ==
    /\ \A m \in down : Made(m.ticket) /\ m.seq = object[m.ticket].seq
    /\ \A a \in up : a.ok => Backed(a.seq)
    /\ \A f \in found : /\ Made(f.ticket)
                        /\ f.ok => Backed(object[f.ticket].seq)

\* An entry is filed under the number of its ticket.
PendingFiled ==
    \A s \in Seqs : pending[s] # None =>
        Made(pending[s]) /\ object[pending[s]].seq = s

\* Success on its way from the ack to the client, and told.
SuccessBacked ==
    /\ \A k \in Tickets : object[k].success \/ status[k] = "ok" =>
                            Made(k) /\ Backed(object[k].seq)
    /\ \A c \in Callers : result[c] /\ mine[c] # None
                                => Backed(object[mine[c]].seq)

TicketsMade ==
    /\ executed \subseteq 1 .. issued
    /\ \A k \in Tickets : /\ status[k] = "unused" <=> ~Made(k)
                          /\ Made(k) => object[k].drone \in Followers

IInv == /\ TypeOK /\ CallersOwn /\ FramesTrue /\ PendingFiled
        /\ SuccessBacked /\ TicketsMade /\ PendingHasCaller

LEMMA Numbers ==
    /\ SeqMod \in Nat \ {0} /\ MaxCommands \in Nat /\ MaxRestarts \in Nat
    /\ 0 \in Seqs /\ None \notin Tickets
    /\ \A n \in Nat : n % SeqMod \in Seqs
    /\ Seqs \subseteq Nat /\ Tickets \subseteq Nat /\ Unmade \in Objects
  BY RadioAssumption DEF Seqs, Tickets, Unmade, Objects

\* A call of a number stays carried out.
LEMMA BackedStays ==
  ASSUME executed \subseteq executed',
         \A j : Made(j) => Made(j)' /\ object'[j].seq = object[j].seq,
         NEW n, Backed(n)
  PROVE  Backed(n)'
  BY DEF Backed

LEMMA InitIInv == Init => IInv
<1> SUFFICES ASSUME Init PROVE IInv
  OBVIOUS
<1>1. TypeOK
  BY Numbers DEF Init, TypeOK, Steps
<1>2. CallersOwn /\ FramesTrue /\ PendingFiled
  BY Numbers DEF Init, CallersOwn, FramesTrue, PendingFiled, Made
<1>3. SuccessBacked
  BY Numbers DEF Init, SuccessBacked, Unmade
<1>4. TicketsMade
  BY Numbers DEF Init, TicketsMade, Made
<1>5. PendingHasCaller
  BY Numbers DEF Init, PendingHasCaller
<1> QED  BY <1>1, <1>2, <1>3, <1>4, <1>5 DEF IInv

LEMMA BeginIInv ==
  ASSUME IInv, NEW c \in Callers, Begin(c)
  PROVE  IInv'
<1> USE DEF bridge, callers, radio, history, At, Go, SeqOf
<1>1. /\ TypeOK /\ CallersOwn /\ FramesTrue /\ PendingFiled
      /\ SuccessBacked /\ TicketsMade /\ PendingHasCaller
  BY DEF IInv
<1> DEFINE k == issued + 1
<1>0. PICK d \in Followers :
        object' = [object EXCEPT ![k] = [seq |-> txSeq, drone |-> d,
                                         success |-> FALSE, set |-> FALSE]]
  BY DEF Begin
<1>a. k \in Tickets /\ ~Made(k) /\ issued' = k /\ k # None
  <2>1. issued \in 0 .. MaxCommands /\ issued < MaxCommands /\ issued' = k
    BY <1>1 DEF Begin, TypeOK
  <2>2. k \in Tickets /\ ~Made(k)
    BY <2>1, Numbers DEF Tickets, Made
  <2> QED  BY <2>1, <2>2, Numbers
<1>b. /\ mine' = [mine EXCEPT ![c] = k]
      /\ status' = [status EXCEPT ![k] = "open"]
      /\ pc' = [pc EXCEPT ![c] = "load"] /\ pc[c] = "idle"
      /\ UNCHANGED <<txSeq, pending, found, bump, result, radio, restarts,
                     executed>>
  BY <1>a DEF Begin
<1>c. /\ \A j \in Tickets : j # k => object'[j] = object[j]
      /\ object'[k].success = FALSE /\ object'[k].drone = d
  BY <1>0, <1>1, <1>a DEF TypeOK
<1>d. /\ \A j : Made(j) => Made(j)' /\ j # k /\ object'[j] = object[j]
      /\ \A j : Made(j)' <=> Made(j) \/ j = k
  <2>1. issued \in 0 .. MaxCommands
    BY <1>1 DEF TypeOK
  <2>2. \A j : Made(j)' <=> Made(j) \/ j = k
    BY <1>a, <2>1, Numbers DEF Made
  <2>3. \A j : Made(j) => j \in Tickets
    BY <2>1, Numbers DEF Made, Tickets
  <2> QED  BY <1>a, <1>c, <2>2, <2>3
<1>e. \A n : Backed(n) => Backed(n)'
  BY <1>b, <1>d, BackedStays
<1>f. mine[c] = None /\ result[c] = FALSE
  BY <1>1, <1>b, Zenon DEF CallersOwn, TypeOK
<1>2. TypeOK'
  <2>1. [seq |-> txSeq, drone |-> d, success |-> FALSE, set |-> FALSE]
          \in Objects
    BY <1>1 DEF TypeOK, Objects
  <2>2. object' \in [Tickets -> Objects]
    BY <1>0, <1>1, <1>a, <2>1 DEF TypeOK
  <2>3. issued' \in 0 .. MaxCommands
    BY <1>a, Numbers DEF Tickets
  <2> QED  BY <1>1, <1>a, <1>b, <2>2, <2>3 DEF TypeOK, Steps
<1>3. CallersOwn'
  <2>1. ~Made(k) /\ k \in 1 .. issued'
    BY <1>a, Numbers DEF Tickets
  <2> QED  BY <1>1, <1>a, <1>b, <1>d, <1>f, <2>1
           DEF CallersOwn, TypeOK, Made
<1>4. FramesTrue'
  BY <1>1, <1>b, <1>d, <1>e DEF FramesTrue
<1>5. PendingFiled'
  BY <1>1, <1>b, <1>d DEF PendingFiled
<1>6. SuccessBacked'
  <2>1. \A j \in Tickets : object'[j].success \/ status'[j] = "ok" =>
                            Made(j) /\ Backed(object[j].seq)
    BY <1>1, <1>a, <1>b, <1>c DEF SuccessBacked, TypeOK
  <2>2. \A j \in Tickets : (object[j].success \/ status[j] = "ok")' =>
                            Made(j)' /\ Backed(object[j].seq)'
    BY <1>b, <1>d, <2>1 DEF Backed
  <2>3. \A b \in Callers : result'[b] /\ mine'[b] # None =>
                             b # c /\ Made(mine[b]) /\ mine'[b] = mine[b]
                             /\ Backed(object[mine[b]].seq)
    BY <1>1, <1>b, <1>f DEF SuccessBacked, CallersOwn, TypeOK
  <2>4. \A b \in Callers : result'[b] /\ mine'[b] # None =>
                             Backed(object[mine[b]].seq)'
    BY <1>b, <1>d, <2>3 DEF Backed
  <2> QED  BY <2>2, <2>4 DEF SuccessBacked
<1>7. TicketsMade'
  <2>1. executed' \subseteq 1 .. issued'
    BY <1>1, <1>b, <1>d DEF TicketsMade, Made
  <2>2. ASSUME NEW j \in Tickets
        PROVE  (/\ status[j] = "unused" <=> ~Made(j)
                /\ Made(j) => object[j].drone \in Followers)'
    BY <1>1, <1>a, <1>b, <1>c, <1>d DEF TicketsMade, TypeOK
  <2> QED  BY <2>1, <2>2 DEF TicketsMade
<1>8. PendingHasCaller'
  BY <1>1, <1>a, <1>b DEF TypeOK, PendingHasCaller
<1> QED  BY <1>2, <1>3, <1>4, <1>5, <1>6, <1>7, <1>8 DEF IInv

LEMMA LoadIInv ==
  ASSUME IInv, NEW c \in Callers, Load(c)
  PROVE  IInv'
<1> USE DEF bridge, callers, radio, history, At, Go, SeqOf
<1>1. /\ TypeOK /\ CallersOwn /\ FramesTrue /\ PendingFiled
      /\ SuccessBacked /\ TicketsMade /\ PendingHasCaller
  BY DEF IInv
<1>2. TypeOK'
  BY <1>1, Numbers DEF Load, TypeOK, Steps
<1>3. CallersOwn'
  BY <1>1, Numbers DEF Load, TypeOK, CallersOwn, Made
<1>4. FramesTrue'
  BY <1>1 DEF Load, FramesTrue, Backed, Made
<1>5. PendingFiled'
  BY <1>1, Numbers DEF Load, TypeOK, PendingFiled, Made
<1>6. SuccessBacked'
  BY <1>1 DEF Load, TypeOK, SuccessBacked, Backed, Made
<1>7. TicketsMade'
  BY <1>1, Numbers DEF Load, TypeOK, TicketsMade, Made
<1>8. PendingHasCaller'
  BY <1>1, Numbers DEF Load, TypeOK, PendingHasCaller
<1> QED  BY <1>2, <1>3, <1>4, <1>5, <1>6, <1>7, <1>8 DEF IInv

LEMMA StoreIInv ==
  ASSUME IInv, NEW c \in Callers, Store(c)
  PROVE  IInv'
<1> USE DEF bridge, callers, radio, history, At, Go, SeqOf
<1>1. /\ TypeOK /\ CallersOwn /\ FramesTrue /\ PendingFiled
      /\ SuccessBacked /\ TicketsMade /\ PendingHasCaller
  BY DEF IInv
<1>2. TypeOK'
  BY <1>1, Numbers DEF Store, TypeOK, Steps
<1>3. CallersOwn'
  BY <1>1, Numbers DEF Store, TypeOK, CallersOwn, Made
<1>4. FramesTrue'
  BY <1>1 DEF Store, FramesTrue, Backed, Made
<1>5. PendingFiled'
  BY <1>1, Numbers DEF Store, TypeOK, PendingFiled, Made
<1>6. SuccessBacked'
  BY <1>1 DEF Store, TypeOK, SuccessBacked, Backed, Made
<1>7. TicketsMade'
  BY <1>1, Numbers DEF Store, TypeOK, TicketsMade, Made
<1>8. PendingHasCaller'
  BY <1>1, Numbers DEF Store, TypeOK, PendingHasCaller
<1> QED  BY <1>2, <1>3, <1>4, <1>5, <1>6, <1>7, <1>8 DEF IInv

LEMMA RegisterIInv ==
  ASSUME IInv, NEW c \in Callers, Register(c)
  PROVE  IInv'
<1> USE DEF bridge, callers, radio, history, At, Go, SeqOf
<1>1. /\ TypeOK /\ CallersOwn /\ FramesTrue /\ PendingFiled
      /\ SuccessBacked /\ TicketsMade /\ PendingHasCaller
  BY DEF IInv
<1>2. TypeOK'
  BY <1>1, Numbers DEF Register, TypeOK, Steps
<1>3. CallersOwn'
  BY <1>1, Numbers DEF Register, TypeOK, CallersOwn, Made
<1>4. FramesTrue'
  BY <1>1 DEF Register, FramesTrue, Backed, Made
<1>5. PendingFiled'
  <2>1. mine[c] # None /\ Made(mine[c])
    BY <1>1 DEF Register, CallersOwn
  <2>2. /\ pending' = [pending EXCEPT ![object[mine[c]].seq] = mine[c]]
        /\ UNCHANGED <<object, issued>>
    BY DEF Register
  <2> QED  BY <1>1, <2>1, <2>2 DEF TypeOK, PendingFiled, Made
<1>6. SuccessBacked'
  BY <1>1 DEF Register, TypeOK, SuccessBacked, Backed, Made
<1>7. TicketsMade'
  BY <1>1, Numbers DEF Register, TypeOK, TicketsMade, Made
<1>8. PendingHasCaller'
  BY <1>1, Numbers DEF Register, TypeOK, PendingHasCaller
<1> QED  BY <1>2, <1>3, <1>4, <1>5, <1>6, <1>7, <1>8 DEF IInv

LEMMA SendIInv ==
  ASSUME IInv, NEW c \in Callers, Send(c)
  PROVE  IInv'
<1> USE DEF bridge, callers, radio, history, At, Go, SeqOf
<1>1. /\ TypeOK /\ CallersOwn /\ FramesTrue /\ PendingFiled
      /\ SuccessBacked /\ TicketsMade /\ PendingHasCaller
  BY DEF IInv
<1> DEFINE m == [drone |-> object[mine[c]].drone, seq |-> object[mine[c]].seq,
                 ticket |-> mine[c]]
<1>0. mine[c] \in Tickets /\ Made(mine[c]) /\ down' = down \cup {m}
  BY <1>1 DEF Send, CallersOwn, TypeOK
<1>2. TypeOK'
  <2>1. m \in Commands
    BY <1>0, <1>1 DEF TypeOK, Commands, Objects, TicketsMade
  <2> QED  BY <1>0, <1>1, <2>1 DEF Send, TypeOK, Steps
<1>3. CallersOwn'
  BY <1>1, Numbers DEF Send, TypeOK, CallersOwn, Made
<1>4. FramesTrue'
  BY <1>0, <1>1 DEF Send, FramesTrue, Backed, Made
<1>5. PendingFiled'
  BY <1>1, Numbers DEF Send, TypeOK, PendingFiled, Made
<1>6. SuccessBacked'
  BY <1>1 DEF Send, TypeOK, SuccessBacked, Backed, Made
<1>7. TicketsMade'
  BY <1>1, Numbers DEF Send, TypeOK, TicketsMade, Made
<1>8. PendingHasCaller'
  BY <1>1, Numbers DEF Send, TypeOK, PendingHasCaller
<1> QED  BY <1>2, <1>3, <1>4, <1>5, <1>6, <1>7, <1>8 DEF IInv

LEMMA AnsweredIInv ==
  ASSUME IInv, NEW c \in Callers, Answered(c)
  PROVE  IInv'
<1> USE DEF bridge, callers, radio, history, At, Go, SeqOf
<1>1. /\ TypeOK /\ CallersOwn /\ FramesTrue /\ PendingFiled
      /\ SuccessBacked /\ TicketsMade /\ PendingHasCaller
  BY DEF IInv
<1>0. /\ mine[c] \in Tickets /\ object[mine[c]].success \in BOOLEAN
      /\ result' = [result EXCEPT ![c] = object[mine[c]].success]
      /\ UNCHANGED <<mine, object, issued, executed, status>>
  BY <1>1 DEF Answered, CallersOwn, TypeOK, Objects
<1>2. TypeOK'
  <2>1. result' \in [Callers -> BOOLEAN]
    BY <1>0, <1>1, Zenon DEF TypeOK
  <2> QED  BY <1>1, <2>1 DEF Answered, TypeOK, Steps
<1>3. CallersOwn'
  BY <1>1, Numbers DEF Answered, TypeOK, CallersOwn, Made
<1>4. FramesTrue'
  BY <1>1 DEF Answered, FramesTrue, Backed, Made
<1>5. PendingFiled'
  BY <1>1, Numbers DEF Answered, TypeOK, PendingFiled, Made
<1>6. SuccessBacked'
  <2>1. \A b \in Callers : result'[b] =>
          result[b] \/ (b = c /\ object[mine[c]].success)
    BY <1>0, <1>1, Zenon DEF TypeOK
  <2> QED  BY <1>0, <1>1, <2>1 DEF SuccessBacked, Backed, Made
<1>7. TicketsMade'
  BY <1>1, Numbers DEF Answered, TypeOK, TicketsMade, Made
<1>8. PendingHasCaller'
  BY <1>1, Numbers DEF Answered, TypeOK, PendingHasCaller
<1> QED  BY <1>2, <1>3, <1>4, <1>5, <1>6, <1>7, <1>8 DEF IInv

LEMMA TimeoutIInv ==
  ASSUME IInv, NEW c \in Callers, Timeout(c)
  PROVE  IInv'
<1> USE DEF bridge, callers, radio, history, At, Go, SeqOf
<1>1. /\ TypeOK /\ CallersOwn /\ FramesTrue /\ PendingFiled
      /\ SuccessBacked /\ TicketsMade /\ PendingHasCaller
  BY DEF IInv
<1>2. TypeOK'
  BY <1>1, Numbers DEF Timeout, TypeOK, Steps
<1>3. CallersOwn'
  BY <1>1, Numbers DEF Timeout, TypeOK, CallersOwn, Made
<1>4. FramesTrue'
  BY <1>1 DEF Timeout, FramesTrue, Backed, Made
<1>5. PendingFiled'
  BY <1>1, Numbers DEF Timeout, TypeOK, PendingFiled, Made
<1>6. SuccessBacked'
  BY <1>1 DEF Timeout, TypeOK, SuccessBacked, Backed, Made
<1>7. TicketsMade'
  BY <1>1, Numbers DEF Timeout, TypeOK, TicketsMade, Made
<1>8. PendingHasCaller'
  BY <1>1, Numbers DEF Timeout, TypeOK, PendingHasCaller
<1> QED  BY <1>2, <1>3, <1>4, <1>5, <1>6, <1>7, <1>8 DEF IInv

LEMMA PopIInv ==
  ASSUME IInv, NEW c \in Callers, Pop(c)
  PROVE  IInv'
<1> USE DEF bridge, callers, radio, history, At, Go, SeqOf
<1>1. /\ TypeOK /\ CallersOwn /\ FramesTrue /\ PendingFiled
      /\ SuccessBacked /\ TicketsMade /\ PendingHasCaller
  BY DEF IInv
<1>0. mine[c] \in Tickets /\ Made(mine[c])
  BY <1>1 DEF Pop, CallersOwn, TypeOK
<1>2. TypeOK'
  BY <1>1, Numbers DEF Pop, TypeOK, Steps
<1>3. CallersOwn'
  BY <1>1, Numbers DEF Pop, TypeOK, CallersOwn, Made
<1>4. FramesTrue'
  BY <1>1 DEF Pop, FramesTrue, Backed, Made
<1>5. PendingFiled'
  BY <1>1, Numbers DEF Pop, TypeOK, PendingFiled, Made
<1>6. SuccessBacked'
  <2>1. \A k \in Tickets : status'[k] = "ok" =>
          status[k] = "ok" \/ (k = mine[c] /\ result[c])
    BY <1>0, <1>1 DEF Pop, TypeOK
  <2>2. \A b \in Callers : result'[b] /\ mine'[b] # None =>
          b # c /\ result[b] /\ mine'[b] = mine[b]
    BY <1>1, Zenon DEF Pop, TypeOK
  <2>3. UNCHANGED <<object, issued, executed>>
    BY DEF Pop
  <2> QED  BY <1>0, <1>1, <2>1, <2>2, <2>3, Numbers
           DEF SuccessBacked, Backed, Made
<1>7. TicketsMade'
  BY <1>0, <1>1 DEF Pop, TypeOK, TicketsMade, Made
<1>8. PendingHasCaller'
  <2> SUFFICES ASSUME NEW s \in Seqs, pending'[s] # None
               PROVE  \E b \in Callers : /\ mine'[b] = pending'[s]
                                         /\ pc'[b] \in {"send", "wait", "pop"}
    BY DEF PendingHasCaller
  <2>1. pending' = [pending EXCEPT ![object[mine[c]].seq] = None]
    BY DEF Pop
  <2>2. pending'[s] = pending[s] /\ s # object[mine[c]].seq
    BY <1>1, <2>1 DEF TypeOK
  <2>3. PICK b \in Callers : /\ mine[b] = pending[s]
                             /\ pc[b] \in {"send", "wait", "pop"}
    BY <1>1, <2>2 DEF PendingHasCaller
  <2>4. object[pending[s]].seq = s
    BY <1>1, <2>2 DEF PendingFiled
  <2>5. b # c
    BY <2>2, <2>3, <2>4
  <2> QED  BY <1>1, <2>2, <2>3, <2>5 DEF Pop, TypeOK
<1> QED  BY <1>2, <1>3, <1>4, <1>5, <1>6, <1>7, <1>8 DEF IInv

LEMMA LookupIInv ==
  ASSUME IInv, NEW a \in up, Lookup(a)
  PROVE  IInv'
<1> USE DEF callers, radio, history
<1>1. /\ TypeOK /\ CallersOwn /\ FramesTrue /\ PendingFiled
      /\ SuccessBacked /\ TicketsMade /\ PendingHasCaller
  BY DEF IInv
<1> DEFINE f == [ticket |-> pending[a.seq], ok |-> a.ok]
<1>2. a \in Acks /\ pending[a.seq] \in Tickets \cup {None}
  BY <1>1 DEF TypeOK, Acks
<1>3. \A g \in found' : g \in found \/ (pending[a.seq] # None /\ g = f)
  BY DEF Lookup
<1>4. TypeOK'
  <2>1. pending[a.seq] # None => f \in Lookups
    BY <1>2 DEF Acks, Lookups
  <2>2. found' \in SUBSET Lookups
    BY <1>1, <1>3, <2>1 DEF TypeOK
  <2> QED  BY <1>1, <2>2 DEF Lookup, TypeOK
<1>5. FramesTrue'
  <2>1. a.ok => Backed(a.seq)
    BY <1>1 DEF FramesTrue
  <2>2. pending[a.seq] # None => /\ Made(pending[a.seq])
                                 /\ object[pending[a.seq]].seq = a.seq
    BY <1>1, <1>2 DEF PendingFiled, Acks
  <2>3. UNCHANGED <<down, up, object, issued, executed>>
    BY DEF Lookup
  <2> QED  BY <1>1, <1>3, <2>1, <2>2, <2>3 DEF FramesTrue, Backed, Made
<1>6. CallersOwn' /\ PendingFiled' /\ SuccessBacked' /\ TicketsMade'
      /\ PendingHasCaller'
  BY <1>1 DEF Lookup, CallersOwn, PendingFiled, SuccessBacked, TicketsMade,
              PendingHasCaller, Backed, Made
<1> QED  BY <1>4, <1>5, <1>6 DEF IInv

LEMMA ApplyIInv ==
  ASSUME IInv, NEW f \in found, Apply(f)
  PROVE  IInv'
<1> USE DEF callers, radio, history
<1>1. /\ TypeOK /\ CallersOwn /\ FramesTrue /\ PendingFiled
      /\ SuccessBacked /\ TicketsMade /\ PendingHasCaller
  BY DEF IInv
<1>2. /\ f \in Lookups /\ f.ticket \in Tickets /\ f.ok \in BOOLEAN
      /\ Made(f.ticket) /\ (f.ok => Backed(object[f.ticket].seq))
  BY <1>1 DEF TypeOK, Lookups, FramesTrue
<1>3. object' = [object EXCEPT ![f.ticket] =
                   [object[f.ticket] EXCEPT !.success = f.ok, !.set = TRUE]]
  BY <1>1, <1>2 DEF Apply, TypeOK
<1>4. /\ \A k \in Tickets : /\ object'[k].seq = object[k].seq
                            /\ object'[k].drone = object[k].drone
      /\ \A k \in Tickets \ {f.ticket} : object'[k] = object[k]
      /\ object'[f.ticket].success = f.ok /\ found' \subseteq found
      /\ UNCHANGED <<txSeq, pending, issued, callers, radio, restarts, history>>
  BY <1>1, <1>2, <1>3 DEF Apply, TypeOK, Objects
<1>5. \A k : Made(k) => Made(k)' /\ k \in Tickets
                        /\ object'[k].seq = object[k].seq
  BY <1>1, <1>4, Numbers DEF TypeOK, Tickets, Made
<1>6. \A n : Backed(n) => Backed(n)'
  BY <1>4, <1>5, BackedStays
<1>7. TypeOK'
  <2>0. object[f.ticket] \in Objects /\ f.ok \in BOOLEAN
    BY <1>1, <1>2 DEF TypeOK
  <2>1. [object[f.ticket] EXCEPT !.success = f.ok, !.set = TRUE] \in Objects
    BY <2>0 DEF Objects
  <2>2. object' \in [Tickets -> Objects]
    BY <1>1, <1>2, <1>3, <2>1 DEF TypeOK
  <2> QED  BY <1>1, <1>4, <2>2 DEF TypeOK
<1>8. CallersOwn' /\ PendingHasCaller'
  BY <1>1, <1>4 DEF CallersOwn, PendingHasCaller, Made
<1>9. FramesTrue' /\ PendingFiled'
  BY <1>1, <1>4, <1>5, <1>6 DEF FramesTrue, PendingFiled
<1>10. SuccessBacked'
  <2>1. \A k \in Tickets : object'[k].success \/ status'[k] = "ok" =>
                            Made(k) /\ Backed(object[k].seq)
    BY <1>1, <1>2, <1>4 DEF SuccessBacked
  <2>2. \A b \in Callers : result'[b] /\ mine'[b] # None =>
          mine'[b] = mine[b] /\ Made(mine[b]) /\ Backed(object[mine[b]].seq)
    BY <1>1, <1>4 DEF SuccessBacked, CallersOwn
  <2> QED  BY <1>5, <1>6, <2>1, <2>2 DEF SuccessBacked
<1>11. TicketsMade'
  BY <1>1, <1>4 DEF TicketsMade, Made
<1> QED  BY <1>7, <1>8, <1>9, <1>10, <1>11 DEF IInv

LEMMA ExecuteIInv ==
  ASSUME IInv, NEW m \in down, Execute(m)
  PROVE  IInv'
<1> USE DEF bridge, callers
<1>1. /\ TypeOK /\ CallersOwn /\ FramesTrue /\ PendingFiled
      /\ SuccessBacked /\ TicketsMade /\ PendingHasCaller
  BY DEF IInv
<1>2. PICK ran, ok \in BOOLEAN :
        /\ ok => ran
        /\ executed' = IF ran THEN executed \cup {m.ticket} ELSE executed
        /\ up' = up \cup {[drone |-> m.drone, seq |-> m.seq, ok |-> ok]}
        /\ UNCHANGED <<bridge, callers, down, restarts, status>>
  BY DEF Execute
<1>3. m \in Commands /\ Made(m.ticket) /\ m.seq = object[m.ticket].seq
  BY <1>1 DEF TypeOK, FramesTrue
<1>4. \A n : Backed(n) => Backed(n)'
  BY <1>2, BackedStays DEF Made
<1>5. TypeOK'
  <2>1. [drone |-> m.drone, seq |-> m.seq, ok |-> ok] \in Acks
    BY <1>3 DEF Commands, Acks
  <2>2. up' \in SUBSET Acks
    BY <1>1, <1>2, <2>1 DEF TypeOK
  <2>3. executed' \in SUBSET Tickets
    BY <1>1, <1>2, <1>3 DEF TypeOK, Commands
  <2> QED  BY <1>1, <1>2, <2>2, <2>3 DEF TypeOK
<1>6. FramesTrue'
  <2>1. ok => Backed(m.seq)'
    BY <1>2, <1>3 DEF Backed, Made
  <2> QED  BY <1>1, <1>2, <1>4, <2>1 DEF FramesTrue, Made
<1>7. SuccessBacked' /\ TicketsMade'
  BY <1>1, <1>2, <1>3, <1>4 DEF SuccessBacked, TicketsMade, Made
<1>8. CallersOwn' /\ PendingFiled' /\ PendingHasCaller'
  BY <1>1, <1>2 DEF CallersOwn, PendingFiled, PendingHasCaller, Made
<1> QED  BY <1>5, <1>6, <1>7, <1>8 DEF IInv

LEMMA RestartIInv == IInv /\ Restart => IInv'
<1> SUFFICES ASSUME IInv, Restart PROVE IInv'
  OBVIOUS
<1> USE DEF radio
<1>1. TypeOK /\ FramesTrue /\ SuccessBacked /\ TicketsMade
  BY DEF IInv
<1>2. TypeOK'
  <2>1. restarts' \in 0 .. MaxRestarts
    BY <1>1, Numbers DEF Restart, TypeOK
  <2>2. status' \in [Tickets -> {"unused", "open", "ok", "failed"}]
    BY <1>1 DEF Restart, TypeOK
  <2>3. result' \in [Callers -> BOOLEAN]
    BY DEF Restart
  <2> QED  BY <1>1, <2>1, <2>2, <2>3, Numbers DEF Restart, TypeOK, Steps
<1>3. CallersOwn'
  BY DEF Restart, CallersOwn
<1>4. FramesTrue' /\ PendingFiled' /\ PendingHasCaller'
  BY <1>1 DEF Restart, FramesTrue, PendingFiled, PendingHasCaller, Backed, Made
<1>5. SuccessBacked'
  BY <1>1 DEF Restart, SuccessBacked, Backed, Made
<1>6. TicketsMade'
  BY <1>1 DEF Restart, TicketsMade, Made
<1> QED  BY <1>2, <1>3, <1>4, <1>5, <1>6 DEF IInv

LEMMA NextIInv == IInv /\ [Next]_vars => IInv'
<1>1. IInv /\ UNCHANGED vars => IInv'
  BY DEF vars, IInv, TypeOK, CallersOwn, FramesTrue, PendingFiled,
         SuccessBacked, TicketsMade, Backed, Made, PendingHasCaller
<1> QED
  BY <1>1, BeginIInv, LoadIInv, StoreIInv, RegisterIInv, SendIInv,
     AnsweredIInv, TimeoutIInv, PopIInv, LookupIInv, ApplyIInv, ExecuteIInv,
     RestartIInv
  DEF Next, Proceed

LEMMA Invariance == Spec => []IInv
  BY InitIInv, NextIInv, PTL DEF Spec

\* Every field of the bridge keeps its type, and the counter its width.
THEOREM TypeCorrect == Spec => []TypeOK
<1>1. IInv => TypeOK
  BY DEF IInv
<1> QED  BY <1>1, Invariance, PTL

\* Losses, late and repeated frames, refusals, timeouts and restarts never make
\* a success of a command not carried out: two calls must share a number first.
THEOREM SuccessIsHonestAlways == Spec => []SuccessIsHonest
<1>1. IInv => SuccessIsHonest
  BY DEF IInv, SuccessBacked, SuccessIsHonest, Clash, Backed, Made
<1> QED  BY <1>1, Invariance, PTL

\* Every entry of the table of pending acks belongs to a call under way.
THEOREM PendingHasCallerAlways == Spec => []PendingHasCaller
<1>1. IInv => PendingHasCaller
  BY DEF IInv
<1> QED  BY <1>1, Invariance, PTL

----------------------------------------------------------------------------
(* The bridge implements the abstract command service. *)

LEMMA NumberStays ==
  ASSUME TypeOK, UNCHANGED issued,
         \A k \in Tickets : object'[k].seq = object[k].seq
  PROVE  UNCHANGED NumberOf
  BY DEF NumberOf

LEMMA InitImplements == Init => Service!Init
  BY Numbers DEF Init, Service!Init, NumberOf, Tickets

LEMMA BeginImplements ==
  ASSUME IInv, NEW c \in Callers, Begin(c)
  PROVE  Service!Next
<1> DEFINE k == issued + 1
<1>1. TypeOK /\ TicketsMade
  BY DEF IInv
<1>2. issued \in Nat /\ k \in Tickets /\ ~Made(k)
  BY <1>1, Numbers DEF Begin, TypeOK, Tickets, Made
<1>3. PICK d \in Followers :
        object' = [object EXCEPT ![k] = [seq |-> txSeq, drone |-> d,
                                         success |-> FALSE, set |-> FALSE]]
  BY DEF Begin
<1>4. /\ status[k] = "unused" /\ status' = [status EXCEPT ![k] = "open"]
      /\ issued' = k /\ UNCHANGED executed
  BY <1>1, <1>2 DEF Begin, TicketsMade
<1>5. NumberOf' = [NumberOf EXCEPT ![k] = txSeq]
  <2>1. ASSUME NEW j \in Tickets
        PROVE  (IF j <= k THEN object'[j].seq ELSE None)
                 = IF j = k THEN txSeq ELSE NumberOf[j]
    <3>1. j \in Nat /\ (j <= k <=> j = k \/ j <= issued)
      BY <1>2, Numbers
    <3>2. j = k => object'[j].seq = txSeq /\ j <= k
      BY <1>1, <1>2, <1>3, <3>1 DEF TypeOK
    <3>3. j # k => object'[j] = object[j] /\ (j <= k <=> j <= issued)
      BY <1>1, <1>3, <3>1 DEF TypeOK
    <3> QED  BY <3>2, <3>3 DEF NumberOf
  <2>2. NumberOf' = [j \in Tickets |-> IF j <= k THEN object'[j].seq ELSE None]
    BY <1>4 DEF NumberOf
  <2>3. [NumberOf EXCEPT ![k] = txSeq]
          = [j \in Tickets |-> IF j = k THEN txSeq ELSE NumberOf[j]]
    BY <1>2 DEF NumberOf
  <2> QED  BY <2>1, <2>2, <2>3
<1>6. txSeq \in Seqs
  BY <1>1 DEF TypeOK
<1>7. Service!Open(k)
  BY <1>4, <1>5, <1>6 DEF Service!Open
<1> QED  BY <1>2, <1>7 DEF Service!Next

LEMMA PopImplements ==
  ASSUME IInv, NEW c \in Callers, Pop(c)
  PROVE  Service!Next
<1> DEFINE k == mine[c]
<1>1. TypeOK /\ CallersOwn /\ SuccessBacked /\ TicketsMade
  BY DEF IInv
<1>2. k \in Tickets /\ Made(k) /\ status[k] = "open" /\ k # None
  BY <1>1 DEF Pop, At, CallersOwn, TypeOK
<1>3. /\ status' = [status EXCEPT ![k] = IF result[c] THEN "ok" ELSE "failed"]
      /\ UNCHANGED <<object, issued, executed>>
  BY DEF Pop
<1>4. UNCHANGED NumberOf
  BY <1>1, <1>3, NumberStays
<1>5. CASE result[c]
  <2>1. PICK j \in executed : Made(j) /\ object[j].seq = object[k].seq
    BY <1>1, <1>2, <1>5 DEF SuccessBacked, Backed
  <2>2. j \in Tickets /\ j <= issued /\ k <= issued
    BY <1>1, <1>2, <2>1, Numbers DEF TypeOK, Made
  <2>3. NumberOf[j] = NumberOf[k]
    BY <1>2, <2>1, <2>2 DEF NumberOf
  <2>4. Service!Succeed(k)
    BY <1>2, <1>3, <1>4, <1>5, <2>3 DEF Service!Succeed
  <2> QED  BY <1>2, <2>4 DEF Service!Next
<1>6. CASE ~result[c]
  <2>1. status' = [j \in Tickets |-> IF j \in {k} THEN "failed" ELSE status[j]]
    BY <1>1, <1>2, <1>3, <1>6 DEF TypeOK
  <2>2. Service!Fail({k})
    BY <1>2, <1>3, <1>4, <2>1 DEF Service!Fail
  <2> QED  BY <1>2, <2>2 DEF Service!Next
<1> QED  BY <1>5, <1>6

LEMMA ExecuteImplements ==
  ASSUME IInv, NEW m \in down, Execute(m)
  PROVE  Service!Next \/ UNCHANGED Service!vars
<1>1. TypeOK /\ FramesTrue /\ TicketsMade
  BY DEF IInv
<1>2. m.ticket \in Tickets /\ Made(m.ticket)
  BY <1>1 DEF TypeOK, Commands, FramesTrue
<1>3. status[m.ticket] # "unused"
  BY <1>1, <1>2 DEF TicketsMade
<1>4. UNCHANGED <<object, issued, status>>
  BY DEF Execute, bridge
<1>5. UNCHANGED NumberOf
  BY <1>1, <1>4, NumberStays
<1>6. executed' = executed \cup {m.ticket} \/ UNCHANGED executed
  BY DEF Execute
<1>7. CASE executed' = executed \cup {m.ticket}
  BY <1>2, <1>3, <1>4, <1>5, <1>7 DEF Service!Next, Service!Execute
<1>8. CASE UNCHANGED executed
  BY <1>4, <1>5, <1>8 DEF Service!vars
<1> QED  BY <1>6, <1>7, <1>8

LEMMA RestartImplements ==
  ASSUME IInv, Restart
  PROVE  Service!Next
<1> DEFINE S == {k \in Tickets : status[k] = "open"}
<1>1. TypeOK
  BY DEF IInv
<1>2. UNCHANGED <<object, issued, executed>>
  BY DEF Restart
<1>3. UNCHANGED NumberOf
  BY <1>1, <1>2, NumberStays
<1>4. status' = [k \in Tickets |-> IF k \in S THEN "failed" ELSE status[k]]
  BY DEF Restart
<1>5. Service!Fail(S)
  BY <1>2, <1>3, <1>4 DEF Service!Fail
<1>6. S \in SUBSET Tickets
  OBVIOUS
<1> QED  BY <1>5, <1>6 DEF Service!Next

LEMMA NextImplements ==
  ASSUME IInv, [Next]_vars
  PROVE  Service!Next \/ UNCHANGED Service!vars
<1>1. TypeOK
  BY DEF IInv
<1>2. ASSUME UNCHANGED <<issued, status, executed>>,
             \A k \in Tickets : object'[k].seq = object[k].seq
      PROVE  UNCHANGED Service!vars
  BY <1>1, <1>2, NumberStays DEF Service!vars
<1>3. ASSUME NEW c \in Callers, Load(c) \/ Store(c) \/ Register(c)
                               \/ Send(c) \/ Answered(c) \/ Timeout(c)
      PROVE  UNCHANGED Service!vars
  <2>1. UNCHANGED <<object, issued, status, executed>>
    BY <1>3 DEF Load, Store, Register, Send, Answered, Timeout, bridge, history
  <2> QED  BY <1>2, <2>1
<1>4. ASSUME NEW a \in up, Lookup(a)
      PROVE  UNCHANGED Service!vars
  BY <1>2, <1>4 DEF Lookup, history
<1>5. ASSUME NEW f \in found, Apply(f)
      PROVE  UNCHANGED Service!vars
  <2>1. \A k \in Tickets : object'[k].seq = object[k].seq
    BY <1>1, <1>5 DEF Apply, TypeOK, Objects, Lookups
  <2> QED  BY <1>2, <1>5, <2>1 DEF Apply, history
<1>6. CASE UNCHANGED vars
  BY <1>2, <1>6 DEF vars
<1> QED
  BY <1>3, <1>4, <1>5, <1>6, BeginImplements, PopImplements,
     ExecuteImplements, RestartImplements
  DEF Next, Proceed

\* Whatever the callers, the radio, the followers and the restarts do, each
\* call is answered once, and with success only if a call of its sequence
\* number was carried out.
THEOREM Implementation == Spec => ImplementsService
<1>1. IInv /\ [Next]_vars => [Service!Next]_(Service!vars)
  BY NextImplements
<1>2. QED
  BY InitImplements, Invariance, <1>1, PTL
  DEF Spec, ImplementsService, Service!Spec
=============================================================================
