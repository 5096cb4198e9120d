------------------------- MODULE MavrosGoto_proofs -------------------------
(***************************************************************************)
(* For any threads and targets: types are kept, and a raised _goto_active  *)
(* has a go_to under way.  The second is inductive as it stands: the one   *)
(* step that raises the flag enters the loop, and each that leaves the     *)
(* loop lowers it or has just found it down.                               *)
(***************************************************************************)
EXTENDS MavrosGoto, TLAPS

\* Every variable keeps its type, for any constants.
THEOREM TypeCorrect == Spec => []TypeOK
<1> USE GotoAssumption DEF TypeOK, Steps, Loop
<1>1. Init => TypeOK
  <2> SUFFICES ASSUME Init PROVE TypeOK
    OBVIOUS
  <2>1. pc \in [Threads -> Steps] /\ target \in [Threads -> Points \cup {None}]
    BY DEF Init
  <2>2. gotos \in 0 .. MaxGotos
    BY DEF Init
  <2>3. holding \in BOOLEAN /\ detached \in BOOLEAN /\ active \in BOOLEAN
    BY DEF Init
  <2> QED
    BY <2>1, <2>2, <2>3 DEF Init
<1>2. TypeOK /\ [Next]_vars => TypeOK'
  <2> SUFFICES ASSUME TypeOK, [Next]_vars PROVE TypeOK'
    OBVIOUS
  <2> USE DEF Go, Finish, server
  <2>1. ASSUME NEW t \in Threads, ManualGoto(t) PROVE TypeOK'
    BY <2>1 DEF ManualGoto
  <2>2. ASSUME NEW t \in Threads, StartTick(t) PROVE TypeOK'
    BY <2>2 DEF StartTick
  <2>3. ASSUME NEW t \in Threads, CancelMotion(t) PROVE TypeOK'
    BY <2>3 DEF CancelMotion
  <2>4. ASSUME NEW t \in Threads, Begin(t) PROVE TypeOK'
    BY <2>4 DEF Begin
  <2>5. ASSUME NEW t \in Threads, Check(t) PROVE TypeOK'
    BY <2>5 DEF Check
  <2>6. ASSUME NEW t \in Threads, Expire(t) PROVE TypeOK'
    BY <2>6 DEF Expire
  <2>7. ASSUME NEW t \in Threads, Publish(t) PROVE TypeOK'
    BY <2>7 DEF Publish
  <2>8. ASSUME NEW t \in Threads, Measure(t) PROVE TypeOK'
    BY <2>8 DEF Measure
  <2>9. ASSUME NEW t \in Threads, Arrive(t) PROVE TypeOK'
    BY <2>9 DEF Arrive
  <2>10. ASSUME NEW t \in Threads, HoldReference(t) PROVE TypeOK'
    BY <2>10 DEF HoldReference
  <2>11. CASE Engage
    BY <2>11 DEF Engage
  <2>12. CASE Disband
    BY <2>12 DEF Disband
  <2>13. CASE PoseArrives
    BY <2>13 DEF PoseArrives
  <2>14. CASE UNCHANGED vars
    BY <2>14 DEF vars
  <2> QED
    BY <2>1, <2>2, <2>3, <2>4, <2>5, <2>6, <2>7, <2>8, <2>9, <2>10, <2>11,
       <2>12, <2>13, <2>14 DEF Next, Resume
<1> QED
  BY <1>1, <1>2, PTL DEF Spec

\* A raised flag has a go_to in its loop, which will lower it.
THEOREM FlagHasOwnerAlways == Spec => []FlagHasOwner
<1> USE DEF FlagHasOwner, Loop
<1>1. Init => FlagHasOwner
  BY DEF Init
<1>2. TypeOK /\ FlagHasOwner /\ [Next]_vars => FlagHasOwner'
  <2> SUFFICES ASSUME TypeOK, FlagHasOwner, [Next]_vars, active'
               PROVE \E u \in Threads : pc'[u] \in Loop
    OBVIOUS
  <2> USE DEF Go
  <2> pc \in [Threads -> Steps]
    BY DEF TypeOK
  \* A step of a thread outside the loop leaves the flag's owner in it.
  <2>1. ASSUME NEW t \in Threads, ManualGoto(t) \/ StartTick(t)
                                     \/ HoldReference(t)
        PROVE \E u \in Threads : pc'[u] \in Loop
    <3>1. active /\ pc[t] \notin Loop /\ \A u \in Threads \ {t} : pc'[u] = pc[u]
      BY <2>1 DEF ManualGoto, StartTick, HoldReference, server
    <3>2. PICK u \in Threads : pc[u] \in Loop
      BY <3>1
    <3> QED
      BY <3>1, <3>2
  \* These lower the flag.
  <2>2. ASSUME NEW t \in Threads, CancelMotion(t) \/ Expire(t) \/ Arrive(t)
        PROVE FALSE
    BY <2>2 DEF CancelMotion, Expire, Arrive
  \* These leave their own thread in the loop, the flag being up.
  <2>3. ASSUME NEW t \in Threads, Begin(t) \/ Publish(t) \/ Measure(t)
        PROVE \E u \in Threads : pc'[u] \in Loop
    BY <2>3 DEF Begin, Publish, Measure
  <2>4. ASSUME NEW t \in Threads, Check(t)
        PROVE \E u \in Threads : pc'[u] \in Loop
    <3>1. active
      BY <2>4 DEF Check
    <3> QED
      BY <2>4, <3>1 DEF Check
  <2>5. CASE Engage \/ Disband \/ PoseArrives \/ UNCHANGED vars
    BY <2>5 DEF Engage, Disband, PoseArrives, vars
  <2> QED
    BY <2>1, <2>2, <2>3, <2>4, <2>5 DEF Next, Resume
<1> QED
  BY <1>1, <1>2, TypeCorrect, PTL DEF Spec
=============================================================================
