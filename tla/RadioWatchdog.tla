---------------------------- MODULE RadioWatchdog ----------------------------
(***************************************************************************)
(* The follower's radio watchdog (radio_bridge_node._watchdog_tick).  Once *)
(* a second it compares the age of the leader's last frame with two        *)
(* limits, and asks the local MAVROS for BRAKE past the first and for      *)
(* DISARM past the second; one throttle serves both.  The request blocks   *)
(* for up to two deadlines, meanwhile the timer fires again on another     *)
(* thread, and the time of the action is stored when the request ends.     *)
(*                                                                         *)
(* Time is counted in watchdog periods.  The outcome of a request is       *)
(* dropped by the code, so it is not modelled.                             *)
(* A definition headed `mutant' is no part of the specification.           *)
(***************************************************************************)
EXTENDS Integers

CONSTANTS
    BrakeAfter,   \* radio_loss_brake_s
    DisarmAfter,  \* radio_loss_disarm_s
    Throttle,     \* 5 s in the code
    CallTime,     \* the longest a request blocks
    Uptime,       \* the host's uptime when the node starts
    MaxTime,      \* bound: the end of time
    None

ASSUME WatchdogAssumption ==
    /\ BrakeAfter \in Nat /\ DisarmAfter \in Nat /\ BrakeAfter <= DisarmAfter
    /\ Throttle \in Nat /\ CallTime \in Nat
    /\ Uptime \in Nat /\ MaxTime \in Nat /\ Uptime <= MaxTime
    /\ None \notin Uptime .. MaxTime

VARIABLES
    now,         \* time.monotonic()
    due,         \* the timer has fired for this second
    heard,       \* when the last frame of drone 0 came in, or None
    lastAction,  \* _last_brake_action
    requests,    \* the requests under way: what is asked, and since when
    startedAt,   \* history: when the last request was started, 0 if never
    disarmAt     \* history: when the last DISARM was started, 0 if never

vars == <<now, due, heard, lastAction, requests, startedAt, disarmAt>>

Times == 0 .. MaxTime
Requests == [ask : {"BRAKE", "DISARM"}, at : Times]

Init ==
    /\ now = Uptime /\ due = FALSE /\ heard = None /\ lastAction = 0
    /\ requests = {} /\ startedAt = 0 /\ disarmAt = 0

\* peer_age_s(0)
Age == now - heard

\* Any frame of the leader, a heartbeat included.
Hear == /\ heard' = now
        /\ UNCHANGED <<now, due, lastAction, requests, startedAt, disarmAt>>

Request(ask) ==
    /\ requests' = requests \cup {[ask |-> ask, at |-> now]}
    /\ startedAt' = now
    /\ disarmAt' = IF ask = "DISARM" THEN now ELSE disarmAt
    /\ UNCHANGED lastAction

Wait == UNCHANGED <<lastAction, requests, startedAt, disarmAt>>

\* mutant: no BRAKE branch
DecideDisarmOnly ==
    IF heard = None THEN Wait
    ELSE IF Age > DisarmAfter THEN IF now - lastAction > Throttle
                                   THEN Request("DISARM") ELSE Wait
    ELSE Wait

Decide ==
    IF heard = None THEN Wait
    ELSE IF Age > DisarmAfter THEN IF now - lastAction > Throttle
                                   THEN Request("DISARM") ELSE Wait
    ELSE IF Age > BrakeAfter THEN IF now - lastAction > Throttle
                                  THEN Request("BRAKE") ELSE Wait
    ELSE Wait

WatchdogTick == due /\ due' = FALSE /\ Decide /\ UNCHANGED <<now, heard>>

\* mutant: the deadline of the request is stored
ReturnAtDeadline(r) ==
    /\ r \in requests /\ requests' = requests \ {r}
    /\ lastAction' = r.at + CallTime
    /\ UNCHANGED <<now, due, heard, startedAt, disarmAt>>

\* mutant: the end of the request is stored, not its start
ReturnAtEnd(r) ==
    /\ r \in requests /\ requests' = requests \ {r} /\ lastAction' = now
    /\ UNCHANGED <<now, due, heard, startedAt, disarmAt>>

\* A request ends: its start becomes the time of the last action, even if a
\* later request has ended before it.
Return(r) ==
    /\ r \in requests /\ requests' = requests \ {r} /\ lastAction' = r.at
    /\ UNCHANGED <<now, due, heard, startedAt, disarmAt>>

\* A second passes.  The timer has a thread to run on in every second, and a
\* request ends by its deadline.
Advance ==
    /\ ~due /\ now < MaxTime /\ \A r \in requests : now < r.at + CallTime
    /\ now' = now + 1 /\ due' = TRUE
    /\ UNCHANGED <<heard, lastAction, requests, startedAt, disarmAt>>

Next == Hear \/ WatchdogTick \/ Advance \/ \E r \in requests : Return(r)
Spec == Init /\ [][Next]_vars

----------------------------------------------------------------------------
(* Properties.  Each holds of the time after the timer of the second ran.   *)

TypeOK ==
    /\ now \in Uptime .. MaxTime /\ due \in BOOLEAN
    /\ heard \in Uptime .. MaxTime \cup {None}
    /\ lastAction \in Times /\ requests \in SUBSET Requests
    /\ startedAt \in Times /\ disarmAt \in Times

Silent(limit) == ~due /\ heard # None /\ Age > limit

\* A silence longer than the first limit and than the throttle has been acted
\* on: the throttle can hold the first BRAKE of a silence back by what is left
\* of an action in the silence before it, and by no more.
BrakeInTime ==
    /\ Silent(BrakeAfter) /\ Silent(Throttle) => startedAt > heard

\* Past the second limit the last request is never older than the throttle,
\* and it is a DISARM unless it was started before the limit: nothing but the
\* throttle after a BRAKE holds DISARM back, and overlapping requests that end
\* out of order do not.
DisarmInTime ==
    Silent(DisarmAfter) =>
        /\ now - startedAt <= Throttle
        /\ startedAt = disarmAt \/ startedAt <= heard + DisarmAfter

\* DISARM is asked for past the second limit (radio_bridge_node.py: "DISARM
\* after radio_loss_disarm_s").  Refuted: the BRAKE before it is repeated while
\* the leader is silent, and the throttle after the last one goes on past the
\* limit.
DisarmAtLimit == Silent(DisarmAfter) => disarmAt > heard
=============================================================================
