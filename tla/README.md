# Verification of the orynth swarm software

TLA+ models of the flight software in this repository, model-checked with TLC
and proved with TLAPS.  The repository's Python code is the reference: each
definition of a module stands for the lines named in `PROJECT.json` ("map").

The system flies a leader, drone 0, and some followers, on ArduPilot
autopilots reached through MAVROS.  `swarm_server` on the leader's companion
owns the mission.  It commands each drone through a `MavrosAdapter`.  In
simulation the adapters talk to MAVROS itself; on hardware the followers are
across a serial radio, and `radio_bridge` pretends to be their MAVROS.

    operator --> swarm_server --> MavrosAdapter (one per drone) --> MAVROS / FCU
                                        |
                                        v  (hardware, followers)
                                  radio_bridge (leader) ==radio== radio_bridge (follower) --> MAVROS / FCU

## Inventory

**Swarm server** (`swarm_control/swarm_server_node.py`).
State: mission phase, latched formation, its reference point and heading, the
leader-stale flag, the set of manually detached drones, the field offsets.
Operations: takeoff, land, engage_formation, follow_leader, manual_goto per
drone, the formation timer (10 Hz), the status timer.
Hard: all callbacks share one reentrant group on a 16-thread executor, and the
lock is held for single critical sections, never for a callback.  So a tick
works on a snapshot while handlers change the mission, ticks overlap, and
handlers block for minutes and then overwrite the phase.
Correct when: a following swarm always has a reference to freeze on; a stale
leader freezes the reference and raises the alarm, a fresh one is followed; a
detached drone is left alone; a static hold keeps its reference.

**MAVROS adapter** (`mavros_adapter.py`).
State: last state, pose and fix heard, the `_goto_active` flag.
Operations: wait_for_connection, enable_external_control, arm, takeoff, go_to,
cancel_motion, hold_reference, land.
Hard: blocking calls with deadlines and retries, completion judged from the
last telemetry heard, one cancel flag shared by overlapping calls.
Correct when: a reported landing comes true unless a request given up undoes
it, the cancel flag is never left up,
a formation wins over a go_to in the end, every call returns.

**Formation geometry** (`formation.py`).  Pure functions: layouts and their
placement around a reference.  Correct when slots are distinct, far enough
apart, and slot 0 is on the reference.

**Radio bridge** (`swarm_radio/radio_bridge_node.py`).
State on the leader: command sequence counter, table of pending acks.  On a
follower: last local telemetry, time of the last watchdog action.
Operations: a command service call, an ack, a command executed and
acknowledged, setpoints and telemetry forwarded, heartbeats, the watchdog.
Hard: overlapping service calls, a radio that loses and delays, a follower
that may take longer than the leader waits, restarts, numbers that wrap; a
watchdog timer that blocks and overlaps with itself.
Correct when: a service call succeeds only if the drone obeyed, every call is
answered, the table does not leak, silence is met by BRAKE and then by DISARM,
each past its limit.

**Radio link** (`radio_link.py`).
State: transmit counter, one receive buffer, last frame time per peer.
Operations: send_* (pack and write), poll (read, drain, decode).
Hard: reads end anywhere in a frame, bytes are lost, changed and added, the
start byte may occur inside a frame, and overlapping polls share the buffer.
Correct when: a message handed over was sent, in order and once; no good frame
is dropped by resynchronisation; the buffer stays short.

**Radio motor test** (`scripts/hardware/radio_motor_test.py` and
`radio_motor_responder.py`).
State: the sender's number, the frame the responder has dispatched, the serial
buffer of COMMAND_ACKs.
Operations: send a test, limit and dispatch it, answer it, wait for the Ack.
Hard: limits on both sides of an 8-bit frame, answers that come late, one
broadcast test with several Acks.
Correct when: a motor turns no faster than its ceiling, as asked or not at all
if the throttle is a byte, "OK" is of an accepted test, the responder goes on
listening.

**Others.**  The leader keyboard (`leader_keyboard.py`) and the SITL mission
script (`sitl_mission.py`) are clients; `swarm_api.py` and
`vehicle_adapter.py` hold types; the SITL launcher and world builder
(`swarm_sim`) set up simulations; the other scripts of `scripts/hardware` are
sequential bench tools; the YOLO detector is a stub.  PROJECT.json
"components" says which are modelled.

The behaviours that are hard to test are listed one by one, each at its line,
in PROJECT.json "hazards".

## What is modelled

### SwarmServer: the mission state

`SwarmServer.tla` models the whole mission state machine.  `phase`,
`formation`, `ref`, `stale` and `manual` are the server's fields.  `pose` is
the number of the last leader pose heard and `lost` says that it is older than
the timeout, or that the operator simulates a dropout.  Each executor thread
has a step `pc[t]` and locals `loc[t]`.

An action is one critical section, or one unlocked read, of a callback:

| code | actions |
|---|---|
| `_on_takeoff`, `_on_land` | `StartTakeoff` .. `EndTakeoff`, `StartLand` .. `EndLand` around the blocking fleet operation |
| `_on_engage_formation`, `_on_follow_leader` | `StartEngage`, `ReadReference` (unlocked), `Latch`; `Disengage` |
| `_make_goto_cb` | `StartGoto` .. `EndGoto` |
| `_formation_tick` | `StartTick` (snapshot), `TickHold`, `TickSend` once per slot |
| `_follow_leader_reference` | `TickLive`, `TickAge` (unlocked), `TickTrack` or `TickFreeze` |
| `_publish_status` | the state function `Emergency` |

Positions are abstracted to the number of the pose they come from.  The
heading travels with its reference and is left out, and so are field offsets.
A request `build_formation` rejects changes no state and is left out.  What an
adapter call does is not in this module: it ends when it likes, either way.

### MavrosGoto: who streams setpoints to one drone

`MavrosGoto.tla` takes one drone of `SwarmServer` and opens up the calls that
`SwarmServer` leaves abstract.  `active` is `_goto_active`, `setpoint` the last
one published, `seen` the last pose heard, `holding` and `detached` what the
drone can tell of the server's phase and manual set.  A call takes the steps
`ManualGoto` (detach), `CancelMotion`, `Begin`, then rounds of `Check`,
`Publish`, `Measure` until `Arrive`, `Expire`, or a lowered flag at `Check`.
The timer is `StartTick` and `HoldReference`.  `Engage` and `Disband` are what
the other handlers do to this drone.  The vehicle's motion is not modelled: any
pose may be heard at any time.

### FleetOps: coordinated takeoff and landing

`FleetOps.tla` opens up what `SwarmServer` leaves abstract between
`StartTakeoff` and `EndTakeoff`.  `Start` and `End` are `_parallel`; the worker
of each drone has a place `at[h][d]`: a stage (connect, guided, arm, takeoff;
or land) and a step of `MavrosAdapter._call` and the wait after it: `Ask` or
`Unavailable`, `Answered` or `CallTimeout`, `Confirmed` or `ConfirmTimeout`.
`GiveUp` and `MayAsk` are arm's retry loop.  `heard` is the last telemetry of
each adapter, which may be as old as it likes.  A thread of the executor that is
not free is an answer or a telemetry message that does not come.

set_mode, arming, takeoff and land are four services, and neither MAVROS nor the
radio bridge, whose frames may pass each other and whose polls overlap, keeps an
order among them.  So none is kept: the request a worker waits for is carried
out (`Obey`), refused (`Refuse`), or answered for by the bridge after its own
3 s (`BridgeTimeout`); and one that was given up, by the worker or by the
bridge, is a count in `left`, and the vehicle carries it out whenever it likes,
or never (`ObeyLeft`).  A GUIDED of a takeoff that gave up may so come after a
LAND and take the drone out of it; the history `late` records that.  `Obeys`,
`TouchDown` and `Relax` are the vehicle as the adapter relies on it.  A request
is carried out at most once, and a "yes" is taken to be of the request it
answers; `RadioCommand` says when the radio keeps that.

### Formation and FieldFrame: where setpoints send the drones

`Formation.tla` holds the layouts and `place_formation`, on whole coordinates
and at quarter turns.

`FieldFrame.tla` follows a position from the drone to the server and a setpoint
back.  Each drone measures from its own `Home`.  `offsets` is
`SwarmServer._offsets`: `FieldPosition` adds it, `LocalTarget` takes it off,
`Calibrate` replaces it at every engagement, in the middle of a tick if it
comes so.  On a swarm linked by radio a follower's pose is first `cached` by
its bridge, then republished by the leader's with a placeholder fix (`Fix`).
A tick takes its reference (`TickHold`, `TickLive`, `TickStale`), sends one
setpoint a step (`Send`, or `SendLost`: the topics are best effort), and ends
with the formation error (`Report`).  `Operate` is the operator's flying.
Detached drones and the locks are in `SwarmServer`.

### RadioCommand and CommandService: commands over the radio

`CommandService.tla` is the abstract specification: a call is answered once,
with success only after a call of its number was carried out.  With every call
its own number this is what a MAVROS promises.

`RadioCommand.tla` is the bridge.  A call takes the steps of `_issue_command`:
`Begin` (read the counter), `Load` and `Store` (advance it, not atomically),
`Register`, `Send`, then `Answered` or `Timeout`, and `Pop`.  `_on_ack` is
`Lookup` under the lock and `Apply` after it.  `Execute` is the follower's
handler.  Frames in `down` and `up` are delivered in any order, more than once
or never.  A ticket is the `_PendingAck` object of a call, which outlives its
place in the table, as a Python object does.  `Restart` restarts the leader's
bridge with frames of the old run still in the air.

The refinements are `ImplementsService`, in which a call's number is its
sequence number, and `ImplementsMavros`, in which every call has its own.  The
bridge implements the first, and not the second.  `status` and `executed` are
history variables that record what clients were told and what vehicles did.

### RadioFraming and FrameChannel: the byte stream

`FrameChannel.tla` is the abstract specification: messages arrive as sent, in
order, each at most once, or are lost.

`RadioFraming.tla` is one direction of a link.  `Send` is `_send_frame`, atomic
under its lock; `Lose`, `Change` and `Insert` are faults of the line; `Read`
and `Extend` are `poll`, and the actions from `Find` to `Deliver` are `_drain`,
one for each operation on the shared buffer, with an index that is out of
range ending in `crashed`.  A byte has a value; the CRC byte also carries what
it was computed over, so that the CRC is perfect.  Header and CRC are shorter
than in the code; the greatest payload is as long as the start byte is large,
as in the code 0xFD is a possible length.  `ImplementsChannel` is the
refinement.

### RadioWatchdog: the follower's radio watchdog

`RadioWatchdog.tla` counts time in periods of the watchdog timer.  `Hear` is
any frame of the leader, `WatchdogTick` the timer callback up to its blocking
request, `Return` the end of that request, which stores its start time.
Requests overlap and end in any order, each within `CallTime`.  The code drops
the outcome of a request, so the model has none.

### MotorBench: the motor test over the radio

`MotorBench.tla` has the operator's script (`Run`, `Hear`, `NoAck`) and each
drone's responder (`Ignore`, `Refuse`, `Dispatch`, `Answered`, `NoAnswer`).
`Encode` cuts the fields as the frame does, `Throttle` and `Duration` limit
them as the responder does.  `Serve` is the flight controller, which may refuse
or say nothing.  The serial buffer `fcOut` keeps a COMMAND_ACK that came too
late, and the next test is answered with it.  The number of the motor is left
out.

## Runs

| run | what it shows |
|---|---|
| server | the mission-state properties below, two threads, all interleavings |
| server_static_reference | **violated**: a follow tick in flight overwrites a static hold's reference |
| goto | overlapping go_to calls and the timer on one drone: flag, return, slot regained |
| fleet | takeoffs and landings of two drones with late, old and missing answers and telemetry, and requests obeyed out of order |
| field | positions and setpoints of a leader and a follower, on WiFi and on the radio |
| radio_command | no false success without a shared number, no leak, every call answered, refinement of CommandService |
| radio_command_two | **violated**: two callers share a number, and the bridge is no MAVROS |
| watchdog | a long silence is acted on, and only the throttle holds DISARM back |
| watchdog_disarm | **violated**: with the code's limits DISARM does not come after 10 s |
| framing | one poller: refinement of FrameChannel, resynchronisation, bounded buffer, delivery |
| framing_two | **violated**: two overlapping polls, and one raises |
| bench | the motor test with two responders |

Properties of the passing runs:

- `FollowHasReference`: in follow_leader there is always a formation and a last
  good reference, whatever was interleaved.
- `StaleFreezesReference`: while the alarm stands the reference does not move.
- `AlarmIsRaised`: a leader lost for good is reported for good.
- `FollowersTrack`: a leader that stays fresh is tracked to its last pose.
- `DetachedIsReleased`: a detached drone is left alone in the end.
- `FlagHasOwner`: a raised cancel flag has a go_to under way to lower it.
- `FormationWins`: a drone taken back into a formation is flown to its slot in
  the end, although no one cancels its go_to.
- `GotoReturns`: every manual_goto returns, whatever shares its flag.
- `OperationsReturn`: every takeoff and landing is answered, though answers and
  telemetry may never come.
- `LandedIsTrue`: a swarm reported landed is in LAND, although the report may
  rest on old telemetry, and answers are lost or say "no" of what is done.
  `LandedSettles`: it ends disarmed.  Both except two things the code does not
  prevent: a takeoff that overlaps the landing, and a drone that a request given
  up has taken out of LAND since it last went into it (`late`).
- `FormationIsFlown`: if the offsets are true in the end, every drone ends at
  its place round the leader, although poses are old, setpoints are lost and
  offsets change while a tick sends.
- `ErrorVanishes`: the reported formation error goes away in any case, because
  wrong offsets mislead it as they mislead the setpoints.  The topic says
  nothing of whether the offsets are true.
- `TrueFramesKeepApart`: a tick that finds the offsets true when it sends does
  not send two drones to one place, whatever they were when its reference was
  taken or an engagement in between makes of them.  Without that condition it is
  `SpacingKeepsApart`, which is no invariant (see "Seen while modelling").
- `SuccessIsHonest`: a success was carried out, unless two calls shared a
  number.  `PendingHasCaller`: the table does not leak.  `EveryCallReturns`.
  `ImplementsService`: the refinement.
- `BrakeInTime`: a silence longer than first limit and throttle was acted on.
  The throttle counts here, because an action in an earlier silence may hold the
  first BRAKE of this one back.
- `DisarmInTime`: past the second limit the last request is never older than the
  throttle, and it is a DISARM unless it is a BRAKE from before the limit.  So
  DISARM comes by limit plus throttle, about 15 s, and no overlap of requests
  puts it off further.  That it comes at the limit, as the documents say, is
  `DisarmAtLimit`, which `watchdog_disarm` refutes.
- `ImplementsChannel`: the refinement.  `NothingDropped`: a frame that reached
  the receiver whole is handed over or still in the buffer, as long as there
  were no more faults than a frame has bytes besides its payload; with more, the
  line can leave of a later frame little but its CRC, and the receiver takes the
  good frame for its payload.  `BufferBounded`:
  between polls the buffer is shorter than the longest frame.
  `PollSurvives`: with one poller no poll reads past the end of the buffer.
  `EveryFrameArrives`: without faults every message arrives.
- `TurnsAsAsked`: a motor turns for the test and the seconds asked of its drone
  and no faster than the responder's ceiling; and a throttle of 0 to 255 turns
  it as asked or not at all, up to the hard cap of 30 (which cuts only if the
  ceiling is raised to it).  Other throttles are cut to a byte by the frame and
  the sender has no lower bound: one of -250 turns the motor at 6 per cent.
  `OkIsHonest`: "OK" is of an accepted test, unless a responder gave up on an
  answer before or two tests share a number.  `ResponderListens`: it always
  comes back to its radio.

### Bounds, and why they are enough

- Server: two drones (slot 0 is special, slot 1 stands for every follower),
  two threads (a tick overlaps a handler or another tick), three service calls
  (engage, then two that disturb it), three leader poses.  The proofs cover
  the safety properties for every value.
- Goto: three threads, so that two calls and a tick are in flight at once, and
  two targets, so that the calls can disagree.
- Fleet: two drones, so that one can fail alone; two operations in turn, so
  that the second meets what the first left under way and in telemetry; two arm
  attempts.  `MaxLeft = 1`: of each kind one request is left at a time; a second
  attempt to arm waits for the first to be obeyed or dropped.  A GUIDED that the
  takeoff gave up is obeyed after the LAND in this run, in states with the phase
  "landed" too, and so is any other request left, in either order with the
  landing's.  A drone that a late GUIDED takes out of LAND and a late arming then
  arms needs a third operation, since a takeoff that gave up on GUIDED does not
  go on to arm: `LandedIsTrue` covers it by its theorem, for any number of
  operations and of requests left; for `LandedSettles` it is beyond the run.
  One handler, so that no takeoff overlaps a landing and
  `LandedIsTrue` can be checked as an invariant; its theorem is for any number
  of handlers, from `[]~Overlap`.
- Field: a leader and one follower; two engagements, so that offsets are
  replaced under a formation being flown; a flight of the leader that turns it.
  Deployments are WiFi with unset offsets and radio with surveyed ones.
- Radio commands: `SeqMod = 2` with two commands and a restart makes numbers
  return; two callers can clash; the restart leaves old frames in the air.
  `radio_command_two` has two followers and more numbers than commands, so that
  a shared number is the counter's doing.
- Watchdog: small limits that keep the order brake < throttle < disarm and let
  a request block for longer than the throttle.  `Uptime = 1` puts the start
  within a throttle of `_last_brake_action = 0.0`.  `watchdog_disarm` has the
  code's numbers: 2 s, 10 s, 5 s, and requests of up to 7 s.
- Framing: three byte values, so that the start byte, a length and an ordinary
  byte exist; two frames, one with the start byte's value inside; one fault
  anywhere; reads of any size.  `framing_two` needs no fault.
- Bench: two responders of which one or both are addressed, two tests, numbers
  that may be equal.  Both are asked for a throttle within the ceiling; one alone
  for one above its ceiling of 15, and for -250, which goes out as 6 (`Asks`).

### Fairness

- Server: a started callback goes on (`WF_vars(Resume(t))`: every adapter call
  has a deadline) and the timer fires whenever a thread is free
  (`WF_vars(\E t : StartTick(t))`).  Clients and the leader's poses get none.
- Goto: as for the server, and `SF_vars(Expire(t))`: the deadline of a go_to
  passes some time, and the loop's head then sees it; the rounds of the loop
  before it, which leave the head again and again, cannot put that off for ever.
- Fleet: threads with work go on, for their waits have deadlines, and a vehicle
  in LAND comes down.  Telemetry, MAVROS and the executor get none, so that a
  starved executor is among the behaviours.
- Field: the timer, the vehicles and the telemetry go on; `SF` says that now
  and then a setpoint gets through and a tick finds the leader's pose fresh.
  A radio out of range for good is outside `FormationIsFlown`.  Handlers get
  none.
- Radio commands: a call goes on (`WF_vars(Proceed(c))`: the wait has a
  deadline).  The radio and the follower get none.
- Watchdog: no liveness; `Advance` lets a second pass only after the timer of
  the last one ran and no request is past its deadline.  This assumes that the
  executor, which has one thread per processor, has one left for the timer.
- Framing: the polling timer goes on, and a read now and then returns all that
  is there, as the serial driver does.  Faults get none: only behaviours without
  one are asked to deliver.
- Bench: the responder's loop goes on.  Flight controller, radio and operator
  get none.

## Proofs

Each `*_proofs` module proves, for every value of the constants that the
module's ASSUME allows:

- `SwarmServer_proofs`: `TypeCorrect`, `FollowHasReferenceAlways`,
  `StaleFreezesReferenceAlways`.  A tick or an engagement stores a reference it
  read long before, so the invariant is not inductive alone.  The strengthening
  `LocalsInHand` says that a thread about to latch holds a formation and a
  reference, and a thread about to track holds a reference.
- `MavrosGoto_proofs`: `TypeCorrect`, `FlagHasOwnerAlways`.  The invariant is
  inductive: the step that raises the flag enters the loop, and one that leaves
  the loop lowers it or has found it down.
- `RadioCommand_proofs`: `TypeCorrect`, `SuccessIsHonestAlways`,
  `PendingHasCallerAlways`, `Implementation`.  The strengthening says that
  tickets have one owner (`CallersOwn`), that a positive ack in the air is true
  of some call of its number (`FramesTrue`), that a pending entry is filed under
  its own number (`PendingFiled`), that a success kept by a ticket or a caller
  is backed by such a call (`SuccessBacked`), and that tickets exist before they
  are referred to (`TicketsMade`).  With it every step of the bridge maps to a step of
  `CommandService` or to none, so that the refinement holds for any number of
  callers, losses and restarts.
- `RadioWatchdog_proofs`: `TypeCorrect`, `BrakeInTimeAlways`,
  `DisarmInTimeAlways`.  The strengthening says that the stored time is that of
  some started request (`StoredIsStarted`), that the last BRAKE is not later
  than the disarm limit of its silence (`BrakeIsEarly`), and that nothing is
  heard or asked in the future (`HeardIsPast`).
- `FieldFrame_proofs`: `PlacesApart` and `LeaderOnReference`, for any spacing,
  number of drones, reference and quarter turn: slots are apart as layouts
  (`SlotsApart`), spacing keeps them apart, and a rotation can be undone.
  `TypeCorrect`, for which the call being served and the tick under way must
  keep theirs too (`AllTypes`).  `TrueFramesKeepApartAlways`: what a tick has
  told a drone with true offsets is its slot of the one formation the tick took
  (`ToldSlots`), from whatever pose and heading the reference came; the slots
  are apart by `PlacesApart`.
- `FleetOps_proofs`: `TypeCorrect`, `LandedIsTrueAlways`, for any drones,
  handlers and operations.  That a worker reports a landing done says little
  by itself, as the telemetry it looked at may be older than the request.  The
  strengthening follows the answer instead: an answer is there only for a worker
  that waits (`AnswerAwaited`), so that it is of the request the worker made,
  and a landing answered with yes has its vehicle in LAND (`Landing`).  No order
  of requests is assumed: while no takeoff is under way (`NoTakeoff`) workers
  ask for LAND alone (`ObeyInLand`), and what was given up takes a vehicle out
  of LAND only into `late` (`LeftInLand`).  It is inductive as long as no
  takeoff overlaps a landing, which the theorem assumes.
- `RadioFraming_proofs`, however many polls overlap: `TypeCorrect` and
  `BufferBoundedAlways`.  Every byte with a CRC ends a frame that was sent, and
  what passes the check is such a frame (`General`).
  With one poller (each theorem assumes `Pollers = {p}`):
  `OnePollSurvives`, for a step of the drain finds the buffer as the last one
  left it (`Control`) - so the crash `framing_two` shows needs the overlap;
  `ImplementsChannelAlways`, the refinement of `FrameChannel`;
  `NothingDroppedAlways`.  The last two are about the stream of bytes from the
  buffer over the chunk read to the line.  Frames keep their order in it and
  come no closer than the faults allow, and what is handed over is older than
  all of it (`InOrder`).  A frame that has all its bytes there survives each
  step (`AllKept`): bytes dropped before a start byte hold none, a start byte
  skipped was none of a whole frame's (`HeadWhole`), and a frame taken ends
  before a whole one begins or is that one, because too few bytes of it were
  lost for another frame to fit into it.
- `MotorBench_proofs`: `TypeCorrect`, `TurnsAsAskedAlways`,
  `OkIsHonestAlways`.  The first needs that a frame on its way is its test,
  encoded (`InFlight`), and that the sender has looked at the duration
  (`Sent`).  The second follows an answer back along its way (`OneByOne`):
  while no responder has given up, all that is between it and its flight
  controller belongs to the test it waits for.  Of the ceilings it is assumed
  only that the responder's is at most the cap, without which it does not start;
  throttles are any integers.

What the proofs corrected in the models: `NothingDropped` needs its limit on
faults (the run's one fault could not show it); a slice that ends past the
buffer is short and not undefined (`Slice`); the type of what is handed over
can be that of a decoded message; and `None` must be none of the values it
stands beside, in `FleetOps` and `FieldFrame`.

Checked with TLC only: every liveness property (`OperationsReturn`,
`LandedSettles`, `FormationIsFlown`, `ErrorVanishes`, `EveryFrameArrives` and
those of the other modules), which is out of the prover's reach; and the four
disagreements, which are counterexamples.  Every invariant and every safety
property of a passing run has its theorem.  With two pollers nothing is claimed
of order and loss: a poll may cut the buffer another one has checked.

## Findings

Four disagreements between the code and what its own text says; each has a run
whose counterexample shows it, and an entry in PROJECT.json "findings".

1. A tick begun in follow_leader overwrites the reference of a static hold
   engaged meanwhile, for good.
2. Two overlapping radio commands can share a sequence number, and one is told
   the other's success.
3. Two overlapping polls of the radio drain one buffer, and one raises out of
   the timer callback.
4. BRAKE and DISARM share a throttle of 5 s: after the BRAKE that is repeated
   shortly before the disarm limit, the first DISARM comes 13 to 15 s into the
   silence, where the documents say 10 s.

Seen while modelling, and kept as notes under "hazards": the leader's bridge
calibrates a radio swarm on placeholder fixes, which overwrites the configured
offsets; a second engagement on WiFi with surveyed offsets calibrates them on
drones that are spread out, and its setpoints can send two drones to one place;
disengaging a follow during a static hold leaves its phase without a formation;
land may report success before the drone is down; a GUIDED of a takeoff that
gave up may take a landed drone out of LAND; the motor test sets a throttle no
lower bound, and the frame makes another one of it.

## Not modelled

- Simulation set-up (SITL launcher, world builder, launch files): processes and
  files of the operating system.
- Clients (leader keyboard, SITL mission) and the sequential bench scripts:
  what they do to the system is calls the models serve.
- Types without state, the YOLO stub, logging, the layout of status messages.
- In modelled parts: altitude (setpoints of one layout differ in it by a
  configured step, zero on hardware), headings other than quarter turns, the
  exact age of poses and fixes (a fix is taken as current when it is used), the
  battery and link-age fields, heartbeats other than as frames the watchdog
  hears.  `SwarmServer.TickAge` reads the dropout parameter together with the
  pose's age; `FieldFrame` takes a tick's reference in one step, which
  `SwarmServer` splits.
