---------------------------- MODULE RadioCommand ----------------------------
(***************************************************************************)
(* Commands over the radio.  On the leader's companion, radio_bridge       *)
(* serves the MAVROS command services of every follower: a service call    *)
(* becomes an ORYNTH_COMMAND frame, and blocks until an ORYNTH_ACK with    *)
(* its sequence number arrives or ack_timeout passes.  The services are in *)
(* a reentrant group, so calls overlap; so do runs of the radio poll.  The *)
(* follower runs the command on its own MAVROS and acknowledges the        *)
(* outcome, which may take it longer than the leader waits.                *)
(*                                                                         *)
(* A frame that was sent stays in its set.  It may never arrive, or arrive *)
(* late, after any other: no action has to take it.  It may be handled     *)
(* twice: overlapping polls decode a frame twice (RadioFraming).           *)
(*                                                                         *)
(* A ticket is the _PendingAck object of one call.  A command frame holds  *)
(* the ticket of its call as history: no handler reads it.                 *)
(* A definition headed `mutant' is no part of the specification.           *)
(***************************************************************************)
EXTENDS Integers

CONSTANTS
    Callers,      \* threads serving command services
    Followers,    \* the drones at the other end of the radio
    SeqMod,       \* width of a sequence number: 2^16 in the code
    MaxCommands,  \* bound: calls made
    MaxRestarts,  \* bound: restarts of the leader's bridge
    None

ASSUME RadioAssumption ==
    /\ SeqMod \in Nat \ {0}
    /\ MaxCommands \in Nat
    /\ MaxRestarts \in Nat
    /\ None \notin 1 .. MaxCommands

VARIABLES
    txSeq,     \* _tx_cmd_seq
    pending,   \* _pending_acks: sequence number -> ticket
    object,    \* each ticket's fields
    issued,    \* tickets made
    pc, mine, bump, result,   \* each caller: step, ticket, locals
    down, up,  \* command frames and ack frames sent
    found,     \* acks whose ticket was looked up and not yet set
    restarts,
    status,    \* what each call's client has been told
    executed   \* the calls whose follower carried the command out

vars == <<txSeq, pending, object, issued, pc, mine, bump, result, down, up,
          found, restarts, status, executed>>
callers == <<pc, mine, bump, result>>
radio == <<down, up>>
bridge == <<txSeq, pending, object, issued, found>>
history == <<status, executed>>

Tickets == 1 .. MaxCommands
Seqs == 0 .. SeqMod - 1
Steps == {"idle", "load", "store", "register", "send", "wait", "pop"}
Objects == [seq : Seqs, drone : Followers \cup {None},
            success : BOOLEAN, set : BOOLEAN]
Unmade == [seq |-> 0, drone |-> None, success |-> FALSE, set |-> FALSE]
Commands == [drone : Followers, seq : Seqs, ticket : Tickets]
Acks == [drone : Followers, seq : Seqs, ok : BOOLEAN]
Lookups == [ticket : Tickets, ok : BOOLEAN]

Init ==
    /\ txSeq = 0 /\ pending = [s \in Seqs |-> None] /\ issued = 0
    /\ object = [k \in Tickets |-> Unmade]
    /\ pc = [c \in Callers |-> "idle"] /\ mine = [c \in Callers |-> None]
    /\ bump = [c \in Callers |-> 0] /\ result = [c \in Callers |-> FALSE]
    /\ down = {} /\ up = {} /\ found = {} /\ restarts = 0
    /\ status = [k \in Tickets |-> "unused"] /\ executed = {}

----------------------------------------------------------------------------
(* _issue_command, by caller c.  Only the two uses of the table hold its    *)
(* lock: the sequence counter is read, read again and stored without it.    *)

At(c, step) == pc[c] = step
Go(c, step) == pc' = [pc EXCEPT ![c] = step]
SeqOf(c) == object[mine[c]].seq

Begin(c) ==
    /\ At(c, "idle") /\ issued < MaxCommands
    /\ \E d \in Followers :
         object' = [object EXCEPT ![issued + 1] =
                      [seq |-> txSeq, drone |-> d,
                       success |-> FALSE, set |-> FALSE]]
    /\ issued' = issued + 1 /\ mine' = [mine EXCEPT ![c] = issued + 1]
    /\ status' = [status EXCEPT ![issued + 1] = "open"] /\ Go(c, "load")
    /\ UNCHANGED <<txSeq, pending, found, bump, result, radio, restarts,
                   executed>>

\* mutant: the number is not masked
LoadUnmasked(c) ==
    /\ At(c, "load") /\ bump' = [bump EXCEPT ![c] = txSeq + 1]
    /\ Go(c, "store")
    /\ UNCHANGED <<bridge, mine, result, radio, restarts, history>>

Load(c) ==
    /\ At(c, "load") /\ bump' = [bump EXCEPT ![c] = (txSeq + 1) % SeqMod]
    /\ Go(c, "store")
    /\ UNCHANGED <<bridge, mine, result, radio, restarts, history>>

Store(c) ==
    /\ At(c, "store") /\ txSeq' = bump[c] /\ Go(c, "register")
    /\ UNCHANGED <<pending, object, issued, found, mine, bump, result, radio,
                   restarts, history>>

\* mutant: filed under the counter, which may have moved on
RegisterAtCounter(c) ==
    /\ At(c, "register")
    /\ pending' = [pending EXCEPT ![txSeq] = mine[c]] /\ Go(c, "send")
    /\ UNCHANGED <<txSeq, object, issued, found, mine, bump, result, radio,
                   restarts, history>>

Register(c) ==
    /\ At(c, "register")
    /\ pending' = [pending EXCEPT ![SeqOf(c)] = mine[c]] /\ Go(c, "send")
    /\ UNCHANGED <<txSeq, object, issued, found, mine, bump, result, radio,
                   restarts, history>>

Send(c) ==
    /\ At(c, "send")
    /\ down' = down \cup {[drone |-> object[mine[c]].drone, seq |-> SeqOf(c),
                           ticket |-> mine[c]]}
    /\ Go(c, "wait")
    /\ UNCHANGED <<bridge, mine, bump, result, up, restarts, history>>

Answered(c) ==
    /\ At(c, "wait") /\ object[mine[c]].set
    /\ result' = [result EXCEPT ![c] = object[mine[c]].success]
    /\ Go(c, "pop")
    /\ UNCHANGED <<bridge, mine, bump, radio, restarts, history>>

\* mutant: the wait has no deadline
NoTimeout(c) == At(c, "wait") /\ object[mine[c]].set /\ UNCHANGED vars

\* The deadline passes, between two waits perhaps, with the event set.
Timeout(c) ==
    /\ At(c, "wait") /\ result' = [result EXCEPT ![c] = FALSE]
    /\ Go(c, "pop")
    /\ UNCHANGED <<bridge, mine, bump, radio, restarts, history>>

\* mutant: the entry stays in the table
PopNothing(c) ==
    /\ At(c, "pop") /\ Go(c, "idle")
    /\ status' = [status EXCEPT ![mine[c]] =
                     IF result[c] THEN "ok" ELSE "failed"]
    /\ mine' = [mine EXCEPT ![c] = None]
    /\ result' = [result EXCEPT ![c] = FALSE]
    /\ bump' = [bump EXCEPT ![c] = 0]
    /\ UNCHANGED <<bridge, radio, restarts, executed>>

\* The entry at the call's number is popped, whosever it is by now.
Pop(c) ==
    /\ At(c, "pop") /\ pending' = [pending EXCEPT ![SeqOf(c)] = None]
    /\ status' = [status EXCEPT ![mine[c]] =
                     IF result[c] THEN "ok" ELSE "failed"]
    /\ mine' = [mine EXCEPT ![c] = None] /\ Go(c, "idle")
    /\ result' = [result EXCEPT ![c] = FALSE]
    /\ bump' = [bump EXCEPT ![c] = 0]
    /\ UNCHANGED <<txSeq, object, issued, found, radio, restarts, executed>>

----------------------------------------------------------------------------
(* _on_ack: the ticket is found under the lock and set after it is released. *)
(* The drone that sent the ack is not compared with the ticket's.            *)

Lookup(a) ==
    /\ a \in up
    /\ found' = IF pending[a.seq] = None THEN found
                ELSE found \cup {[ticket |-> pending[a.seq], ok |-> a.ok]}
    /\ UNCHANGED <<txSeq, pending, object, issued, callers, radio, restarts,
                   history>>

Apply(f) ==
    /\ f \in found /\ found' = found \ {f}
    /\ object' = [object EXCEPT ![f.ticket].success = f.ok,
                               ![f.ticket].set = TRUE]
    /\ UNCHANGED <<txSeq, pending, issued, callers, radio, restarts, history>>

----------------------------------------------------------------------------
(* The follower, and the radio *)

\* mutant: the ack does not wait for the outcome
ExecuteBlindly(m) ==
    /\ m \in down
    /\ \E ran \in BOOLEAN :
         /\ executed' = IF ran THEN executed \cup {m.ticket} ELSE executed
         /\ up' = up \cup {[drone |-> m.drone, seq |-> m.seq, ok |-> TRUE]}
    /\ UNCHANGED <<bridge, callers, down, restarts, status>>

\* _on_command_follower on the drone the frame is addressed to.  The local
\* MAVROS accepts, refuses, or is silent past _await_future's deadline: then
\* the ack says failure, and the vehicle may have obeyed.
Execute(m) ==
    /\ m \in down
    /\ \E ran, ok \in BOOLEAN :
         /\ ok => ran
         /\ executed' = IF ran THEN executed \cup {m.ticket} ELSE executed
         /\ up' = up \cup {[drone |-> m.drone, seq |-> m.seq, ok |-> ok]}
    /\ UNCHANGED <<bridge, callers, down, restarts, status>>

\* The leader's bridge dies and comes back: its clients' calls fail, and the
\* numbers start over while frames of the old run are still in the air.
Restart ==
    /\ restarts < MaxRestarts /\ restarts' = restarts + 1
    /\ txSeq' = 0 /\ pending' = [s \in Seqs |-> None] /\ found' = {}
    /\ pc' = [c \in Callers |-> "idle"] /\ mine' = [c \in Callers |-> None]
    /\ bump' = [c \in Callers |-> 0] /\ result' = [c \in Callers |-> FALSE]
    /\ status' = [k \in Tickets |-> IF status[k] = "open" THEN "failed"
                                                         ELSE status[k]]
    /\ UNCHANGED <<object, issued, radio, executed>>

----------------------------------------------------------------------------

Proceed(c) == \/ Load(c) \/ Store(c) \/ Register(c) \/ Send(c)
              \/ Answered(c) \/ Timeout(c) \/ Pop(c)

Next == \/ \E c \in Callers : Begin(c) \/ Proceed(c)
        \/ \E a \in up : Lookup(a)
        \/ \E f \in found : Apply(f)
        \/ \E m \in down : Execute(m)
        \/ Restart

\* A call that was begun goes on: the wait has a deadline.  Nothing is assumed
\* of the radio or of the follower.
Fairness == \A c \in Callers : WF_vars(Proceed(c))
Spec == Init /\ [][Next]_vars /\ Fairness

----------------------------------------------------------------------------
(* Properties *)

TypeOK ==
    /\ txSeq \in Seqs /\ pending \in [Seqs -> Tickets \cup {None}]
    /\ object \in [Tickets -> Objects] /\ issued \in 0 .. MaxCommands
    /\ pc \in [Callers -> Steps] /\ mine \in [Callers -> Tickets \cup {None}]
    /\ bump \in [Callers -> Seqs] /\ result \in [Callers -> BOOLEAN]
    /\ down \in SUBSET Commands /\ up \in SUBSET Acks
    /\ found \in SUBSET Lookups /\ restarts \in 0 .. MaxRestarts
    /\ status \in [Tickets -> {"unused", "open", "ok", "failed"}]
    /\ executed \in SUBSET Tickets

\* Two calls were made under one sequence number.
Clash == \E j, k \in 1 .. issued : j # k /\ object[j].seq = object[k].seq

\* A call is answered with success only if its own drone carried its own
\* command out, unless two calls have shared a sequence number: losses, late
\* acks, refusals and timeouts alone never make a success of a failure.
SuccessIsHonest ==
    ~Clash => \A k \in Tickets : status[k] = "ok" => k \in executed

\* The table of pending acks does not leak: an entry belongs to a call that
\* is still under way, whatever timeouts, restarts and shared numbers do.
PendingHasCaller ==
    \A s \in Seqs : pending[s] # None =>
        \E c \in Callers : mine[c] = pending[s]
                           /\ pc[c] \in {"send", "wait", "pop"}

\* Every call is answered, though no frame need ever arrive.
EveryCallReturns ==
    \A k \in Tickets : status[k] = "open" ~> status[k] \in {"ok", "failed"}

\* The command services the bridge offers in place of the followers' MAVROS:
\* with any number of callers, and through losses, late and repeated frames,
\* refusals, timeouts and restarts, a call is answered once, and with success
\* only if a call of its own sequence number was carried out.
NumberOf == [k \in Tickets |-> IF k <= issued THEN object[k].seq ELSE None]
Service == INSTANCE CommandService WITH
             Tickets <- Tickets, Numbers <- Seqs, number <- NumberOf
ImplementsService == Service!Spec

\* The same with every call its own number: "each adapter sees a topic surface
\* indistinguishable from a real MAVROS", and a call "block[s] waiting for the
\* matching ORYNTH_ACK" (the module docstring).  The bridge does not do that.
TicketOf == [k \in Tickets |-> IF k <= issued THEN k ELSE None]
Mavros == INSTANCE CommandService WITH
            Tickets <- Tickets, Numbers <- Tickets, number <- TicketOf
ImplementsMavros == Mavros!Spec
=============================================================================
