--------------------------- MODULE TransferLedger ---------------------------
(***************************************************************************)
(* The transfer-memory ledger, crates/engine/src/io/transfer_ledger.rs.    *)
(*                                                                         *)
(* A reservation of some bytes is charged to three pools in a fixed order: *)
(* its component's, its job's and the engine's aggregate.  A pool is a     *)
(* counter with a FIFO of waiters.  A client here is one reservation and   *)
(* the task that works on it.  Every acquisition of a pool's lock is an    *)
(* action, and so is every notification sent after the lock is released;   *)
(* a future can be dropped only where it is parked.                        *)
(*                                                                         *)
(* A job uses one write lane.  The legacy lane reserves a received chunk   *)
(* as a frame and retags it for the writer.  The pipelined lane reserves a *)
(* writer quantum before it reads, then grows or shrinks it to the chunk   *)
(* that came.  In both lanes the coordinator reserves checkpoints.         *)
(***************************************************************************)
EXTENDS Integers, Sequences, FiniteSetsExt, SequencesExt

CONSTANTS
    Clients,
    JobOf,      \* function: the job of each client
    Sizes,      \* the byte counts clients ask for
    Caps        \* function: capacity of each kind of pool

ASSUME LedgerAssumption ==
    /\ Sizes \subseteq Nat \ {0}
    /\ Caps \in [{"frames", "writer", "checkpoint", "job", "aggregate"} -> Nat]

VARIABLES
    lane,           \* the write lane of each job
    outstanding,    \* bytes charged to each pool
    waiters,        \* the FIFO of each pool's tickets
    woken,          \* a ticket's stored notification
    held,           \* the reservation: component and bytes (0: none)
    op              \* the call in progress

ledgerVars == <<lane, outstanding, waiters, woken, held, op>>

Components == {"frames", "writer", "checkpoint"}
Lanes == {"legacy", "pipelined"}
LedgerJobs == Range(JobOf)
Aggregate == <<"aggregate", 0>>
Pools == ((Components \cup {"job"}) \X LedgerJobs) \cup {Aggregate}
Cap(p) == Caps[p[1]]

(* The fixed acquisition order. *)
Chain(c, comp) == <<<<comp, JobOf[c]>>, <<"job", JobOf[c]>>, Aggregate>>
TightestCap(comp) == Min({Caps[comp], Caps["job"], Caps["aggregate"]})

NoClient == "nobody"
NoOp == [kind |-> "none", comp |-> "frames", bytes |-> 0, got |-> <<>>, want |-> <<>>,
         phase |-> "probe", wake |-> NoClient]
NoReservation == [comp |-> "frames", bytes |-> 0]

LedgerInit ==
    /\ lane \in [LedgerJobs -> Lanes]
    /\ outstanding = [p \in Pools |-> 0]
    /\ waiters = [p \in Pools |-> <<>>]
    /\ woken = [c \in Clients |-> FALSE]
    /\ held = [c \in Clients |-> NoReservation]
    /\ op = [c \in Clients |-> NoOp]

Acquiring(c) == op[c].kind \in {"reserve", "try", "grow", "retag"}
Idle(c) == op[c] = NoOp
Lane(c) == lane[JobOf[c]]

(* The component the lane admits its payload to. *)
EntryComponent(c) == IF Lane(c) = "legacy" THEN "frames" ELSE "writer"

Phase(c, name) == Acquiring(c) /\ op[c].phase = name /\ op[c].want # <<>>
Pool(c) == Head(op[c].want)

Call(c, kind, comp, bytes, want) ==
    op' = [op EXCEPT ![c] = [NoOp EXCEPT !.kind = kind, !.comp = comp, !.bytes = bytes,
                                         !.want = want]]
Undo(c, bytes, got) ==
    op' = [op EXCEPT ![c] = [NoOp EXCEPT !.kind = "undo", !.bytes = bytes, !.got = got]]

-----------------------------------------------------------------------------
(* The calls.  An oversize request is refused and changes nothing. *)

Reserve(c, comp, bytes) ==
    /\ Idle(c) /\ held[c].bytes = 0
    /\ comp \in {EntryComponent(c), "checkpoint"}
    /\ bytes <= TightestCap(comp)
    /\ Call(c, "reserve", comp, bytes, Chain(c, comp))
    /\ UNCHANGED <<outstanding, waiters, woken, held>>

(* try_reserve makes the same acquisitions and never waits. *)
TryReserve(c, comp, bytes) ==
    /\ Idle(c) /\ held[c].bytes = 0
    /\ comp \in {EntryComponent(c), "checkpoint"}
    /\ bytes <= TightestCap(comp)
    /\ Call(c, "try", comp, bytes, Chain(c, comp))
    /\ UNCHANGED <<outstanding, waiters, woken, held>>

Grow(c, extra) ==
    /\ Idle(c) /\ held[c].bytes > 0
    /\ Lane(c) = "pipelined" /\ held[c].comp = "writer"
    /\ held[c].bytes + extra <= TightestCap(held[c].comp)
    /\ Call(c, "grow", held[c].comp, extra, Chain(c, held[c].comp))
    /\ UNCHANGED <<outstanding, waiters, woken, held>>

(* Payload moves from the frames to the writer; job and aggregate stay charged. *)
Retag(c) ==
    /\ Idle(c) /\ held[c].bytes > 0 /\ held[c].comp = "frames"
    /\ held[c].bytes <= Caps["writer"]
    /\ Call(c, "retag", "writer", held[c].bytes, <<<<"writer", JobOf[c]>>>>)
    /\ UNCHANGED <<outstanding, waiters, woken, held>>

(* shrink_to, and for bytes = 0 the reservation's drop. *)
ShrinkTo(c, bytes) ==
    /\ Idle(c) /\ bytes < held[c].bytes
    /\ bytes = 0 \/ (Lane(c) = "pipelined" /\ held[c].comp = "writer")
    /\ held' = [held EXCEPT ![c] = IF bytes = 0 THEN NoReservation ELSE [@ EXCEPT !.bytes = bytes]]
    /\ Undo(c, held[c].bytes - bytes, Chain(c, held[c].comp))
    /\ UNCHANGED <<outstanding, waiters, woken>>

-----------------------------------------------------------------------------
(* Pool::acquire_fair on the next pool of the chain. *)

Fits(p, bytes) == outstanding[p] + bytes <= Cap(p)

Charge(c) == outstanding' = [outstanding EXCEPT ![Pool(c)] = @ + op[c].bytes]

(* The pool is charged; go on with the rest of the chain. *)
Advanced(c) == [op[c] EXCEPT !.got = Append(@, Pool(c)), !.want = Tail(@), !.phase = "probe"]

(* A refused try_reserve releases the pool charged last: the guard of the one
   before it was disarmed when the next pool was acquired. *)
GivenUp(o) ==
    [NoOp EXCEPT !.kind = "undo", !.bytes = o.bytes,
                 !.got = IF o.got = <<>> THEN <<>> ELSE <<Last(o.got)>>]

(* probe_and_acquire: a queued waiter gates the fast path. *)
Probe(c) ==
    /\ Phase(c, "probe")
    /\ IF waiters[Pool(c)] = <<>> /\ Fits(Pool(c), op[c].bytes)
       THEN Charge(c) /\ op' = [op EXCEPT ![c] = Advanced(c)]
       ELSE /\ op' = [op EXCEPT ![c] = IF op[c].kind = "try" THEN GivenUp(op[c])
                                     ELSE [op[c] EXCEPT !.phase = "register"]]
            /\ UNCHANGED outstanding
    /\ UNCHANGED <<waiters, woken, held>>

(* Ticket::register. *)
Register(c) ==
    /\ Phase(c, "register")
    /\ waiters' = [waiters EXCEPT ![Pool(c)] = Append(@, c)]
    /\ woken' = [woken EXCEPT ![c] = FALSE]
    /\ op' = [op EXCEPT ![c].phase = "poll"]
    /\ UNCHANGED <<outstanding, held>>

(* poll_head: only the head may acquire. *)
PollHead(c) ==
    /\ Phase(c, "poll")
    /\ IF Head(waiters[Pool(c)]) = c /\ Fits(Pool(c), op[c].bytes)
       THEN Charge(c) /\ op' = [op EXCEPT ![c].phase = "leave"]
       ELSE op' = [op EXCEPT ![c].phase = "parked"] /\ UNCHANGED outstanding
    /\ UNCHANGED <<waiters, woken, held>>

Wake(c) ==
    /\ Phase(c, "parked") /\ woken[c]
    /\ woken' = [woken EXCEPT ![c] = FALSE]
    /\ op' = [op EXCEPT ![c].phase = "poll"]
    /\ UNCHANGED <<outstanding, waiters, held>>

HeadOf(queue) == IF queue = <<>> THEN NoClient ELSE Head(queue)

(* Mutant of Deregister: the new head is not told. *)
DeregisterSilently(c, next) ==
    LET queue == SelectSeq(waiters[Pool(c)], LAMBDA d : d # c)
    IN  /\ waiters' = [waiters EXCEPT ![Pool(c)] = queue]
        /\ op' = [d \in Clients |->
                    IF d = c THEN next
                    ELSE IF op[d].wake = c THEN [op[d] EXCEPT !.wake = NoClient] ELSE op[d]]

(* Ticket::deregister: leave the queue, then notify its new head.  A
   notification still on its way to this ticket is lost with it. *)
Deregister(c, next) ==
    LET queue == SelectSeq(waiters[Pool(c)], LAMBDA d : d # c)
    IN  /\ waiters' = [waiters EXCEPT ![Pool(c)] = queue]
        /\ op' = [d \in Clients |->
                    IF d = c THEN [next EXCEPT !.wake = HeadOf(queue)]
                    ELSE IF op[d].wake = c THEN [op[d] EXCEPT !.wake = NoClient] ELSE op[d]]

Leave(c) ==
    /\ Phase(c, "leave")
    /\ Deregister(c, Advanced(c))
    /\ UNCHANGED <<outstanding, woken, held>>

(* Mutant of RolledBack: the pools charged so far are forgotten. *)
RolledBackNothing(o) == [NoOp EXCEPT !.kind = "undo"]

(* What a dropped call still has to release: the rollback guards. *)
RolledBack(o) == [NoOp EXCEPT !.kind = "undo", !.bytes = o.bytes, !.got = o.got]

(* The waiting future is dropped. *)
Cancel(c) ==
    /\ Phase(c, "parked")
    /\ Deregister(c, RolledBack(op[c]))
    /\ UNCHANGED <<outstanding, woken, held>>

(* notify_one, after the lock. *)
Notify(c) ==
    /\ op[c].wake # NoClient
    /\ woken' = [woken EXCEPT ![op[c].wake] = TRUE]
    /\ op' = [op EXCEPT ![c].wake = NoClient]
    /\ UNCHANGED <<outstanding, waiters, held>>

(* Every pool is charged.  A retag then releases the old component. *)
Finish(c) ==
    /\ Acquiring(c) /\ op[c].want = <<>> /\ op[c].wake = NoClient
    /\ CASE op[c].kind \in {"reserve", "try"} ->
              /\ held' = [held EXCEPT ![c] = [comp |-> op[c].comp, bytes |-> op[c].bytes]]
              /\ op' = [op EXCEPT ![c] = NoOp]
         [] op[c].kind = "grow" ->
              /\ held' = [held EXCEPT ![c].bytes = @ + op[c].bytes]
              /\ op' = [op EXCEPT ![c] = NoOp]
         [] op[c].kind = "retag" ->
              /\ held' = [held EXCEPT ![c].comp = "writer"]
              /\ Undo(c, op[c].bytes, <<<<"frames", JobOf[c]>>>>)
    /\ UNCHANGED <<outstanding, waiters, woken>>

(* Pool::release, last acquired first. *)
Release(c) ==
    /\ op[c].kind = "undo" /\ op[c].got # <<>> /\ op[c].wake = NoClient
    /\ LET p == Last(op[c].got)
       IN  /\ outstanding' = [outstanding EXCEPT ![p] = @ - op[c].bytes]
           /\ op' = [op EXCEPT ![c].got = Front(@), ![c].wake = HeadOf(waiters[p])]
    /\ UNCHANGED <<waiters, woken, held>>

Undone(c) ==
    /\ op[c].kind = "undo" /\ op[c].got = <<>> /\ op[c].wake = NoClient
    /\ op' = [op EXCEPT ![c] = NoOp]
    /\ UNCHANGED <<outstanding, waiters, woken, held>>

-----------------------------------------------------------------------------
(* What a task does once its call has been made. *)
Step(c) ==
    \/ op[c].wake = NoClient /\ (Probe(c) \/ Register(c) \/ PollHead(c) \/ Leave(c))
    \/ Wake(c) \/ Notify(c) \/ Finish(c) \/ Release(c) \/ Undone(c)

LedgerNext ==
    /\ UNCHANGED lane
    /\ \E c \in Clients :
        \/ \E comp \in Components, n \in Sizes : Reserve(c, comp, n) \/ TryReserve(c, comp, n)
        \/ \E n \in Sizes : Grow(c, n)
        \/ \E n \in Sizes \cup {0} : ShrinkTo(c, n)
        \/ Retag(c) \/ Cancel(c) \/ Step(c)

LedgerSpec == LedgerInit /\ [][LedgerNext]_ledgerVars

(* Tasks run, and the write a reservation pays for completes. *)
LedgerFairness == \A c \in Clients : WF_ledgerVars(UNCHANGED lane /\ Step(c)) /\ SF_ledgerVars(UNCHANGED lane /\ ShrinkTo(c, 0))

-----------------------------------------------------------------------------
(* What a client has charged to a pool: its reservation and its call's part. *)
Charged(c, p) ==
    (IF held[c].bytes > 0 /\ p \in Range(Chain(c, held[c].comp)) THEN held[c].bytes ELSE 0)
    + (IF p \in Range(op[c].got) \/ (Phase(c, "leave") /\ p = Pool(c)) THEN op[c].bytes ELSE 0)

(* "Admitted once, released exactly once": each pool holds what the live
   reservations and the calls in progress charged to it, through growth,
   shrinking, retagging and calls dropped half-way. *)
ChargesExact ==
    \A p \in Pools : outstanding[p] = MapThenSumSet(LAMBDA c : Charged(c, p), Clients)

(* Admission is fair and no wake-up is lost: a call does not wait for ever as
   long as reservations are dropped, unless some reservation waits for ever
   to grow, which holds bytes while it waits. *)
CallsReturn ==
    (\A c \in Clients : []<>~Acquiring(c)) \/ <>[](\E c \in Clients : op[c].kind = "grow")
=============================================================================
