---------------------------- MODULE WriterLane ----------------------------
(* A blocking writer lane, io/writer_lane.rs: one long-lived thread takes
   writes from a channel of one place and acknowledges each to the worker that
   waits for it.  The lane ends when the last sender is gone.  The bounded pool
   of byte buffers, io/buffer_pool.rs, that chunks are copied into: every step
   holds the pool's lock once, and an acquisition that has to wait looks for a
   free buffer under one lock and takes it under the next. *)
EXTENDS Naturals, FiniteSets, Sequences

CONSTANTS
    Submitters,     \* workers with a LaneHandle
    LaneOffsets,    \* what they write
    Users,          \* who takes buffers from the pool
    MaxBuffers      \* of the pool

VARIABLES
    laneQueue,      \* the queued request: <<>> or one <<worker, offset>>
    writing,        \* the request being written: <<>> or one
    submitter,      \* each worker: what it awaits, what it was told, whether it holds a handle
    onDisk,         \* offsets written
    owner,          \* the coordinator: "open", "joining" (its sender dropped) or "joined"
    parked,         \* idle buffers in the pool
    allocated,      \* buffers in existence
    user            \* "rest", "waits" for a buffer, has "seen" one, "holds" one

ASSUME PoolAssumption == IsFiniteSet(Users) /\ MaxBuffers \in Nat

laneVars == <<laneQueue, writing, submitter, onDisk, owner>>

LaneInit ==
    /\ laneQueue = <<>> /\ writing = <<>>
    /\ submitter = [w \in Submitters |-> [handle |-> TRUE, awaits |-> <<>>, told |-> {}, failed |-> {}]]
    /\ onDisk = {} /\ owner = "open"

Fresh(o) == \A w \in Submitters : o \notin submitter[w].told \cup submitter[w].failed

(* LaneHandle::write sends the chunk when there is room and awaits its answer. *)
SendWrite(w, o) ==
    /\ submitter[w].handle /\ submitter[w].awaits = <<>> /\ laneQueue = <<>>
    /\ Fresh(o) /\ \A v \in Submitters : submitter[v].awaits # <<o>>
    /\ o \notin onDisk /\ writing # <<<<w, o>>>>
    /\ laneQueue' = <<<<w, o>>>>
    /\ submitter' = [submitter EXCEPT ![w].awaits = <<o>>]
    /\ UNCHANGED <<writing, onDisk, owner>>

(* The worker's future is dropped; what it sent stays in the lane. *)
Abandon(w) ==
    /\ submitter[w].awaits # <<>>
    /\ submitter' = [submitter EXCEPT ![w].awaits = <<>>]
    /\ UNCHANGED <<laneQueue, writing, onDisk, owner>>

DropHandle(w) ==
    /\ submitter[w].handle /\ submitter[w].awaits = <<>>
    /\ submitter' = [submitter EXCEPT ![w].handle = FALSE]
    /\ UNCHANGED <<laneQueue, writing, onDisk, owner>>

LaneReceive ==
    /\ writing = <<>> /\ laneQueue # <<>>
    /\ writing' = laneQueue /\ laneQueue' = <<>>
    /\ UNCHANGED <<submitter, onDisk, owner>>

Answered(w, o, ok) ==
    IF ok THEN [submitter[w] EXCEPT !.awaits = <<>>, !.told = @ \cup {o}]
          ELSE [submitter[w] EXCEPT !.awaits = <<>>, !.failed = @ \cup {o}]

(* write_blocking and the answer, which is discarded when nobody awaits it *)
LaneWrite(ok) ==
    /\ writing # <<>>
    /\ LET w == writing[1][1]  o == writing[1][2] IN
       /\ onDisk' = IF ok THEN onDisk \cup {o} ELSE onDisk
       /\ submitter' = IF submitter[w].awaits # <<o>> THEN submitter
                       ELSE [submitter EXCEPT ![w] = Answered(w, o, ok)]
    /\ writing' = <<>>
    /\ UNCHANGED <<laneQueue, owner>>

(* shutdown drops the coordinator's sender and joins. *)
ShutdownLane ==
    /\ owner = "open" /\ owner' = "joining"
    /\ UNCHANGED <<laneQueue, writing, submitter, onDisk>>

(* blocking_recv yields None: nothing is queued and every sender is gone. *)
LaneEnded == writing = <<>> /\ laneQueue = <<>> /\ \A w \in Submitters : ~submitter[w].handle

JoinLane ==
    /\ owner = "joining" /\ LaneEnded
    /\ owner' = "joined"
    /\ UNCHANGED <<laneQueue, writing, submitter, onDisk>>

LaneNext ==
    \/ \E w \in Submitters : (\E o \in LaneOffsets : SendWrite(w, o)) \/ Abandon(w) \/ DropHandle(w)
    \/ LaneReceive \/ (\E ok \in BOOLEAN : LaneWrite(ok)) \/ ShutdownLane \/ JoinLane

LaneSpec == LaneInit /\ [][LaneNext]_laneVars

---------------------------------------------------------------------------
(* The buffer pool. *)

poolVars == <<parked, allocated, user>>

PoolInit ==
    /\ parked = 0 /\ allocated = 0
    /\ user = [u \in Users |-> "rest"]

Available == parked > 0 \/ allocated < MaxBuffers

acquire_inner(u) ==
    /\ IF parked > 0 THEN parked' = parked - 1 /\ UNCHANGED allocated
                     ELSE allocated' = allocated + 1 /\ UNCHANGED parked
    /\ user' = [user EXCEPT ![u] = "holds"]

(* try_acquire, and the fast path of acquire; a refusal leaves all as it is *)
TryTake(u) == user[u] = "rest" /\ Available /\ acquire_inner(u)

(* acquire hands over to block_until_available, which returns once there is one *)
BeginWait(u) ==
    /\ user[u] = "rest" /\ ~Available
    /\ user' = [user EXCEPT ![u] = "waits"]
    /\ UNCHANGED <<parked, allocated>>

block_until_available(u) ==
    /\ user[u] = "waits" /\ Available
    /\ user' = [user EXCEPT ![u] = "seen"]
    /\ UNCHANGED <<parked, allocated>>

TakeSeen(u) == user[u] = "seen" /\ acquire_inner(u)

(* release, when the buffer is dropped: parked, or destroyed when the park is full *)
ReleaseBuffer(u) ==
    /\ user[u] = "holds"
    /\ IF parked < MaxBuffers
       THEN parked' = parked + 1 /\ UNCHANGED allocated
       ELSE allocated' = allocated - 1 /\ UNCHANGED parked
    /\ user' = [user EXCEPT ![u] = "rest"]

PoolNext ==
    \E u \in Users :
        TryTake(u) \/ BeginWait(u) \/ block_until_available(u) \/ TakeSeen(u) \/ ReleaseBuffer(u)

PoolSpec == PoolInit /\ [][PoolNext]_poolVars

---------------------------------------------------------------------------
(* A worker told that its chunk was written can rely on it: it publishes its
   progress on that word. *)
AcksTruthful == \A w \in Submitters : submitter[w].told \subseteq onDisk

(* Once shutdown has returned nothing writes any more, not even on behalf of a
   worker that stopped waiting, so the output can be reclaimed. *)
JoinedQuiet == [][owner = "joined" => UNCHANGED <<onDisk, laneQueue, writing>>]_laneVars

(* The buffers in existence are the parked ones and those held: whatever
   acquisitions raced, none is counted twice or forgotten, so a pool that went
   over its maximum comes back (acquire_inner, release). *)
BuffersAccounted == allocated = parked + Cardinality({u \in Users : user[u] = "holds"})
=============================================================================
