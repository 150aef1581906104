--------------------------- MODULE WritePipeline ---------------------------
(***************************************************************************)
(* A segmented job with pipelined writes (transfer.pipeline_writes),       *)
(* crates/engine/src/job/segmented.rs: consume_pipelined_body with the     *)
(* per-lease frontier of io/write_frontier.rs, the workers' exit, and      *)
(* run_segmented's order of joins, over one Scheduler, one WriteExecutor   *)
(* and the writer component of the transfer ledger.                        *)
(*                                                                         *)
(* An action is what a task does up to its next await or lock.  Sizes of   *)
(* responses are exact; short responses, retry budgets, generation changes *)
(* and the coordinator's own steps are in module SegmentedJob.             *)
(***************************************************************************)
EXTENDS WriteExecutor, Integers

CONSTANTS
    TotalSize, MinSegment, MaxSegment, Targets, SplitThreshold, MaxLeases,
    NWorkers,
    Chunks,         \* sizes of the body frames the transport may deliver
    FrameQuantum,   \* writer.frame_quantum: the pre-read reservation
    ReadAhead,      \* transfer_memory.worker_read_ahead_bytes
    WriterCap,      \* transfer_memory.writer_max_bytes
    Scenarios       \* what the surroundings may do

(* A scenario: the faults and controls, each of which happens at most once, and
   the workers and pool threads there are. *)
PipelineEvents == {"bodyfault", "bodyfatal", "writefail", "savefail", "cancel", "pause"}
Scenario == [events : SUBSET PipelineEvents, workers : SUBSET Sessions, threads : SUBSET Threads]

ASSUME PipelineAssumption ==
    /\ Sessions = 0 .. NWorkers - 1
    /\ Scenarios \subseteq Scenario
    /\ FrameQuantum <= ReadAhead /\ ReadAhead <= WriterCap
    /\ \A n \in Chunks : n <= WriterCap /\ n <= MaxQueuedBytes

VARIABLES
    pending, completed, active, nextLease, generation, divisor, target, resolved,
    sampler,        \* the scheduler
    pc, held,       \* each worker: where it is, and its copy of its lease
    body,           \* pos (next byte), eff (effective_end), chunk, cut
    frontier,       \* LeaseFrontier: outstanding, acked, high (received_high_water)
    frame,          \* bytes of the pre-read reservation, 0 when there is none
    reservations,   \* PipelinedWriter.reservations
    ledger,         \* bytes of the writer component in use
    cell, unseen, fatal, cancelled, paused,
    err,            \* the error a worker is about to install
    checkpoint,     \* the ranges of the last save
    main,           \* run_segmented: joining, closing, closed, reclaimed
    events          \* what may still happen

schedVars == <<pending, completed, active, nextLease, generation, divisor, target, resolved, sampler>>
workerVars == <<held, body, frontier, frame, reservations, err>>
controlVars == <<cancelled, paused, main, events>>
sharedVars == <<cell, unseen, fatal, checkpoint, ledger>>
vars == <<executorVars, schedVars, workerVars, controlVars, sharedVars, pc>>

Sched == INSTANCE Scheduler WITH Divisors <- {0}, MaxGeneration <- 1

Workers == 0 .. NWorkers - 1
NoLease == [id |-> 0, generation |-> 0, start |-> 0, end |-> 0]
NoBody == [pos |-> 0, eff |-> 0, chunk |-> 0, cut |-> FALSE]
NoFrontier == [outstanding |-> {}, acked |-> {}, high |-> 0]
NoCell == [lease |-> 0, generation |-> 0, start |-> 0, written |-> 0, received |-> 0]

InitFor(scenario) ==
    /\ ExecutorInit(scenario.workers, scenario.threads)
    /\ Sched!InitWith({})
    /\ pc = [w \in Workers |-> IF w \in scenario.workers THEN "idle" ELSE "exited"]
    /\ held = [w \in Workers |-> NoLease]
    /\ body = [w \in Workers |-> NoBody]
    /\ frontier = [w \in Workers |-> NoFrontier]
    /\ frame = [w \in Workers |-> 0]
    /\ reservations = [w \in Workers |-> {}]
    /\ ledger = 0
    /\ cell = [w \in Workers |-> NoCell]
    /\ unseen = [w \in Workers |-> FALSE]
    /\ fatal = "none" /\ err = [w \in Workers |-> "none"]
    /\ cancelled = FALSE /\ paused = FALSE
    /\ checkpoint = {}
    /\ main = "joining"
    /\ events = scenario.events

Init == \E scenario \in Scenarios : InitFor(scenario)

-----------------------------------------------------------------------------
Goto(w, to) == pc' = [pc EXCEPT ![w] = to]
MarkSeen(w) == unseen' = [unseen EXCEPT ![w] = FALSE]
NotifyTransition == unseen' = [w \in Workers |-> TRUE]
ClearCell(w) == cell' = [cell EXCEPT ![w] = NoCell]
Bytes(r) == r.off .. r.off + r.len - 1
SumLen(set) == FoldSet(LAMBDA r, sum : sum + r.len, 0, set)

Reconcile == Sched!AbsorbWorkerProgress({[lease |-> cell[w].lease,
                 generation |-> cell[w].generation, written |-> cell[w].written] : w \in Workers})

(* lease_end, and the boundary of the body it lowers. *)
Refreshed(w) ==
    IF Sched!Live(held[w].id, held[w].generation)
    THEN [body[w] EXCEPT !.eff = Sched!Min2(@, active[held[w].id].end)] ELSE body[w]

Hold(w) == held' = [held EXCEPT ![w] =
                      LET l == active'[nextLease]
                      IN  [id |-> nextLease, generation |-> l.generation,
                           start |-> l.start, end |-> l.end]]

(* A worker returns an error: its pre-read reservation is dropped. *)
ReturnError(w, e) ==
    /\ Goto(w, "failed")
    /\ err' = [err EXCEPT ![w] = e]
    /\ frame' = [frame EXCEPT ![w] = 0]
    /\ ledger' = ledger - frame[w]

Stopping(w) == cancelled \/ fatal # "none"

-----------------------------------------------------------------------------
(* worker_cycle: a lease, the tail of somebody's lease, or a park. *)

AcquireLease(w) ==
    /\ pc[w] = "idle" /\ ~Stopping(w)
    /\ Sched!Acquire /\ Hold(w)
    /\ MarkSeen(w) /\ Goto(w, "request")
    /\ UNCHANGED <<executorVars, body, frontier, frame, reservations, err, controlVars,
                   cell, fatal, checkpoint, ledger>>

FindNoWork(w) ==
    /\ pc[w] = "idle"
    /\ Stopping(w) \/ pending = {}
    /\ MarkSeen(w)
    /\ Goto(w, IF Stopping(w) \/ ~Sched!HasActive THEN "detach" ELSE "split")
    /\ UNCHANGED <<executorVars, schedVars, workerVars, controlVars, cell, fatal, checkpoint, ledger>>

(* cell_received_through. *)
ReceivedThrough(id) == Max({0} \cup {cell[w].received : w \in {v \in Workers : cell[v].lease = id}})

SplitForIdle(w) ==
    /\ pc[w] = "split"
    /\ \E b \in Sched!LargestSplittable(SplitThreshold) :
          Sched!SplitTail(b, active[b].generation, SplitThreshold, ReceivedThrough(b))
    /\ Hold(w) /\ NotifyTransition /\ Goto(w, "request")
    /\ UNCHANGED <<executorVars, body, frontier, frame, reservations, err, controlVars,
                   cell, fatal, checkpoint, ledger>>

ParkIdle(w) ==
    /\ pc[w] = "split"
    /\ \/ nextLease > MaxLeases
       \/ \A b \in DOMAIN active : b \notin Sched!LargestSplittable(SplitThreshold)
       \/ \E b \in Sched!LargestSplittable(SplitThreshold) :
             Sched!TailLen(active[b], ReceivedThrough(b)) <= Sched!Max2(SplitThreshold, 1)
    /\ Goto(w, "parked")
    /\ UNCHANGED <<executorVars, schedVars, workerVars, controlVars, sharedVars>>

WakeIdle(w) ==
    /\ pc[w] = "parked" /\ (unseen[w] \/ cancelled)
    /\ Goto(w, "idle")
    /\ UNCHANGED <<executorVars, schedVars, workerVars, controlVars, sharedVars>>

-----------------------------------------------------------------------------
(* transfer_lease up to the body: the response covers the lease. *)

Respond(w) ==
    /\ pc[w] = "request" /\ ~cancelled
    /\ body' = [body EXCEPT ![w] =
                  [pos |-> held[w].start, chunk |-> 0, cut |-> FALSE,
                   eff |-> IF Sched!Live(held[w].id, held[w].generation)
                           THEN Sched!Min2(held[w].end, active[held[w].id].end) ELSE held[w].end]]
    /\ frontier' = [frontier EXCEPT ![w] = [outstanding |-> {}, acked |-> {}, high |-> held[w].start]]
    /\ Goto(w, "top")
    /\ UNCHANGED <<executorVars, schedVars, held, frame, reservations, err, controlVars, sharedVars>>

RequestCancelled(w) ==
    /\ pc[w] = "request" /\ cancelled
    /\ ReturnError(w, "cancelled")
    /\ UNCHANGED <<executorVars, schedVars, held, body, frontier, reservations, controlVars,
                   cell, unseen, fatal, checkpoint>>

-----------------------------------------------------------------------------
(* The frontier: record_completion and acknowledged_through. *)

(* A mutant: later acknowledgements are published across a gap. *)
FurthestAcked(w, acked) == IF acked = {} THEN held[w].start ELSE Max(acked) + 1

AcknowledgedThrough(w, acked) ==
    CHOOSE b \in held[w].start .. held[w].end + 1 :
        /\ held[w].start .. b - 1 \subseteq acked
        /\ b = held[w].end + 1 \/ b \notin acked

RecordCompletion(f, done) ==
    [f EXCEPT !.outstanding = @ \ BytesOf(done.write),
              !.acked = IF done.ok THEN @ \cup BytesOf(done.write) ELSE @]

(* record_received, then record_submission. *)
RecordSubmission(f, off, len) ==
    [f EXCEPT !.outstanding = @ \cup off .. off + len - 1, !.high = Sched!Max2(@, off + len)]

(* settle_completion, at any of the places that wait for one; `to` is where the
   worker continues after a success. *)
SettleCompletion(w, to) ==
    /\ completions[w] # <<>>
    /\ LET done == Head(completions[w])
           mine == {r \in reservations[w] : r.lease = done.write.lease /\ r.off = done.write.off}
           live == done.write.lease = held[w].id
           acked == frontier[w].acked \cup BytesOf(done.write)
       IN  /\ completions' = [completions EXCEPT ![w] = Tail(@)]
           /\ reservations' = [reservations EXCEPT ![w] = @ \ mine]
           /\ frontier' = [frontier EXCEPT ![w] = IF live THEN RecordCompletion(@, done) ELSE @]
           /\ cell' = IF live /\ done.ok
                      THEN [cell EXCEPT ![w] = [lease |-> held[w].id, generation |-> held[w].generation,
                                                start |-> held[w].start,
                                                written |-> AcknowledgedThrough(w, acked),
                                                received |-> frontier[w].high]]
                      ELSE cell
           /\ IF live /\ ~done.ok
              THEN /\ Goto(w, "failed")
                   /\ err' = [err EXCEPT ![w] = "write"]
                   /\ frame' = [frame EXCEPT ![w] = 0]
                   /\ ledger' = ledger - SumLen(mine) - frame[w]
              ELSE /\ Goto(w, to)
                   /\ ledger' = ledger - SumLen(mine)
                   /\ UNCHANGED <<err, frame>>
    /\ UNCHANGED <<registry, cursor, queuedBytes, closed, thread, written, schedVars, held, body,
                   controlVars, unseen, fatal, checkpoint>>

-----------------------------------------------------------------------------
(* consume_pipelined_body. *)

HasReadAhead(reserved) == SumLen(reserved) + FrameQuantum <= ReadAhead

Top(w) ==
    /\ pc[w] = "top" /\ ~Stopping(w)
    /\ MarkSeen(w)
    /\ Goto(w, IF frame[w] # 0 THEN "poll" ELSE IF HasReadAhead(reservations[w]) THEN "reserve" ELSE "credit")
    /\ UNCHANGED <<executorVars, schedVars, workerVars, controlVars, cell, fatal, checkpoint, ledger>>

(* Cancellation, or another worker's fatal error, seen at the top of the loop or
   while waiting; only the byte-budget and rate waits are not interruptible.  A
   parked worker learns of a fatal error from the revision it publishes. *)
Interrupted(w) ==
    /\ \/ pc[w] = "top" /\ Stopping(w)
       \/ pc[w] \in {"credit", "poll", "drainEnd", "drainPause", "drainRetry"}
          /\ (cancelled \/ (fatal # "none" /\ unseen[w]))
       \/ pc[w] = "paused" /\ cancelled
    /\ pc[w] \in {"drainEnd", "drainPause", "drainRetry"} => frontier[w].outstanding # {}
    /\ ReturnError(w, "cancelled")
    /\ UNCHANGED <<executorVars, schedVars, held, body, frontier, reservations, controlVars,
                   cell, unseen, fatal, checkpoint>>

(* The wait for read-ahead ends with the completion that makes room. *)
AwaitCredit(w) ==
    /\ pc[w] = "credit"
    /\ SettleCompletion(w, IF HasReadAhead(reservations'[w]) THEN "reserve" ELSE "credit")

(* A revision that is not fatal is consumed without refreshing the boundary. *)
CreditRevision(w) ==
    /\ pc[w] \in {"credit", "drainEnd", "drainPause", "drainRetry"}
    /\ pc[w] # "credit" => frontier[w].outstanding # {}
    /\ unseen[w] /\ fatal = "none" /\ MarkSeen(w)
    /\ UNCHANGED <<executorVars, schedVars, workerVars, controlVars, cell, fatal, checkpoint, ledger, pc>>

(* The ledger admits the quantum; nothing else wakes this wait. *)
Reserve(w) ==
    /\ pc[w] = "reserve" /\ ledger + FrameQuantum <= WriterCap
    /\ frame' = [frame EXCEPT ![w] = FrameQuantum]
    /\ ledger' = ledger + FrameQuantum
    /\ Goto(w, "poll")
    /\ UNCHANGED <<executorVars, schedVars, held, body, frontier, reservations, err, controlVars,
                   cell, unseen, fatal, checkpoint>>

PollCompletion(w) == pc[w] = "poll" /\ SettleCompletion(w, "top")

PollRevision(w) ==
    /\ pc[w] = "poll" /\ unseen[w] /\ fatal = "none"
    /\ MarkSeen(w)
    /\ body' = [body EXCEPT ![w] = Refreshed(w)]
    /\ Goto(w, "top")
    /\ UNCHANGED <<executorVars, schedVars, held, frontier, frame, reservations, err, controlVars,
                   cell, fatal, checkpoint, ledger>>

DropFrame(w) == frame' = [frame EXCEPT ![w] = 0] /\ ledger' = ledger - frame[w]

(* A frame arrives; only its part up to the boundary is owned. *)
ReceiveData(w, n) ==
    /\ pc[w] = "poll" /\ ~cancelled /\ ~paused
    /\ body[w].pos + n - 1 <= held[w].end
    /\ LET owned == IF body[w].pos > body[w].eff THEN 0
                    ELSE Sched!Min2(body[w].eff + 1 - body[w].pos, n)
       IN  IF owned = 0
           THEN DropFrame(w) /\ Goto(w, "drainEnd") /\ UNCHANGED body
           ELSE /\ body' = [body EXCEPT ![w].chunk = owned, ![w].cut = owned < n]
                /\ Goto(w, "grow") /\ UNCHANGED <<frame, ledger>>
    /\ UNCHANGED <<executorVars, schedVars, held, frontier, reservations, err, controlVars,
                   cell, unseen, fatal, checkpoint>>

BodyEnds(w) ==
    /\ pc[w] = "poll" /\ ~cancelled /\ ~paused /\ body[w].pos > held[w].end
    /\ DropFrame(w) /\ Goto(w, "drainEnd")
    /\ UNCHANGED <<executorVars, schedVars, held, body, frontier, reservations, err, controlVars,
                   cell, unseen, fatal, checkpoint>>

BodyPaused(w) ==
    /\ pc[w] = "poll" /\ ~cancelled /\ paused
    /\ DropFrame(w) /\ Goto(w, "drainPause")
    /\ UNCHANGED <<executorVars, schedVars, held, body, frontier, reservations, err, controlVars,
                   cell, unseen, fatal, checkpoint>>

(* A retryable fault drains first; any other returns at once. *)
BodyFault(w) ==
    /\ pc[w] = "poll" /\ ~cancelled /\ ~paused
    /\ \/ /\ "bodyfault" \in events /\ events' = events \ {"bodyfault"}
          /\ DropFrame(w) /\ Goto(w, "drainRetry") /\ UNCHANGED err
       \/ /\ "bodyfatal" \in events /\ events' = events \ {"bodyfatal"}
          /\ ReturnError(w, "http")
    /\ UNCHANGED <<executorVars, schedVars, held, body, frontier, reservations, cancelled, paused, main,
                   cell, unseen, fatal, checkpoint>>

(* grow or shrink the reservation to the frame, then record receipt and submission. *)
GrowFrame(w) ==
    /\ pc[w] = "grow" /\ ledger - frame[w] + body[w].chunk <= WriterCap
    /\ frame' = [frame EXCEPT ![w] = body[w].chunk]
    /\ ledger' = ledger - frame[w] + body[w].chunk
    /\ frontier' = [frontier EXCEPT ![w] = RecordSubmission(@, body[w].pos, body[w].chunk)]
    /\ Goto(w, "submit")
    /\ UNCHANGED <<executorVars, schedVars, held, body, reservations, err, controlVars,
                   cell, unseen, fatal, checkpoint>>

SubmitChunk(w) ==
    /\ pc[w] = "submit"
    /\ Submit(w, [session |-> w, lease |-> held[w].id, off |-> body[w].pos, len |-> body[w].chunk])
    /\ reservations' = [reservations EXCEPT ![w] =
           @ \cup {[lease |-> held[w].id, off |-> body[w].pos, len |-> body[w].chunk]}]
    /\ frame' = [frame EXCEPT ![w] = 0]
    /\ body' = [body EXCEPT ![w].pos = @ + body[w].chunk, ![w].chunk = 0, ![w].cut = FALSE]
    /\ Goto(w, IF body[w].cut THEN "drainEnd" ELSE "top")
    /\ UNCHANGED <<schedVars, held, frontier, err, controlVars, sharedVars>>

(* drain_outstanding_writes. *)
Drain(w) ==
    /\ pc[w] \in {"drainEnd", "drainPause", "drainRetry"}
    /\ frontier[w].outstanding # {}
    /\ SettleCompletion(w, pc[w])

Drained(w) == frontier[w].outstanding = {}

(* End of body: the acknowledged prefix must end at the boundary. *)
DrainedEnd(w) ==
    /\ pc[w] = "drainEnd" /\ Drained(w)
    /\ IF AcknowledgedThrough(w, frontier[w].acked) # body[w].eff + 1
       THEN ReturnError(w, "unsettled")
       ELSE Goto(w, "final") /\ UNCHANGED <<err, frame, ledger>>
    /\ UNCHANGED <<executorVars, schedVars, held, body, frontier, reservations, controlVars,
                   cell, unseen, fatal, checkpoint>>

DrainedRetry(w) ==
    /\ pc[w] = "drainRetry" /\ Drained(w) /\ Goto(w, "retry")
    /\ UNCHANGED <<executorVars, schedVars, workerVars, controlVars, sharedVars>>

(* The pause save: the coordinator settles every cell and writes the checkpoint. *)
PauseSave(w) ==
    /\ pc[w] = "drainPause" /\ Drained(w)
    /\ Reconcile
    /\ \/ /\ checkpoint' = Sched!Settled'
          /\ Goto(w, "paused") /\ UNCHANGED <<err, events>>
       \/ /\ "savefail" \in events /\ events' = events \ {"savefail"}
          /\ Goto(w, "failed") /\ err' = [err EXCEPT ![w] = "save"] /\ UNCHANGED checkpoint
    /\ UNCHANGED <<executorVars, held, body, frontier, frame, reservations, cancelled, paused, main,
                   cell, unseen, fatal, ledger>>

Resume(w) ==
    /\ pc[w] = "paused" /\ ~paused /\ ~cancelled
    /\ Goto(w, "top")
    /\ UNCHANGED <<executorVars, schedVars, workerVars, controlVars, sharedVars>>

-----------------------------------------------------------------------------
(* The end of a lease, in transfer_lease and then in worker_cycle.  Each
   acquisition of the scheduler lock is a step. *)

ReconcileThen(w, from, to) ==
    /\ pc[w] = from /\ Reconcile /\ Goto(w, to)
    /\ UNCHANGED <<executorVars, workerVars, controlVars, sharedVars>>

FinalReconcile(w) == ReconcileThen(w, "final", "report")

ReportAccepted(w) ==
    /\ pc[w] = "report"
    /\ Sched!ReportProgress(held[w].id, held[w].generation, held[w].end + 1)
    /\ ClearCell(w) /\ Goto(w, "settle")
    /\ UNCHANGED <<executorVars, workerVars, controlVars, unseen, fatal, checkpoint, ledger>>

SettleReconcile(w) ==
    \/ ReconcileThen(w, "settle", "complete")
    \/ ReconcileThen(w, "retry", "requeue")
    \/ ReconcileThen(w, "failed", "abandon")

CompleteLease(w) ==
    /\ pc[w] = "complete"
    /\ Sched!Complete(held[w].id, held[w].generation)
    /\ ClearCell(w) /\ NotifyTransition /\ Goto(w, "idle")
    /\ UNCHANGED <<executorVars, workerVars, controlVars, fatal, checkpoint, ledger>>

RequeueTail(w) ==
    /\ pc[w] = "requeue"
    /\ Sched!Fail(held[w].id, held[w].generation)
    /\ ClearCell(w) /\ NotifyTransition /\ Goto(w, "idle")
    /\ UNCHANGED <<executorVars, workerVars, controlVars, fatal, checkpoint, ledger>>

Abandon(w) ==
    /\ pc[w] = "abandon"
    /\ Sched!Fail(held[w].id, held[w].generation)
    /\ ClearCell(w) /\ NotifyTransition
    /\ fatal' = IF fatal = "none" THEN err[w] ELSE fatal
    /\ Goto(w, "detach")
    /\ UNCHANGED <<executorVars, workerVars, controlVars, checkpoint, ledger>>

-----------------------------------------------------------------------------
(* worker_loop's exit: detach, wait, then drain the completion stream. *)

DetachSession(w) ==
    /\ pc[w] = "detach" /\ Detach(w) /\ Goto(w, "leave")
    /\ UNCHANGED <<schedVars, workerVars, controlVars, sharedVars>>

LeaveSession(w) ==
    /\ pc[w] = "leave" /\ Leave(w) /\ Goto(w, "flush")
    /\ UNCHANGED <<schedVars, workerVars, controlVars, sharedVars>>

FlushCompletions(w) ==
    /\ pc[w] = "flush"
    /\ completions' = [completions EXCEPT ![w] = <<>>]
    /\ reservations' = [reservations EXCEPT ![w] = {}]
    /\ ledger' = ledger - SumLen(reservations[w])
    /\ held' = [held EXCEPT ![w] = NoLease] /\ body' = [body EXCEPT ![w] = NoBody]
    /\ frontier' = [frontier EXCEPT ![w] = NoFrontier]
    /\ Goto(w, "exited")
    /\ UNCHANGED <<registry, cursor, queuedBytes, closed, thread, written, schedVars, frame, err,
                   controlVars, cell, unseen, fatal, checkpoint>>

-----------------------------------------------------------------------------
(* run_segmented: join the workers, shut the executor down, reclaim the output. *)

Joined == \A w \in Workers : pc[w] = "exited"

MainMoves(from, to) ==
    /\ main = from /\ main' = to
    /\ UNCHANGED <<schedVars, workerVars, cancelled, paused, events, sharedVars, pc>>

CloseExecutor == Joined /\ Close /\ MainMoves("joining", "closing")
NotifyThreads == NotifyAll /\ MainMoves("closing", "closed")

(* shutdown returns once every thread has exited. *)
Reclaim ==
    /\ AllExited /\ MainMoves("closed", "reclaimed")
    /\ registry' = <<>>
    /\ UNCHANGED <<cursor, queuedBytes, closed, thread, completions, written>>

-----------------------------------------------------------------------------
(* The surroundings and the pool. *)

Cancel ==
    /\ "cancel" \in events /\ events' = events \ {"cancel"} /\ cancelled' = TRUE
    /\ UNCHANGED <<executorVars, schedVars, workerVars, paused, main, sharedVars, pc>>

Pause ==
    /\ "pause" \in events /\ events' = events \ {"pause"} /\ paused' = TRUE
    /\ UNCHANGED <<executorVars, schedVars, workerVars, cancelled, main, sharedVars, pc>>

Unpause ==
    /\ paused /\ paused' = FALSE
    /\ UNCHANGED <<executorVars, schedVars, workerVars, cancelled, main, events, sharedVars, pc>>

PoolStep(t) ==
    /\ \/ ThreadStep(t) \/ ExecuteWrite(t, TRUE)
    /\ UNCHANGED <<schedVars, workerVars, controlVars, sharedVars, pc>>

WriteFails(t) ==
    /\ "writefail" \in events /\ events' = events \ {"writefail"}
    /\ ExecuteWrite(t, FALSE)
    /\ UNCHANGED <<schedVars, workerVars, cancelled, paused, main, sharedVars, pc>>

CycleStep(w) ==
    \/ AcquireLease(w) \/ FindNoWork(w) \/ SplitForIdle(w) \/ ParkIdle(w) \/ WakeIdle(w)
    \/ Respond(w) \/ RequestCancelled(w)
    \/ FinalReconcile(w) \/ ReportAccepted(w) \/ SettleReconcile(w)
    \/ CompleteLease(w) \/ RequeueTail(w) \/ Abandon(w)
    \/ DetachSession(w) \/ LeaveSession(w) \/ FlushCompletions(w)

BodyStep(w) ==
    \/ Top(w) \/ Interrupted(w) \/ AwaitCredit(w) \/ CreditRevision(w)
    \/ Reserve(w) \/ PollCompletion(w) \/ PollRevision(w)
    \/ \E n \in Chunks : ReceiveData(w, n)
    \/ BodyEnds(w) \/ BodyPaused(w) \/ GrowFrame(w) \/ SubmitChunk(w)
    \/ Drain(w) \/ DrainedEnd(w) \/ DrainedRetry(w) \/ PauseSave(w) \/ Resume(w)

MainStep == CloseExecutor \/ NotifyThreads \/ Reclaim

Next ==
    \/ \E w \in Workers : CycleStep(w) \/ BodyStep(w) \/ BodyFault(w)
    \/ \E t \in Threads : PoolStep(t) \/ WriteFails(t)
    \/ MainStep \/ Cancel \/ Pause \/ Unpause

Spec == Init /\ [][Next]_vars

(* The runtime polls ready tasks, the system schedules the pool's threads, the
   transport delivers or ends a body, and a paused job is resumed. *)
Fairness ==
    /\ \A w \in Workers : WF_vars(CycleStep(w)) /\ WF_vars(BodyStep(w))
    /\ \A t \in Threads : WF_vars(PoolStep(t))
    /\ WF_vars(MainStep) /\ WF_vars(Unpause)

FairSpec == Spec /\ Fairness

-----------------------------------------------------------------------------

(* Progress never runs ahead of the disk: every byte below a published frontier,
   and every byte the scheduler has settled, has been written to the output. *)
PublishedWritten ==
    /\ \A w \in Workers : cell[w].start .. cell[w].written - 1 \subseteq written
    /\ Sched!Settled \subseteq written

(* The byte bound of the executor counts exactly the queued and executing
   writes, and the ledger exactly the reservations the workers hold; both are
   zero when the job is reclaimed. *)
ChargesExact ==
    /\ queuedBytes = FoldSeq(LAMBDA e, sum : sum + FoldSeq(LAMBDA q, n : n + q.len, 0, e.queue), 0, registry)
         + FoldSet(LAMBDA t, sum : sum + thread[t].write.len, 0,
                   {t \in Threads : thread[t].pc \in {"write", "complete"}})
    /\ ledger = FoldSet(LAMBDA w, sum : sum + frame[w] + SumLen(reservations[w]), 0, Workers)
    /\ main = "reclaimed" => queuedBytes = 0 /\ ledger = 0

(* When a worker has exited no thread writes for it any more, and when the job
   is reclaimed none writes at all: the output can be handed to cleanup. *)
NoLateWrite ==
    \A t \in Threads : thread[t].pc = "write" =>
        pc[thread[t].write.session] # "exited" /\ main # "reclaimed"

(* Every job's workers finish: a queued write is executed, a drain ends, and a
   cancelled or failed job converges. *)
WorkersExit == <>[]Joined
=============================================================================
