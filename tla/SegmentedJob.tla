---------------------------- MODULE SegmentedJob ----------------------------
(***************************************************************************)
(* One segmented download, crates/engine/src/job/segmented.rs: the         *)
(* provisioned workers (worker_cycle, transfer_lease,                      *)
(* consume_legacy_body), the checkpoint coordinator (coordinator_loop,     *)
(* attempt_coordinator_save) and run_segmented, which joins them, around   *)
(* one Scheduler behind a mutex.                                           *)
(*                                                                         *)
(* An action is what a task does up to its next await or its next          *)
(* acquisition of the scheduler lock.  Workers publish their progress in   *)
(* cells that anyone may read without the lock.  The job owns the state of *)
(* its Scheduler and steps it by that module's operations.  The instances  *)
(* size leases explicitly, for which ready_work_divisor_for returns 0.     *)
(***************************************************************************)
EXTENDS Scheduler, FiniteSetsExt

CONSTANTS
    NWorkers,       \* max_workers: every worker is provisioned up front
    MaxAttempts,    \* max_attempts_per_segment
    MaxFaults,      \* bound: retryable transport failures in a behaviour
    Scenarios       \* what the job starts from and what may happen to it

EnvEvents == {"retryable", "fatal", "changed", "short", "eof", "writefail",
              "savefail", "cancel", "pause", "desired"}

(* A scenario: the faults and controls the surroundings may inject, the bytes
   admitted from a checkpoint (start_offset_ranges), the durability mode, and
   the initial number of desired workers: NWorkers in fixed mode, min_workers
   in adaptive mode. *)
Scenario == [events : SUBSET EnvEvents, resumed : SUBSET (0 .. TotalSize - 1),
             durable : BOOLEAN, desired : 1 .. NWorkers]

ASSUME JobAssumption ==
    /\ NWorkers \in Nat \ {0}
    /\ MaxAttempts \in Nat /\ MaxFaults \in Nat
    /\ MaxGeneration > NWorkers         \* each worker bumps the generation once at most
    /\ Scenarios \subseteq Scenario

VARIABLES
    pc,             \* where each worker is
    held,           \* each worker's own copy of its lease
    xfer,           \* each worker's response: from, pos, last, effective_end, chunk
    err,            \* the error a worker is about to install
    attempt,        \* each worker's retry count
    cell,           \* worker_progress: the last published record of each worker
    unseen,         \* the revision signal: has a worker's receiver changed?
    desired,        \* desired_workers
    fatal,          \* FatalState: the first installed error
    cancelled, paused,   \* the cancellation token
    written,        \* bytes of the temporary file whose write was acknowledged
    synced,         \* bytes of it that a data sync has made durable
    checkpoint,     \* ranges of the checkpoint on disk
    saved,          \* last_saved of the coordinator
    coord,          \* the coordinator: pc, whose save it runs, its snapshot
    queue,          \* workers whose SaveNow command waits in the channel
    reply,          \* the oneshot acknowledgement of each SaveNow
    credited,       \* completed-bytes counter, summed over the workers
    main,           \* run_segmented: joining, stopping, or its outcome
    faults,         \* retryable failures so far
    scenario        \* the scenario of this behaviour

local == <<held, xfer, err, attempt>>
ioVars == <<written, synced, checkpoint, saved>>
coordVars == <<coord, queue, reply>>
ctlVars == <<cancelled, paused, desired, scenario>>
env == <<ioVars, coordVars, ctlVars, main>>
vars == <<schedVars, local, env, pc, cell, unseen, fatal, credited, faults>>

Workers == 0 .. NWorkers - 1
Env == scenario.events
Resumed == scenario.resumed
Durable == scenario.durable
Tick == NWorkers          \* the coordinator saves on its interval, for no worker
NoLease == [id |-> 0, generation |-> 0, start |-> 0, end |-> 0, next |-> 0]
NoXfer == [from |-> 0, pos |-> 0, last |-> 0, eff |-> 0, len |-> 0, cut |-> FALSE]
NoCell == [lease |-> 0, generation |-> 0, written |-> 0, received |-> 0]
NoSave == [ranges |-> {}, generation |-> 0]
NoError == "none"

WorkerStates ==
    {"top", "dormant", "acquire", "noWork", "split", "parked", "request", "read",
     "write", "save", "awaitSave", "paused", "done", "ack", "settle", "complete",
     "retry", "requeue", "giveUp", "backoff", "fail", "abandon", "bump", "install",
     "exited"}
Errors == {"http", "write", "save", "changed", "exhausted", "cancelled"}
Outcomes == {"completed", "failed", "incomplete", "cancelled"}

-----------------------------------------------------------------------------
(* Shared helpers. *)

Goto(w, to) == pc' = [pc EXCEPT ![w] = to]
At(w, from, to) == pc[w] = from /\ Goto(w, to)

NotifyTransition == unseen' = [w \in Workers |-> TRUE]
MarkSeen(w) == unseen' = [unseen EXCEPT ![w] = FALSE]

(* FatalState::install: the first error wins. *)
Install(e) == fatal' = IF fatal = NoError THEN e ELSE fatal

Records == {[lease |-> cell[w].lease, generation |-> cell[w].generation,
             written |-> cell[w].written] : w \in Workers}

(* reconcile_and_credit: absorb every cell, credit the accepted bytes. *)
Reconcile ==
    /\ AbsorbWorkerProgress(Records)
    /\ credited' = credited
         + MapThenSumSet(LAMBDA i : active'[i].next - active[i].next, DOMAIN active)

ClearCell(w) == cell' = [cell EXCEPT ![w] = NoCell]

(* cell_received_through. *)
ReceivedThrough(id) ==
    Max({0} \cup {cell[w].received : w \in {v \in Workers : cell[v].lease = id}})

(* lease_end, or `last` when the lease is gone. *)
StopAt(w, last) ==
    IF Live(held[w].id, held[w].generation)
    THEN Min2(last, active[held[w].id].end) ELSE last

(* The lease just inserted becomes the worker's. *)
Hold(w) ==
    held' = [held EXCEPT ![w] =
                LET l == active'[nextLease]
                IN  [id |-> nextLease, generation |-> l.generation,
                     start |-> l.start, end |-> l.end, next |-> l.next]]

(* The lease attempt is over: its locals go out of scope. *)
Drop(w) ==
    /\ held' = [held EXCEPT ![w] = NoLease]
    /\ xfer' = [xfer EXCEPT ![w] = NoXfer]

Raise(w, e) == Goto(w, "fail") /\ err' = [err EXCEPT ![w] = e]

-----------------------------------------------------------------------------
Init ==
    /\ scenario \in Scenarios
    /\ InitWith(Resumed)
    /\ pc = [w \in Workers |-> "top"]
    /\ held = [w \in Workers |-> NoLease]
    /\ xfer = [w \in Workers |-> NoXfer]
    /\ err = [w \in Workers |-> NoError]
    /\ attempt = [w \in Workers |-> 0]
    /\ cell = [w \in Workers |-> NoCell]
    /\ unseen = [w \in Workers |-> FALSE]
    /\ desired = scenario.desired
    /\ fatal = NoError
    /\ cancelled = FALSE /\ paused = FALSE
    /\ written = Resumed /\ synced = Resumed /\ checkpoint = Resumed
    /\ saved = NoSave
    /\ coord = [pc |-> "idle", for |-> Tick, ranges |-> {}, generation |-> 0]
    /\ queue = {} /\ reply = [w \in Workers |-> "none"]
    /\ credited = 0
    /\ main = "join"
    /\ faults = 0

-----------------------------------------------------------------------------
(* worker_cycle: looking for work. *)

(* Mutant of Station: the desired count is read before the exit conditions. *)
StationDormantFirst(w) ==
    IF desired <= w THEN "dormant"
    ELSE IF cancelled \/ fatal # NoError \/ IsFinished THEN "exited" ELSE "acquire"

(* What the top of the loop decides. *)
Station(w) ==
    IF cancelled \/ fatal # NoError \/ IsFinished THEN "exited"
    ELSE IF desired <= w THEN "dormant" ELSE "acquire"

(* The receiver is marked seen, then the exit conditions are read. *)
Check(w) ==
    /\ At(w, "top", Station(w))
    /\ MarkSeen(w)
    /\ UNCHANGED <<schedVars, local, env, cell, fatal, credited, faults>>

(* Dormant above the desired count, or parked without work. *)
Wait(w) ==
    /\ pc[w] \in {"dormant", "parked"}
    /\ \/ cancelled /\ Goto(w, "exited") /\ UNCHANGED unseen
       \/ unseen[w] /\ MarkSeen(w) /\ Goto(w, "top")
    /\ UNCHANGED <<schedVars, local, env, cell, fatal, credited, faults>>

AcquireLease(w) ==
    /\ pc[w] = "acquire"
    /\ \/ Acquire /\ Hold(w) /\ Goto(w, "request")
       \/ pending = {} /\ Goto(w, "noWork") /\ UNCHANGED <<schedVars, held>>
    /\ UNCHANGED <<env, xfer, err, attempt, cell, unseen, fatal, credited, faults>>

(* active_leases_empty, under a lock of its own: the worker returns. *)
NoWork(w) ==
    /\ At(w, "noWork", IF HasActive THEN "split" ELSE "exited")
    /\ UNCHANGED <<schedVars, local, env, cell, unseen, fatal, credited, faults>>

Split(w) ==
    /\ pc[w] = "split"
    /\ LET big == LargestSplittable(SplitThreshold)
       IN  \/ \E i \in big :
                 /\ SplitTail(i, active[i].generation, SplitThreshold, ReceivedThrough(i))
                 /\ Hold(w) /\ NotifyTransition /\ Goto(w, "request")
           \/ /\ big = {} \/ \E i \in big : TailLen(active[i], ReceivedThrough(i))
                                              <= Max2(SplitThreshold, 1)
              /\ Goto(w, "parked") /\ UNCHANGED <<schedVars, held, unseen>>
    /\ UNCHANGED <<env, xfer, err, attempt, cell, fatal, credited, faults>>

-----------------------------------------------------------------------------
(* transfer_lease and consume_legacy_body. *)

Fault == faults < MaxFaults /\ faults' = faults + 1

(* The top of the body loop: mark the revision seen, converge, else read. *)
Continue(w) ==
    /\ MarkSeen(w)
    /\ IF cancelled \/ fatal # NoError THEN Raise(w, "cancelled")
       ELSE Goto(w, "read") /\ UNCHANGED err

(* The first byte of the lease that is still to be fetched. *)
ResumeAt(w) ==
    IF cell[w].lease = held[w].id THEN Max2(cell[w].written, held[w].next) ELSE held[w].next

(* A validated 206 response for ResumeAt(w)..last. *)
Response(w, last) ==
    [from |-> ResumeAt(w), pos |-> ResumeAt(w), last |-> last,
     eff |-> StopAt(w, last), len |-> 0, cut |-> FALSE]

(* Where it may end: at the end of the lease, or before it. *)
ResponseEnds(w) == (IF "short" \in Env THEN ResumeAt(w) ELSE held[w].end) .. held[w].end

Respond(w) ==
    /\ pc[w] = "request"
    /\ \E last \in ResponseEnds(w) :
          xfer' = [xfer EXCEPT ![w] = Response(w, last)]
    /\ Continue(w)
    /\ UNCHANGED <<schedVars, env, held, attempt, cell, fatal, credited, faults>>

RequestFails(w) ==
    /\ pc[w] = "request"
    /\ \/ "retryable" \in Env /\ Fault /\ Goto(w, "retry") /\ UNCHANGED err
       \/ "fatal" \in Env /\ Raise(w, "http") /\ UNCHANGED faults
       \/ cancelled /\ Raise(w, "cancelled") /\ UNCHANGED faults
       \/ /\ "changed" \in Env /\ Goto(w, "bump")
          /\ err' = [err EXCEPT ![w] = "changed"] /\ UNCHANGED faults
    /\ UNCHANGED <<schedVars, env, held, xfer, attempt, cell, unseen, fatal, credited>>

(* A chunk of n bytes arrives; only its part up to effective_end is owned. *)
ReadData(w) ==
    /\ pc[w] = "read" /\ ~cancelled /\ ~paused
    /\ \E n \in 1 .. xfer[w].last - xfer[w].pos + 1 :
          LET owned == Min2(SatSub(xfer[w].eff + 1, xfer[w].pos), n)
          IN  IF owned = 0 THEN Goto(w, "done") /\ UNCHANGED xfer
              ELSE /\ Goto(w, "write")
                   /\ xfer' = [xfer EXCEPT ![w].len = owned, ![w].cut = owned < n]
    /\ UNCHANGED <<schedVars, env, held, err, attempt, cell, unseen, fatal, credited, faults>>

(* A clean end of the body; nothing checks that it is where it should be. *)
ReadEnd(w) ==
    /\ At(w, "read", "done") /\ ~cancelled /\ ~paused
    /\ xfer[w].pos = xfer[w].last + 1 \/ "eof" \in Env
    /\ UNCHANGED <<schedVars, local, env, cell, unseen, fatal, credited, faults>>

ReadFails(w) ==
    /\ pc[w] = "read"
    /\ \/ cancelled /\ Raise(w, "cancelled") /\ UNCHANGED faults
       \/ "retryable" \in Env /\ Fault /\ Goto(w, "retry") /\ UNCHANGED err
       \/ "fatal" \in Env /\ Raise(w, "http") /\ UNCHANGED faults
    /\ UNCHANGED <<schedVars, env, held, xfer, attempt, cell, unseen, fatal, credited>>

(* A transition wakes the read, which refreshes the end of its lease. *)
ReadWakes(w) ==
    /\ pc[w] = "read" /\ unseen[w]
    /\ Continue(w)
    /\ xfer' = [xfer EXCEPT ![w].eff = StopAt(w, xfer[w].eff)]
    /\ UNCHANGED <<schedVars, env, held, attempt, cell, fatal, credited, faults>>

PublishWhole(w, through) ==
    cell' = [cell EXCEPT ![w] = [lease |-> held[w].id, generation |-> held[w].generation,
                                 written |-> xfer[w].eff + 1, received |-> through]]

Chunk(w) == xfer[w].pos .. xfer[w].pos + xfer[w].len - 1

(* LeaseProgress::publish. *)
Publish(w, through) ==
    cell' = [cell EXCEPT ![w] = [lease |-> held[w].id, generation |-> held[w].generation,
                                 written |-> through, received |-> through]]

(* The lane acknowledges the write, then the cell is published. *)
Write(w) ==
    /\ pc[w] = "write"
    /\ LET through == xfer[w].pos + xfer[w].len
       IN  /\ written' = written \cup Chunk(w)
           /\ Publish(w, through)
           /\ xfer' = [xfer EXCEPT ![w].pos = through, ![w].len = 0, ![w].cut = FALSE]
    /\ IF xfer[w].cut THEN Goto(w, "done") /\ UNCHANGED <<unseen, err>> ELSE Continue(w)
    /\ UNCHANGED <<schedVars, synced, checkpoint, saved, coordVars, ctlVars, main, held,
                   attempt, fatal, credited, faults>>

WriteFails(w) ==
    /\ pc[w] = "write" /\ "writefail" \in Env
    /\ Raise(w, "write")
    /\ UNCHANGED <<schedVars, env, held, xfer, attempt, cell, unseen, fatal, credited, faults>>

-----------------------------------------------------------------------------
(* Pause at a read boundary: save, then poll the pause flag. *)

ReadPauses(w) ==
    /\ At(w, "read", "save") /\ paused /\ ~cancelled
    /\ UNCHANGED <<schedVars, local, env, cell, unseen, fatal, credited, faults>>

SendSave(w) ==
    /\ pc[w] = "save"
    /\ IF coord.pc = "stopped" THEN Raise(w, "save") /\ UNCHANGED queue
       ELSE /\ Goto(w, "awaitSave") /\ UNCHANGED err
            /\ queue' = queue \cup {w}
    /\ UNCHANGED <<schedVars, ioVars, coord, reply, ctlVars, main, held, xfer, attempt, cell,
                   unseen, fatal, credited, faults>>

AwaitSave(w) ==
    /\ pc[w] = "awaitSave" /\ reply[w] # "none"
    /\ reply' = [reply EXCEPT ![w] = "none"]
    /\ IF reply[w] = "ok" THEN Goto(w, "paused") /\ UNCHANGED err ELSE Raise(w, "save")
    /\ UNCHANGED <<schedVars, ioVars, coord, queue, ctlVars, main, held, xfer, attempt, cell,
                   unseen, fatal, credited, faults>>

PauseEnds(w) ==
    /\ pc[w] = "paused" /\ (cancelled \/ ~paused)
    /\ Continue(w)
    /\ UNCHANGED <<schedVars, env, held, xfer, attempt, cell, fatal, credited, faults>>

-----------------------------------------------------------------------------
(* The attempt is over.  Every path first reconciles. *)

ReconcileFrom(w, from, to) ==
    /\ At(w, from, to)
    /\ Reconcile
    /\ UNCHANGED <<env, local, cell, unseen, fatal, faults>>

(* An operation on a lease that is gone is an ignored Err. *)
OnLease(w, op) ==
    IF Live(held[w].id, held[w].generation) THEN op ELSE UNCHANGED schedVars

(* report_progress with validated_start + accepted_len. *)
FinalAck(w) ==
    /\ At(w, "ack", "settle")
    /\ OnLease(w, ReportProgress(held[w].id, held[w].generation, xfer[w].last + 1))
    /\ ClearCell(w)
    /\ UNCHANGED <<env, local, unseen, fatal, credited, faults>>

CompleteLease(w) ==
    /\ At(w, "complete", "top")
    /\ OnLease(w, Complete(held[w].id, held[w].generation))
    /\ ClearCell(w) /\ NotifyTransition /\ Drop(w)
    /\ attempt' = [attempt EXCEPT ![w] = 0]
    /\ UNCHANGED <<env, err, fatal, credited, faults>>

GiveBackLease(w) ==
    /\ OnLease(w, Fail(held[w].id, held[w].generation))
    /\ NotifyTransition /\ ClearCell(w) /\ Drop(w)

(* Requeue the tail; RetryClassifier::decide. *)
Requeue(w) ==
    /\ At(w, "requeue", IF attempt[w] < MaxAttempts THEN "backoff" ELSE "giveUp")
    /\ GiveBackLease(w)
    /\ attempt' = [attempt EXCEPT ![w] = Min2(attempt[w] + 1, MaxAttempts)]
    /\ UNCHANGED <<env, err, fatal, credited, faults>>

BackoffEnds(w) ==
    /\ At(w, "backoff", "top")
    /\ UNCHANGED <<schedVars, local, env, cell, unseen, fatal, credited, faults>>

(* RetryDecision::GiveUp installs the error and notifies nobody. *)
GiveUp(w) ==
    /\ At(w, "giveUp", "exited")
    /\ Install("exhausted")
    /\ UNCHANGED <<schedVars, local, env, cell, unseen, credited, faults>>

Abandon(w) ==
    /\ At(w, "abandon", "install")
    /\ GiveBackLease(w)
    /\ UNCHANGED <<env, err, attempt, fatal, credited, faults>>

(* GenerationChanged: every lease is invalidated. *)
Bump(w) ==
    /\ At(w, "bump", "install")
    /\ BumpGeneration
    /\ NotifyTransition /\ Drop(w)
    /\ UNCHANGED <<env, err, attempt, cell, fatal, credited, faults>>

InstallFatal(w) ==
    /\ At(w, "install", "exited")
    /\ Install(err[w])
    /\ NotifyTransition
    /\ UNCHANGED <<schedVars, local, env, cell, credited, faults>>

-----------------------------------------------------------------------------
(* The checkpoint coordinator. *)

CoordTo(state) == [pc |-> state, for |-> Tick, ranges |-> {}, generation |-> 0]

(* The save on behalf of `for` ends.  A worker gets the result; a failed
   interval save is fatal, and the commands still queued are dropped. *)
SaveEnds(for, ok) ==
    IF for # Tick
    THEN /\ reply' = [reply EXCEPT ![for] = IF ok THEN "ok" ELSE "error"]
         /\ coord' = CoordTo("idle") /\ queue' = queue \ {for}
         /\ UNCHANGED fatal
    ELSE IF ok THEN coord' = CoordTo("idle") /\ UNCHANGED <<queue, reply, fatal>>
    ELSE /\ coord' = CoordTo("stopped")
         /\ reply' = [w \in Workers |-> IF w \in queue THEN "error" ELSE reply[w]]
         /\ queue' = {}
         /\ Install("save")

(* Mutant: the published progress is not absorbed. *)
AbsorbNothing == UNCHANGED <<schedVars, credited>> /\ NotifyTransition

AbsorbAndNotify == Reconcile /\ NotifyTransition

(* An interval tick or a SaveNow command: reconcile and snapshot under one
   lock; empty and unchanged ranges are not saved. *)
Snapshot(for) ==
    /\ coord.pc = "idle"
    /\ AbsorbAndNotify
    /\ LET ranges == Settled'
       IN  IF ranges = {} \/ saved = [ranges |-> ranges, generation |-> generation]
           THEN SaveEnds(for, TRUE)
           ELSE /\ coord' = [pc |-> "fence", for |-> for, ranges |-> ranges,
                             generation |-> generation]
                /\ queue' = queue \ {for}
                /\ UNCHANGED <<reply, fatal>>
    /\ UNCHANGED <<ioVars, ctlVars, main, pc, local, cell, faults>>

(* Mutant: no data sync before the store. *)
DataSyncSkipped == synced

DataSync == IF Durable THEN written ELSE synced

(* The generation fence under a second lock, then the data sync. *)
Fence ==
    /\ coord.pc = "fence"
    /\ IF generation # coord.generation THEN SaveEnds(coord.for, TRUE) /\ UNCHANGED synced
       ELSE /\ coord' = [coord EXCEPT !.pc = "store"]
            /\ synced' = DataSync
            /\ UNCHANGED <<queue, reply, fatal>>
    /\ UNCHANGED <<schedVars, written, checkpoint, saved, ctlVars, main, pc, local, cell,
                   unseen, credited, faults>>

Store ==
    /\ coord.pc = "store"
    /\ checkpoint' = coord.ranges
    /\ saved' = [ranges |-> coord.ranges, generation |-> coord.generation]
    /\ SaveEnds(coord.for, TRUE)
    /\ UNCHANGED <<schedVars, written, synced, ctlVars, main, pc, local, cell, unseen,
                   credited, faults>>

(* The sync or the store fails. *)
SaveFails ==
    /\ "savefail" \in Env
    /\ coord.pc = "store" \/ (coord.pc = "fence" /\ Durable /\ generation = coord.generation)
    /\ SaveEnds(coord.for, FALSE)
    /\ UNCHANGED <<schedVars, ioVars, ctlVars, main, pc, local, cell, unseen, credited, faults>>

-----------------------------------------------------------------------------
(* run_segmented: join the workers, stop the coordinator, report. *)

JoinWorkers ==
    /\ main = "join" /\ \A w \in Workers : pc[w] = "exited"
    /\ main' = "stop"
    /\ UNCHANGED <<schedVars, ioVars, coordVars, ctlVars, pc, local, cell, unseen, fatal,
                   credited, faults>>

StopCoordinator ==
    /\ main = "stop" /\ coord.pc \in {"idle", "stopped"}
    /\ coord' = CoordTo("stopped")
    /\ main' = "report"
    /\ UNCHANGED <<schedVars, ioVars, queue, reply, ctlVars, pc, local, cell, unseen, fatal,
                   credited, faults>>

(* Mutant: coverage is looked at before the error. *)
OutcomeCoverageFirst ==
    IF cancelled THEN "cancelled"
    ELSE IF IsComplete THEN "completed"
    ELSE IF fatal # NoError THEN "failed" ELSE "incomplete"

Outcome ==
    IF cancelled THEN "cancelled"
    ELSE IF fatal # NoError THEN "failed"
    ELSE IF IsComplete THEN "completed" ELSE "incomplete"

Report ==
    /\ main = "report"
    /\ main' = Outcome
    /\ UNCHANGED <<schedVars, ioVars, coordVars, ctlVars, pc, local, cell, unseen, fatal,
                   credited, faults>>

-----------------------------------------------------------------------------
(* The job handle. *)

Cancel ==
    /\ "cancel" \in Env /\ ~cancelled /\ main \notin Outcomes
    /\ cancelled' = TRUE
    /\ UNCHANGED <<schedVars, ioVars, coordVars, paused, desired, scenario, main, pc, local, cell,
                   unseen, fatal, credited, faults>>

TogglePause ==
    /\ "pause" \in Env /\ main \notin Outcomes
    /\ paused' = ~paused
    /\ UNCHANGED <<schedVars, ioVars, coordVars, cancelled, desired, scenario, main, pc, local, cell,
                   unseen, fatal, credited, faults>>

(* set_desired_workers and adjust_desired_workers. *)
SetDesired ==
    /\ "desired" \in Env /\ main = "join"
    /\ \E n \in 1 .. NWorkers : desired' = n
    /\ NotifyTransition
    /\ UNCHANGED <<schedVars, ioVars, coordVars, cancelled, paused, scenario, main, pc, local, cell,
                   fatal, credited, faults>>

-----------------------------------------------------------------------------
Settling(w) ==
    \/ ReconcileFrom(w, "done", "ack")
    \/ FinalAck(w)
    \/ ReconcileFrom(w, "settle", "complete")
    \/ CompleteLease(w)
    \/ ReconcileFrom(w, "retry", "requeue")
    \/ Requeue(w)
    \/ ReconcileFrom(w, "fail", "abandon")
    \/ Abandon(w)
    \/ Bump(w)
    \/ InstallFatal(w)
    \/ GiveUp(w)
    \/ BackoffEnds(w)

(* What the runtime completes for a worker that is not waiting for data. *)
Progress(w) ==
    \/ Check(w) \/ Wait(w) \/ AcquireLease(w) \/ NoWork(w) \/ Split(w)
    \/ Respond(w) \/ ReadPauses(w) \/ ReadWakes(w) \/ Write(w)
    \/ SendSave(w) \/ AwaitSave(w) \/ PauseEnds(w)
    \/ Settling(w)

Arrives(w) == ReadData(w) \/ ReadEnd(w) \/ ReadFails(w)

Coordinator ==
    (\E for \in queue \cup {Tick} : Snapshot(for)) \/ Fence \/ Store \/ SaveFails

RunSegmented == JoinWorkers \/ StopCoordinator \/ Report

Next ==
    \/ \E w \in Workers : Progress(w) \/ Arrives(w) \/ RequestFails(w) \/ WriteFails(w)
    \/ Coordinator
    \/ RunSegmented
    \/ Cancel \/ TogglePause \/ SetDesired

Spec == Init /\ [][Next]_vars

(* Tasks that can run are run by the tokio scheduler; a read whose source
   keeps having data is not starved by wake-ups, nor the stop command by the
   interval, because select! polls its branches in random order. *)
Fairness ==
    /\ \A w \in Workers : WF_vars(Progress(w)) /\ SF_vars(Arrives(w))
    /\ WF_vars(Coordinator)
    /\ SF_vars(StopCoordinator)
    /\ WF_vars(JoinWorkers \/ Report)

FairSpec == Spec /\ Fairness

-----------------------------------------------------------------------------
(* Properties. *)

(* Every variable of the job has its type. *)
TypeOK ==
    /\ SchedulerTypeOK
    /\ pc \in [Workers -> WorkerStates]
    /\ \A w \in Workers :
          /\ held[w].id \in 0 .. nextLease - 1 /\ cell[w].lease \in 0 .. nextLease - 1
          /\ xfer[w].pos \in 0 .. TotalSize /\ xfer[w].eff \in 0 .. TotalSize
    /\ err \in [Workers -> Errors \cup {NoError}]
    /\ attempt \in [Workers -> 0 .. MaxAttempts]
    /\ unseen \in [Workers -> BOOLEAN]
    /\ desired \in 1 .. NWorkers
    /\ fatal \in Errors \cup {NoError}
    /\ cancelled \in BOOLEAN /\ paused \in BOOLEAN
    /\ written \subseteq Bytes /\ synced \subseteq Bytes /\ checkpoint \subseteq Bytes
    /\ coord.pc \in {"idle", "fence", "store", "stopped"}
    /\ queue \subseteq Workers /\ reply \in [Workers -> {"none", "ok", "error"}]
    /\ credited \in 0 .. TotalSize
    /\ main \in Outcomes \cup {"join", "stop", "report"}

(* Coverage is real: a byte the scheduler reports settled has been written to
   the temporary file, whatever was split, retried or invalidated meanwhile. *)
SettledWritten == Settled \subseteq written

(* A checkpoint on disk never claims a byte that a crash at this moment could
   lose: synced ones in durable mode, acknowledged ones otherwise. *)
CheckpointSound == checkpoint \subseteq (IF Durable THEN synced ELSE written)

(* No lease is orphaned or shared: every live lease is held by exactly one
   worker, which is the one that will complete or requeue it. *)
LeasesHeld ==
    /\ \A i \in DOMAIN active : \E w \in Workers : held[w].id = i
    /\ \A w, v \in Workers : w # v /\ held[w].id # 0 => held[w].id # held[v].id

(* A job that reports Completed has every byte in the file, and the error
   "ended with incomplete coverage" is never what a job reports. *)
OutcomeSound ==
    /\ main = "completed" => written = Bytes /\ fatal = NoError /\ ~cancelled
    /\ main # "incomplete"

(* Once a worker reports itself paused, the bytes it acknowledged are in the
   checkpoint, unless the resource changed under the job. *)
PauseIsResumable ==
    \A w \in Workers :
        pc[w] = "paused" /\ generation = 1 /\ cell[w].lease # 0 =>
            Acked(active[held[w].id]) \cup
                (held[w].start .. Min2(cell[w].written - 1, active[held[w].id].end))
            \subseteq checkpoint

(* The checkpoint on disk only gains coverage, and nothing is saved once
   run_segmented has gone on to report and clean up. *)
CheckpointGrows ==
    [][/\ checkpoint \subseteq checkpoint'
       /\ main \in Outcomes \cup {"report"} => checkpoint' = checkpoint]_vars

(* The job always ends: every worker returns, whatever the order of parking,
   splitting, failing and cancelling, and run_segmented reports an outcome. *)
Terminates == <>(main \in Outcomes)
=============================================================================
