--------------------------- MODULE JobController ---------------------------
(***************************************************************************)
(* One download from request to published file: the job pipeline of        *)
(* crates/engine/src/job/controller.rs (run_inner and what it calls), with *)
(* the output file of io/{output_session,sink,publish}.rs and the          *)
(* checkpoint of resume/.  Jobs for one destination run one after another: *)
(* a run ends, or its process crashes, and a later run may resume it.      *)
(* Transfers are single streams here; SegmentedJob models the segmented    *)
(* one, of which only the outcome appears.                                 *)
(*                                                                         *)
(* An await of the controller separates two actions.  Between them the     *)
(* client cancels, pauses and resumes, the deadline fires, the server      *)
(* replaces the resource and another program may create the destination.   *)
(***************************************************************************)
EXTENDS ResumeRules

CONSTANTS
    Total,          \* size of the resource, in chunks of one byte
    Generations,    \* how many representations the server may serve
    MaxAttempts,    \* retry.max_attempts_per_segment
    MaxRuns,        \* bound: runs of the same job
    Scenarios       \* the configurations and environments considered, records of
                    \*   style, known: the validators and the size the server sends
                    \*   durable, preallocate, provider, deadline: the configuration
                    \*   faults, crashes, replaces, pauses: what may happen
                    \*   cancels: bound on the cancel calls of a run
                    \*   requests: what callers may ask

ASSUME ControllerAssumption ==
    /\ {Total, Generations, MaxRuns} \subseteq Nat \ {0}
    /\ {MaxAttempts, Window} \subseteq Nat

VARIABLES
    server,     \* the server: its style and the generation it serves
    machine,    \* the configuration and the environment's faults
    req,        \* the request of this run
    disk,       \* the file system: temp and destination entries, inodes, checkpoint
    token,      \* the cancellation token and the handle's cancel mode
    job,        \* the controller's local state
    runs,       \* runs started
    stale       \* a new output file was created beside progress of an older one

controllerVars == <<server, machine, req, disk, token, job, runs, stale>>

Foreign == Generations + 1          \* bytes another program wrote
Inodes == 1 .. 3
MAX_AUTH_STAGES == 2

Size == IF server.known THEN Total ELSE Absent
Headers(gen) == from_headers(server.style, gen, Size)
Whole(gen) == [i \in 1 .. Total |-> gen]

(***************************************************************************)
(* The file system.                                                        *)
(***************************************************************************)
Links(d, ino) == Cardinality({n \in {"temp", "dest"} : d[n] = ino})
Bytes(d) == IF d.temp = 0 THEN <<>> ELSE d.data[d.temp]

(* The contents of inodes nothing names are gone. *)
Reclaim(d) ==
    [d EXCEPT !.data   = [i \in Inodes |-> IF Links(d, i) = 0 THEN <<>> ELSE d.data[i]],
              !.synced = [i \in Inodes |-> IF Links(d, i) = 0 THEN <<>> ELSE d.synced[i]]]

RemoveTemp(d) == Reclaim([d EXCEPT !.temp = 0])

(* FileSink::create_exclusive, then prepare: any unused inode may be taken. *)
create_exclusive(d, ino) ==
    LET bare == Reclaim([d EXCEPT !.temp = ino])
        blank == IF machine.preallocate /\ server.known THEN Whole(Hole) ELSE <<>>
    IN  [bare EXCEPT !.data[ino] = blank, !.synced[ino] = <<>>]
FreshInodes(d) == Inodes \ {d.dest}

(* Writing past the end leaves holes. *)
write_at(bytes, offset, gen) ==
    [i \in 1 .. (IF offset < Len(bytes) THEN Len(bytes) ELSE offset + 1) |->
        IF i = offset + 1 THEN gen ELSE IF i <= Len(bytes) THEN bytes[i] ELSE Hole]

SyncData(d) == [d EXCEPT !.synced[d.temp] = d.data[d.temp]]
DeleteCheckpoint(d) == [d EXCEPT !.ckpt = NoCheckpoint, !.corrupt = FALSE]

(* FileSink's Drop: the partial file goes unless it is kept. *)
DropSink(d, sink) == IF sink = "delete" THEN RemoveTemp(d) ELSE d

(***************************************************************************)
(* The job's state machine and its terminal paths.                         *)
(***************************************************************************)
Terminal == {"Completed", "Cancelled", "Failed"}

allowed(from, to) ==
    \/ from = "Created" /\ to \in {"Probing", "Failing", "Cancelling"}
    \/ from = "Probing" /\ to \in {"Preparing", "Running", "Failing", "Cancelling"}
    \/ from = "Preparing" /\ to \in {"Running", "Failing", "Cancelling"}
    \/ from = "Running" /\ to \in {"Pausing", "Verifying", "Failing", "Cancelling"}
    \/ from = "Pausing" /\ to \in {"Paused", "Cancelling", "Failing"}
    \/ from = "Paused" /\ to \in {"Resuming", "Cancelling", "Failing"}
    \/ from = "Resuming" /\ to \in {"Running", "Failing", "Cancelling"}
    \/ from = "Verifying" /\ to \in {"Committing", "Failing", "Cancelling"}
    \/ from = "Committing" /\ to \in {"Completed", "Failing"}
    \/ from = "Cancelling" /\ to = "Cancelled"
    \/ from = "Failing" /\ to = "Failed"

(* A refused transition is ignored by the controller. *)
transition(from, to) == IF from \notin Terminal /\ allowed(from, to) THEN to ELSE from

NoResult == [kind |-> "none", error |-> "none", mode |-> "none", temp |-> FALSE, ckpt |-> FALSE,
             open |-> FALSE]
Nothing == [temp |-> FALSE, ckpt |-> FALSE]

NewToken == [cancelled |-> FALSE, deadline |-> FALSE, paused |-> FALSE,
             mode |-> "DeletePartial", calls |-> 0]
NewJob == [pc |-> "prepare", state |-> "Created", attempt |-> 0, stages |-> 0,
           gen |-> 0, vals |-> 0, eligible |-> FALSE, plan |-> NoCheckpoint,
           sink |-> "none", offset |-> 0, durable |-> 0, body |-> [gen |-> 0, at |-> 0, end |-> 0],
           retained |-> FALSE, keeps |-> FALSE, accepted |-> NoCheckpoint, result |-> NoResult]

(* The run's answer, after a late deadline has claimed a cancellation. *)
Outcome(kind, error, mode, artifacts) ==
    [kind |-> IF kind = "Cancelled" /\ token.deadline THEN "Deadline" ELSE kind,
     error |-> error, mode |-> mode, temp |-> artifacts.temp, ckpt |-> artifacts.ckpt,
     open |-> job.sink # "none"]

End(state, result, d) ==
    /\ job' = [NewJob EXCEPT !.pc = "ended", !.state = state, !.result = result]
    /\ disk' = d

terminal_error(error, artifacts, mode, d) ==
    End(transition(transition(job.state, "Failing"), "Failed"),
        Outcome(IF error = "Cancelled" THEN "Cancelled" ELSE "Failed", error, mode, artifacts),
        d)

terminal_cancelled(mode, artifacts, d) ==
    End(transition(transition(job.state, "Cancelling"), "Cancelled"),
        Outcome("Cancelled", "Cancelled", mode, artifacts), d)

(* A mutant: the partial file is reported gone and stays. *)
FailWithoutAbort(error) ==
    terminal_error(error, [temp |-> FALSE, ckpt |-> job.retained], token.mode, disk)

(* Give up after aborting the sink. *)
AbortAndFail(error) ==
    terminal_error(error, [temp |-> FALSE, ckpt |-> job.retained], token.mode, RemoveTemp(disk))

cleanup_cancelled(mode, d) ==
    CASE mode = "DeletePartial" -> RemoveTemp(DeleteCheckpoint(d))
      [] mode = "KeepPartial" -> d
      [] mode = "KeepFileDiscardCheckpoint" -> DeleteCheckpoint(d)

CancelObserved ==
    terminal_cancelled(token.mode,
                       [temp |-> token.mode # "DeletePartial",
                        ckpt |-> token.mode = "KeepPartial"],
                       cleanup_cancelled(token.mode, disk))

checkpoint_save_failed(d) ==
    terminal_error("Checkpoint", [temp |-> TRUE, ckpt |-> TRUE], token.mode, d)

Environment == UNCHANGED <<server, machine, req, token, runs>>
LeaveStale == UNCHANGED stale

ControllerInit ==
    /\ machine \in Scenarios
    /\ server = [style |-> machine.style, known |-> machine.known, gen |-> 1]
    /\ req \in machine.requests
    /\ disk = [temp |-> 0, dest |-> 0, data |-> [i \in Inodes |-> <<>>],
               synced |-> [i \in Inodes |-> <<>>], ckpt |-> NoCheckpoint, corrupt |-> FALSE]
    /\ token = NewToken
    /\ job = [NewJob EXCEPT !.pc = "idle"]
    /\ runs = 0
    /\ stale = FALSE

At(pc) == job.pc = pc
Running == job.pc \notin {"idle", "ended"}
Resuming == job.plan.ranges # {}

(***************************************************************************)
(* start_with_target: a permit admits the job, or it is refused at once.   *)
(***************************************************************************)
Start(r) ==
    /\ ~Running /\ runs < MaxRuns
    /\ req' = r /\ runs' = runs + 1 /\ token' = NewToken /\ job' = NewJob
    /\ stale' = (stale /\ ~disk.ckpt.none)
    /\ UNCHANGED <<server, machine, disk>>

AdmissionRejected(r) ==
    /\ machine.faults
    /\ ~Running /\ runs < MaxRuns
    /\ req' = r /\ runs' = runs + 1 /\ token' = NewToken
    /\ job' = [NewJob EXCEPT !.pc = "ended", !.state = "Failed",
                             !.result = [NoResult EXCEPT !.kind = "Failed", !.error = "Admission"]]
    /\ UNCHANGED <<server, machine, disk, stale>>

(***************************************************************************)
(* Destination, lease and stored checkpoint.  A file target prepares them  *)
(* before the probe, a directory target once the probe has named the file. *)
(***************************************************************************)
PrepareDestination(next) ==
    LET pieces == discover_admission_pieces(req.resume, disk.ckpt, disk.corrupt)
    IN  \/ /\ req.overwrite = "FailIfExists" /\ disk.dest # 0
           /\ terminal_error("Conflict", Nothing, token.mode, disk)
        \/ /\ machine.faults            \* the lease is held, or no store resolves
           /\ terminal_error("Lease", Nothing, token.mode, disk)
        \/ /\ ~(req.overwrite = "FailIfExists" /\ disk.dest # 0)
           /\ pieces \in {"Fail", "RequiredMissing"}
           /\ terminal_error("Checkpoint", Nothing, token.mode, disk)
        \/ /\ ~(req.overwrite = "FailIfExists" /\ disk.dest # 0)
           /\ pieces \notin {"Fail", "RequiredMissing"}
           /\ job' = [job EXCEPT !.pc = next,
                                 !.state = transition(@, "Probing"),
                                 !.plan = IF pieces = "Resuming" THEN disk.ckpt ELSE NoCheckpoint]
           /\ disk' = IF pieces = "DeleteAndFresh" THEN DeleteCheckpoint(disk) ELSE disk

PrepareFile ==
    /\ At("prepare") /\ req.target = "File"
    /\ PrepareDestination("probe")
    /\ LeaveStale /\ Environment

ValidateDirectory ==
    /\ At("prepare") /\ req.target = "Directory"
    /\ job' = [job EXCEPT !.pc = "probe", !.state = transition(@, "Probing")]
    /\ UNCHANGED disk /\ LeaveStale /\ Environment

ResolveDirectory ==
    /\ At("resolve")
    /\ PrepareDestination("finalize")
    /\ LeaveStale /\ Environment

(***************************************************************************)
(* The probe loop.                                                         *)
(***************************************************************************)
Retryable(error) == error \in {"Server", "Connection"}
Retries(error) == Retryable(error) /\ job.attempt < MaxAttempts

ProbeCancelled ==
    /\ At("probe") /\ token.cancelled
    /\ terminal_cancelled(token.mode, Nothing, disk)
    /\ LeaveStale /\ Environment

(* The token is read and the origin admits the probe; a cancellation after *)
(* that may go unnoticed.                                                  *)
Probe ==
    /\ At("probe") /\ ~token.cancelled
    /\ job' = [job EXCEPT !.pc = "probing"]
    /\ UNCHANGED disk /\ LeaveStale /\ Environment

ProbeOk(eligible) ==
    /\ At("probing")
    /\ eligible => server.known
    /\ job' = [job EXCEPT !.pc = IF req.target = "Directory" THEN "resolve" ELSE "finalize",
                          !.gen = server.gen, !.eligible = eligible]
    /\ UNCHANGED disk /\ LeaveStale /\ Environment

ProbeFailed(error) ==
    /\ At("probing")
    /\ error = "Cancelled" => token.cancelled
    /\ IF Retries(error)
       THEN job' = [job EXCEPT !.pc = "probe", !.attempt = @ + 1] /\ UNCHANGED disk
       ELSE terminal_error(error, Nothing, token.mode, disk)
    /\ LeaveStale /\ Environment

(* The provider answers, or declines and the challenge is a plain failure. *)
ProbeChallenged(answers) ==
    /\ At("probing")
    /\ IF machine.provider /\ job.stages < MAX_AUTH_STAGES /\ answers
       THEN job' = [job EXCEPT !.pc = "probe", !.stages = @ + 1] /\ UNCHANGED disk
       ELSE terminal_error("Auth", Nothing, token.mode, disk)
    /\ LeaveStale /\ Environment

(***************************************************************************)
(* Admission, phase 2: continue, restart or refuse; then the expected size.*)
(***************************************************************************)
FinalizeAdmission ==
    /\ At("finalize")
    /\ LET decision == finalize(job.plan, Headers(job.gen), disk.temp,
                                Links(disk, disk.temp), Bytes(disk))
           kept == IF decision = "DeleteAndFresh" THEN DeleteCheckpoint(disk) ELSE disk
       IN  \/ /\ decision = "Reject"
              /\ terminal_error("ResourceChanged", Nothing, token.mode, disk)
           \/ /\ machine.faults /\ decision = "DeleteAndFresh"   \* cleanup fails closed
              /\ terminal_error("Checkpoint", Nothing, token.mode, disk)
           \/ /\ decision # "Reject"
              /\ IF req.expected # Absent /\ server.known /\ req.expected # Total
                 THEN terminal_error("Protocol", Nothing, token.mode, kept)
                 ELSE /\ job' = [job EXCEPT
                                   !.pc = "open",
                                   !.state = transition(@, "Preparing"),
                                   !.plan = IF decision = "Resuming" THEN @ ELSE NoCheckpoint,
                                   !.retained = decision = "Resuming"]
                      /\ disk' = kept
    /\ LeaveStale /\ Environment

(***************************************************************************)
(* Checkpoint saves.  Durable mode syncs the data first; the job's store   *)
(* folds the snapshot into the last one it accepted.                       *)
(***************************************************************************)
Synced(d) == IF machine.durable THEN SyncData(d) ELSE d

Snapshot(ranges, gen, d) == StampedCheckpoint(ranges, Headers(gen), Size, d.temp, d.data[d.temp])

save_atomic(cp, d) ==
    IF superseded(job.accepted, cp) THEN d
    ELSE [d EXCEPT !.ckpt = forwarded(job.accepted, cp), !.corrupt = FALSE]

(* A mutant: the checkpoint is saved before the data it describes is synced. *)
PersistUnsynced(cp, d) == save_atomic(cp, d)

persist_checkpoint(cp, d) == save_atomic(cp, Synced(d))

LastAccepted(cp) == IF superseded(job.accepted, cp) THEN job.accepted ELSE forwarded(job.accepted, cp)
SaveFails(cp) == machine.faults \/ lineage_conflict(job.accepted, cp)
SaveWorks(cp) == ~lineage_conflict(job.accepted, cp)

(***************************************************************************)
(* Opening the output, and the choice of transfer.                         *)
(***************************************************************************)
CreatesBeside == job.durable > 0 \/ ~disk.ckpt.none

OpenFresh(ino) ==
    /\ At("open") /\ ~Resuming
    /\ ino \in FreshInodes(disk)
    /\ disk' = create_exclusive(disk, ino)
    /\ stale' = (stale \/ CreatesBeside)
    /\ job' = [job EXCEPT !.pc = IF job.eligible THEN "segmented" ELSE "loop",
                          !.state = transition(@, "Running"),
                          !.sink = IF job.eligible THEN "preserve" ELSE "delete",
                          !.vals = job.gen, !.attempt = 0, !.stages = 0]
    /\ Environment

(* A resumed stream starts at the contiguous prefix and refreshes the checkpoint. *)
OpenResumed ==
    /\ At("open") /\ Resuming
    /\ LET prefix == contiguous_prefix(job.plan.ranges)
           cp == [job.plan EXCEPT !.identity = disk.temp,
                                  !.digest = covered_digest(Bytes(disk), job.plan.ranges)]
           opened == [job EXCEPT !.state = transition(@, "Running"), !.sink = "preserve",
                                 !.vals = job.gen, !.attempt = 0, !.stages = 0]
       IN  IF job.eligible
           THEN job' = [opened EXCEPT !.pc = "segmented"] /\ UNCHANGED disk
           ELSE \/ /\ SaveWorks(cp)
                   /\ disk' = persist_checkpoint(cp, disk)
                   /\ job' = [opened EXCEPT !.pc = "loop", !.offset = prefix, !.durable = prefix,
                                            !.accepted = LastAccepted(cp)]
                \/ SaveFails(cp) /\ checkpoint_save_failed(disk)
    /\ LeaveStale /\ Environment

(* The output cannot be opened; a failed reopen leaves the file in place. *)
OpenFailed ==
    /\ machine.faults /\ At("open")
    /\ terminal_error("SinkOpen", [temp |-> Resuming, ckpt |-> job.retained], token.mode,
                      IF Resuming THEN disk ELSE RemoveTemp(disk))
    /\ LeaveStale /\ Environment

(***************************************************************************)
(* The segmented transfer by its outcome: bytes of one generation written  *)
(* anywhere, a checkpoint of some of them, and finish_segmented.           *)
(***************************************************************************)
SegmentedWrites(W) ==
    LET written == [i \in 1 .. Total |->
                        IF i - 1 \in W THEN job.gen
                        ELSE IF i <= Len(Bytes(disk)) THEN Bytes(disk)[i] ELSE Hole]
    IN  [disk EXCEPT !.data[disk.temp] = IF W = {} THEN @ ELSE written]

SegmentedCompleted ==
    /\ At("segmented")
    /\ disk' = SegmentedWrites(0 .. Total - 1 \ job.plan.ranges)
    /\ job' = [job EXCEPT !.pc = "complete", !.offset = Total]
    /\ LeaveStale /\ Environment

SegmentedEnded(W, saved, cancelled) ==
    /\ At("segmented")
    /\ W \subseteq 0 .. Total - 1 \ job.plan.ranges
    /\ saved => job.plan.ranges \cup W # {}
    /\ LET d == Synced(SegmentedWrites(W))
           kept == IF saved THEN save_atomic(Snapshot(job.plan.ranges \cup W, job.gen, d), d) ELSE d
       IN  \/ /\ cancelled /\ token.cancelled
              /\ terminal_cancelled(token.mode,
                                    [temp |-> token.mode # "DeletePartial",
                                     ckpt |-> token.mode = "KeepPartial"],
                                    cleanup_cancelled(token.mode, kept))
           \/ /\ ~cancelled
              /\ terminal_error("Transfer", [temp |-> TRUE, ckpt |-> job.retained \/ saved],
                                token.mode, kept)
    /\ LeaveStale /\ Environment

(***************************************************************************)
(* The download loop: one request per turn, once the origin gives a slot.  *)
(* The token is read before.                                               *)
(***************************************************************************)
LoopCancelled ==
    /\ At("loop") /\ token.cancelled
    /\ CancelObserved
    /\ LeaveStale /\ Environment

LoopTurn ==
    /\ At("loop") /\ ~token.cancelled
    /\ job' = [job EXCEPT !.pc = IF server.known /\ job.offset >= Total THEN "complete"
                                 ELSE "request"]
    /\ UNCHANGED disk /\ LeaveStale /\ Environment

OriginRefused ==
    /\ machine.faults /\ At("loop") /\ ~token.cancelled
    /\ AbortAndFail("Origin")
    /\ LeaveStale /\ Environment

Ranged == Resuming \/ job.offset > 0
Conditional == ~job.plan.none /\ Resuming
ExpectedValidators == IF job.plan.none THEN Headers(job.vals) ELSE job.plan.validators

(***************************************************************************)
(* What a server that follows HTTP may answer: the whole representation,   *)
(* or the range if the If-Range validator still describes the resource.    *)
(* A range may stop short of the end, when its total tells.                *)
(***************************************************************************)
FullResponse == [status |-> 200, start |-> 0, end |-> Total - 1, total |-> Absent,
                 validators |-> Headers(server.gen)]
RangeResponses ==
    {[FullResponse EXCEPT !.status = 206, !.start = job.offset, !.end = e, !.total = Size] :
        e \in IF server.known THEN {job.offset, Total - 1} ELSE {Total - 1}}
Responses ==
    {FullResponse} \cup
    (IF Ranged /\ job.offset < Total
        /\ if_range_value(ExpectedValidators) \in {Absent, if_range_value(Headers(server.gen))}
     THEN RangeResponses ELSE {})

(* The transfer's classification of a response: "Ok" or the error. *)
Accepts(response) ==
    IF ~Ranged THEN "Ok"
    ELSE IF response.status = 200 /\ Conditional THEN "ResourceChanged"
    ELSE LET verdict == validate_range_response(job.offset, Total - 1, response, Size,
                                                ExpectedValidators)
         IN  IF verdict = "Ok" THEN "Ok" ELSE into_error(verdict)

TransferOk(response) ==
    /\ At("request")
    /\ response \in Responses /\ Accepts(response) = "Ok"
    /\ job' = [job EXCEPT !.pc = "body", !.vals = server.gen,
                          !.body = [gen |-> server.gen, at |-> response.start, end |-> response.end]]
    /\ UNCHANGED disk /\ LeaveStale /\ Environment

(* The sink is aborted first; a retry starts a new file at offset zero. *)
RestartOrFail(error, ino) ==
    IF Retries(error)
    THEN /\ ino \in FreshInodes(disk)
         /\ disk' = create_exclusive(RemoveTemp(disk), ino)
         /\ stale' = (stale \/ CreatesBeside)
         /\ job' = [job EXCEPT !.pc = "loop", !.attempt = @ + 1, !.offset = 0, !.sink = "delete"]
    ELSE AbortAndFail(error) /\ LeaveStale

TransferFailed(error, ino) ==
    /\ At("request")
    /\ \/ error \in {"Server", "Connection", "NotFound"}
       \/ error = "Cancelled" /\ token.cancelled
       \/ \E r \in Responses : Accepts(r) = error
    /\ RestartOrFail(error, ino)
    /\ Environment

(* A mutant: authentication rounds of the transfer are not counted. *)
ChallengedUncounted(answers) ==
    /\ At("request")
    /\ IF machine.provider /\ answers
       THEN job' = [job EXCEPT !.pc = "loop"] /\ UNCHANGED disk
       ELSE AbortAndFail("Auth")
    /\ LeaveStale /\ Environment

TransferChallenged(answers) ==
    /\ At("request")
    /\ IF machine.provider /\ job.stages < MAX_AUTH_STAGES /\ answers
       THEN job' = [job EXCEPT !.pc = "loop", !.stages = @ + 1] /\ UNCHANGED disk
       ELSE AbortAndFail("Auth")
    /\ LeaveStale /\ Environment

(***************************************************************************)
(* The body of a response.  The token is read before each chunk; a         *)
(* cancellation while the chunk is handled counts as one after it, but for *)
(* a failing write, which looks again.                                     *)
(***************************************************************************)
BodyCancelled ==
    /\ At("body")
    /\ token.cancelled
    /\ CancelObserved
    /\ LeaveStale /\ Environment

Streaming == At("body") /\ ~token.cancelled
MoreBody == Streaming /\ job.body.at <= job.body.end
Overshoots == req.expected # Absent /\ job.offset + 1 > req.expected

BodyOvershoots ==
    /\ MoreBody /\ Overshoots
    /\ AbortAndFail("Protocol")
    /\ LeaveStale /\ Environment

Written == [disk EXCEPT !.data[disk.temp] = write_at(@, job.offset, job.body.gen)]

Acknowledged ==
    [job EXCEPT !.offset = @ + 1,
                !.durable = IF @ < job.offset + 1 THEN job.offset + 1 ELSE @,
                !.body.at = @ + 1]

(* One chunk is written and acknowledged. *)
BodyData ==
    /\ MoreBody /\ ~Overshoots
    /\ disk' = Written
    /\ job' = Acknowledged
    /\ LeaveStale /\ Environment

(* The same, when the checkpoint interval has elapsed. *)
BodyDataWithCheckpoint ==
    /\ MoreBody /\ ~Overshoots
    /\ LET cp == Snapshot(0 .. job.offset, job.vals, Written)
       IN  \/ /\ SaveWorks(cp)
              /\ disk' = persist_checkpoint(cp, Written)
              /\ job' = [Acknowledged EXCEPT !.retained = TRUE, !.sink = "preserve",
                                             !.accepted = LastAccepted(cp)]
           \/ SaveFails(cp) /\ checkpoint_save_failed(Synced(Written))
    /\ LeaveStale /\ Environment

WriteFailed ==
    /\ machine.faults /\ At("body") /\ job.body.at <= job.body.end /\ ~Overshoots
    /\ IF token.cancelled THEN CancelObserved ELSE AbortAndFail("SinkWrite")
    /\ LeaveStale /\ Environment

BodyEnd ==
    /\ Streaming /\ job.body.at > job.body.end
    /\ job' = [job EXCEPT !.pc = "complete"]
    /\ UNCHANGED disk /\ LeaveStale /\ Environment

(* A pause saves what there is and waits for the token. *)
BodyPaused ==
    /\ Streaming /\ token.paused
    /\ LET cp == Snapshot(0 .. job.offset - 1, job.vals, disk)
       IN  IF ~(server.known /\ job.offset > 0)
           THEN job' = [job EXCEPT !.pc = "paused"] /\ UNCHANGED disk
           ELSE \/ /\ SaveWorks(cp)
                   /\ disk' = persist_checkpoint(cp, disk)
                   /\ job' = [job EXCEPT !.pc = "paused", !.retained = TRUE, !.sink = "preserve",
                                         !.accepted = LastAccepted(cp)]
                \/ SaveFails(cp) /\ checkpoint_save_failed(Synced(disk))
    /\ LeaveStale /\ Environment

PauseEnds ==
    /\ At("paused")
    /\ \/ token.cancelled /\ CancelObserved
       \/ /\ ~token.cancelled /\ ~token.paused
          /\ job' = [job EXCEPT !.pc = "body"] /\ UNCHANGED disk
    /\ LeaveStale /\ Environment

(* A broken stream: the retry continues at the acknowledged prefix. *)
BodyFault(ino) ==
    /\ MoreBody
    /\ IF ~Retries("Connection")
       THEN AbortAndFail("Connection") /\ LeaveStale
       ELSE IF job.durable > 0
       THEN /\ job' = [job EXCEPT !.pc = "loop", !.attempt = @ + 1, !.offset = job.durable,
                                  !.sink = "preserve"]
            /\ UNCHANGED disk /\ LeaveStale
       ELSE RestartOrFail("Connection", ino)
    /\ Environment

(***************************************************************************)
(* complete_verified_output: verify, then publish at the commit boundary.  *)
(***************************************************************************)
OnFailure == [temp |-> job.sink = "preserve", ckpt |-> job.retained]

FailVerified(error) ==
    terminal_error(error, OnFailure, "DeletePartial", DropSink(disk, job.sink))

CancellationError == IF token.deadline THEN "DeadlineExceeded" ELSE "Cancelled"

(* Seen before verification, while hashing, or at the commit boundary. *)
CompletionCancelled ==
    /\ At("complete") \/ At("hash") \/ At("boundary")
    /\ token.cancelled
    /\ FailVerified(CancellationError)
    /\ LeaveStale /\ Environment

ExpectedTotal == IF server.known THEN Total ELSE req.expected

VerifySize ==
    /\ At("complete") /\ ~token.cancelled
    /\ LET verifying == [job EXCEPT !.pc = IF req.hash = Absent THEN "boundary" ELSE "hash",
                                    !.state = transition(@, "Verifying")]
       IN  IF ExpectedTotal # Absent
           THEN IF job.offset # ExpectedTotal \/ Len(Bytes(disk)) # ExpectedTotal
                THEN FailVerified("Integrity")
                ELSE job' = verifying /\ UNCHANGED disk
           ELSE /\ job' = verifying
                /\ disk' = [disk EXCEPT !.data[disk.temp] =
                              [i \in 1 .. job.offset |-> IF i <= Len(@) THEN @[i] ELSE Hole]]
    /\ LeaveStale /\ Environment

(* The caller's digest is that of one generation. *)
VerifyHashes ==
    /\ At("hash")
    /\ IF Bytes(disk) = Whole(req.hash)
       THEN job' = [job EXCEPT !.pc = "boundary"] /\ UNCHANGED disk
       ELSE FailVerified("Integrity")
    /\ LeaveStale /\ Environment

(* The last look at the token; finalize syncs the file and closes it. *)
CommitBoundary ==
    /\ At("boundary") /\ ~token.cancelled
    /\ job' = [job EXCEPT !.pc = "publish", !.state = transition(@, "Committing"),
                          !.sink = "finalized", !.keeps = job.sink = "preserve"]
    /\ disk' = SyncData(disk)
    /\ LeaveStale /\ Environment

(* The report computed before finalize: job.keeps is what it said then. *)
PublishFailed(error) ==
    terminal_error(error, [temp |-> job.keeps, ckpt |-> job.retained], "DeletePartial", disk)

(* Replace renames; no-replace links, refusing an existing entry. *)
Publish ==
    /\ At("publish")
    /\ IF req.overwrite = "Replace"
       THEN /\ disk' = Reclaim([disk EXCEPT !.dest = disk.temp, !.temp = 0])
            /\ job' = [job EXCEPT !.pc = "cleanup"]
       ELSE IF disk.dest # 0
       THEN PublishFailed("PublishConflict")
       ELSE /\ disk' = [disk EXCEPT !.dest = disk.temp]
            /\ job' = [job EXCEPT !.pc = "unlink"]
    /\ LeaveStale /\ Environment

CommitFailed ==
    /\ machine.faults /\ At("publish")
    /\ PublishFailed("Commit")
    /\ LeaveStale /\ Environment

(* A temporary name that cannot be removed is only a warning. *)
UnlinkTemp ==
    /\ At("unlink")
    /\ \/ disk' = RemoveTemp(disk)
       \/ machine.faults /\ UNCHANGED disk
    /\ job' = [job EXCEPT !.pc = "cleanup"]
    /\ LeaveStale /\ Environment

(* So is a checkpoint that cannot be deleted. *)
CompletedDownload ==
    /\ At("cleanup")
    /\ \/ disk' = DeleteCheckpoint(disk)
       \/ machine.faults /\ UNCHANGED disk
    /\ job' = [NewJob EXCEPT !.pc = "ended", !.state = transition(job.state, "Completed"),
                             !.result = [NoResult EXCEPT !.kind = "Completed"]]
    /\ LeaveStale /\ Environment

(***************************************************************************)
(* The client, the deadline watchdog, and the world.                       *)
(***************************************************************************)
World == UNCHANGED <<server, machine, req, disk, job, runs, stale>>

cancel_with(mode) ==
    /\ Running /\ token.calls < machine.cancels
    /\ token' = [token EXCEPT !.cancelled = TRUE, !.mode = mode, !.calls = @ + 1]
    /\ World

cancel_with_deadline ==
    /\ Running /\ machine.deadline /\ ~token.deadline
    /\ token' = [token EXCEPT !.cancelled = TRUE, !.deadline = TRUE]
    /\ World

pause == machine.pauses /\ Running /\ ~token.paused /\ token' = [token EXCEPT !.paused = TRUE] /\ World
unpause == Running /\ token.paused /\ token' = [token EXCEPT !.paused = FALSE] /\ World

ServerReplaces ==
    /\ machine.replaces /\ server.gen < Generations
    /\ server' = [server EXCEPT !.gen = @ + 1]
    /\ UNCHANGED <<machine, req, disk, token, job, runs, stale>>

DestinationAppears ==
    /\ machine.faults /\ disk.dest = 0
    /\ \E ino \in Inodes \ {disk.temp} :
          disk' = [disk EXCEPT !.dest = ino, !.data[ino] = Whole(Foreign)]
    /\ UNCHANGED <<server, machine, req, token, job, runs, stale>>

CheckpointDamaged ==
    /\ machine.faults /\ ~Running /\ ~disk.ckpt.none /\ ~disk.corrupt
    /\ disk' = [disk EXCEPT !.corrupt = TRUE]
    /\ UNCHANGED <<server, machine, req, token, job, runs, stale>>

(* The process dies; what it wrote stays with the system. *)
Crash ==
    /\ machine.crashes /\ Running
    /\ job' = [NewJob EXCEPT !.pc = "idle"]
    /\ UNCHANGED <<server, machine, req, disk, token, runs, stale>>

(* So does the machine: unsynced bytes of the partial file are lost. *)
PowerLoss ==
    /\ machine.crashes /\ machine.durable /\ Running
    /\ disk' = IF disk.temp = 0 THEN disk
               ELSE [disk EXCEPT !.data[disk.temp] =
                        [i \in 1 .. Len(@) |->
                            IF i <= Len(disk.synced[disk.temp]) THEN disk.synced[disk.temp][i]
                            ELSE Hole]]
    /\ job' = [NewJob EXCEPT !.pc = "idle"]
    /\ UNCHANGED <<server, machine, req, token, runs, stale>>

Errors == {"Server", "Connection", "NotFound", "Cancelled", "ResourceChanged", "InvalidRange"}
CancelModes == {"DeletePartial", "KeepPartial", "KeepFileDiscardCheckpoint"}

(* The controller's own steps, the network's answers included. *)
ControllerStep ==
    \/ PrepareFile \/ ValidateDirectory \/ ResolveDirectory
    \/ ProbeCancelled \/ Probe
    \/ \E eligible \in BOOLEAN : ProbeOk(eligible)
    \/ \E error \in {"Server", "NotFound", "Cancelled"} : ProbeFailed(error)
    \/ \E answers \in BOOLEAN : ProbeChallenged(answers)
    \/ FinalizeAdmission
    \/ \E ino \in Inodes : OpenFresh(ino)
    \/ OpenResumed \/ OpenFailed
    \/ SegmentedCompleted
    \/ \E W \in SUBSET (0 .. Total - 1), saved, cancelled \in BOOLEAN :
          SegmentedEnded(W, saved, cancelled)
    \/ LoopCancelled \/ LoopTurn \/ OriginRefused
    \/ \E response \in Responses : TransferOk(response)
    \/ \E error \in Errors, ino \in Inodes : TransferFailed(error, ino)
    \/ \E answers \in BOOLEAN : TransferChallenged(answers)
    \/ BodyCancelled \/ BodyOvershoots \/ BodyData \/ BodyDataWithCheckpoint
    \/ WriteFailed \/ BodyEnd \/ BodyPaused \/ PauseEnds
    \/ \E ino \in Inodes : BodyFault(ino)
    \/ CompletionCancelled \/ VerifySize \/ VerifyHashes \/ CommitBoundary
    \/ Publish \/ CommitFailed \/ UnlinkTemp \/ CompletedDownload

ClientStep ==
    \/ \E r \in machine.requests : Start(r) \/ AdmissionRejected(r)
    \/ \E mode \in CancelModes : cancel_with(mode)
    \/ cancel_with_deadline \/ pause \/ unpause

WorldStep ==
    \/ ServerReplaces \/ DestinationAppears \/ CheckpointDamaged
    \/ Crash \/ PowerLoss

ControllerNext == ControllerStep \/ ClientStep \/ WorldStep

ControllerSpec == ControllerInit /\ [][ControllerNext]_controllerVars

(* The runtime polls a job that can make progress, and every request it    *)
(* awaits is answered or times out.                                        *)
FairController == ControllerSpec /\ WF_controllerVars(ControllerStep)

-----------------------------------------------------------------------------

Ended == At("ended")
Published == disk.dest # 0 /\ disk.data[disk.dest] # Whole(Foreign)
Intact(bytes) == \E g \in 1 .. Generations : bytes = Whole(g)

(***************************************************************************)
(* A published file is one whole representation of the resource, with no   *)
(* missing byte and no byte of another generation, across retries,         *)
(* resumes, crashes and a resource that changes under the job -- provided  *)
(* the server sends some validator, and either the caller gave a digest or *)
(* no output file was restarted beside older progress (run_inner,          *)
(* validate_range_response, finalize).                                     *)
(***************************************************************************)
PublishedIntact ==
    Published /\ server.style # "none" /\ (req.hash # Absent \/ ~stale)
        => Intact(disk.data[disk.dest])

(* A published file is one whole representation of the resource, without an
   exception for restarts: what the comments on §41 and §17.3 promise of every
   retry of the sequential loop (run_inner). *)
PublishedComplete ==
    Published /\ server.style # "none" => Intact(disk.data[disk.dest])

(* Admission would accept the checkpoint (validate, validate_temp_file). *)
Admissible ==
    /\ ~disk.ckpt.none /\ ~disk.corrupt
    /\ validate(disk.ckpt)
    /\ validate_temp_file(disk.ckpt, disk.temp, Links(disk, disk.temp), Bytes(disk))

(***************************************************************************)
(* Whatever a crash or a power loss leaves, a checkpoint that admission    *)
(* would accept for the file beside it claims only bytes that are in that  *)
(* file, all of the generation it names (persist_checkpoint: data before   *)
(* checkpoint; finalize).                                                  *)
(***************************************************************************)
CheckpointBacked ==
    ~Running /\ Admissible /\ ~stale /\ server.style # "none" =>
        \E g \in 1 .. Generations :
            /\ disk.ckpt.validators = Headers(g)
            /\ \A i \in disk.ckpt.ranges : ByteAt(Bytes(disk), i) = g

(***************************************************************************)
(* A run that failed or was cancelled with its output open reports whether *)
(* the partial file is still there (ArtifactDisposition), except that a    *)
(* failed publication reports what was true before finalize.               *)
(***************************************************************************)
ReportsPartialFile ==
    Ended /\ job.result.open /\ job.result.error \notin {"Commit", "PublishConflict"}
        => job.result.temp = (disk.temp # 0)

(***************************************************************************)
(* A run always ends in a terminal state although the state machine may    *)
(* refuse a transition, and it is Completed exactly if the run says so.    *)

(* A run that is not left paused ends, whatever the server answers: every
   retry and every authentication round is counted (decide, AuthStageGuard). *)
RunsEnd == Running ~> (~Running \/ token.paused)
=============================================================================
