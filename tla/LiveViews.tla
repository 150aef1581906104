------------------------------ MODULE LiveViews ------------------------------
(***************************************************************************)
(* How a job's progress reaches a browser page: the supervisor publishes   *)
(* views (supervisor/mod.rs: sample, broadcast_record), a bounded broker   *)
(* carries them (events.rs), the event stream coalesces them (api/sse.rs)  *)
(* and the page reconciles them with the collection it fetches             *)
(* (web/src/api/liveSync.ts, liveSyncApp.ts).                              *)
(*                                                                         *)
(* One job and one page.  A view is [status, attempt, seq].  The fetched   *)
(* collection always carries sequence number 0 (job_view_of).  The page    *)
(* knows no epoch: the handler of "hello" reads streamEpoch where the wire *)
(* has stream_epoch, so what it has seen after a fetch belongs to no epoch *)
(* and the first snapshot after it is always taken.                        *)
(***************************************************************************)
EXTENDS Integers, Sequences, FiniteSets

LOCAL INSTANCE SequencesExt

CONSTANTS
    Capacity,       \* of the broker
    MaxSamples,     \* samples of one run
    Budget,         \* retries, pauses, resumptions and lost connections
    WireLimit       \* events a connection holds before the stream waits

VARIABLES
    row,        \* the registry's row of the job
    run,        \* Actor.active: the run, its sequence number, its copy of the status
    launches,
    channel,    \* what the broker holds for the stream
    skipped,    \* the stream has lagged and not been told yet
    emitted,    \* SnapshotCoalescer: the status last emitted
    wire,       \* events on their way to the page
    stream,     \* "closed" or "open"
    spent,      \* of the budget
    page,       \* LiveSync
    fetches,    \* the page's requests for the collection
    troubles    \* what has happened that the design has no answer to

server == <<row, run, launches>>
sse == <<channel, skipped, emitted, stream>>
liveVars == <<server, sse, wire, spent, page, fetches, troubles>>

NoRun == [attempt |-> 0, seq |-> 0, status |-> "none"]
Ended == {"completed", "failed", "cancelled"}
View(status, attempt, seq) == [status |-> status, attempt |-> attempt, seq |-> seq]
NoView == View("none", 0, 0)
Unseen == [epoch |-> 0, attempt |-> 0, seq |-> 0, known |-> FALSE]

LiveInit ==
    /\ row = [status |-> "queued", attempt |-> 0]
    /\ run = NoRun /\ launches = 0
    /\ channel = <<>> /\ skipped = FALSE /\ emitted = "none" /\ stream = "closed"
    /\ wire = <<>> /\ spent = 0
    /\ page = [phase |-> "connecting", buffer |-> <<>>, seen |-> Unseen, shown |-> "none"]
    /\ fetches = <<>>
    /\ troubles = {}

-----------------------------------------------------------------------------
(* The broker.  A full channel drops the oldest event of a slow receiver.    *)

Spend == spent < Budget /\ spent' = spent + 1

publish(view) ==
    /\ IF stream = "closed" THEN UNCHANGED <<channel, skipped, troubles>>
       ELSE LET full == Len(channel) >= Capacity
            IN  /\ full => "lag" \notin troubles      \* bound: one lag
                /\ channel' = Append(IF full THEN Tail(channel) ELSE channel, view)
                /\ skipped' = (skipped \/ full)
                /\ troubles' = IF full THEN troubles \cup {"lag"} ELSE troubles
    /\ UNCHANGED <<emitted, stream, wire, page, fetches>>

seq_of(r) == r.seq

(* broadcast_record, after the registry and the run have changed. *)
broadcast_record == publish(View(row'.status, row'.attempt, seq_of(run')))

(* launch_job: a new attempt, unless a queued retry already carries one.  The
   record that retry broadcasts after it repeats this one. *)
launch_job ==
    /\ run = NoRun
    /\ launches' = launches + 1
    /\ IF launches = 0 THEN UNCHANGED spent ELSE Spend
    /\ LET attempt == IF row.status = "queued" /\ row.attempt # 0 THEN row.attempt ELSE row.attempt + 1
       IN  /\ row' = [status |-> "active", attempt |-> attempt]
           /\ run' = [attempt |-> attempt, seq |-> 0, status |-> "active"]
    /\ broadcast_record

(* A retry while every slot is taken. *)
QueueRetry ==
    /\ run = NoRun /\ row.status \in Ended
    /\ row' = [row EXCEPT !.status = "queued"]
    /\ Spend
    /\ UNCHANGED <<run, launches>>
    /\ broadcast_record

PauseOrResume(status) ==
    /\ run # NoRun /\ status # row.status
    /\ row' = [row EXCEPT !.status = status]
    /\ run' = [run EXCEPT !.status = status]
    /\ Spend
    /\ UNCHANGED launches
    /\ broadcast_record

CancelQueued ==
    /\ run = NoRun /\ row.status = "queued"
    /\ row' = [row EXCEPT !.status = "cancelled"]
    /\ UNCHANGED <<run, launches, spent>>
    /\ broadcast_record

(* sample: the run's own copy of the record, with the next number. *)
sample ==
    /\ run # NoRun /\ run.seq < MaxSamples
    /\ run' = [run EXCEPT !.seq = @ + 1]
    /\ UNCHANGED <<row, launches, spent>>
    /\ publish(View(run.status, run.attempt, run.seq + 1))

(* Mutant of finalize: the outcome carries the last sample's number. *)
FinalizeSameSeq(status) ==
    /\ run # NoRun
    /\ row' = [row EXCEPT !.status = status]
    /\ run' = NoRun
    /\ UNCHANGED <<launches, spent>>
    /\ publish(View(status, row.attempt, run.seq))

(* finalize: the outcome is one number past the last sample, then the run is
   dropped. *)
FinalizeRun(status) ==
    /\ run # NoRun
    /\ row' = [row EXCEPT !.status = status]
    /\ run' = NoRun
    /\ UNCHANGED <<launches, spent>>
    /\ publish(View(status, row.attempt, run.seq + 1))

-----------------------------------------------------------------------------
(* api/sse.rs *)

Hello == [kind |-> "hello", job |-> NoView]
Snapshot(view) == [kind |-> "job.snapshot", job |-> view]
Degraded == [kind |-> "service.degraded", job |-> NoView]

(* stream: the receiver exists before the hello does. *)
Connect ==
    /\ stream = "closed"
    /\ stream' = "open" /\ channel' = <<>> /\ skipped' = FALSE /\ emitted' = "none"
    /\ wire' = <<Hello>>
    /\ UNCHANGED <<server, spent, page, fetches, troubles>>

(* SnapshotCoalescer::allow.  elapsed: 250 ms have passed since the last. *)
allow(status, elapsed) == emitted = "none" \/ emitted # status \/ elapsed

Forward(elapsed) ==
    /\ stream = "open" /\ Len(wire) < WireLimit
    /\ \/ /\ skipped
          /\ skipped' = FALSE /\ wire' = Append(wire, Degraded)
          /\ UNCHANGED <<channel, emitted>>
       \/ /\ ~skipped /\ channel # <<>>
          /\ channel' = Tail(channel)
          /\ LET view == Head(channel)
             IN  IF allow(view.status, elapsed)
                   THEN wire' = Append(wire, Snapshot(view)) /\ emitted' = view.status
                   ELSE UNCHANGED <<wire, emitted>>
          /\ UNCHANGED skipped
    /\ UNCHANGED <<server, stream, spent, page, fetches, troubles>>

-----------------------------------------------------------------------------
(* web/src/api/liveSync.ts.  A handler runs to completion.                   *)

(* applySnapshot: newer by epoch, attempt and sequence number. *)
Newer(seen, view) ==
    \/ ~seen.known \/ seen.epoch = 0
    \/ view.attempt # seen.attempt
    \/ view.seq > seen.seq

applySnapshot(p, view) ==
    IF Newer(p.seen, view)
      THEN [p EXCEPT !.seen = [epoch |-> 1, attempt |-> view.attempt, seq |-> view.seq, known |-> TRUE],
                     !.shown = view.status]
      ELSE p

(* fetchCollections: the request is sent, read by the server, and answered. *)
fetchCollections(after) == fetches' = Append(fetches, [after |-> after, read |-> FALSE, view |-> NoView])
Overlapping == IF fetches # <<>> THEN troubles \cup {"overlap"} ELSE troubles

onHello ==
    /\ page' = [page EXCEPT !.phase = "syncing"]
    /\ fetchCollections("hello")
    /\ troubles' = Overlapping

onSnapshot(view) ==
    /\ page' = CASE page.phase = "syncing" -> [page EXCEPT !.buffer = Append(@, view)]
                 [] page.phase = "live" -> applySnapshot(page, view)
                 [] OTHER -> page
    /\ UNCHANGED <<fetches, troubles>>

onDegraded ==
    /\ page' = [page EXCEPT !.phase = "stale"]
    /\ fetchCollections("degraded")
    /\ troubles' = Overlapping

onEvent ==
    /\ wire # <<>> /\ Len(fetches) < 2          \* bound: two fetches at once
    /\ wire' = Tail(wire)
    /\ CASE Head(wire).kind = "hello" -> onHello
         [] Head(wire).kind = "job.snapshot" -> onSnapshot(Head(wire).job)
         [] Head(wire).kind = "service.degraded" -> onDegraded
    /\ UNCHANGED <<server, sse, spent>>

Without(i) == SubSeq(fetches, 1, i - 1) \o SubSeq(fetches, i + 1, Len(fetches))

(* list_jobs: the record as it is now, with sequence number 0. *)
list_jobs(i) ==
    /\ ~fetches[i].read
    /\ fetches' = [fetches EXCEPT ![i].read = TRUE, ![i].view = View(row.status, row.attempt, 0)]
    /\ UNCHANGED <<server, sse, wire, spent, page, troubles>>

(* The promise of a hello's fetch: caches, seen, then the buffer. *)
Collected(view) ==
    LET replaced == [page EXCEPT !.shown = view.status, !.buffer = <<>>,
                        !.seen = [epoch |-> 0, attempt |-> view.attempt, seq |-> view.seq, known |-> TRUE]]
    IN  [FoldLeft(applySnapshot, replaced, page.buffer) EXCEPT !.phase = "live"]

Resolve(i) ==
    /\ fetches[i].read
    /\ page' = IF fetches[i].after = "hello" THEN Collected(fetches[i].view)
               ELSE [page EXCEPT !.shown = fetches[i].view.status, !.phase = "live"]
    /\ fetches' = Without(i)
    /\ UNCHANGED <<server, sse, wire, spent, troubles>>

onDisconnected == [page EXCEPT !.phase = "stale", !.buffer = <<>>]

(* A failed hello fetch counts as a disconnect; a failed fetch after a
   degradation is not handled. *)
Reject(i) ==
    /\ page' = IF fetches[i].after = "hello" THEN onDisconnected ELSE page
    /\ fetches' = Without(i)
    /\ Spend
    /\ UNCHANGED <<server, sse, wire, troubles>>

(* EventSource loses the connection and opens another one by itself. *)
Disconnect ==
    /\ stream = "open"
    /\ stream' = "closed" /\ channel' = <<>> /\ skipped' = FALSE /\ emitted' = "none"
    /\ wire' = <<>> /\ Spend
    /\ page' = onDisconnected
    /\ UNCHANGED <<server, fetches, troubles>>

LiveNext ==
    \/ launch_job \/ QueueRetry \/ CancelQueued \/ sample
    \/ \E status \in {"active", "paused"} : PauseOrResume(status)
    \/ \E status \in {"completed", "failed"} : FinalizeRun(status)
    \/ Connect \/ Disconnect \/ onEvent
    \/ \E elapsed \in BOOLEAN : Forward(elapsed)
    \/ \E i \in DOMAIN fetches : list_jobs(i) \/ Resolve(i) \/ Reject(i)

LiveSpec == LiveInit /\ [][LiveNext]_liveVars

-----------------------------------------------------------------------------
(* Properties.                                                               *)

(* Nothing is on its way to a page that calls itself live. *)
Settled ==
    /\ page.phase = "live" /\ stream = "open"
    /\ channel = <<>> /\ ~skipped /\ wire = <<>> /\ fetches = <<>>

(* The end of a download reaches the page (finalize, allow, stream,
   liveSync.ts): once everything sent has arrived, a live page shows the
   outcome of a run, whatever was sampled, coalesced, buffered during the
   handshake or lost with an earlier connection.  Not covered: a receiver the
   broker dropped events for, two fetches in flight at once, and a run that
   reuses the attempt of an earlier one. *)
OutcomeShown ==
    Settled /\ troubles = {} /\ row.status \in {"completed", "failed"} /\ launches = row.attempt
        => page.shown = row.status

=============================================================================
