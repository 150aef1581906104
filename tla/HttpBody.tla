------------------------------ MODULE HttpBody ------------------------------
(***************************************************************************)
(* Reading a response body one chunk at a time: HttpBody::next_chunk and   *)
(* HyperBodySource (crates/engine/src/http/{execution,transport}.rs), with *)
(* the loop of the consumer that calls it: the sequential transfer awaits  *)
(* the chunk, a segmented worker also listens for job revisions.           *)
(*                                                                         *)
(* A chunk is its length.  The reader is a task: a pending poll runs again *)
(* only when something it registered wakes it, and time passes only when   *)
(* no task can run and no timer is due.                                    *)
(***************************************************************************)
EXTENDS Naturals, Sequences

CONSTANTS ChunkLengths,   \* lengths of data frames
          AcceptedLengths,\* length of the ranged intent; 0: no limit
          IdleTimeout,    \* network.read_idle_timeout, in ticks
          MaxBody,        \* bound: bytes a server sends
          MaxRevisions,   \* bound: revisions published by peers
          MaxPauses       \* bound: pauses requested

ASSUME BodyAssumption == IdleTimeout \in Nat

VARIABLES limit,     \* HyperBodySource::limit, the accepted length
          selecting, \* the consumer is a segmented worker
          inbox,     \* frames that arrived and were not polled
          sent,      \* bytes the server has sent
          delivered, \* bytes the source has handed out
          received,  \* bytes the consumer was given
          bodyReader,\* the reading task: its step, the time left to its deadline, woken
          signal,    \* the cancellation token: cancelled, paused
          quiet,     \* time since the last chunk, up to IdleTimeout + 1
          revisions, pauses

bodyVars == <<limit, selecting, inbox, sent, delivered, received, bodyReader, signal,
              quiet, revisions, pauses>>

BodyEnded == {"end", "failed", "cancelled"}

BodyInit ==
    /\ limit \in AcceptedLengths
    /\ selecting \in BOOLEAN
    /\ inbox = <<>> /\ sent = 0
    /\ delivered = 0 /\ received = 0
    /\ bodyReader = [step |-> "loop", left |-> 0, woken |-> FALSE]
    /\ signal = [cancelled |-> FALSE, paused |-> FALSE]
    /\ quiet = 0 /\ revisions = 0 /\ pauses = 0

(* A frame arrives; the poll of the source registered the task for it. *)
Arrive ==
    /\ bodyReader.step \notin BodyEnded /\ Len(inbox) < 2
    /\ inbox # <<>> => inbox[Len(inbox)].kind = "data"
    /\ \E f \in [kind : {"data"}, len : ChunkLengths] \cup [kind : {"end", "trailer", "reset"}, len : {0}] :
          /\ sent + f.len <= MaxBody
          /\ inbox' = Append(inbox, f)
          /\ sent' = sent + f.len
    /\ bodyReader' = [bodyReader EXCEPT !.woken = @ \/ bodyReader.step = "pending"]
    /\ UNCHANGED <<limit, selecting, delivered, received, signal, quiet, revisions, pauses>>

(* The consumer's loop: its own check of the token, the wait for a resume
   after a pause, and the call, which sets a deadline for this chunk. *)
NextChunk ==
    /\ bodyReader.step = "loop"
    /\ ~signal.paused \/ signal.cancelled
    /\ bodyReader' = IF signal.cancelled THEN [bodyReader EXCEPT !.step = "cancelled"]
                 ELSE [step |-> "polling", left |-> IdleTimeout, woken |-> TRUE]
    /\ UNCHANGED <<limit, selecting, inbox, sent, delivered, received, signal, quiet,
                   revisions, pauses>>

Overruns(f) == limit # 0 /\ delivered + f.len > limit

(* HyperBodySource::poll_chunk on a frame that has arrived. *)
poll_chunk(f) ==
    /\ inbox' = Tail(inbox)
    /\ CASE f.kind = "data" /\ ~Overruns(f) ->
              /\ delivered' = delivered + f.len
              /\ received' = received + f.len
              /\ bodyReader' = [bodyReader EXCEPT !.step = "loop", !.woken = FALSE]
              /\ quiet' = 0
         [] f.kind = "end" ->
              /\ bodyReader' = [bodyReader EXCEPT !.step = "end", !.woken = FALSE]
              /\ UNCHANGED <<delivered, received, quiet>>
         [] OTHER ->
              /\ bodyReader' = [bodyReader EXCEPT !.step = "failed", !.woken = FALSE]
              /\ UNCHANGED <<delivered, received, quiet>>

Interrupted == signal.cancelled \/ signal.paused

(* A mutant: the timer is created and never polled, so it wakes nobody. *)
PendingUntimed ==
    /\ bodyReader' = [bodyReader EXCEPT !.step = "pending", !.woken = FALSE,
                                !.left = IdleTimeout + 1]
    /\ UNCHANGED <<inbox, delivered, received, quiet>>

(* The idle timer is reset to this call's deadline and polled. *)
ReadIdle ==
    /\ bodyReader' = IF bodyReader.left = 0
                 THEN [bodyReader EXCEPT !.step = "failed", !.woken = FALSE]
                 ELSE [bodyReader EXCEPT !.step = "pending", !.woken = FALSE]
    /\ UNCHANGED <<inbox, delivered, received, quiet>>

(* HttpBody::poll_step: token, source, timer. *)
PollStep ==
    /\ bodyReader.step = "polling" \/ (bodyReader.step = "pending" /\ bodyReader.woken)
    /\ IF Interrupted
       THEN /\ bodyReader' = [bodyReader EXCEPT !.step = IF signal.cancelled THEN "cancelled" ELSE "loop",
                                        !.woken = FALSE]
            /\ UNCHANGED <<inbox, delivered, received, quiet>>
       ELSE IF inbox # <<>> THEN poll_chunk(Head(inbox)) ELSE ReadIdle
    /\ UNCHANGED <<limit, selecting, sent, signal, revisions, pauses>>

TimerDue == bodyReader.step = "pending" /\ bodyReader.left = 0

IdleTimerFires ==
    /\ TimerDue /\ ~bodyReader.woken
    /\ bodyReader' = [bodyReader EXCEPT !.woken = TRUE]
    /\ UNCHANGED <<limit, selecting, inbox, sent, delivered, received, signal, quiet,
                   revisions, pauses>>

(* A segmented worker's select: a peer's revision ends the call while it is
   pending, and the loop asks again. *)
Revised ==
    /\ selecting /\ bodyReader.step = "pending" /\ revisions < MaxRevisions
    /\ revisions' = revisions + 1
    /\ bodyReader' = [bodyReader EXCEPT !.step = "loop", !.woken = FALSE]
    /\ UNCHANGED <<limit, selecting, inbox, sent, delivered, received, signal, quiet, pauses>>

(* The token's flags wake nobody here: poll_step registers with the source
   and with the timer only. *)
CancelRead ==
    /\ ~signal.cancelled /\ bodyReader.step \notin BodyEnded
    /\ signal' = [signal EXCEPT !.cancelled = TRUE]
    /\ UNCHANGED <<limit, selecting, inbox, sent, delivered, received, bodyReader, quiet,
                   revisions, pauses>>
PauseRead ==
    /\ ~signal.paused /\ pauses < MaxPauses
    /\ signal' = [signal EXCEPT !.paused = TRUE]
    /\ pauses' = pauses + 1
    /\ UNCHANGED <<limit, selecting, inbox, sent, delivered, received, bodyReader, quiet,
                   revisions>>
ResumeRead ==
    /\ signal.paused
    /\ signal' = [signal EXCEPT !.paused = FALSE]
    /\ UNCHANGED <<limit, selecting, inbox, sent, delivered, received, bodyReader, quiet,
                   revisions, pauses>>

Elapse ==
    /\ bodyReader.step = "pending" /\ ~bodyReader.woken /\ ~TimerDue
    /\ bodyReader' = [bodyReader EXCEPT !.left = @ - 1]
    /\ quiet' = IF quiet > IdleTimeout THEN quiet ELSE quiet + 1
    /\ UNCHANGED <<limit, selecting, inbox, sent, delivered, received, signal, revisions, pauses>>

BodyNext ==
    \/ Arrive \/ NextChunk \/ PollStep \/ IdleTimerFires \/ Revised
    \/ CancelRead \/ PauseRead \/ ResumeRead \/ Elapse

(* A task that can run runs, a timer that is due fires, time passes. *)
BodyFairness ==
    /\ WF_bodyVars(NextChunk) /\ WF_bodyVars(PollStep)
    /\ WF_bodyVars(IdleTimerFires) /\ WF_bodyVars(Elapse)
BodySpec == BodyInit /\ [][BodyNext]_bodyVars /\ BodyFairness

-----------------------------------------------------------------------------

(* Once a cancellation or a pause has been requested, no read that is polled
   afterwards hands out data: both win against a chunk that is ready. *)
InterruptionWins ==
    [][signal.cancelled \/ signal.paused => received' = received]_bodyVars

(* A body from which nothing arrives for the read-idle timeout is a failed
   connection: a reader that neither a pause nor a revision of the job woke
   waits no longer than that for its next chunk (each wake starts the timeout
   afresh). *)
StallDetected ==
    bodyReader.step = "pending" /\ pauses = 0 /\ revisions = 0 => quiet <= IdleTimeout
=============================================================================
