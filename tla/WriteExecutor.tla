--------------------------- MODULE WriteExecutor ---------------------------
(***************************************************************************)
(* The shared write executor, crates/engine/src/io/write_executor.rs, with *)
(* the byte bound of io/write_budget.rs: a pool of blocking threads serves *)
(* the queues of the attached sessions round-robin.                        *)
(*                                                                         *)
(* A thread holds the state mutex from its last look at `closed` until it  *)
(* waits on the condition variable; that window is the step between        *)
(* "parking" and "parked".  Every other critical section is one action,    *)
(* taken while no thread holds the mutex.                                  *)
(***************************************************************************)
EXTENDS Naturals, Sequences, FiniteSets, SequencesExt

CONSTANTS
    Threads,        \* write_executor.writer_threads
    Sessions,       \* the attachments: one per network worker
    MaxQueuedBytes  \* write_executor.max_queued_bytes

ASSUME ExecutorAssumption == IsFiniteSet(Sessions) /\ MaxQueuedBytes \in Nat \ {0}

VARIABLES
    registry,       \* ExecutorState.sessions, in order of attachment
    cursor,         \* ExecutorState.cursor
    queuedBytes,    \* ExecutorCore.queued_bytes
    closed,         \* ExecutorCore.closed
    thread,         \* the pool: where each thread is, and the write it carries
    completions,    \* the completion stream of each session
    written         \* the bytes in the output file

executorVars == <<registry, cursor, queuedBytes, closed, thread, completions, written>>

(* A queued write: its session, lease and bytes off .. off + len - 1. *)
NoWrite == [session |-> 0, lease |-> 0, off |-> 0, len |-> 0]
BytesOf(write) == write.off .. write.off + write.len - 1

NewSession(s) == [id |-> s, queue |-> <<>>, executing |-> 0, closed |-> FALSE, detached |-> FALSE]

(* The sessions attached and the threads running when the job starts. *)
ExecutorInit(attached, running) ==
    /\ registry = SetToSeq({NewSession(s) : s \in attached})
    /\ cursor = 1
    /\ queuedBytes = 0
    /\ closed = FALSE
    /\ thread = [t \in Threads |-> [pc |-> IF t \in running THEN "scan" ELSE "exited", write |-> NoWrite, ok |-> FALSE]]
    /\ completions = [s \in Sessions |-> <<>>]
    /\ written = {}

Unlocked == \A t \in Threads : thread[t].pc # "parking"
Positions(s) == {i \in DOMAIN registry : registry[i].id = s}
Attached(s) == Positions(s) # {}
Entry(s) == registry[CHOOSE i \in Positions(s) : TRUE]
UpdateEntry(s, entry) == registry' = [i \in DOMAIN registry |->
                                        IF registry[i].id = s THEN entry ELSE registry[i]]
Idle(entry) == entry.queue = <<>> /\ entry.executing = 0

Wake(ts) == [t \in Threads |-> IF t \in ts THEN [thread[t] EXCEPT !.pc = "scan"] ELSE thread[t]]
Parked == {t \in Threads : thread[t].pc = "parked"}

(***************************************************************************)
(* take_next: the first session with work at or after the cursor.          *)
(***************************************************************************)
Slot(k) == ((k - 1) % Len(registry)) + 1
Serves(k) ==
    /\ registry[Slot(k)].queue # <<>>
    /\ \A j \in cursor .. k - 1 : registry[Slot(j)].queue = <<>>
HasWork == \E i \in DOMAIN registry : registry[i].queue # <<>>

TakeNext(t) ==
    /\ thread[t].pc = "scan" /\ Unlocked /\ HasWork
    /\ \E k \in cursor .. cursor + Len(registry) - 1 :
          LET entry == registry[Slot(k)]
          IN  /\ Serves(k)
              /\ cursor' = Slot(Slot(k) + 1)
              /\ UpdateEntry(entry.id, [entry EXCEPT !.queue = Tail(@), !.executing = @ + 1])
              /\ thread' = [thread EXCEPT ![t] = [@ EXCEPT !.pc = "write", !.write = Head(entry.queue)]]
    /\ UNCHANGED <<queuedBytes, closed, completions, written>>

(* No work: leave when closed and everything settled, else wait. *)
LeaveOrPark(t) ==
    /\ thread[t].pc = "scan" /\ Unlocked /\ ~HasWork
    /\ thread' = [thread EXCEPT ![t].pc =
                    IF closed /\ \A i \in DOMAIN registry : Idle(registry[i])
                    THEN "exited" ELSE "parking"]
    /\ UNCHANGED <<registry, cursor, queuedBytes, closed, completions, written>>

Park(t) ==
    /\ thread[t].pc = "parking"
    /\ thread' = [thread EXCEPT ![t].pc = "parked"]
    /\ UNCHANGED <<registry, cursor, queuedBytes, closed, completions, written>>

(* execute_write: a failed write, or one that panics, may leave a prefix. *)
ExecuteWrite(t, ok) ==
    /\ thread[t].pc = "write"
    /\ LET bytes == BytesOf(thread[t].write)
       IN  IF ok THEN written' = written \cup bytes
           ELSE \E n \in 0 .. thread[t].write.len - 1 :
                   written' = written \cup {b \in bytes : b < thread[t].write.off + n}
    /\ thread' = [thread EXCEPT ![t].pc = "complete", ![t].ok = ok]
    /\ UNCHANGED <<registry, cursor, queuedBytes, closed, completions>>

(* settle: the completion is sent and the charge released, *)
Complete(t) ==
    /\ thread[t].pc = "complete"
    /\ LET write == thread[t].write
       IN  /\ completions' = [completions EXCEPT ![write.session] =
                                Append(@, [write |-> write, ok |-> thread[t].ok])]
           /\ queuedBytes' = queuedBytes - write.len
    /\ thread' = [thread EXCEPT ![t].pc = "settle"]
    /\ UNCHANGED <<registry, cursor, closed, written>>

(* then the session is updated; a closed executor wakes its threads. *)
Settle(t) ==
    /\ thread[t].pc = "settle" /\ Unlocked
    /\ LET s == thread[t].write.session
       IN  IF Attached(s) THEN UpdateEntry(s, [Entry(s) EXCEPT !.executing = @ - 1])
           ELSE UNCHANGED registry
    /\ thread' = [Wake(IF closed THEN Parked ELSE {}) EXCEPT
                    ![t] = [pc |-> "scan", write |-> NoWrite, ok |-> FALSE]]
    /\ UNCHANGED <<cursor, queuedBytes, closed, completions, written>>

(***************************************************************************)
(* submit: the byte charge, then the queue and one thread woken.           *)
(***************************************************************************)

Room(len) == queuedBytes + len <= MaxQueuedBytes
Accepts(s) == ~closed /\ Attached(s) /\ ~Entry(s).closed

(* A mutant: no thread is woken. *)
SubmitSilently(s, write) ==
    /\ Unlocked /\ Accepts(s) /\ Room(write.len)
    /\ queuedBytes' = queuedBytes + write.len
    /\ UpdateEntry(s, [Entry(s) EXCEPT !.queue = Append(@, write)])
    /\ UNCHANGED <<cursor, closed, thread, completions, written>>

Submit(s, write) ==
    /\ Unlocked /\ Accepts(s) /\ Room(write.len)
    /\ queuedBytes' = queuedBytes + write.len
    /\ UpdateEntry(s, [Entry(s) EXCEPT !.queue = Append(@, write)])
    /\ IF Parked = {} THEN UNCHANGED thread ELSE \E t \in Parked : thread' = Wake({t})
    /\ UNCHANGED <<cursor, closed, completions, written>>

(* detach with Discard: no more writes, and the queued ones are dropped. *)
Detach(s) ==
    /\ Unlocked /\ Attached(s)
    /\ UpdateEntry(s, [Entry(s) EXCEPT !.closed = TRUE, !.detached = TRUE, !.queue = <<>>])
    /\ queuedBytes' = queuedBytes - FoldSeq(LAMBDA write, sum : sum + write.len, 0, Entry(s).queue)
    /\ completions' = [completions EXCEPT ![s] =
                         @ \o [i \in DOMAIN Entry(s).queue |->
                                 [write |-> Entry(s).queue[i], ok |-> FALSE]]]
    /\ UNCHANGED <<cursor, closed, thread, written>>

(* A mutant: the executing write is not awaited. *)
LeaveAtOnce(s) ==
    /\ Unlocked /\ Attached(s) /\ Entry(s).detached
    /\ registry' = SelectSeq(registry, LAMBDA entry : entry.id # s)
    /\ UNCHANGED <<cursor, queuedBytes, closed, thread, completions, written>>

(* A settled session leaves the registry. *)
Leave(s) ==
    /\ Unlocked /\ Attached(s) /\ Entry(s).detached /\ Idle(Entry(s))
    /\ registry' = SelectSeq(registry, LAMBDA entry : entry.id # s)
    /\ UNCHANGED <<cursor, queuedBytes, closed, thread, completions, written>>

(***************************************************************************)
(* shutdown.  The flag and the notification need no mutex.                 *)
(***************************************************************************)
Close ==
    /\ ~closed /\ closed' = TRUE
    /\ UNCHANGED <<registry, cursor, queuedBytes, thread, completions, written>>

NotifyAll ==
    /\ thread' = Wake(Parked)
    /\ UNCHANGED <<registry, cursor, queuedBytes, closed, completions, written>>

AllExited == \A t \in Threads : thread[t].pc = "exited"

ThreadStep(t) ==
    \/ TakeNext(t) \/ LeaveOrPark(t) \/ Park(t)
    \/ Complete(t) \/ Settle(t)
=============================================================================
