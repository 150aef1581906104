--------------------------- MODULE JobStepProofs ----------------------------
(* Proofs about SegmentedJob, first part: its inductive invariant, what the
   steps of workers and of the coordinator do to the leases of the scheduler,
   that each of them is a step of the scheduler or leaves the scheduler alone,
   and that every step keeps JobInv, what each worker knows of its lease.

   The invariant is the accounting of the scheduler, what each worker knows of
   its lease, what a save has in hand, what a pause is waiting for, and why the
   workers have left.  It relates the scheduler's leases to the workers' copies,
   the progress cells and the bytes written. *)
EXTENDS SegmentedJob, TLAPS

-----------------------------------------------------------------------------
(* The workers and their leases. *)

(* Where a worker has a lease, where it receives its bytes, and where it has
   received all of them. *)
Receiving == {"read", "write", "save", "awaitSave", "paused"}

Finishing == {"done", "ack", "settle", "complete"}

Busy == Receiving \cup Finishing
        \cup {"request", "retry", "requeue", "fail", "abandon", "bump"}

(* What the job needs of the scheduler's accounting, SchedInv. *)
LeasesOK ==
    /\ nextLease \in Nat /\ generation \in Nat
    /\ pending \subseteq Bytes /\ completed \subseteq Bytes
    /\ \A i \in DOMAIN active :
          /\ i \in Nat /\ 0 < i /\ i < nextLease
          /\ active[i] \in [generation : Nat, start : Nat, end : Nat, next : Nat]
          /\ active[i].generation = generation
          /\ active[i].start <= active[i].end /\ active[i].end < TotalSize
          /\ active[i].start <= active[i].next /\ active[i].next <= active[i].end + 1

Types ==
    /\ pc \in [Workers -> WorkerStates]
    /\ held \in [Workers -> [id : Nat, generation : Nat, start : Nat, end : Nat, next : Nat]]
    /\ xfer \in [Workers -> [from : Nat, pos : Nat, last : Nat, eff : Nat, len : Nat, cut : BOOLEAN]]
    /\ cell \in [Workers -> [lease : Nat, generation : Nat, written : Nat, received : Nat]]
    /\ written \subseteq Bytes
    /\ scenario \in Scenario

(* A worker's copy of its lease has the start of the live one, and an end that
   splits can only have brought closer. *)
HasLease(w) ==
    /\ 0 < held[w].id /\ held[w].id < nextLease
    /\ held[w].next = held[w].start
    /\ held[w].start <= held[w].end /\ held[w].end < TotalSize
    /\ held[w].id \in DOMAIN active =>
          /\ active[held[w].id].generation = held[w].generation
          /\ active[held[w].id].start = held[w].start
          /\ active[held[w].id].end <= held[w].end

(* A published record is about the worker's own lease and covers written bytes. *)
CellSound(w) ==
    /\ cell[w].lease \in {0, held[w].id}
    /\ pc[w] \in {"request", "bump"} => cell[w].lease = 0
    /\ cell[w].lease # 0 =>
          /\ cell[w].generation = held[w].generation
          /\ cell[w].written <= TotalSize /\ cell[w].received <= TotalSize
          /\ held[w].start .. cell[w].written - 1 \subseteq written

(* A response is written from the start of the lease without a gap, and is
   read at least up to where the lease ends now. *)
ResponseSound(w) ==
    /\ held[w].start <= xfer[w].pos
    /\ held[w].start .. xfer[w].pos - 1 \subseteq written
    /\ xfer[w].pos <= xfer[w].last + 1
    /\ xfer[w].eff <= xfer[w].last /\ xfer[w].last <= held[w].end
    /\ held[w].id \in DOMAIN active =>
          xfer[w].eff = xfer[w].last \/ active[held[w].id].end <= xfer[w].eff
    /\ pc[w] = "write" =>
          /\ xfer[w].len >= 1 /\ xfer[w].pos + xfer[w].len <= xfer[w].eff + 1
          /\ xfer[w].cut => xfer[w].pos + xfer[w].len = xfer[w].eff + 1

(* The server answers every request in full. *)
Whole == Env \cap {"short", "eof"} = {}

(* Then a worker that has finished with its response has written all of what
   its lease still covers. *)
FinishSound(w) ==
    /\ pc[w] \in Receiving => xfer[w].last = held[w].end
    /\ pc[w] \in Finishing /\ held[w].id \in DOMAIN active =>
          held[w].start .. active[held[w].id].end \subseteq written

WorkerSound(w) ==
    /\ pc[w] \in Busy => HasLease(w)
    /\ pc[w] \notin Busy => held[w] = NoLease
    /\ CellSound(w)
    /\ pc[w] \in Receiving => ResponseSound(w)
    /\ Whole => FinishSound(w)

JobInv ==
    /\ Types
    /\ \A w \in Workers : WorkerSound(w)
    /\ LeasesHeld
    /\ Whole => SettledWritten

-----------------------------------------------------------------------------
(* The checkpoint, the pause and the outcome. *)

(* The coordinator's snapshot lies between the checkpoint on disk and what is
   settled now; what was last saved is the checkpoint. *)
Saving == coord.pc \in {"fence", "store"}

SaveInv ==
    /\ coord \in [pc : {"idle", "fence", "store", "stopped"}, for : Workers \cup {Tick},
                  ranges : SUBSET Bytes, generation : Nat]
    /\ synced \subseteq written
    /\ checkpoint \subseteq Settled
    /\ Saving => /\ checkpoint \subseteq coord.ranges /\ coord.ranges \subseteq Settled
                 /\ 1 <= coord.generation /\ coord.generation <= generation
    /\ saved = NoSave \/ saved.ranges = checkpoint
    /\ Whole => /\ coord.pc = "store" /\ Durable => coord.ranges \subseteq synced
                /\ CheckpointSound

(* What a worker has published of the part of its lease that is still its own,
   and that a set of bytes covers it. *)
Owned(w) == held[w].start .. Min2(cell[w].written - 1, active[held[w].id].end)

Covered(w, S) == generation = 1 /\ cell[w].lease # 0 => Owned(w) \subseteq S

(* A worker that waits for a save is in exactly one place of it, and gets its
   answer only when the checkpoint covers what it had published. *)
PauseSound(w) ==
    /\ generation = 1 /\ pc[w] \in Busy => held[w].id \in DOMAIN active
    /\ pc[w] = "request" /\ held[w].id \in DOMAIN active => active[held[w].id].next = held[w].start
    /\ pc[w] \in Receiving =>
          /\ cell[w].lease # 0 => cell[w].written = xfer[w].pos
          /\ held[w].id \in DOMAIN active => active[held[w].id].next <= xfer[w].pos
    /\ w \in queue => pc[w] = "awaitSave" /\ reply[w] = "none" /\ ~(Saving /\ coord.for = w)
    /\ Saving /\ coord.for = w =>
          pc[w] = "awaitSave" /\ reply[w] = "none" /\ Covered(w, coord.ranges)
    /\ reply[w] # "none" => pc[w] = "awaitSave"
    /\ reply[w] = "ok" \/ pc[w] = "paused" => Covered(w, checkpoint)

PauseInv ==
    /\ queue \subseteq Workers /\ reply \in [Workers -> {"none", "ok", "error"}]
    /\ \A w \in Workers : PauseSound(w)

(* A job with unfinished work that nobody stopped has a worker that will see it. *)
OutcomeInv ==
    /\ err \in [Workers -> Errors \cup {NoError}]
    /\ main \in Outcomes \cup {"join", "stop", "report"}
    /\ main # "join" => \A w \in Workers : pc[w] = "exited"
    /\ main \in Outcomes \cup {"report"} => coord.pc = "stopped"
    /\ \A w \in Workers : pc[w] \in {"fail", "abandon", "bump", "install"} => err[w] # NoError
    /\ fatal = NoError /\ ~cancelled /\ pending # {} =>
          \E w \in Workers : pc[w] \notin {"exited", "noWork"}
    /\ main # "incomplete"
    /\ main = "completed" => fatal = NoError /\ ~cancelled
    /\ Whole => (main = "completed" => written = Bytes)

(* The inductive invariant of the job. *)
IInv == SchedInv /\ JobInv /\ SaveInv /\ PauseInv /\ OutcomeInv

-----------------------------------------------------------------------------
(* Facts of the scheduler. *)

(* What the scheduler's invariant says of sizes and leases. *)
LEMMA Shape == ASSUME SchedInv PROVE LeasesOK
BY SizeAssumption, PolicyAssumption, BoundAssumption, JobAssumption
   DEF SchedInv, LeasesOK, SchedulerTypeOK, LeaseShape, Lease, Bytes

(* The same of the state after a step. *)
LEMMA ShapeNext == ASSUME SchedInv' PROVE LeasesOK'
BY SizeAssumption, PolicyAssumption, BoundAssumption, JobAssumption
   DEF SchedInv, LeasesOK, SchedulerTypeOK, LeaseShape, Lease, Bytes

(* What is settled, lease by lease. *)
LEMMA SettledIs ==
    SettledWritten <=> /\ completed \subseteq written
                       /\ \A i \in DOMAIN active : active[i].start .. active[i].next - 1 \subseteq written
BY Zenon DEF SettledWritten, Settled, Acked

(* The same of the state after a step. *)
LEMMA SettledIsNext ==
    SettledWritten' <=> /\ completed' \subseteq written'
                        /\ \A i \in DOMAIN active' : active'[i].start .. active'[i].next - 1 \subseteq written'
BY Zenon DEF SettledWritten, Settled, Acked

(* The settled bytes are bytes of the target. *)
LEMMA SettledBytes == ASSUME LeasesOK PROVE Settled \subseteq Bytes
<1>1. completed \subseteq Bytes
  BY ONLY LeasesOK, Zenon DEF LeasesOK
<1>2. ASSUME NEW i \in DOMAIN active PROVE active[i].start .. active[i].next - 1 \subseteq Bytes
  <2>1. /\ active[i].start \in Nat /\ active[i].end \in Nat /\ active[i].next \in Nat
        /\ active[i].end < TotalSize /\ active[i].next <= active[i].end + 1
    BY ONLY LeasesOK, i \in DOMAIN active, Zenon DEF LeasesOK
  <2> QED BY ONLY <2>1, SizeAssumption, PolicyAssumption, BoundAssumption DEF Bytes
<1> QED BY ONLY <1>1, <1>2, Zenon DEF Settled, Acked

(* The same of the state after a step. *)
LEMMA SettledBytesNext == ASSUME LeasesOK' PROVE Settled' \subseteq Bytes
<1>1. completed' \subseteq Bytes
  BY ONLY LeasesOK', Zenon DEF LeasesOK
<1>2. ASSUME NEW i \in DOMAIN active' PROVE active'[i].start .. active'[i].next - 1 \subseteq Bytes
  <2>1. /\ active'[i].start \in Nat /\ active'[i].end \in Nat /\ active'[i].next \in Nat
        /\ active'[i].end < TotalSize /\ active'[i].next <= active'[i].end + 1
    BY ONLY LeasesOK', i \in DOMAIN active', Zenon DEF LeasesOK
  <2> QED BY ONLY <2>1, SizeAssumption, PolicyAssumption, BoundAssumption DEF Bytes
<1> QED BY ONLY <1>1, <1>2, Zenon DEF Settled, Acked

(* What a worker does. *)
Work(w) == Progress(w) \/ Arrives(w) \/ RequestFails(w) \/ WriteFails(w)

(* What the coordinator, run_segmented and the handle do besides absorbing. *)
Aloof == Fence \/ Store \/ SaveFails \/ RunSegmented \/ Cancel \/ TogglePause \/ SetDesired

(* It concerns no worker's lease. *)
LEMMA AloofIs ==
    ASSUME Aloof
    PROVE  UNCHANGED <<schedVars, pc, held, xfer, cell, written, scenario>>
<1> USE DEF local, ioVars, ctlVars
<1>1. CASE Fence
  BY ONLY <1>1, Zenon DEF Fence
<1>2. CASE Store
  BY ONLY <1>2, Zenon DEF Store
<1>3. CASE SaveFails
  BY ONLY <1>3, Zenon DEF SaveFails
<1>4. CASE RunSegmented
  BY ONLY <1>4, Zenon DEF RunSegmented, JoinWorkers, StopCoordinator, Report
<1>5. CASE Cancel
  BY ONLY <1>5, Zenon DEF Cancel
<1>6. CASE TogglePause
  BY ONLY <1>6, Zenon DEF TogglePause
<1>7. CASE SetDesired
  BY ONLY <1>7, Zenon DEF SetDesired
<1> QED BY ONLY Aloof, <1>1, <1>2, <1>3, <1>4, <1>5, <1>6, <1>7, Zenon DEF Aloof

(* The cases of a step of the job. *)
LEMMA NextCases ==
    ASSUME Next
    PROVE  \/ \E w \in Workers : Work(w)
           \/ \E for \in queue \cup {Tick} : Snapshot(for)
           \/ Aloof
BY ONLY Next, Zenon DEF Next, Work, Coordinator, Aloof

-----------------------------------------------------------------------------
(* Steps that leave the scheduler alone. *)

(* A worker that takes no part in a step, and what may happen to its lease. *)
Same(v) == pc'[v] = pc[v] /\ held'[v] = held[v] /\ xfer'[v] = xfer[v] /\ cell'[v] = cell[v]

Kept(i) ==
    i \in DOMAIN active' =>
        /\ i \in DOMAIN active
        /\ active'[i].generation = active[i].generation
        /\ active'[i].start = active[i].start
        /\ active'[i].end <= active[i].end

(* A step of worker w outside the scheduler that keeps its lease. *)
Quiet(w) ==
    /\ UNCHANGED <<schedVars, held, scenario>>
    /\ \A v \in Workers \ {w} : pc'[v] = pc[v] /\ xfer'[v] = xfer[v] /\ cell'[v] = cell[v]
    /\ written \subseteq written'

(* A worker moves on and keeps what it has. *)
MoveTo(w, to) ==
    /\ UNCHANGED <<schedVars, held, xfer, cell, written, scenario>>
    /\ pc' = [pc EXCEPT ![w] = to]

(* The moves that need nothing new of the worker's lease. *)
Plain(from, to) ==
    /\ to \in WorkerStates
    /\ from \in Busy <=> to \in Busy
    /\ to \in Receiving => from \in Receiving
    /\ to # "write"
    /\ to \in {"request", "bump"} => from = "request"

(* The actions of a worker that only move it. *)
Moves(w) ==
    \/ Check(w) \/ Wait(w) \/ NoWork(w) \/ RequestFails(w) \/ ReadEnd(w) \/ ReadFails(w)
    \/ WriteFails(w) \/ ReadPauses(w) \/ SendSave(w) \/ AwaitSave(w) \/ PauseEnds(w)
    \/ BackoffEnds(w) \/ GiveUp(w) \/ InstallFatal(w)

(* Each of them is a plain move, and only the end of a body finishes a response. *)
LEMMA MovesTo ==
    ASSUME NEW w \in Workers, Moves(w)
    PROVE  \E to \in WorkerStates :
              /\ MoveTo(w, to) /\ Plain(pc[w], to)
              /\ to \in Finishing => to = "done" /\ ReadEnd(w)
<1> USE DEF MoveTo, Goto, Raise, env, ioVars, ctlVars, local
<1>1. CASE Check(w)
  <2>1. MoveTo(w, Station(w)) /\ pc[w] = "top"
    BY ONLY <1>1, Zenon DEF Check, At
  <2>2. Station(w) \in {"exited", "dormant", "acquire"}
    BY ONLY Zenon DEF Station
  <2>3. Plain(pc[w], Station(w)) /\ Station(w) \notin Finishing /\ Station(w) \in WorkerStates
    BY ONLY <2>1, <2>2, Zenon DEF Plain, Busy, Receiving, Finishing, WorkerStates
  <2> HIDE DEF MoveTo
  <2> QED BY ONLY <2>1, <2>3, Zenon
<1>2. CASE Wait(w)
  BY ONLY <1>2, Zenon DEF Wait, Plain, Busy, Receiving, Finishing, WorkerStates
<1>3. CASE NoWork(w)
  <2>1. CASE HasActive
    BY ONLY <1>3, <2>1, Zenon DEF NoWork, At, Plain, Busy, Receiving, Finishing, WorkerStates
  <2>2. CASE ~HasActive
    BY ONLY <1>3, <2>2, Zenon DEF NoWork, At, Plain, Busy, Receiving, Finishing, WorkerStates
  <2> QED BY ONLY <2>1, <2>2, Zenon
<1>4. CASE RequestFails(w)
  BY ONLY <1>4, Zenon DEF RequestFails, Plain, Busy, Receiving, Finishing, WorkerStates
<1>5. CASE ReadEnd(w)
  BY ONLY <1>5, Zenon DEF ReadEnd, At, Plain, Busy, Receiving, Finishing, WorkerStates
<1>6. CASE ReadFails(w)
  BY ONLY <1>6, Zenon DEF ReadFails, Plain, Busy, Receiving, Finishing, WorkerStates
<1>7. CASE WriteFails(w)
  BY ONLY <1>7, Zenon DEF WriteFails, Plain, Busy, Receiving, Finishing, WorkerStates
<1>8. CASE ReadPauses(w)
  BY ONLY <1>8, Zenon DEF ReadPauses, At, Plain, Busy, Receiving, Finishing, WorkerStates
<1>9. CASE SendSave(w)
  BY ONLY <1>9, Zenon DEF SendSave, Plain, Busy, Receiving, Finishing, WorkerStates
<1>10. CASE AwaitSave(w)
  BY ONLY <1>10, Zenon DEF AwaitSave, Plain, Busy, Receiving, Finishing, WorkerStates
<1>11. CASE PauseEnds(w)
  BY ONLY <1>11, Zenon DEF PauseEnds, Continue, Plain, Busy, Receiving, Finishing, WorkerStates
<1>12. CASE BackoffEnds(w)
  BY ONLY <1>12, Zenon DEF BackoffEnds, At, Plain, Busy, Receiving, Finishing, WorkerStates
<1>13. CASE GiveUp(w)
  BY ONLY <1>13, Zenon DEF GiveUp, At, Plain, Busy, Receiving, Finishing, WorkerStates
<1>14. CASE InstallFatal(w)
  BY ONLY <1>14, Zenon DEF InstallFatal, At, Plain, Busy, Receiving, Finishing, WorkerStates
<1> QED BY ONLY Moves(w), <1>1, <1>2, <1>3, <1>4, <1>5, <1>6, <1>7, <1>8, <1>9, <1>10, <1>11,
           <1>12, <1>13, <1>14, Zenon DEF Moves

(* The end of a lease, as its worker reads it, is where it ends now. *)
LEMMA StopAtIs ==
    ASSUME LeasesOK, NEW w \in Workers, HasLease(w), NEW last \in Nat
    PROVE  /\ StopAt(w, last) \in Nat /\ StopAt(w, last) <= last
           /\ held[w].id \in DOMAIN active =>
                 StopAt(w, last) = last \/ active[held[w].id].end <= StopAt(w, last)
<1>1. CASE held[w].id \in DOMAIN active
  <2>1. active[held[w].id].end \in Nat
    BY ONLY <1>1, LeasesOK, Zenon DEF LeasesOK
  <2>2. Live(held[w].id, held[w].generation)
    BY ONLY <1>1, HasLease(w), Zenon DEF HasLease, Live
  <2> QED BY ONLY <2>1, <2>2, last \in Nat DEF StopAt, Min2
<1>2. CASE held[w].id \notin DOMAIN active
  <2>1. ~Live(held[w].id, held[w].generation)
    BY ONLY <1>2, Zenon DEF Live
  <2> QED BY ONLY <1>2, <2>1, last \in Nat DEF StopAt
<1> QED BY ONLY <1>1, <1>2, Zenon

-----------------------------------------------------------------------------
(* Absorbing the cells. *)

(* A record published for a live lease is its holder's, and the only one. *)
LEMMA OneRecord ==
    ASSUME JobInv, LeasesOK, NEW i \in DOMAIN active, NEW w \in Workers, NEW v \in Workers,
           cell[w].lease = i, cell[v].lease = i
    PROVE  held[w].id = i /\ v = w
<1>1. 0 < i
  BY ONLY LeasesOK, i \in DOMAIN active, Zenon DEF LeasesOK
<1>2. i \in Nat
  BY ONLY LeasesOK, i \in DOMAIN active, Zenon DEF LeasesOK
<1>3. CellSound(w) /\ CellSound(v) /\ LeasesHeld
  BY ONLY JobInv, w \in Workers, v \in Workers, Zenon DEF JobInv, WorkerSound
<1>4. held[w].id = i /\ held[v].id = i
  BY ONLY <1>1, <1>2, <1>3, cell[w].lease = i, cell[v].lease = i DEF CellSound
<1> QED BY ONLY <1>1, <1>2, <1>3, <1>4 DEF LeasesHeld

(* Absorbing the cells moves frontiers to what their holders published, cut at
   the leases' ends. *)
LEMMA ReconcileIs ==
    ASSUME JobInv, LeasesOK, Reconcile
    PROVE  /\ UNCHANGED <<pending, completed, nextLease, generation, divisor, target, resolved, sampler>>
           /\ active' = [i \in DOMAIN active |-> active'[i]]
           /\ \A i \in DOMAIN active :
                 \/ /\ active'[i] = active[i]
                    /\ \A w \in Workers : ~(cell[w].lease = i /\ cell[w].generation = active[i].generation)
                 \/ \E w \in Workers :
                       /\ cell[w].lease = i /\ held[w].id = i
                       /\ active'[i] = Advance(active[i], cell[w].written)
<1> DEFINE Mine(i) == {r \in Records : r.lease = i /\ r.generation = active[i].generation}
           Best(i) == CHOOSE r \in Mine(i) : \A q \in Mine(i) : q.written <= r.written
<1>1. /\ UNCHANGED <<pending, completed, nextLease, generation, divisor, target, resolved, sampler>>
      /\ active' = [i \in DOMAIN active |-> IF Mine(i) = {} THEN active[i]
                                            ELSE Advance(active[i], Best(i).written)]
  BY ONLY Reconcile, Zenon DEF Reconcile, AbsorbWorkerProgress
<1> HIDE DEF Best
<1>2. ASSUME NEW i \in DOMAIN active, Mine(i) # {}
      PROVE  \E w \in Workers : /\ cell[w].lease = i /\ held[w].id = i
                                /\ Best(i).written = cell[w].written
  <2>1. PICK w \in Workers : cell[w].lease = i /\ cell[w].generation = active[i].generation
    BY ONLY <1>2 DEF Records
  <2> DEFINE rec == [lease |-> cell[w].lease, generation |-> cell[w].generation,
                     written |-> cell[w].written]
  <2>2. Mine(i) = {rec}
    <3>1. rec \in Mine(i)
      BY ONLY <2>1, w \in Workers, Zenon DEF Records
    <3>2. ASSUME NEW r \in Mine(i) PROVE r = rec
      <4>1. PICK v \in Workers : r = [lease |-> cell[v].lease, generation |-> cell[v].generation,
                                      written |-> cell[v].written]
        BY ONLY <3>2, Zenon DEF Records
      <4>2. cell[v].lease = i
        BY ONLY <4>1, <3>2, Zenon
      <4>3. v = w
        BY ONLY JobInv, LeasesOK, i \in DOMAIN active, w \in Workers, v \in Workers, <2>1, <4>2, OneRecord, Zenon
      <4> QED BY ONLY <4>1, <4>3, Zenon
    <3> HIDE DEF rec, Mine
    <3> QED BY ONLY <3>1, <3>2, Zenon
  <2>3. Best(i) = rec
    <3>1. rec.written <= rec.written
      <4>1. rec.written \in Nat
        BY ONLY JobInv, w \in Workers, Zenon DEF JobInv, Types
      <4> QED BY ONLY <4>1
    <3> HIDE DEF rec, Mine
    <3> QED BY ONLY <2>2, <3>1, Zenon DEF Best
  <2>4. held[w].id = i
    BY ONLY JobInv, LeasesOK, i \in DOMAIN active, w \in Workers, <2>1, OneRecord, Zenon
  <2>5. Best(i).written = cell[w].written
    BY ONLY <2>3
  <2> QED BY ONLY <2>1, <2>4, <2>5, w \in Workers, Zenon
<1> HIDE DEF Mine
<1>3. ASSUME NEW i \in DOMAIN active
      PROVE  \/ /\ active'[i] = active[i]
                /\ \A w \in Workers : ~(cell[w].lease = i /\ cell[w].generation = active[i].generation)
             \/ \E w \in Workers :
                   /\ cell[w].lease = i /\ held[w].id = i
                   /\ active'[i] = Advance(active[i], cell[w].written)
  <2>1. CASE Mine(i) = {}
    <3>1. active'[i] = active[i]
      BY ONLY <1>1, <2>1, i \in DOMAIN active, Zenon
    <3>2. \A w \in Workers : ~(cell[w].lease = i /\ cell[w].generation = active[i].generation)
      <4> SUFFICES ASSUME NEW w \in Workers, cell[w].lease = i, cell[w].generation = active[i].generation
                   PROVE  FALSE
        BY Zenon
      <4> DEFINE rec == [lease |-> cell[w].lease, generation |-> cell[w].generation,
                         written |-> cell[w].written]
      <4>1. rec \in Records
        BY ONLY w \in Workers, Zenon DEF Records
      <4>2. rec.lease = i /\ rec.generation = active[i].generation
        BY ONLY cell[w].lease = i, cell[w].generation = active[i].generation, Zenon
      <4> HIDE DEF rec
      <4> QED BY ONLY <2>1, <4>1, <4>2, Zenon DEF Mine
    <3> QED BY ONLY <3>1, <3>2, Zenon
  <2>2. CASE Mine(i) # {}
    <3>1. active'[i] = Advance(active[i], Best(i).written)
      BY ONLY <1>1, <2>2, i \in DOMAIN active, Zenon
    <3>2. PICK w \in Workers : /\ cell[w].lease = i /\ held[w].id = i
                               /\ Best(i).written = cell[w].written
      BY ONLY <1>2, <2>2, i \in DOMAIN active, Zenon
    <3>3. active'[i] = Advance(active[i], cell[w].written)
      BY ONLY <3>1, <3>2, Zenon
    <3> QED BY ONLY <3>2, <3>3, w \in Workers, Zenon
  <2> QED BY ONLY <2>1, <2>2, Zenon
<1>4. active' = [i \in DOMAIN active |-> active'[i]]
  BY ONLY <1>1, Zenon
<1> QED BY ONLY <1>1, <1>3, <1>4, Zenon

(* What one lease is after a report. *)
LEMMA AdvanceIs ==
    ASSUME LeasesOK, NEW i \in DOMAIN active, NEW n \in Nat
    PROVE  LET l == Advance(active[i], n)
           IN  /\ l.generation = active[i].generation /\ l.start = active[i].start
               /\ l.end = active[i].end /\ l.next \in Nat
               /\ active[i].next <= l.next
               /\ l.next = active[i].next \/ (l.next <= n /\ l.next <= active[i].end + 1)
<1>1. active[i] \in [generation : Nat, start : Nat, end : Nat, next : Nat]
      /\ active[i].next <= active[i].end + 1
  BY ONLY LeasesOK, i \in DOMAIN active, Zenon DEF LeasesOK
<1>2. CASE n <= active[i].next
  BY ONLY <1>1, <1>2, n \in Nat DEF Advance
<1>3. CASE ~(n <= active[i].next)
  BY ONLY <1>1, <1>3, n \in Nat DEF Advance, Min2
<1> QED BY ONLY <1>2, <1>3, Zenon

(* Absorbing leaves the extent of every lease, and moves frontiers forward. *)
Absorbed ==
    /\ completed' = completed /\ nextLease' = nextLease
    /\ DOMAIN active' = DOMAIN active
    /\ \A i \in DOMAIN active :
          /\ active'[i].generation = active[i].generation
          /\ active'[i].start = active[i].start /\ active'[i].end = active[i].end

(* Every frontier that absorbing moves ends up on written bytes. *)
LEMMA ReconcileKeeps ==
    ASSUME JobInv, LeasesOK, LeasesOK', Reconcile, written' = written
    PROVE  /\ Absorbed
           /\ Whole => SettledWritten'
           /\ \A i \in DOMAIN active : Kept(i)
<1>1. /\ completed' = completed /\ nextLease' = nextLease
      /\ DOMAIN active' = DOMAIN active
      /\ \A i \in DOMAIN active :
            \/ active'[i] = active[i]
            \/ \E w \in Workers :
                  /\ cell[w].lease = i /\ held[w].id = i
                  /\ active'[i] = Advance(active[i], cell[w].written)
  BY ONLY JobInv, LeasesOK, Reconcile, ReconcileIs, Zenon
<1>2. ASSUME NEW i \in DOMAIN active
      PROVE  /\ active'[i].generation = active[i].generation
             /\ active'[i].start = active[i].start /\ active'[i].end = active[i].end
             /\ active'[i].next = active[i].next
                \/ active[i].start .. active'[i].next - 1 \subseteq written
  <2>1. CASE active'[i] = active[i]
    BY ONLY <2>1, Zenon
  <2>2. ASSUME NEW w \in Workers, cell[w].lease = i, held[w].id = i,
               active'[i] = Advance(active[i], cell[w].written)
        PROVE  <1>2!2
    <3>1. cell[w].written \in Nat
      BY ONLY JobInv, w \in Workers, Zenon DEF JobInv, Types
    <3>2. /\ active'[i].generation = active[i].generation /\ active'[i].start = active[i].start
          /\ active'[i].end = active[i].end /\ active'[i].next \in Nat
          /\ active'[i].next = active[i].next \/ active'[i].next <= cell[w].written
      <4> DEFINE l == Advance(active[i], cell[w].written)
      <4>1. /\ l.generation = active[i].generation /\ l.start = active[i].start
            /\ l.end = active[i].end /\ l.next \in Nat
            /\ l.next = active[i].next \/ l.next <= cell[w].written
        BY ONLY LeasesOK, i \in DOMAIN active, <3>1, AdvanceIs, Zenon
      <4> HIDE DEF l
      <4>2. active'[i] = l
        BY ONLY <2>2, Zenon DEF l
      <4> QED BY ONLY <4>1, <4>2, Zenon
    <3>3. active[i].start .. cell[w].written - 1 \subseteq written
      <4>1. CellSound(w) /\ HasLease(w) /\ i \in Nat /\ 0 < i
        <5>1. WorkerSound(w)
          BY ONLY JobInv, w \in Workers, Zenon DEF JobInv
        <5>2. i \in Nat /\ 0 < i
          BY ONLY LeasesOK, i \in DOMAIN active, Zenon DEF LeasesOK
        <5> QED BY ONLY <2>2, <5>1, <5>2 DEF WorkerSound, NoLease
      <4> QED BY ONLY <4>1, <2>2, i \in DOMAIN active DEF CellSound, HasLease
    <3>4. active[i].start \in Nat
      BY ONLY LeasesOK, i \in DOMAIN active, Zenon DEF LeasesOK
    <3> QED BY ONLY <3>1, <3>2, <3>3, <3>4
  <2> QED BY ONLY <1>1, <2>1, <2>2, i \in DOMAIN active, Zenon
<1>3. Absorbed
  BY ONLY <1>1, <1>2, Zenon DEF Absorbed
<1>4. ASSUME Whole PROVE SettledWritten'
  <2>1. completed \subseteq written /\ \A i \in DOMAIN active : active[i].start .. active[i].next - 1 \subseteq written
    BY ONLY JobInv, <1>4, SettledIs, Zenon DEF JobInv
  <2> QED BY ONLY <1>1, <1>2, <2>1, SettledIsNext, written' = written, Zenon
<1>5. ASSUME NEW i \in DOMAIN active PROVE Kept(i)
  <2>1. active[i].end \in Nat
    BY ONLY LeasesOK, i \in DOMAIN active, Zenon DEF LeasesOK
  <2> QED BY ONLY <1>2, <2>1, i \in DOMAIN active DEF Kept
<1> QED BY ONLY <1>3, <1>4, <1>5, Zenon

-----------------------------------------------------------------------------
(* Taking a lease. *)

(* A worker takes lease nextLease: it is new, has no bytes yet, and no other
   lease grows. *)
Taken(w) ==
    /\ nextLease' = nextLease + 1 /\ completed' = completed
    /\ DOMAIN active' = DOMAIN active \cup {nextLease}
    /\ active'[nextLease].next = active'[nextLease].start
    /\ \A i \in DOMAIN active : Kept(i) /\ active'[i].next = active[i].next

(* Carving a lease is taking one. *)
LEMMA AcquireTakes ==
    ASSUME LeasesOK, NEW w \in Workers, Acquire
    PROVE  Taken(w)
<1>1. PICK s, end : active' = With(nextLease, NewLease(s, end))
  <2>1. PICK s \in pending, e \in pending :
           \E want \in CarveSizes(e - s + 1) :
                LET end == Min2(s + want - 1, e)
                IN  /\ pending' = pending \ (s .. end)
                    /\ active' = With(nextLease, NewLease(s, end))
    BY ONLY Acquire, Zenon DEF Acquire
  <2>2. PICK want \in CarveSizes(e - s + 1) :
           active' = With(nextLease, NewLease(s, Min2(s + want - 1, e)))
    BY ONLY <2>1, Zenon
  <2> QED BY ONLY <2>2, s \in pending, Zenon
<1>2. nextLease' = nextLease + 1 /\ completed' = completed
  BY ONLY Acquire, Zenon DEF Acquire
<1>3. /\ DOMAIN active' = DOMAIN active \cup {nextLease}
      /\ active'[nextLease] = [generation |-> generation, start |-> s, end |-> end, next |-> s]
      /\ \A i \in DOMAIN active : i # nextLease => active'[i] = active[i]
  BY ONLY <1>1, Zenon DEF With, NewLease
<1>4. ASSUME NEW i \in DOMAIN active PROVE Kept(i) /\ active'[i].next = active[i].next
  <2>1. i # nextLease /\ active[i].end \in Nat
    BY ONLY LeasesOK, i \in DOMAIN active DEF LeasesOK
  <2> QED BY ONLY <1>3, <2>1, i \in DOMAIN active DEF Kept
<1> QED BY ONLY <1>2, <1>3, <1>4 DEF Taken

(* Splitting a tail off another lease is taking one. *)
LEMMA SplitTakes ==
    ASSUME LeasesOK, NEW w \in Workers, NEW id, NEW gen, NEW minTail \in Nat, NEW received \in Nat,
           SplitTail(id, gen, minTail, received)
    PROVE  Taken(w)
<1> DEFINE tailLen == TailLen(active[id], received)
           take == Clamp(tailLen \div 2, 1, tailLen - 1)
           newStart == active[id].end - take + 1
<1>1. /\ tailLen > Max2(minTail, 1) /\ id \in DOMAIN active
      /\ active' = [i \in DOMAIN active \cup {nextLease} |->
                            IF i = nextLease THEN NewLease(newStart, active[id].end)
                            ELSE IF i = id THEN [active[id] EXCEPT !.end = newStart - 1]
                            ELSE active[i]]
      /\ nextLease' = nextLease + 1 /\ completed' = completed
  BY ONLY SplitTail(id, gen, minTail, received), Zenon DEF SplitTail, Live
<1>2. /\ active[id] \in [generation : Nat, start : Nat, end : Nat, next : Nat]
      /\ id # nextLease
  BY ONLY LeasesOK, <1>1 DEF LeasesOK
<1>3. take \in Nat /\ take >= 1
  <2>1. tailLen \in Nat /\ tailLen > 1
    BY ONLY <1>1, <1>2, minTail \in Nat, received \in Nat DEF TailLen, SatSub, Max2
  <2> HIDE DEF tailLen
  <2>2. tailLen \div 2 \in Nat
    BY ONLY <2>1
  <2> QED BY ONLY <2>1, <2>2 DEF Clamp, Max2, Min2
<1> HIDE DEF tailLen, take
<1>4. newStart - 1 <= active[id].end
  BY ONLY <1>2, <1>3
<1> HIDE DEF newStart
<1>5. /\ DOMAIN active' = DOMAIN active \cup {nextLease}
      /\ active'[nextLease] = [generation |-> generation, start |-> newStart,
                               end |-> active[id].end, next |-> newStart]
      /\ active'[id] = [active[id] EXCEPT !.end = newStart - 1]
      /\ \A i \in DOMAIN active : i # nextLease /\ i # id => active'[i] = active[i]
  BY ONLY <1>1, <1>2, Zenon DEF NewLease
<1>6. /\ active'[id].generation = active[id].generation /\ active'[id].start = active[id].start
      /\ active'[id].next = active[id].next /\ active'[id].end = newStart - 1
  BY ONLY <1>2, <1>5, Zenon
<1>7. ASSUME NEW i \in DOMAIN active PROVE Kept(i) /\ active'[i].next = active[i].next
  <2>1. i # nextLease /\ active[i].end \in Nat
    BY ONLY LeasesOK, i \in DOMAIN active DEF LeasesOK
  <2>2. CASE i = id
    BY ONLY <1>4, <1>6, <2>2, i \in DOMAIN active, Zenon DEF Kept
  <2>3. CASE i # id
    <3>1. active'[i] = active[i]
      BY ONLY <1>5, <2>1, <2>3, i \in DOMAIN active, Zenon
    <3> QED BY ONLY <2>1, <3>1, i \in DOMAIN active DEF Kept
  <2> QED BY ONLY <2>2, <2>3, Zenon
<1> QED BY ONLY <1>1, <1>5, <1>7 DEF Taken

(* The receipt watermark of a live lease is its holder's, or zero. *)
LEMMA ReceivedNat ==
    ASSUME JobInv, LeasesOK, NEW i \in DOMAIN active
    PROVE  ReceivedThrough(i) \in Nat /\ ReceivedThrough(i) <= TotalSize
<1> DEFINE Mine == {v \in Workers : cell[v].lease = i}
           S == {0} \cup {cell[w].received : w \in Mine}
<1>1. \A v \in Mine : cell[v].received \in Nat /\ cell[v].received <= TotalSize
  <2>1. 0 < i /\ i \in Nat
    BY ONLY LeasesOK, i \in DOMAIN active, Zenon DEF LeasesOK
  <2>2. \A v \in Workers : cell[v].received \in Nat
    BY ONLY JobInv, Zenon DEF JobInv, Types
  <2>3. \A v \in Workers : cell[v].lease # 0 => cell[v].received <= TotalSize
    BY ONLY JobInv, Zenon DEF JobInv, WorkerSound, CellSound
  <2> QED BY ONLY <2>1, <2>2, <2>3
<1>2. \E x \in S : \A y \in S : x >= y
  <2>1. CASE Mine = {}
    BY ONLY <2>1
  <2>2. ASSUME NEW w \in Mine PROVE <1>2
    <3>1. Mine = {w}
      BY ONLY JobInv, LeasesOK, i \in DOMAIN active, <2>2, OneRecord
    <3>2. S = {0, cell[w].received} /\ cell[w].received \in Nat
      BY ONLY <1>1, <2>2, <3>1, Zenon
    <3> HIDE DEF S
    <3>3. cell[w].received \in S /\ \A y \in S : cell[w].received >= y
      BY ONLY <3>2
    <3> QED BY ONLY <3>3, Zenon
  <2> QED BY ONLY <2>1, <2>2, Zenon
<1>3. Max(S) \in S
  <2> HIDE DEF S
  <2> QED BY ONLY <1>2, Zenon DEF Max
<1>4. \A x \in S : x \in Nat /\ x <= TotalSize
  BY ONLY <1>1, SizeAssumption, PolicyAssumption, BoundAssumption
<1>5. ReceivedThrough(i) = Max(S)
  BY ONLY Zenon DEF ReceivedThrough
<1> HIDE DEF S
<1> QED BY ONLY <1>3, <1>4, <1>5, Zenon

-----------------------------------------------------------------------------
(* Giving a lease up. *)

(* Worker w's lease, or every lease, is gone, and no other has changed. *)
Gone(w) ==
    /\ nextLease' = nextLease
    /\ DOMAIN active' \subseteq DOMAIN active \ {held[w].id}
    /\ DOMAIN active \ {held[w].id} \subseteq DOMAIN active' \/ generation' = generation + 1
    /\ \A i \in DOMAIN active' : active'[i] = active[i]
    /\ Whole => completed' \subseteq written

(* An operation on a lease that is gone finds it gone. *)
LEMMA NotLive ==
    ASSUME JobInv, LeasesOK, NEW w \in Workers, pc[w] \in Busy
    PROVE  Live(held[w].id, held[w].generation) <=> held[w].id \in DOMAIN active
<1>1. HasLease(w)
  BY ONLY JobInv, w \in Workers, pc[w] \in Busy, Zenon DEF JobInv, WorkerSound
<1> QED BY ONLY <1>1, Zenon DEF HasLease, Live

(* Completing a lease settles what its worker has written. *)
LEMMA CompleteGone ==
    ASSUME JobInv, LeasesOK, NEW w \in Workers, CompleteLease(w)
    PROVE  Gone(w)
<1>1. pc[w] = "complete" /\ OnLease(w, Complete(held[w].id, held[w].generation))
  BY ONLY CompleteLease(w), Zenon DEF CompleteLease, At
<1>2. pc[w] \in Finishing /\ pc[w] \in Busy
  BY ONLY <1>1, Zenon DEF Finishing, Busy
<1>3. ASSUME Whole PROVE completed \subseteq written /\
          (held[w].id \in DOMAIN active => held[w].start .. active[held[w].id].end \subseteq written)
  <2>1. WorkerSound(w) /\ SettledWritten
    BY ONLY JobInv, <1>3, w \in Workers, Zenon DEF JobInv
  <2> QED BY ONLY <1>2, <1>3, <2>1, SettledIs, Zenon DEF WorkerSound, FinishSound
<1>4. HasLease(w)
  BY ONLY JobInv, w \in Workers, <1>2, Zenon DEF JobInv, WorkerSound
<1>5. CASE held[w].id \in DOMAIN active
  <2>1. Complete(held[w].id, held[w].generation)
    BY ONLY JobInv, LeasesOK, w \in Workers, <1>1, <1>2, <1>5, NotLive, Zenon DEF OnLease
  <2>2. /\ active' = [i \in DOMAIN active \ {held[w].id} |-> active[i]]
        /\ completed' = completed \cup (active[held[w].id].start .. active[held[w].id].end)
        /\ nextLease' = nextLease
    BY ONLY <2>1, Zenon DEF Complete, Without, Span
  <2>3. active[held[w].id].start = held[w].start
    BY ONLY <1>4, <1>5, Zenon DEF HasLease
  <2> QED BY ONLY <1>3, <1>5, <2>2, <2>3, Zenon DEF Gone
<1>6. CASE held[w].id \notin DOMAIN active
  <2>1. UNCHANGED schedVars
    BY ONLY JobInv, LeasesOK, w \in Workers, <1>1, <1>2, <1>6, NotLive, Zenon DEF OnLease
  <2> QED BY ONLY <1>3, <1>6, <2>1, Zenon DEF Gone, schedVars
<1> QED BY ONLY <1>5, <1>6, Zenon

(* A lease given back keeps its acknowledged prefix. *)
LEMMA GiveBackGone ==
    ASSUME JobInv, LeasesOK, NEW w \in Workers, pc[w] \in Busy, GiveBackLease(w)
    PROVE  Gone(w)
<1>1. OnLease(w, Fail(held[w].id, held[w].generation))
  BY ONLY GiveBackLease(w), Zenon DEF GiveBackLease
<1>2. ASSUME Whole PROVE completed \subseteq written /\
          \A i \in DOMAIN active : active[i].start .. active[i].next - 1 \subseteq written
  BY ONLY JobInv, <1>2, SettledIs, Zenon DEF JobInv
<1>3. CASE held[w].id \in DOMAIN active
  <2>1. Fail(held[w].id, held[w].generation)
    BY ONLY JobInv, LeasesOK, w \in Workers, pc[w] \in Busy, <1>1, <1>3, NotLive, Zenon DEF OnLease
  <2>2. /\ active' = [i \in DOMAIN active \ {held[w].id} |-> active[i]]
        /\ completed' = completed \cup (active[held[w].id].start .. active[held[w].id].next - 1)
        /\ nextLease' = nextLease
    BY ONLY <2>1, Zenon DEF Fail, GiveBack, Without, Acked
  <2> QED BY ONLY <1>2, <1>3, <2>2, Zenon DEF Gone
<1>4. CASE held[w].id \notin DOMAIN active
  <2>1. UNCHANGED schedVars
    BY ONLY JobInv, LeasesOK, w \in Workers, pc[w] \in Busy, <1>1, <1>4, NotLive, Zenon DEF OnLease
  <2> QED BY ONLY <1>2, <1>4, <2>1, Zenon DEF Gone, schedVars
<1> QED BY ONLY <1>3, <1>4, Zenon

(* A new generation takes every lease away and keeps what they acknowledged. *)
LEMMA BumpGone ==
    ASSUME JobInv, LeasesOK, NEW w \in Workers, Bump(w)
    PROVE  Gone(w)
<1>1. /\ active' = [i \in {} |-> 0] /\ nextLease' = nextLease /\ generation' = generation + 1
      /\ completed' = completed \cup UNION {active[i].start .. active[i].next - 1 : i \in DOMAIN active}
  BY ONLY Bump(w), Zenon DEF Bump, BumpGeneration, NoLeases, Acked
<1>2. ASSUME Whole PROVE completed \subseteq written /\
        \A i \in DOMAIN active : active[i].start .. active[i].next - 1 \subseteq written
  BY ONLY JobInv, <1>2, SettledIs, Zenon DEF JobInv
<1> QED BY ONLY <1>1, <1>2, Zenon DEF Gone

(* The final acknowledgement moves the frontier of the worker's own lease. *)
LEMMA FinalAckIs ==
    ASSUME LeasesOK, LeasesOK', JobInv, NEW w \in Workers, FinalAck(w)
    PROVE  /\ Absorbed
           /\ \A i \in DOMAIN active : i # held[w].id => active'[i] = active[i]
           /\ held[w].id \in DOMAIN active => active'[held[w].id].next <= active[held[w].id].end + 1
<1>1. /\ pc[w] = "ack" /\ pc' = [pc EXCEPT ![w] = "settle"] /\ cell' = [cell EXCEPT ![w] = NoCell]
      /\ held' = held /\ xfer' = xfer /\ written' = written /\ scenario' = scenario
      /\ OnLease(w, ReportProgress(held[w].id, held[w].generation, xfer[w].last + 1))
  BY ONLY FinalAck(w), Zenon DEF FinalAck, At, Goto, ClearCell, local, env, ioVars, ctlVars
<1>2. pc[w] \in Finishing /\ pc[w] \in Busy
  BY ONLY <1>1, Zenon DEF Finishing, Busy
<1>3. Types /\ WorkerSound(w) /\ LeasesHeld /\ HasLease(w)
  BY ONLY JobInv, w \in Workers, <1>2, Zenon DEF JobInv, WorkerSound
<1>4. CASE held[w].id \in DOMAIN active
  <2>1. ReportProgress(held[w].id, held[w].generation, xfer[w].last + 1)
    BY ONLY JobInv, LeasesOK, w \in Workers, <1>1, <1>2, <1>4, NotLive, Zenon DEF OnLease
  <2>2. /\ active' = [i \in DOMAIN active \cup {held[w].id} |->
                        IF i = held[w].id THEN Advance(active[held[w].id], xfer[w].last + 1)
                        ELSE active[i]]
        /\ completed' = completed /\ nextLease' = nextLease
    BY ONLY <2>1, Zenon DEF ReportProgress, With
  <2>3. xfer[w].last + 1 \in Nat
    BY ONLY <1>3, w \in Workers DEF Types
  <2>4. LET l == Advance(active[held[w].id], xfer[w].last + 1)
        IN  /\ l.generation = active[held[w].id].generation /\ l.start = active[held[w].id].start
            /\ l.end = active[held[w].id].end
    BY ONLY LeasesOK, <1>4, <2>3, AdvanceIs, Zenon
  <2>5. DOMAIN active' = DOMAIN active
        /\ \A i \in DOMAIN active : i # held[w].id => active'[i] = active[i]
    BY ONLY <1>4, <2>2, Zenon
  <2>6. active'[held[w].id] = Advance(active[held[w].id], xfer[w].last + 1)
    BY ONLY <1>4, <2>2, Zenon
  <2>7. active'[held[w].id].end = active[held[w].id].end
    BY ONLY <2>4, <2>6, Zenon
  <2>8. active'[held[w].id].next <= active'[held[w].id].end + 1
    BY ONLY LeasesOK', <1>4, <2>5, Zenon DEF LeasesOK
  <2> QED BY ONLY <2>2, <2>4, <2>5, <2>6, <2>7, <2>8, Zenon DEF Absorbed
<1>5. CASE held[w].id \notin DOMAIN active
  <2>1. UNCHANGED schedVars
    BY ONLY JobInv, LeasesOK, w \in Workers, <1>1, <1>2, <1>5, NotLive, Zenon DEF OnLease
  <2> QED BY ONLY <1>5, <2>1, Zenon DEF Absorbed, schedVars
<1> QED BY ONLY <1>4, <1>5, Zenon

-----------------------------------------------------------------------------
(* The job implements the scheduler's specification. *)

(* Absorbing one record for every lease advances each lease by its own. *)
LEMMA AbsorbOf ==
    ASSUME LeasesOK, NEW through \in [DOMAIN active -> Nat],
           active' = [i \in DOMAIN active |-> Advance(active[i], through[i])],
           UNCHANGED <<pending, completed, nextLease, generation, divisor, target, resolved, sampler>>
    PROVE  AbsorbWorkerProgress({[lease |-> i, generation |-> generation, written |-> through[i]] :
                                          i \in DOMAIN active})
<1> DEFINE rec(i) == [lease |-> i, generation |-> generation, written |-> through[i]]
           recs == {rec(i) : i \in DOMAIN active}
           Mine(i) == {r \in recs : r.lease = i /\ r.generation = active[i].generation}
           Best(i) == CHOOSE r \in Mine(i) : \A q \in Mine(i) : q.written <= r.written
<1>1. ASSUME NEW i \in DOMAIN active PROVE Mine(i) # {} /\ Best(i).written = through[i]
  <2>1. active[i].generation = generation
    BY ONLY LeasesOK, i \in DOMAIN active, Zenon DEF LeasesOK
  <2>2. Mine(i) = {rec(i)}
    BY ONLY <2>1, i \in DOMAIN active
  <2>3. rec(i).written <= rec(i).written
    BY ONLY through \in [DOMAIN active -> Nat], i \in DOMAIN active
  <2>4. rec(i).written = through[i]
    BY Zenon
  <2> HIDE DEF rec, Mine
  <2>5. Best(i) = rec(i)
    BY ONLY <2>2, <2>3, Zenon
  <2> QED BY ONLY <2>2, <2>4, <2>5, Zenon
<1> HIDE DEF Best, Mine
<1>2. active' = [i \in DOMAIN active |-> IF Mine(i) = {} THEN active[i]
                                         ELSE Advance(active[i], Best(i).written)]
  BY ONLY <1>1, active' = [i \in DOMAIN active |-> Advance(active[i], through[i])], Zenon
<1> QED BY ONLY <1>2, UNCHANGED <<pending, completed, nextLease, generation, divisor, target, resolved, sampler>>, Zenon
        DEF AbsorbWorkerProgress, Mine, Best

(* Every operation of the scheduler that the job calls is one of its steps. *)
LEMMA ReconcileRefines ==
    ASSUME SchedInv, LeasesOK, JobInv, Reconcile
    PROVE  SchedulerNext
<1> DEFINE through == [i \in DOMAIN active |-> active'[i].next]
<1>1. /\ UNCHANGED <<pending, completed, nextLease, generation, divisor, target, resolved, sampler>>
      /\ active' = [i \in DOMAIN active |-> active'[i]]
      /\ \A i \in DOMAIN active :
            \/ active'[i] = active[i]
            \/ \E w \in Workers :
                  /\ cell[w].lease = i /\ held[w].id = i
                  /\ active'[i] = Advance(active[i], cell[w].written)
  BY ONLY JobInv, LeasesOK, Reconcile, ReconcileIs, Zenon
<1>2. ASSUME NEW i \in DOMAIN active
      PROVE  /\ active'[i].next \in Offsets
             /\ active'[i] = Advance(active[i], active'[i].next)
  <2>1. /\ active[i] \in [generation : Nat, start : Nat, end : Nat, next : Nat]
        /\ active[i].next <= active[i].end + 1 /\ active[i].end < TotalSize
    BY ONLY LeasesOK, i \in DOMAIN active, Zenon DEF LeasesOK
  <2>2. TotalSize \in Nat
    BY ONLY SizeAssumption, PolicyAssumption, BoundAssumption, Zenon
  <2>3. CASE active'[i] = active[i]
    BY ONLY <2>1, <2>2, <2>3 DEF Advance, Offsets
  <2>4. ASSUME NEW w \in Workers, active'[i] = Advance(active[i], cell[w].written)
        PROVE  <1>2!2
    <3>1. cell[w].written \in Nat
      BY ONLY JobInv, w \in Workers, Zenon DEF JobInv, Types
    <3>2. CASE cell[w].written <= active[i].next
      BY ONLY <2>1, <2>2, <2>4, <3>1, <3>2 DEF Advance, Offsets
    <3>3. CASE ~(cell[w].written <= active[i].next)
      <4> DEFINE n == Min2(cell[w].written, active[i].end + 1)
      <4>1. n \in Nat /\ active[i].next <= n /\ n <= active[i].end + 1
        <5>1. active[i].next \in Nat /\ active[i].end \in Nat /\ active[i].next <= active[i].end + 1
          BY ONLY <2>1, Zenon
        <5> QED BY ONLY <5>1, <3>1, <3>3 DEF Min2
      <4>2. active'[i] = [active[i] EXCEPT !.next = n]
        BY ONLY <2>4, <3>3, Zenon DEF Advance
      <4> HIDE DEF n
      <4>3. active'[i].next = n
        BY ONLY <2>1, <4>2, Zenon
      <4>4. n \in Offsets
        BY ONLY <2>1, <2>2, <4>1 DEF Offsets
      <4>5. [active[i] EXCEPT !.next = n] = Advance(active[i], n)
        <5>1. CASE n <= active[i].next
          BY ONLY <2>1, <4>1, <5>1 DEF Advance
        <5>2. CASE ~(n <= active[i].next)
          BY ONLY <2>1, <4>1, <5>2, Zenon DEF Advance, Min2
        <5> QED BY ONLY <5>1, <5>2, Zenon
      <4> QED BY ONLY <4>2, <4>3, <4>4, <4>5, Zenon
    <3> QED BY ONLY <3>2, <3>3, Zenon
  <2> QED BY ONLY <1>1, <2>3, <2>4, i \in DOMAIN active, Zenon
<1>3. through \in [DOMAIN active -> Offsets] /\ through \in [DOMAIN active -> Nat]
  <2>1. Offsets \subseteq Nat
    BY ONLY DEF Offsets
  <2> QED BY ONLY <1>2, <2>1, Zenon
<1>4. active' = [i \in DOMAIN active |-> Advance(active[i], through[i])]
  BY ONLY <1>1, <1>2, Zenon
<1> HIDE DEF through
<1>5. AbsorbWorkerProgress({[lease |-> i, generation |-> generation, written |-> through[i]] :
                                          i \in DOMAIN active})
  BY ONLY LeasesOK, <1>1, <1>3, <1>4, AbsorbOf, Zenon
<1>6. generation \in 1 .. generation
  BY ONLY SchedInv DEF SchedInv, SchedulerTypeOK
<1> QED BY ONLY <1>3, <1>5, <1>6, Zenon DEF SchedulerNext

(* An operation on the lease of a worker. *)
LEMMA IdsAndGenerations ==
    ASSUME SchedInv, NEW i \in DOMAIN active
    PROVE  i \in Ids /\ active[i].generation \in 1 .. generation
<1>1. i \in 1 .. nextLease - 1 /\ nextLease \in 1 .. MaxLeases + 1 /\ generation \in 1 .. MaxGeneration
      /\ active[i].generation = generation
  BY ONLY SchedInv, i \in DOMAIN active, Zenon DEF SchedInv, SchedulerTypeOK, LeaseShape
<1>2. MaxLeases \in Nat
  BY ONLY SizeAssumption, PolicyAssumption, BoundAssumption, Zenon
<1> QED BY ONLY <1>1, <1>2, BoundAssumption DEF Ids

(* A report beyond the end of the target is one at its end. *)
LEMMA ReportCut ==
    ASSUME LeasesOK, NEW i \in DOMAIN active, NEW gen, NEW n \in Nat, ReportProgress(i, gen, n)
    PROVE  \E off \in Offsets : ReportProgress(i, gen, off)
<1>1. /\ active[i] \in [generation : Nat, start : Nat, end : Nat, next : Nat]
      /\ active[i].next <= active[i].end + 1 /\ active[i].end < TotalSize
  BY ONLY LeasesOK, i \in DOMAIN active, Zenon DEF LeasesOK
<1>2. TotalSize \in Nat
  BY ONLY SizeAssumption, PolicyAssumption, BoundAssumption, Zenon
<1>3. CASE n <= TotalSize
  <2>1. n \in Offsets
    BY ONLY <1>2, <1>3, n \in Nat DEF Offsets
  <2> QED BY ONLY <2>1, ReportProgress(i, gen, n), Zenon
<1>4. CASE TotalSize < n
  <2>1. TotalSize \in Offsets
    BY ONLY <1>2 DEF Offsets
  <2>2. Advance(active[i], n) = [active[i] EXCEPT !.next = active[i].end + 1]
    BY ONLY <1>1, <1>2, <1>4, n \in Nat DEF Advance, Min2
  <2>3. Advance(active[i], TotalSize) = [active[i] EXCEPT !.next = active[i].end + 1]
    <3>1. CASE TotalSize <= active[i].next
      <4>1. active[i].next = active[i].end + 1
        BY ONLY <1>1, <1>2, <3>1
      <4> QED BY ONLY <1>1, <3>1, <4>1, Zenon DEF Advance
    <3>2. CASE ~(TotalSize <= active[i].next)
      BY ONLY <1>1, <1>2, <3>2 DEF Advance, Min2
    <3> QED BY ONLY <3>1, <3>2, Zenon
  <2>4. ReportProgress(i, gen, TotalSize)
    BY ONLY <2>2, <2>3, ReportProgress(i, gen, n), Zenon DEF ReportProgress
  <2> QED BY ONLY <2>1, <2>4, Zenon
<1> QED BY ONLY <1>2, <1>3, <1>4, n \in Nat

(* Every step of a worker is a step of the scheduler or leaves it alone. *)
LEMMA WorkRefines ==
    ASSUME SchedInv, LeasesOK, JobInv, NEW w \in Workers, Work(w)
    PROVE  SchedulerNext \/ UNCHANGED schedVars
<1>1. CASE Moves(w) \/ Respond(w) \/ ReadData(w) \/ ReadWakes(w) \/ Write(w)
  BY ONLY <1>1, Zenon DEF Moves, Respond, ReadData, ReadWakes, Write, Check, Wait, NoWork, RequestFails, ReadEnd,
     ReadFails, WriteFails, ReadPauses, SendSave, AwaitSave, PauseEnds, BackoffEnds, GiveUp, InstallFatal
<1>2. CASE AcquireLease(w)
  BY ONLY <1>2, Zenon DEF AcquireLease, SchedulerNext
<1>3. CASE Split(w)
  <2>1. ASSUME NEW i \in LargestSplittable(SplitThreshold),
               SplitTail(i, active[i].generation, SplitThreshold, ReceivedThrough(i))
        PROVE  SchedulerNext
    <3>1. i \in DOMAIN active
      BY ONLY <2>1, Zenon DEF LargestSplittable
    <3>2. ReceivedThrough(i) \in Nat /\ ReceivedThrough(i) <= TotalSize
      BY ONLY JobInv, LeasesOK, <3>1, ReceivedNat, Zenon
    <3>3. ReceivedThrough(i) \in Offsets
      BY ONLY <3>2, SizeAssumption, PolicyAssumption, BoundAssumption DEF Offsets
    <3>4. i \in Ids /\ active[i].generation \in 1 .. generation
      BY ONLY SchedInv, <3>1, IdsAndGenerations, Zenon
    <3> QED BY ONLY <2>1, <3>3, <3>4, Zenon DEF SchedulerNext
  <2> QED BY ONLY <1>3, <2>1, Zenon DEF Split
<1>4. ASSUME NEW from, NEW to, ReconcileFrom(w, from, to) PROVE SchedulerNext
  <2>1. Reconcile
    BY ONLY <1>4, Zenon DEF ReconcileFrom
  <2> QED BY ONLY SchedInv, LeasesOK, JobInv, <2>1, ReconcileRefines, Zenon
<1>5. ASSUME Live(held[w].id, held[w].generation)
      PROVE  held[w].id \in Ids /\ held[w].generation \in 1 .. generation
  BY ONLY SchedInv, <1>5, IdsAndGenerations, Zenon DEF Live
<1>6. CASE FinalAck(w)
  <2>1. CASE Live(held[w].id, held[w].generation)
    <3>1. ReportProgress(held[w].id, held[w].generation, xfer[w].last + 1)
      BY ONLY <1>6, <2>1, Zenon DEF FinalAck, OnLease
    <3>2. held[w].id \in DOMAIN active
      BY ONLY <2>1, Zenon DEF Live
    <3>3. xfer[w].last + 1 \in Nat
      BY ONLY JobInv, w \in Workers DEF JobInv, Types
    <3>4. \E off \in Offsets : ReportProgress(held[w].id, held[w].generation, off)
      BY ONLY LeasesOK, <3>1, <3>2, <3>3, ReportCut, Zenon
    <3> QED BY ONLY <1>5, <2>1, <3>4, Zenon DEF SchedulerNext
  <2>2. CASE ~Live(held[w].id, held[w].generation)
    BY ONLY <1>6, <2>2, Zenon DEF FinalAck, OnLease
  <2> QED BY ONLY <2>1, <2>2, Zenon
<1>7. CASE CompleteLease(w)
  <2>1. CASE Live(held[w].id, held[w].generation)
    <3>1. Complete(held[w].id, held[w].generation)
      BY ONLY <1>7, <2>1, Zenon DEF CompleteLease, OnLease
    <3> QED BY ONLY <1>5, <2>1, <3>1, Zenon DEF SchedulerNext
  <2>2. CASE ~Live(held[w].id, held[w].generation)
    BY ONLY <1>7, <2>2, Zenon DEF CompleteLease, OnLease
  <2> QED BY ONLY <2>1, <2>2, Zenon
<1>8. CASE Requeue(w) \/ Abandon(w)
  <2>1. CASE Live(held[w].id, held[w].generation)
    <3>1. Fail(held[w].id, held[w].generation)
      BY ONLY <1>8, <2>1, Zenon DEF Requeue, Abandon, GiveBackLease, OnLease
    <3> QED BY ONLY <1>5, <2>1, <3>1, Zenon DEF SchedulerNext
  <2>2. CASE ~Live(held[w].id, held[w].generation)
    BY ONLY <1>8, <2>2, Zenon DEF Requeue, Abandon, GiveBackLease, OnLease
  <2> QED BY ONLY <2>1, <2>2, Zenon
<1>9. CASE Bump(w)
  BY ONLY <1>9, Zenon DEF Bump, SchedulerNext
<1> QED BY ONLY Work(w), <1>1, <1>2, <1>3, <1>4, <1>6, <1>7, <1>8, <1>9, Zenon
        DEF Work, Moves, Progress, Arrives, Settling

(* So is every step of the job. *)
LEMMA JobRefines ==
    ASSUME SchedInv, LeasesOK, JobInv, [Next]_vars
    PROVE  SchedulerNext \/ UNCHANGED schedVars
<1>1. CASE UNCHANGED vars
  BY ONLY <1>1, Zenon DEF vars
<1>2. ASSUME NEW w \in Workers, Work(w) PROVE SchedulerNext \/ UNCHANGED schedVars
  BY ONLY SchedInv, LeasesOK, JobInv, <1>2, WorkRefines, Zenon
<1>3. ASSUME NEW for, Snapshot(for) PROVE SchedulerNext
  <2>1. Reconcile
    BY ONLY <1>3, Zenon DEF Snapshot, AbsorbAndNotify
  <2> QED BY ONLY SchedInv, LeasesOK, JobInv, <2>1, ReconcileRefines, Zenon
<1>4. CASE Aloof
  BY ONLY <1>4, AloofIs, Zenon
<1> QED BY ONLY [Next]_vars, <1>1, <1>2, <1>3, <1>4, NextCases, Zenon

-----------------------------------------------------------------------------
(* What every step does. *)

(* The hypotheses of a step: both invariants hold before and after it, and what
   is settled grows. *)
Step ==
    /\ SchedInv /\ SchedInv' /\ LeasesOK /\ LeasesOK' /\ JobInv /\ JobInv'
    /\ Settled \subseteq Settled'
    /\ SchedulerNext \/ UNCHANGED schedVars

(* Generations start at one and only grow. *)
Ages == /\ generation \in Nat /\ generation' \in Nat
        /\ 1 <= generation /\ generation <= generation'

(* The generation only grows. *)
LEMMA GenerationGrows ==
    ASSUME LeasesOK, SchedulerNext \/ UNCHANGED schedVars
    PROVE  generation <= generation'
<1>1. generation' = generation \/ generation' = generation + 1
  BY ONLY SchedulerNext \/ UNCHANGED schedVars, Zenon
     DEF schedVars, SchedulerNext, Acquire, ReportProgress, Complete, Fail, Release,
         SplitTail, AbsorbWorkerProgress, BumpGeneration, SetReadyWorkDivisor
<1> QED BY ONLY <1>1, LeasesOK DEF LeasesOK

(* A worker writes and asks; the rest of a save is the coordinator's. *)
LEMMA WorkFrame ==
    ASSUME NEW w \in Workers, Work(w)
    PROVE  /\ UNCHANGED <<coord, synced, checkpoint, saved, cancelled, scenario, main>>
           /\ written \subseteq written'
<1> USE DEF env, ioVars, coordVars, ctlVars
<1>1. CASE Progress(w)
  <2>1. CASE Settling(w)
    BY ONLY <2>1, Zenon DEF Settling, ReconcileFrom, FinalAck, CompleteLease, Requeue, Abandon, Bump, InstallFatal,
                     GiveUp, BackoffEnds
  <2>2. CASE Write(w)
    BY ONLY <2>2, Zenon DEF Write
  <2> QED BY ONLY <1>1, <2>1, <2>2, Zenon DEF Progress, Check, Wait, AcquireLease, NoWork, Split, Respond, ReadPauses,
                  ReadWakes, SendSave, AwaitSave, PauseEnds
<1>2. CASE Arrives(w) \/ RequestFails(w) \/ WriteFails(w)
  BY ONLY <1>2, Zenon DEF Arrives, ReadData, ReadEnd, ReadFails, RequestFails, WriteFails
<1> QED BY ONLY Work(w), <1>1, <1>2, Zenon DEF Work

-----------------------------------------------------------------------------
(* Steps of one worker that leave the scheduler alone. *)

(* What other tasks do leaves a worker's facts alone: leases may be split or
   go away, and more may be written. *)
LEMMA Bystander ==
    ASSUME LeasesOK, LeasesOK', Types, NEW v \in Workers, WorkerSound(v), Same(v), Kept(held[v].id),
           nextLease <= nextLease', scenario' = scenario, written \subseteq written'
    PROVE  WorkerSound(v)'
<1>1. /\ held[v].id \in Nat /\ held[v].start \in Nat /\ held[v].end \in Nat
      /\ xfer[v].pos \in Nat /\ xfer[v].last \in Nat /\ xfer[v].eff \in Nat /\ xfer[v].len \in Nat
      /\ cell[v].written \in Nat
  BY ONLY Types, v \in Workers, Zenon DEF Types
<1>2. pc'[v] = pc[v] /\ held'[v] = held[v] /\ xfer'[v] = xfer[v] /\ cell'[v] = cell[v]
  BY ONLY Same(v), Zenon DEF Same
<1>3. HasLease(v) => HasLease(v)'
  <2>1. TotalSize \in Nat /\ nextLease \in Nat /\ nextLease' \in Nat
    BY SizeAssumption, PolicyAssumption, BoundAssumption, Zenon DEF LeasesOK
  <2>2. HasLease(v) =>
           /\ 0 < held'[v].id /\ held'[v].id < nextLease'
           /\ held'[v].next = held'[v].start
           /\ held'[v].start <= held'[v].end /\ held'[v].end < TotalSize
    BY ONLY <1>1, <1>2, <2>1, nextLease <= nextLease' DEF HasLease
  <2>3. ASSUME HasLease(v), held[v].id \in DOMAIN active'
        PROVE  /\ active'[held[v].id].generation = held[v].generation
               /\ active'[held[v].id].start = held[v].start
               /\ active'[held[v].id].end <= held[v].end
    <3>1. held[v].id \in DOMAIN active
      BY ONLY Kept(held[v].id), <2>3, Zenon DEF Kept
    <3>2. active[held[v].id].end \in Nat /\ active'[held[v].id].end \in Nat
      BY ONLY LeasesOK, LeasesOK', <2>3, <3>1, Zenon DEF LeasesOK
    <3> QED BY ONLY Kept(held[v].id), <2>3, <3>1, <3>2, <1>1 DEF Kept, HasLease
  <2> QED BY ONLY <1>2, <2>2, <2>3, Zenon DEF HasLease
<1>4. CellSound(v) => CellSound(v)'
  BY ONLY <1>1, <1>2, written \subseteq written', Zenon DEF CellSound
<1>5. ResponseSound(v) => ResponseSound(v)'
  <2>1. ASSUME ResponseSound(v), held[v].id \in DOMAIN active'
        PROVE  xfer[v].eff = xfer[v].last \/ active'[held[v].id].end <= xfer[v].eff
    <3>1. held[v].id \in DOMAIN active
      BY ONLY Kept(held[v].id), <2>1, Zenon DEF Kept
    <3>2. active[held[v].id].end \in Nat /\ active'[held[v].id].end \in Nat
      BY ONLY LeasesOK, LeasesOK', <2>1, <3>1, Zenon DEF LeasesOK
    <3> QED BY ONLY Kept(held[v].id), <2>1, <3>1, <3>2, <1>1, SMTT(30) DEF Kept, ResponseSound
  <2> QED BY ONLY <1>1, <1>2, <2>1, written \subseteq written' DEF ResponseSound
<1>6. FinishSound(v) => FinishSound(v)'
  <2>1. ASSUME held[v].id \in DOMAIN active'
        PROVE  held[v].id \in DOMAIN active
               /\ held[v].start .. active'[held[v].id].end \subseteq held[v].start .. active[held[v].id].end
    <3>1. held[v].id \in DOMAIN active
      BY ONLY Kept(held[v].id), <2>1, Zenon DEF Kept
    <3>2. active[held[v].id].end \in Nat /\ active'[held[v].id].end \in Nat
      BY ONLY LeasesOK, LeasesOK', <2>1, <3>1, Zenon DEF LeasesOK
    <3> QED BY ONLY Kept(held[v].id), <2>1, <3>1, <3>2, <1>1 DEF Kept
  <2> QED BY ONLY <1>1, <1>2, <2>1, written \subseteq written', Zenon DEF FinishSound
<1>7. Whole' = Whole
  BY ONLY scenario' = scenario, Zenon DEF Whole, Env
<1> QED BY ONLY WorkerSound(v), <1>2, <1>3, <1>4, <1>5, <1>6, <1>7, Zenon
        DEF WorkerSound, NoLease, Busy, Receiving, Finishing

(* What a worker's step leaves alone. *)
Aside(w) ==
    /\ \A v \in Workers \ {w} : Same(v) /\ Kept(held[v].id)
    /\ nextLease <= nextLease' /\ scenario' = scenario /\ written \subseteq written'

(* A worker's step keeps the invariant if it keeps the worker's own facts. *)
LEMMA WorkerStep ==
    ASSUME LeasesOK, LeasesOK', JobInv, NEW w \in Workers, Aside(w),
           Types', WorkerSound(w)', LeasesHeld', Whole => SettledWritten'
    PROVE  JobInv'
<1>1. ASSUME NEW v \in Workers PROVE WorkerSound(v)'
  <2>1. CASE v = w
    BY ONLY <2>1, WorkerSound(w)', Zenon
  <2>2. CASE v # w
    <3>1. Types /\ WorkerSound(v)
      BY ONLY JobInv, v \in Workers, Zenon DEF JobInv
    <3>2. Same(v) /\ Kept(held[v].id) /\ nextLease <= nextLease' /\ scenario' = scenario
          /\ written \subseteq written'
      BY ONLY Aside(w), v \in Workers, <2>2, Zenon DEF Aside
    <3> QED BY ONLY <3>1, <3>2, LeasesOK, LeasesOK', v \in Workers, Bystander, Zenon
  <2> QED BY ONLY <2>1, <2>2, Zenon
<1>2. Whole' = Whole
  BY ONLY Aside(w), Zenon DEF Aside, Whole, Env
<1> QED BY ONLY <1>1, <1>2, Types', LeasesHeld', Whole => SettledWritten', Zenon DEF JobInv

(* Such a step keeps the invariant if it keeps the worker's own facts. *)
LEMMA QuietStep ==
    ASSUME LeasesOK, LeasesOK', JobInv, NEW w \in Workers, Quiet(w), Types', WorkerSound(w)'
    PROVE  JobInv'
<1>1. /\ active' = active /\ held' = held /\ nextLease' = nextLease /\ scenario' = scenario
      /\ completed' = completed /\ written \subseteq written'
  BY ONLY Quiet(w), Zenon DEF Quiet, schedVars
<1>2. Aside(w)
  <2>1. ASSUME NEW v \in Workers \ {w} PROVE Same(v) /\ Kept(held[v].id)
    <3>1. Same(v)
      BY ONLY Quiet(w), <1>1, Zenon DEF Quiet, Same
    <3>2. Kept(held[v].id)
      <4>1. ASSUME held[v].id \in DOMAIN active PROVE active[held[v].id].end \in Nat
        BY ONLY <4>1, LeasesOK, Zenon DEF LeasesOK
      <4> QED BY ONLY <1>1, <4>1 DEF Kept
    <3> QED BY ONLY <3>1, <3>2, Zenon
  <2> QED BY ONLY <1>1, <2>1, LeasesOK DEF Aside, LeasesOK
<1>3. LeasesHeld'
  BY ONLY <1>1, JobInv, Zenon DEF JobInv, LeasesHeld
<1>4. Whole => SettledWritten'
  BY ONLY <1>1, JobInv, SettledIs, SettledIsNext, Zenon DEF JobInv
<1> QED BY ONLY LeasesOK, LeasesOK', JobInv, w \in Workers, Types', WorkerSound(w)',
               <1>2, <1>3, <1>4, WorkerStep, Zenon

(* A move keeps the invariant; one to the end of the response only if all of
   the lease is written. *)
LEMMA MoveStep ==
    ASSUME LeasesOK, LeasesOK', JobInv, NEW w \in Workers, NEW to, MoveTo(w, to), Plain(pc[w], to),
           to \in Finishing => (Whole /\ held[w].id \in DOMAIN active =>
                                  held[w].start .. active[held[w].id].end \subseteq written)
    PROVE  JobInv'
<1>1. /\ held' = held /\ xfer' = xfer /\ cell' = cell /\ written' = written
      /\ scenario' = scenario /\ active' = active /\ nextLease' = nextLease
      /\ pc' = [pc EXCEPT ![w] = to]
  BY ONLY MoveTo(w, to), Zenon DEF MoveTo, schedVars
<1>2. Types /\ WorkerSound(w)
  BY ONLY JobInv, w \in Workers, Zenon DEF JobInv
<1>3. Types'
  BY ONLY <1>1, <1>2, Plain(pc[w], to), Zenon DEF Types, Plain
<1>4. pc'[w] = to
  BY ONLY <1>1, <1>2, w \in Workers, Zenon DEF Types
<1>5. Quiet(w)
  BY ONLY <1>1, <1>2, MoveTo(w, to), Zenon DEF Quiet, MoveTo, Types
<1>6. Whole' = Whole
  BY ONLY <1>1, Zenon DEF Whole, Env
<1>7. WorkerSound(w)'
  <2>1. (HasLease(w)' <=> HasLease(w))
    BY ONLY <1>1, Zenon DEF HasLease
  <2>2. pc[w] \in Receiving => (to \in Receiving => ResponseSound(w)')
    BY ONLY <1>1, <1>2, <1>4, Plain(pc[w], to) DEF ResponseSound, Plain, WorkerSound
  <2>3. CellSound(w)'
    BY ONLY <1>1, <1>2, <1>4, Plain(pc[w], to), Zenon DEF CellSound, Plain, WorkerSound
  <2>4. Whole => FinishSound(w)'
    BY ONLY <1>1, <1>2, <1>4, Plain(pc[w], to), to \in Finishing => (Whole /\ held[w].id \in DOMAIN active =>
                                  held[w].start .. active[held[w].id].end \subseteq written), Zenon
       DEF FinishSound, Plain, WorkerSound
  <2> QED BY ONLY <1>1, <1>2, <1>4, <1>6, <2>1, <2>2, <2>3, <2>4, Plain(pc[w], to), Zenon
          DEF WorkerSound, Plain, NoLease
<1> QED BY ONLY LeasesOK, LeasesOK', JobInv, w \in Workers, <1>3, <1>5, <1>7, QuietStep, Zenon

(* A worker that has read to the end of what its lease covers has written it. *)
LEMMA ReadAll ==
    ASSUME LeasesOK, Types, NEW w \in Workers, WorkerSound(w), pc[w] = "read", Whole,
           held[w].id \in DOMAIN active,
           xfer[w].pos = xfer[w].last + 1 \/ xfer[w].eff < xfer[w].pos
    PROVE  held[w].start .. active[held[w].id].end \subseteq written
<1>1. HasLease(w) /\ ResponseSound(w) /\ FinishSound(w)
  BY ONLY WorkerSound(w), pc[w] = "read", Whole, Zenon DEF WorkerSound, Busy, Receiving
<1>2. /\ held[w].id \in Nat /\ held[w].start \in Nat /\ held[w].end \in Nat
      /\ xfer[w].pos \in Nat /\ xfer[w].last \in Nat /\ xfer[w].eff \in Nat
  BY ONLY Types, w \in Workers, Zenon DEF Types
<1>3. active[held[w].id].end \in Nat
  BY ONLY LeasesOK, held[w].id \in DOMAIN active, Zenon DEF LeasesOK
<1>4. active[held[w].id].end <= held[w].end
  BY ONLY <1>1, held[w].id \in DOMAIN active, Zenon DEF HasLease
<1>5. xfer[w].last = held[w].end
  BY ONLY <1>1, pc[w] = "read", Zenon DEF FinishSound, Receiving
<1>6. /\ held[w].start .. xfer[w].pos - 1 \subseteq written
      /\ xfer[w].eff = xfer[w].last \/ active[held[w].id].end <= xfer[w].eff
      /\ xfer[w].eff <= xfer[w].last
  BY ONLY <1>1, held[w].id \in DOMAIN active, Zenon DEF ResponseSound
<1>7. active[held[w].id].end <= xfer[w].pos - 1
  BY ONLY <1>2, <1>3, <1>4, <1>5, <1>6, xfer[w].pos = xfer[w].last + 1 \/ xfer[w].eff < xfer[w].pos, SMTT(30)
<1> QED BY ONLY <1>2, <1>3, <1>6, <1>7

(* The moves keep the invariant. *)
LEMMA MovesInv ==
    ASSUME LeasesOK, LeasesOK', JobInv, NEW w \in Workers, Moves(w)
    PROVE  JobInv'
<1>1. PICK to \in WorkerStates : /\ MoveTo(w, to) /\ Plain(pc[w], to)
                                 /\ to \in Finishing => to = "done" /\ ReadEnd(w)
  BY ONLY w \in Workers, Moves(w), MovesTo, Zenon
<1>2. ASSUME to \in Finishing, Whole, held[w].id \in DOMAIN active
      PROVE  held[w].start .. active[held[w].id].end \subseteq written
  <2>1. pc[w] = "read" /\ xfer[w].pos = xfer[w].last + 1
    BY ONLY <1>1, <1>2, Zenon DEF ReadEnd, At, Whole
  <2>2. Types /\ WorkerSound(w)
    BY ONLY JobInv, w \in Workers, Zenon DEF JobInv
  <2> QED BY ONLY LeasesOK, w \in Workers, <1>2, <2>1, <2>2, ReadAll, Zenon
<1> QED BY ONLY LeasesOK, LeasesOK', JobInv, w \in Workers, <1>1, <1>2, MoveStep, Zenon

(* A response starts at the start of the lease: the cell is clear. *)
LEMMA RespondInv ==
    ASSUME LeasesOK, LeasesOK', JobInv, NEW w \in Workers, Respond(w)
    PROVE  JobInv'
<1>1. Types /\ WorkerSound(w)
  BY ONLY JobInv, w \in Workers, Zenon DEF JobInv
<1>2. pc[w] = "request"
  BY ONLY Respond(w), Zenon DEF Respond
<1>3. HasLease(w) /\ cell[w].lease = 0 /\ CellSound(w)
  BY ONLY <1>1, <1>2, Zenon DEF WorkerSound, Busy, CellSound
<1>4. /\ held[w].id \in Nat /\ held[w].start \in Nat /\ held[w].end \in Nat
      /\ held[w].next = held[w].start /\ held[w].start <= held[w].end /\ 0 < held[w].id
  BY ONLY <1>1, <1>3, w \in Workers, Zenon DEF Types, HasLease
<1>5. PICK last \in held[w].start .. held[w].end :
         /\ "short" \notin Env => last = held[w].end
         /\ xfer' = [xfer EXCEPT ![w] = [from |-> held[w].start, pos |-> held[w].start, last |-> last,
                                         eff |-> StopAt(w, last), len |-> 0, cut |-> FALSE]]
  <2>1. ResumeAt(w) = held[w].start
    BY ONLY <1>3, <1>4 DEF ResumeAt
  <2>2. PICK last \in ResponseEnds(w) :
           xfer' = [xfer EXCEPT ![w] = Response(w, last)]
    BY ONLY Respond(w), Zenon DEF Respond
  <2>3. last \in held[w].start .. held[w].end /\ ("short" \notin Env => last = held[w].end)
    <3>1. CASE "short" \in Env
      BY ONLY <2>1, <2>2, <3>1, <1>4, Zenon DEF ResponseEnds
    <3>2. CASE "short" \notin Env
      BY ONLY <2>1, <2>2, <3>2, <1>4 DEF ResponseEnds
    <3> QED BY ONLY <3>1, <3>2, Zenon
  <2>4. xfer' = [xfer EXCEPT ![w] = [from |-> held[w].start, pos |-> held[w].start, last |-> last,
                                     eff |-> StopAt(w, last), len |-> 0, cut |-> FALSE]]
    BY ONLY <2>1, <2>2, Zenon DEF Response
  <2> QED BY ONLY <2>3, <2>4, Zenon
<1>6. \E to \in {"fail", "read"} : pc' = [pc EXCEPT ![w] = to]
  BY ONLY Respond(w), Zenon DEF Respond, Continue, Raise, Goto
<1>7. UNCHANGED <<schedVars, held, cell, written, scenario>>
  BY ONLY Respond(w), Zenon DEF Respond, env, ioVars, ctlVars
<1>8. /\ last \in Nat /\ last <= held[w].end /\ StopAt(w, last) \in Nat /\ StopAt(w, last) <= last
      /\ held[w].start <= last
      /\ held[w].id \in DOMAIN active =>
            StopAt(w, last) = last \/ active[held[w].id].end <= StopAt(w, last)
  <2>1. last \in Nat /\ last <= held[w].end /\ held[w].start <= last
    BY ONLY <1>4, <1>5
  <2> QED BY ONLY <2>1, <1>3, LeasesOK, w \in Workers, StopAtIs, Zenon
<1>9. Types'
  <2>1. xfer' \in [Workers -> [from : Nat, pos : Nat, last : Nat, eff : Nat, len : Nat, cut : BOOLEAN]]
    BY ONLY <1>1, <1>4, <1>5, <1>8, Zenon DEF Types
  <2>2. pc' \in [Workers -> WorkerStates]
    BY ONLY <1>1, <1>6, Zenon DEF Types, WorkerStates
  <2> QED BY ONLY <1>1, <1>7, <2>1, <2>2, Zenon DEF Types
<1>10. /\ xfer'[w].pos = held[w].start /\ xfer'[w].last = last /\ xfer'[w].eff = StopAt(w, last)
       /\ pc'[w] \in {"fail", "read"}
  BY ONLY <1>1, <1>5, <1>6, w \in Workers, Zenon DEF Types
<1>11. Quiet(w)
  BY ONLY <1>1, <1>5, <1>6, <1>7, Zenon DEF Quiet, Types
<1>12. /\ held' = held /\ cell' = cell /\ written' = written /\ scenario' = scenario
       /\ active' = active /\ nextLease' = nextLease
  BY ONLY <1>7, SMTT(30) DEF schedVars
<1>13. HasLease(w)' /\ CellSound(w)'
  BY ONLY <1>3, <1>10, <1>12, ZenonT(30) DEF HasLease, CellSound
<1>14. ResponseSound(w)'
  <2>1. pc'[w] # "write"
    BY ONLY <1>10, Zenon
  <2>2. held[w].start .. held[w].start - 1 \subseteq written
    BY ONLY <1>4, SMTT(30)
  <2> QED BY ONLY <2>1, <2>2, <1>4, <1>8, <1>10, <1>12 DEF ResponseSound
<1>15. Whole => FinishSound(w)'
  BY ONLY <1>5, <1>10, <1>12, Zenon DEF FinishSound, Whole, Receiving, Finishing
<1>16. Whole' = Whole
  BY ONLY <1>12, Zenon DEF Whole, Env
<1>17. WorkerSound(w)'
  BY ONLY <1>10, <1>13, <1>14, <1>15, <1>16, Zenon DEF WorkerSound, Busy, Receiving
<1> QED BY ONLY LeasesOK, LeasesOK', JobInv, w \in Workers, <1>9, <1>11, <1>17, QuietStep, Zenon

(* A chunk is cut at the end the worker knows of; a worker past that end has
   written all of its lease. *)
LEMMA ReadDataInv ==
    ASSUME LeasesOK, LeasesOK', JobInv, NEW w \in Workers, ReadData(w)
    PROVE  JobInv'
<1>1. Types /\ WorkerSound(w)
  BY ONLY JobInv, w \in Workers, Zenon DEF JobInv
<1>2. pc[w] = "read"
  BY ONLY ReadData(w), Zenon DEF ReadData
<1>3. HasLease(w) /\ CellSound(w) /\ ResponseSound(w) /\ (Whole => FinishSound(w))
  BY ONLY <1>1, <1>2, Zenon DEF WorkerSound, Busy, Receiving
<1>4. /\ held[w].id \in Nat /\ held[w].start \in Nat /\ held[w].end \in Nat
      /\ xfer[w].pos \in Nat /\ xfer[w].last \in Nat /\ xfer[w].eff \in Nat
  BY ONLY <1>1, w \in Workers, Zenon DEF Types
<1>5. UNCHANGED <<schedVars, held, cell, written, scenario>>
  BY ONLY ReadData(w), Zenon DEF ReadData, env, ioVars, ctlVars
<1>6. PICK n \in 1 .. xfer[w].last - xfer[w].pos + 1 :
          LET owned == Min2(SatSub(xfer[w].eff + 1, xfer[w].pos), n)
          IN  IF owned = 0 THEN Goto(w, "done") /\ UNCHANGED xfer
              ELSE /\ Goto(w, "write")
                   /\ xfer' = [xfer EXCEPT ![w].len = owned, ![w].cut = owned < n]
  BY ONLY ReadData(w), SMTT(30) DEF ReadData
<1> DEFINE owned == Min2(SatSub(xfer[w].eff + 1, xfer[w].pos), n)
<1>7. /\ n \in Nat /\ n >= 1 /\ owned \in Nat /\ owned <= n
      /\ owned = 0 => xfer[w].eff < xfer[w].pos
      /\ owned # 0 => xfer[w].pos + owned <= xfer[w].eff + 1
      /\ owned # 0 /\ owned < n => xfer[w].pos + owned = xfer[w].eff + 1
  BY ONLY <1>4, n \in 1 .. xfer[w].last - xfer[w].pos + 1, SMTT(30) DEF Min2, SatSub
<1>8. IF owned = 0 THEN Goto(w, "done") /\ UNCHANGED xfer
      ELSE /\ Goto(w, "write")
           /\ xfer' = [xfer EXCEPT ![w].len = owned, ![w].cut = owned < n]
  BY ONLY <1>6, Zenon
<1> HIDE DEF owned
<1>9. CASE owned = 0
  <2>1. MoveTo(w, "done") /\ Plain(pc[w], "done")
    BY ONLY <1>2, <1>5, <1>8, <1>9, Zenon DEF MoveTo, Goto, Plain, Busy, Receiving, Finishing, WorkerStates
  <2>2. ASSUME Whole, held[w].id \in DOMAIN active
        PROVE  held[w].start .. active[held[w].id].end \subseteq written
    BY ONLY LeasesOK, w \in Workers, <1>1, <1>2, <1>7, <1>9, <2>2, ReadAll, Zenon
  <2> QED BY ONLY LeasesOK, LeasesOK', JobInv, w \in Workers, <2>1, <2>2, MoveStep, Zenon
<1>10. CASE owned # 0
  <2>1. pc' = [pc EXCEPT ![w] = "write"] /\ xfer' = [xfer EXCEPT ![w].len = owned, ![w].cut = owned < n]
    BY ONLY <1>8, <1>10, Zenon DEF Goto
  <2>2. (owned < n) \in BOOLEAN
    OBVIOUS
  <2>3. Types'
    <3>1. xfer' \in [Workers -> [from : Nat, pos : Nat, last : Nat, eff : Nat, len : Nat, cut : BOOLEAN]]
      BY ONLY <1>1, <1>7, <2>1, <2>2, ZenonT(30) DEF Types
    <3>2. pc' \in [Workers -> WorkerStates]
      BY ONLY <1>1, <2>1, Zenon DEF Types, WorkerStates
    <3> QED BY ONLY <1>1, <1>5, <3>1, <3>2, Zenon DEF Types
  <2>4. /\ xfer'[w].pos = xfer[w].pos /\ xfer'[w].last = xfer[w].last /\ xfer'[w].eff = xfer[w].eff
        /\ xfer'[w].len = owned /\ xfer'[w].cut = (owned < n) /\ pc'[w] = "write"
    BY ONLY <1>1, <2>1, w \in Workers DEF Types
  <2>5. Quiet(w)
    BY ONLY <1>1, <1>5, <2>1, Zenon DEF Quiet, Types
  <2>6. /\ held' = held /\ cell' = cell /\ written' = written /\ scenario' = scenario
        /\ active' = active /\ nextLease' = nextLease
    BY ONLY <1>5, Zenon DEF schedVars
  <2>7. HasLease(w)' /\ CellSound(w)'
    <3>1. HasLease(w)'
      BY ONLY <1>3, <2>6, Zenon DEF HasLease
    <3>2. CellSound(w)'
      BY ONLY <1>2, <1>3, <2>4, <2>6, Zenon DEF CellSound
    <3> QED BY ONLY <3>1, <3>2, Zenon
  <2>8. ResponseSound(w)'
    <3>1. ResponseSound(w) /\ pc[w] # "write"
      BY ONLY <1>2, <1>3, Zenon
    <3>2. xfer'[w].cut => xfer'[w].pos + xfer'[w].len = xfer'[w].eff + 1
      BY ONLY <1>7, <1>10, <2>4, Zenon
    <3>3. xfer'[w].len >= 1 /\ xfer'[w].pos + xfer'[w].len <= xfer'[w].eff + 1
      BY ONLY <1>7, <1>10, <2>4
    <3> QED BY ONLY <3>1, <3>2, <3>3, <2>4, <2>6, Zenon DEF ResponseSound
  <2>9. Whole => FinishSound(w)'
    BY ONLY <1>2, <1>3, <2>4, <2>6, Zenon DEF FinishSound, Receiving, Finishing
  <2>10. Whole' = Whole
    BY ONLY <2>6, Zenon DEF Whole, Env
  <2>11. WorkerSound(w)'
    BY ONLY <2>4, <2>7, <2>8, <2>9, <2>10, Zenon DEF WorkerSound, Busy, Receiving
  <2> QED BY ONLY LeasesOK, LeasesOK', JobInv, w \in Workers, <2>3, <2>5, <2>11, QuietStep, Zenon
<1> QED BY ONLY <1>9, <1>10, Zenon

(* A woken read takes over the end of its lease. *)
LEMMA ReadWakesInv ==
    ASSUME LeasesOK, LeasesOK', JobInv, NEW w \in Workers, ReadWakes(w)
    PROVE  JobInv'
<1>1. Types /\ WorkerSound(w)
  BY ONLY JobInv, w \in Workers, Zenon DEF JobInv
<1>2. pc[w] = "read"
  BY ONLY ReadWakes(w), Zenon DEF ReadWakes
<1>3. HasLease(w) /\ CellSound(w) /\ ResponseSound(w) /\ (Whole => FinishSound(w))
  BY ONLY <1>1, <1>2, Zenon DEF WorkerSound, Busy, Receiving
<1>4. /\ held[w].id \in Nat /\ held[w].start \in Nat /\ held[w].end \in Nat
      /\ xfer[w].pos \in Nat /\ xfer[w].last \in Nat /\ xfer[w].eff \in Nat
  BY ONLY <1>1, w \in Workers, Zenon DEF Types
<1>5. UNCHANGED <<schedVars, held, cell, written, scenario>>
  BY ONLY ReadWakes(w), Zenon DEF ReadWakes, env, ioVars, ctlVars
<1>6. xfer' = [xfer EXCEPT ![w].eff = StopAt(w, xfer[w].eff)]
  BY ONLY ReadWakes(w), Zenon DEF ReadWakes
<1>7. \E to \in {"fail", "read"} : pc' = [pc EXCEPT ![w] = to]
  BY ONLY ReadWakes(w), Zenon DEF ReadWakes, Continue, Raise, Goto
<1>8. /\ StopAt(w, xfer[w].eff) \in Nat /\ StopAt(w, xfer[w].eff) <= xfer[w].eff
      /\ held[w].id \in DOMAIN active =>
            StopAt(w, xfer[w].eff) = xfer[w].eff \/ active[held[w].id].end <= StopAt(w, xfer[w].eff)
  BY ONLY <1>3, <1>4, LeasesOK, w \in Workers, StopAtIs, Zenon
<1>9. Types'
  <2>1. xfer' \in [Workers -> [from : Nat, pos : Nat, last : Nat, eff : Nat, len : Nat, cut : BOOLEAN]]
    BY ONLY <1>1, <1>6, <1>8, Zenon DEF Types
  <2>2. pc' \in [Workers -> WorkerStates]
    BY ONLY <1>1, <1>7, Zenon DEF Types, WorkerStates
  <2> QED BY ONLY <1>1, <1>5, <2>1, <2>2, Zenon DEF Types
<1>10. /\ xfer'[w].pos = xfer[w].pos /\ xfer'[w].last = xfer[w].last
       /\ xfer'[w].eff = StopAt(w, xfer[w].eff) /\ pc'[w] \in {"fail", "read"}
  BY ONLY <1>1, <1>6, <1>7, w \in Workers DEF Types
<1>11. Quiet(w)
  BY ONLY <1>1, <1>5, <1>6, <1>7, Zenon DEF Quiet, Types
<1>12. /\ held' = held /\ cell' = cell /\ written' = written /\ scenario' = scenario
       /\ active' = active /\ nextLease' = nextLease
  BY ONLY <1>5, Zenon DEF schedVars
<1>13. HasLease(w)' /\ CellSound(w)'
  BY ONLY <1>2, <1>3, <1>10, <1>12, ZenonT(30) DEF HasLease, CellSound
<1>14. ResponseSound(w)'
  <2>1. pc'[w] # "write"
    BY ONLY <1>10, Zenon
  <2>2. ASSUME held[w].id \in DOMAIN active
        PROVE  StopAt(w, xfer[w].eff) = xfer[w].last \/ active[held[w].id].end <= StopAt(w, xfer[w].eff)
    <3>1. active[held[w].id].end \in Nat
      BY ONLY LeasesOK, <2>2, Zenon DEF LeasesOK
    <3>2. xfer[w].eff = xfer[w].last \/ active[held[w].id].end <= xfer[w].eff
      BY ONLY <1>3, <2>2, Zenon DEF ResponseSound
    <3> QED BY ONLY <3>1, <3>2, <1>4, <1>8, <2>2, Zenon
  <2> QED BY ONLY <2>1, <2>2, <1>3, <1>4, <1>8, <1>10, <1>12, SMTT(90) DEF ResponseSound
<1>15. Whole => FinishSound(w)'
  BY ONLY <1>2, <1>3, <1>10, <1>12 DEF FinishSound, Receiving, Finishing
<1>16. Whole' = Whole
  BY ONLY <1>12, Zenon DEF Whole, Env
<1>17. WorkerSound(w)'
  BY ONLY <1>10, <1>13, <1>14, <1>15, <1>16, Zenon DEF WorkerSound, Busy, Receiving
<1> QED BY ONLY LeasesOK, LeasesOK', JobInv, w \in Workers, <1>9, <1>11, <1>17, QuietStep, Zenon

(* The acknowledged chunk extends what is written without a gap, and only then
   is it published. *)
LEMMA WriteInv ==
    ASSUME LeasesOK, LeasesOK', JobInv, NEW w \in Workers, Write(w)
    PROVE  JobInv'
<1> DEFINE through == xfer[w].pos + xfer[w].len
<1>1. Types /\ WorkerSound(w)
  BY ONLY JobInv, w \in Workers, Zenon DEF JobInv
<1>2. pc[w] = "write"
  BY ONLY Write(w), Zenon DEF Write
<1>3. HasLease(w) /\ CellSound(w) /\ ResponseSound(w) /\ (Whole => FinishSound(w))
  BY ONLY <1>1, <1>2, Zenon DEF WorkerSound, Busy, Receiving
<1>4. /\ held[w].id \in Nat /\ held[w].start \in Nat /\ held[w].end \in Nat /\ held[w].generation \in Nat
      /\ xfer[w].pos \in Nat /\ xfer[w].last \in Nat /\ xfer[w].eff \in Nat /\ xfer[w].len \in Nat
      /\ xfer[w].cut \in BOOLEAN
  BY ONLY <1>1, w \in Workers, Zenon DEF Types
<1>5. UNCHANGED <<schedVars, held, scenario>>
  BY ONLY Write(w), Zenon DEF Write, ctlVars
<1>6. /\ written' = written \cup (xfer[w].pos .. through - 1)
      /\ cell' = [cell EXCEPT ![w] = [lease |-> held[w].id, generation |-> held[w].generation,
                                      written |-> through, received |-> through]]
      /\ xfer' = [xfer EXCEPT ![w].pos = through, ![w].len = 0, ![w].cut = FALSE]
  <2>1. written' = written \cup (xfer[w].pos .. through - 1)
    <3>1. written' = written \cup Chunk(w)
      BY ONLY Write(w), Zenon DEF Write
    <3>2. Chunk(w) = xfer[w].pos .. through - 1
      BY ONLY <1>4 DEF Chunk
    <3> QED BY ONLY <3>1, <3>2, Zenon
  <2>2. cell' = [cell EXCEPT ![w] = [lease |-> held[w].id, generation |-> held[w].generation,
                                      written |-> through, received |-> through]]
    BY ONLY Write(w), Zenon DEF Write, Publish
  <2>3. xfer' = [xfer EXCEPT ![w].pos = through, ![w].len = 0, ![w].cut = FALSE]
    BY ONLY Write(w), Zenon DEF Write
  <2> QED BY ONLY <2>1, <2>2, <2>3, Zenon
<1>7. \E to \in {"fail", "read", "done"} :
         pc' = [pc EXCEPT ![w] = to] /\ (to = "done" => xfer[w].cut)
  BY ONLY Write(w), <1>4, Zenon DEF Write, Continue, Raise, Goto
<1>8. /\ through \in Nat /\ held[w].start <= xfer[w].pos /\ xfer[w].pos < through
      /\ through <= xfer[w].eff + 1 /\ xfer[w].eff <= xfer[w].last /\ xfer[w].last <= held[w].end
      /\ xfer[w].cut => through = xfer[w].eff + 1
  BY ONLY <1>2, <1>3, <1>4, SMTT(30) DEF ResponseSound
<1> HIDE DEF through
<1>9. held[w].end < TotalSize /\ TotalSize \in Nat
  BY ONLY <1>3, SizeAssumption, PolicyAssumption, BoundAssumption, Zenon DEF HasLease
<1>10. written' \subseteq Bytes
  BY ONLY <1>1, <1>4, <1>6, <1>8, <1>9 DEF Types, Bytes
<1>11. Types'
  <2>1. xfer' \in [Workers -> [from : Nat, pos : Nat, last : Nat, eff : Nat, len : Nat, cut : BOOLEAN]]
    <3>1. xfer'[w] = [from |-> xfer[w].from, pos |-> through, last |-> xfer[w].last,
                      eff |-> xfer[w].eff, len |-> 0, cut |-> FALSE]
      BY ONLY <1>1, <1>6, w \in Workers, ZenonT(30) DEF Types
    <3>2. xfer'[w] \in [from : Nat, pos : Nat, last : Nat, eff : Nat, len : Nat, cut : BOOLEAN]
      BY ONLY <3>1, <1>1, <1>8, w \in Workers DEF Types
    <3>3. xfer' = [xfer EXCEPT ![w] = xfer'[w]]
      BY ONLY <1>1, <1>6, w \in Workers, Zenon DEF Types
    <3> QED BY ONLY <3>2, <3>3, <1>1, Zenon DEF Types
  <2>2. pc' \in [Workers -> WorkerStates]
    BY ONLY <1>1, <1>7, Zenon DEF Types, WorkerStates
  <2>3. cell' \in [Workers -> [lease : Nat, generation : Nat, written : Nat, received : Nat]]
    BY ONLY <1>1, <1>4, <1>6, <1>8, Zenon DEF Types
  <2> QED BY ONLY <1>1, <1>5, <1>10, <2>1, <2>2, <2>3, Zenon DEF Types
<1>12. /\ xfer'[w].pos = through /\ xfer'[w].last = xfer[w].last /\ xfer'[w].eff = xfer[w].eff
       /\ pc'[w] \in {"fail", "read", "done"} /\ (pc'[w] = "done" => xfer[w].cut)
       /\ cell'[w].lease = held[w].id /\ cell'[w].generation = held[w].generation
       /\ cell'[w].written = through /\ cell'[w].received = through
  BY ONLY <1>1, <1>6, <1>7, w \in Workers DEF Types
<1>13. Quiet(w)
  BY ONLY <1>1, <1>5, <1>6, <1>7, Zenon DEF Quiet, Types
<1>14. /\ held' = held /\ scenario' = scenario /\ active' = active /\ nextLease' = nextLease
  BY ONLY <1>5, Zenon DEF schedVars
<1>15. held[w].start .. through - 1 \subseteq written'
  <2>1. held[w].start .. xfer[w].pos - 1 \subseteq written
    BY ONLY <1>3, Zenon DEF ResponseSound
  <2>2. held[w].start .. through - 1 \subseteq (held[w].start .. xfer[w].pos - 1) \cup (xfer[w].pos .. through - 1)
    BY ONLY <1>4, <1>8, SMTT(30)
  <2> QED BY ONLY <2>1, <2>2, <1>6, Zenon
<1>16. HasLease(w)'
  BY ONLY <1>3, <1>14, Zenon DEF HasLease
<1>17. CellSound(w)'
  <2>1. through <= TotalSize
    BY ONLY <1>4, <1>8, <1>9, SMTT(30)
  <2> QED BY ONLY <1>12, <1>14, <1>15, <2>1, Zenon DEF CellSound
<1>18. ResponseSound(w)'
  <2>1. pc'[w] # "write"
    BY ONLY <1>12, Zenon
  <2>2. held[w].start <= through /\ through <= xfer[w].last + 1
    BY ONLY <1>4, <1>8
  <2> QED BY ONLY <2>1, <2>2, <1>3, <1>12, <1>14, <1>15, Zenon DEF ResponseSound
<1>19. Whole => FinishSound(w)'
  <2>1. ASSUME Whole, pc'[w] = "done", held[w].id \in DOMAIN active
        PROVE  held[w].start .. active[held[w].id].end \subseteq written'
    <3>1. active[held[w].id].end \in Nat
      BY ONLY LeasesOK, <2>1, Zenon DEF LeasesOK
    <3>2. through = xfer[w].eff + 1
      BY ONLY <2>1, <1>8, <1>12, Zenon
    <3>3. active[held[w].id].end <= held[w].end
      BY ONLY <2>1, <1>3, Zenon DEF HasLease
    <3>4. xfer[w].last = held[w].end
      BY ONLY <2>1, <1>2, <1>3, Zenon DEF FinishSound, Receiving
    <3>5. xfer[w].eff = xfer[w].last \/ active[held[w].id].end <= xfer[w].eff
      BY ONLY <2>1, <1>3, Zenon DEF ResponseSound
    <3>6. active[held[w].id].end <= through - 1
      BY ONLY <1>4, <3>1, <3>2, <3>3, <3>4, <3>5, SMTT(30)
    <3> QED BY ONLY <1>4, <1>8, <1>15, <3>1, <3>6, SMTT(30)
  <2>2. Whole => xfer[w].last = held[w].end
    BY ONLY <1>2, <1>3, Zenon DEF FinishSound, Receiving
  <2> QED BY ONLY <1>12, <1>14, <2>1, <2>2, Zenon DEF FinishSound, Receiving, Finishing
<1>20. Whole' = Whole
  BY ONLY <1>14, Zenon DEF Whole, Env
<1>21. WorkerSound(w)'
  BY ONLY <1>12, <1>16, <1>17, <1>18, <1>19, <1>20, Zenon DEF WorkerSound, Busy, Receiving, Finishing
<1> QED BY ONLY LeasesOK, LeasesOK', JobInv, w \in Workers, <1>11, <1>13, <1>21, QuietStep, Zenon

-----------------------------------------------------------------------------
(* Absorbing the cells. *)

(* Where a step that absorbs takes its worker. *)
Onward(from, to) ==
    \/ to = from
    \/ from \in {"done", "settle"} /\ to \in {"ack", "complete"}
    \/ from \in {"retry", "fail"} /\ to \in {"requeue", "abandon"}

(* A step that absorbs the cells while a worker, or none, moves on. *)
LEMMA ReconcileStep ==
    ASSUME JobInv, LeasesOK, LeasesOK', Reconcile, UNCHANGED <<held, xfer, cell, written, scenario>>,
           NEW w \in Workers, NEW to, pc' = [pc EXCEPT ![w] = to],
           Onward(pc[w], to)
    PROVE  JobInv'
<1>1. held' = held /\ xfer' = xfer /\ cell' = cell /\ written' = written /\ scenario' = scenario
  BY Zenon
<1>2. Absorbed /\ (Whole => SettledWritten') /\ \A i \in DOMAIN active : Kept(i)
  BY ONLY JobInv, LeasesOK, LeasesOK', Reconcile, <1>1, ReconcileKeeps, Zenon
<1>3. Types /\ WorkerSound(w) /\ LeasesHeld
  BY ONLY JobInv, w \in Workers, Zenon DEF JobInv
<1>4. pc'[w] = to /\ pc[w] \in WorkerStates /\ \A v \in Workers \ {w} : pc'[v] = pc[v]
  BY ONLY <1>3, pc' = [pc EXCEPT ![w] = to], w \in Workers, Zenon DEF Types
<1>5. to \in WorkerStates
  BY ONLY <1>4, Onward(pc[w], to), Zenon
     DEF Onward, WorkerStates
<1>6. Types'
  BY ONLY <1>1, <1>3, <1>5, pc' = [pc EXCEPT ![w] = to], Zenon DEF Types
<1>7. LeasesHeld'
  BY ONLY <1>1, <1>2, <1>3, Zenon DEF LeasesHeld, Absorbed
<1>8. Aside(w)
  <2>1. ASSUME NEW v \in Workers \ {w} PROVE Same(v) /\ Kept(held[v].id)
    <3>1. Kept(held[v].id)
      <4>1. CASE held[v].id \in DOMAIN active
        BY ONLY <1>2, <4>1, Zenon
      <4>2. CASE held[v].id \notin DOMAIN active
        BY ONLY <1>2, <4>2, Zenon DEF Absorbed, Kept
      <4> QED BY ONLY <4>1, <4>2, Zenon
    <3> QED BY ONLY <1>1, <1>4, <3>1, Zenon DEF Same
  <2>2. nextLease <= nextLease'
    <3>1. nextLease \in Nat
      BY ONLY LeasesOK, Zenon DEF LeasesOK
    <3>2. nextLease' = nextLease
      BY ONLY <1>2, Zenon DEF Absorbed
    <3> QED BY ONLY <3>1, <3>2
  <2> QED BY ONLY <1>1, <2>1, <2>2, Zenon DEF Aside
<1>9. WorkerSound(w)'
  <2>1. HasLease(w)' <=> HasLease(w)
    BY ONLY <1>1, <1>2, Zenon DEF HasLease, Absorbed
  <2>2. FinishSound(w) => FinishSound(w)'
    BY ONLY ZenonT(30), <1>1, <1>2, <1>4, Onward(pc[w], to)
       DEF Onward, FinishSound, Absorbed, Finishing, Receiving
  <2>3. CellSound(w)'
    BY ONLY <1>1, <1>3, <1>4, Onward(pc[w], to), Zenon
       DEF Onward, WorkerSound, CellSound
  <2>4. to = pc[w] => (ResponseSound(w)' <=> ResponseSound(w))
    BY ONLY <1>1, <1>2, <1>4, Zenon DEF ResponseSound, Absorbed
  <2>5. Whole' = Whole
    BY ONLY <1>1, Zenon DEF Whole, Env
  <2> QED BY ONLY <1>1, <1>3, <1>4, <2>1, <2>2, <2>3, <2>4, <2>5, Onward(pc[w], to), Zenon
          DEF Onward, WorkerSound, Busy, Receiving, Finishing, NoLease
<1> QED BY ONLY LeasesOK, LeasesOK', JobInv, w \in Workers, <1>2, <1>6, <1>7, <1>8, <1>9, WorkerStep, SMTT(30)

-----------------------------------------------------------------------------
(* Taking a lease. *)

(* Taking a lease keeps the invariant. *)
LEMMA TakeStep ==
    ASSUME JobInv, LeasesOK, LeasesOK', NEW w \in Workers, pc[w] \in {"acquire", "split"}, Taken(w),
           Hold(w), Goto(w, "request"), UNCHANGED <<xfer, cell, written, scenario>>
    PROVE  JobInv'
<1> DEFINE l == active'[nextLease]
<1>1. /\ xfer' = xfer /\ cell' = cell /\ written' = written /\ scenario' = scenario
      /\ pc' = [pc EXCEPT ![w] = "request"]
      /\ held' = [held EXCEPT ![w] = [id |-> nextLease, generation |-> l.generation,
                                      start |-> l.start, end |-> l.end, next |-> l.next]]
  BY ONLY UNCHANGED <<xfer, cell, written, scenario>>, Hold(w), Goto(w, "request"), Zenon DEF Hold, Goto
<1>2. /\ nextLease' = nextLease + 1 /\ completed' = completed
      /\ DOMAIN active' = DOMAIN active \cup {nextLease} /\ l.next = l.start
      /\ \A i \in DOMAIN active : Kept(i) /\ active'[i].next = active[i].next
  BY ONLY Taken(w), Zenon DEF Taken
<1>3. Types /\ WorkerSound(w) /\ LeasesHeld
  BY ONLY JobInv, w \in Workers, Zenon DEF JobInv
<1>4. /\ nextLease \in Nat /\ 0 < nextLease /\ nextLease \notin DOMAIN active
      /\ l.generation \in Nat /\ l.start \in Nat /\ l.end \in Nat /\ l.next \in Nat
      /\ l.start <= l.end /\ l.end < TotalSize
  <2>1. nextLease \in DOMAIN active'
    BY ONLY <1>2, Zenon
  <2>2. /\ 0 < nextLease /\ l \in [generation : Nat, start : Nat, end : Nat, next : Nat]
        /\ l.start <= l.end /\ l.end < TotalSize
    BY ONLY LeasesOK', <2>1, Zenon DEF LeasesOK
  <2>3. nextLease \in Nat /\ nextLease \notin DOMAIN active
    BY ONLY LeasesOK DEF LeasesOK
  <2> QED BY ONLY <2>2, <2>3, Zenon
<1> HIDE DEF l
<1>5. Types'
  <2>1. held' \in [Workers -> [id : Nat, generation : Nat, start : Nat, end : Nat, next : Nat]]
    BY ONLY <1>1, <1>3, <1>4, Zenon DEF Types
  <2>2. pc' \in [Workers -> WorkerStates]
    BY ONLY <1>1, <1>3, Zenon DEF Types, WorkerStates
  <2> QED BY ONLY <1>1, <1>3, <2>1, <2>2, Zenon DEF Types
<1>6. /\ held'[w] = [id |-> nextLease, generation |-> l.generation,
                     start |-> l.start, end |-> l.end, next |-> l.next]
      /\ pc'[w] = "request"
      /\ \A v \in Workers \ {w} : held'[v] = held[v] /\ pc'[v] = pc[v]
  BY ONLY <1>1, <1>3, w \in Workers, Zenon DEF Types
<1>7. held[w] = NoLease /\ cell[w].lease = 0
  BY ONLY SMTT(30), <1>3, pc[w] \in {"acquire", "split"}
     DEF WorkerSound, CellSound, NoLease, Busy, Receiving, Finishing
<1>8. \A v \in Workers : held[v].id \in Nat /\ held[v].id < nextLease
  <2>1. ASSUME NEW v \in Workers PROVE held[v].id \in Nat /\ held[v].id < nextLease
    <3>1. WorkerSound(v)
      BY ONLY JobInv, Zenon DEF JobInv
    <3> QED BY ONLY <3>1, <1>3, <1>4, SMTT(60) DEF Types, WorkerSound, HasLease, NoLease
  <2> QED BY ONLY <2>1, Zenon
<1>9. LeasesHeld'
  <2>1. \A i \in DOMAIN active' : \E v \in Workers : held'[v].id = i
    <3>1. ASSUME NEW i \in DOMAIN active PROVE \E v \in Workers : held'[v].id = i
      <4>1. PICK v \in Workers : held[v].id = i
        BY ONLY <1>3, i \in DOMAIN active, Zenon DEF LeasesHeld
      <4>2. v # w
        <5>1. 0 < i /\ i \in Nat
          BY ONLY LeasesOK, i \in DOMAIN active, Zenon DEF LeasesOK
        <5> QED BY ONLY <5>1, <4>1, <1>7 DEF NoLease
      <4> QED BY ONLY <4>1, <4>2, <1>6, Zenon
    <3> QED BY ONLY <1>2, <1>6, <3>1, w \in Workers, SMTT(30)
  <2>2. \A x, v \in Workers : x # v /\ held'[x].id # 0 => held'[x].id # held'[v].id
    BY ONLY <1>3, <1>4, <1>6, <1>8, SMTT(90) DEF LeasesHeld
  <2> QED BY ONLY <2>1, <2>2, Zenon DEF LeasesHeld
<1>10. Aside(w)
  <2>1. ASSUME NEW v \in Workers \ {w} PROVE Same(v) /\ Kept(held[v].id)
    <3>1. Kept(held[v].id)
      <4>1. CASE held[v].id \in DOMAIN active
        BY ONLY <1>2, <4>1, Zenon
      <4>2. CASE held[v].id \notin DOMAIN active
        <5>1. held[v].id # nextLease
          BY ONLY <1>4, <1>8, SMTT(30)
        <5> QED BY ONLY <5>1, <1>2, <4>2, Zenon DEF Kept
      <4> QED BY ONLY <4>1, <4>2, Zenon
    <3> QED BY ONLY <1>1, <1>6, <3>1, Zenon DEF Same
  <2>2. nextLease <= nextLease'
    BY ONLY <1>2, <1>4, SMTT(30)
  <2> QED BY ONLY <1>1, <2>1, <2>2, Zenon DEF Aside
<1>11. WorkerSound(w)'
  <2>1. HasLease(w)'
    BY ONLY <1>2, <1>4, <1>6, SMTT(30) DEF HasLease, l
  <2>2. CellSound(w)'
    BY ONLY <1>1, <1>6, <1>7, Zenon DEF CellSound
  <2>3. FinishSound(w)'
    BY ONLY <1>6, Zenon DEF FinishSound, Receiving, Finishing
  <2> QED BY ONLY <1>6, <2>1, <2>2, <2>3, ZenonT(30) DEF WorkerSound, Busy, Receiving, Finishing
<1>12. ASSUME Whole PROVE SettledWritten'
  <2>1. completed \subseteq written /\ \A i \in DOMAIN active : active[i].start .. active[i].next - 1 \subseteq written
    BY ONLY JobInv, <1>12, SettledIs, Zenon DEF JobInv
  <2>2. ASSUME NEW i \in DOMAIN active'
        PROVE  active'[i].start .. active'[i].next - 1 \subseteq written
    <3>1. CASE i = nextLease
      BY ONLY <3>1, <1>2, <1>4 DEF l
    <3>2. CASE i # nextLease
      <4>1. i \in DOMAIN active /\ active'[i].next = active[i].next /\ Kept(i)
        BY ONLY <1>2, <3>2, i \in DOMAIN active', Zenon
      <4>2. active'[i].start = active[i].start
        BY ONLY <4>1, i \in DOMAIN active', Zenon DEF Kept
      <4> QED BY ONLY <2>1, <4>1, <4>2, Zenon
    <3> QED BY ONLY <3>1, <3>2, Zenon
  <2> QED BY ONLY <1>1, <1>2, <2>1, <2>2, SettledIsNext, Zenon
<1> QED BY ONLY LeasesOK, LeasesOK', JobInv, w \in Workers, <1>5, <1>9, <1>10, <1>11, <1>12, WorkerStep, Zenon

(* Looking for a lease keeps the invariant. *)
LEMMA AcquireInv ==
    ASSUME LeasesOK, LeasesOK', JobInv, NEW w \in Workers, AcquireLease(w)
    PROVE  JobInv'
<1>1. pc[w] = "acquire" /\ UNCHANGED <<xfer, cell, written, scenario>>
  BY ONLY AcquireLease(w), Zenon DEF AcquireLease, env, ioVars, ctlVars
<1>2. CASE Acquire /\ Hold(w) /\ Goto(w, "request")
  <2>1. Taken(w)
    BY ONLY LeasesOK, w \in Workers, <1>2, AcquireTakes, Zenon
  <2> QED BY ONLY LeasesOK, LeasesOK', JobInv, w \in Workers, <1>1, <1>2, <2>1, TakeStep, Zenon
<1>3. CASE Goto(w, "noWork") /\ UNCHANGED <<schedVars, held>>
  <2>1. MoveTo(w, "noWork") /\ Plain(pc[w], "noWork") /\ "noWork" \notin Finishing
    BY ONLY <1>1, <1>3, Zenon DEF MoveTo, Goto, Plain, Busy, Receiving, Finishing, WorkerStates
  <2> QED BY ONLY LeasesOK, LeasesOK', JobInv, w \in Workers, <2>1, MoveStep, Zenon
<1> QED BY ONLY AcquireLease(w), <1>2, <1>3, Zenon DEF AcquireLease

(* So does stealing the tail of another one. *)
LEMMA SplitInv ==
    ASSUME LeasesOK, LeasesOK', JobInv, NEW w \in Workers, Split(w)
    PROVE  JobInv'
<1>1. pc[w] = "split" /\ UNCHANGED <<xfer, cell, written, scenario>>
  BY ONLY Split(w), Zenon DEF Split, env, ioVars, ctlVars
<1>2. ASSUME NEW i \in LargestSplittable(SplitThreshold),
             SplitTail(i, active[i].generation, SplitThreshold, ReceivedThrough(i)),
             Hold(w), Goto(w, "request")
      PROVE  JobInv'
  <2>1. i \in DOMAIN active
    BY ONLY <1>2, Zenon DEF LargestSplittable
  <2>2. ReceivedThrough(i) \in Nat
    BY ONLY JobInv, LeasesOK, <2>1, ReceivedNat, Zenon
  <2>3. SplitThreshold \in Nat
    BY ONLY SizeAssumption, PolicyAssumption, BoundAssumption, Zenon
  <2>4. Taken(w)
    BY ONLY LeasesOK, w \in Workers, <1>2, <2>2, <2>3, SplitTakes, Zenon
  <2> QED BY ONLY LeasesOK, LeasesOK', JobInv, w \in Workers, <1>1, <1>2, <2>4, TakeStep, Zenon
<1>3. ASSUME Goto(w, "parked"), UNCHANGED <<schedVars, held, unseen>>
      PROVE  JobInv'
  <2>1. MoveTo(w, "parked") /\ Plain(pc[w], "parked") /\ "parked" \notin Finishing
    BY ONLY <1>1, <1>3, Zenon DEF MoveTo, Goto, Plain, Busy, Receiving, Finishing, WorkerStates
  <2> QED BY ONLY LeasesOK, LeasesOK', JobInv, w \in Workers, <2>1, MoveStep, Zenon
<1> QED BY ONLY Split(w), <1>2, <1>3, Zenon DEF Split

-----------------------------------------------------------------------------
(* Giving a lease up. *)

(* Giving up a lease, one way or the other, keeps the invariant. *)
LEMMA LeaveStep ==
    ASSUME JobInv, LeasesOK, LeasesOK', NEW w \in Workers, NEW to \in WorkerStates \ Busy, Gone(w),
           Drop(w), Goto(w, to), UNCHANGED <<written, scenario>>,
           ClearCell(w) \/ (cell' = cell /\ cell[w].lease = 0)
    PROVE  JobInv'
<1>1. /\ written' = written /\ scenario' = scenario /\ pc' = [pc EXCEPT ![w] = to]
      /\ held' = [held EXCEPT ![w] = NoLease] /\ xfer' = [xfer EXCEPT ![w] = NoXfer]
      /\ nextLease' = nextLease /\ DOMAIN active' \subseteq DOMAIN active \ {held[w].id}
      /\ \A i \in DOMAIN active' : active'[i] = active[i]
  BY ONLY UNCHANGED <<written, scenario>>, Drop(w), Goto(w, to), Gone(w), Zenon DEF Drop, Goto, Gone
<1>2. Types /\ WorkerSound(w) /\ LeasesHeld
  BY ONLY JobInv, w \in Workers, Zenon DEF JobInv
<1>3. /\ cell'[w].lease = 0 /\ \A v \in Workers \ {w} : cell'[v] = cell[v]
      /\ cell' \in [Workers -> [lease : Nat, generation : Nat, written : Nat, received : Nat]]
  <2>1. CASE ClearCell(w)
    BY ONLY <1>2, <2>1, w \in Workers, Zenon DEF Types, ClearCell, NoCell
  <2>2. CASE cell' = cell /\ cell[w].lease = 0
    BY ONLY <1>2, <2>2, w \in Workers, Zenon DEF Types
  <2> QED BY ONLY <2>1, <2>2, ClearCell(w) \/ (cell' = cell /\ cell[w].lease = 0), Zenon
<1>4. Types'
  <2>1. held' \in [Workers -> [id : Nat, generation : Nat, start : Nat, end : Nat, next : Nat]]
    BY ONLY <1>1, <1>2, Zenon DEF Types, NoLease
  <2>2. xfer' \in [Workers -> [from : Nat, pos : Nat, last : Nat, eff : Nat, len : Nat, cut : BOOLEAN]]
    BY ONLY <1>1, <1>2, Zenon DEF Types, NoXfer
  <2>3. pc' \in [Workers -> WorkerStates]
    BY ONLY <1>1, <1>2, to \in WorkerStates \ Busy, Zenon DEF Types
  <2> QED BY ONLY <1>1, <1>2, <1>3, <2>1, <2>2, <2>3 DEF Types
<1>5. /\ held'[w] = NoLease /\ pc'[w] = to
      /\ \A v \in Workers \ {w} : held'[v] = held[v] /\ pc'[v] = pc[v] /\ xfer'[v] = xfer[v]
  BY ONLY <1>1, <1>2, w \in Workers, Zenon DEF Types
<1>6. LeasesHeld'
  <2>1. ASSUME NEW i \in DOMAIN active' PROVE \E v \in Workers : held'[v].id = i
    <3>1. PICK v \in Workers : held[v].id = i
      BY ONLY <1>1, <1>2, i \in DOMAIN active', Zenon DEF LeasesHeld
    <3>2. v # w
      BY ONLY <1>1, <3>1, i \in DOMAIN active', Zenon
    <3> QED BY ONLY <1>5, <3>1, <3>2, Zenon
  <2>2. \A x, v \in Workers : x # v /\ held'[x].id # 0 => held'[x].id # held'[v].id
    BY ONLY <1>2, <1>5, SMTT(30) DEF LeasesHeld, NoLease
  <2> QED BY ONLY <2>1, <2>2, Zenon DEF LeasesHeld
<1>7. Aside(w)
  <2>1. ASSUME NEW v \in Workers \ {w} PROVE Same(v) /\ Kept(held[v].id)
    <3>1. ASSUME held[v].id \in DOMAIN active'
          PROVE  held[v].id \in DOMAIN active /\ active'[held[v].id] = active[held[v].id]
                 /\ active[held[v].id].end \in Nat
      BY ONLY <1>1, <3>1, LeasesOK, Zenon DEF LeasesOK
    <3>2. Kept(held[v].id)
      BY ONLY <3>1, SMTT(30) DEF Kept
    <3> QED BY ONLY <1>3, <1>5, <3>2, ZenonT(30) DEF Same
  <2>2. nextLease <= nextLease'
    BY ONLY <1>1, LeasesOK, SMTT(30) DEF LeasesOK
  <2> QED BY ONLY <1>1, <2>1, <2>2, Zenon DEF Aside
<1>8. WorkerSound(w)'
  <2>1. CellSound(w)'
    BY ONLY <1>3, <1>5, Zenon DEF CellSound
  <2>2. FinishSound(w)'
    BY ONLY <1>5, to \in WorkerStates \ Busy, Zenon DEF FinishSound, Busy
  <2> QED BY ONLY <1>5, <2>1, <2>2, to \in WorkerStates \ Busy, ZenonT(30) DEF WorkerSound, Busy, NoLease
<1>9. ASSUME Whole PROVE SettledWritten'
  <2>1. \A i \in DOMAIN active : active[i].start .. active[i].next - 1 \subseteq written
    BY ONLY JobInv, <1>9, SettledIs, Zenon DEF JobInv
  <2>2. completed' \subseteq written
    BY ONLY Gone(w), <1>9, Zenon DEF Gone
  <2> QED BY ONLY <1>1, <2>1, <2>2, SettledIsNext, Zenon
<1> QED BY ONLY LeasesOK, LeasesOK', JobInv, w \in Workers, <1>4, <1>6, <1>7, <1>8, <1>9, WorkerStep

(* So completing it keeps the invariant. *)
LEMMA CompleteInv ==
    ASSUME LeasesOK, LeasesOK', JobInv, NEW w \in Workers, CompleteLease(w)
    PROVE  JobInv'
<1>1. /\ pc[w] = "complete" /\ Goto(w, "top") /\ Drop(w) /\ ClearCell(w)
      /\ UNCHANGED <<written, scenario>>
  BY ONLY CompleteLease(w), Zenon DEF CompleteLease, At, env, ioVars, ctlVars
<1>2. "top" \in WorkerStates \ Busy
  BY ONLY Zenon DEF Finishing, Busy, Receiving, WorkerStates
<1>3. Gone(w)
  BY ONLY LeasesOK, JobInv, w \in Workers, CompleteLease(w), CompleteGone, Zenon
<1> QED BY ONLY LeasesOK, LeasesOK', JobInv, w \in Workers, <1>1, <1>2, <1>3, LeaveStep, Zenon

(* Requeueing the tail for a retry keeps the invariant. *)
LEMMA RequeueInv ==
    ASSUME LeasesOK, LeasesOK', JobInv, NEW w \in Workers, Requeue(w)
    PROVE  JobInv'
<1> DEFINE to == IF attempt[w] < MaxAttempts THEN "backoff" ELSE "giveUp"
<1>1. /\ pc[w] = "requeue" /\ Goto(w, to) /\ GiveBackLease(w) /\ UNCHANGED <<written, scenario>>
  BY ONLY Requeue(w), Zenon DEF Requeue, At, env, ioVars, ctlVars
<1>2. pc[w] \in Busy /\ to \in WorkerStates \ Busy
  BY ONLY <1>1, Zenon DEF Busy, Receiving, Finishing, WorkerStates
<1> HIDE DEF to
<1>3. Drop(w) /\ ClearCell(w)
  BY ONLY <1>1, Zenon DEF GiveBackLease
<1>4. Gone(w)
  BY ONLY JobInv, LeasesOK, w \in Workers, <1>1, <1>2, GiveBackGone, Zenon
<1> QED BY ONLY LeasesOK, LeasesOK', JobInv, w \in Workers, <1>1, <1>2, <1>3, <1>4, LeaveStep, Zenon

(* So does abandoning the lease on a fatal error. *)
LEMMA AbandonInv ==
    ASSUME LeasesOK, LeasesOK', JobInv, NEW w \in Workers, Abandon(w)
    PROVE  JobInv'
<1>1. /\ pc[w] = "abandon" /\ Goto(w, "install") /\ GiveBackLease(w) /\ UNCHANGED <<written, scenario>>
  BY ONLY Abandon(w), Zenon DEF Abandon, At, env, ioVars, ctlVars
<1>2. pc[w] \in Busy /\ "install" \in WorkerStates \ Busy
  BY ONLY <1>1, Zenon DEF Busy, Receiving, Finishing, WorkerStates
<1>3. Drop(w) /\ ClearCell(w)
  BY ONLY <1>1, Zenon DEF GiveBackLease
<1>4. Gone(w)
  BY ONLY JobInv, LeasesOK, w \in Workers, <1>1, <1>2, GiveBackGone, Zenon
<1> QED BY ONLY LeasesOK, LeasesOK', JobInv, w \in Workers, <1>1, <1>2, <1>3, <1>4, LeaveStep, Zenon

(* So it keeps the invariant. *)
LEMMA BumpInv ==
    ASSUME LeasesOK, LeasesOK', JobInv, NEW w \in Workers, Bump(w)
    PROVE  JobInv'
<1>1. /\ pc[w] = "bump" /\ Goto(w, "install") /\ Drop(w)
      /\ UNCHANGED <<written, scenario>> /\ cell' = cell
  BY ONLY Bump(w), Zenon DEF Bump, At, env, ioVars, ctlVars
<1>2. "install" \in WorkerStates \ Busy
  BY ONLY Zenon DEF Busy, Receiving, Finishing, WorkerStates
<1>3. cell[w].lease = 0
  BY ONLY JobInv, w \in Workers, <1>1, Zenon DEF JobInv, WorkerSound, CellSound
<1>4. Gone(w)
  BY ONLY JobInv, LeasesOK, w \in Workers, Bump(w), BumpGone, SMTT(30)
<1> QED BY ONLY LeasesOK, LeasesOK', JobInv, w \in Workers, <1>1, <1>2, <1>3, <1>4, LeaveStep, Zenon

(* The final acknowledgement moves the frontier to the end of the lease, which
   is written. *)
LEMMA FinalAckInv ==
    ASSUME LeasesOK, LeasesOK', JobInv, NEW w \in Workers, FinalAck(w)
    PROVE  JobInv'
<1>1. /\ pc[w] = "ack" /\ pc' = [pc EXCEPT ![w] = "settle"] /\ cell' = [cell EXCEPT ![w] = NoCell]
      /\ held' = held /\ xfer' = xfer /\ written' = written /\ scenario' = scenario
      /\ OnLease(w, ReportProgress(held[w].id, held[w].generation, xfer[w].last + 1))
  BY ONLY FinalAck(w), ZenonT(30) DEF FinalAck, At, Goto, ClearCell, local, env, ioVars, ctlVars
<1>2. pc[w] \in Finishing /\ pc[w] \in Busy
  BY ONLY <1>1, Zenon DEF Finishing, Busy
<1>3. Types /\ WorkerSound(w) /\ LeasesHeld /\ HasLease(w)
  BY ONLY JobInv, w \in Workers, <1>2, Zenon DEF JobInv, WorkerSound
<1>4. /\ pc'[w] = "settle" /\ cell'[w] = NoCell
      /\ \A v \in Workers \ {w} : pc'[v] = pc[v] /\ cell'[v] = cell[v]
  BY ONLY <1>1, <1>3, w \in Workers DEF Types
<1>5. Types'
  BY ONLY <1>1, <1>3, Zenon DEF Types, NoCell, WorkerStates
<1>6. /\ Absorbed
      /\ \A i \in DOMAIN active : i # held[w].id => active'[i] = active[i]
      /\ held[w].id \in DOMAIN active => active'[held[w].id].next <= active[held[w].id].end + 1
  BY ONLY LeasesOK, LeasesOK', JobInv, w \in Workers, FinalAck(w), FinalAckIs, Zenon
<1>7. LeasesHeld'
  BY ONLY <1>1, <1>3, <1>6, ZenonT(30) DEF LeasesHeld, Absorbed
<1>8. Aside(w)
  <2>1. ASSUME NEW v \in Workers \ {w} PROVE Same(v) /\ Kept(held[v].id)
    <3>1. ASSUME held[v].id \in DOMAIN active PROVE active[held[v].id].end \in Nat
      BY ONLY <3>1, LeasesOK, Zenon DEF LeasesOK
    <3>2. Same(v)
      BY ONLY <1>1, <1>4, v \in Workers \ {w}, Zenon DEF Same
    <3>3. ASSUME NEW i \in DOMAIN active, active[i].end \in Nat PROVE Kept(i)
      BY ONLY <1>6, <3>3 DEF Kept, Absorbed
    <3>4. ASSUME NEW i, i \notin DOMAIN active PROVE Kept(i)
      BY ONLY <1>6, <3>4, Zenon DEF Kept, Absorbed
    <3> QED BY ONLY <3>1, <3>2, <3>3, <3>4, Zenon
  <2>2. nextLease <= nextLease'
    BY ONLY LeasesOK, <1>6, SMTT(30) DEF LeasesOK, Absorbed
  <2> QED BY ONLY <1>1, <2>1, <2>2, Zenon DEF Aside
<1>9. WorkerSound(w)'
  <2>1. HasLease(w)'
    <3>1. held' = held /\ nextLease' = nextLease /\ DOMAIN active' = DOMAIN active
      BY ONLY <1>1, <1>6, ZenonT(30) DEF Absorbed
    <3>2. ASSUME held[w].id \in DOMAIN active
          PROVE  /\ active'[held[w].id].generation = active[held[w].id].generation
                 /\ active'[held[w].id].start = active[held[w].id].start
                 /\ active'[held[w].id].end = active[held[w].id].end
      BY ONLY <1>6, <3>2, Zenon DEF Absorbed
    <3> QED BY ONLY <1>3, <3>1, <3>2, Zenon DEF HasLease
  <2>2. FinishSound(w) => FinishSound(w)'
    BY ONLY <1>1, <1>2, <1>4, <1>6, Zenon DEF FinishSound, Absorbed, Finishing, Receiving
  <2>3. CellSound(w)'
    BY ONLY <1>4 DEF CellSound, NoCell
  <2>4. Whole' = Whole
    BY ONLY <1>1, Zenon DEF Whole, Env
  <2> QED BY ONLY <1>3, <1>4, <2>1, <2>2, <2>3, <2>4, Zenon DEF WorkerSound, Busy, Receiving, Finishing
<1>10. ASSUME Whole PROVE SettledWritten'
  <2>1. completed \subseteq written /\ \A i \in DOMAIN active : active[i].start .. active[i].next - 1 \subseteq written
    BY ONLY JobInv, <1>10, SettledIs, Zenon DEF JobInv
  <2>2. ASSUME NEW i \in DOMAIN active', i = held[w].id
        PROVE  active'[i].start .. active'[i].next - 1 \subseteq written
    <3>1. i \in DOMAIN active /\ active'[i].start = active[i].start
      BY ONLY <1>6, i \in DOMAIN active', Zenon DEF Absorbed
    <3>2. active[i].start = held[w].start
      BY ONLY <1>3, <2>2, <3>1, Zenon DEF HasLease
    <3>3. held[w].start .. active[i].end \subseteq written
      BY ONLY <1>2, <1>3, <1>10, <2>2, <3>1, SMTT(30) DEF WorkerSound, FinishSound
    <3>4. active[i].end \in Nat /\ active'[i].next \in Nat /\ held[w].start \in Nat
      BY ONLY LeasesOK, LeasesOK', <3>1, i \in DOMAIN active', <1>3, w \in Workers, Zenon DEF LeasesOK, Types
    <3>5. active'[i].next <= active[i].end + 1
      BY ONLY <1>6, <2>2, <3>1, Zenon
    <3>6. held[w].start .. active'[i].next - 1 \subseteq held[w].start .. active[i].end
      BY ONLY <3>4, <3>5
    <3> QED BY ONLY <3>1, <3>2, <3>3, <3>6
  <2>3. ASSUME NEW i \in DOMAIN active', i # held[w].id
        PROVE  active'[i].start .. active'[i].next - 1 \subseteq written
    BY ONLY <1>6, <2>1, <2>3, Zenon DEF Absorbed
  <2> QED BY ONLY <1>1, <1>6, <2>1, <2>2, <2>3, SettledIsNext, Zenon DEF Absorbed
<1> QED BY ONLY LeasesOK, LeasesOK', JobInv, w \in Workers, <1>5, <1>7, <1>8, <1>9, <1>10, WorkerStep, Zenon

-----------------------------------------------------------------------------
(* Every step keeps JobInv. *)

(* A step that concerns no worker's lease keeps the invariant. *)
LEMMA IdleStep ==
    ASSUME JobInv, LeasesOK, LeasesOK', UNCHANGED <<schedVars, pc, held, xfer, cell, written, scenario>>
    PROVE  JobInv'
<1>1. /\ active' = active /\ completed' = completed /\ nextLease' = nextLease /\ pc' = pc /\ held' = held
      /\ xfer' = xfer /\ cell' = cell /\ written' = written /\ scenario' = scenario
  BY ONLY UNCHANGED <<schedVars, pc, held, xfer, cell, written, scenario>>, Zenon DEF schedVars
<1>2. Types'
  BY ONLY JobInv, <1>1, Zenon DEF JobInv, Types
<1>3. ASSUME NEW w \in Workers PROVE WorkerSound(w)'
  <2>1. WorkerSound(w)
    BY ONLY JobInv, w \in Workers, Zenon DEF JobInv
  <2> QED BY ONLY ZenonT(30), <1>1, <2>1
          DEF WorkerSound, HasLease, CellSound, ResponseSound, FinishSound, Whole, Env, NoLease
<1>4. LeasesHeld'
  BY ONLY JobInv, <1>1, Zenon DEF JobInv, LeasesHeld
<1>5. Whole' => SettledWritten'
  BY ONLY JobInv, <1>1, SettledIs, SettledIsNext, Zenon DEF JobInv, Whole, Env
<1> QED BY ONLY <1>2, <1>3, <1>4, <1>5, Zenon DEF JobInv

(* The coordinator absorbs the cells and disturbs no worker. *)
LEMMA SnapshotInv ==
    ASSUME LeasesOK, LeasesOK', JobInv, NEW for, Snapshot(for)
    PROVE  JobInv'
<1>1. Reconcile /\ UNCHANGED <<held, xfer, cell, written, scenario>> /\ pc' = pc
  BY ONLY Snapshot(for), Zenon DEF Snapshot, AbsorbAndNotify, local, ioVars, ctlVars
<1>2. 0 \in Workers
  BY ONLY JobAssumption DEF Workers
<1>3. pc' = [pc EXCEPT ![0] = pc[0]]
  BY ONLY JobInv, <1>1, <1>2, Zenon DEF JobInv, Types
<1>4. Onward(pc[0], pc[0])
  BY ONLY Zenon DEF Onward
<1> QED BY ONLY LeasesOK, LeasesOK', JobInv, <1>1, <1>2, <1>3, <1>4, ReconcileStep, ZenonT(30)

(* What a worker does at the end of its attempt. *)
LEMMA SettlingInv ==
    ASSUME LeasesOK, LeasesOK', JobInv, NEW w \in Workers, Settling(w)
    PROVE  JobInv'
<1>1. ASSUME NEW from, NEW to, ReconcileFrom(w, from, to), Onward(from, to) PROVE JobInv'
  <2>1. /\ pc[w] = from /\ pc' = [pc EXCEPT ![w] = to] /\ Reconcile
        /\ UNCHANGED <<held, xfer, cell, written, scenario>>
    BY ONLY <1>1, Zenon DEF ReconcileFrom, At, Goto, local, env, ioVars, ctlVars
  <2>2. Onward(pc[w], to)
    BY ONLY <1>1, <2>1, Zenon
  <2> QED BY ONLY LeasesOK, LeasesOK', JobInv, w \in Workers, <2>1, <2>2, ReconcileStep, Zenon
<1>2. Onward("done", "ack") /\ Onward("settle", "complete") /\ Onward("retry", "requeue")
      /\ Onward("fail", "abandon")
  BY ONLY Zenon DEF Onward
<1>3. InstallFatal(w) \/ GiveUp(w) \/ BackoffEnds(w) => JobInv'
  BY ONLY LeasesOK, LeasesOK', JobInv, w \in Workers, MovesInv DEF Moves
<1> QED BY ONLY LeasesOK, LeasesOK', JobInv, w \in Workers, Settling(w), <1>1, <1>2, <1>3,
               FinalAckInv, CompleteInv, RequeueInv, AbandonInv, BumpInv, Zenon DEF Settling

(* Every step of a worker keeps the invariant. *)
LEMMA WorkInv ==
    ASSUME LeasesOK, LeasesOK', JobInv, NEW w \in Workers, Work(w)
    PROVE  JobInv'
<1>1. CASE Moves(w)
  BY ONLY LeasesOK, LeasesOK', JobInv, w \in Workers, <1>1, MovesInv
<1> QED BY ONLY LeasesOK, LeasesOK', JobInv, w \in Workers, Work(w), <1>1, AcquireInv, SplitInv,
               RespondInv, ReadDataInv, ReadWakesInv, WriteInv, SettlingInv, Zenon
        DEF Work, Moves, Progress, Arrives

(* Every step of the job keeps its invariant, as long as the scheduler keeps
   its own. *)
LEMMA JobNext ==
    ASSUME LeasesOK, LeasesOK', JobInv, [Next]_vars
    PROVE  JobInv'
<1>1. CASE UNCHANGED vars
  <2>1. UNCHANGED <<schedVars, pc, held, xfer, cell, written, scenario>>
    BY ONLY <1>1 DEF vars, local, env, ioVars, ctlVars
  <2> QED BY ONLY LeasesOK, LeasesOK', JobInv, <2>1, IdleStep, Zenon
<1>2. ASSUME NEW w \in Workers, Work(w) PROVE JobInv'
  BY ONLY LeasesOK, LeasesOK', JobInv, <1>2, WorkInv, Zenon
<1>3. ASSUME NEW for, Snapshot(for) PROVE JobInv'
  BY ONLY LeasesOK, LeasesOK', JobInv, <1>3, SnapshotInv, Zenon
<1>4. CASE Aloof
  <2>1. UNCHANGED <<schedVars, pc, held, xfer, cell, written, scenario>>
    BY ONLY <1>4, AloofIs, Zenon
  <2> QED BY ONLY LeasesOK, LeasesOK', JobInv, <2>1, IdleStep, Zenon
<1> QED BY ONLY [Next]_vars, <1>1, <1>2, <1>3, <1>4, NextCases, Zenon

(* It holds at the start: nobody has a lease, and what was resumed is written. *)
LEMMA JobInit ==
    ASSUME Init
    PROVE  JobInv
<1>1. /\ scenario \in Scenario /\ active = [i \in {} |-> 0] /\ completed = Resumed \cap Bytes
      /\ pc = [w \in Workers |-> "top"] /\ held = [w \in Workers |-> NoLease]
      /\ xfer = [w \in Workers |-> NoXfer] /\ cell = [w \in Workers |-> NoCell] /\ written = Resumed
  BY ONLY Init, JobAssumption, Zenon DEF Init, InitWith, NoLeases
<1>2. Types
  BY ONLY <1>1, Zenon DEF Types, NoLease, NoXfer, NoCell, WorkerStates, Resumed, Scenario, Bytes
<1>3. ASSUME NEW w \in Workers PROVE WorkerSound(w)
  BY ONLY <1>1, <1>3, Zenon DEF WorkerSound, CellSound, FinishSound, NoCell, NoLease, Busy, Receiving, Finishing
<1>4. LeasesHeld
  BY ONLY <1>1, Zenon DEF LeasesHeld, NoLease
<1>5. SettledWritten
  BY ONLY <1>1, SettledIs, Zenon
<1> QED BY ONLY <1>2, <1>3, <1>4, <1>5, Zenon DEF JobInv
=============================================================================
