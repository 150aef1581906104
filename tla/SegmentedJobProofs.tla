------------------------- MODULE SegmentedJobProofs -------------------------
(* Proofs about SegmentedJob, last part, for every number of workers and every
   scenario: the scheduler inside the job implements its own specification, and
   the inductive invariant IInv, which joins the scheduler's accounting with
   what each worker knows of its lease, what a save has in hand, what a pause is
   waiting for and why the workers have left, implies the safety properties of
   the job. *)
EXTENDS JobPauseProofs, SchedulerProofs

-----------------------------------------------------------------------------
(* The checkpoint. *)

(* However a save ends, the coordinator is idle or has stopped. *)
LEMMA SaveEndsIs ==
    ASSUME NEW for, NEW ok \in BOOLEAN, SaveEnds(for, ok)
    PROVE  coord' = CoordTo("idle") \/ coord' = CoordTo("stopped")
BY ONLY SaveEnds(for, ok), Zenon DEF SaveEnds

(* A step without a save in it keeps SaveInv. *)
LEMMA SaveKept ==
    ASSUME Step, SaveInv, UNCHANGED <<checkpoint, saved, scenario>>,
           synced \subseteq synced', synced' \subseteq written',
           coord' = coord \/ coord' = CoordTo("idle") \/ coord' = CoordTo("stopped")
    PROVE  SaveInv'
<1>1. /\ checkpoint' = checkpoint /\ saved' = saved /\ scenario' = scenario
      /\ Whole' = Whole /\ Durable' = Durable
  BY ONLY UNCHANGED <<checkpoint, saved, scenario>>, Zenon DEF Whole, Env, Durable
<1>2. Settled \subseteq Settled' /\ generation <= generation' /\ generation \in Nat /\ generation' \in Nat
  BY ONLY Step, GenerationGrows DEF Step, LeasesOK
<1>4. checkpoint' \subseteq Settled' /\ (saved' = NoSave \/ saved'.ranges = checkpoint')
  BY ONLY SaveInv, <1>1, <1>2 DEF SaveInv, NoSave
<1>5. Whole => CheckpointSound'
  <2>1. ASSUME Whole PROVE Settled' \subseteq written'
    BY ONLY Step, <1>1, <2>1 DEF Step, JobInv, SettledWritten
  <2> QED BY ONLY SaveInv, <1>1, <1>2, <1>4, <2>1, synced \subseteq synced', Zenon DEF SaveInv, CheckpointSound
<1>6. CASE coord' = coord
  <2>1. coord' \in [pc : {"idle", "fence", "store", "stopped"}, for : Workers \cup {Tick},
                    ranges : SUBSET Bytes, generation : Nat]
    BY ONLY SaveInv, <1>6 DEF SaveInv
  <2>2. Saving' => /\ checkpoint' \subseteq coord'.ranges /\ coord'.ranges \subseteq Settled'
                   /\ 1 <= coord'.generation /\ coord'.generation <= generation'
    BY ONLY SaveInv, <1>1, <1>2, <1>6 DEF SaveInv, Saving
  <2>3. Whole => (coord'.pc = "store" /\ Durable => coord'.ranges \subseteq synced')
    BY ONLY SaveInv, <1>6, synced \subseteq synced', Zenon DEF SaveInv
  <2> QED BY ONLY <1>1, <1>4, <1>5, <2>1, <2>2, <2>3, synced' \subseteq written', Zenon DEF SaveInv
<1>7. CASE coord' = CoordTo("idle") \/ coord' = CoordTo("stopped")
  <2>1. /\ coord' \in [pc : {"idle", "fence", "store", "stopped"}, for : Workers \cup {Tick},
                       ranges : SUBSET Bytes, generation : Nat]
        /\ coord'.pc \notin {"fence", "store"}
    BY ONLY <1>7 DEF CoordTo
  <2> QED BY ONLY <1>1, <1>4, <1>5, <2>1, synced' \subseteq written' DEF SaveInv, Saving
<1> QED BY ONLY <1>6, <1>7, coord' = coord \/ coord' = CoordTo("idle") \/ coord' = CoordTo("stopped")

(* The snapshot is what is settled after the cells are absorbed. *)
LEMMA SaveSnapshot ==
    ASSUME Step, SaveInv, NEW for \in queue \cup {Tick}, queue \subseteq Workers, Snapshot(for)
    PROVE  SaveInv'
<1>1. UNCHANGED <<checkpoint, saved, scenario>> /\ synced' = synced /\ written' = written
  BY ONLY Snapshot(for) DEF Snapshot, ioVars, ctlVars
<1>2. synced' \subseteq written' /\ synced \subseteq synced'
  BY ONLY SaveInv, <1>1, Zenon DEF SaveInv
<1>3. CASE SaveEnds(for, TRUE)
  BY ONLY Step, SaveInv, <1>1, <1>2, <1>3, SaveEndsIs, SaveKept, Zenon
<1>4. CASE coord' = [pc |-> "fence", for |-> for, ranges |-> Settled', generation |-> generation]
  <2>1. /\ checkpoint' = checkpoint /\ saved' = saved
        /\ Whole' = Whole /\ Durable' = Durable
    BY ONLY <1>1 DEF Whole, Env, Durable
  <2>2. /\ generation \in Nat /\ generation' \in Nat /\ 1 <= generation /\ generation <= generation'
        /\ Settled' \subseteq Bytes /\ Settled \subseteq Settled'
    <3>1. generation \in 1 .. MaxGeneration
      BY ONLY Step DEF Step, SchedInv, SchedulerTypeOK
    <3> QED BY ONLY Step, <3>1, BoundAssumption, GenerationGrows, SettledBytesNext DEF Step, LeasesOK
  <2>3. coord' \in [pc : {"idle", "fence", "store", "stopped"}, for : Workers \cup {Tick},
                    ranges : SUBSET Bytes, generation : Nat]
    BY ONLY <1>4, <2>2, for \in queue \cup {Tick}, queue \subseteq Workers, Zenon
  <2>4. /\ checkpoint' \subseteq Settled' /\ (saved' = NoSave \/ saved'.ranges = checkpoint')
        /\ (Whole => CheckpointSound')
    BY ONLY SaveInv, <1>1, <2>1, <2>2 DEF SaveInv, NoSave, CheckpointSound
  <2>5. coord'.pc = "fence" /\ coord'.ranges = Settled' /\ coord'.generation = generation
    BY ONLY <1>4
  <2> QED BY ONLY <1>2, <2>1, <2>2, <2>3, <2>4, <2>5 DEF SaveInv, Saving
<1> QED BY ONLY Snapshot(for), <1>3, <1>4, Zenon DEF Snapshot

(* The data sync covers the snapshot, because it covers all that is written. *)
LEMMA SaveFence ==
    ASSUME Step, SaveInv, Fence
    PROVE  SaveInv'
<1>1. /\ UNCHANGED <<checkpoint, saved, scenario>> /\ written' = written /\ UNCHANGED schedVars
      /\ coord.pc = "fence"
  BY ONLY Fence DEF Fence, ctlVars
<1>2. CASE SaveEnds(coord.for, TRUE) /\ UNCHANGED synced
  <2>1. synced' \subseteq written' /\ synced \subseteq synced'
    BY ONLY SaveInv, <1>1, <1>2 DEF SaveInv
  <2> QED BY ONLY Step, SaveInv, <1>1, <1>2, <2>1, SaveEndsIs, SaveKept, Zenon
<1>3. CASE coord' = [coord EXCEPT !.pc = "store"] /\ synced' = DataSync
  <2>1. /\ checkpoint' = checkpoint /\ saved' = saved
        /\ Whole' = Whole /\ Durable' = Durable /\ generation' = generation
    BY ONLY <1>1 DEF Whole, Env, Durable, schedVars
  <2>2. /\ synced \subseteq synced' /\ synced' \subseteq written' /\ (Durable => synced' = written)
    BY ONLY SaveInv, <1>1, <1>3, Zenon DEF SaveInv, DataSync
  <2>3. /\ coord' \in [pc : {"idle", "fence", "store", "stopped"}, for : Workers \cup {Tick},
                       ranges : SUBSET Bytes, generation : Nat]
        /\ coord'.pc = "store" /\ coord'.ranges = coord.ranges /\ coord'.generation = coord.generation
    BY ONLY SaveInv, <1>3 DEF SaveInv
  <2>4. /\ checkpoint \subseteq coord.ranges /\ coord.ranges \subseteq Settled
        /\ 1 <= coord.generation /\ coord.generation <= generation
    BY ONLY SaveInv, <1>1, Zenon DEF SaveInv, Saving
  <2>5. Settled \subseteq Settled' /\ (Whole => Settled \subseteq written)
    BY ONLY Step DEF Step, JobInv, SettledWritten
  <2>6. /\ checkpoint' \subseteq Settled' /\ (saved' = NoSave \/ saved'.ranges = checkpoint')
        /\ (Whole => CheckpointSound')
    BY ONLY SaveInv, <1>1, <2>1, <2>2, <2>5, Zenon DEF SaveInv, NoSave, CheckpointSound
  <2> QED BY ONLY <2>1, <2>2, <2>3, <2>4, <2>5, <2>6 DEF SaveInv, Saving
<1> QED BY ONLY Fence, <1>2, <1>3, Zenon DEF Fence

(* What is stored was synced, and covers what was stored before. *)
LEMMA SaveStore ==
    ASSUME Step, SaveInv, Store
    PROVE  SaveInv' /\ checkpoint \subseteq checkpoint'
<1>1. /\ scenario' = scenario /\ written' = written /\ synced' = synced /\ UNCHANGED schedVars
      /\ coord.pc = "store" /\ checkpoint' = coord.ranges
      /\ saved' = [ranges |-> coord.ranges, generation |-> coord.generation] /\ SaveEnds(coord.for, TRUE)
  BY ONLY Store, Zenon DEF Store, ctlVars
<1>2. Whole' = Whole /\ Durable' = Durable
  BY ONLY <1>1, Zenon DEF Whole, Env, Durable
<1>3. /\ coord' \in [pc : {"idle", "fence", "store", "stopped"}, for : Workers \cup {Tick},
                     ranges : SUBSET Bytes, generation : Nat]
      /\ coord'.pc \notin {"fence", "store"}
  <2>1. coord' = CoordTo("idle") \/ coord' = CoordTo("stopped")
    BY ONLY <1>1, SaveEndsIs, Zenon
  <2> QED BY ONLY <2>1 DEF CoordTo
<1>4. checkpoint \subseteq coord.ranges /\ coord.ranges \subseteq Settled /\ synced \subseteq written
      /\ (Whole /\ Durable => coord.ranges \subseteq synced)
  BY ONLY SaveInv, <1>1 DEF SaveInv, Saving
<1>5. Settled \subseteq Settled' /\ (Whole => Settled \subseteq written)
  BY ONLY Step, Zenon DEF Step, JobInv, SettledWritten
<1>6. Whole => CheckpointSound'
  BY ONLY <1>1, <1>2, <1>4, <1>5 DEF CheckpointSound
<1> QED BY ONLY <1>1, <1>2, <1>3, <1>4, <1>5, <1>6 DEF SaveInv, Saving

(* Every step keeps SaveInv. *)
LEMMA SaveNext ==
    ASSUME Step, SaveInv, PauseInv, [Next]_vars
    PROVE  SaveInv' /\ checkpoint \subseteq checkpoint'
<1>1. synced \subseteq written /\ queue \subseteq Workers
  BY ONLY SaveInv, PauseInv DEF SaveInv, PauseInv
<1>2. CASE UNCHANGED vars
  <2>1. UNCHANGED <<checkpoint, saved, scenario, coord, synced, written>>
    BY ONLY <1>2 DEF vars, env, ioVars, coordVars, ctlVars
  <2> QED BY ONLY Step, SaveInv, <1>1, <2>1, SaveKept, Zenon
<1>3. ASSUME NEW w \in Workers, Work(w) PROVE SaveInv' /\ checkpoint \subseteq checkpoint'
  <2>1. UNCHANGED <<checkpoint, saved, scenario, coord, synced>> /\ written \subseteq written'
    BY ONLY <1>3, WorkFrame
  <2> QED BY ONLY Step, SaveInv, <1>1, <2>1, SaveKept, Zenon
<1>4. ASSUME NEW for \in queue \cup {Tick}, Snapshot(for) PROVE SaveInv' /\ checkpoint \subseteq checkpoint'
  <2>1. checkpoint' = checkpoint
    BY ONLY <1>4 DEF Snapshot, ioVars
  <2> QED BY ONLY Step, SaveInv, <1>1, <1>4, <2>1, SaveSnapshot, Zenon
<1>5. CASE Fence
  <2>1. checkpoint' = checkpoint
    BY ONLY <1>5 DEF Fence
  <2> QED BY ONLY Step, SaveInv, <1>5, <2>1, SaveFence, Zenon
<1>6. CASE Store
  BY ONLY Step, SaveInv, <1>6, SaveStore, Zenon
<1>7. CASE SaveFails
  <2>1. UNCHANGED <<checkpoint, saved, scenario, synced, written>> /\ SaveEnds(coord.for, FALSE)
    BY ONLY <1>7, Zenon DEF SaveFails, ioVars, ctlVars
  <2> QED BY ONLY Step, SaveInv, <1>1, <2>1, SaveEndsIs, SaveKept, Zenon
<1>8. CASE RunSegmented \/ Cancel \/ TogglePause \/ SetDesired
  <2>1. /\ UNCHANGED <<checkpoint, saved, scenario, synced, written>>
        /\ coord' = coord \/ coord' = CoordTo("stopped")
    BY ONLY <1>8 DEF RunSegmented, JoinWorkers, StopCoordinator, Report, Cancel, TogglePause, SetDesired,
                     ioVars, coordVars, ctlVars
  <2> QED BY ONLY Step, SaveInv, <1>1, <2>1, SaveKept, Zenon
<1> QED BY ONLY [Next]_vars, <1>2, <1>3, <1>4, <1>5, <1>6, <1>7, <1>8, NextCases, Zenon DEF Aloof

(* SaveInv holds at the start. *)
LEMMA SaveInit ==
    ASSUME Init
    PROVE  SaveInv
<1>1. /\ scenario \in Scenario /\ completed = Resumed \cap Bytes
      /\ written = Resumed /\ synced = Resumed /\ checkpoint = Resumed /\ saved = NoSave
      /\ coord = [pc |-> "idle", for |-> Tick, ranges |-> {}, generation |-> 0]
  BY ONLY Init, JobAssumption, Zenon DEF Init, InitWith
<1>2. Resumed \subseteq Settled
  BY ONLY <1>1, Zenon DEF Settled, Resumed, Scenario, Bytes
<1> QED BY ONLY <1>1, <1>2, Zenon DEF SaveInv, Saving, CheckpointSound

-----------------------------------------------------------------------------
(* The outcome. *)

(* The places a worker reaches with an error to install. *)
Erring == {"fail", "abandon", "bump", "install"}

(* A worker may stop looking for work only if the job is over, or if it is not
   the one that would have found it. *)
Quits(w) ==
    \/ cancelled' \/ fatal' # NoError \/ pending' = {}
    \/ pc[w] = "noWork" /\ UNCHANGED <<pending, fatal, cancelled>>

(* What a step of a worker is, as far as the outcome is concerned. *)
Goes(w, to) ==
    /\ pc' = [pc EXCEPT ![w] = to]
    /\ pc[w] # "exited"
    /\ \/ err' = err /\ (to \in Erring => pc[w] \in Erring)
       \/ \E e \in Errors : err' = [err EXCEPT ![w] = e]
    /\ to \in {"exited", "noWork"} => Quits(w)

(* Such a step keeps OutcomeInv. *)
LEMMA OutcomeWorks ==
    ASSUME Types, OutcomeInv, NEW w \in Workers, NEW to, Goes(w, to), main' = main
    PROVE  OutcomeInv'
<1>1. main = "join"
  BY ONLY OutcomeInv, Goes(w, to), w \in Workers DEF OutcomeInv, Goes
<1>2. main' = "join"
  BY ONLY <1>1, main' = main, Zenon
<1>3. pc'[w] = to /\ \A v \in Workers \ {w} : pc'[v] = pc[v]
  BY ONLY Goes(w, to), Types, w \in Workers DEF Goes, Types
<1>4. /\ err' \in [Workers -> Errors \cup {NoError}]
      /\ \A v \in Workers : pc'[v] \in Erring => err'[v] # NoError
  <2>1. CASE err' = err /\ (to \in Erring => pc[w] \in Erring)
    BY ONLY OutcomeInv, <1>3, <2>1, Zenon DEF OutcomeInv, Erring
  <2>2. ASSUME NEW e \in Errors, err' = [err EXCEPT ![w] = e]
        PROVE  <1>4
    <3>1. e # NoError
      BY ONLY <2>2 DEF Errors, NoError
    <3> QED BY ONLY OutcomeInv, w \in Workers, <1>3, <2>2, <3>1 DEF OutcomeInv, Erring
  <2> QED BY ONLY Goes(w, to), <2>1, <2>2, Zenon DEF Goes
<1>5. fatal' = NoError /\ ~cancelled' /\ pending' # {} => \E v \in Workers : pc'[v] \notin {"exited", "noWork"}
  <2>1. CASE to \notin {"exited", "noWork"}
    BY ONLY <1>3, <2>1, w \in Workers
  <2>2. CASE cancelled' \/ fatal' # NoError \/ pending' = {}
    BY ONLY <2>2, Zenon
  <2>3. CASE pc[w] = "noWork" /\ UNCHANGED <<pending, fatal, cancelled>>
    BY ONLY OutcomeInv, <1>3, <2>3 DEF OutcomeInv
  <2> QED BY ONLY Goes(w, to), <2>1, <2>2, <2>3, Zenon DEF Goes, Quits
<1> QED BY ONLY <1>2, <1>4, <1>5 DEF OutcomeInv, Outcomes, Erring

(* Every step of a worker is one. *)
LEMMA WorkGoes ==
    ASSUME NEW w \in Workers, Work(w), OutcomeInv
    PROVE  \E to : Goes(w, to)
<1> USE DEF At, Goto, Raise, Erring, Errors, env, local, ctlVars, schedVars
<1>1. CASE Check(w)
  <2>1. Station(w) \in {"exited", "noWork"} => cancelled \/ fatal # NoError \/ pending = {}
    BY ONLY DEF Station, IsFinished
  <2>2. Station(w) \notin {"fail", "abandon", "bump", "install"}
    BY ONLY Zenon DEF Station
  <2> QED BY ONLY <1>1, <2>1, <2>2, Zenon DEF Check, Goes, Quits
<1>2. CASE Wait(w)
  BY ONLY <1>2 DEF Wait, Goes, Quits
<1>3. CASE AcquireLease(w)
  BY ONLY <1>3, Zenon DEF AcquireLease, Goes, Quits
<1>4. CASE NoWork(w)
  <2>1. CASE HasActive
    BY ONLY <1>4, <2>1, Zenon DEF NoWork, Goes, Quits
  <2>2. CASE ~HasActive
    BY ONLY <1>4, <2>2, Zenon DEF NoWork, Goes, Quits
  <2> QED BY ONLY <2>1, <2>2
<1>5. CASE Split(w)
  BY ONLY <1>5 DEF Split, Goes
<1>6. CASE Respond(w)
  BY ONLY <1>6, Zenon DEF Respond, Continue, Goes
<1>7. CASE RequestFails(w)
  BY ONLY <1>7 DEF RequestFails, Goes
<1>8. CASE ReadData(w)
  BY ONLY <1>8, Zenon DEF ReadData, Goes
<1>9. CASE ReadEnd(w)
  <2>1. Goes(w, "done")
    BY ONLY <1>9 DEF ReadEnd, Goes
  <2> QED BY ONLY <2>1, Zenon
<1>10. CASE ReadFails(w)
  BY ONLY <1>10 DEF ReadFails, Goes
<1>11. CASE ReadWakes(w)
  BY ONLY <1>11, Zenon DEF ReadWakes, Continue, Goes
<1>12. CASE Write(w)
  BY ONLY <1>12 DEF Write, Continue, Goes
<1>13. CASE WriteFails(w)
  <2>1. Goes(w, "fail")
    BY ONLY <1>13 DEF WriteFails, Goes
  <2> QED BY ONLY <2>1, Zenon
<1>14. CASE ReadPauses(w)
  <2>1. Goes(w, "save")
    BY ONLY <1>14 DEF ReadPauses, Goes
  <2> QED BY ONLY <2>1, Zenon
<1>15. CASE SendSave(w)
  BY ONLY <1>15, Zenon DEF SendSave, Goes
<1>16. CASE AwaitSave(w)
  BY ONLY <1>16 DEF AwaitSave, Goes
<1>17. CASE PauseEnds(w)
  BY ONLY <1>17, Zenon DEF PauseEnds, Continue, Goes
<1>18. CASE CompleteLease(w) \/ FinalAck(w)
  BY ONLY <1>18 DEF CompleteLease, FinalAck, Goes
<1>19. CASE Requeue(w)
  <2>1. Goes(w, IF attempt[w] < MaxAttempts THEN "backoff" ELSE "giveUp")
    BY ONLY <1>19, Zenon DEF Requeue, Goes
  <2> QED BY ONLY <2>1, Zenon
<1>20. CASE Abandon(w) \/ Bump(w)
  BY ONLY <1>20, Zenon DEF Abandon, Bump, Goes
<1>21. CASE InstallFatal(w)
  <2>1. err[w] # NoError
    BY ONLY OutcomeInv, <1>21, w \in Workers, Zenon DEF OutcomeInv, InstallFatal
  <2> QED BY ONLY <1>21, <2>1, Zenon DEF InstallFatal, Install, Goes, Quits
<1>22. CASE GiveUp(w)
  BY ONLY <1>22, Zenon DEF GiveUp, Install, Goes, Quits, NoError
<1>23. CASE BackoffEnds(w)
  <2>1. Goes(w, "top")
    BY ONLY <1>23 DEF BackoffEnds, Goes
  <2> QED BY ONLY <2>1, Zenon
<1>24. CASE ReconcileFrom(w, "done", "ack") \/ ReconcileFrom(w, "settle", "complete")
            \/ ReconcileFrom(w, "retry", "requeue") \/ ReconcileFrom(w, "fail", "abandon")
  BY ONLY <1>24, Zenon DEF ReconcileFrom, Goes
<1> QED BY ONLY Work(w), <1>1, <1>2, <1>3, <1>4, <1>5, <1>6, <1>7, <1>8, <1>9, <1>10, <1>11, <1>12, <1>13,
               <1>14, <1>15, <1>16, <1>17, <1>18, <1>19, <1>20, <1>21, <1>22, <1>23, <1>24
        DEF Work, Progress, Arrives, Settling

(* A job whose workers have all left and that nobody stopped is complete. *)
LEMMA AllSettled ==
    ASSUME SchedInv, JobInv, OutcomeInv, \A w \in Workers : pc[w] = "exited", ~cancelled, fatal = NoError
    PROVE  IsComplete /\ completed = Bytes
<1>1. pending = {}
  BY ONLY OutcomeInv, \A w \in Workers : pc[w] = "exited", ~cancelled, fatal = NoError, Zenon DEF OutcomeInv
<1>2. \A w \in Workers : held[w].id = 0
  BY ONLY JobInv, \A w \in Workers : pc[w] = "exited" DEF JobInv, WorkerSound, Busy, Receiving, Finishing, NoLease
<1>3. DOMAIN active = {}
  <2>1. LeasesOK
    BY ONLY SchedInv, Shape
  <2>2. ASSUME NEW i \in DOMAIN active PROVE FALSE
    <3>1. 0 < i /\ i \in Nat
      BY ONLY <2>1, <2>2 DEF LeasesOK
    <3>2. \E w \in Workers : held[w].id = i
      BY ONLY JobInv, <2>2 DEF JobInv, LeasesHeld
    <3> QED BY ONLY <1>2, <3>1, <3>2
  <2> QED BY ONLY <2>2, Zenon
<1>4. completed = Bytes
  <2>1. Bytes \subseteq completed
    BY ONLY SchedInv, <1>1, <1>3 DEF SchedInv, Coverage
  <2>2. completed \subseteq Bytes
    BY ONLY SchedInv, Zenon DEF SchedInv, SchedulerTypeOK
  <2> QED BY ONLY <2>1, <2>2, Zenon
<1>5. Bytes = Bytes
  BY ONLY DEF Bytes
<1> QED BY ONLY <1>4, <1>5 DEF IsComplete

(* A step of the coordinator: nobody moves, and it has not been stopped. *)
LEMMA OutcomeCoordinates ==
    ASSUME OutcomeInv, coord.pc # "stopped",
           UNCHANGED <<pc, err, main, cancelled, pending>>,
           fatal' = fatal \/ fatal' = IF fatal = NoError THEN "save" ELSE fatal
    PROVE  OutcomeInv'
<1>1. main \in {"join", "stop"} /\ main' = main /\ pc' = pc /\ err' = err /\ cancelled' = cancelled /\ pending' = pending
  BY ONLY OutcomeInv, coord.pc # "stopped", UNCHANGED <<pc, err, main, cancelled, pending>> DEF OutcomeInv, Outcomes
<1>2. fatal' = NoError => fatal = NoError
  BY ONLY fatal' = fatal \/ fatal' = IF fatal = NoError THEN "save" ELSE fatal DEF NoError
<1>3. main' \notin Outcomes \cup {"report"} /\ main' # "completed" /\ main' # "incomplete"
  BY ONLY <1>1, Zenon DEF Outcomes
<1> QED BY ONLY OutcomeInv, <1>1, <1>2, <1>3, Zenon DEF OutcomeInv

(* Every step keeps OutcomeInv. *)
LEMMA OutcomeNext ==
    ASSUME SchedInv, JobInv, OutcomeInv, LeasesOK, [Next]_vars
    PROVE  OutcomeInv'
<1> USE DEF local, ioVars, coordVars, ctlVars, schedVars
<1>1. CASE UNCHANGED vars
  <2>1. UNCHANGED <<pc, err, main, cancelled, pending, fatal, coord, scenario, written>>
    BY ONLY <1>1, Zenon DEF vars, env
  <2> QED BY ONLY OutcomeInv, <2>1 DEF OutcomeInv, Whole, Env
<1>2. ASSUME NEW w \in Workers, Work(w) PROVE OutcomeInv'
  <2>1. PICK to : Goes(w, to)
    BY ONLY OutcomeInv, <1>2, WorkGoes
  <2>2. Types /\ main' = main
    BY ONLY JobInv, <1>2, WorkFrame DEF JobInv
  <2> QED BY ONLY OutcomeInv, <1>2, <2>1, <2>2, OutcomeWorks, Zenon
<1>3. ASSUME NEW for, Snapshot(for) PROVE OutcomeInv'
  <2>1. /\ coord.pc # "stopped" /\ Reconcile
        /\ UNCHANGED <<pc, err, main, cancelled>>
    BY ONLY <1>3 DEF Snapshot, AbsorbAndNotify
  <2>2. fatal' = fatal \/ fatal' = IF fatal = NoError THEN "save" ELSE fatal
    BY ONLY <1>3, Zenon DEF Snapshot, SaveEnds, Install
  <2>3. pending' = pending
    BY ONLY <2>1, JobInv, LeasesOK, ReconcileIs
  <2> QED BY ONLY OutcomeInv, <2>1, <2>2, <2>3, OutcomeCoordinates
<1>4. CASE Fence
  BY ONLY OutcomeInv, <1>4, OutcomeCoordinates DEF Fence, SaveEnds, Install
<1>5. CASE Store
  BY ONLY OutcomeInv, <1>5, OutcomeCoordinates DEF Store, SaveEnds, Install
<1>6. CASE SaveFails
  BY ONLY OutcomeInv, <1>6, OutcomeCoordinates DEF SaveFails, SaveEnds, Install
<1>7. CASE JoinWorkers
  BY ONLY OutcomeInv, <1>7 DEF OutcomeInv, JoinWorkers, Outcomes, Whole, Env
<1>8. CASE StopCoordinator
  BY ONLY OutcomeInv, <1>8 DEF OutcomeInv, StopCoordinator, CoordTo, Outcomes, Whole, Env
<1>9. CASE Report
  <2>1. main = "report" /\ main' = Outcome /\ UNCHANGED <<pc, err, cancelled, pending, fatal, coord, scenario, written>>
    BY ONLY <1>9 DEF Report
  <2>2. coord.pc = "stopped" /\ \A w \in Workers : pc[w] = "exited"
    BY ONLY OutcomeInv, <2>1, Zenon DEF OutcomeInv
  <2>3. ~cancelled /\ fatal = NoError => IsComplete /\ completed = Bytes
    BY ONLY SchedInv, JobInv, OutcomeInv, <2>2, AllSettled
  <2>4. /\ Outcome \in Outcomes /\ Outcome # "incomplete"
        /\ Outcome = "completed" => ~cancelled /\ fatal = NoError /\ completed = Bytes
    BY ONLY <2>3 DEF Outcome, Outcomes
  <2>5. Whole => (Outcome = "completed" => written = Bytes)
    <3>1. Whole => completed \subseteq written
      BY ONLY JobInv DEF JobInv, SettledWritten, Settled
    <3>2. written \subseteq Bytes
      BY ONLY JobInv, Zenon DEF JobInv, Types
    <3> QED BY ONLY <2>4, <3>1, <3>2, Zenon
  <2>6. Whole' = Whole
    BY ONLY <2>1 DEF Whole, Env
  <2> QED BY ONLY OutcomeInv, <2>1, <2>2, <2>4, <2>5, <2>6, Zenon DEF OutcomeInv
<1>10. CASE Cancel
  BY ONLY OutcomeInv, <1>10, Zenon DEF OutcomeInv, Cancel, Outcomes, Whole, Env
<1>11. CASE TogglePause \/ SetDesired
  BY ONLY OutcomeInv, <1>11 DEF OutcomeInv, TogglePause, SetDesired, Whole, Env
<1> QED BY ONLY [Next]_vars, <1>1, <1>2, <1>3, <1>4, <1>5, <1>6, <1>7, <1>8, <1>9, <1>10, <1>11, NextCases
        DEF Aloof, RunSegmented

(* OutcomeInv holds at the start. *)
LEMMA OutcomeInit ==
    ASSUME Init
    PROVE  OutcomeInv
<1>1. /\ pc = [w \in Workers |-> "top"] /\ err = [w \in Workers |-> NoError] /\ main = "join"
  BY ONLY Init DEF Init
<1>2. Workers # {}
  BY ONLY JobAssumption DEF Workers
<1> QED BY ONLY <1>1, <1>2, Zenon DEF OutcomeInv, Outcomes

-----------------------------------------------------------------------------
(* The scheduler of the job, and the theorems. *)

(* The job starts its scheduler as the scheduler starts. *)
LEMMA SchedInit ==
    ASSUME Init
    PROVE  SchedulerInit /\ SchedInv
<1>1. Resumed \in SUBSET Bytes /\ InitWith(Resumed)
  BY ONLY Init, JobAssumption DEF Init, Scenario, Resumed, Bytes
<1>2. SchedulerInit
  BY ONLY <1>1, Zenon DEF SchedulerInit
<1> QED BY ONLY <1>2, SchedInitInv, Zenon

(* And steps it as it steps. *)
LEMMA SchedNext ==
    ASSUME SchedInv, JobInv, [Next]_vars
    PROVE  SchedInv' /\ Settled \subseteq Settled' /\ (SchedulerNext \/ UNCHANGED schedVars)
<1>1. SchedulerNext \/ UNCHANGED schedVars
  BY ONLY SchedInv, JobInv, [Next]_vars, Shape, JobRefines, Zenon
<1>2. CASE SchedulerNext
  BY ONLY SchedInv, <1>1, <1>2, SchedNextInv
<1>3. CASE UNCHANGED schedVars
  <2>1. Settled' = Settled
    BY ONLY <1>3 DEF schedVars, Settled, Acked
  <2> QED BY ONLY SchedInv, <1>1, <1>3, <2>1, SchedStutterInv, Zenon
<1> QED BY ONLY <1>1, <1>2, <1>3

(* Every step keeps it; the checkpoint only grows. *)
LEMMA NextInv ==
    ASSUME IInv, [Next]_vars
    PROVE  IInv' /\ checkpoint \subseteq checkpoint' /\ (SchedulerNext \/ UNCHANGED schedVars)
<1>1. SchedInv /\ JobInv /\ SaveInv /\ PauseInv /\ OutcomeInv
  BY ONLY IInv DEF IInv
<1>2. SchedInv' /\ Settled \subseteq Settled' /\ (SchedulerNext \/ UNCHANGED schedVars)
  BY ONLY <1>1, [Next]_vars, SchedNext, Zenon
<1>3. LeasesOK /\ LeasesOK'
  BY ONLY <1>1, <1>2, Shape, ShapeNext
<1>4. JobInv'
  BY ONLY <1>1, <1>3, [Next]_vars, JobNext
<1>5. Step
  BY ONLY <1>1, <1>2, <1>3, <1>4 DEF Step
<1>6. SaveInv' /\ checkpoint \subseteq checkpoint'
  BY ONLY <1>1, <1>5, [Next]_vars, SaveNext
<1>7. PauseInv'
  BY ONLY <1>1, <1>5, <1>6, [Next]_vars, PauseNext
<1>8. OutcomeInv'
  BY ONLY <1>1, <1>3, [Next]_vars, OutcomeNext
<1> QED BY ONLY <1>2, <1>4, <1>6, <1>7, <1>8, Zenon DEF IInv

(* The inductive invariant holds in every reachable state of the job: for every
   number of workers, size, policy, and every choice of failures, splits,
   pauses, saves and cancellations. *)
THEOREM Invariant == Spec => []IInv
<1>1. Init => IInv
  BY SchedInit, JobInit, SaveInit, PauseInit, OutcomeInit DEF IInv
<1>2. IInv /\ [Next]_vars => IInv'
  BY NextInv
<1> QED BY <1>1, <1>2, PTL DEF Spec

(* The scheduler inside the job does nothing that the scheduler's own
   specification does not allow: every step of a worker or of the coordinator
   is one of its operations, or leaves it alone. *)
THEOREM ImplementsScheduler == Spec => SchedulerSpec
<1>1. Init => SchedulerInit
  BY SchedInit
<1>2. IInv /\ [Next]_vars => [SchedulerNext]_schedVars
  BY NextInv, Zenon
<1> QED BY <1>1, <1>2, Invariant, PTL DEF Spec, SchedulerSpec

(* As long as the server sends what it was asked for, every byte the scheduler
   settles, that is acknowledges or completes, has been written to the file. *)
THEOREM SettledIsWritten == Spec => [](Whole => SettledWritten)
<1>1. IInv => (Whole => SettledWritten)
  BY ONLY Zenon DEF IInv, JobInv
<1> QED BY <1>1, Invariant, PTL

(* Then the checkpoint on disk claims only bytes that are in the file, and in
   durable mode only bytes that were synced. *)
THEOREM CheckpointIsSound == Spec => [](Whole => CheckpointSound)
<1>1. IInv => (Whole => CheckpointSound)
  BY ONLY DEF IInv, SaveInv
<1> QED BY <1>1, Invariant, PTL

(* A job never reports incomplete coverage, and one that reports completion was
   neither cancelled nor failed; if the server sent what it was asked for, every
   byte of the target is then in the file. *)
THEOREM OutcomeIsSound ==
    Spec => []/\ Whole => OutcomeSound
              /\ main # "incomplete" /\ (main = "completed" => fatal = NoError /\ ~cancelled)
<1>1. IInv => /\ Whole => OutcomeSound
              /\ main # "incomplete" /\ (main = "completed" => fatal = NoError /\ ~cancelled)
  BY ONLY DEF IInv, OutcomeInv, OutcomeSound
<1> QED BY <1>1, Invariant, PTL

(* A worker that reports itself paused has what it acknowledged and published
   in the checkpoint, whatever the server sends. *)
THEOREM PauseResumes == Spec => []PauseIsResumable
<1>1. IInv => PauseIsResumable
  BY Shape, PauseShows DEF IInv
<1> QED BY <1>1, Invariant, PTL

(* Every active lease has exactly one worker that holds it. *)
THEOREM LeasesAreHeld == Spec => []LeasesHeld
<1>1. IInv => LeasesHeld
  BY ONLY Zenon DEF IInv, JobInv
<1> QED BY <1>1, Invariant, PTL

(* The checkpoint on disk only gains coverage, and is not written any more once
   run_segmented reports. *)
THEOREM CheckpointOnlyGrows == Spec => CheckpointGrows
<1>1. IInv /\ [Next]_vars =>
         [/\ checkpoint \subseteq checkpoint'
          /\ main \in Outcomes \cup {"report"} => checkpoint' = checkpoint]_vars
  <2> SUFFICES ASSUME IInv, [Next]_vars
               PROVE  /\ checkpoint \subseteq checkpoint'
                      /\ main \in Outcomes \cup {"report"} => checkpoint' = checkpoint
    BY Zenon
  <2>1. checkpoint \subseteq checkpoint'
    BY ONLY IInv, [Next]_vars, NextInv
  <2>2. ASSUME main \in Outcomes \cup {"report"} PROVE checkpoint' = checkpoint
    <3>1. coord.pc = "stopped" /\ queue \subseteq Workers
      BY ONLY IInv, <2>2 DEF IInv, OutcomeInv, PauseInv
    <3>2. ASSUME NEW w \in Workers, Work(w) PROVE checkpoint' = checkpoint
      BY ONLY <3>2, WorkFrame, Zenon
    <3>3. ASSUME NEW for, Snapshot(for) PROVE checkpoint' = checkpoint
      BY ONLY <3>3 DEF Snapshot, ioVars
    <3>4. CASE Aloof
      <4>1. ~Store
        BY ONLY <3>1, Zenon DEF Store
      <4>2. CASE Fence \/ SaveFails
        BY ONLY <4>2, Zenon DEF Fence, SaveFails, ioVars
      <4>3. CASE RunSegmented
        BY ONLY <4>3 DEF RunSegmented, JoinWorkers, StopCoordinator, Report, ioVars
      <4>4. CASE Cancel \/ TogglePause \/ SetDesired
        BY ONLY <4>4, Zenon DEF Cancel, TogglePause, SetDesired, ioVars
      <4> QED BY ONLY <3>4, <4>1, <4>2, <4>3, <4>4, Zenon DEF Aloof
    <3>5. CASE UNCHANGED vars
      BY ONLY <3>5, Zenon DEF vars, env, ioVars
    <3> QED BY ONLY [Next]_vars, <3>2, <3>3, <3>4, <3>5, NextCases, Zenon
  <2> QED BY ONLY <2>1, <2>2
<1> QED BY <1>1, Invariant, PTL DEF Spec, CheckpointGrows
=============================================================================
