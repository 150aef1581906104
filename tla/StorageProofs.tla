--------------------------- MODULE StorageProofs ----------------------------
(* What a download leaves on disk, proved for every number of bytes,
   generations, jobs, processes and candidates, and without the bounds on saves,
   faults and crashes: the checkpoint store implements a register that keeps
   what it acknowledged, two jobs never own a destination, a session publishes
   only what it verified and writes to no file but its own, and a writer lane
   says only what is true and is quiet once it is joined. *)
EXTENDS CheckpointStore, Destinations, OutputSession, WriterLane, FiniteSetTheorems, TLAPS

USE SMTT(20), ZenonT(30)

-----------------------------------------------------------------------------
(* The checkpoint store. *)

(* A checkpoint contains what the coordination remembers. *)
Remembers(c) ==
    lastAccepted # Absent =>
        c.generation = lastAccepted.generation /\ lastAccepted.ranges \subseteq c.ranges

(* What a power loss may make of an entry is still recorded. *)
Recorded(c) == c \in {acked} \cup since

StoredFiles == [checkpoint : Checkpoints \cup {Absent}, whole : BOOLEAN, synced : BOOLEAN]
SaveSteps == {"idle", "create", "sync", "rename", "syncDirectory", "saved"}

(* The files that exist, and the stages a save goes through. *)
StoreTyped ==
    /\ durable \in BOOLEAN
    /\ sidecar \in StoredFiles /\ older \subseteq StoredFiles
    /\ lastAccepted \in Checkpoints \cup {Absent}
    /\ op \in [step : SaveSteps, checkpoint : Checkpoints \cup {Absent}, file : StoredFiles]

(* The save under way: its temporary file holds its checkpoint, synced before
   it is renamed; once renamed it is the sidecar; success is reported when the
   directory cannot bring anything older back. *)
SaveStaged ==
    /\ op.step # "idle" => Remembers(op.checkpoint)
    /\ op.step \in {"sync", "rename"} => op.file.checkpoint = op.checkpoint /\ op.file.whole
    /\ durable /\ op.step = "rename" => op.file.synced
    /\ op.step \in {"syncDirectory", "saved"} => sidecar.checkpoint = op.checkpoint
    /\ durable /\ op.step = "saved" => older = {}

(* Entries of a durable store are whole and synced, and recorded. *)
EntriesSound ==
    durable => \A file \in older \cup {sidecar} : file.whole /\ file.synced /\ Recorded(file.checkpoint)

(* The inductive invariant of the store. *)
StoreInv ==
    /\ StoreTyped /\ SaveStaged /\ EntriesSound
    /\ Remembers(sidecar.checkpoint)

(* The store starts with no file and nothing remembered. *)
LEMMA StoreInitInv == StoreInit => StoreInv
  BY DEF StoreInit, StoreInv, StoreTyped, SaveStaged, EntriesSound, Remembers, Recorded,
         StoredFiles, SaveSteps, NoFile, File, Absent, Idle, Checkpoints

(* Every file operation of a save, each failure and each crash keeps it. *)
LEMMA StoreNextInv == StoreInv /\ [StoreNext]_storeVars => StoreInv'
<1>. SUFFICES ASSUME StoreInv, [StoreNext]_storeVars PROVE StoreInv'
  BY Zenon
<1>. USE DEF StoreInv, StoreTyped, SaveStaged, EntriesSound, Remembers, Recorded,
             StoredFiles, SaveSteps
<1>1. ASSUME NEW c \in Checkpoints, BeginSave(c) PROVE StoreInv'
  BY <1>1, Zenon DEF BeginSave, FoldForward, SameLineage, NoFile, File, Absent, Checkpoints
<1>2. CASE WriteTemp
  BY <1>2, Zenon DEF WriteTemp, File
<1>3. CASE SyncTemp
  BY <1>3, Zenon DEF SyncTemp
<1>4. CASE RenameTemp
  BY <1>4, Zenon DEF RenameTemp
<1>5. CASE SyncDirectory
  BY <1>5, Zenon DEF SyncDirectory
<1>6. CASE ReportSaved
  BY <1>6, Zenon DEF ReportSaved, Idle, NoFile, File
<1>7. CASE SaveFails
  BY <1>7, Zenon DEF SaveFails, Idle, NoFile, File
<1>8. CASE Delete
  BY <1>8 DEF Delete, NoFile, File
<1>9. CASE Kill
  BY <1>9, Zenon DEF Kill, Idle, NoFile, File
<1>10. CASE PowerLoss
  <2>1. PICK file \in older \cup {sidecar} : sidecar' \in AfterPowerLoss(file)
    BY <1>10, Zenon DEF PowerLoss
  <2>2. PICK w \in {file.synced, file.whole} : sidecar' = [file EXCEPT !.synced = TRUE, !.whole = w]
    BY <2>1, Zenon DEF AfterPowerLoss
  <2>3. file \in StoredFiles
    BY <2>1, Zenon
  <2>4. w \in BOOLEAN /\ (durable => w) /\ (durable => Recorded(file.checkpoint))
    BY <2>1, <2>2, <2>3, Zenon
  <2>5. sidecar' = [checkpoint |-> file.checkpoint, whole |-> w, synced |-> TRUE]
    BY <2>2, <2>3, Zenon
  <2>. QED
    BY <1>10, <2>3, <2>4, <2>5 DEF PowerLoss, Idle, NoFile, File
<1>11. CASE UNCHANGED storeVars
  BY <1>11 DEF storeVars
<1>. QED
  BY <1>1, <1>2, <1>3, <1>4, <1>5, <1>6, <1>7, <1>8, <1>9, <1>10, <1>11, Zenon DEF StoreNext

(* The invariant holds in every state of the store. *)
THEOREM StoreInvariant == StoreSpec => []StoreInv
  BY StoreInitInv, StoreNextInv, PTL DEF StoreSpec

(* A power loss never takes a durable store back beyond the last save that
   reported success. *)
THEOREM AckedSavesSurvive == StoreSpec => []AckedSurvives
<1>1. StoreInv => AckedSurvives
  BY Zenon DEF StoreInv, EntriesSound, Recorded, AckedSurvives, Loaded
<1>. QED
  BY <1>1, StoreInvariant, PTL

(* What the coordination remembers is on disk, whatever snapshot came late and
   whichever save failed. *)
THEOREM RememberedIsOnDisk == StoreSpec => []RememberedOnDisk
<1>1. StoreInv => RememberedOnDisk
  BY Zenon DEF StoreInv, Remembers, RememberedOnDisk, Loaded
<1>. QED
  BY <1>1, StoreInvariant, PTL

(* A durable store implements the register of whole checkpoints: a rename or a
   delete replaces its value, a directory sync settles it, a power loss may
   bring back what was replaced and not settled, and every other step, a crash
   of the process and a failure included, leaves it alone. *)
THEOREM StoreImplementsRegister == StoreSpec => ImplementsRegister
<1>1. StoreInit => Register!RegisterInit
  BY DEF StoreInit, Register!RegisterInit, Content, Readable, NoFile, File
<1>2. ASSUME StoreInv, [StoreNext]_storeVars
      PROVE  [Register!Replace \/ Register!Settle \/ Register!PowerLoss]_(Register!registerVars)
  <2>. DEFINE Value == IF durable THEN Content(sidecar) ELSE Absent
              Old == IF durable THEN {Content(file) : file \in older} ELSE {}
  <2>1. CASE durable' = durable /\ sidecar' = sidecar /\ older' = older
    BY <2>1, Zenon DEF Content, Readable, Torn, Register!registerVars
  <2>2. CASE durable' = FALSE /\ durable = FALSE
    BY <2>2, Zenon DEF Register!registerVars
  <2>3. ASSUME durable, durable', sidecar' \in StoredFiles, sidecar'.whole, older' = older \cup {sidecar}
        PROVE  Register!Replace
    <3>1. Old' = Old \cup {Value}
      BY <2>3, Zenon DEF Content, Readable, Torn
    <3>2. Value' = sidecar.checkpoint' /\ sidecar.checkpoint' \in Checkpoints \cup {Absent}
      BY <2>3, Zenon DEF Content, Readable, Torn, StoredFiles
    <3>. QED
      BY <3>1, <3>2, Zenon DEF Register!Replace
  <2>4. CASE durable /\ RenameTemp
    BY <1>2, <2>3, <2>4, Zenon DEF RenameTemp, StoreInv, StoreTyped, SaveStaged
  <2>5. CASE durable /\ Delete
    <3>1. CASE sidecar = NoFile
      BY <2>1, <2>5, <3>1, Zenon DEF Delete
    <3>2. CASE sidecar # NoFile
      BY <2>3, <2>5, <3>2, Zenon DEF Delete, NoFile, File, StoredFiles
    <3>. QED
      BY <3>1, <3>2, Zenon
  <2>6. CASE durable /\ SyncDirectory
    <3>1. Old' = {} /\ Value' = Value
      BY <2>6, Zenon DEF SyncDirectory, Content, Readable, Torn
    <3>. QED
      BY <3>1, Zenon DEF Register!Settle
  <2>7. CASE durable /\ PowerLoss
    <3>1. PICK file \in older \cup {sidecar} : sidecar' \in AfterPowerLoss(file)
      BY <2>7, Zenon DEF PowerLoss
    <3>2. PICK w \in {file.synced, file.whole} : sidecar' = [file EXCEPT !.synced = TRUE, !.whole = w]
      BY <3>1, Zenon DEF AfterPowerLoss
    <3>3. file \in StoredFiles /\ file.whole /\ file.synced
      BY <1>2, <2>7, <3>1, Zenon DEF StoreInv, StoreTyped, EntriesSound
    <3>4. Content(sidecar)' = Content(file)
      BY <3>2, <3>3, Zenon DEF Content, Readable, Torn, StoredFiles
    <3>5. Old' = {} /\ Value' = Content(file) /\ Content(file) \in Old \cup {Value}
      BY <2>7, <3>1, <3>4, Zenon DEF PowerLoss
    <3>. QED
      BY <3>5, Zenon DEF Register!PowerLoss
  <2>8. durable \in BOOLEAN /\ durable' = durable
    BY <1>2, Zenon DEF StoreInv, StoreTyped, StoreNext, storeVars, BeginSave, WriteTemp, SyncTemp, RenameTemp,
                SyncDirectory, ReportSaved, SaveFails, Delete, Kill, PowerLoss
  <2>9. ASSUME NEW c \in Checkpoints, BeginSave(c)
        PROVE  durable' = durable /\ sidecar' = sidecar /\ older' = older
    BY <2>9, Zenon DEF BeginSave
  <2>10. CASE WriteTemp \/ SyncTemp \/ ReportSaved \/ SaveFails \/ Kill \/ UNCHANGED storeVars
    BY <2>1, <2>10, Zenon DEF WriteTemp, SyncTemp, ReportSaved, SaveFails, Kill, storeVars
  <2>. QED
    BY <1>2, <2>1, <2>2, <2>4, <2>5, <2>6, <2>7, <2>8, <2>9, <2>10, Zenon DEF StoreNext
<1>. QED
  BY <1>1, <1>2, StoreInvariant, PTL DEF StoreSpec, ImplementsRegister, Register!RegisterSpec

-----------------------------------------------------------------------------
(* Destinations. *)

(* The steps at which a job has registered its candidate. *)
Holding(j) == Owns(j) \/ job[j].pc \in {"lock1", "lock2", "drop1", "drop2", "dropEnd"}

JobSteps ==
    {"new", "resume", "fresh", "register1", "register2", "lock1", "lock2", "owned1", "owned2", "selected", "working",
     "unlock1", "unlock2", "unlockEnd", "drop1", "drop2", "dropEnd", "ended", "exhausted"}

Selections == [pc : JobSteps, at : Candidates, resumes : BOOLEAN]

DestinationTyped ==
    /\ request \in [Jobs -> [process : Processes, url : Urls, resume : Policies]]
    /\ job \in [Jobs -> Selections]
    /\ lock \in [Candidates -> Jobs \cup {Nobody}]
    /\ registered \in [Processes -> SUBSET Candidates]
    /\ part \in [Candidates -> Urls \cup {Nobody}]
    /\ final \in [Candidates -> Jobs \cup {Nobody, Stranger}]

(* An owner has the lock; whoever is between registering and unregistering is
   the only job of its process that has this candidate registered. *)
LeasesExclusive ==
    /\ \A j \in Jobs : Owns(j) => lock[Here(j)] = j
    /\ \A j \in Jobs : Holding(j) => Here(j) \in Mine(j)
    /\ \A i, j \in Jobs : i # j /\ Holding(i) /\ Holding(j) /\ ProcessOf(i) = ProcessOf(j) => Here(i) # Here(j)
    /\ \A p \in Processes : \A c \in registered[p] : \E j \in Jobs : ProcessOf(j) = p /\ Here(j) = c /\ Holding(j)

(* A checkpoint belongs to the partial beside it, and a job that selected a
   candidate found nothing there or its own download. *)
PartialsSound ==
    /\ \A u \in Urls, c \in Candidates : <<u, c>> \in checkpoints => part[c] = u
    /\ \A j \in Jobs : job[j].pc = "selected" => part[Here(j)] \in {Nobody, UrlOf(j)}
    /\ \A j \in Jobs : job[j].pc = "working" => part[Here(j)] = UrlOf(j)

DestinationInv == DestinationTyped /\ LeasesExclusive /\ PartialsSound

(* The five things a step of job j, after which it is at r, does to its lease:
   nothing, register the candidate, take its lock, give the lock up, unregister. *)
OwnSteps == {"owned1", "owned2", "selected", "working", "unlock1", "unlock2", "unlockEnd"}
HoldSteps == OwnSteps \cup {"lock1", "lock2", "drop1", "drop2", "dropEnd"}

Keeps(j, r) ==
    /\ lock' = lock /\ registered' = registered
    /\ (r.pc \in OwnSteps <=> job[j].pc \in OwnSteps) /\ (r.pc \in HoldSteps <=> job[j].pc \in HoldSteps)
    /\ r.pc \in HoldSteps => r.at = Here(j)
Registers(j, r) ==
    /\ lock' = lock /\ Here(j) \notin Mine(j)
    /\ registered' = [registered EXCEPT ![ProcessOf(j)] = @ \cup {Here(j)}]
    /\ job[j].pc \notin HoldSteps /\ r.pc \in HoldSteps \ OwnSteps /\ r.at = Here(j)
Locks(j, r) ==
    /\ registered' = registered /\ lock[Here(j)] = Nobody /\ lock' = [lock EXCEPT ![Here(j)] = j]
    /\ job[j].pc \in HoldSteps \ OwnSteps /\ r.pc \in OwnSteps /\ r.at = Here(j)
Unlocks(j, r) ==
    /\ registered' = registered /\ lock' = [lock EXCEPT ![Here(j)] = IF @ = j THEN Nobody ELSE @]
    /\ job[j].pc \in OwnSteps /\ r.pc \in HoldSteps \ OwnSteps /\ r.at = Here(j)
Unregisters(j, r) ==
    /\ lock' = lock /\ registered' = [registered EXCEPT ![ProcessOf(j)] = @ \ {Here(j)}]
    /\ job[j].pc \in HoldSteps \ OwnSteps /\ r.pc \notin HoldSteps
Leases(j, r) == Keeps(j, r) \/ Registers(j, r) \/ Locks(j, r) \/ Unlocks(j, r) \/ Unregisters(j, r)

(* What it does to the partial and its checkpoint. *)
Leaves(j, r) ==
    /\ part' = part /\ checkpoints' = checkpoints
    /\ r.pc = "selected" => (job[j].pc = "selected" /\ r.at = Here(j)) \/ part[r.at] \in {Nobody, UrlOf(j)}
    /\ r.pc = "working" => job[j].pc = "working" /\ r.at = Here(j)
Opens(j, r) ==
    /\ job[j].pc = "selected" /\ r.pc = "working" /\ r.at = Here(j)
    /\ part' = [part EXCEPT ![Here(j)] = UrlOf(j)] /\ checkpoints' = checkpoints
Saves(j, r) ==
    /\ job[j].pc = "working" /\ r = job[j]
    /\ part' = part /\ checkpoints' = checkpoints \cup {<<UrlOf(j), Here(j)>>}
Publishes(j, r) ==
    /\ job[j].pc = "working" /\ r.pc = "unlockEnd" /\ r.at = Here(j)
    /\ part' = [part EXCEPT ![Here(j)] = Nobody] /\ final'[Here(j)] # Nobody
    /\ checkpoints' = checkpoints \ {<<UrlOf(j), Here(j)>>}
Partials(j, r) == Leaves(j, r) \/ Opens(j, r) \/ Saves(j, r) \/ Publishes(j, r)

(* A step of job j. *)
Steps(j, r) ==
    /\ r \in Selections /\ job' = [job EXCEPT ![j] = r] /\ request' = request
    /\ final' \in [Candidates -> Jobs \cup {Nobody, Stranger}]
    /\ Leases(j, r) /\ Partials(j, r)

JobStep(j) == Start(j) \/ SelectStep(j) \/ OpenPartial(j) \/ SaveCheckpoint(j) \/ Publish(j) \/ StopEarly(j)

(* No job has a candidate at the start. *)
LEMMA DestinationInitInv == DestinationInit => DestinationInv
  BY DestinationAssumption DEF DestinationInit, DestinationInv, DestinationTyped, LeasesExclusive, PartialsSound,
     JobSteps, Selections, Owns, Holding, At, Here, Mine, ProcessOf, UrlOf, Candidates


(* Going on to another candidate changes nothing but the job. *)
LEMMA ContinueIs ==
    ASSUME DestinationTyped, NEW j \in Jobs, NEW phase \in {"resume", "fresh"}, Continue(j, phase)
    PROVE  \E r \in Selections : job' = [job EXCEPT ![j] = r] /\ r.pc \in {"resume", "fresh", "exhausted"}
<1>1. job[j] \in Selections /\ job \in [Jobs -> Selections]
  BY Zenon DEF DestinationTyped
<1>2. CASE Here(j) < LastCandidate
  <2>1. job' = [job EXCEPT ![j] = [job[j] EXCEPT !.pc = phase, !.at = Here(j) + 1]]
    BY ONLY <1>2, Continue(j, phase), Zenon DEF Continue
  <2>2. Here(j) + 1 \in Candidates /\ phase \in JobSteps
    BY <1>1, <1>2, DestinationAssumption DEF Selections, JobSteps, Here, Candidates
  <2>3. [job[j] EXCEPT !.pc = phase, !.at = Here(j) + 1] \in Selections
    BY <1>1, <2>2, Zenon DEF Selections
  <2>. QED
    BY <1>1, <2>1, <2>3, Zenon DEF Selections
<1>3. CASE ~(Here(j) < LastCandidate) /\ phase = "resume"
  <2>1. job' = [job EXCEPT ![j] = [job[j] EXCEPT !.pc = "fresh", !.at = 0]]
    BY <1>3, Zenon DEF Continue
  <2>2. 0 \in Candidates
    BY DestinationAssumption DEF Candidates
  <2>3. [job[j] EXCEPT !.pc = "fresh", !.at = 0] \in Selections
    BY <1>1, <2>2, Zenon DEF Selections, JobSteps
  <2>. QED
    BY <1>1, <2>1, <2>3, Zenon DEF Selections
<1>4. CASE ~(Here(j) < LastCandidate) /\ phase = "fresh"
  <2>1. job' = [job EXCEPT ![j] = [job[j] EXCEPT !.pc = "exhausted"]]
    BY <1>4, "fresh" # "resume", Zenon DEF Continue
  <2>2. [job[j] EXCEPT !.pc = "exhausted"] \in Selections
    BY <1>1, Zenon DEF Selections, JobSteps
  <2>. QED
    BY <1>1, <2>1, <2>2, Zenon DEF Selections
<1>. QED
  BY <1>2, <1>3, <1>4, Zenon

(* Going to a step leaves the candidate as it is. *)
LEMMA GotoIs ==
    ASSUME DestinationTyped, NEW j \in Jobs, NEW step \in JobSteps, Goto(j, step)
    PROVE  \E r \in Selections : job' = [job EXCEPT ![j] = r] /\ r.pc = step /\ r.at = Here(j)
<1>1. job[j] \in Selections
  BY Zenon DEF DestinationTyped
<1>2. [job[j] EXCEPT !.pc = step] \in Selections
  BY <1>1, Zenon DEF Selections
<1>. QED
  BY <1>1, <1>2, Zenon DEF Goto, DestinationTyped, Selections, Here

(* What every operation of a job is, in those terms. *)
LEMMA JobStepIs ==
    ASSUME DestinationInv, NEW j \in Jobs, JobStep(j)
    PROVE  \E r \in Selections : Steps(j, r)
<1>. DEFINE Rest == /\ request' = request /\ final' = final /\ part' = part /\ checkpoints' = checkpoints
<1>0. DestinationTyped /\ final \in [Candidates -> Jobs \cup {Nobody, Stranger}] /\ job[j] \in Selections
  BY Zenon DEF DestinationInv, DestinationTyped
<1>1. ASSUME NEW phase \in {"resume", "fresh"}, Continue(j, phase), Rest, lock' = lock, registered' = registered,
             job[j].pc \notin HoldSteps
      PROVE  \E r \in Selections : Steps(j, r)
  <2>1. PICK r \in Selections : job' = [job EXCEPT ![j] = r] /\ r.pc \in {"resume", "fresh", "exhausted"}
    BY <1>0, <1>1, ContinueIs, Zenon
  <2>2. Keeps(j, r) /\ Leaves(j, r)
    BY <1>1, <2>1, Zenon DEF Keeps, Leaves, OwnSteps, HoldSteps
  <2>. QED
    BY <1>0, <1>1, <2>1, <2>2, Zenon DEF Steps, Leases, Partials
<1>2. ASSUME NEW phase \in {"resume", "fresh"}, Continue(j, phase), Rest, lock' = lock,
             registered' = [registered EXCEPT ![ProcessOf(j)] = @ \ {Here(j)}],
             job[j].pc \in HoldSteps \ OwnSteps
      PROVE  \E r \in Selections : Steps(j, r)
  <2>1. PICK r \in Selections : job' = [job EXCEPT ![j] = r] /\ r.pc \in {"resume", "fresh", "exhausted"}
    BY <1>0, <1>2, ContinueIs, Zenon
  <2>2. Unregisters(j, r) /\ Leaves(j, r)
    BY <1>2, <2>1, Zenon DEF Unregisters, Leaves, OwnSteps, HoldSteps
  <2>. QED
    BY <1>0, <1>2, <2>1, <2>2, Zenon DEF Steps, Leases, Partials
<1>3. ASSUME NEW step \in JobSteps, Goto(j, step), Rest, step \notin {"selected", "working"},
             \A r \in Selections : r.pc = step /\ r.at = Here(j) => Leases(j, r)
      PROVE  \E r \in Selections : Steps(j, r)
  <2>1. PICK r \in Selections : job' = [job EXCEPT ![j] = r] /\ r.pc = step /\ r.at = Here(j)
    BY <1>0, <1>3, GotoIs, Zenon
  <2>2. Leases(j, r) /\ Leaves(j, r)
    BY <1>3, <2>1, Zenon DEF Leaves
  <2>. QED
    BY <1>0, <1>3, <2>1, <2>2, Zenon DEF Steps, Partials
<1>. USE DEF At, Keeps, Registers, Locks, Unlocks, Leases, OwnSteps, HoldSteps
<1>4. CASE Start(j)
  BY <1>3, <1>4 DEF Start, JobSteps
<1>5. CASE LookForPartial(j)
  BY <1>1, <1>3, <1>5 DEF LookForPartial, JobSteps
<1>6. CASE LookForFree(j)
  BY <1>1, <1>3, <1>6 DEF LookForFree, JobSteps
<1>7. ASSUME NEW from \in {"register1", "register2"}, NEW to \in {"lock1", "lock2"},
             NEW phase \in {"resume", "fresh"}, Acquire(j, from, to, phase)
      PROVE  \E r \in Selections : Steps(j, r)
  <2>1. CASE Continue(j, phase) /\ registered' = registered
    BY <1>1, <1>7, <2>1, Zenon DEF Acquire
  <2>2. CASE Goto(j, to) /\ Here(j) \notin Mine(j) /\ registered' = [registered EXCEPT ![ProcessOf(j)] = @ \cup {Here(j)}]
    <3>1. \A r \in Selections : r.pc = to /\ r.at = Here(j) => Registers(j, r)
      BY <1>7, <2>2, Zenon DEF Acquire
    <3>2. Rest /\ to \in JobSteps /\ to \notin {"selected", "working"}
      BY <1>7, <2>2, Zenon DEF Acquire, JobSteps
    <3>. QED
      BY <1>3, <2>2, <3>1, <3>2, Zenon
  <2>. QED
    BY <1>7, <2>1, <2>2, Zenon DEF Acquire
<1>8. ASSUME NEW from \in {"lock1", "lock2"}, NEW to \in {"owned1", "owned2"},
             NEW phase \in {"resume", "fresh"}, TryLock(j, from, to, phase)
      PROVE  \E r \in Selections : Steps(j, r)
  <2>1. CASE Continue(j, phase) /\ lock' = lock /\ registered' = [registered EXCEPT ![ProcessOf(j)] = @ \ {Here(j)}]
    BY <1>2, <1>8, <2>1, Zenon DEF TryLock
  <2>2. CASE Goto(j, to) /\ lock[Here(j)] = Nobody /\ lock' = [lock EXCEPT ![Here(j)] = j]
    <3>1. \A r \in Selections : r.pc = to /\ r.at = Here(j) => Locks(j, r)
      BY <1>8, <2>2, Zenon DEF TryLock
    <3>2. Rest /\ to \in JobSteps /\ to \notin {"selected", "working"}
      BY <1>8, <2>2, Zenon DEF TryLock, JobSteps
    <3>. QED
      BY <1>3, <2>2, <3>1, <3>2, Zenon
  <2>. QED
    BY <1>8, <2>1, <2>2, Zenon DEF TryLock
<1>9. ASSUME NEW from \in {"unlock1", "unlock2", "unlockEnd"}, NEW to \in {"drop1", "drop2", "dropEnd"},
             Unlock(j, from, to)
      PROVE  \E r \in Selections : Steps(j, r)
  BY <1>3, <1>9, ZenonT(60) DEF Unlock, JobSteps
<1>10. CASE Unregister(j)
  <2>1. CASE At(j, "dropEnd") /\ Goto(j, "ended")
    BY <1>3, <1>10, <2>1, Zenon DEF Unregister, Unregisters, JobSteps
  <2>. QED
    BY <1>2, <1>10, <2>1, Zenon DEF Unregister
<1>11. ASSUME NEW resumes \in BOOLEAN, Select(j, resumes), Rest, lock' = lock, registered' = registered,
              job[j].pc \in {"owned1", "owned2"}, part[Here(j)] \in {Nobody, UrlOf(j)}
       PROVE  \E r \in Selections : Steps(j, r)
  <2>. DEFINE r == [job[j] EXCEPT !.pc = "selected", !.resumes = resumes]
  <2>1. r \in Selections /\ r.pc = "selected" /\ r.at = Here(j)
    BY <1>0, Zenon DEF Selections, JobSteps, Here
  <2>2. job' = [job EXCEPT ![j] = r]
    BY <1>0, <1>11, Zenon DEF Select, Selections, DestinationTyped
  <2>3. Keeps(j, r) /\ Leaves(j, r)
    BY <1>11, <2>1, Zenon DEF Leaves
  <2>. QED
    BY <1>0, <1>11, <2>1, <2>2, <2>3, Zenon DEF Steps, Partials
<1>12. CASE InspectPartial(j)
  <2>1. HasCheckpoint(j) => part[Here(j)] = UrlOf(j)
    BY <1>0, Zenon DEF HasCheckpoint, DestinationInv, PartialsSound, DestinationTyped, UrlOf, Here, Selections
  <2>. QED
    BY <1>3, <1>11, <1>12, <2>1, Zenon DEF InspectPartial, JobSteps
<1>13. CASE InspectFree(j)
  BY <1>3, <1>11, <1>13, Zenon DEF InspectFree, Occupied, JobSteps, HasCheckpoint
<1>14. CASE OpenPartial(j)
  <2>1. PICK r \in Selections : job' = [job EXCEPT ![j] = r] /\ r.pc = "working" /\ r.at = Here(j)
    BY <1>0, <1>14, GotoIs, Zenon DEF OpenPartial, JobSteps
  <2>2. Keeps(j, r) /\ Opens(j, r)
    BY <1>14, <2>1, Zenon DEF OpenPartial, Opens
  <2>. QED
    BY <1>0, <1>14, <2>1, <2>2, Zenon DEF OpenPartial, Steps, Partials
<1>15. CASE SaveCheckpoint(j)
  <2>1. job' = [job EXCEPT ![j] = job[j]]
    BY <1>0, <1>15, Zenon DEF SaveCheckpoint, DestinationTyped
  <2>2. Keeps(j, job[j]) /\ Saves(j, job[j])
    BY <1>15, Zenon DEF SaveCheckpoint, Saves, Here
  <2>. QED
    BY <1>0, <1>15, <2>1, <2>2, Zenon DEF SaveCheckpoint, Steps, Partials
<1>16. CASE Publish(j)
  <2>1. PICK r \in Selections : job' = [job EXCEPT ![j] = r] /\ r.pc = "unlockEnd" /\ r.at = Here(j)
    BY <1>0, <1>16, GotoIs, Zenon DEF Publish, JobSteps
  <2>2. Here(j) \in Candidates /\ final' = [final EXCEPT ![Here(j)] = j] /\ j # Nobody
    BY <1>0, <1>16, DestinationAssumption, Zenon DEF Publish, Selections, Here
  <2>3. Keeps(j, r) /\ Publishes(j, r)
    BY <1>0, <1>16, <2>1, <2>2, Zenon DEF Publish, Publishes
  <2>4. final' \in [Candidates -> Jobs \cup {Nobody, Stranger}]
    BY <1>0, <2>2, Zenon
  <2>. QED
    BY <1>0, <1>16, <2>1, <2>3, <2>4, Zenon DEF Publish, Steps, Partials
<1>17. CASE StopEarly(j)
  BY <1>3, <1>17, Zenon DEF StopEarly, JobSteps
<1>. QED
  BY <1>4, <1>5, <1>6, <1>7, <1>8, <1>9, <1>10, <1>12, <1>13, <1>14, <1>15, <1>16, <1>17, Zenon DEF JobStep, SelectStep

(* Whatever a job does to its lease, leases stay exclusive. *)
LEMMA LeasesStay ==
    ASSUME DestinationInv, NEW j \in Jobs, NEW r \in Selections, Steps(j, r)
    PROVE  LeasesExclusive'
<1>. USE DEF Owns, Holding, Here, Mine, ProcessOf
<1>1. /\ job \in [Jobs -> Selections] /\ job' = [job EXCEPT ![j] = r] /\ request' = request
      /\ lock \in [Candidates -> Jobs \cup {Nobody}] /\ registered \in [Processes -> SUBSET Candidates]
      /\ \A i \in Jobs : job[i].at \in Candidates /\ request[i].process \in Processes
      /\ r.at \in Candidates /\ Nobody \notin Jobs
  BY DestinationAssumption, Zenon DEF DestinationInv, DestinationTyped, Steps, Selections
<1>2. \A i \in Jobs : job'[i] = IF i = j THEN r ELSE job[i]
  BY <1>1, Zenon
<1>3. LeasesExclusive
  BY Zenon DEF DestinationInv
<1>4. CASE Keeps(j, r)
  BY <1>1, <1>2, <1>3, <1>4 DEF Keeps, OwnSteps, HoldSteps, LeasesExclusive
<1>5. CASE Registers(j, r)
  BY <1>1, <1>2, <1>3, <1>5 DEF Registers, OwnSteps, HoldSteps, LeasesExclusive
<1>6. CASE Locks(j, r)
  BY <1>1, <1>2, <1>3, <1>6 DEF Locks, OwnSteps, HoldSteps, LeasesExclusive
<1>7. CASE Unlocks(j, r)
  BY <1>1, <1>2, <1>3, <1>7 DEF Unlocks, OwnSteps, HoldSteps, LeasesExclusive
<1>8. CASE Unregisters(j, r)
  BY <1>1, <1>2, <1>3, <1>8 DEF Unregisters, OwnSteps, HoldSteps, LeasesExclusive
<1>. QED
  BY <1>4, <1>5, <1>6, <1>7, <1>8, Zenon DEF Steps, Leases

(* Only the owner of a candidate touches its partial. *)
LEMMA OwnersApart ==
    ASSUME DestinationInv, NEW i \in Jobs, NEW j \in Jobs, i # j, Owns(i), Owns(j)
    PROVE  Here(i) # Here(j)
  BY Zenon DEF DestinationInv, LeasesExclusive

(* A step of a job keeps what is said of the partial files. *)
LEMMA PartialsStay ==
    ASSUME DestinationInv, NEW j \in Jobs, NEW r \in Selections, Steps(j, r)
    PROVE  PartialsSound'
<1>. USE DEF Here, UrlOf
<1>1. /\ job \in [Jobs -> Selections] /\ job' = [job EXCEPT ![j] = r] /\ request' = request
      /\ part \in [Candidates -> Urls \cup {Nobody}]
      /\ \A i \in Jobs : job[i].at \in Candidates /\ request[i].url \in Urls
      /\ r.at \in Candidates /\ Nobody \notin Urls
  BY DestinationAssumption, Zenon DEF DestinationInv, DestinationTyped, Steps, Selections
<1>2. \A i \in Jobs : job'[i] = IF i = j THEN r ELSE job[i]
  BY <1>1, Zenon
<1>3. PartialsSound
  BY Zenon DEF DestinationInv
<1>4. \A i \in Jobs : i # j /\ job[i].pc \in {"selected", "working"} /\ job[j].pc \in {"selected", "working"}
                        => job[i].at # job[j].at
  BY OwnersApart, Zenon DEF Owns
<1>5. CASE Leaves(j, r)
  BY <1>1, <1>2, <1>3, <1>5, Zenon DEF Leaves, PartialsSound
<1>6. CASE Opens(j, r)
  BY <1>1, <1>2, <1>3, <1>4, <1>6 DEF Opens, PartialsSound
<1>7. CASE Saves(j, r)
  BY <1>1, <1>2, <1>3, <1>7, Zenon DEF Saves, PartialsSound
<1>8. CASE Publishes(j, r)
  BY <1>1, <1>2, <1>3, <1>4, <1>8, Zenon DEF Publishes, PartialsSound
<1>. QED
  BY <1>5, <1>6, <1>7, <1>8, Zenon DEF Steps, Partials

(* A step of a job keeps the types. *)
LEMMA TypesStay ==
    ASSUME DestinationInv, NEW j \in Jobs, NEW r \in Selections, Steps(j, r)
    PROVE  DestinationTyped'
<1>1. DestinationTyped /\ Here(j) \in Candidates /\ ProcessOf(j) \in Processes /\ UrlOf(j) \in Urls
  BY Zenon DEF DestinationInv, DestinationTyped, Selections, Here, ProcessOf, UrlOf
<1>2. lock' \in [Candidates -> Jobs \cup {Nobody}]
  BY <1>1, Zenon DEF DestinationTyped, Steps, Leases, Keeps, Registers, Locks, Unlocks, Unregisters
<1>3. registered' \in [Processes -> SUBSET Candidates]
  BY <1>1 DEF DestinationTyped, Steps, Leases, Keeps, Registers, Locks, Unlocks, Unregisters
<1>4. part' \in [Candidates -> Urls \cup {Nobody}]
  BY <1>1, Zenon DEF DestinationTyped, Steps, Partials, Leaves, Opens, Saves, Publishes
<1>. QED
  BY <1>1, <1>2, <1>3, <1>4, Zenon DEF DestinationTyped, Steps

(* A process that dies takes its registrations, its locks and its jobs with it. *)
LEMMA DeathInv ==
    ASSUME DestinationInv, NEW p \in Processes, ProcessDies(p)
    PROVE  DestinationInv'
<1>1. /\ job \in [Jobs -> Selections] /\ request' = request /\ part' = part /\ checkpoints' = checkpoints
      /\ final' = final /\ lock \in [Candidates -> Jobs \cup {Nobody}]
      /\ registered \in [Processes -> SUBSET Candidates]
      /\ registered' = [registered EXCEPT ![p] = {}]
      /\ \A i \in Jobs : job[i] \in Selections /\ request[i].process \in Processes
  BY Zenon DEF DestinationInv, DestinationTyped, ProcessDies
<1>2. \A i \in Jobs : /\ request[i].process = p /\ job[i].pc # "new" => job'[i] = [job[i] EXCEPT !.pc = "ended"]
                      /\ ~(request[i].process = p /\ job[i].pc # "new") => job'[i] = job[i]
  BY Zenon DEF ProcessDies, ProcessOf
<1>3. \A i \in Jobs : job'[i] \in Selections
  <2>1. \A i \in Jobs : [job[i] EXCEPT !.pc = "ended"] \in Selections
    BY <1>1, Zenon DEF Selections, JobSteps
  <2>. QED
    BY <1>1, <1>2, <2>1, Zenon
<1>4. \A i \in Jobs : job'[i].pc \in {"ended", "new"} \/ (job'[i] = job[i] /\ request[i].process # p)
  <2>1. SUFFICES ASSUME NEW i \in Jobs
                 PROVE  job'[i].pc \in {"ended", "new"} \/ (job'[i] = job[i] /\ request[i].process # p)
    BY Zenon
  <2>2. CASE request[i].process = p /\ job[i].pc # "new"
    BY <1>1, <1>2, <2>2, Zenon DEF Selections
  <2>3. CASE ~(request[i].process = p /\ job[i].pc # "new")
    BY <1>2, <2>3, Zenon
  <2>. QED
    BY <2>2, <2>3, Zenon
<1>5. \A i \in Jobs, c \in Candidates : request[i].process # p /\ lock[c] = i => lock'[c] = i
  BY <1>1, Zenon DEF ProcessDies, ProcessOf
<1>6. DestinationTyped'
  <2>1. job' \in [Jobs -> Selections]
    BY <1>3, Zenon DEF ProcessDies
  <2>2. lock' \in [Candidates -> Jobs \cup {Nobody}]
    BY <1>1, Zenon DEF ProcessDies
  <2>. QED
    BY <1>1, <2>1, <2>2, Zenon DEF DestinationInv, DestinationTyped
<1>7. LeasesExclusive'
  <2>1. LeasesExclusive
    BY Zenon DEF DestinationInv
  <2>2. \A i \in Jobs : Holding(i)' => Holding(i) /\ job'[i] = job[i] /\ request[i].process # p
    BY <1>4, Zenon DEF Holding, Owns
  <2>3. \A i \in Jobs : Owns(i)' => Owns(i) /\ Holding(i)'
    BY <1>4, Zenon DEF Holding, Owns
  <2>4. \A i \in Jobs : Holding(i) /\ request[i].process # p => Holding(i)' /\ job'[i] = job[i]
    BY <1>2, Zenon DEF Holding, Owns
  <2>5. \A i \in Jobs : job[i].at \in Candidates
    BY <1>1, Zenon DEF Selections
  <2>6. \A i \in Jobs : Owns(i)' => lock[Here(i)]' = i
    BY <1>5, <2>1, <2>2, <2>3, <2>5 DEF LeasesExclusive, Here
  <2>7. \A i \in Jobs : Holding(i)' => Here(i)' \in Mine(i)'
    BY <1>1, <2>1, <2>2, Zenon DEF LeasesExclusive, Here, Mine, ProcessOf
  <2>8. \A i, j \in Jobs : i # j /\ Holding(i)' /\ Holding(j)' /\ ProcessOf(i)' = ProcessOf(j)' => Here(i)' # Here(j)'
    BY <1>1, <2>1, <2>2 DEF LeasesExclusive, Here, ProcessOf
  <2>9. \A q \in Processes : \A c \in registered'[q] : \E j \in Jobs : ProcessOf(j)' = q /\ Here(j)' = c /\ Holding(j)'
    <3>1. SUFFICES ASSUME NEW q \in Processes, NEW c \in registered'[q]
                   PROVE  \E j \in Jobs : ProcessOf(j)' = q /\ Here(j)' = c /\ Holding(j)'
      BY Zenon
    <3>2. q # p /\ c \in registered[q]
      BY <1>1, Zenon
    <3>3. PICK j \in Jobs : ProcessOf(j) = q /\ Here(j) = c /\ Holding(j)
      BY <2>1, <3>2, Zenon DEF LeasesExclusive
    <3>. QED
      BY <1>1, <2>4, <3>2, <3>3, Zenon DEF Here, ProcessOf
  <2>. QED
    BY <2>6, <2>7, <2>8, <2>9, Zenon DEF LeasesExclusive
<1>8. PartialsSound'
  BY <1>1, <1>4, Zenon DEF DestinationInv, PartialsSound, Here, UrlOf
<1>. QED
  BY <1>6, <1>7, <1>8, Zenon DEF DestinationInv

(* Every step of a job, of a process that dies and of another program keeps the
   invariant. *)
LEMMA DestinationNextInv == DestinationInv /\ [DestinationNext]_destinationVars => DestinationInv'
<1>. SUFFICES ASSUME DestinationInv, [DestinationNext]_destinationVars PROVE DestinationInv'
  BY Zenon
<1>1. ASSUME NEW j \in Jobs, JobStep(j) PROVE DestinationInv'
  BY <1>1, JobStepIs, LeasesStay, PartialsStay, TypesStay, Zenon DEF DestinationInv
<1>2. ASSUME NEW c \in Candidates, StrangerCreates(c) PROVE DestinationInv'
  BY <1>2 DEF StrangerCreates, DestinationInv, DestinationTyped, LeasesExclusive, PartialsSound,
              Owns, Holding, Here, Mine, ProcessOf, UrlOf
<1>3. CASE UNCHANGED destinationVars
  BY <1>3 DEF destinationVars, DestinationInv, DestinationTyped, LeasesExclusive, PartialsSound,
              Owns, Holding, Here, Mine, ProcessOf, UrlOf
<1>. QED
  BY <1>1, <1>2, <1>3, DeathInv, Zenon DEF DestinationNext, JobStep

(* The invariant holds in every state. *)
THEOREM DestinationInvariant == DestinationSpec => []DestinationInv
  BY DestinationInitInv, DestinationNextInv, PTL DEF DestinationSpec

(* Two jobs, of one process or of two, never own the same destination, whichever
   of them register, lock, give up or die in between. *)
THEOREM OwnersAreUnique == DestinationSpec => []OneOwner
<1>1. DestinationInv => OneOwner
  BY OwnersApart, Zenon DEF OneOwner
<1>. QED
  BY <1>1, DestinationInvariant, PTL

(* A process registers only destinations that one of its jobs holds. *)
THEOREM RegistrationsAreHeld == DestinationSpec => []RegistrationsHeld
<1>1. DestinationInv => RegistrationsHeld
  BY Zenon DEF DestinationInv, LeasesExclusive, RegistrationsHeld, Holding
<1>. QED
  BY <1>1, DestinationInvariant, PTL

(* The partial of a download is never truncated or taken over by another: it
   goes away only by being published. *)
THEOREM PartialsAreKept == DestinationSpec => PartialsKept
<1>. DEFINE Kept == \A c \in Candidates :
                      part[c] # Nobody /\ part'[c] # part[c] => part'[c] = Nobody /\ final'[c] # Nobody
<1>1. ASSUME DestinationInv, [DestinationNext]_destinationVars PROVE [Kept]_destinationVars
  <2>1. ASSUME NEW j \in Jobs, JobStep(j) PROVE Kept
    <3>1. PICK r \in Selections : Steps(j, r)
      BY <1>1, <2>1, JobStepIs, Zenon
    <3>2. part \in [Candidates -> Urls \cup {Nobody}] /\ Here(j) \in Candidates
      BY <1>1, Zenon DEF DestinationInv, DestinationTyped, Selections, Here
    <3>3. job[j].pc = "selected" => part[Here(j)] \in {Nobody, UrlOf(j)}
      BY <1>1, Zenon DEF DestinationInv, PartialsSound
    <3>. QED
      BY <3>1, <3>2, <3>3, Zenon DEF Steps, Partials, Leaves, Opens, Saves, Publishes
  <2>2. ASSUME NEW p \in Processes, ProcessDies(p) PROVE Kept
    BY <2>2, Zenon DEF ProcessDies
  <2>3. ASSUME NEW c \in Candidates, StrangerCreates(c) PROVE Kept
    BY <2>3, Zenon DEF StrangerCreates
  <2>. QED
    BY <1>1, <2>1, <2>2, <2>3, Zenon DEF DestinationNext, JobStep
<1>. QED
  BY <1>1, DestinationInvariant, PTL DEF DestinationSpec, PartialsKept

-----------------------------------------------------------------------------
(* The output session. *)

SessionSteps ==
    {"idle", "admit", "create", "create_new", "prepare", "validate", "opening", "opened", "open",
     "verified", "finalized", "publish", "linked", "published"}

SessionDirs == [temp : Nat, dest : Nat]
(* Lengths are numbers, or counts of blocks. *)
Lengths == Nat \cup {Cardinality(blocks) : blocks \in SUBSET Nat}
Files == [mine : BOOLEAN, kind : {"file", "link"}, blocks : SUBSET Nat, len : Lengths]
Sessions == [pc : SessionSteps, handle : Nat, own : Nat, seen : Nat, shared : BOOLEAN, keep : BOOLEAN,
             finalized : BOOLEAN, aborted : BOOLEAN, accepted : SUBSET Nat, known : BOOLEAN,
             mode : {"NoReplace", "Replace"}]
Lents == [node : Nat, alive : Nat]
Marks == [node : Nat, blocks : SUBSET Nat]
Lefts == [node : Nat, runs : Nat, strangers : Nat, faults : Nat]

SessionTyped ==
    /\ dir \in SessionDirs /\ nodes \in [Nodes -> Files] /\ sess \in Sessions
    /\ lent \in Lents /\ mark \in Marks /\ left \in Lefts

(* A file of the engine that exists; numbers not given out yet are its own. *)
Ours(n) == n \in Nodes /\ n # Elsewhere /\ n < left.node /\ nodes[n].mine

FilesFresh ==
    /\ left.node > Elsewhere
    /\ \A n \in Nodes : n >= left.node => nodes[n].mine /\ nodes[n].kind = "file" /\ nodes[n].blocks = {}

Named(n) == n = NoNode \/ (n \in Nodes /\ n # Elsewhere /\ n < left.node)

(* The file a session writes to is its own and not the published one, from the
   look that found it to its last write; so is the file of a capability. *)
WritesOwn ==
    /\ Named(dir.temp) /\ Named(dir.dest)
    /\ mark.node # NoNode => Ours(mark.node)
    /\ sess.pc = "validate" => dir.temp = NoNode \/ Ours(dir.temp)
    /\ sess.pc = "opening" => Ours(sess.seen) /\ sess.seen # dir.dest
    /\ sess.pc \in {"opened", "prepare", "open"} => Ours(sess.handle) /\ sess.handle # dir.dest
    /\ sess.pc \in {"prepare", "open"} => dir.temp = sess.handle
    /\ lent.alive > 0 => Ours(lent.node) /\ lent.node # dir.dest

(* Capabilities are out only of a session that shares its file, or of one that
   has ended. *)
LentOnly ==
    /\ sess.shared => sess.pc = "open" /\ (lent.alive > 0 => lent.node = sess.handle)
    /\ sess.pc # "idle" /\ ~sess.shared => lent.alive = 0

SessionInv == SessionTyped /\ FilesFresh /\ WritesOwn /\ LentOnly /\ OthersUntouched

(* At the start no session runs and no file of the engine exists. *)
LEMMA SessionInitInv == SessionInit => SessionInv
<1>. SUFFICES ASSUME SessionInit PROVE SessionInv
  BY Zenon
<1>1. SessionTyped
  BY SessionAssumption, Zenon DEF SessionInit, SessionTyped, SessionDirs, Files, Lengths, Sessions, Lents, Marks, Lefts, SessionSteps, Closed,
     NoMark, NoNode, PlainFile
<1>2. FilesFresh /\ WritesOwn /\ LentOnly /\ OthersUntouched
  BY SessionAssumption DEF SessionInit, FilesFresh, Named, WritesOwn, LentOnly, OthersUntouched, Ours,
     Closed, NoMark, NoNode, Elsewhere, PlainFile, Nodes
<1>. QED
  BY <1>1, <1>2, Zenon DEF SessionInv

(* A step that writes at most to file n of the engine. *)
Touches(n) ==
    /\ nodes' \in [Nodes -> Files]
    /\ \A m \in Nodes : m # n => nodes'[m] = nodes[m]
    /\ n \in Nodes => nodes'[n].mine = nodes[n].mine
Writes == nodes' = nodes \/ \E n \in Nodes : Ours(n) /\ n # dir.dest /\ Touches(n)

(* Such a step leaves whose files they are, the files of others and the numbers
   not given out. *)
LEMMA FilesKept ==
    ASSUME SessionInv, Writes, left'.node = left.node
    PROVE  /\ nodes' \in [Nodes -> Files] /\ FilesFresh' /\ OthersUntouched'
           /\ \A m : Ours(m)' <=> Ours(m)
           /\ \A m : Named(m)' <=> Named(m)
           /\ dir.dest # NoNode => nodes'[dir.dest] = nodes[dir.dest]
<1>1. nodes \in [Nodes -> Files] /\ FilesFresh /\ OthersUntouched /\ Named(dir.dest) /\ left.node \in Nat
  BY Zenon DEF SessionInv, SessionTyped, WritesOwn, Lefts
<1>2. CASE nodes' = nodes
  BY <1>1, <1>2, Zenon DEF FilesFresh, OthersUntouched, Ours, Named
<1>3. CASE nodes' # nodes
  <2>1. PICK n \in Nodes : Ours(n) /\ n # dir.dest /\ Touches(n)
    BY <1>3, Zenon DEF Writes
  <2>2. \A m \in Nodes : m # n => nodes'[m] = nodes[m]
    BY <2>1, Zenon DEF Touches
  <2>3. nodes' \in [Nodes -> Files] /\ nodes'[n].mine /\ nodes[n].mine /\ n < left.node
    BY <2>1, Zenon DEF Touches, Ours
  <2>4. FilesFresh'
    <3>1. \A m \in Nodes : m >= left.node => m # n
      BY <1>1, <2>3, SessionAssumption DEF Nodes
    <3>. QED
      BY <1>1, <2>2, <3>1, Zenon DEF FilesFresh
  <2>5. OthersUntouched'
    BY <1>1, <2>2, <2>3, Zenon DEF OthersUntouched
  <2>6. \A m : Ours(m)' <=> Ours(m)
    BY <2>2, <2>3, Zenon DEF Ours
  <2>. QED
    BY <1>1, <2>1, <2>2, <2>3, <2>4, <2>5, <2>6, Zenon DEF Named
<1>. QED
  BY <1>2, <1>3, Zenon

(* What the invariant reads of the session after a step. *)
Now(pc, handle, seen, shared) ==
    sess' \in Sessions /\ sess'.pc = pc /\ sess'.handle = handle /\ sess'.seen = seen /\ sess'.shared = shared
Names(temp, dest) == dir' \in SessionDirs /\ dir'.temp = temp /\ dir'.dest = dest
Lends(node, alive) == lent' \in Lents /\ lent'.node = node /\ lent'.alive = alive
Ends == Now("idle", NoNode, NoNode, FALSE)
Stays == Names(dir.temp, dir.dest)
Marked(m) == mark' \in Marks /\ mark'.node = m

(* The pieces of the invariant, from those. *)
LEMMA SessionKept ==
    ASSUME SessionInv, Writes, left' \in Lefts, left'.node = left.node,
           dir' \in SessionDirs, sess' \in Sessions, lent' \in Lents, mark' \in Marks,
           (\A m : Ours(m)' <=> Ours(m)) /\ (\A m : Named(m)' <=> Named(m)) => WritesOwn' /\ LentOnly'
    PROVE  SessionInv'
  BY FilesKept, Zenon DEF SessionInv, SessionTyped

(* Steps of the session and its file. *)
LEMMA ClosedIs == ASSUME sess' = Closed PROVE Ends
  BY Zenon DEF Closed, Ends, Now, Sessions, SessionSteps, NoNode

(* An operation that may fail counts the fault and nothing else. *)
LEMMA FaultKeeps ==
    ASSUME left \in Lefts, IoFault \/ Unfailing
    PROVE  left' \in Lefts /\ left'.node = left.node
  BY DEF IoFault, Unfailing, Lefts

(* Removing the temporary file takes its name away. *)
LEMMA RemoveIs ==
    ASSUME dir \in SessionDirs, dir' = RemoveTemp(dir)
    PROVE  Names(NoNode, dir.dest)
  BY Zenon DEF RemoveTemp, Names, SessionDirs, NoNode

(* A session that ends keeps its temporary file or removes it. *)
LEMMA EndIs ==
    ASSUME dir \in SessionDirs, NEW failing, EndSession(sess, failing)
    PROVE  Ends /\ (Stays \/ Names(NoNode, dir.dest))
  BY ClosedIs, RemoveIs, Zenon DEF EndSession, Dropped, Stays, Names

(* A write changes the content of one file. *)
LEMMA WriteIs ==
    ASSUME nodes \in [Nodes -> Files], NEW n \in Nodes, NEW b \in Blocks, WriteBlock(n, b)
    PROVE  Touches(n)
<1>1. nodes[n] \in Files /\ b \in Nat
  BY SessionAssumption DEF Blocks
<1>2. nodes[n].blocks \cup {b} \in SUBSET Nat /\ (IF nodes[n].len > b THEN nodes[n].len ELSE b + 1) \in Lengths
  BY <1>1 DEF Files, Lengths
<1>3. nodes' = [nodes EXCEPT ![n] = [nodes[n] EXCEPT !.blocks = nodes[n].blocks \cup {b},
                                        !.len = IF nodes[n].len > b THEN nodes[n].len ELSE b + 1]]
  BY Zenon DEF WriteBlock
<1>. QED
  BY <1>1, <1>2, <1>3, Zenon DEF Touches, Files

(* A step after which the session is at pc with its handle, and its temp name
   kept or removed, while capabilities and destination stay. *)
Fits(pc, handle, seen, shared, temp) ==
    /\ pc = "validate" => temp = NoNode \/ Ours(temp)
    /\ pc = "opening" => Ours(seen) /\ seen # dir.dest
    /\ pc \in {"opened", "prepare", "open"} => Ours(handle) /\ handle # dir.dest
    /\ pc \in {"prepare", "open"} => temp = handle
    /\ shared => pc = "open" /\ (lent.alive > 0 => lent.node = handle)
    /\ pc # "idle" /\ ~shared => lent.alive = 0

(* Such a step keeps the invariant. *)
LEMMA SessionMoves ==
    ASSUME SessionInv, Writes, left' \in Lefts, left'.node = left.node, lent' = lent,
           NEW m \in {mark.node, NoNode}, Marked(m),
           NEW temp \in {dir.temp, NoNode}, Names(temp, dir.dest),
           NEW pc, NEW handle, NEW seen, NEW shared, Now(pc, handle, seen, shared), Fits(pc, handle, seen, shared, temp)
    PROVE  SessionInv'
<1>1. ASSUME \A n : Ours(n)' <=> Ours(n), \A n : Named(n)' <=> Named(n)
      PROVE  WritesOwn' /\ LentOnly'
  <2>1. dir'.temp = temp /\ dir'.dest = dir.dest /\ mark'.node = m
    BY Zenon DEF Names, Marked
  <2>2. sess'.pc = pc /\ sess'.handle = handle /\ sess'.seen = seen /\ sess'.shared = shared
    BY Zenon DEF Now
  <2>3. WritesOwn /\ Named(NoNode)
    BY Zenon DEF SessionInv, Named
  <2>4. Named(dir.temp)' /\ Named(dir.dest)' /\ (mark'.node # NoNode => Ours(mark.node)')
    BY <1>1, <2>1, <2>3, Zenon DEF WritesOwn, Named, Ours
  <2>5. lent'.alive > 0 => Ours(lent.node)' /\ lent'.node # dir'.dest
    BY <1>1, <2>1, <2>3, Zenon DEF WritesOwn, Ours
  <2>6. WritesOwn'
    BY <1>1, <2>1, <2>2, <2>4, <2>5, Zenon DEF WritesOwn, Fits
  <2>. QED
    BY <2>2, <2>6, Zenon DEF LentOnly, Fits
<1>. QED
  BY <1>1, SessionKept, Zenon DEF Now, Names, Marked, SessionInv, SessionTyped

(* Whatever writes, writes to a file of the engine that is not the published one. *)
LEMMA StepWrites ==
    ASSUME SessionInv, Prepare \/ write_at \/ write_blocking \/ Verify
    PROVE  Writes
<1>0. nodes \in [Nodes -> Files] /\ sess \in Sessions /\ WritesOwn
  BY Zenon DEF SessionInv, SessionTyped
<1>1. CASE nodes' = nodes
  BY <1>1, Zenon DEF Writes
<1>2. CASE Prepare /\ nodes' = [nodes EXCEPT ![sess.handle].len = Size]
  <2>1. Ours(sess.handle) /\ sess.handle # dir.dest
    BY <1>0, <1>2, Zenon DEF Prepare, AtStep, WritesOwn
  <2>. QED
    BY <1>0, <1>2, <2>1, SessionAssumption DEF Writes, Touches, Ours, Files, Lengths
<1>3. ASSUME NEW b \in Blocks, write_at, WriteBlock(sess.handle, b) PROVE Writes
  <2>1. Ours(sess.handle) /\ sess.handle # dir.dest
    BY <1>0, <1>3, Zenon DEF write_at, Exclusive, AtStep, WritesOwn
  <2>. QED
    BY <1>0, <1>3, <2>1, WriteIs, Zenon DEF Writes, Ours
<1>4. ASSUME NEW b \in Blocks, write_blocking, WriteBlock(lent.node, b) PROVE Writes
  <2>1. Ours(lent.node) /\ lent.node # dir.dest
    BY <1>0, <1>4, Zenon DEF write_blocking, WritesOwn
  <2>. QED
    BY <1>0, <1>4, <2>1, WriteIs, Zenon DEF Writes, Ours
<1>5. CASE Verify /\ nodes' = [nodes EXCEPT ![sess.handle].len = Accepted,
                                            ![sess.handle].blocks = @ \cap 0 .. Accepted - 1]
  <2>1. Ours(sess.handle) /\ sess.handle # dir.dest
    BY <1>0, <1>5, Zenon DEF Verify, Exclusive, AtStep, WritesOwn
  <2>2. sess.handle \in Nodes /\ nodes[sess.handle] \in Files /\ Accepted \in Lengths
    BY <1>0, <2>1, Zenon DEF Ours, Accepted, Lengths, Sessions
  <2>3. nodes' = [nodes EXCEPT ![sess.handle] = [nodes[sess.handle] EXCEPT !.len = Accepted,
                                 !.blocks = nodes[sess.handle].blocks \cap 0 .. Accepted - 1]]
    BY <1>5, Zenon
  <2>4. nodes[sess.handle].blocks \cap 0 .. Accepted - 1 \in SUBSET Nat
    BY <2>2, Zenon DEF Files
  <2>5. Touches(sess.handle)
    BY <1>0, <2>2, <2>3, <2>4, Zenon DEF Touches, Files
  <2>. QED
    BY <2>1, <2>2, <2>5, Zenon DEF Writes
<1>6. CASE Prepare
  BY <1>1, <1>2, <1>6, Zenon DEF Prepare
<1>7. CASE write_at
  BY <1>1, <1>3, <1>7, Zenon DEF write_at
<1>8. CASE write_blocking
  BY <1>4, <1>8, Zenon DEF write_blocking
<1>9. CASE Verify
  BY <1>1, <1>5, <1>9, Zenon DEF Verify
<1>. QED
  BY <1>6, <1>7, <1>8, <1>9, Zenon

(* A step that gives out the next number. *)
LEMMA NumberGiven ==
    ASSUME SessionInv, left.node \in Nodes, left'.node = left.node + 1,
           nodes' \in [Nodes -> Files], \A m \in Nodes : m # left.node => nodes'[m] = nodes[m],
           nodes'[left.node].blocks = {}
    PROVE  /\ FilesFresh' /\ OthersUntouched'
           /\ \A m : (Ours(m) => Ours(m)') /\ (Named(m) => Named(m)') /\ (Named(m) => m # left.node)
           /\ \A m : m = left.node => Named(m)' /\ (nodes'[m].mine => Ours(m)')
<1>1. /\ nodes \in [Nodes -> Files] /\ FilesFresh /\ OthersUntouched /\ left.node \in Nat
      /\ left.node # NoNode /\ left.node # Elsewhere
  BY SessionAssumption DEF SessionInv, SessionTyped, Lefts, Nodes, NoNode, FilesFresh, Elsewhere
<1>2. FilesFresh'
  BY <1>1, SessionAssumption DEF FilesFresh, Nodes, Elsewhere
<1>3. OthersUntouched'
  BY <1>1, Zenon DEF OthersUntouched
<1>4. \A m \in Nodes : m < left.node => m < left.node + 1 /\ m # left.node
  BY <1>1, SessionAssumption DEF Nodes
<1>5. \A m : (Ours(m) => Ours(m)') /\ (Named(m) => Named(m)') /\ (Named(m) => m # left.node)
  BY <1>1, <1>4, Zenon DEF Ours, Named
<1>6. left.node < left.node + 1
  BY <1>1
<1>. QED
  BY <1>1, <1>2, <1>3, <1>5, <1>6, Zenon DEF Ours, Named

(* Every step of the session, of its capabilities and of other programs keeps the
   invariant, and so does a crash. *)
LEMMA SessionNextInv == SessionInv /\ [SessionNext]_sessionVars => SessionInv'
<1>. SUFFICES ASSUME SessionInv, [SessionNext]_sessionVars PROVE SessionInv'
  BY Zenon
<1>0. /\ dir \in SessionDirs /\ nodes \in [Nodes -> Files] /\ sess \in Sessions
      /\ lent \in Lents /\ mark \in Marks /\ left \in Lefts
      /\ WritesOwn /\ LentOnly /\ FilesFresh
  BY Zenon DEF SessionInv, SessionTyped
<1>m. (mark' = mark => Marked(mark.node)) /\ (mark' = NoMark => Marked(NoNode))
  BY <1>0 DEF Marked, Marks, NoMark, NoNode
<1>d. dir' = dir => Stays
  BY <1>0, Zenon DEF Stays, Names
(* The session ends. *)
<1>e. ASSUME Ends, nodes' = nodes, left' \in Lefts, left'.node = left.node, lent' = lent,
             mark' = mark \/ mark' = NoMark, Stays \/ Names(NoNode, dir.dest)
      PROVE  SessionInv'
  <2>1. Fits("idle", NoNode, NoNode, FALSE, dir.temp) /\ Fits("idle", NoNode, NoNode, FALSE, NoNode)
    BY Zenon DEF Fits
  <2>. QED
    BY <1>m, <1>e, <2>1, SessionMoves, Zenon DEF Ends, Stays, Writes
(* The session moves, everything else stays. *)
<1>s. ASSUME NEW pc, NEW handle, NEW seen, NEW shared, Now(pc, handle, seen, shared),
             Fits(pc, handle, seen, shared, dir.temp), UNCHANGED <<dir, nodes, lent>>, mark' = mark \/ mark' = NoMark,
             left' \in Lefts, left'.node = left.node
      PROVE  SessionInv'
  BY <1>m, <1>d, <1>s, SessionMoves, Zenon DEF Stays, Writes
<1>1. CASE Begin
  <2>0. PICK mode \in {"NoReplace", "Replace"}, known \in BOOLEAN :
            sess' = [Closed EXCEPT !.pc = "admit", !.mode = mode, !.known = known]
    BY <1>1, Zenon DEF Begin
  <2>1. Now("admit", NoNode, NoNode, FALSE)
    BY <2>0, Zenon DEF Now, Closed, Sessions, SessionSteps, NoNode
  <2>2. left' \in Lefts /\ left'.node = left.node
    BY <1>0, <1>1 DEF Begin, Lefts
  <2>3. Fits("admit", NoNode, NoNode, FALSE, dir.temp)
    BY <1>1, Zenon DEF Begin, Fits
  <2>. QED
    BY <1>1, <1>s, <2>1, <2>2, <2>3, Zenon DEF Begin
<1>l. IoFault \/ Unfailing => left' \in Lefts /\ left'.node = left.node
  BY <1>0, FaultKeeps, Zenon
<1>c. sess' = Closed => Ends
  BY ClosedIs, Zenon
<1>r. dir' = RemoveTemp(dir) => Names(NoNode, dir.dest)
  BY <1>0, RemoveIs, Zenon
<1>2. CASE Admit
  <2>1. CASE sess' = [sess EXCEPT !.pc = "validate", !.accepted = Reusable] /\ mark # NoMark /\ verify_local_binding /\ mark' = mark
    <3>1. Reusable \in SUBSET Nat
      BY <1>0, Zenon DEF Reusable, Prefix, Marks
    <3>2. Now("validate", sess.handle, sess.seen, sess.shared)
      BY <1>0, <2>1, <3>1, Zenon DEF Now, Sessions, SessionSteps
    <3>3. Fits("validate", sess.handle, sess.seen, sess.shared, dir.temp)
      BY <1>0, <1>2, <2>1, Zenon DEF Admit, AtStep, Fits, verify_local_binding, WritesOwn, LentOnly
    <3>. QED
      BY <1>0, <1>2, <1>s, <2>1, <3>2, <3>3, Zenon DEF Admit
  <2>2. CASE sess' = [sess EXCEPT !.pc = "create"] /\ mark' = NoMark
    <3>1. Now("create", sess.handle, sess.seen, sess.shared)
      BY <1>0, <2>2, Zenon DEF Now, Sessions, SessionSteps
    <3>2. Fits("create", sess.handle, sess.seen, sess.shared, dir.temp)
      BY <1>0, <1>2, Zenon DEF Admit, AtStep, Fits, LentOnly
    <3>. QED
      BY <1>0, <1>2, <1>s, <2>2, <3>1, <3>2, Zenon DEF Admit
  <2>. QED
    BY <1>2, <2>1, <2>2, Zenon DEF Admit
<1>3. CASE Unlink
  <2>1. CASE dir' = RemoveTemp(dir) /\ sess' = [sess EXCEPT !.pc = "create_new"] /\ Unfailing
    <3>1. Now("create_new", sess.handle, sess.seen, sess.shared)
      BY <1>0, <2>1, Zenon DEF Now, Sessions, SessionSteps
    <3>2. Fits("create_new", sess.handle, sess.seen, sess.shared, NoNode)
      BY <1>0, <1>3, Zenon DEF Unlink, AtStep, Fits, LentOnly
    <3>3. Marked(mark.node) /\ Writes
      BY <1>3, <1>m, Zenon DEF Unlink, Writes
    <3>. QED
      BY <1>3, <1>l, <1>r, <2>1, <3>1, <3>2, <3>3, SessionMoves, Zenon DEF Unlink
  <2>2. CASE IoFault /\ sess' = Closed /\ dir' = dir
    BY <1>3, <1>c, <1>d, <1>e, <1>l, <2>2 DEF Unlink
  <2>. QED
    BY <1>3, <2>1, <2>2, Zenon DEF Unlink
<1>4. CASE Validate
  <2>1. CASE validate_owned_regular_file /\ sess' = [sess EXCEPT !.pc = "opening", !.seen = dir.temp]
    <3>1. Now("opening", sess.handle, dir.temp, sess.shared)
      BY <1>0, <2>1, Zenon DEF Now, Sessions, SessionSteps, SessionDirs
    <3>2. Fits("opening", sess.handle, dir.temp, sess.shared, dir.temp)
      BY <1>0, <1>4, <2>1 DEF Validate, AtStep, Fits, WritesOwn, LentOnly, validate_owned_regular_file, links
    <3>. QED
      BY <1>0, <1>4, <1>s, <3>1, <3>2, Zenon DEF Validate
  <2>2. CASE sess' = Closed
    BY <1>0, <1>4, <1>c, <1>d, <1>e, <2>2, Zenon DEF Validate
  <2>. QED
    BY <1>4, <2>1, <2>2, Zenon DEF Validate, Refused
<1>5. CASE OpenFile
  <2>1. CASE same_file_identity(sess.seen, Opened) /\ sess' = [sess EXCEPT !.pc = "opened", !.handle = Opened]
    <3>1. Now("opened", sess.seen, sess.seen, sess.shared)
      BY <1>0, <2>1, Zenon DEF Now, Sessions, SessionSteps, same_file_identity
    <3>2. Fits("opened", sess.seen, sess.seen, sess.shared, dir.temp)
      BY <1>0, <1>5, Zenon DEF OpenFile, AtStep, Fits, WritesOwn, LentOnly
    <3>. QED
      BY <1>0, <1>5, <1>s, <3>1, <3>2, Zenon DEF OpenFile
  <2>2. CASE sess' = Closed
    BY <1>0, <1>5, <1>c, <1>d, <1>e, <2>2, Zenon DEF OpenFile
  <2>. QED
    BY <1>5, <2>1, <2>2, Zenon DEF OpenFile, Refused
<1>6. CASE Recheck
  <2>1. CASE /\ same_file_identity(sess.handle, dir.temp)
             /\ sess' = [sess EXCEPT !.pc = "open", !.own = sess.handle, !.keep = TRUE, !.seen = NoNode]
    <3>1. Now("open", sess.handle, NoNode, sess.shared)
      BY <1>0, <2>1, Zenon DEF Now, Sessions, SessionSteps, NoNode
    <3>2. Fits("open", sess.handle, NoNode, sess.shared, dir.temp)
      BY <1>0, <1>6, <2>1, Zenon DEF Recheck, AtStep, Fits, WritesOwn, LentOnly, same_file_identity
    <3>. QED
      BY <1>0, <1>6, <1>s, <3>1, <3>2, Zenon DEF Recheck
  <2>2. CASE sess' = Closed
    BY <1>0, <1>6, <1>c, <1>d, <1>e, <2>2, Zenon DEF Recheck
  <2>. QED
    BY <1>6, <2>1, <2>2, Zenon DEF Recheck, Refused
<1>7. CASE Prepare
  <2>1. PICK resumable \in BOOLEAN :
          LET open == [sess EXCEPT !.pc = "open", !.keep = resumable] IN
          \/ /\ sess.known /\ sess' = open
             /\ nodes' = [nodes EXCEPT ![sess.handle].len = Size]
             /\ Unfailing /\ UNCHANGED dir
          \/ sess' = open /\ Unfailing /\ UNCHANGED <<dir, nodes>>
          \/ sess.known /\ IoFault /\ EndSession(sess, FALSE) /\ UNCHANGED nodes
    BY <1>7, Zenon DEF Prepare
  <2>2. CASE sess' = [sess EXCEPT !.pc = "open", !.keep = resumable] /\ Unfailing /\ dir' = dir
             /\ (nodes' = nodes \/ nodes' = [nodes EXCEPT ![sess.handle].len = Size])
    <3>1. Now("open", sess.handle, sess.seen, sess.shared)
      BY <1>0, <2>2, Zenon DEF Now, Sessions, SessionSteps
    <3>2. Fits("open", sess.handle, sess.seen, sess.shared, dir.temp)
      BY <1>0, <1>7, Zenon DEF Prepare, AtStep, Fits, WritesOwn, LentOnly
    <3>. QED
      BY <1>7, <1>d, <1>l, <1>m, <2>2, <3>1, <3>2, StepWrites, SessionMoves, Zenon DEF Prepare, Stays
  <2>3. CASE IoFault /\ EndSession(sess, FALSE) /\ nodes' = nodes
    BY <1>0, <1>7, <1>e, <1>l, <2>3, EndIs, Zenon DEF Prepare
  <2>. QED
    BY <2>1, <2>2, <2>3, Zenon
<1>8. CASE write_at
  <2>1. PICK b \in Blocks : \/ WriteBlock(sess.handle, b) /\ Unfailing /\ sess' = [sess EXCEPT !.accepted = @ \cup {b}]
                            \/ IoFault /\ UNCHANGED <<nodes, sess>>
    BY <1>8, Zenon DEF write_at
  <2>2. Now("open", sess.handle, sess.seen, sess.shared)
    BY <1>0, <1>8, <2>1, SessionAssumption DEF write_at, Exclusive, AtStep, Now, Sessions, Blocks
  <2>3. Fits("open", sess.handle, sess.seen, sess.shared, dir.temp)
    BY <1>0, <1>8, Zenon DEF write_at, Exclusive, AtStep, Fits, WritesOwn, LentOnly
  <2>. QED
    BY <1>8, <1>d, <1>l, <1>m, <2>1, <2>2, <2>3, StepWrites, SessionMoves, Zenon DEF write_at, Stays
<1>9. CASE write_blocking
  <2>1. PICK b \in Blocks : /\ WriteBlock(lent.node, b)
                            /\ sess' = IF sess.shared THEN [sess EXCEPT !.accepted = @ \cup {b}] ELSE sess
    BY <1>9, Zenon DEF write_blocking
  <2>2. Now(sess.pc, sess.handle, sess.seen, sess.shared)
    BY <1>0, <2>1, SessionAssumption DEF Now, Sessions, Blocks
  <2>3. Fits(sess.pc, sess.handle, sess.seen, sess.shared, dir.temp)
    BY <1>0, Zenon DEF Fits, WritesOwn, LentOnly
  <2>. QED
    BY <1>0, <1>9, <1>d, <1>m, <2>2, <2>3, StepWrites, SessionMoves, Zenon DEF write_blocking, Stays
<1>10. CASE reclaim_exclusive
  <2>1. Now("open", sess.handle, sess.seen, FALSE)
    BY <1>0, <1>10, Zenon DEF reclaim_exclusive, AtStep, Now, Sessions, SessionSteps, Unwritten
  <2>2. Fits("open", sess.handle, sess.seen, FALSE, dir.temp)
    BY <1>0, <1>10, Zenon DEF reclaim_exclusive, AtStep, Fits, WritesOwn, LentOnly, Unwritten
  <2>. QED
    BY <1>0, <1>10, <1>s, <2>1, <2>2, Zenon DEF reclaim_exclusive
<1>11. CASE preserve_partial
  <2>1. Now("open", sess.handle, sess.seen, sess.shared)
    BY <1>0, <1>11, Zenon DEF preserve_partial, AtStep, Now, Sessions, SessionSteps
  <2>2. Fits("open", sess.handle, sess.seen, sess.shared, dir.temp)
    BY <1>0, <1>11, Zenon DEF preserve_partial, AtStep, Fits, WritesOwn, LentOnly
  <2>. QED
    BY <1>0, <1>11, <1>s, <2>1, <2>2, Zenon DEF preserve_partial
<1>12. CASE SaveMark
  <2>1. Now("open", sess.handle, sess.seen, sess.shared)
    BY <1>0, <1>12, Zenon DEF SaveMark, AtStep, Now, Sessions
  <2>2. mark' \in Marks /\ mark'.node = dir.temp /\ Ours(dir.temp)
    BY <1>0, <1>12, Zenon DEF SaveMark, AtStep, Marks, Sessions, SessionDirs, WritesOwn
  <2>3. ASSUME \A n : Ours(n)' <=> Ours(n), \A n : Named(n)' <=> Named(n)
        PROVE  WritesOwn' /\ LentOnly'
    BY <1>0, <1>12, <2>1, <2>2, <2>3, Zenon DEF SaveMark, AtStep, Now, WritesOwn, LentOnly
  <2>. QED
    BY <1>0, <1>12, <2>1, <2>2, <2>3, SessionKept, Zenon DEF SaveMark, Now, Writes
<1>13. CASE abort
  <2>1. CASE dir' = RemoveTemp(dir) /\ sess' = Closed /\ Unfailing
    BY <1>13, <1>c, <1>e, <1>l, <1>r, <2>1, Zenon DEF abort
  <2>2. ASSUME NEW failing \in BOOLEAN, IoFault, EndSession(sess, failing) PROVE SessionInv'
    BY <1>0, <1>13, <1>e, <1>l, <2>2, EndIs, Zenon DEF abort
  <2>. QED
    BY <1>13, <2>1, <2>2, Zenon DEF abort
<1>14. CASE Drop
  BY <1>0, <1>14, <1>e, EndIs, Zenon DEF Drop
<1>15. CASE RestartFromDurable
  <2>1. Now("validate", NoNode, sess.seen, FALSE)
    BY <1>0, <1>15, Zenon DEF RestartFromDurable, Now, Sessions, SessionSteps, Exclusive, AtStep, Prefix, NoNode
  <2>2. Fits("validate", NoNode, sess.seen, FALSE, dir.temp)
    BY <1>0, <1>15, Zenon DEF RestartFromDurable, Fits, WritesOwn, LentOnly, Exclusive, AtStep, Prefix, NoNode
  <2>. QED
    BY <1>0, <1>15, <1>s, <2>1, <2>2, Zenon DEF RestartFromDurable
<1>16. CASE RestartFromZero
  <2>1. Now("create", NoNode, sess.seen, FALSE)
    BY <1>0, <1>16, Zenon DEF RestartFromZero, Exclusive, AtStep, Now, Sessions, SessionSteps, NoNode
  <2>2. Fits("create", NoNode, sess.seen, FALSE, dir.temp) /\ Fits("create", NoNode, sess.seen, FALSE, NoNode)
    BY <1>0, <1>16, Zenon DEF RestartFromZero, Exclusive, AtStep, Fits, LentOnly
  <2>3. (left' \in Lefts /\ left'.node = left.node) /\ (Stays \/ Names(NoNode, dir.dest))
    BY <1>16, <1>l, <1>r, <1>d, Zenon DEF RestartFromZero
  <2>4. Writes /\ lent' = lent /\ Marked(mark.node)
    BY <1>16, <1>m DEF RestartFromZero, Writes
  <2>. QED
    BY <2>1, <2>2, <2>3, <2>4, SessionMoves, Zenon DEF Stays
<1>17. CASE CreateNew
  <2>1. CASE /\ dir.temp = NoNode /\ left.node <= MaxNode
             /\ dir' = [dir EXCEPT !.temp = left.node]
             /\ sess' = [sess EXCEPT !.pc = "prepare", !.handle = left.node, !.own = left.node]
             /\ left' = [left EXCEPT !.node = @ + 1]
    <3>0. UNCHANGED <<nodes, lent, mark>> /\ sess.pc = "create_new"
      BY <1>17, Zenon DEF CreateNew, AtStep
    <3>1. left.node \in Nodes /\ left' \in Lefts /\ left'.node = left.node + 1
      BY <1>0, <2>1, SessionAssumption DEF Lefts, Nodes, FilesFresh, Elsewhere
    <3>2. nodes[left.node].mine /\ nodes[left.node].blocks = {}
      BY <1>0, <3>1 DEF FilesFresh, Lefts
    <3>3. Now("prepare", left.node, sess.seen, sess.shared) /\ Names(left.node, dir.dest)
      BY <1>0, <2>1, <3>1, Zenon DEF Now, Names, Sessions, SessionSteps, SessionDirs, Lefts
    <3>4. /\ FilesFresh' /\ OthersUntouched'
          /\ \A m : m = left.node => Named(m)' /\ Ours(m)'
          /\ \A m : (Ours(m) => Ours(m)') /\ (Named(m) => Named(m)') /\ (Named(m) => m # left.node)
      BY <1>0, <3>0, <3>1, <3>2, NumberGiven, Zenon
    <3>5. /\ Named(dir.dest) /\ left.node # dir.dest /\ (mark.node # NoNode => Ours(mark.node))
          /\ lent.alive = 0 /\ ~(lent.alive > 0) /\ ~sess.shared
      BY <1>0, <3>0, <3>4 DEF WritesOwn, LentOnly
    <3>6. WritesOwn'
      <4>1. /\ dir'.temp = left.node /\ dir'.dest = dir.dest /\ sess'.handle = left.node /\ sess'.pc = "prepare"
            /\ mark' = mark /\ ~(lent'.alive > 0)
        BY <3>0, <3>3, <3>5, Zenon DEF Now, Names
      <4>. QED
        BY <3>4, <3>5, <4>1, Zenon DEF WritesOwn, Ours, Named
    <3>7. LentOnly'
      BY <3>0, <3>3, <3>5, Zenon DEF LentOnly, Now
    <3>. QED
      BY <1>0, <3>0, <3>1, <3>3, <3>4, <3>6, <3>7, Zenon DEF SessionInv, SessionTyped, Now, Names
  <2>2. CASE sess' = Closed /\ UNCHANGED <<dir, left>>
    BY <1>0, <1>17, <1>c, <1>d, <1>e, <2>2, Zenon DEF CreateNew
  <2>. QED
    BY <1>17, <2>1, <2>2, Zenon DEF CreateNew
<1>18. CASE Intrude
  <2>1. PICK name \in {"temp", "dest"}, kind \in {"file", "link"} :
          /\ name = "temp" => sess.pc \in StrangersAt
          /\ name = "dest" => dir.dest = NoNode /\ kind = "file"
          /\ dir' = [dir EXCEPT ![name] = left.node]
          /\ nodes' = [nodes EXCEPT ![left.node] = [PlainFile(FALSE, Size) EXCEPT !.kind = kind]]
    BY <1>18, Zenon DEF Intrude
  <2>2. left.node \in Nodes /\ left' \in Lefts /\ left'.node = left.node + 1 /\ UNCHANGED <<sess, lent, mark>>
    <3>1. /\ left.strangers > 0 /\ left.node <= MaxNode /\ UNCHANGED <<sess, lent, mark>>
          /\ left' = [left EXCEPT !.strangers = left.strangers - 1, !.node = left.node + 1]
      BY <1>18, Zenon DEF Intrude
    <3>2. left.node \in Nodes
      BY <1>0, <3>1, SessionAssumption DEF Lefts, Nodes, FilesFresh, Elsewhere
    <3>3. left \in Lefts
      BY <1>0, Zenon
    <3>4. left.strangers - 1 \in Nat /\ left.node + 1 \in Nat
      BY <3>1, <3>3 DEF Lefts
    <3>5. left' \in Lefts /\ left'.node = left.node + 1
      BY ONLY <3>1, <3>3, <3>4, Zenon DEF Lefts
    <3>. QED
      BY <3>1, <3>2, <3>5, Zenon
  <2>3. [PlainFile(FALSE, Size) EXCEPT !.kind = kind] \in Files
        /\ [PlainFile(FALSE, Size) EXCEPT !.kind = kind].blocks = {}
    <3>1. PlainFile(FALSE, Size) \in Files /\ PlainFile(FALSE, Size).blocks = {}
      BY SessionAssumption, Zenon DEF PlainFile, Files, Lengths
    <3>. QED
      BY <3>1, Zenon DEF Files
  <2>4. /\ nodes' \in [Nodes -> Files] /\ nodes'[left.node].blocks = {}
        /\ \A m \in Nodes : m # left.node => nodes'[m] = nodes[m]
    BY <1>0, <2>1, <2>2, <2>3, Zenon
  <2>5. /\ FilesFresh' /\ OthersUntouched'
        /\ \A m : m = left.node => Named(m)'
        /\ \A m : (Ours(m) => Ours(m)') /\ (Named(m) => Named(m)') /\ (Named(m) => m # left.node)
    BY <1>0, <2>2, <2>4, NumberGiven, Zenon
  <2>6. (name = "temp" => Names(left.node, dir.dest)) /\ (name = "dest" => Names(dir.temp, left.node))
    BY <1>0, <2>1, <2>2, Zenon DEF Names, SessionDirs, Lefts
  <2>7. \A m : Ours(m) => m # left.node
    BY <2>5, Zenon DEF Ours, Named
  <2>8. WritesOwn'
    <3>1. CASE name = "temp"
      <4>1. dir'.temp = left.node /\ dir'.dest = dir.dest /\ sess.pc \notin {"validate", "prepare", "open"}
        BY <2>1, <2>6, <3>1, SessionAssumption, Zenon DEF Names
      <4>. QED
        BY <1>0, <2>2, <2>5, <4>1, Zenon DEF WritesOwn, Ours, Named
    <3>2. CASE name = "dest"
      <4>1. dir'.temp = dir.temp /\ dir'.dest = left.node
        BY <2>6, <3>2, Zenon DEF Names
      <4>. QED
        BY <1>0, <2>2, <2>5, <2>7, <4>1, Zenon DEF WritesOwn, Ours, Named
    <3>. QED
      BY <3>1, <3>2, Zenon
  <2>. QED
    BY <1>0, <2>2, <2>4, <2>5, <2>6, <2>8, Zenon DEF SessionInv, SessionTyped, Names, LentOnly
(* The capabilities change, the directory and the files stay. *)
<1>a. ASSUME NEW pc, NEW handle, NEW seen, NEW shared, Now(pc, handle, seen, shared),
             NEW node, NEW alive, Lends(node, alive), UNCHANGED <<dir, nodes, mark, left>>,
             pc = "idle" \/ (pc = sess.pc /\ handle = sess.handle /\ seen = sess.seen),
             alive > 0 => Ours(node) /\ node # dir.dest,
             shared => pc = "open" /\ (alive > 0 => node = handle),
             pc # "idle" /\ ~shared => alive = 0
      PROVE  SessionInv'
  <2>1. /\ sess'.pc = pc /\ sess'.handle = handle /\ sess'.seen = seen /\ sess'.shared = shared
        /\ lent'.node = node /\ lent'.alive = alive /\ dir' = dir /\ mark' = mark
    BY <1>a, Zenon DEF Now, Lends
  <2>2. ASSUME \A n : Ours(n)' <=> Ours(n), \A n : Named(n)' <=> Named(n)
        PROVE  WritesOwn' /\ LentOnly'
    <3>1. WritesOwn'
      BY <1>0, <1>a, <2>1, <2>2, Zenon DEF WritesOwn, Ours, Named
    <3>2. LentOnly'
      BY <1>a, <2>1, Zenon DEF LentOnly
    <3>. QED
      BY <3>1, <3>2, Zenon
  <2>. QED
    BY <1>0, <1>a, <2>2, SessionKept, Zenon DEF Now, Lends, Writes
<1>19. CASE share_write_handles
  <2>1. PICK count \in 1 .. MaxWriters : lent' = [node |-> sess.handle, alive |-> count]
    BY <1>19, Zenon DEF share_write_handles
  <2>2. Now("open", sess.handle, sess.seen, TRUE) /\ sess.pc = "open" /\ Ours(sess.handle) /\ sess.handle # dir.dest
    BY <1>0, <1>19, Zenon DEF share_write_handles, Exclusive, AtStep, Now, Sessions, WritesOwn
  <2>3. Lends(sess.handle, count)
    BY <1>0, <2>1, SessionAssumption DEF Lends, Lents, Sessions
  <2>. QED
    BY <1>19, <1>a, <2>2, <2>3, Zenon DEF share_write_handles
<1>20. CASE clone_capability
  <2>1. Now(sess.pc, sess.handle, sess.seen, sess.shared) /\ lent.alive > 0
    BY <1>0, <1>20, SessionAssumption DEF clone_capability, Now
  <2>2. Lends(lent.node, lent.alive + 1)
    BY <1>0, <1>20 DEF clone_capability, Lends, Lents
  <2>3. Ours(lent.node) /\ lent.node # dir.dest /\ (sess.pc # "idle" => sess.shared)
    BY <1>0, <2>1 DEF WritesOwn, LentOnly
  <2>4. sess.shared => sess.pc = "open" /\ lent.node = sess.handle
    BY <1>0, <2>1, Zenon DEF LentOnly
  <2>. QED
    BY <1>20, <1>a, <2>1, <2>2, <2>3, <2>4 DEF clone_capability
<1>21. CASE DropCapability
  <2>1. Now(sess.pc, sess.handle, sess.seen, sess.shared) /\ lent.alive > 0
    BY <1>0, <1>21, Zenon DEF DropCapability, Now
  <2>2. Lends(IF lent.alive = 1 THEN NoNode ELSE lent.node, lent.alive - 1)
    BY <1>0, <1>21 DEF DropCapability, Lends, Lents, NoNode
  <2>3. Ours(lent.node) /\ lent.node # dir.dest /\ (sess.pc # "idle" => sess.shared)
    BY <1>0, <2>1 DEF WritesOwn, LentOnly
  <2>4. sess.shared => sess.pc = "open" /\ lent.node = sess.handle
    BY <1>0, <2>1, Zenon DEF LentOnly
  <2>5. lent.alive - 1 > 0 => (IF lent.alive = 1 THEN NoNode ELSE lent.node) = lent.node
    BY <1>0 DEF Lents
  <2>. QED
    BY <1>21, <1>a, <2>1, <2>2, <2>3, <2>4, <2>5 DEF DropCapability
<1>22. CASE Crash
  <2>1. Ends /\ Lends(NoNode, 0) /\ ~(0 > 0)
    BY <1>22, <1>c DEF Crash, Lends, Lents, NoNode
  <2>2. Fits("idle", NoNode, NoNode, FALSE, dir.temp)
    BY Zenon DEF Fits
  <2>. QED
    BY <1>22, <1>a, <2>1, <2>2, Zenon DEF Crash, Ends
<1>23. CASE Verify
  <2>1. Now("verified", sess.handle, sess.seen, sess.shared)
    BY <1>0, <1>23, Zenon DEF Verify, Now, Sessions, SessionSteps
  <2>2. Fits("verified", sess.handle, sess.seen, sess.shared, dir.temp)
    BY <1>0, <1>23, Zenon DEF Verify, Exclusive, AtStep, Fits, LentOnly
  <2>. QED
    BY <1>0, <1>23, <1>d, <1>m, <2>1, <2>2, StepWrites, SessionMoves, Zenon DEF Verify, Stays
<1>24. CASE finalize
  <2>1. CASE /\ sess' = [sess EXCEPT !.pc = "finalized", !.finalized = TRUE, !.handle = NoNode]
             /\ Unfailing /\ UNCHANGED dir
    <3>1. Now("finalized", NoNode, sess.seen, sess.shared)
      BY <1>0, <2>1, Zenon DEF Now, Sessions, SessionSteps, NoNode
    <3>2. Fits("finalized", NoNode, sess.seen, sess.shared, dir.temp)
      BY <1>0, <1>24, Zenon DEF finalize, AtStep, Fits, LentOnly
    <3>. QED
      BY <1>24, <1>l, <1>s, <2>1, <3>1, <3>2, Zenon DEF finalize
  <2>2. CASE IoFault /\ EndSession(sess, FALSE)
    BY <1>0, <1>24, <1>e, <1>l, <2>2, EndIs, Zenon DEF finalize
  <2>. QED
    BY <1>24, <2>1, <2>2, Zenon DEF finalize
<1>25. CASE commit_with_policy
  <2>1. CASE sess' = [sess EXCEPT !.pc = "publish", !.handle = NoNode]
    <3>1. Now("publish", NoNode, sess.seen, sess.shared)
      BY <1>0, <2>1, Zenon DEF Now, Sessions, SessionSteps, NoNode
    <3>2. Fits("publish", NoNode, sess.seen, sess.shared, dir.temp)
      BY <1>0, <1>25, Zenon DEF commit_with_policy, AtStep, Fits, LentOnly
    <3>. QED
      BY <1>0, <1>25, <1>s, <3>1, <3>2, Zenon DEF commit_with_policy
  <2>2. CASE sess' = Closed
    BY <1>0, <1>25, <1>c, <1>d, <1>e, <2>2, Zenon DEF commit_with_policy
  <2>. QED
    BY <1>25, <2>1, <2>2, Zenon DEF commit_with_policy
<1>26. CASE PublishFails
  BY <1>0, <1>26, <1>c, <1>d, <1>e, <1>l, Zenon DEF PublishFails
<1>27. CASE RemoveLink
  <2>1. Now("published", sess.handle, sess.seen, sess.shared)
    BY <1>0, <1>27, Zenon DEF RemoveLink, Now, Sessions, SessionSteps
  <2>2. /\ Fits("published", sess.handle, sess.seen, sess.shared, dir.temp)
        /\ Fits("published", sess.handle, sess.seen, sess.shared, NoNode)
    BY <1>0, <1>27, Zenon DEF RemoveLink, AtStep, Fits, LentOnly
  <2>3. (left' \in Lefts /\ left'.node = left.node) /\ (Stays \/ Names(NoNode, dir.dest))
    BY <1>27, <1>l, <1>r, <1>d, Zenon DEF RemoveLink
  <2>4. Writes /\ lent' = lent /\ Marked(mark.node)
    BY <1>27, <1>m, Zenon DEF RemoveLink, Writes
  <2>. QED
    BY <2>1, <2>2, <2>3, <2>4, SessionMoves, Zenon DEF Stays
<1>28. CASE DeleteMark
  BY <1>28, <1>c, <1>d, <1>e, <1>l, Zenon DEF DeleteMark
(* The destination gets a new file while no capability is out. *)
<1>p. ASSUME NEW pc, pc \in {"published", "linked"}, Now(pc, sess.handle, sess.seen, FALSE), lent.alive = 0,
             NEW temp \in {dir.temp, NoNode}, Names(temp, dir.temp), UNCHANGED <<nodes, lent, mark, left>>
      PROVE  SessionInv'
  <2>1. /\ sess'.pc = pc /\ sess'.shared = FALSE /\ dir'.temp = temp /\ dir'.dest = dir.temp
        /\ lent'.alive = 0 /\ ~(lent'.alive > 0) /\ mark' = mark
    BY <1>p DEF Now, Names
  <2>2. ASSUME \A n : Ours(n)' <=> Ours(n), \A n : Named(n)' <=> Named(n)
        PROVE  WritesOwn' /\ LentOnly'
    <3>1. WritesOwn'
      BY <1>0, <1>p, <2>1, <2>2, Zenon DEF WritesOwn, Ours, Named
    <3>2. LentOnly'
      BY <2>1, Zenon DEF LentOnly
    <3>. QED
      BY <3>1, <3>2, Zenon
  <2>. QED
    BY <1>0, <1>p, <2>2, SessionKept, Zenon DEF Now, Names, Writes
<1>29. CASE Rename
  <2>1. Now("published", sess.handle, sess.seen, FALSE) /\ lent.alive = 0
    BY <1>0, <1>29, Zenon DEF Rename, AtStep, LentOnly, Now, Sessions, SessionSteps
  <2>2. Names(NoNode, dir.temp)
    BY <1>0, <1>29, Zenon DEF Rename, Names, SessionDirs, NoNode
  <2>. QED
    BY <1>29, <1>p, <2>1, <2>2, Zenon DEF Rename
<1>30. CASE HardLink
  <2>1. Now("linked", sess.handle, sess.seen, FALSE) /\ lent.alive = 0
    BY <1>0, <1>30, Zenon DEF HardLink, AtStep, LentOnly, Now, Sessions, SessionSteps
  <2>2. Names(dir.temp, dir.temp)
    BY <1>0, <1>30, Zenon DEF HardLink, Names, SessionDirs
  <2>. QED
    BY <1>30, <1>p, <2>1, <2>2, Zenon DEF HardLink
<1>31. CASE UNCHANGED sessionVars
  BY <1>31, ZenonT(60) DEF sessionVars, SessionInv, SessionTyped, FilesFresh, WritesOwn, LentOnly, OthersUntouched, Ours, Named
<1>. QED
  BY <1>1, <1>2, <1>3, <1>4, <1>5, <1>6, <1>7, <1>8, <1>9, <1>10, <1>11, <1>12, <1>13, <1>14, <1>15,
     <1>16, <1>17, <1>18, <1>19, <1>20, <1>21, <1>22, <1>23, <1>24, <1>25, <1>26, <1>27, <1>28, <1>29,
     <1>30, <1>31, Zenon DEF SessionNext

-----------------------------------------------------------------------------
(* The inductive invariant: types, the numbering of the files, whose file the
   session and its capabilities write to, and that others' files are intact. *)
THEOREM SessionInvariant == SessionSpec => []SessionInv
<1>. QED
  BY SessionInitInv, SessionNextInv, PTL DEF SessionSpec

(* What another program owns is never written to, whenever it takes the name of
   the partial outside the steps named in StrangersAt (open_owned). *)
THEOREM OthersAreUntouched == SessionSpec => []OthersUntouched
<1>1. SessionInv => OthersUntouched
  BY Zenon DEF SessionInv
<1>. QED
  BY <1>1, SessionInvariant, PTL

(* Once the destination names a file of the engine no write reaches that file,
   whatever capabilities live on and wherever a process died (publish.rs). *)
THEOREM PublishedIsSealed == SessionSpec => PublishedSealed
<1>1. ASSUME SessionInv, [SessionNext]_sessionVars, dir.dest # NoNode
      PROVE  nodes'[dir.dest] = nodes[dir.dest]
  <2>1. CASE nodes' = nodes
    BY <2>1, Zenon
  <2>2. CASE Prepare \/ write_at \/ write_blocking \/ Verify
    <3>1. \E n \in Nodes : (n # dir.dest /\ Touches(n)) \/ nodes' = nodes
      BY <1>1, <2>2, StepWrites, SessionAssumption DEF Writes, Nodes
    <3>2. dir.dest \in Nodes
      BY <1>1, Zenon DEF SessionInv, WritesOwn, Named
    <3>. QED
      BY <3>1, <3>2, Zenon DEF Touches
  <2>3. CASE Intrude
    <3>1. dir.dest \in Nodes /\ dir.dest # left.node
      BY <1>1 DEF SessionInv, SessionTyped, WritesOwn, Named, Nodes, Lefts
    <3>2. nodes \in [Nodes -> Files]
      BY <1>1, Zenon DEF SessionInv, SessionTyped
    <3>. QED
      BY <2>3, <3>1, <3>2, Zenon DEF Intrude
  <2>4. CASE Begin \/ Admit \/ Unlink \/ CreateNew \/ Validate \/ OpenFile \/ Recheck
    BY <2>1, <2>4, Zenon DEF Begin, Admit, Unlink, CreateNew, Validate, OpenFile, Recheck
  <2>5. CASE \/ share_write_handles \/ clone_capability \/ DropCapability \/ reclaim_exclusive \/ SaveMark
             \/ preserve_partial \/ abort \/ Drop \/ RestartFromDurable \/ RestartFromZero
    BY <2>1, <2>5, Zenon DEF share_write_handles, clone_capability, DropCapability, reclaim_exclusive, SaveMark,
       preserve_partial, abort, Drop, RestartFromDurable, RestartFromZero
  <2>6. CASE \/ finalize \/ commit_with_policy \/ Rename \/ HardLink \/ PublishFails \/ RemoveLink
             \/ DeleteMark \/ Crash
    BY <2>1, <2>6, Zenon DEF finalize, commit_with_policy, Rename, HardLink, PublishFails, RemoveLink, DeleteMark, Crash
  <2>. QED
    BY <1>1, <2>1, <2>2, <2>3, <2>4, <2>5, <2>6, Zenon DEF SessionNext, sessionVars
<1>. QED
  BY <1>1, SessionInvariant, PTL DEF SessionSpec, PublishedSealed

-----------------------------------------------------------------------------
(* The writer lane and the buffer pool. *)

Awaited == Seq(LaneOffsets)
SubmitterType == [handle : BOOLEAN, awaits : Awaited, told : SUBSET LaneOffsets, failed : SUBSET LaneOffsets]
LaneChannel == Seq(Submitters \X LaneOffsets)

(* What a worker was told is on disk, and a lane that was joined has ended. *)
LaneInv ==
    /\ submitter \in [Submitters -> SubmitterType] /\ laneQueue \in LaneChannel /\ writing \in LaneChannel
    /\ AcksTruthful
    /\ owner = "joined" => LaneEnded

(* It holds initially. *)
LEMMA LaneInitInv == LaneInit => LaneInv
<1>. SUFFICES ASSUME LaneInit PROVE LaneInv
  OBVIOUS
<1>1. <<>> \in Awaited /\ <<>> \in LaneChannel
  BY DEF Awaited, LaneChannel
<1>. QED
  BY <1>1 DEF LaneInit, LaneInv, AcksTruthful, SubmitterType

(* A step of one worker, or on its behalf. *)
LEMMA SubmitterMoves ==
    ASSUME LaneInv, NEW w \in Submitters, NEW r \in SubmitterType, submitter' = [submitter EXCEPT ![w] = r],
           onDisk \subseteq onDisk', r.told \subseteq onDisk', laneQueue' \in LaneChannel, writing' \in LaneChannel,
           owner' = "joined" => LaneEnded'
    PROVE  LaneInv'
<1>1. submitter' \in [Submitters -> SubmitterType]
  BY Zenon DEF LaneInv
<1>2. \A v \in Submitters : submitter'[v] = IF v = w THEN r ELSE submitter[v]
  BY Zenon DEF LaneInv
<1>3. AcksTruthful'
  BY <1>2, Zenon DEF LaneInv, AcksTruthful
<1>. QED
  BY <1>1, <1>3, Zenon DEF LaneInv

(* One that stops waiting, or lets go of its handle. *)
LEMMA SubmitterLeaves ==
    ASSUME NEW s \in SubmitterType
    PROVE  /\ [s EXCEPT !.awaits = <<>>] \in SubmitterType /\ [s EXCEPT !.awaits = <<>>].told = s.told
           /\ [s EXCEPT !.handle = FALSE] \in SubmitterType /\ [s EXCEPT !.handle = FALSE].told = s.told
<1>1. <<>> \in Awaited
  BY DEF Awaited
<1>. QED
  BY <1>1, Zenon DEF SubmitterType

(* One that sends a chunk, or is answered. *)
LEMMA SubmitterTold ==
    ASSUME NEW s \in SubmitterType, NEW o \in LaneOffsets
    PROVE  /\ [s EXCEPT !.awaits = <<o>>] \in SubmitterType /\ [s EXCEPT !.awaits = <<o>>].told = s.told
           /\ [s EXCEPT !.awaits = <<>>, !.told = @ \cup {o}] \in SubmitterType
           /\ [s EXCEPT !.awaits = <<>>, !.told = @ \cup {o}].told = s.told \cup {o}
           /\ [s EXCEPT !.awaits = <<>>, !.failed = @ \cup {o}] \in SubmitterType
           /\ [s EXCEPT !.awaits = <<>>, !.failed = @ \cup {o}].told = s.told
<1>1. <<>> \in Awaited /\ <<o>> \in Awaited
  BY DEF Awaited
<1>2. s.told \cup {o} \subseteq LaneOffsets /\ s.failed \cup {o} \subseteq LaneOffsets
  BY Zenon DEF SubmitterType
<1>. QED
  BY <1>1, <1>2, Zenon DEF SubmitterType

(* The step that answers a worker. *)
LEMMA LaneWriteInv == ASSUME LaneInv, NEW ok \in BOOLEAN, LaneWrite(ok) PROVE LaneInv'
<1>1. PICK w \in Submitters, o \in LaneOffsets : writing[1] = <<w, o>>
  <2>1. writing # <<>> /\ writing \in Seq(Submitters \X LaneOffsets)
    BY DEF LaneWrite, LaneInv, LaneChannel
  <2>2. writing[1] \in Submitters \X LaneOffsets
    BY <2>1
  <2>. QED
    BY <2>2
<1>2. /\ onDisk' = IF ok THEN onDisk \cup {o} ELSE onDisk
      /\ submitter' = submitter \/ submitter' = [submitter EXCEPT ![w] = Answered(w, o, ok)]
      /\ writing' = <<>> /\ laneQueue' = laneQueue /\ owner' = owner /\ owner # "joined"
  BY <1>1 DEF LaneWrite, LaneInv, LaneEnded
<1>3. submitter[w] \in SubmitterType /\ submitter[w].told \subseteq onDisk
  BY Zenon DEF LaneInv, AcksTruthful
<1>4. Answered(w, o, ok) \in SubmitterType /\ Answered(w, o, ok).told \subseteq onDisk'
  <2>1. CASE ok
    BY <1>2, <1>3, <2>1, SubmitterTold, Zenon DEF Answered
  <2>2. CASE ~ok
    BY <1>2, <1>3, <2>2, SubmitterTold, Zenon DEF Answered
  <2>. QED
    BY <2>1, <2>2
<1>5. <<>> \in LaneChannel /\ laneQueue \in LaneChannel
  BY DEF LaneChannel, LaneInv
<1>6. CASE submitter' = submitter
  BY <1>2, <1>5, <1>6 DEF LaneInv, AcksTruthful
<1>. QED
  BY <1>2, <1>4, <1>5, <1>6, SubmitterMoves, Zenon

(* Every step keeps it. *)
LEMMA LaneNextInv == ASSUME LaneInv, [LaneNext]_laneVars PROVE LaneInv'
<1>1. ASSUME NEW w \in Submitters, NEW o \in LaneOffsets, SendWrite(w, o) PROVE LaneInv'
  <2>1. submitter' = [submitter EXCEPT ![w] = [submitter[w] EXCEPT !.awaits = <<o>>]]
    BY <1>1, Zenon DEF SendWrite
  <2>2. <<<<w, o>>>> \in LaneChannel
    BY DEF LaneChannel
  <2>3. owner' # "joined" /\ laneQueue' = <<<<w, o>>>> /\ writing' = writing /\ onDisk' = onDisk
    BY <1>1 DEF SendWrite, LaneInv, LaneEnded
  <2>4. submitter[w] \in SubmitterType /\ submitter[w].told \subseteq onDisk /\ writing \in LaneChannel
    BY Zenon DEF LaneInv, AcksTruthful
  <2>5. /\ [submitter[w] EXCEPT !.awaits = <<o>>] \in SubmitterType
        /\ [submitter[w] EXCEPT !.awaits = <<o>>].told = submitter[w].told
    BY <2>4, SubmitterTold, Zenon
  <2>6. ASSUME NEW r \in SubmitterType, r.told = submitter[w].told, submitter' = [submitter EXCEPT ![w] = r]
        PROVE  LaneInv'
    BY ONLY <2>2, <2>3, <2>4, <2>6, SubmitterMoves, LaneInv, Zenon
  <2>. QED
    BY <2>1, <2>5, <2>6, Zenon
<1>2. ASSUME NEW w \in Submitters, Abandon(w) \/ DropHandle(w) PROVE LaneInv'
  <2>1. \/ submitter' = [submitter EXCEPT ![w] = [submitter[w] EXCEPT !.awaits = <<>>]]
        \/ submitter' = [submitter EXCEPT ![w] = [submitter[w] EXCEPT !.handle = FALSE]]
    BY <1>2, Zenon DEF Abandon, DropHandle
  <2>2. submitter[w] \in SubmitterType /\ submitter[w].told \subseteq onDisk
    BY Zenon DEF LaneInv, AcksTruthful
  <2>3. UNCHANGED <<laneQueue, writing, onDisk, owner>> /\ laneQueue \in LaneChannel /\ writing \in LaneChannel
    BY <1>2, Zenon DEF Abandon, DropHandle, LaneInv
  <2>4. owner' = "joined" => LaneEnded'
    BY <1>2, <2>3 DEF Abandon, DropHandle, LaneInv, LaneEnded, SubmitterType
  <2>5. ASSUME NEW r \in SubmitterType, r.told = submitter[w].told, submitter' = [submitter EXCEPT ![w] = r]
        PROVE  LaneInv'
    BY ONLY <2>2, <2>3, <2>4, <2>5, SubmitterMoves, LaneInv, Zenon
  <2>. QED
    BY <2>1, <2>2, <2>5, SubmitterLeaves, Zenon
<1>4. CASE LaneReceive
  BY <1>4 DEF LaneReceive, LaneInv, LaneChannel, AcksTruthful, LaneEnded
<1>5. ASSUME NEW ok \in BOOLEAN, LaneWrite(ok) PROVE LaneInv'
  BY <1>5, LaneWriteInv
<1>6. CASE ShutdownLane \/ JoinLane
  BY <1>6 DEF ShutdownLane, JoinLane, LaneInv, AcksTruthful, LaneEnded
<1>7. CASE UNCHANGED laneVars
  BY <1>7 DEF laneVars, LaneInv, AcksTruthful, LaneEnded
<1>. QED
  BY <1>1, <1>2, <1>4, <1>5, <1>6, <1>7, Zenon DEF LaneNext

(* A worker that was told its chunk is written can rely on it (lane_main), for
   any number of workers, whichever of them stop waiting. *)
THEOREM AcksAreTruthful == LaneSpec => []AcksTruthful
<1>1. LaneInv => AcksTruthful
  BY DEF LaneInv
<1>. QED
  BY <1>1, LaneInitInv, LaneNextInv, PTL DEF LaneSpec

(* Once shutdown has returned nothing is queued, received or written any more,
   so the output can be reclaimed (WriterLane::shutdown). *)
THEOREM JoinedIsQuiet == LaneSpec => JoinedQuiet
<1> DEFINE Quiet == owner = "joined" => UNCHANGED <<onDisk, laneQueue, writing>>
<1>1. LaneInv /\ [LaneNext]_laneVars => [Quiet]_laneVars
  BY DEF LaneInv, LaneEnded, LaneNext, laneVars, SendWrite, Abandon, DropHandle, LaneReceive, LaneWrite,
         ShutdownLane, JoinLane
<1>. QED
  BY <1>1, LaneInitInv, LaneNextInv, PTL DEF LaneSpec, JoinedQuiet

(* Who holds a buffer. *)
Holders == {u \in Users : user[u] = "holds"}

(* The buffers in existence are accounted for. *)
PoolInv ==
    /\ user \in [Users -> {"rest", "waits", "seen", "holds"}]
    /\ parked \in Nat /\ allocated \in Nat
    /\ BuffersAccounted

(* It holds initially. *)
LEMMA PoolInitInv == PoolInit => PoolInv
<1>1. PoolInit => Holders = {}
  BY DEF PoolInit, Holders
<1>. QED
  BY <1>1, FS_EmptySet DEF PoolInit, PoolInv, BuffersAccounted, Holders

(* A user who takes a buffer is one more holder. *)
LEMMA AcquireInv ==
    ASSUME PoolInv, NEW u \in Users, user[u] # "holds", acquire_inner(u) PROVE PoolInv'
<1>1. Holders' = Holders \cup {u} /\ u \notin Holders
  BY DEF PoolInv, acquire_inner, Holders
<1>2. IsFiniteSet(Holders)
  BY PoolAssumption, FS_Subset DEF Holders
<1>3. Cardinality(Holders') = Cardinality(Holders) + 1 /\ Cardinality(Holders) \in Nat
  BY <1>1, <1>2, FS_AddElement, FS_CardinalityType
<1>4. allocated' = parked' + Cardinality(Holders') /\ parked' \in Nat /\ allocated' \in Nat
  BY <1>3 DEF PoolInv, BuffersAccounted, acquire_inner, Holders
<1>5. user' \in [Users -> {"rest", "waits", "seen", "holds"}]
  BY DEF PoolInv, acquire_inner
<1>. QED
  BY <1>4, <1>5 DEF PoolInv, BuffersAccounted, Holders

(* Every step keeps it. *)
LEMMA PoolNextInv == ASSUME PoolInv, [PoolNext]_poolVars PROVE PoolInv'
<1>1. ASSUME NEW u \in Users, TryTake(u) \/ TakeSeen(u) PROVE PoolInv'
  BY <1>1, AcquireInv DEF TryTake, TakeSeen
<1>2. ASSUME NEW u \in Users, BeginWait(u) \/ block_until_available(u) PROVE PoolInv'
  <2>1. Holders' = Holders /\ parked' = parked /\ allocated' = allocated
    BY <1>2 DEF PoolInv, BeginWait, block_until_available, Holders
  <2>2. user' \in [Users -> {"rest", "waits", "seen", "holds"}]
    BY <1>2 DEF PoolInv, BeginWait, block_until_available
  <2>. QED
    BY <2>1, <2>2 DEF PoolInv, BuffersAccounted, Holders
<1>3. ASSUME NEW u \in Users, ReleaseBuffer(u) PROVE PoolInv'
  <2>1. Holders' = Holders \ {u} /\ u \in Holders
    BY <1>3 DEF PoolInv, ReleaseBuffer, Holders
  <2>2. IsFiniteSet(Holders)
    BY PoolAssumption, FS_Subset DEF Holders
  <2>3. Cardinality(Holders') = Cardinality(Holders) - 1 /\ Cardinality(Holders) \in Nat /\ Cardinality(Holders') \in Nat
    BY <2>1, <2>2, FS_RemoveElement, FS_CardinalityType, FS_Subset
  <2>4. allocated' = parked' + Cardinality(Holders') /\ parked' \in Nat /\ allocated' \in Nat
    BY <1>3, <2>3, PoolAssumption DEF PoolInv, BuffersAccounted, ReleaseBuffer, Holders
  <2>5. user' \in [Users -> {"rest", "waits", "seen", "holds"}]
    BY <1>3 DEF PoolInv, ReleaseBuffer
  <2>. QED
    BY <2>4, <2>5 DEF PoolInv, BuffersAccounted, Holders
<1>4. CASE UNCHANGED poolVars
  BY <1>4 DEF poolVars, PoolInv, BuffersAccounted
<1>. QED
  BY <1>1, <1>2, <1>3, <1>4, Zenon DEF PoolNext

(* No buffer is counted twice or forgotten, whatever acquisitions race, for any
   number of users: a pool that went over its maximum comes back. *)
THEOREM BuffersAreAccounted == PoolSpec => []BuffersAccounted
<1>1. PoolInv => BuffersAccounted
  BY DEF PoolInv
<1>. QED
  BY <1>1, PoolInitInv, PoolNextInv, PTL DEF PoolSpec
=============================================================================
