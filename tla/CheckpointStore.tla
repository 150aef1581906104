-------------------------- MODULE CheckpointStore --------------------------
(***************************************************************************)
(* One job's checkpoint on disk: FileCheckpointStore,                      *)
(* crates/engine/src/resume/checkpoint_store.rs, file operation by file    *)
(* operation, behind the CoordinatedCheckpointStore of                     *)
(* resume/coordinated_store.rs, whose mutex admits one operation at a      *)
(* time.                                                                   *)
(*                                                                         *)
(* The operating system keeps unsynced data and directory entries in its   *)
(* cache: a kill of the process loses nothing, a power loss may tear the   *)
(* data of an unsynced file and may undo unsynced directory operations.    *)
(***************************************************************************)
EXTENDS Naturals, FiniteSets

CONSTANTS
    Bytes,          \* the bytes a checkpoint may record as completed
    Generations,    \* resource generations: validators and total size
    MaxRanges,      \* the serialized-size budget, as a number of bytes
    MaxSaves,       \* bound: saves in a behaviour
    MaxFaults,      \* bound: failing file operations in a behaviour
    MaxCrashes      \* bound: kills and power losses in a behaviour

ASSUME StoreAssumption == MaxRanges \in Nat /\ MaxSaves \in Nat /\ MaxFaults \in Nat /\ MaxCrashes \in Nat

VARIABLES
    durable,        \* DurabilityMode::Durable
    sidecar,        \* the entry <identity>.kdown: a file, or NoFile
    older,          \* entries a power loss may bring back
    lastAccepted,   \* JobCoordination.last_accepted
    op,             \* the operation under way: its step and its checkpoint
    acked, since,   \* history: the last save that reported success, what replaced it since
    saves, faults, crashes

storeVars == <<durable, sidecar, older, lastAccepted, op, acked, since, saves, faults, crashes>>

Checkpoints == [generation : Generations, ranges : SUBSET Bytes]
Absent == [generation |-> 0, ranges |-> {}]
(* A file: the checkpoint written to it, whether it is whole, whether it is synced. *)
File(c, whole, synced) == [checkpoint |-> c, whole |-> whole, synced |-> synced]
NoFile == File(Absent, TRUE, TRUE)
Idle == [step |-> "idle", checkpoint |-> Absent, file |-> NoFile]

StoreInit ==
    /\ durable \in BOOLEAN
    /\ sidecar = NoFile
    /\ older = {}
    /\ lastAccepted = Absent
    /\ op = Idle
    /\ acked = sidecar.checkpoint /\ since = {}
    /\ saves = 0 /\ faults = 0 /\ crashes = 0

-----------------------------------------------------------------------------
(* CoordinatedCheckpointStore::save_atomic: refuse another generation, fold the
   recorded progress forward, suppress what adds nothing.  Then the budget. *)

FoldForward(c) ==
    IF lastAccepted = Absent THEN c
    ELSE [c EXCEPT !.ranges = @ \cup lastAccepted.ranges]

SameLineage(c) == lastAccepted # Absent => lastAccepted.generation = c.generation

FitsBudget(c) == Cardinality(c.ranges) <= MaxRanges

BeginSave(c) ==
    /\ op.step = "idle" /\ SameLineage(c)
    /\ saves < MaxSaves /\ saves' = saves + 1
    /\ LET forward == FoldForward(c)
       IN  /\ forward # lastAccepted
           /\ FitsBudget(forward)
           /\ op' = [step |-> "create", checkpoint |-> forward, file |-> NoFile]
    /\ UNCHANGED <<durable, sidecar, older, lastAccepted, acked, since, faults, crashes>>

(* FileCheckpointStore::save_atomic.  A new name, exclusively created, so that a
   residue of an earlier crash is never written through; then write and flush. *)
WriteTemp ==
    /\ op.step = "create"
    /\ op' = [op EXCEPT !.file = File(op.checkpoint, TRUE, FALSE),
                        !.step = IF durable THEN "sync" ELSE "rename"]
    /\ UNCHANGED <<durable, sidecar, older, lastAccepted, acked, since, saves, faults, crashes>>

SyncTemp ==
    /\ op.step = "sync"
    /\ op' = [op EXCEPT !.file.synced = TRUE, !.step = "rename"]
    /\ UNCHANGED <<durable, sidecar, older, lastAccepted, acked, since, saves, faults, crashes>>

(* A mutant: the rename comes before the data is synced. *)
RenameFirst ==
    /\ op.step \in {"sync", "rename"}
    /\ sidecar' = op.file
    /\ older' = older \cup {sidecar} /\ since' = since \cup {op.checkpoint}
    /\ op' = [op EXCEPT !.step = IF durable THEN "syncDirectory" ELSE "saved"]
    /\ UNCHANGED <<durable, lastAccepted, acked, saves, faults, crashes>>

RenameTemp ==
    /\ op.step = "rename"
    /\ sidecar' = op.file
    /\ older' = older \cup {sidecar} /\ since' = since \cup {op.checkpoint}
    /\ op' = [op EXCEPT !.step = IF durable THEN "syncDirectory" ELSE "saved"]
    /\ UNCHANGED <<durable, lastAccepted, acked, saves, faults, crashes>>

(* sync_parent_durable. *)
SyncDirectory ==
    /\ op.step = "syncDirectory"
    /\ older' = {}
    /\ op' = [op EXCEPT !.step = "saved"]
    /\ UNCHANGED <<durable, sidecar, lastAccepted, acked, since, saves, faults, crashes>>

ReportSaved ==
    /\ op.step = "saved"
    /\ lastAccepted' = op.checkpoint /\ acked' = op.checkpoint /\ since' = {}
    /\ op' = Idle
    /\ UNCHANGED <<durable, sidecar, older, saves, faults, crashes>>

(* Any of the file operations may fail; the temporary file is removed and the
   last accepted snapshot stays.  Once renamed, the new sidecar stays. *)
SaveFails ==
    /\ op.step \in {"create", "sync", "rename", "syncDirectory"}
    /\ faults < MaxFaults /\ faults' = faults + 1
    /\ op' = Idle
    /\ UNCHANGED <<durable, sidecar, older, lastAccepted, acked, since, saves, crashes>>

(* delete: a missing sidecar is success; the directory is not synced. *)
Delete ==
    /\ op.step = "idle"
    /\ sidecar' = NoFile
    /\ older' = IF sidecar = NoFile THEN older ELSE older \cup {sidecar}
    /\ lastAccepted' = Absent /\ since' = since \cup {Absent}
    /\ UNCHANGED <<durable, op, acked, saves, faults, crashes>>

-----------------------------------------------------------------------------
(* The process is killed, or the machine loses power.  The next process resumes
   under the same identity with nothing remembered. *)
Kill ==
    /\ crashes < MaxCrashes /\ crashes' = crashes + 1
    /\ op' = Idle /\ lastAccepted' = Absent
    /\ UNCHANGED <<durable, sidecar, older, acked, since, saves, faults>>

AfterPowerLoss(file) == {[file EXCEPT !.synced = TRUE, !.whole = w] : w \in {file.synced, file.whole}}

PowerLoss ==
    /\ crashes < MaxCrashes /\ crashes' = crashes + 1
    /\ op' = Idle /\ lastAccepted' = Absent
    /\ \E file \in older \cup {sidecar} : sidecar' \in AfterPowerLoss(file)
    /\ older' = {}
    /\ UNCHANGED <<durable, acked, since, saves, faults>>

StoreNext ==
    \/ \E c \in Checkpoints : BeginSave(c)
    \/ WriteTemp \/ SyncTemp \/ RenameTemp \/ SyncDirectory \/ ReportSaved
    \/ SaveFails \/ Delete \/ Kill \/ PowerLoss

StoreSpec == StoreInit /\ [][StoreNext]_storeVars

-----------------------------------------------------------------------------
(* load: a torn sidecar is refused as corrupt. *)
Readable(file) == file.whole
Loaded == sidecar.checkpoint

(* A power loss never takes a durable store back beyond the last save that
   reported success: a load finds that one, or something that replaced it. *)
AckedSurvives == durable => Loaded \in {acked} \cup since

(* What the coordination remembers is on disk: while a process lives, whatever
   snapshot came late and whichever save failed, the sidecar has the remembered
   generation and at least its ranges. *)
RememberedOnDisk ==
    lastAccepted # Absent =>
        /\ Loaded.generation = lastAccepted.generation
        /\ lastAccepted.ranges \subseteq Loaded.ranges

(* The refinement mapping: the register holds what a load would find. *)
Torn == [generation |-> 0, ranges |-> Bytes]
Content(file) == IF Readable(file) THEN file.checkpoint ELSE Torn
Register == INSTANCE CheckpointRegister WITH
    Values <- Checkpoints, None <- Absent,
    value <- IF durable THEN Content(sidecar) ELSE Absent,
    replaced <- IF durable THEN {Content(file) : file \in older} ELSE {}

(* A durable store implements the register: whenever the power fails, a load
   finds one whole checkpoint or none, and saves and deletes replace it at once. *)
ImplementsRegister == Register!RegisterSpec
=============================================================================
