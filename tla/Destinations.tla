---------------------------- MODULE Destinations ----------------------------
(***************************************************************************)
(* How jobs of several processes choose and own destinations under the     *)
(* Rename policy: select_rename_candidate in                               *)
(* crates/engine/src/job/naming.rs, and the destination lease of           *)
(* io/destination_lease.rs, a registration in the process followed by an   *)
(* operating-system lock on a lockfile.                                    *)
(*                                                                         *)
(* Every look at the file system is a step of its own: jobs, a process     *)
(* that dies and a stranger that creates a file come in between.  A job    *)
(* that has its destination is reduced to what it does to the candidate's  *)
(* entries; the rest of it is module JobController.                        *)
(***************************************************************************)
EXTENDS Naturals, FiniteSets

CONSTANTS
    Jobs, Processes, Urls,
    LastCandidate,  \* candidates 0 (the base name) .. LastCandidate
    Assignments,    \* the requests: for each job its process, URL and ResumePolicy
    MaxDeaths, MaxStrangers         \* bounds

Candidates == 0 .. LastCandidate
Policies == {"Never", "Allowed", "Required"}
Nobody == "nobody"
Stranger == "stranger"

ASSUME DestinationAssumption ==
    /\ LastCandidate \in Nat /\ MaxDeaths \in Nat /\ MaxStrangers \in Nat
    /\ Assignments \subseteq [Jobs -> [process : Processes, url : Urls, resume : Policies]]
    /\ Nobody \notin Jobs \cup Urls

VARIABLES
    final,          \* the published entry of a candidate: who made it, or Nobody
    part,           \* its .part sibling: the URL whose bytes it holds, or Nobody
    checkpoints,    \* <<url, candidate>> with a usable checkpoint
    registered,     \* OWNED_DESTINATIONS of each process
    lock,           \* who holds a candidate's lockfile, or Nobody
    job,            \* pc, the candidate looked at, and whether it resumes
    request,        \* the assignment of this behaviour
    crashed, strangers

destinationVars == <<final, part, checkpoints, registered, lock, job, request, crashed, strangers>>

ProcessOf(j) == request[j].process
UrlOf(j) == request[j].url
ResumeOf(j) == request[j].resume
At(j, step) == job[j].pc = step
Here(j) == job[j].at
Goto(j, step) == job' = [job EXCEPT ![j].pc = step]
Mine(j) == registered[ProcessOf(j)]

DestinationInit ==
    /\ final \in [Candidates -> {Nobody}]
    /\ part \in [Candidates -> {Nobody} \cup Urls]
    /\ checkpoints \in SUBSET {<<part[c], c>> : c \in {d \in Candidates : part[d] # Nobody}}
    /\ registered = [p \in Processes |-> {}]
    /\ lock = [c \in Candidates |-> Nobody]
    /\ job = [j \in Jobs |-> [pc |-> "new", at |-> 0, resumes |-> FALSE]]
    /\ request \in Assignments
    /\ crashed = 0 /\ strangers = 0

Start(j) ==
    /\ At(j, "new")
    /\ Goto(j, IF ResumeOf(j) = "Never" THEN "fresh" ELSE "resume")
    /\ UNCHANGED <<final, part, checkpoints, registered, lock, request, crashed, strangers>>

(* The next candidate of the phase, the second phase, or exhaustion. *)
Continue(j, phase) ==
    job' = [job EXCEPT ![j] =
        IF Here(j) < LastCandidate THEN [@ EXCEPT !.pc = phase, !.at = Here(j) + 1]
        ELSE IF phase = "resume" THEN [@ EXCEPT !.pc = "fresh", !.at = 0]
        ELSE [@ EXCEPT !.pc = "exhausted"]]

-----------------------------------------------------------------------------
(* The look before the lease: a resume needs a partial, a fresh start neither
   a final entry nor a partial. *)
Occupied(c) == final[c] # Nobody \/ part[c] # Nobody

LookForPartial(j) ==
    /\ At(j, "resume")
    /\ IF part[Here(j)] # Nobody THEN Goto(j, "register1") ELSE Continue(j, "resume")
    /\ UNCHANGED <<final, part, checkpoints, registered, lock, request, crashed, strangers>>

LookForFree(j) ==
    /\ At(j, "fresh")
    /\ IF Occupied(Here(j)) THEN Continue(j, "fresh") ELSE Goto(j, "register2")
    /\ UNCHANGED <<final, part, checkpoints, registered, lock, request, crashed, strangers>>

(* DestinationLease::acquire: first the registration, then the lock.  A
   conflict at either goes on to the next candidate. *)
Acquire(j, from, to, phase) ==
    \/ /\ At(j, from) /\ Here(j) \in Mine(j)
       /\ Continue(j, phase)
       /\ UNCHANGED <<final, part, checkpoints, registered, lock, request, crashed, strangers>>
    \/ /\ At(j, from) /\ Here(j) \notin Mine(j)
       /\ registered' = [registered EXCEPT ![ProcessOf(j)] = @ \cup {Here(j)}]
       /\ Goto(j, to)
       /\ UNCHANGED <<final, part, checkpoints, lock, request, crashed, strangers>>

(* A mutant: the lock is not tried, registration is thought enough. *)
TryLockNot(j, from, to, phase) ==
    /\ At(j, from) /\ phase \in {"resume", "fresh"}
    /\ lock' = [lock EXCEPT ![Here(j)] = j]
    /\ Goto(j, to)
    /\ UNCHANGED <<final, part, checkpoints, registered, request, crashed, strangers>>

TryLock(j, from, to, phase) ==
    \/ /\ At(j, from) /\ lock[Here(j)] # Nobody
       /\ registered' = [registered EXCEPT ![ProcessOf(j)] = @ \ {Here(j)}]
       /\ Continue(j, phase)
       /\ UNCHANGED <<final, part, checkpoints, lock, request, crashed, strangers>>
    \/ /\ At(j, from) /\ lock[Here(j)] = Nobody
       /\ lock' = [lock EXCEPT ![Here(j)] = j]
       /\ Goto(j, to)
       /\ UNCHANGED <<final, part, checkpoints, registered, request, crashed, strangers>>

(* Dropping the lease unlocks the file, then releases the registration. *)
Unlock(j, from, to) ==
    /\ At(j, from)
    /\ lock' = [lock EXCEPT ![Here(j)] = IF @ = j THEN Nobody ELSE @]
    /\ Goto(j, to)
    /\ UNCHANGED <<final, part, checkpoints, registered, request, crashed, strangers>>

Unregister(j) ==
    /\ \/ At(j, "drop1") /\ Continue(j, "resume")
       \/ At(j, "drop2") /\ Continue(j, "fresh")
       \/ At(j, "dropEnd") /\ Goto(j, "ended")
    /\ registered' = [registered EXCEPT ![ProcessOf(j)] = @ \ {Here(j)}]
    /\ UNCHANGED <<final, part, checkpoints, lock, request, crashed, strangers>>

-----------------------------------------------------------------------------
(* Under the lease. *)
HasCheckpoint(j) == <<UrlOf(j), Here(j)>> \in checkpoints

Select(j, resumes) == job' = [job EXCEPT ![j].pc = "selected", ![j].resumes = resumes]

InspectPartial(j) ==
    /\ At(j, "owned1")
    /\ IF final[Here(j)] = Nobody /\ HasCheckpoint(j) THEN Select(j, TRUE) ELSE Goto(j, "unlock1")
    /\ UNCHANGED <<final, part, checkpoints, registered, lock, request, crashed, strangers>>

InspectFree(j) ==
    /\ At(j, "owned2")
    /\ IF Occupied(Here(j)) THEN Goto(j, "unlock2")
       ELSE IF ResumeOf(j) = "Required" /\ ~HasCheckpoint(j) THEN Goto(j, "unlockEnd")
       ELSE Select(j, HasCheckpoint(j) /\ ResumeOf(j) # "Never")
    /\ UNCHANGED <<final, part, checkpoints, registered, lock, request, crashed, strangers>>

(* The job itself: it opens its partial, may save a checkpoint, and publishes
   where nothing is, or ends leaving its partial. *)
OpenPartial(j) ==
    /\ At(j, "selected")
    /\ part' = [part EXCEPT ![Here(j)] = UrlOf(j)]
    /\ Goto(j, "working")
    /\ UNCHANGED <<final, checkpoints, registered, lock, request, crashed, strangers>>

SaveCheckpoint(j) ==
    /\ At(j, "working") /\ ~HasCheckpoint(j)
    /\ checkpoints' = checkpoints \cup {<<UrlOf(j), Here(j)>>}
    /\ UNCHANGED <<final, part, registered, lock, job, request, crashed, strangers>>

Publish(j) ==
    /\ At(j, "working") /\ final[Here(j)] = Nobody
    /\ final' = [final EXCEPT ![Here(j)] = j]
    /\ part' = [part EXCEPT ![Here(j)] = Nobody]
    /\ checkpoints' = checkpoints \ {<<UrlOf(j), Here(j)>>}
    /\ Goto(j, "unlockEnd")
    /\ UNCHANGED <<registered, lock, request, crashed, strangers>>

StopEarly(j) ==
    /\ At(j, "working")
    /\ Goto(j, "unlockEnd")
    /\ UNCHANGED <<final, part, checkpoints, registered, lock, request, crashed, strangers>>

-----------------------------------------------------------------------------
(* A process dies: the system releases its locks, its registry is gone. *)
ProcessDies(p) ==
    /\ crashed < MaxDeaths /\ crashed' = crashed + 1
    /\ registered' = [registered EXCEPT ![p] = {}]
    /\ lock' = [c \in Candidates |->
                  IF lock[c] # Nobody /\ ProcessOf(lock[c]) = p THEN Nobody ELSE lock[c]]
    /\ job' = [j \in Jobs |-> IF ProcessOf(j) = p /\ job[j].pc # "new"
                              THEN [job[j] EXCEPT !.pc = "ended"] ELSE job[j]]
    /\ UNCHANGED <<final, part, checkpoints, request, strangers>>

StrangerCreates(c) ==
    /\ strangers < MaxStrangers /\ strangers' = strangers + 1
    /\ final[c] = Nobody /\ final' = [final EXCEPT ![c] = Stranger]
    /\ UNCHANGED <<part, checkpoints, registered, lock, job, request, crashed>>

SelectStep(j) ==
    \/ LookForPartial(j) \/ LookForFree(j)
    \/ Acquire(j, "register1", "lock1", "resume") \/ Acquire(j, "register2", "lock2", "fresh")
    \/ TryLock(j, "lock1", "owned1", "resume") \/ TryLock(j, "lock2", "owned2", "fresh")
    \/ InspectPartial(j) \/ InspectFree(j)
    \/ Unlock(j, "unlock1", "drop1") \/ Unlock(j, "unlock2", "drop2") \/ Unlock(j, "unlockEnd", "dropEnd")
    \/ Unregister(j)

DestinationNext ==
    \/ \E j \in Jobs : \/ Start(j) \/ SelectStep(j)
                       \/ OpenPartial(j) \/ SaveCheckpoint(j) \/ Publish(j) \/ StopEarly(j)
    \/ \E p \in Processes : ProcessDies(p)
    \/ \E c \in Candidates : StrangerCreates(c)

DestinationSpec == DestinationInit /\ [][DestinationNext]_destinationVars

-----------------------------------------------------------------------------
Owns(j) == job[j].pc \in {"owned1", "owned2", "selected", "working", "unlock1", "unlock2", "unlockEnd"}

(* Two jobs, of one process or of two, never own the same destination. *)
OneOwner == \A i, j \in Jobs : i # j /\ Owns(i) /\ Owns(j) => Here(i) # Here(j)

(* A job never truncates or takes over the partial of another download: a .part
   only ever goes away by being published. *)
PartialsKept ==
    [][\A c \in Candidates :
         part[c] # Nobody /\ part'[c] # part[c] => part'[c] = Nobody /\ final'[c] # Nobody]_destinationVars

(* No registration is left behind: a process registers only destinations that
   one of its jobs is acquiring, owns or is dropping. *)
RegistrationsHeld ==
    \A p \in Processes : \A c \in registered[p] :
        \E j \in Jobs : /\ ProcessOf(j) = p /\ Here(j) = c
                        /\ Owns(j) \/ job[j].pc \in {"lock1", "lock2", "drop1", "drop2", "dropEnd"}

(* How far a selection has come: its phase, then its candidate. *)
Rank(selection) == (IF selection.pc = "fresh" THEN LastCandidate + 1 ELSE 0) + selection.at

=============================================================================
