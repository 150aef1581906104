----------------------------- MODULE Supervisor -----------------------------
(***************************************************************************)
(* The application's job supervisor, crates/app/src/supervisor, with the   *)
(* SQLite registry it writes (registry.rs), startup recovery (recovery.rs) *)
(* and the HTTP handlers that create and delete jobs (api/jobs.rs).        *)
(*                                                                         *)
(* The actor handles one command or completion at a time.  A handler is    *)
(* split at its registry writes, because the process can die between two   *)
(* of them and the deleting handler writes the registry without asking the *)
(* actor.  The registry survives a crash, everything else does not.  A     *)
(* command carries the version its sender read; one with a stale version   *)
(* changes nothing and is not a step.  Database errors are not modelled.   *)
(***************************************************************************)
EXTENDS Integers, Sequences, FiniteSets

CONSTANTS
    Jobs,
    Scenarios   \* what a behaviour may contain, see ScenarioAssumption

Commands == {"pause", "cancel", "retry", "delete", "limits", "shutdown"}

NoJob == "no job"

ASSUME ScenarioAssumption ==
    /\ NoJob \notin Jobs
    /\ Scenarios \subseteq
          [slots: Nat \ {0},          \* the active_concurrency setting
           starts: Nat \ {0},         \* how often the process is started
           retries: Nat,              \* how many retries are requested
           commands: SUBSET Commands]

VARIABLES
    scenario,
    jobs,           \* registry: the job rows
    attempts,       \* registry: the attempt rows, by id
    starts,         \* how often the process was started
    retries,        \* how many retries were requested
    up,             \* "down", "recovering" or "serving"
    plan,           \* RecoveryPlanner: jobs still to classify
    recovering,     \* RecoveryPlanner: the job marked Recovering
    pending,        \* Enqueue commands sent to the actor
    deleting,       \* delete_job calls past their check
    active,         \* Actor.active: the attempt each job runs (0: none)
    queue,          \* Actor.queue
    slots,          \* Actor.max_active
    shuttingDown,   \* Actor.shutting_down
    runs,           \* the engine's runs
    actor           \* the handler in progress

registry == <<jobs, attempts>>
planner == <<plan, recovering>>
memory == <<active, queue, slots, shuttingDown>>
supervisorVars == <<scenario, registry, starts, retries, up, planner, pending, deleting,
                    memory, runs, actor>>

Terminals == {"completed", "failed", "cancelled"}
Statuses == Terminals \cup {"queued", "active", "paused", "recovering"}

(* A row that was never inserted, and one that was deleted: ids are not reused. *)
NoRow == [desired |-> "running", status |-> "none", attempt |-> 0]
Removed == [NoRow EXCEPT !.status = "removed"]

Exists(j) == jobs[j].status \in Statuses
Terminal(j) == jobs[j].status \in Terminals
Open(a) == attempts[a].outcome = "open"
ActiveCount == Cardinality({j \in Jobs : active[j] # 0})
Full == shuttingDown \/ ActiveCount >= slots

(* scan = 0: the handler serves a command; otherwise the place in the queue
   from which promote_queued goes on. *)
Idle == [at |-> "idle", job |-> NoJob, attempt |-> 0, status |-> "none", scan |-> 0]
Launching(j, prebound, scan) ==
    [at |-> "begin", job |-> j, attempt |-> prebound, status |-> "none", scan |-> scan]
Marking(j, status) == [at |-> "mark", job |-> j, attempt |-> 0, status |-> status, scan |-> 0]
Promoting(scan) == [at |-> "promote", job |-> NoJob, attempt |-> 0, status |-> "none", scan |-> scan]

(* Where launch_job returns to. *)
Return == IF actor.scan = 0 THEN Idle ELSE Promoting(actor.scan)
NextStage(at, a) == [actor EXCEPT !.at = at, !.attempt = a]

SetDesired(j, desired) == jobs' = [jobs EXCEPT ![j].desired = desired]
SetStatus(j, status) == jobs' = [jobs EXCEPT ![j].status = status]

SupervisorInit ==
    /\ scenario \in Scenarios
    /\ jobs = [j \in Jobs |-> NoRow]
    /\ attempts = <<>>
    /\ starts = 0
    /\ retries = 0
    /\ up = "down"
    /\ plan = {} /\ recovering = NoJob
    /\ pending = {} /\ deleting = {}
    /\ active = [j \in Jobs |-> 0]
    /\ queue = <<>>
    /\ slots = scenario.slots
    /\ shuttingDown = FALSE
    /\ runs = <<>>
    /\ actor = Idle

-----------------------------------------------------------------------------
(* The process.  Recovery runs before the service accepts requests.          *)

(* Mutant of Start: jobs that never ran are not recovered. *)
StartRunning ==
    /\ up = "down" /\ starts < scenario.starts
    /\ up' = "recovering" /\ starts' = starts + 1
    /\ plan' = {j \in Jobs : Exists(j) /\ ~Terminal(j) /\ jobs[j].status # "queued"}
    /\ UNCHANGED <<scenario, registry, retries, recovering, pending, deleting, memory, runs, actor>>

Start ==
    /\ up = "down" /\ starts < scenario.starts
    /\ up' = "recovering" /\ starts' = starts + 1
    /\ plan' = {j \in Jobs : Exists(j) /\ ~Terminal(j)}
    /\ UNCHANGED <<scenario, registry, retries, recovering, pending, deleting, memory, runs, actor>>

(* A crash, or the exit that follows a shutdown request.  Engine runs die
   with the process. *)
Stop ==
    /\ up # "down"
    /\ shuttingDown \/ starts < scenario.starts
    /\ up' = "down"
    /\ plan' = {} /\ recovering' = NoJob
    /\ pending' = {} /\ deleting' = {}
    /\ active' = [j \in Jobs |-> 0] /\ queue' = <<>> /\ shuttingDown' = FALSE
    /\ runs' = <<>> /\ actor' = Idle
    /\ UNCHANGED <<scenario, registry, starts, retries, slots>>

(* The planner waits for the reply to the Enqueue it sent. *)
PlannerReady ==
    /\ up = "recovering" /\ recovering = NoJob /\ pending = {}
    /\ actor.at \in {"idle", "promote"} \/ actor.scan # 0

Classify(j) ==
    /\ PlannerReady /\ j \in plan
    /\ plan' = plan \ {j}
    /\ CASE jobs[j].desired = "running" -> SetStatus(j, "recovering") /\ recovering' = j
         [] jobs[j].desired = "paused" -> SetStatus(j, "paused") /\ UNCHANGED recovering
         [] jobs[j].desired = "cancelled" -> UNCHANGED <<jobs, recovering>>
    /\ UNCHANGED <<scenario, attempts, starts, retries, up, pending, deleting, memory, runs, actor>>

Interrupted(rows, j) ==
    [a \in DOMAIN rows |-> IF rows[a].job = j /\ rows[a].outcome = "open"
                             THEN [rows[a] EXCEPT !.outcome = "interrupted"]
                             ELSE rows[a]]
NewAttempt(j) == [job |-> j, outcome |-> "open"]

(* Mutant of BeginRecovery: the dead process's attempt stays open. *)
BeginRecoveryOnly ==
    /\ recovering # NoJob
    /\ attempts' = Append(attempts, NewAttempt(recovering))
    /\ jobs' = [jobs EXCEPT ![recovering].attempt = Len(attempts) + 1]
    /\ pending' = pending \cup {<<recovering, Len(attempts) + 1>>}
    /\ recovering' = NoJob
    /\ UNCHANGED <<scenario, starts, retries, up, plan, deleting, memory, runs, actor>>

(* begin_recovery_attempt_once and enqueue_recovered. *)
BeginRecovery ==
    /\ recovering # NoJob
    /\ attempts' = Append(Interrupted(attempts, recovering), NewAttempt(recovering))
    /\ jobs' = [jobs EXCEPT ![recovering].attempt = Len(attempts) + 1]
    /\ pending' = pending \cup {<<recovering, Len(attempts) + 1>>}
    /\ recovering' = NoJob
    /\ UNCHANGED <<scenario, starts, retries, up, plan, deleting, memory, runs, actor>>

Serve ==
    /\ PlannerReady /\ plan = {}
    /\ up' = "serving"
    /\ UNCHANGED <<scenario, registry, starts, retries, planner, pending, deleting, memory, runs, actor>>

-----------------------------------------------------------------------------
(* HTTP handlers that write the registry themselves.                         *)

CreateJob(j) ==
    /\ up = "serving" /\ jobs[j] = NoRow
    /\ SetStatus(j, "queued")
    /\ pending' = pending \cup {<<j, 0>>}
    /\ UNCHANGED <<scenario, attempts, starts, retries, up, planner, deleting, memory, runs, actor>>

DeleteCheck(j) ==
    /\ up = "serving" /\ "delete" \in scenario.commands
    /\ Terminal(j)
    /\ deleting' = deleting \cup {j}
    /\ UNCHANGED <<scenario, registry, starts, retries, up, planner, pending, memory, runs, actor>>

RemoveHistory(j) ==
    /\ j \in deleting
    /\ jobs' = [jobs EXCEPT ![j] = Removed]
    /\ attempts' = [a \in DOMAIN attempts |->
                      IF attempts[a].job = j THEN [attempts[a] EXCEPT !.outcome = "removed"]
                                             ELSE attempts[a]]
    /\ deleting' = deleting \ {j}
    /\ UNCHANGED <<scenario, starts, retries, up, planner, pending, memory, runs, actor>>

-----------------------------------------------------------------------------
(* The actor: launching.                                                     *)

Enqueue(j, prebound) ==
    /\ actor = Idle /\ <<j, prebound>> \in pending
    /\ pending' = pending \ {<<j, prebound>>}
    /\ \/ /\ Exists(j) /\ ~Terminal(j) /\ Full
          /\ queue' = Append(queue, j)
          /\ UNCHANGED actor
       \/ /\ Exists(j) /\ ~Terminal(j) /\ ~Full
          /\ actor' = Launching(j, prebound, 0)
          /\ UNCHANGED queue
       \/ /\ ~Exists(j) \/ Terminal(j)
          /\ UNCHANGED <<queue, actor>>
    /\ UNCHANGED <<scenario, registry, starts, retries, up, planner, deleting, active, slots,
                   shuttingDown, runs>>

(* launch_job, first write: a prebound attempt is loaded, otherwise a new one
   is inserted. *)
BeginAttempt ==
    /\ actor.at = "begin"
    /\ LET j == actor.job
       IN  \/ /\ actor.attempt # 0 /\ attempts[actor.attempt].outcome # "removed"
              /\ actor' = NextStage("active", actor.attempt)
              /\ UNCHANGED registry
           \/ /\ actor.attempt = 0 /\ Exists(j)
              /\ attempts' = Append(attempts, NewAttempt(j))
              /\ jobs' = [jobs EXCEPT ![j].attempt = Len(attempts) + 1]
              /\ actor' = NextStage("active", Len(attempts) + 1)
           \/ /\ IF actor.attempt # 0 THEN attempts[actor.attempt].outcome = "removed"
                                     ELSE ~Exists(j)
              /\ actor' = Return
              /\ UNCHANGED registry
    /\ UNCHANGED <<scenario, starts, retries, up, planner, pending, deleting, memory, runs>>

MarkActive ==
    /\ actor.at = "active"
    /\ IF Exists(actor.job)
         THEN SetStatus(actor.job, "active") /\ actor' = NextStage("spawn", actor.attempt)
         ELSE actor' = Return /\ UNCHANGED jobs
    /\ UNCHANGED <<scenario, attempts, starts, retries, up, planner, pending, deleting, memory, runs>>

(* Mutant of Launch: the handle is not kept. *)
LaunchForgotten ==
    /\ actor.at = "spawn"
    /\ runs' = Append(runs, [job |-> actor.job, attempt |-> actor.attempt, paused |-> FALSE,
                             cancelled |-> FALSE, outcome |-> "none", tracked |-> TRUE])
    /\ actor' = Return
    /\ UNCHANGED <<scenario, registry, starts, retries, up, planner, pending, deleting, memory>>

(* The engine starts a run.  It is tracked only if the job row still loads. *)
Launch ==
    /\ actor.at = "spawn"
    /\ runs' = Append(runs, [job |-> actor.job, attempt |-> actor.attempt, paused |-> FALSE,
                             cancelled |-> FALSE, outcome |-> "none", tracked |-> Exists(actor.job)])
    /\ active' = IF Exists(actor.job) THEN [active EXCEPT ![actor.job] = actor.attempt] ELSE active
    /\ actor' = Return
    /\ UNCHANGED <<scenario, registry, starts, retries, up, planner, pending, deleting, queue,
                   slots, shuttingDown>>

(* finish_attempt: an attempt that is already finished is left alone. *)
Finish(a, outcome) ==
    IF Open(a)
      THEN /\ attempts' = [attempts EXCEPT ![a].outcome = outcome]
           /\ jobs' = IF outcome = "interrupted" THEN jobs
                      ELSE [jobs EXCEPT ![attempts[a].job].status = outcome]
      ELSE UNCHANGED registry

(* The destination does not resolve or the engine refuses the launch. *)
LaunchFails ==
    /\ actor.at = "spawn"
    /\ Finish(actor.attempt, "failed")
    /\ actor' = Return
    /\ UNCHANGED <<scenario, starts, retries, up, planner, pending, deleting, memory, runs>>

-----------------------------------------------------------------------------
(* The actor: commands.                                                      *)

Accepts(command) == up = "serving" /\ actor = Idle /\ command \in scenario.commands

(* A handle's pause, resume and cancel reach the run in active. *)
Told(j, field, value) ==
    [i \in DOMAIN runs |->
        IF active[j] # 0 /\ runs[i].job = j /\ runs[i].tracked
          THEN [runs[i] EXCEPT ![field] = value] ELSE runs[i]]

Pause(j) ==
    /\ Accepts("pause") /\ Exists(j)
    /\ SetDesired(j, "paused")
    /\ runs' = Told(j, "paused", TRUE)
    /\ actor' = IF active[j] # 0 THEN Marking(j, "paused") ELSE Idle
    /\ UNCHANGED <<scenario, attempts, starts, retries, up, planner, pending, deleting, memory>>

Resume(j) ==
    /\ Accepts("pause") /\ Exists(j)
    /\ SetDesired(j, "running")
    /\ runs' = Told(j, "paused", FALSE)
    /\ actor' = IF active[j] # 0 THEN Marking(j, "active") ELSE Idle
    /\ UNCHANGED <<scenario, attempts, starts, retries, up, planner, pending, deleting, memory>>

(* VecDeque::retain: the queue without the entries of a job, in order. *)
Without(j) ==
    LET kept[n \in 0 .. Len(queue)] ==
          IF n = 0 THEN <<>>
          ELSE IF queue[n] = j THEN kept[n - 1] ELSE Append(kept[n - 1], queue[n])
    IN  kept[Len(queue)]

Cancel(j) ==
    /\ Accepts("cancel") /\ Exists(j) /\ ~Terminal(j)
    /\ SetDesired(j, "cancelled")
    /\ runs' = Told(j, "cancelled", TRUE)
    /\ IF active[j] # 0
         THEN UNCHANGED <<queue, actor>>
         ELSE /\ queue' = Without(j)
              /\ actor' = Marking(j, "cancelled")
    /\ UNCHANGED <<scenario, attempts, starts, retries, up, planner, pending, deleting, active,
                   slots, shuttingDown>>

Retry(j) ==
    /\ Accepts("retry") /\ retries < scenario.retries
    /\ Terminal(j)
    /\ SetDesired(j, "running")
    /\ retries' = retries + 1
    /\ actor' = IF Full THEN Marking(j, "queued") ELSE Launching(j, 0, 0)
    /\ UNCHANGED <<scenario, attempts, starts, up, planner, pending, deleting, memory, runs>>

(* The second write of pause, resume, cancel and a queued retry. *)
MarkStatus ==
    /\ actor.at = "mark"
    /\ IF Exists(actor.job)
         THEN /\ SetStatus(actor.job, actor.status)
              /\ queue' = IF actor.status = "queued" THEN Append(queue, actor.job) ELSE queue
         ELSE UNCHANGED <<jobs, queue>>
    /\ actor' = Idle
    /\ UNCHANGED <<scenario, attempts, starts, retries, up, planner, pending, deleting, active,
                   slots, shuttingDown, runs>>

UpdateLimits(n) ==
    /\ Accepts("limits")
    /\ slots' = n
    /\ UNCHANGED <<scenario, registry, starts, retries, up, planner, pending, deleting, active,
                   queue, shuttingDown, runs, actor>>

Shutdown ==
    /\ Accepts("shutdown") /\ ~shuttingDown
    /\ shuttingDown' = TRUE
    /\ runs' = [i \in DOMAIN runs |-> IF runs[i].tracked THEN [runs[i] EXCEPT !.cancelled = TRUE]
                                                         ELSE runs[i]]
    /\ UNCHANGED <<scenario, registry, starts, retries, up, planner, pending, deleting, active,
                   queue, slots, actor>>

-----------------------------------------------------------------------------
(* The actor: completions and promotion.                                     *)

(* External: the engine.  A cancelled run may still complete or fail. *)
RunEnds(i, outcome) ==
    /\ runs[i].outcome = "none"
    /\ outcome = "cancelled" => runs[i].cancelled
    /\ runs' = [runs EXCEPT ![i].outcome = outcome]
    /\ UNCHANGED <<scenario, registry, starts, retries, up, planner, pending, deleting, memory, actor>>

(* A cancellation seen while shutting down is an interruption. *)
Recorded(outcome) == IF outcome = "cancelled" /\ shuttingDown THEN "interrupted" ELSE outcome

Finalize(i) ==
    /\ actor = Idle
    /\ runs[i].tracked /\ runs[i].outcome # "none"
    /\ Finish(runs[i].attempt, Recorded(runs[i].outcome))
    /\ active' = [active EXCEPT ![runs[i].job] = 0]
    /\ runs' = SubSeq(runs, 1, i - 1) \o SubSeq(runs, i + 1, Len(runs))
    /\ actor' = Promoting(1)
    /\ UNCHANGED <<scenario, starts, retries, up, planner, pending, deleting, queue, slots,
                   shuttingDown>>

Dropped(k) == SubSeq(queue, 1, k - 1) \o SubSeq(queue, k + 1, Len(queue))

(* promote_queued, one job at a time. *)
Promote ==
    LET k == actor.scan
        j == queue[k]
        Kept == Full \/ (Exists(j) /\ ~Terminal(j) /\ jobs[j].desired = "paused")
        Wanted == Exists(j) /\ ~Terminal(j) /\ jobs[j].desired = "running"
        Unwanted == Exists(j) /\ ~Terminal(j) /\ jobs[j].desired = "cancelled"
    IN  /\ actor.at = "promote"
        /\ \/ /\ k > Len(queue)
              /\ actor' = Idle
              /\ UNCHANGED <<jobs, queue>>
           \/ /\ k <= Len(queue) /\ Kept
              /\ actor' = Promoting(k + 1)
              /\ UNCHANGED <<jobs, queue>>
           \/ /\ k <= Len(queue) /\ ~Kept
              /\ queue' = Dropped(k)
              /\ actor' = IF Wanted THEN Launching(j, jobs[j].attempt, k) ELSE Promoting(k)
              /\ jobs' = IF Unwanted THEN [jobs EXCEPT ![j].status = "cancelled"] ELSE jobs
        /\ UNCHANGED <<scenario, attempts, starts, retries, up, planner, pending, deleting, active,
                       slots, shuttingDown, runs>>

-----------------------------------------------------------------------------
Handler == BeginAttempt \/ MarkActive \/ Launch \/ LaunchFails \/ MarkStatus \/ Promote
Planner == (\E j \in Jobs : Classify(j)) \/ BeginRecovery \/ Serve
EnqueueSome == \E command \in pending : Enqueue(command[1], command[2])
FinalizeSome == \E i \in DOMAIN runs : Finalize(i)
SomeRunEnds == \E i \in DOMAIN runs, outcome \in Terminals : RunEnds(i, outcome)
RemoveSome == \E j \in Jobs : RemoveHistory(j)
Command ==
    \/ \E j \in Jobs : CreateJob(j) \/ DeleteCheck(j) \/ Pause(j) \/ Resume(j) \/ Cancel(j) \/ Retry(j)
    \/ \E n \in 1..Cardinality(Jobs) : UpdateLimits(n)
    \/ Shutdown

SupervisorNext ==
    \/ Start \/ Stop \/ Planner \/ Handler \/ EnqueueSome \/ FinalizeSome \/ SomeRunEnds
    \/ RemoveSome \/ Command

SupervisorSpec == SupervisorInit /\ [][SupervisorNext]_supervisorVars

(* A run that is neither paused nor left alone ends, as the job models show. *)
RunsEnd ==
    \E i \in DOMAIN runs, outcome \in Terminals :
        (~runs[i].paused \/ runs[i].cancelled) /\ RunEnds(i, outcome)

SupervisorFairness ==
    /\ WF_supervisorVars(Start)
    /\ WF_supervisorVars(shuttingDown /\ Stop)
    /\ WF_supervisorVars(Planner)
    /\ WF_supervisorVars(Handler)
    /\ SF_supervisorVars(EnqueueSome)
    /\ SF_supervisorVars(FinalizeSome)
    /\ WF_supervisorVars(RunsEnd)
    /\ WF_supervisorVars(RemoveSome)

FairSupervisor == SupervisorSpec /\ SupervisorFairness

-----------------------------------------------------------------------------
(* Properties.                                                               *)

(* The supervisor can pause and cancel everything the engine does for it
   (Actor::active): each run of the engine is the one its job's entry names,
   no job has two, every entry has its run, and the attempt a run works on is
   unfinished.  A run whose job was deleted while it was being launched is the
   exception: nobody holds its handle. *)
RunsTracked ==
    LET Known == {i \in DOMAIN runs : jobs[runs[i].job] # Removed}
    IN  /\ \A i \in Known : active[runs[i].job] = runs[i].attempt /\ Open(runs[i].attempt)
        /\ \A i, k \in Known : runs[i].job = runs[k].job => i = k
        /\ \A j \in Jobs : active[j] # 0 => \E i \in DOMAIN runs : runs[i].job = j

(* The history shown to the user is true (finish_attempt): a job counts as
   completed or failed only because its current attempt did, whatever
   commands, crashes and recoveries came in between. *)
OutcomeTruthful ==
    \A j \in Jobs :
        actor = Idle /\ jobs[j].status \in {"completed", "failed"}
            => /\ jobs[j].attempt # 0
               /\ attempts[jobs[j].attempt] = [job |-> j, outcome |-> jobs[j].status]

(* A job has at most one unfinished attempt (begin_recovery_attempt_once),
   across crashes at any point of a launch or of the recovery itself. *)
OneOpenAttempt ==
    \A a, b \in DOMAIN attempts :
        Open(a) /\ Open(b) /\ attempts[a].job = attempts[b].job => a = b

(* A job that has ended is reopened by a retry only (enqueue, promote_queued,
   recovery): no late command, completion or recovery revives it. *)
TerminalStays ==
    [][\A j \in Jobs :
          Terminal(j) /\ jobs'[j].status # jobs[j].status
              => jobs'[j] = Removed \/ ("retry" \in scenario.commands /\ actor.job = j)]_supervisorVars

(* The engine is never started for a job the user has cancelled, not even by
   the recovery after a crash (enqueue, promote_queued, classify). *)
NoLaunchAfterCancel ==
    [][\A j \in Jobs : active[j] = 0 /\ active'[j] # 0 => jobs[j].desired # "cancelled"]_supervisorVars

(* Every job that should run ends or is told otherwise, through crashes,
   recoveries and waiting for a slot, unless the service is stopped for good. *)
Settles ==
    "pause" \notin scenario.commands =>
        \A j \in Jobs :
            []((Exists(j) /\ ~Terminal(j) /\ jobs[j].desired = "running")
                => <>(\/ Terminal(j) \/ ~Exists(j) \/ jobs[j].desired # "running"
                      \/ up = "down" /\ starts = scenario.starts))
=============================================================================
