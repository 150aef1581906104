-------------------------- MODULE SupervisorProofs --------------------------
(***************************************************************************)
(* Proofs about Supervisor, for every set of jobs, every number of slots   *)
(* and of starts of the process, and every mix of commands but retries.    *)
(* The registry and the actor's memory agree because a job is in at most   *)
(* one place at a time: in the recovery plan, in an Enqueue command, in    *)
(* the queue, in the hands of launch_job, or active.                       *)
(***************************************************************************)
EXTENDS Supervisor, WellFoundedInduction, TLAPS

USE SMTT(20), ZenonT(30)

Outcomes == Terminals \cup {"open", "interrupted", "removed"}
RowType == [desired : {"running", "paused", "cancelled"}, status : Statuses \cup {"none", "removed"}, attempt : Nat]
RunType == [job : Jobs, attempt : Nat, paused : BOOLEAN, cancelled : BOOLEAN,
            outcome : Terminals \cup {"none"}, tracked : BOOLEAN]
ActorType == [at : {"idle", "begin", "active", "spawn", "mark", "promote"},
              job : Jobs \cup {NoJob}, attempt : Nat, status : Statuses \cup {"none"}, scan : Nat]

Typed ==
    /\ scenario \in Scenarios /\ retries \in Nat
    /\ jobs \in [Jobs -> RowType]
    /\ attempts \in Seq([job : Jobs, outcome : Outcomes])
    /\ plan \subseteq Jobs /\ recovering \in Jobs \cup {NoJob}
    /\ pending \subseteq Jobs \X Nat /\ deleting \subseteq Jobs
    /\ active \in [Jobs -> Nat]
    /\ queue \in Seq(Jobs)
    /\ runs \in Seq(RunType)
    /\ actor \in ActorType

(* Where the process is: what exists before it serves, and what only then. *)
Phases ==
    /\ up \in {"down", "recovering", "serving"}
    /\ up # "recovering" => plan = {} /\ recovering = NoJob
    /\ up # "serving" => deleting = {}
    /\ up = "down" => /\ pending = {} /\ queue = <<>> /\ runs = <<>> /\ actor = Idle
                      /\ \A j \in Jobs : active[j] = 0
    /\ actor.at = "mark" => up = "serving"
    /\ actor.at = "promote" => actor.scan # 0
    /\ actor.at \in {"begin", "active", "spawn", "mark"} => actor.job \in Jobs

(* The places a job may be in, besides the plan and active. *)
Asked(j) == {p \in Nat : <<j, p>> \in pending}
Queued(j) == \E k \in DOMAIN queue : queue[k] = j
Launches(j) == actor.at \in {"begin", "active", "spawn"} /\ actor.job = j
Marked(j) == actor.at = "mark" /\ actor.job = j

Lives(j) == Exists(j) /\ ~Terminal(j)
OpenAttempts(j) == {a \in DOMAIN attempts : attempts[a] = [job |-> j, outcome |-> "open"]}

(* The attempt a launch will use: the job's current one, which is open, or
   none, when the job has never had one. *)
Bound(j, a) == jobs[j].attempt = a /\ (a # 0 => a \in OpenAttempts(j))

(* The row of a job that ended tells how its current attempt ended. *)
Truthful(j) ==
    jobs[j].status \in {"completed", "failed"} =>
        /\ jobs[j].attempt \in DOMAIN attempts
        /\ attempts[jobs[j].attempt] = [job |-> j, outcome |-> jobs[j].status]

JobOK(j) ==
    /\ OpenAttempts(j) \subseteq {jobs[j].attempt}
    /\ Truthful(j)
    /\ j \in deleting => Terminal(j)
    /\ j \in plan => /\ recovering # j /\ Asked(j) = {} /\ ~Queued(j) /\ ~Launches(j)
                     /\ active[j] = 0 /\ Lives(j)
    /\ recovering = j => /\ Asked(j) = {} /\ ~Queued(j) /\ ~Launches(j) /\ active[j] = 0
                         /\ Lives(j) /\ jobs[j].desired = "running"
    /\ \A p \in Asked(j) :
          /\ Asked(j) = {p} /\ ~Queued(j) /\ ~Launches(j) /\ active[j] = 0
          /\ jobs[j].status # "none" /\ Bound(j, p)
          /\ p # 0 => up = "recovering" /\ Lives(j)
          /\ Lives(j) /\ ~Marked(j) => jobs[j].desired # "cancelled"
    /\ Queued(j) => ~Launches(j) /\ active[j] = 0 /\ Lives(j) /\ Bound(j, jobs[j].attempt)
    /\ Launches(j) => /\ active[j] = 0 /\ Lives(j) /\ Bound(j, actor.attempt)
                      /\ jobs[j].desired # "cancelled"
                      /\ actor.at # "begin" => actor.attempt # 0
    /\ active[j] # 0 => Lives(j) /\ Bound(j, active[j])
    /\ Marked(j) => /\ ~Queued(j) /\ Lives(j)
                    /\ \/ actor.status \in {"paused", "active"} /\ active[j] # 0
                       \/ actor.status = "cancelled" /\ active[j] = 0

NoTwice(s) == \A k, m \in DOMAIN s : s[k] = s[m] => k = m

(* The runs of the engine and the entries of active match one to one. *)
RunsFit ==
    /\ \A i \in DOMAIN runs : runs[i].tracked /\ runs[i].attempt # 0 /\ active[runs[i].job] = runs[i].attempt
    /\ \A i, k \in DOMAIN runs : runs[i].job = runs[k].job => i = k
    /\ \A j \in Jobs : active[j] # 0 => \E i \in DOMAIN runs : runs[i].job = j

SupervisorInv == Typed /\ Phases /\ NoTwice(queue) /\ RunsFit /\ \A j \in Jobs : JobOK(j)

-----------------------------------------------------------------------------
(* What a step does to a job it is not about: no place gains it, and its row and
   its attempts stay. *)
Steady(k) ==
    /\ jobs'[k] = jobs[k] /\ active'[k] = active[k]
    /\ OpenAttempts(k)' = OpenAttempts(k) /\ (Truthful(k) => Truthful(k)')
    /\ k \in plan' => k \in plan
    /\ recovering' = k => recovering = k
    /\ k \in deleting' => k \in deleting
    /\ Asked(k)' \subseteq Asked(k)
    /\ Queued(k)' => Queued(k)
    /\ Launches(k)' => Launches(k) /\ actor' = actor
    /\ Marked(k)' <=> Marked(k)
    /\ Marked(k) => actor' = actor
    /\ up' = up \/ Asked(k)' = {}

(* A job the step is not about stays in order. *)
LEMMA JobKept ==
    ASSUME NEW k \in Jobs, JobOK(k), Steady(k)
    PROVE  JobOK(k)'
  BY Zenon DEF JobOK, Steady, Lives, Exists, Terminal, Bound

(* A step that leaves a part of the state alone leaves what it says of a job. *)
LEMMA PartsKept ==
    ASSUME NEW k
    PROVE  /\ attempts' = attempts => OpenAttempts(k)' = OpenAttempts(k)
           /\ attempts' = attempts /\ jobs'[k] = jobs[k] => (Truthful(k) => Truthful(k)')
           /\ pending' = pending => Asked(k)' = Asked(k)
           /\ queue' = queue => (Queued(k)' <=> Queued(k))
           /\ actor' = actor => (Launches(k)' <=> Launches(k)) /\ (Marked(k)' <=> Marked(k))
  BY Zenon DEF OpenAttempts, Truthful, Asked, Queued, Launches, Marked

(* Every job is in order after a step that touches none. *)
LEMMA AllKept ==
    ASSUME \A j \in Jobs : JobOK(j), UNCHANGED <<jobs, attempts, active, pending, queue, actor, up>>,
           plan' \subseteq plan, recovering' = recovering, deleting' \subseteq deleting
    PROVE  \A j \in Jobs : JobOK(j)'
<1>. TAKE k \in Jobs
<1>1. Steady(k)
  BY PartsKept, Zenon DEF Steady
<1>. QED
  BY <1>1, JobKept, Zenon

-----------------------------------------------------------------------------
(* The process and the recovery. *)

(* Starting the application touches nothing that the registry recorded. *)
LEMMA StartInv == ASSUME SupervisorInv, Start PROVE SupervisorInv'
<1>1. /\ pending = {} /\ queue = <<>> /\ runs = <<>> /\ actor = Idle /\ plan = {} /\ recovering = NoJob
      /\ deleting = {} /\ \A j \in Jobs : active[j] = 0
  BY Zenon DEF SupervisorInv, Phases, Start
<1>2. /\ up' = "recovering" /\ plan' = {j \in Jobs : Lives(j)}
      /\ UNCHANGED <<scenario, jobs, attempts, retries, recovering, pending, deleting, active, queue, runs, actor>>
  BY Zenon DEF Start, registry, memory, Lives
<1>3. Typed' /\ NoTwice(queue)' /\ RunsFit'
  BY <1>2, Zenon DEF SupervisorInv, Typed, NoTwice, RunsFit
<1>4. Phases'
  BY <1>1, <1>2, Zenon DEF Phases, Idle
<1>5. ASSUME NEW k \in Jobs PROVE JobOK(k)'
  <2>1. Asked(k)' = {} /\ ~Queued(k)' /\ ~Launches(k)' /\ ~Marked(k)'
    BY <1>1, <1>2 DEF Asked, Queued, Launches, Marked, Idle
  <2>2. recovering' # k /\ active'[k] = 0 /\ k \notin deleting' /\ (k \in plan' => Lives(k)')
    BY <1>1, <1>2, ScenarioAssumption, Zenon DEF Lives, Exists, Terminal
  <2>3. JobOK(k)
    BY Zenon DEF SupervisorInv
  <2>. QED
    BY <1>2, <2>1, <2>2, <2>3, PartsKept, Zenon DEF JobOK
<1>. QED
  BY <1>3, <1>4, <1>5, Zenon DEF SupervisorInv

(* The process ends: what lives in memory goes, the registry's rows stay. *)
LEMMA StopInv == ASSUME SupervisorInv, Stop PROVE SupervisorInv'
<1>1. /\ up' = "down" /\ plan' = {} /\ recovering' = NoJob /\ pending' = {} /\ deleting' = {}
      /\ active' = [j \in Jobs |-> 0] /\ queue' = <<>> /\ runs' = <<>> /\ actor' = Idle
      /\ UNCHANGED <<scenario, jobs, attempts, retries>>
  BY Zenon DEF Stop, registry
<1>2. Typed'
  BY <1>1 DEF SupervisorInv, Typed, Idle, ActorType
<1>3. NoTwice(queue)' /\ RunsFit' /\ Phases'
  BY <1>1 DEF NoTwice, RunsFit, Phases, Idle
<1>4. ASSUME NEW k \in Jobs PROVE JobOK(k)'
  <2>1. Asked(k)' = {} /\ ~Queued(k)' /\ ~Launches(k)' /\ ~Marked(k)'
    BY <1>1 DEF Asked, Queued, Launches, Marked, Idle
  <2>2. recovering' # k /\ active'[k] = 0 /\ k \notin deleting' /\ k \notin plan'
    BY <1>1, ScenarioAssumption, Zenon
  <2>3. JobOK(k)
    BY Zenon DEF SupervisorInv
  <2>. QED
    BY <1>1, <2>1, <2>2, <2>3, PartsKept, Zenon DEF JobOK
<1>. QED
  BY <1>2, <1>3, <1>4, Zenon DEF SupervisorInv

(* Serving requests begins once recovery has looked at every row. *)
LEMMA ServeInv == ASSUME SupervisorInv, Serve PROVE SupervisorInv'
<1>1. /\ up' = "serving" /\ plan = {} /\ recovering = NoJob /\ pending = {} /\ up = "recovering"
      /\ UNCHANGED <<scenario, jobs, attempts, retries, plan, recovering, pending, deleting, active, queue, runs, actor>>
  BY Zenon DEF Serve, PlannerReady, registry, memory, planner
<1>2. Typed' /\ NoTwice(queue)' /\ RunsFit'
  BY <1>1, Zenon DEF SupervisorInv, Typed, NoTwice, RunsFit
<1>3. Phases'
  BY <1>1, Zenon DEF SupervisorInv, Phases
<1>4. ASSUME NEW k \in Jobs PROVE JobOK(k)'
  <2>1. Asked(k)' = {}
    BY <1>1, Zenon DEF Asked
  <2>2. Steady(k)
    BY <1>1, <2>1, PartsKept, Zenon DEF Steady
  <2>. QED
    BY <2>2, JobKept, Zenon DEF SupervisorInv
<1>. QED
  BY <1>2, <1>3, <1>4, Zenon DEF SupervisorInv

(* Writing one column of a job's row. *)
LEMMA StatusSet ==
    ASSUME Typed, NEW j \in Jobs, NEW s \in Statuses, SetStatus(j, s)
    PROVE  /\ jobs' \in [Jobs -> RowType]
           /\ jobs'[j].status = s /\ jobs'[j].desired = jobs[j].desired /\ jobs'[j].attempt = jobs[j].attempt
           /\ \A k \in Jobs \ {j} : jobs'[k] = jobs[k]
<1>1. jobs \in [Jobs -> RowType] /\ jobs' = [jobs EXCEPT ![j].status = s]
  BY Zenon DEF Typed, SetStatus
<1>. QED
  BY <1>1, Zenon DEF RowType

(* SetDesired writes the desired state of one row and nothing else. *)
LEMMA DesiredSet ==
    ASSUME Typed, NEW j \in Jobs, NEW d \in {"running", "paused", "cancelled"}, SetDesired(j, d)
    PROVE  /\ jobs' \in [Jobs -> RowType]
           /\ jobs'[j].desired = d /\ jobs'[j].status = jobs[j].status /\ jobs'[j].attempt = jobs[j].attempt
           /\ \A k \in Jobs \ {j} : jobs'[k] = jobs[k]
<1>1. jobs \in [Jobs -> RowType] /\ jobs' = [jobs EXCEPT ![j].desired = d]
  BY Zenon DEF Typed, SetDesired
<1>. QED
  BY <1>1, Zenon DEF RowType

(* Recovery decides from a row's desired state whether the job runs again. *)
LEMMA ClassifyInv == ASSUME SupervisorInv, NEW j \in Jobs, Classify(j) PROVE SupervisorInv'
<1>1. /\ up = "recovering" /\ recovering = NoJob /\ pending = {} /\ j \in plan /\ plan' = plan \ {j}
      /\ UNCHANGED <<scenario, attempts, retries, up, pending, deleting, active, queue, runs, actor>>
  BY Zenon DEF Classify, PlannerReady, memory
<1>2. Typed /\ Phases /\ JobOK(j) /\ deleting = {} /\ actor.at # "mark"
  BY <1>1, Zenon DEF SupervisorInv, Phases
<1>3. /\ jobs[j].desired = "running" => SetStatus(j, "recovering") /\ recovering' = j
      /\ jobs[j].desired = "paused" => SetStatus(j, "paused") /\ recovering' = recovering
      /\ jobs[j].desired = "cancelled" => UNCHANGED <<jobs, recovering>>
  BY Zenon DEF Classify
<1>4. jobs[j].desired \in {"running", "paused", "cancelled"}
  BY <1>2, Zenon DEF Typed, RowType
<1>5. /\ jobs' \in [Jobs -> RowType] /\ jobs'[j].desired = jobs[j].desired /\ jobs'[j].attempt = jobs[j].attempt
      /\ jobs'[j].status \in {"recovering", "paused", jobs[j].status}
      /\ recovering' \in {j, NoJob}
      /\ recovering' = j => jobs'[j].desired = "running" /\ jobs'[j].status = "recovering"
      /\ \A k \in Jobs \ {j} : jobs'[k] = jobs[k]
  <2>1. CASE jobs[j].desired = "running"
    BY <1>2, <1>3, <2>1, StatusSet, Zenon DEF Statuses
  <2>2. CASE jobs[j].desired = "paused"
    BY <1>1, <1>2, <1>3, <2>2, StatusSet, ScenarioAssumption, Zenon DEF Statuses
  <2>3. CASE jobs[j].desired = "cancelled"
    BY <1>1, <1>2, <1>3, <2>3, ScenarioAssumption, Zenon DEF Typed
  <2>. QED
    BY <1>4, <2>1, <2>2, <2>3, Zenon
<1>6. Typed'
  BY <1>1, <1>2, <1>5, Zenon DEF Typed
<1>7. NoTwice(queue)' /\ RunsFit' /\ Phases'
  BY <1>1, <1>2, Zenon DEF SupervisorInv, NoTwice, RunsFit, Phases
<1>8. ASSUME NEW k \in Jobs, k # j PROVE JobOK(k)'
  <2>1. Steady(k)
    BY <1>1, <1>5, <1>8, PartsKept, ScenarioAssumption, Zenon DEF Steady
  <2>. QED
    BY <2>1, JobKept, Zenon DEF SupervisorInv
<1>9. JobOK(j)'
  <2>1. Asked(j)' = {} /\ ~Queued(j)' /\ ~Launches(j)' /\ ~Marked(j)' /\ active'[j] = 0 /\ Lives(j)
    BY <1>1, <1>2, PartsKept, Zenon DEF JobOK, Marked
  <2>2. OpenAttempts(j)' \subseteq {jobs'[j].attempt} /\ j \notin plan' /\ j \notin deleting'
    BY <1>1, <1>2, <1>5, PartsKept, Zenon DEF JobOK
  <2>3. Lives(j)'
    BY <1>5, <2>1, Zenon DEF Lives, Exists, Terminal, Statuses, Terminals
  <2>4. Truthful(j)'
    BY <2>3, Zenon DEF Truthful, Lives, Terminal, Terminals
  <2>. QED
    BY <1>5, <2>1, <2>2, <2>3, <2>4, Zenon DEF JobOK
<1>. QED
  BY <1>6, <1>7, <1>8, <1>9, Zenon DEF SupervisorInv

(* Closing a dead process's attempt and opening the next one. *)
LEMMA RecoveredRows ==
    ASSUME Typed, NEW r \in Jobs, attempts' = Append(Interrupted(attempts, r), NewAttempt(r))
    PROVE  /\ attempts' \in Seq([job : Jobs, outcome : Outcomes])
           /\ Len(attempts) \in Nat
           /\ OpenAttempts(r)' = {Len(attempts) + 1}
           /\ \A k \in Jobs \ {r} : OpenAttempts(k)' = OpenAttempts(k)
           /\ \A k \in Jobs : jobs'[k] = jobs[k] /\ Truthful(k) => Truthful(k)'
<1> DEFINE Row == [job : Jobs, outcome : Outcomes]
           rows == Interrupted(attempts, r)
<1>1. attempts \in Seq(Row) /\ DOMAIN attempts = 1 .. Len(attempts) /\ Len(attempts) \in Nat
  BY DEF Typed
<1>2. \A a \in 1 .. Len(attempts) : attempts[a] \in Row
  <2>. HIDE DEF Row
  <2>. QED
    BY <1>1
<1>3. \A a \in 1 .. Len(attempts) :
          rows[a] = IF attempts[a].job = r /\ attempts[a].outcome = "open"
                    THEN [attempts[a] EXCEPT !.outcome = "interrupted"] ELSE attempts[a]
  BY <1>1, Zenon DEF Interrupted
<1>4. \A a \in 1 .. Len(attempts) : rows[a] \in Row
  BY <1>2, <1>3, Zenon DEF Outcomes
<1>5. rows \in Seq(Row) /\ Len(rows) = Len(attempts)
  <2>1. rows = [a \in 1 .. Len(attempts) |-> rows[a]]
    BY <1>1, Zenon DEF Interrupted
  <2>. HIDE DEF rows
  <2>. QED
    BY <1>1, <1>4, <2>1
<1>6. NewAttempt(r) \in Row /\ NewAttempt(r) = [job |-> r, outcome |-> "open"]
  BY Zenon DEF NewAttempt, Outcomes
<1>. HIDE DEF rows
<1>7. attempts' = Append(rows, NewAttempt(r))
  BY Zenon DEF rows
<1>8. /\ attempts' \in Seq(Row) /\ Len(attempts') = Len(attempts) + 1
      /\ DOMAIN attempts' = 1 .. Len(attempts) + 1
      /\ attempts'[Len(attempts) + 1] = [job |-> r, outcome |-> "open"]
      /\ \A a \in 1 .. Len(attempts) : attempts'[a] = rows[a]
  <2>. DEFINE new == NewAttempt(r)
  <2>1. new \in Row /\ new = [job |-> r, outcome |-> "open"] /\ attempts' = Append(rows, new)
    BY <1>6, <1>7, Zenon
  <2>. HIDE DEF new, Row
  <2>2. /\ attempts' \in Seq(Row) /\ Len(attempts') = Len(attempts) + 1
        /\ DOMAIN attempts' = 1 .. Len(attempts) + 1
        /\ attempts'[Len(attempts) + 1] = new
        /\ \A a \in 1 .. Len(attempts) : attempts'[a] = rows[a]
    BY <1>1, <1>5, <2>1
  <2>. QED
    BY <2>1, <2>2, Zenon
<1>9. ASSUME NEW a \in 1 .. Len(attempts), attempts[a] = [job |-> r, outcome |-> "open"]
      PROVE  attempts'[a] = [job |-> r, outcome |-> "interrupted"]
  <2>1. attempts'[a] = [attempts[a] EXCEPT !.outcome = "interrupted"]
    BY <1>3, <1>8, <1>9
  <2>. QED
    BY <1>9, <2>1
<1>10. ASSUME NEW a \in 1 .. Len(attempts), attempts[a] # [job |-> r, outcome |-> "open"]
       PROVE  attempts'[a] = attempts[a]
  <2>1. attempts[a] \in Row
    BY <1>2, Zenon
  <2>2. ~(attempts[a].job = r /\ attempts[a].outcome = "open")
    BY <1>10, <2>1, Zenon
  <2>. QED
    BY <1>3, <1>8, <2>2, Zenon
<1>11. OpenAttempts(r)' = {Len(attempts) + 1}
  BY <1>1, <1>8, <1>9, <1>10 DEF OpenAttempts
<1>12. ASSUME NEW k \in Jobs, k # r PROVE OpenAttempts(k)' = OpenAttempts(k)
  <2>1. [job |-> k, outcome |-> "open"] # [job |-> r, outcome |-> "open"]
    BY <1>12, Zenon
  <2>2. [job |-> r, outcome |-> "interrupted"] # [job |-> k, outcome |-> "open"]
    BY Zenon
  <2>3. ASSUME NEW a \in 1 .. Len(attempts)
        PROVE  attempts'[a] = [job |-> k, outcome |-> "open"] <=> attempts[a] = [job |-> k, outcome |-> "open"]
    <3>1. CASE attempts[a] = [job |-> r, outcome |-> "open"]
      BY <1>9, <2>1, <2>2, <3>1, Zenon
    <3>2. CASE attempts[a] # [job |-> r, outcome |-> "open"]
      BY <1>10, <3>2, Zenon
    <3>. QED
      BY <3>1, <3>2, Zenon
  <2>. QED
    BY <1>1, <1>8, <2>1, <2>3 DEF OpenAttempts
<1>13. ASSUME NEW k \in Jobs, jobs'[k] = jobs[k], Truthful(k) PROVE Truthful(k)'
  BY <1>1, <1>8, <1>10, <1>13 DEF Truthful
<1>. QED
  BY <1>1, <1>8, <1>11, <1>12, <1>13, Zenon

(* Recovery closes what the last process left open before it opens an attempt of
   its own. *)
LEMMA BeginRecoveryInv == ASSUME SupervisorInv, BeginRecovery PROVE SupervisorInv'
<1>1. Typed /\ Phases /\ recovering \in Jobs /\ up = "recovering" /\ deleting = {} /\ actor.at # "mark"
  BY Zenon DEF SupervisorInv, Phases, BeginRecovery, Typed
<1>2. PICK r \in Jobs : r = recovering
  BY <1>1, Zenon
<1> DEFINE new == Len(attempts) + 1
<1>3. /\ attempts' = Append(Interrupted(attempts, r), NewAttempt(r))
      /\ jobs' = [jobs EXCEPT ![r].attempt = new]
      /\ pending' = pending \cup {<<r, new>>}
      /\ recovering' = NoJob
      /\ UNCHANGED <<scenario, retries, up, plan, deleting, active, queue, runs, actor>>
  BY <1>2, Zenon DEF BeginRecovery, memory
<1>4. /\ attempts' \in Seq([job : Jobs, outcome : Outcomes]) /\ new \in Nat /\ new # 0
      /\ OpenAttempts(r)' = {new}
      /\ \A k \in Jobs \ {r} : OpenAttempts(k)' = OpenAttempts(k)
      /\ \A k \in Jobs : jobs'[k] = jobs[k] /\ Truthful(k) => Truthful(k)'
  <2>1. /\ attempts' \in Seq([job : Jobs, outcome : Outcomes])
        /\ Len(attempts) \in Nat
        /\ OpenAttempts(r)' = {Len(attempts) + 1}
        /\ \A k \in Jobs \ {r} : OpenAttempts(k)' = OpenAttempts(k)
        /\ \A k \in Jobs : jobs'[k] = jobs[k] /\ Truthful(k) => Truthful(k)'
    BY <1>1, <1>3, RecoveredRows, Zenon
  <2>2. new \in Nat /\ new # 0
    BY <2>1
  <2>. QED
    BY <2>1, <2>2, Zenon
<1>5. /\ jobs' \in [Jobs -> RowType]
      /\ jobs'[r].attempt = new /\ jobs'[r].status = jobs[r].status /\ jobs'[r].desired = jobs[r].desired
      /\ \A k \in Jobs \ {r} : jobs'[k] = jobs[k]
  <2>1. jobs \in [Jobs -> RowType]
    BY <1>1, Zenon DEF Typed
  <2>. HIDE DEF new
  <2>. QED
    BY <1>3, <1>4, <2>1, Zenon DEF RowType
<1>. HIDE DEF new
<1>6. Typed'
  BY <1>1, <1>3, <1>4, <1>5 DEF Typed
<1>7. NoTwice(queue)' /\ RunsFit' /\ Phases'
  BY <1>1, <1>3, Zenon DEF SupervisorInv, NoTwice, RunsFit, Phases
<1>8. ASSUME NEW k \in Jobs, k # r PROVE JobOK(k)'
  <2>1. Asked(k)' = Asked(k)
    BY <1>3, <1>8, Zenon DEF Asked
  <2>2. Steady(k)
    BY <1>3, <1>4, <1>5, <1>8, <2>1, PartsKept, ScenarioAssumption, Zenon DEF Steady
  <2>. QED
    BY <2>2, JobKept, Zenon DEF SupervisorInv
<1>9. JobOK(r)'
  <2>1. /\ Asked(r) = {} /\ ~Queued(r) /\ ~Launches(r) /\ active[r] = 0 /\ Lives(r)
        /\ jobs[r].desired = "running" /\ r \notin plan
    BY <1>2, Zenon DEF SupervisorInv, JobOK
  <2>2. Asked(r)' = {new}
    BY <1>3, <1>4, <2>1, Zenon DEF Asked
  <2>3. ~Queued(r)' /\ ~Launches(r)' /\ ~Marked(r)' /\ active'[r] = 0
    BY <1>1, <1>3, <2>1, PartsKept, Zenon DEF Marked
  <2>4. Lives(r)' /\ jobs'[r].status # "none"
    BY <1>5, <2>1, Zenon DEF Lives, Exists, Terminal, Statuses, Terminals
  <2>5. Truthful(r)'
    BY <2>4, Zenon DEF Truthful, Lives, Terminal, Terminals
  <2>6. r \notin plan' /\ recovering' # r /\ r \notin deleting'
    BY <1>1, <1>3, <2>1, ScenarioAssumption, Zenon
  <2>. QED
    BY <1>1, <1>3, <1>4, <1>5, <2>1, <2>2, <2>3, <2>4, <2>5, <2>6, Zenon DEF JobOK, Bound
<1>. QED
  BY <1>6, <1>7, <1>8, <1>9, Zenon DEF SupervisorInv

-----------------------------------------------------------------------------
(* The handlers that write the registry themselves. *)

(* A created job has no attempt yet. *)
LEMMA CreateJobInv == ASSUME SupervisorInv, NEW j \in Jobs, CreateJob(j) PROVE SupervisorInv'
<1>1. /\ jobs[j] = NoRow /\ SetStatus(j, "queued") /\ pending' = pending \cup {<<j, 0>>} /\ up = "serving"
      /\ UNCHANGED <<scenario, attempts, retries, up, plan, recovering, deleting, active, queue, runs, actor>>
  BY Zenon DEF CreateJob, memory, planner
<1>2. Typed /\ Phases /\ JobOK(j)
  BY Zenon DEF SupervisorInv
<1>3. /\ jobs' \in [Jobs -> RowType]
      /\ jobs'[j].status = "queued" /\ jobs'[j].desired = "running" /\ jobs'[j].attempt = 0
      /\ \A k \in Jobs \ {j} : jobs'[k] = jobs[k]
  BY <1>1, <1>2, StatusSet DEF NoRow, Statuses
<1>4. Typed'
  BY <1>1, <1>2, <1>3 DEF Typed
<1>5. NoTwice(queue)' /\ RunsFit' /\ Phases'
  BY <1>1, <1>2, Zenon DEF SupervisorInv, NoTwice, RunsFit, Phases
<1>6. ASSUME NEW k \in Jobs, k # j PROVE JobOK(k)'
  <2>1. Asked(k)' = Asked(k)
    BY <1>1, <1>6, Zenon DEF Asked
  <2>2. Steady(k)
    BY <1>1, <1>3, <1>6, <2>1, PartsKept, Zenon DEF Steady
  <2>. QED
    BY <2>2, JobKept, Zenon DEF SupervisorInv
<1>7. JobOK(j)'
  <2>1. ~Lives(j) /\ jobs[j].status = "none" /\ jobs[j].attempt = 0 /\ ~Terminal(j)
    BY <1>1 DEF NoRow, Lives, Exists, Terminal, Statuses, Terminals
  <2>2. /\ Asked(j) = {} /\ ~Queued(j) /\ ~Launches(j) /\ ~Marked(j) /\ active[j] = 0
        /\ j \notin plan /\ recovering # j /\ j \notin deleting /\ OpenAttempts(j) \subseteq {0}
    BY <1>2, <2>1, Zenon DEF JobOK
  <2>3. Asked(j)' = {0}
    BY <1>1, <2>2 DEF Asked
  <2>4. Lives(j)' /\ Truthful(j)'
    BY <1>3, Zenon DEF Lives, Exists, Terminal, Statuses, Terminals, Truthful
  <2>. QED
    BY <1>1, <1>3, <2>2, <2>3, <2>4, PartsKept, Zenon DEF JobOK, Bound
<1>. QED
  BY <1>4, <1>5, <1>6, <1>7, Zenon DEF SupervisorInv

(* The check before a deletion changes no row. *)
LEMMA DeleteCheckInv == ASSUME SupervisorInv, NEW j \in Jobs, DeleteCheck(j) PROVE SupervisorInv'
<1>1. /\ Terminal(j) /\ deleting' = deleting \cup {j} /\ up = "serving"
      /\ UNCHANGED <<scenario, jobs, attempts, retries, up, plan, recovering, pending, active, queue, runs, actor>>
  BY Zenon DEF DeleteCheck, memory, planner, registry
<1>2. Typed'
  BY <1>1, Zenon DEF SupervisorInv, Typed
<1>3. NoTwice(queue)' /\ RunsFit' /\ Phases'
  BY <1>1, Zenon DEF SupervisorInv, NoTwice, RunsFit, Phases
<1>4. ASSUME NEW k \in Jobs PROVE JobOK(k)'
  <2>1. CASE k # j
    <3>1. Steady(k)
      BY <1>1, <2>1, PartsKept, Zenon DEF Steady
    <3>. QED
      BY <3>1, JobKept, Zenon DEF SupervisorInv
  <2>2. CASE k = j
    <3>1. JobOK(k) /\ Terminal(k)
      BY <1>1, <2>2, Zenon DEF SupervisorInv
    <3>. QED
      BY <1>1, <3>1, PartsKept, Zenon DEF JobOK, Lives, Exists, Terminal, Bound
  <2>. QED
    BY <2>1, <2>2, Zenon
<1>. QED
  BY <1>2, <1>3, <1>4, Zenon DEF SupervisorInv

(* Removing a job's row and its attempts leaves the other jobs alone. *)
LEMMA RemoveHistoryInv == ASSUME SupervisorInv, NEW j \in Jobs, RemoveHistory(j) PROVE SupervisorInv'
<1>1. /\ j \in deleting /\ jobs' = [jobs EXCEPT ![j] = Removed] /\ deleting' = deleting \ {j}
      /\ attempts' = [a \in DOMAIN attempts |->
                        IF attempts[a].job = j THEN [attempts[a] EXCEPT !.outcome = "removed"] ELSE attempts[a]]
      /\ UNCHANGED <<scenario, retries, up, plan, recovering, pending, active, queue, runs, actor>>
  BY Zenon DEF RemoveHistory, memory, planner
<1>2. Typed /\ Phases /\ JobOK(j)
  BY Zenon DEF SupervisorInv
<1>3. /\ jobs' \in [Jobs -> RowType] /\ \A k \in Jobs \ {j} : jobs'[k] = jobs[k]
      /\ jobs'[j].status = "removed" /\ jobs'[j].attempt = 0
  BY <1>1, <1>2, Zenon DEF Typed, RowType, Removed, NoRow
<1> DEFINE Row == [job : Jobs, outcome : Outcomes]
<1>4. attempts \in Seq(Row) /\ DOMAIN attempts = 1 .. Len(attempts) /\ Len(attempts) \in Nat
  BY <1>2 DEF Typed
<1>5. \A a \in 1 .. Len(attempts) : attempts[a] \in Row
  <2>. HIDE DEF Row
  <2>. QED
    BY <1>4
<1>6. ASSUME NEW a \in 1 .. Len(attempts)
      PROVE  /\ attempts'[a] \in Row
             /\ attempts[a].job = j => attempts'[a].outcome = "removed" /\ attempts'[a].job = j
             /\ attempts[a].job # j => attempts'[a] = attempts[a]
  <2>1. CASE attempts[a].job = j
    <3>1. attempts'[a] = [attempts[a] EXCEPT !.outcome = "removed"]
      BY <1>1, <1>4, <2>1, Zenon
    <3>. QED
      BY <1>5, <2>1, <3>1, Zenon DEF Outcomes
  <2>2. CASE attempts[a].job # j
    BY <1>1, <1>4, <1>5, <2>2, Zenon
  <2>. QED
    BY <2>1, <2>2, Zenon
<1>7. attempts' \in Seq(Row) /\ DOMAIN attempts' = 1 .. Len(attempts)
  <2>1. attempts' = [a \in 1 .. Len(attempts) |-> attempts'[a]]
    BY <1>1, <1>4, Zenon
  <2>. HIDE DEF Row
  <2>. QED
    BY <1>4, <1>6, <2>1
<1>8. Typed'
  BY <1>1, <1>2, <1>3, <1>7, Zenon DEF Typed
<1>9. NoTwice(queue)' /\ RunsFit' /\ Phases'
  BY <1>1, <1>2, Zenon DEF SupervisorInv, NoTwice, RunsFit, Phases
<1>10. ASSUME NEW k \in Jobs, k # j PROVE JobOK(k)'
  <2>1. \A a \in 1 .. Len(attempts) : attempts'[a].job = k \/ attempts[a].job = k => attempts'[a] = attempts[a]
    BY <1>6, <1>10, Zenon
  <2>2. OpenAttempts(k)' = OpenAttempts(k)
    BY <1>4, <1>7, <2>1 DEF OpenAttempts
  <2>3. Truthful(k) => Truthful(k)'
    BY <1>3, <1>4, <1>7, <1>10, <2>1 DEF Truthful
  <2>4. Steady(k)
    BY <1>1, <1>3, <1>10, <2>2, <2>3, PartsKept, Zenon DEF Steady
  <2>. QED
    BY <2>4, JobKept, Zenon DEF SupervisorInv
<1>11. JobOK(j)'
  <2>1. Terminal(j) /\ ~Lives(j)
    BY <1>1, <1>2, Zenon DEF JobOK, Lives
  <2>2. /\ Asked(j) \subseteq {0} /\ ~Queued(j) /\ ~Launches(j) /\ ~Marked(j) /\ active[j] = 0
        /\ j \notin plan /\ recovering # j
    BY <1>2, <2>1, Zenon DEF JobOK
  <2>3. OpenAttempts(j)' = {}
    BY <1>5, <1>6, <1>7 DEF OpenAttempts
  <2>4. ~Lives(j)' /\ Truthful(j)'
    BY <1>3, Zenon DEF Lives, Exists, Terminal, Statuses, Terminals, Truthful
  <2>. QED
    BY <1>1, <1>3, <2>2, <2>3, <2>4, PartsKept, Zenon DEF JobOK, Bound
<1>. QED
  BY <1>8, <1>9, <1>10, <1>11, Zenon DEF SupervisorInv

-----------------------------------------------------------------------------
(* Launching. *)

(* The stages of the handler, spelled out. *)
LEMMA Stages ==
    /\ Idle = [at |-> "idle", job |-> NoJob, attempt |-> 0, status |-> "none", scan |-> 0]
    /\ \A j, p, n : Launching(j, p, n) = [at |-> "begin", job |-> j, attempt |-> p, status |-> "none", scan |-> n]
    /\ \A j, s : Marking(j, s) = [at |-> "mark", job |-> j, attempt |-> 0, status |-> s, scan |-> 0]
    /\ \A n : Promoting(n) = [at |-> "promote", job |-> NoJob, attempt |-> 0, status |-> "none", scan |-> n]
BY Zenon DEF Idle, Launching, Marking, Promoting

(* launch_job returns to a handler that holds no job. *)
LEMMA Returns ==
    ASSUME Typed
    PROVE  /\ Return \in ActorType /\ Return.at \in {"idle", "promote"}
           /\ Return.at = "promote" => Return.scan # 0
<1>1. actor.scan \in Nat
  BY Zenon DEF Typed, ActorType
<1>2. Idle \in ActorType /\ Idle.at = "idle"
  BY Stages, Zenon DEF ActorType
<1>3. /\ Promoting(actor.scan) \in ActorType /\ Promoting(actor.scan).at = "promote"
      /\ Promoting(actor.scan).scan = actor.scan
  BY <1>1, Stages, Zenon DEF ActorType
<1>. QED
  BY <1>2, <1>3, Zenon DEF Return

(* A job joins the end of the queue. *)
LEMMA QueueGrows ==
    ASSUME queue \in Seq(Jobs), NEW j \in Jobs, queue' = Append(queue, j)
    PROVE  /\ queue' \in Seq(Jobs)
           /\ \A k \in Jobs : Queued(k)' <=> Queued(k) \/ k = j
           /\ NoTwice(queue) /\ ~Queued(j) => NoTwice(queue)'
<1>1. /\ queue' \in Seq(Jobs) /\ DOMAIN queue = 1 .. Len(queue) /\ DOMAIN queue' = 1 .. Len(queue) + 1
      /\ Len(queue) \in Nat /\ queue'[Len(queue) + 1] = j /\ \A i \in 1 .. Len(queue) : queue'[i] = queue[i]
  OBVIOUS
<1>2. ASSUME NEW k \in Jobs PROVE Queued(k)' <=> Queued(k) \/ k = j
  BY <1>1 DEF Queued
<1>3. ASSUME NoTwice(queue), ~Queued(j) PROVE NoTwice(queue)'
  BY <1>1, <1>3 DEF NoTwice, Queued
<1>. QED
  BY <1>1, <1>2, <1>3, Zenon

(* The command that announces a job queues it, launches it or finds it gone. *)
LEMMA EnqueueInv ==
    ASSUME SupervisorInv, NEW j \in Jobs, NEW p \in Nat, Enqueue(j, p) PROVE SupervisorInv'
<1>1. /\ actor = Idle /\ <<j, p>> \in pending /\ pending' = pending \ {<<j, p>>}
      /\ UNCHANGED <<scenario, jobs, attempts, retries, up, plan, recovering, deleting, active, runs>>
  BY Zenon DEF Enqueue, registry, planner
<1>2. /\ Typed /\ Phases /\ JobOK(j) /\ NoTwice(queue) /\ RunsFit /\ up # "down"
      /\ actor.at = "idle"
  BY <1>1, Stages, Zenon DEF SupervisorInv, Phases
<1>3. /\ Asked(j) = {p} /\ ~Queued(j) /\ active[j] = 0 /\ Bound(j, p)
      /\ Lives(j) => jobs[j].desired # "cancelled"
      /\ j \notin plan /\ recovering # j
  <2>1. p \in Asked(j) /\ ~Marked(j)
    BY <1>1, <1>2, Zenon DEF Asked, Marked
  <2>. QED
    BY <1>2, <2>1, Zenon DEF JobOK
<1>4. Asked(j)' = {} /\ \A k \in Jobs \ {j} : Asked(k)' = Asked(k)
  BY <1>1, <1>3, Zenon DEF Asked
<1>5. \/ Lives(j) /\ queue' = Append(queue, j) /\ actor' = actor
      \/ Lives(j) /\ actor' = Launching(j, p, 0) /\ queue' = queue
      \/ UNCHANGED <<queue, actor>>
  BY Zenon DEF Enqueue, Lives
<1>6. /\ queue' \in Seq(Jobs) /\ NoTwice(queue)' /\ \A k \in Jobs \ {j} : Queued(k)' => Queued(k)
      /\ Queued(j)' => Lives(j) /\ actor' = actor
  BY <1>2, <1>3, <1>5, QueueGrows, PartsKept, Zenon DEF Typed, NoTwice
<1>7. /\ actor' \in ActorType /\ actor'.at # "mark"
      /\ \A k \in Jobs \ {j} : ~Launches(k)'
      /\ Launches(j)' => Lives(j) /\ actor'.attempt = p /\ actor'.at = "begin"
      /\ actor'.at = "begin" => actor'.job = j
      /\ actor'.at \in {"idle", "begin"}
  <2>1. CASE actor' = Launching(j, p, 0) /\ Lives(j)
    BY <2>1, Stages, Zenon DEF ActorType, Launches
  <2>2. CASE actor' = actor
    BY <1>2, <2>2, Zenon DEF Typed, Launches
  <2>. QED
    BY <1>5, <2>1, <2>2, Zenon
<1>8. Typed'
  BY <1>1, <1>2, <1>6, <1>7, Zenon DEF Typed
<1>9. RunsFit' /\ Phases'
  BY <1>1, <1>2, <1>7, Zenon DEF RunsFit, Phases
<1>10. ASSUME NEW k \in Jobs, k # j PROVE JobOK(k)'
  <2>1. Steady(k)
    BY <1>1, <1>2, <1>4, <1>6, <1>7, <1>10, PartsKept, Zenon DEF Steady, Marked
  <2>. QED
    BY <2>1, JobKept, Zenon DEF SupervisorInv
<1>11. JobOK(j)'
  <2>1. ~Marked(j)' /\ (Queued(j)' => ~Launches(j)')
    BY <1>2, <1>6, <1>7, Zenon DEF Marked, Launches
  <2>2. (Lives(j)' <=> Lives(j)) /\ OpenAttempts(j)' = OpenAttempts(j) /\ Truthful(j)' /\ jobs'[j] = jobs[j]
    BY <1>1, <1>2, PartsKept, Zenon DEF Lives, Exists, Terminal, JobOK
  <2>3. j \notin plan' /\ recovering' # j /\ active'[j] = 0 /\ (j \in deleting' => Terminal(j)')
    BY <1>1, <1>2, <1>3, Zenon DEF JobOK, Terminal
  <2>4. \A a : Bound(j, a)' <=> Bound(j, a)
    BY <2>2, Zenon DEF Bound
  <2>. QED
    BY <1>2, <1>3, <1>4, <1>6, <1>7, <2>1, <2>2, <2>3, <2>4, Zenon DEF JobOK, Bound
<1>. QED
  BY <1>6, <1>8, <1>9, <1>10, <1>11, Zenon DEF SupervisorInv

(* A new attempt is the only change to the attempts. *)
LEMMA NewRow ==
    ASSUME Typed, NEW j \in Jobs, attempts' = Append(attempts, NewAttempt(j))
    PROVE  /\ attempts' \in Seq([job : Jobs, outcome : Outcomes])
           /\ Len(attempts) \in Nat
           /\ OpenAttempts(j)' = OpenAttempts(j) \cup {Len(attempts) + 1}
           /\ \A k \in Jobs \ {j} : OpenAttempts(k)' = OpenAttempts(k)
           /\ \A k \in Jobs : jobs'[k] = jobs[k] /\ Truthful(k) => Truthful(k)'
<1> DEFINE Row == [job : Jobs, outcome : Outcomes]
           new == NewAttempt(j)
<1>1. attempts \in Seq(Row) /\ DOMAIN attempts = 1 .. Len(attempts) /\ Len(attempts) \in Nat
  BY DEF Typed
<1>2. new \in Row /\ new = [job |-> j, outcome |-> "open"]
  BY Zenon DEF NewAttempt, Outcomes
<1>3. /\ attempts' \in Seq(Row) /\ DOMAIN attempts' = 1 .. Len(attempts) + 1
      /\ attempts'[Len(attempts) + 1] = new
      /\ \A a \in 1 .. Len(attempts) : attempts'[a] = attempts[a]
  <2>. HIDE DEF new, Row
  <2>. QED
    BY <1>1, <1>2 DEF new
<1>. HIDE DEF new
<1>4. OpenAttempts(j)' = OpenAttempts(j) \cup {Len(attempts) + 1}
  BY <1>1, <1>2, <1>3 DEF OpenAttempts
<1>5. ASSUME NEW k \in Jobs, k # j PROVE OpenAttempts(k)' = OpenAttempts(k)
  <2>1. new # [job |-> k, outcome |-> "open"]
    BY <1>2, <1>5, Zenon
  <2>. QED
    BY <1>1, <1>3, <2>1 DEF OpenAttempts
<1>6. ASSUME NEW k \in Jobs, jobs'[k] = jobs[k], Truthful(k) PROVE Truthful(k)'
  BY <1>1, <1>3, <1>6 DEF Truthful
<1>. QED
  BY <1>1, <1>3, <1>4, <1>5, <1>6, Zenon

(* The handler works on one launch; the other jobs are not touched, nor is the
   rest of the actor's memory. *)
LEMMA OthersWait ==
    ASSUME SupervisorInv, NEW j \in Jobs, Launches(j), NEW k \in Jobs, k # j,
           jobs'[k] = jobs[k], active'[k] = active[k],
           OpenAttempts(k)' = OpenAttempts(k), Truthful(k) => Truthful(k)',
           UNCHANGED <<up, plan, recovering, pending, deleting, queue>>,
           Launches(j)' \/ actor'.at \in {"idle", "promote"}
    PROVE  JobOK(k)'
<1>1. ~Launches(k)' /\ ~Marked(k)' /\ ~Marked(k)
  BY Zenon DEF Launches, Marked
<1>2. Steady(k)
  BY <1>1, PartsKept, Zenon DEF Steady
<1>. QED
  BY <1>2, JobKept, Zenon DEF SupervisorInv

(* The launch opens an attempt for a job that has none open. *)
LEMMA BeginAttemptInv == ASSUME SupervisorInv, BeginAttempt PROVE SupervisorInv'
<1>1. /\ actor.at = "begin"
      /\ UNCHANGED <<scenario, retries, up, plan, recovering, pending, deleting, active, queue, runs>>
  BY Zenon DEF BeginAttempt, memory, planner
<1>2. Typed /\ Phases /\ actor.job \in Jobs /\ NoTwice(queue) /\ RunsFit
  BY <1>1, Zenon DEF SupervisorInv, Phases
<1>3. PICK j \in Jobs : j = actor.job
  BY <1>2, Zenon
<1>4. PICK p \in Nat : p = actor.attempt
  BY <1>2, Zenon DEF Typed, ActorType
<1>5. JobOK(j) /\ Launches(j)
  BY <1>1, <1>3, Zenon DEF SupervisorInv, Launches
<1>6. active[j] = 0 /\ Lives(j) /\ Bound(j, p) /\ jobs[j].desired # "cancelled" /\ ~Queued(j) /\ Asked(j) = {}
      /\ j \notin plan /\ recovering # j /\ j \notin deleting /\ OpenAttempts(j) \subseteq {jobs[j].attempt}
  BY <1>4, <1>5, Zenon DEF JobOK, Lives
<1>7. p # 0 => attempts[p].outcome = "open"
  BY <1>6 DEF Bound, OpenAttempts
<1>8. NextStage("active", p) \in ActorType
      /\ NextStage("active", p).at = "active" /\ NextStage("active", p).job = j /\ NextStage("active", p).attempt = p
  BY <1>2, <1>3, <1>4, Zenon DEF Typed, ActorType, NextStage
<1>13. PICK new \in Nat : new = Len(attempts) + 1 /\ new # 0
  <2>1. Len(attempts) \in Nat
    BY <1>2 DEF Typed
  <2>. QED
    BY <2>1
<1>9. /\ NextStage("active", new) \in ActorType
      /\ NextStage("active", new).at = "active" /\ NextStage("active", new).job = j
      /\ NextStage("active", new).attempt = new
  BY <1>2, <1>3, Zenon DEF Typed, ActorType, NextStage
<1>10. \/ /\ p # 0 /\ actor' = NextStage("active", p) /\ UNCHANGED <<jobs, attempts>>
       \/ /\ p = 0 /\ attempts' = Append(attempts, NewAttempt(j))
          /\ jobs' = [jobs EXCEPT ![j].attempt = new] /\ actor' = NextStage("active", new)
  BY <1>3, <1>4, <1>6, <1>7, <1>13, Zenon DEF BeginAttempt, registry, Lives
<1>11. CASE p # 0 /\ actor' = NextStage("active", p) /\ UNCHANGED <<jobs, attempts>>
  <2>1. Launches(j)' /\ ~Marked(j)' /\ actor'.attempt = p /\ actor'.at = "active" /\ actor'.job = j
    BY <1>8, <1>11, Zenon DEF Launches, Marked
  <2>2. Typed'
    BY <1>1, <1>2, <1>8, <1>11, Zenon DEF Typed
  <2>3. Phases' /\ NoTwice(queue)' /\ RunsFit'
    BY <1>1, <1>2, <2>1 DEF Phases, NoTwice, RunsFit, Idle
  <2>4. ASSUME NEW k \in Jobs, k # j PROVE JobOK(k)'
    BY <1>1, <1>5, <1>11, <2>1, <2>4, OthersWait, PartsKept, Zenon
  <2>5. JobOK(j)'
    <3>1. Lives(j)' /\ OpenAttempts(j)' = OpenAttempts(j) /\ Truthful(j)' /\ Bound(j, p)'
      BY <1>5, <1>6, <1>11, PartsKept, Zenon DEF Lives, Exists, Terminal, JobOK, Bound
    <3>2. Asked(j)' = {} /\ ~Queued(j)' /\ j \notin plan' /\ recovering' # j /\ j \notin deleting' /\ active'[j] = 0
      BY <1>1, <1>6, PartsKept, Zenon
    <3>. QED
      BY <1>6, <1>11, <2>1, <3>1, <3>2, Zenon DEF JobOK
  <2>. QED
    BY <2>2, <2>3, <2>4, <2>5, Zenon DEF SupervisorInv
<1>12. CASE p = 0 /\ attempts' = Append(attempts, NewAttempt(j)) /\ jobs' = [jobs EXCEPT ![j].attempt = new]
            /\ actor' = NextStage("active", new)
  <2>1. /\ attempts' \in Seq([job : Jobs, outcome : Outcomes])
        /\ Len(attempts) \in Nat
        /\ OpenAttempts(j)' = OpenAttempts(j) \cup {Len(attempts) + 1}
        /\ \A k \in Jobs \ {j} : OpenAttempts(k)' = OpenAttempts(k)
        /\ \A k \in Jobs : jobs'[k] = jobs[k] /\ Truthful(k) => Truthful(k)'
    BY <1>2, <1>12, <1>13, NewRow, Zenon
  <2>2. new \in Nat /\ new # 0
    BY <1>13, Zenon
  <2>3. OpenAttempts(j) = {}
    <3>1. 0 \notin DOMAIN attempts
      BY <1>2 DEF Typed
    <3>. QED
      BY <1>6, <1>12, <3>1, Zenon DEF OpenAttempts, Bound
  <2>4. OpenAttempts(j)' = {new}
    BY <1>13, <2>1, <2>3, Zenon
  <2>5. /\ jobs' \in [Jobs -> RowType]
        /\ jobs'[j].attempt = new /\ jobs'[j].status = jobs[j].status /\ jobs'[j].desired = jobs[j].desired
        /\ \A k \in Jobs \ {j} : jobs'[k] = jobs[k]
    BY <1>2, <1>12, <2>2, Zenon DEF Typed, RowType
  <2>6. Launches(j)' /\ ~Marked(j)' /\ actor'.attempt = new /\ actor'.at = "active" /\ actor'.job = j
    BY <1>9, <1>12, Zenon DEF Launches, Marked
  <2>7. Typed'
    BY <1>1, <1>2, <1>9, <1>12, <2>1, <2>2, <2>5, Zenon DEF Typed
  <2>8. Phases' /\ NoTwice(queue)' /\ RunsFit'
    BY <1>1, <1>2, <2>6 DEF Phases, NoTwice, RunsFit, Idle
  <2>9. ASSUME NEW k \in Jobs, k # j PROVE JobOK(k)'
    BY <1>1, <1>5, <2>1, <2>5, <2>6, <2>9, OthersWait, Zenon
  <2>10. JobOK(j)'
    <3>1. Lives(j)' /\ Bound(j, new)'
      BY <1>6, <2>4, <2>5, Zenon DEF Lives, Exists, Terminal, Bound
    <3>2. Truthful(j)'
      BY <3>1, Zenon DEF Truthful, Lives, Terminal, Terminals
    <3>3. Asked(j)' = {} /\ ~Queued(j)' /\ j \notin plan' /\ recovering' # j /\ j \notin deleting' /\ active'[j] = 0
      BY <1>1, <1>6, PartsKept, Zenon
    <3>. QED
      BY <1>6, <2>2, <2>4, <2>5, <2>6, <3>1, <3>2, <3>3, Zenon DEF JobOK
  <2>. QED
    BY <2>7, <2>8, <2>9, <2>10, Zenon DEF SupervisorInv
<1>. QED
  BY <1>10, <1>11, <1>12, Zenon

(* The launch marks the row active; the attempt it opened is still the only one. *)
LEMMA MarkActiveInv == ASSUME SupervisorInv, MarkActive PROVE SupervisorInv'
<1>1. /\ actor.at = "active"
      /\ UNCHANGED <<scenario, attempts, retries, up, plan, recovering, pending, deleting, active, queue, runs>>
  BY Zenon DEF MarkActive, memory, planner
<1>2. Typed /\ Phases /\ actor.job \in Jobs /\ NoTwice(queue) /\ RunsFit
  BY <1>1, Zenon DEF SupervisorInv, Phases
<1>3. PICK j \in Jobs : j = actor.job
  BY <1>2, Zenon
<1>4. PICK p \in Nat : p = actor.attempt
  BY <1>2, Zenon DEF Typed, ActorType
<1>5. JobOK(j) /\ Launches(j)
  BY <1>1, <1>3, Zenon DEF SupervisorInv, Launches
<1>6. active[j] = 0 /\ Lives(j) /\ Bound(j, p) /\ jobs[j].desired # "cancelled" /\ ~Queued(j) /\ Asked(j) = {}
      /\ j \notin plan /\ recovering # j /\ j \notin deleting /\ OpenAttempts(j) \subseteq {jobs[j].attempt}
      /\ p # 0
  BY <1>1, <1>4, <1>5, Zenon DEF JobOK, Lives
<1>7. SetStatus(j, "active") /\ actor' = NextStage("spawn", p)
  BY <1>3, <1>4, <1>6, Zenon DEF MarkActive, Lives
<1>8. actor' \in ActorType /\ actor'.at = "spawn" /\ actor'.job = j /\ actor'.attempt = p
  BY <1>2, <1>3, <1>4, <1>7, Zenon DEF Typed, ActorType, NextStage
<1>9. /\ jobs' \in [Jobs -> RowType]
      /\ jobs'[j].status = "active" /\ jobs'[j].desired = jobs[j].desired /\ jobs'[j].attempt = jobs[j].attempt
      /\ \A k \in Jobs \ {j} : jobs'[k] = jobs[k]
  BY <1>2, <1>7, StatusSet, Zenon DEF Statuses
<1>10. Launches(j)' /\ ~Marked(j)'
  BY <1>8, Zenon DEF Launches, Marked
<1>11. Typed'
  BY <1>1, <1>2, <1>8, <1>9, Zenon DEF Typed
<1>12. Phases' /\ NoTwice(queue)' /\ RunsFit'
  BY <1>1, <1>2, <1>8 DEF Phases, NoTwice, RunsFit, Idle
<1>13. ASSUME NEW k \in Jobs, k # j PROVE JobOK(k)'
  BY <1>1, <1>5, <1>9, <1>10, <1>13, OthersWait, PartsKept, Zenon
<1>14. JobOK(j)'
  <2>1. Lives(j)' /\ OpenAttempts(j)' = OpenAttempts(j) /\ Bound(j, p)'
    BY <1>1, <1>6, <1>9, PartsKept, Zenon DEF Lives, Exists, Terminal, Bound, Statuses, Terminals
  <2>2. Truthful(j)'
    BY <2>1, Zenon DEF Truthful, Lives, Terminal, Terminals
  <2>3. Asked(j)' = {} /\ ~Queued(j)' /\ j \notin plan' /\ recovering' # j /\ j \notin deleting' /\ active'[j] = 0
    BY <1>1, <1>6, PartsKept, Zenon
  <2>. QED
    BY <1>6, <1>8, <1>9, <1>10, <2>1, <2>2, <2>3, Zenon DEF JobOK
<1>. QED
  BY <1>11, <1>12, <1>13, <1>14, Zenon DEF SupervisorInv

(* finish_attempt writes the attempt and, unless it was interrupted, the job. *)
LEMMA FinishedRow ==
    ASSUME Typed, NEW j \in Jobs, OpenAttempts(j) \subseteq {jobs[j].attempt}, NEW a \in Nat, a # 0, Bound(j, a),
           NEW o \in Terminals \cup {"interrupted"}, Finish(a, o)
    PROVE  /\ attempts' \in Seq([job : Jobs, outcome : Outcomes])
           /\ jobs' \in [Jobs -> RowType]
           /\ jobs'[j].attempt = a /\ jobs'[j].desired = jobs[j].desired
           /\ jobs'[j].status = IF o = "interrupted" THEN jobs[j].status ELSE o
           /\ OpenAttempts(j)' = {}
           /\ Lives(j) => Truthful(j)'
           /\ \A k \in Jobs \ {j} : /\ jobs'[k] = jobs[k] /\ OpenAttempts(k)' = OpenAttempts(k)
                                    /\ Truthful(k) => Truthful(k)'
<1> DEFINE Row == [job : Jobs, outcome : Outcomes]
<1>1. attempts \in Seq(Row) /\ DOMAIN attempts = 1 .. Len(attempts) /\ Len(attempts) \in Nat
      /\ jobs \in [Jobs -> RowType]
  BY DEF Typed
<1>2. a \in DOMAIN attempts /\ attempts[a] = [job |-> j, outcome |-> "open"] /\ jobs[j].attempt = a
  BY Zenon DEF Bound, OpenAttempts
<1>3. /\ attempts' = [attempts EXCEPT ![a].outcome = o]
      /\ jobs' = IF o = "interrupted" THEN jobs ELSE [jobs EXCEPT ![j].status = o]
  BY <1>2 DEF Finish, Open
<1>4. [attempts[a] EXCEPT !.outcome = o] = [job |-> j, outcome |-> o]
  BY <1>2
<1>5. PICK new : new = [job |-> j, outcome |-> o]
  BY Zenon
<1>6. new \in Row /\ new # [job |-> j, outcome |-> "open"]
  BY <1>5, Zenon DEF Outcomes, Terminals
<1>7. attempts' = [attempts EXCEPT ![a] = new]
  BY <1>3, <1>4, <1>5, Zenon
<1>8. /\ attempts' \in Seq(Row) /\ DOMAIN attempts' = DOMAIN attempts
      /\ attempts'[a] = new /\ \A b \in DOMAIN attempts \ {a} : attempts'[b] = attempts[b]
  <2>. HIDE DEF Row
  <2>. QED
    BY <1>1, <1>2, <1>6, <1>7
<1>9. /\ jobs' \in [Jobs -> RowType]
      /\ jobs'[j].attempt = a /\ jobs'[j].desired = jobs[j].desired
      /\ jobs'[j].status = IF o = "interrupted" THEN jobs[j].status ELSE o
      /\ \A k \in Jobs \ {j} : jobs'[k] = jobs[k]
  <2>1. CASE o = "interrupted"
    BY <1>1, <1>2, <1>3, <2>1, Zenon
  <2>2. CASE o # "interrupted"
    <3>1. o \in Statuses /\ jobs' = [jobs EXCEPT ![j].status = o]
      BY <1>3, <2>2, Zenon DEF Statuses
    <3>. QED
      BY <1>1, <1>2, <2>2, <3>1, Zenon DEF RowType
  <2>. QED
    BY <2>1, <2>2, Zenon
<1>10. OpenAttempts(j)' = {}
  <2>. SUFFICES ASSUME NEW b \in DOMAIN attempts', attempts'[b] = [job |-> j, outcome |-> "open"] PROVE FALSE
    BY Zenon DEF OpenAttempts
  <2>1. CASE b = a
    BY <1>6, <1>8, <2>1, Zenon
  <2>2. CASE b # a
    <3>1. b \in OpenAttempts(j)
      BY <1>8, <2>2, Zenon DEF OpenAttempts
    <3>. QED
      BY <1>2, <2>2, <3>1, Zenon
  <2>. QED
    BY <2>1, <2>2, Zenon
<1>11. ASSUME Lives(j) PROVE Truthful(j)'
  <2>1. jobs'[j].status \in {"completed", "failed"} => jobs'[j].status = o
    BY <1>9, <1>11, Zenon DEF Lives, Terminal, Terminals
  <2>. QED
    BY <1>2, <1>5, <1>8, <1>9, <2>1, Zenon DEF Truthful
<1>12. ASSUME NEW k \in Jobs \ {j} PROVE OpenAttempts(k)' = OpenAttempts(k)
  <2>1. new # [job |-> k, outcome |-> "open"] /\ attempts[a] # [job |-> k, outcome |-> "open"]
    BY <1>2, <1>5
  <2>2. \A b : b \in OpenAttempts(k) <=> b \in DOMAIN attempts /\ attempts[b] = [job |-> k, outcome |-> "open"]
    BY Zenon DEF OpenAttempts
  <2>3. \A b : b \in OpenAttempts(k)' <=> b \in DOMAIN attempts' /\ attempts'[b] = [job |-> k, outcome |-> "open"]
    BY Zenon DEF OpenAttempts
  <2>4. \A b : b \in OpenAttempts(k)' <=> b \in OpenAttempts(k)
    BY <1>8, <2>1, <2>2, <2>3, Zenon
  <2>. QED
    BY <2>4, Zenon
<1>13. ASSUME NEW k \in Jobs \ {j}, Truthful(k) PROVE Truthful(k)'
  <2>1. ~(attempts[a] = [job |-> k, outcome |-> jobs[k].status])
    BY <1>2, <1>13
  <2>. QED
    BY <1>8, <1>9, <1>13, <2>1 DEF Truthful
<1>. QED
  BY <1>8, <1>9, <1>10, <1>11, <1>12, <1>13, Zenon

(* A job whose attempt was finished is in none of the places. *)
LEMMA EndedJob ==
    ASSUME SupervisorInv, NEW j \in Jobs, NEW a \in Nat, a # 0, Bound(j, a), Lives(j), Asked(j) = {}, ~Queued(j),
           j \notin plan, recovering # j, NEW o \in Terminals \cup {"interrupted"}, Finish(a, o), active'[j] = 0,
           UNCHANGED <<up, plan, recovering, pending, deleting, queue>>, actor'.at \in {"idle", "promote"}
    PROVE  JobOK(j)'
<1>1. Typed /\ OpenAttempts(j) \subseteq {jobs[j].attempt} /\ j \notin deleting
  BY Zenon DEF SupervisorInv, JobOK, Lives
<1>2. OpenAttempts(j)' = {} /\ Truthful(j)'
  BY <1>1, FinishedRow, Zenon
<1>3. ~Launches(j)' /\ ~Marked(j)'
  BY Zenon DEF Launches, Marked
<1>4. Asked(j)' = {} /\ ~Queued(j)' /\ j \notin plan' /\ recovering' # j /\ j \notin deleting'
  BY <1>1, PartsKept, Zenon
<1>. QED
  BY <1>2, <1>3, <1>4, Zenon DEF JobOK

(* A launch that fails closes the attempt it opened. *)
LEMMA LaunchFailsInv == ASSUME SupervisorInv, LaunchFails PROVE SupervisorInv'
<1>1. /\ actor.at = "spawn" /\ actor' = Return
      /\ UNCHANGED <<scenario, retries, up, plan, recovering, pending, deleting, active, queue, runs>>
  BY Zenon DEF LaunchFails, memory, planner
<1>2. Typed /\ Phases /\ actor.job \in Jobs /\ NoTwice(queue) /\ RunsFit /\ up # "down"
  BY <1>1 DEF SupervisorInv, Phases, Idle
<1>3. PICK j \in Jobs : j = actor.job
  BY <1>2, Zenon
<1>4. PICK p \in Nat : p = actor.attempt
  BY <1>2, Zenon DEF Typed, ActorType
<1>5. JobOK(j) /\ Launches(j)
  BY <1>1, <1>3, Zenon DEF SupervisorInv, Launches
<1>6. active[j] = 0 /\ Lives(j) /\ Bound(j, p) /\ ~Queued(j) /\ Asked(j) = {}
      /\ j \notin plan /\ recovering # j /\ OpenAttempts(j) \subseteq {jobs[j].attempt} /\ p # 0
  BY <1>1, <1>4, <1>5, Zenon DEF JobOK
<1>7. PICK o \in Terminals \cup {"interrupted"} : o = "failed"
  BY Zenon DEF Terminals
<1>8. Finish(p, o)
  BY <1>4, <1>7, Zenon DEF LaunchFails
<1>9. /\ actor' \in ActorType /\ actor'.at \in {"idle", "promote"}
      /\ actor'.at = "promote" => actor'.scan # 0
  BY <1>1, <1>2, Returns, Zenon
<1>10. /\ attempts' \in Seq([job : Jobs, outcome : Outcomes])
       /\ jobs' \in [Jobs -> RowType]
       /\ \A k \in Jobs \ {j} : /\ jobs'[k] = jobs[k] /\ OpenAttempts(k)' = OpenAttempts(k)
                                /\ Truthful(k) => Truthful(k)'
  BY <1>2, <1>6, <1>8, FinishedRow, Zenon
<1>11. Typed'
  BY <1>1, <1>2, <1>9, <1>10, Zenon DEF Typed
<1>12. Phases' /\ NoTwice(queue)' /\ RunsFit'
  BY <1>1, <1>2, <1>9, Zenon DEF Phases, NoTwice, RunsFit
<1>13. ASSUME NEW k \in Jobs, k # j PROVE JobOK(k)'
  BY <1>1, <1>5, <1>9, <1>10, <1>13, OthersWait, Zenon
<1>14. JobOK(j)'
  BY <1>1, <1>6, <1>8, <1>9, EndedJob, Zenon
<1>. QED
  BY <1>11, <1>12, <1>13, <1>14, Zenon DEF SupervisorInv

(* The engine is started for the attempt that the launch opened: one more run,
   of a job that had none. *)
LEMMA LaunchInv == ASSUME SupervisorInv, Launch PROVE SupervisorInv'
<1>1. /\ actor.at = "spawn" /\ actor' = Return
      /\ UNCHANGED <<scenario, jobs, attempts, retries, up, plan, recovering, pending, deleting, queue>>
  BY Zenon DEF Launch, registry, planner
<1>2. Typed /\ Phases /\ actor.job \in Jobs /\ NoTwice(queue) /\ RunsFit /\ up # "down"
  BY <1>1 DEF SupervisorInv, Phases, Idle
<1>3. PICK j \in Jobs : j = actor.job
  BY <1>2, Zenon
<1>4. PICK p \in Nat : p = actor.attempt
  BY <1>2, Zenon DEF Typed, ActorType
<1>5. JobOK(j) /\ Launches(j)
  BY <1>1, <1>3, Zenon DEF SupervisorInv, Launches
<1>6. active[j] = 0 /\ Lives(j) /\ Bound(j, p) /\ ~Queued(j) /\ Asked(j) = {} /\ j \notin deleting
      /\ j \notin plan /\ recovering # j /\ OpenAttempts(j) \subseteq {jobs[j].attempt} /\ p # 0
  BY <1>1, <1>4, <1>5, Zenon DEF JobOK, Lives
<1>7. PICK new : new = [job |-> j, attempt |-> p, paused |-> FALSE, cancelled |-> FALSE, outcome |-> "none",
                        tracked |-> TRUE]
  BY Zenon
<1>8. runs' = Append(runs, new) /\ active' = [active EXCEPT ![j] = p]
  BY <1>3, <1>4, <1>6, <1>7, Zenon DEF Launch, Lives
<1>9. /\ actor' \in ActorType /\ actor'.at \in {"idle", "promote"}
      /\ actor'.at = "promote" => actor'.scan # 0
  BY <1>1, <1>2, Returns, Zenon
<1>10. new \in RunType /\ new.job = j /\ new.attempt = p /\ new.tracked
  BY <1>7, Zenon DEF RunType
<1>11. active' \in [Jobs -> Nat] /\ active'[j] = p /\ \A k \in Jobs \ {j} : active'[k] = active[k]
  BY <1>2, <1>8, Zenon DEF Typed
<1>12. runs \in Seq(RunType)
  BY <1>2, Zenon DEF Typed
<1>13. /\ runs' \in Seq(RunType) /\ Len(runs) \in Nat
       /\ DOMAIN runs = 1 .. Len(runs) /\ DOMAIN runs' = 1 .. Len(runs) + 1
       /\ runs'[Len(runs) + 1] = new /\ \A i \in 1 .. Len(runs) : runs'[i] = runs[i]
  BY <1>8, <1>10, <1>12
<1>14. Typed'
  BY <1>1, <1>2, <1>9, <1>11, <1>13, Zenon DEF Typed
<1>15. Phases' /\ NoTwice(queue)'
  BY <1>1, <1>2, <1>9, Zenon DEF Phases, NoTwice
<1>16. RunsFit'
  <2>1. \A i \in DOMAIN runs : runs[i].job \in Jobs /\ runs[i].job # j
    <3>1. \A i \in DOMAIN runs : runs[i] \in RunType
      BY <1>12
    <3>. QED
      BY <1>2, <1>6, <3>1 DEF RunsFit, RunType
  <2>2. \A i \in DOMAIN runs' : runs'[i].tracked /\ runs'[i].attempt # 0 /\ active'[runs'[i].job] = runs'[i].attempt
    BY <1>2, <1>6, <1>10, <1>11, <1>13, <2>1 DEF RunsFit
  <2>3. \A i, k \in DOMAIN runs' : runs'[i].job = runs'[k].job => i = k
    BY <1>2, <1>10, <1>13, <2>1 DEF RunsFit
  <2>4. ASSUME NEW k \in Jobs, active'[k] # 0 PROVE \E i \in DOMAIN runs' : runs'[i].job = k
    <3>1. CASE k = j
      BY <1>10, <1>13, <3>1
    <3>2. CASE k # j
      BY <1>2, <1>11, <1>13, <2>4, <3>2 DEF RunsFit
    <3>. QED
      BY <3>1, <3>2, Zenon
  <2>. QED
    BY <2>2, <2>3, <2>4, Zenon DEF RunsFit
<1>17. ASSUME NEW k \in Jobs, k # j PROVE JobOK(k)'
  BY <1>1, <1>5, <1>9, <1>11, <1>17, OthersWait, PartsKept, Zenon
<1>18. JobOK(j)'
  <2>1. Lives(j)' /\ OpenAttempts(j)' = OpenAttempts(j) /\ Bound(j, p)' /\ Truthful(j)'
    BY <1>1, <1>5, <1>6, PartsKept, Zenon DEF Lives, Exists, Terminal, Bound, JobOK
  <2>2. Asked(j)' = {} /\ ~Queued(j)' /\ j \notin plan' /\ recovering' # j /\ j \notin deleting' /\ active'[j] = p
    BY <1>1, <1>6, <1>11, PartsKept, Zenon
  <2>3. ~Launches(j)' /\ ~Marked(j)'
    BY <1>9, Zenon DEF Launches, Marked
  <2>. QED
    BY <1>1, <1>6, <2>1, <2>2, <2>3, Zenon DEF JobOK
<1>. QED
  BY <1>14, <1>15, <1>16, <1>17, <1>18, Zenon DEF SupervisorInv

-----------------------------------------------------------------------------
(* Commands. *)

(* The runs change in what the engine reports or was told only. *)
RunsStay ==
    /\ runs' \in Seq(RunType) /\ DOMAIN runs' = DOMAIN runs
    /\ \A i \in DOMAIN runs :
          runs'[i].job = runs[i].job /\ runs'[i].attempt = runs[i].attempt /\ runs'[i].tracked = runs[i].tracked

(* Then they still match the entries of active. *)
LEMMA RunsStayFit == ASSUME RunsFit, RunsStay, active' = active PROVE RunsFit'
  BY DEF RunsFit, RunsStay

(* A run's record with one field rewritten. *)
LEMMA RunsTold ==
    ASSUME runs \in Seq(RunType), NEW new, DOMAIN new = DOMAIN runs,
           \A i \in DOMAIN runs : /\ new[i] \in RunType /\ new[i].job = runs[i].job /\ new[i].attempt = runs[i].attempt
                                  /\ new[i].tracked = runs[i].tracked,
           new = [i \in DOMAIN runs |-> new[i]], runs' = new
    PROVE  RunsStay
<1>1. DOMAIN runs = 1 .. Len(runs) /\ Len(runs) \in Nat
  OBVIOUS
<1>2. new \in Seq(RunType)
  BY <1>1
<1>. QED
  BY <1>2, Zenon DEF RunsStay

(* Telling a run to pause, resume or cancel changes neither whose run it is nor
   its attempt. *)
LEMMA ToldStays ==
    ASSUME Typed, NEW j \in Jobs, NEW field \in {"paused", "cancelled"}, NEW v \in BOOLEAN, runs' = Told(j, field, v)
    PROVE  RunsStay
<1>1. runs \in Seq(RunType) /\ \A i \in DOMAIN runs : runs[i] \in RunType
  BY DEF Typed
<1>2. ASSUME NEW r \in RunType
      PROVE  /\ [r EXCEPT ![field] = v] \in RunType
             /\ [r EXCEPT ![field] = v].job = r.job /\ [r EXCEPT ![field] = v].attempt = r.attempt
             /\ [r EXCEPT ![field] = v].tracked = r.tracked
  <2>1. CASE field = "paused"
    BY <1>2, <2>1, Zenon DEF RunType
  <2>2. CASE field = "cancelled"
    BY <1>2, <2>2, Zenon DEF RunType
  <2>. QED
    BY <2>1, <2>2, Zenon
<1> DEFINE new == Told(j, field, v)
<1>3. DOMAIN new = DOMAIN runs /\ new = [i \in DOMAIN runs |-> new[i]]
  BY Zenon DEF Told
<1>4. ASSUME NEW i \in DOMAIN runs
      PROVE  /\ new[i] \in RunType /\ new[i].job = runs[i].job /\ new[i].attempt = runs[i].attempt
             /\ new[i].tracked = runs[i].tracked
  <2>1. new[i] = runs[i] \/ new[i] = [runs[i] EXCEPT ![field] = v]
    BY <1>4, Zenon DEF Told
  <2>. HIDE DEF new
  <2>. QED
    BY <1>1, <1>2, <1>4, <2>1, Zenon
<1>. HIDE DEF new
<1>5. runs' = new
  BY Zenon DEF new
<1>. QED
  BY <1>1, <1>3, <1>4, <1>5, RunsTold, Zenon

(* A command about one job leaves the others alone. *)
LEMMA OthersUntold ==
    ASSUME SupervisorInv, NEW j \in Jobs, actor = Idle, NEW k \in Jobs, k # j, jobs'[k] = jobs[k],
           UNCHANGED <<attempts, up, plan, recovering, pending, deleting, active>>,
           Queued(k)' => Queued(k), actor'.at \in {"idle", "mark"}, actor'.at = "mark" => actor'.job = j
    PROVE  JobOK(k)'
<1>1. ~Launches(k)' /\ ~Marked(k)' /\ ~Marked(k)
  BY Stages, Zenon DEF Launches, Marked
<1>2. Steady(k)
  BY <1>1, PartsKept, Zenon DEF Steady
<1>. QED
  BY <1>2, JobKept, Zenon DEF SupervisorInv

(* A job stays what it was when only its desired state changes. *)
LEMMA DesiredOnly ==
    ASSUME NEW j \in Jobs, jobs'[j].status = jobs[j].status, jobs'[j].attempt = jobs[j].attempt, attempts' = attempts
    PROVE  /\ OpenAttempts(j)' = OpenAttempts(j) /\ (Truthful(j)' <=> Truthful(j)) /\ (Lives(j)' <=> Lives(j))
           /\ (Terminal(j)' <=> Terminal(j)) /\ \A a : Bound(j, a) => Bound(j, a)'
<1>1. OpenAttempts(j)' = OpenAttempts(j)
  BY PartsKept, Zenon
<1>. QED
  BY <1>1, Zenon DEF Truthful, Lives, Exists, Terminal, Bound

(* pause and resume. *)
LEMMA DesireInv ==
    ASSUME SupervisorInv, NEW j \in Jobs, NEW d \in {"running", "paused"}, NEW s \in {"paused", "active"},
           NEW v \in BOOLEAN, up = "serving", actor = Idle, SetDesired(j, d), runs' = Told(j, "paused", v),
           actor' = IF active[j] # 0 THEN Marking(j, s) ELSE Idle,
           UNCHANGED <<scenario, attempts, starts, retries, up, plan, recovering, pending, deleting, active, queue>>
    PROVE  SupervisorInv'
<1>1. Typed /\ Phases /\ NoTwice(queue) /\ RunsFit /\ JobOK(j)
  BY Zenon DEF SupervisorInv
<1>2. /\ jobs' \in [Jobs -> RowType]
      /\ jobs'[j].desired = d /\ jobs'[j].status = jobs[j].status /\ jobs'[j].attempt = jobs[j].attempt
      /\ \A k \in Jobs \ {j} : jobs'[k] = jobs[k]
  BY <1>1, DesiredSet, Zenon
<1>3. RunsStay
  BY <1>1, ToldStays, Zenon
<1>4. /\ actor' \in ActorType /\ actor'.at \in {"idle", "mark"}
      /\ actor'.at = "mark" => actor'.job = j /\ actor'.status = s /\ active[j] # 0
      /\ actor'.at = "mark" \/ active[j] = 0
  BY Stages, Zenon DEF ActorType, Statuses
<1>5. Typed'
  BY <1>1, <1>2, <1>3, <1>4, Zenon DEF Typed, RunsStay
<1>6. Phases' /\ NoTwice(queue)' /\ RunsFit'
  BY <1>1, <1>3, <1>4, RunsStayFit, Zenon DEF Phases, NoTwice
<1>7. ASSUME NEW k \in Jobs, k # j PROVE JobOK(k)'
  BY <1>2, <1>4, <1>7, OthersUntold, PartsKept, Zenon
<1>8. JobOK(j)'
  <2>1. plan' = {} /\ recovering' # j
    BY <1>1, ScenarioAssumption, Zenon DEF Phases
  <2>2. ~Launches(j) /\ ~Launches(j)' /\ ~Marked(j)
    BY <1>4, Stages, Zenon DEF Launches, Marked
  <2>3. Marked(j)' => actor'.status \in {"paused", "active"} /\ active'[j] # 0
    BY <1>4, Zenon DEF Marked
  <2>4. Asked(j)' = Asked(j) /\ (Queued(j)' <=> Queued(j))
    BY PartsKept, Zenon
  <2>5. /\ OpenAttempts(j)' = OpenAttempts(j) /\ (Truthful(j)' <=> Truthful(j)) /\ (Lives(j)' <=> Lives(j))
        /\ (Terminal(j)' <=> Terminal(j)) /\ \A a : Bound(j, a) => Bound(j, a)'
    BY <1>2, DesiredOnly, Zenon
  <2>. QED
    BY <1>1, <1>2, <2>1, <2>2, <2>3, <2>4, <2>5, Zenon DEF JobOK
<1>. QED
  BY <1>5, <1>6, <1>7, <1>8, Zenon DEF SupervisorInv

(* Pausing a job. *)
LEMMA PauseInv == ASSUME SupervisorInv, NEW j \in Jobs, Pause(j) PROVE SupervisorInv'
  BY DesireInv, Zenon DEF Pause, Accepts, memory, planner

(* Resuming a job. *)
LEMMA ResumeInv == ASSUME SupervisorInv, NEW j \in Jobs, Resume(j) PROVE SupervisorInv'
  BY DesireInv, Zenon DEF Resume, Accepts, memory, planner

(* A set of numbers that is not empty has a least member. *)
LEMMA LeastNat == ASSUME NEW T, T \subseteq Nat, T # {} PROVE \E m \in T : \A i \in T : m <= i
<1> DEFINE R == OpToRel(<, Nat)
<1>1. IsWellFoundedOn(R, Nat)
  BY NatLessThanWellFounded, Zenon
<1>. HIDE DEF R
<1>2. PICK m \in T : \A i \in T : ~(<<i, m>> \in R)
  BY <1>1, WFMin, Zenon
<1>3. ASSUME NEW i \in T PROVE m <= i
  <2>1. ~(i < m)
    BY <1>2, Zenon DEF R, OpToRel
  <2>. QED
    BY <2>1
<1>. QED
  BY <1>3, Zenon

(* One step of the walk along the queue that Without describes. *)
Walk(j, f, n) ==
    IF n = 0 THEN <<>> ELSE IF queue[n] = j THEN f[n - 1] ELSE Append(f[n - 1], queue[n])

(* The walk exists, for as far as the queue goes. *)
LEMMA WalkExists == ASSUME NEW j, NEW last \in Nat PROVE \E f : f = [n \in 0 .. last |-> Walk(j, f, n)]
<1> DEFINE Bad == {m \in Nat : ~ \E f : f = [n \in 0 .. m |-> Walk(j, f, n)]}
<1>1. SUFFICES ASSUME Bad # {} PROVE FALSE
  BY Zenon
<1>2. PICK m \in Bad : \A i \in Bad : m <= i
  <2>1. Bad \subseteq Nat
    BY Zenon
  <2>. HIDE DEF Bad
  <2>. QED
    BY <1>1, <2>1, LeastNat, Zenon
<1>3. CASE m = 0
  <2> DEFINE f == [n \in 0 .. 0 |-> <<>>]
  <2>1. \A n \in 0 .. 0 : Walk(j, f, n) = <<>>
    BY DEF Walk
  <2>2. f = [n \in 0 .. 0 |-> Walk(j, f, n)]
    BY <2>1, Zenon
  <2>. QED
    BY <1>3, <2>2, Zenon
<1>4. CASE m # 0
  <2>1. m - 1 \in Nat /\ m - 1 \notin Bad
    BY <1>2, <1>4
  <2>2. PICK f : f = [n \in 0 .. m - 1 |-> Walk(j, f, n)]
    BY <2>1, Zenon
  <2> DEFINE g == [n \in 0 .. m |-> IF n = m THEN Walk(j, f, m) ELSE f[n]]
  <2>3. ASSUME NEW n \in 0 .. m PROVE g[n] = Walk(j, g, n)
    <3>1. n = 0 \/ g[n - 1] = f[n - 1]
      BY <1>4, <2>1
    <3>2. Walk(j, g, n) = Walk(j, f, n)
      BY <3>1 DEF Walk
    <3>3. n # m => f[n] = Walk(j, f, n)
      BY <2>1, <2>2
    <3>. QED
      BY <3>2, <3>3, Zenon
  <2>4. g = [n \in 0 .. m |-> Walk(j, g, n)]
    BY <2>3, Zenon
  <2>. QED
    BY <2>4, Zenon
<1>. QED
  BY <1>3, <1>4, Zenon

(* retain drops the job and keeps the others, each once. *)
LEMMA WithoutJob ==
    ASSUME queue \in Seq(Jobs), NoTwice(queue), NEW j \in Jobs
    PROVE  /\ Without(j) \in Seq(Jobs) /\ NoTwice(Without(j))
           /\ \A i \in DOMAIN Without(j) : Without(j)[i] # j /\ Queued(Without(j)[i])
<1>1. PICK last \in Nat : last = Len(queue) /\ DOMAIN queue = 1 .. last
  OBVIOUS
<1> DEFINE kept == CHOOSE f : f = [n \in 0 .. last |-> Walk(j, f, n)]
<1>2. kept = [n \in 0 .. last |-> Walk(j, kept, n)]
  BY WalkExists, Zenon
<1>3. Without(j) = kept[last]
  BY <1>1, Zenon DEF Without, Walk
<1>. HIDE DEF kept
<1>4. \A n \in 0 .. last : kept[n] = Walk(j, kept, n)
  BY <1>2, Zenon
<1> DEFINE Good(n) == /\ kept[n] \in Seq(Jobs)
                      /\ \A i \in DOMAIN kept[n] : kept[n][i] # j /\ \E p \in 1 .. n : kept[n][i] = queue[p]
                      /\ \A i, k \in DOMAIN kept[n] : kept[n][i] = kept[n][k] => i = k
           Bad == {m \in Nat : m <= last /\ ~Good(m)}
<1>5. Bad = {}
  <2>1. SUFFICES ASSUME Bad # {} PROVE FALSE
    BY Zenon
  <2>2. PICK m \in Bad : \A i \in Bad : m <= i
    <3>1. Bad \subseteq Nat
      BY Zenon
    <3>. HIDE DEF Bad
    <3>. QED
      BY <2>1, <3>1, LeastNat, Zenon
  <2>3. CASE m = 0
    <3>1. kept[0] = <<>>
      BY <1>4 DEF Walk
    <3>2. Good(0)
      BY <3>1
    <3>. QED
      BY <2>3, <3>2, Zenon
  <2>4. CASE m # 0
    <3>1. m - 1 \in Nat /\ Good(m - 1) /\ m \in 1 .. last /\ queue[m] \in Jobs
      <4>. HIDE DEF Good
      <4>1. m \in Nat /\ m <= last
        BY Zenon
      <4>2. m - 1 \in Nat /\ m - 1 <= last /\ ~(m <= m - 1)
        BY <2>4, <4>1
      <4>3. Good(m - 1)
        BY <2>2, <4>2, Zenon
      <4>4. m \in 1 .. last /\ queue[m] \in Jobs
        BY <1>1, <2>4, <4>1
      <4>. QED
        BY <4>2, <4>3, <4>4, Zenon
    <3>2. PICK q : q = kept[m - 1]
      BY Zenon
    <3>3. /\ q \in Seq(Jobs)
          /\ \A i \in DOMAIN q : q[i] # j /\ \E p \in 1 .. m - 1 : q[i] = queue[p]
          /\ \A i, k \in DOMAIN q : q[i] = q[k] => i = k
      BY <3>1, <3>2, Zenon
    <3>4. CASE queue[m] = j
      <4>1. kept[m] = q
        BY <1>4, <3>1, <3>2, <3>4 DEF Walk
      <4>2. Good(m)
        BY <3>1, <3>3, <4>1
      <4>. QED
        BY <4>2, Zenon
    <3>5. CASE queue[m] # j
      <4>1. kept[m] = Append(q, queue[m])
        <5>1. kept[m] = Walk(j, kept, m)
          BY <1>4, <3>1
        <5>. QED
          BY <2>4, <3>2, <3>5, <5>1, Zenon DEF Walk
      <4>2. PICK r : r = Append(q, queue[m])
        BY Zenon
      <4>3. /\ r \in Seq(Jobs) /\ Len(q) \in Nat /\ DOMAIN q = 1 .. Len(q) /\ DOMAIN r = 1 .. Len(q) + 1
            /\ r[Len(q) + 1] = queue[m] /\ \A i \in 1 .. Len(q) : r[i] = q[i]
        BY <3>1, <3>3, <4>2
      <4>4. ASSUME NEW i \in DOMAIN q PROVE q[i] # queue[m]
        <5>1. PICK p \in 1 .. m - 1 : q[i] = queue[p]
          BY <3>3, Zenon
        <5>2. p \in DOMAIN queue /\ m \in DOMAIN queue /\ p # m
          BY <1>1, <3>1
        <5>. QED
          BY <5>1, <5>2, Zenon DEF NoTwice
      <4>5. ASSUME NEW i \in DOMAIN r PROVE r[i] # j /\ \E p \in 1 .. m : r[i] = queue[p]
        <5>1. CASE i = Len(q) + 1
          BY <3>1, <3>5, <4>3, <5>1
        <5>2. CASE i # Len(q) + 1
          <6>1. i \in DOMAIN q /\ r[i] = q[i]
            BY <4>3, <4>5, <5>2
          <6>2. PICK p \in 1 .. m - 1 : q[i] = queue[p]
            BY <3>3, <6>1, Zenon
          <6>3. p \in 1 .. m
            BY <3>1
          <6>. QED
            BY <3>3, <6>1, <6>2, <6>3, Zenon
        <5>. QED
          BY <5>1, <5>2, Zenon
      <4>6. ASSUME NEW i \in DOMAIN r, NEW k \in DOMAIN r, r[i] = r[k] PROVE i = k
        <5>1. i \in DOMAIN q /\ k \in DOMAIN q => i = k
          BY <3>3, <4>3, <4>6, Zenon
        <5>2. (i \in DOMAIN q \/ i = Len(q) + 1) /\ (k \in DOMAIN q \/ k = Len(q) + 1)
          BY <4>3
        <5>3. ~(i \in DOMAIN q /\ k = Len(q) + 1) /\ ~(k \in DOMAIN q /\ i = Len(q) + 1)
          BY <4>3, <4>4, <4>6, Zenon
        <5>. QED
          BY <5>1, <5>2, <5>3, Zenon
      <4>7. Good(m)
        <5>1. kept[m] = r
          BY <4>1, <4>2, Zenon
        <5>2. r \in Seq(Jobs)
          BY <4>3, Zenon
        <5>. QED
          BY ONLY <4>5, <4>6, <5>1, <5>2, Zenon
      <4>. QED
        BY <4>7, Zenon
    <3>. QED
      BY <3>4, <3>5, Zenon
  <2>. QED
    BY <2>3, <2>4, Zenon
<1>6. Good(last)
  BY <1>5
<1>. QED
  BY <1>1, <1>3, <1>6 DEF NoTwice, Queued

(* Cancelling a job takes it out of the queue and tells its run, if it has one. *)
LEMMA CancelInv == ASSUME SupervisorInv, NEW j \in Jobs, Cancel(j) PROVE SupervisorInv'
<1>1. /\ up = "serving" /\ actor = Idle /\ Lives(j) /\ SetDesired(j, "cancelled") /\ runs' = Told(j, "cancelled", TRUE)
      /\ UNCHANGED <<scenario, attempts, retries, up, plan, recovering, pending, deleting, active>>
      /\ IF active[j] # 0 THEN UNCHANGED <<queue, actor>> ELSE queue' = Without(j) /\ actor' = Marking(j, "cancelled")
  BY Zenon DEF Cancel, Accepts, planner, Lives
<1>2. Typed /\ Phases /\ NoTwice(queue) /\ RunsFit /\ JobOK(j)
  BY Zenon DEF SupervisorInv
<1>3. /\ jobs' \in [Jobs -> RowType]
      /\ jobs'[j].desired = "cancelled" /\ jobs'[j].status = jobs[j].status /\ jobs'[j].attempt = jobs[j].attempt
      /\ \A k \in Jobs \ {j} : jobs'[k] = jobs[k]
  BY <1>1, <1>2, DesiredSet, Zenon
<1>4. RunsStay
  BY <1>1, <1>2, ToldStays, Zenon
<1>5. /\ actor' \in ActorType /\ actor'.at \in {"idle", "mark"}
      /\ actor'.at = "mark" => actor'.job = j /\ actor'.status = "cancelled" /\ active[j] = 0
      /\ active[j] = 0 => actor'.at = "mark"
  BY <1>1, Stages DEF ActorType, Statuses, Terminals
<1>6. /\ queue' \in Seq(Jobs) /\ NoTwice(queue)'
      /\ \A k \in Jobs : Queued(k)' => Queued(k)
      /\ active[j] = 0 => ~Queued(j)'
  <2>0. queue \in Seq(Jobs)
    BY <1>2, Zenon DEF Typed
  <2>1. CASE active[j] # 0
    BY <1>1, <1>2, <2>0, <2>1, PartsKept, Zenon
  <2>2. CASE active[j] = 0
    <3>1. PICK q : q = Without(j)
      BY Zenon
    <3>2. /\ q \in Seq(Jobs) /\ NoTwice(q) /\ queue' = q
          /\ \A i \in DOMAIN q : q[i] # j /\ Queued(q[i])
      BY <1>1, <1>2, <2>0, <2>2, <3>1, WithoutJob, Zenon
    <3>. QED
      BY <3>2, Zenon DEF Queued
  <2>. QED
    BY <2>1, <2>2, Zenon
<1>7. Typed'
  BY <1>1, <1>2, <1>3, <1>4, <1>5, <1>6, Zenon DEF Typed, RunsStay
<1>8. Phases' /\ RunsFit'
  BY <1>1, <1>2, <1>4, <1>5, RunsStayFit, Zenon DEF Phases
<1>9. ASSUME NEW k \in Jobs, k # j PROVE JobOK(k)'
  BY <1>1, <1>3, <1>5, <1>6, <1>9, OthersUntold, Zenon
<1>10. JobOK(j)'
  <2>1. plan' = {} /\ recovering' # j
    BY <1>1, <1>2, ScenarioAssumption, Zenon DEF Phases
  <2>2. ~Launches(j) /\ ~Launches(j)' /\ ~Marked(j)
    BY <1>1, <1>5, Stages, Zenon DEF Launches, Marked
  <2>3. /\ Marked(j)' => actor'.status = "cancelled" /\ active'[j] = 0
        /\ active[j] = 0 => Marked(j)'
    BY <1>1, <1>5, Zenon DEF Marked
  <2>4. Asked(j)' = Asked(j)
    BY <1>1, PartsKept, Zenon
  <2>5. /\ OpenAttempts(j)' = OpenAttempts(j) /\ (Truthful(j)' <=> Truthful(j)) /\ (Lives(j)' <=> Lives(j))
        /\ (Terminal(j)' <=> Terminal(j)) /\ \A a : Bound(j, a) => Bound(j, a)'
    BY <1>1, <1>3, DesiredOnly, Zenon
  <2>6. Queued(j)' => Queued(j) /\ active[j] # 0
    BY <1>6, Zenon
  <2>. QED
    BY <1>1, <1>2, <1>3, <2>1, <2>2, <2>3, <2>4, <2>5, <2>6, Zenon DEF JobOK
<1>. QED
  BY <1>6, <1>7, <1>8, <1>9, <1>10, Zenon DEF SupervisorInv

(* The row's status follows the command that the actor is serving. *)
LEMMA MarkStatusInv == ASSUME SupervisorInv, MarkStatus PROVE SupervisorInv'
<1>1. /\ actor.at = "mark" /\ actor' = Idle
      /\ UNCHANGED <<scenario, attempts, retries, up, plan, recovering, pending, deleting, active, runs>>
  BY Zenon DEF MarkStatus, planner
<1>2. Typed /\ Phases /\ NoTwice(queue) /\ RunsFit /\ actor.job \in Jobs /\ up = "serving"
  BY <1>1, Zenon DEF SupervisorInv, Phases
<1>3. PICK j \in Jobs : j = actor.job
  BY <1>2, Zenon
<1>4. PICK s \in Statuses \cup {"none"} : s = actor.status
  BY <1>2, Zenon DEF Typed, ActorType
<1>5. JobOK(j) /\ Marked(j) /\ ~Launches(j)
  BY <1>1, <1>3, Zenon DEF SupervisorInv, Marked, Launches
<1>6. /\ Lives(j) /\ ~Queued(j)
      /\ (s \in {"paused", "active"} /\ active[j] # 0) \/ (s = "cancelled" /\ active[j] = 0)
  BY <1>4, <1>5, Zenon DEF JobOK
<1>7. SetStatus(j, s) /\ queue' = queue /\ s \in Statuses
  BY <1>3, <1>4, <1>6, Zenon DEF MarkStatus, Lives
<1>8. /\ jobs' \in [Jobs -> RowType]
      /\ jobs'[j].status = s /\ jobs'[j].desired = jobs[j].desired /\ jobs'[j].attempt = jobs[j].attempt
      /\ \A k \in Jobs \ {j} : jobs'[k] = jobs[k]
  BY <1>2, <1>7, StatusSet, Zenon
<1>9. actor' \in ActorType /\ actor'.at = "idle"
  BY <1>1, Stages, Zenon DEF ActorType
<1>10. Typed'
  BY <1>1, <1>2, <1>7, <1>8, <1>9, Zenon DEF Typed
<1>11. Phases' /\ NoTwice(queue)' /\ RunsFit'
  BY <1>1, <1>2, <1>7, <1>9, Zenon DEF Phases, NoTwice, RunsFit
<1>12. ASSUME NEW k \in Jobs, k # j PROVE JobOK(k)'
  <2>1. ~Launches(k)' /\ ~Marked(k)' /\ ~Marked(k)
    BY <1>3, <1>9, <1>12, Zenon DEF Launches, Marked
  <2>2. Steady(k)
    BY <1>1, <1>7, <1>8, <1>12, <2>1, PartsKept, Zenon DEF Steady
  <2>. QED
    BY <2>2, JobKept, Zenon DEF SupervisorInv
<1>13. JobOK(j)'
  <2>1. plan' = {} /\ recovering' # j /\ j \notin deleting'
    BY <1>1, <1>2, <1>5, <1>6, ScenarioAssumption, Zenon DEF Phases, JobOK, Lives
  <2>2. ~Launches(j)' /\ ~Marked(j)'
    BY <1>9, Zenon DEF Launches, Marked
  <2>3. Asked(j)' = Asked(j) /\ ~Queued(j)' /\ OpenAttempts(j)' = OpenAttempts(j)
    BY <1>1, <1>6, <1>7, PartsKept, Zenon
  <2>4. Truthful(j)'
    BY <1>6, <1>8, Zenon DEF Truthful
  <2>5. \A a : Bound(j, a) => Bound(j, a)'
    BY <1>8, <2>3, Zenon DEF Bound
  <2>6. active[j] # 0 => Lives(j)'
    BY <1>6, <1>8, Zenon DEF Lives, Exists, Terminal, Statuses, Terminals
  <2>7. active[j] = 0 => ~Lives(j)'
    BY <1>6, <1>8, Zenon DEF Lives, Terminal, Terminals
  <2>8. jobs'[j].status # "none"
    BY <1>6, <1>8, Zenon
  <2>9. \A p \in Asked(j) : /\ Asked(j) = {p} /\ active[j] = 0 /\ Bound(j, p)
                            /\ p # 0 => up = "recovering"
    BY <1>5, Zenon DEF JobOK
  <2>10. active[j] # 0 => Bound(j, active[j])
    BY <1>5, Zenon DEF JobOK
  <2>11. OpenAttempts(j)' \subseteq {jobs'[j].attempt}
    BY <1>5, <1>8, <2>3, Zenon DEF JobOK
  <2>. QED
    BY <1>1, <1>2, <2>1, <2>2, <2>3, <2>4, <2>5, <2>6, <2>7, <2>8, <2>9, <2>10, <2>11, Zenon DEF JobOK
<1>. QED
  BY <1>10, <1>11, <1>12, <1>13, Zenon DEF SupervisorInv

(* A step that only the engine's runs notice. *)
LEMMA RunsOnlyInv ==
    ASSUME SupervisorInv, RunsStay,
           UNCHANGED <<scenario, jobs, attempts, retries, up, plan, recovering, pending, deleting, active, queue, actor>>
    PROVE  SupervisorInv'
<1>1. Typed /\ Phases /\ NoTwice(queue) /\ RunsFit /\ \A j \in Jobs : JobOK(j)
  BY Zenon DEF SupervisorInv
<1>2. Typed'
  BY <1>1, Zenon DEF Typed, RunsStay
<1>3. runs = <<>> => runs' = <<>>
  <2>1. Len(runs') = Len(runs)
    BY <1>1, <1>2 DEF Typed, RunsStay
  <2>. QED
    BY <1>2, <2>1 DEF Typed
<1>4. Phases' /\ NoTwice(queue)' /\ RunsFit'
  BY <1>1, <1>3, RunsStayFit, Zenon DEF Phases, NoTwice
<1>5. \A j \in Jobs : JobOK(j)'
  BY <1>1, AllKept, Zenon
<1>. QED
  BY <1>2, <1>4, <1>5, Zenon DEF SupervisorInv

(* New limits change no row and no run. *)
LEMMA UpdateLimitsInv == ASSUME SupervisorInv, NEW n, UpdateLimits(n) PROVE SupervisorInv'
<1>1. UNCHANGED <<scenario, jobs, attempts, retries, up, plan, recovering, pending, deleting, active, queue, actor, runs>>
  BY Zenon DEF UpdateLimits, registry, planner
<1>2. RunsStay
  BY <1>1, Zenon DEF SupervisorInv, Typed, RunsStay
<1>. QED
  BY <1>1, <1>2, RunsOnlyInv, Zenon

(* Shutting down tells the runs and changes no row. *)
LEMMA ShutdownInv == ASSUME SupervisorInv, Shutdown PROVE SupervisorInv'
<1>1. UNCHANGED <<scenario, jobs, attempts, retries, up, plan, recovering, pending, deleting, active, queue, actor>>
  BY Zenon DEF Shutdown, registry, planner
<1> DEFINE new == [i \in DOMAIN runs |-> IF runs[i].tracked THEN [runs[i] EXCEPT !.cancelled = TRUE] ELSE runs[i]]
<1>2. runs \in Seq(RunType) /\ \A i \in DOMAIN runs : runs[i] \in RunType
  BY DEF SupervisorInv, Typed
<1>3. ASSUME NEW r \in RunType
      PROVE  /\ [r EXCEPT !.cancelled = TRUE] \in RunType
             /\ [r EXCEPT !.cancelled = TRUE].job = r.job /\ [r EXCEPT !.cancelled = TRUE].attempt = r.attempt
             /\ [r EXCEPT !.cancelled = TRUE].tracked = r.tracked
  BY <1>3, Zenon DEF RunType
<1>4. DOMAIN new = DOMAIN runs /\ new = [i \in DOMAIN runs |-> new[i]] /\ runs' = new
  BY Zenon DEF Shutdown
<1>5. ASSUME NEW i \in DOMAIN runs
      PROVE  /\ new[i] \in RunType /\ new[i].job = runs[i].job /\ new[i].attempt = runs[i].attempt
             /\ new[i].tracked = runs[i].tracked
  <2>1. new[i] = runs[i] \/ new[i] = [runs[i] EXCEPT !.cancelled = TRUE]
    BY <1>5, Zenon
  <2>. HIDE DEF new
  <2>. QED
    BY <1>2, <1>3, <1>5, <2>1, Zenon
<1>. HIDE DEF new
<1>6. RunsStay
  BY <1>2, <1>4, <1>5, RunsTold, Zenon
<1>. QED
  BY <1>1, <1>6, RunsOnlyInv, Zenon

(* A run ends with an outcome; its row waits for the completion to be handled. *)
LEMMA RunEndsInv ==
    ASSUME SupervisorInv, NEW i \in DOMAIN runs, NEW o \in Terminals, RunEnds(i, o) PROVE SupervisorInv'
<1>1. UNCHANGED <<scenario, jobs, attempts, retries, up, plan, recovering, pending, deleting, active, queue, actor>>
  BY Zenon DEF RunEnds, registry, planner, memory
<1>2. runs \in Seq(RunType) /\ \A k \in DOMAIN runs : runs[k] \in RunType
  BY DEF SupervisorInv, Typed
<1>3. ASSUME NEW r \in RunType
      PROVE  /\ [r EXCEPT !.outcome = o] \in RunType
             /\ [r EXCEPT !.outcome = o].job = r.job /\ [r EXCEPT !.outcome = o].attempt = r.attempt
             /\ [r EXCEPT !.outcome = o].tracked = r.tracked
  BY <1>3, Zenon DEF RunType
<1> DEFINE new == [runs EXCEPT ![i].outcome = o]
<1>4. DOMAIN new = DOMAIN runs /\ new = [k \in DOMAIN runs |-> new[k]] /\ runs' = new
  BY Zenon DEF RunEnds
<1>5. ASSUME NEW k \in DOMAIN runs
      PROVE  /\ new[k] \in RunType /\ new[k].job = runs[k].job /\ new[k].attempt = runs[k].attempt
             /\ new[k].tracked = runs[k].tracked
  <2>1. new[k] = runs[k] \/ new[k] = [runs[k] EXCEPT !.outcome = o]
    BY <1>5, Zenon
  <2>. HIDE DEF new
  <2>. QED
    BY <1>2, <1>3, <1>5, <2>1, Zenon
<1>. HIDE DEF new
<1>6. RunsStay
  BY <1>2, <1>4, <1>5, RunsTold, Zenon
<1>. QED
  BY <1>1, <1>6, RunsOnlyInv, Zenon

-----------------------------------------------------------------------------
(* Completions and promotion. *)

(* The part of a sequence before an entry. *)
LEMMA Before ==
    ASSUME NEW S, NEW s \in Seq(S), NEW k \in 1 .. Len(s)
    PROVE  /\ SubSeq(s, 1, k - 1) \in Seq(S) /\ Len(SubSeq(s, 1, k - 1)) = k - 1
           /\ \A i \in 1 .. k - 1 : SubSeq(s, 1, k - 1)[i] = s[i]
  OBVIOUS

(* And after it. *)
LEMMA After ==
    ASSUME NEW S, NEW s \in Seq(S), NEW k \in 1 .. Len(s)
    PROVE  /\ SubSeq(s, k + 1, Len(s)) \in Seq(S) /\ Len(SubSeq(s, k + 1, Len(s))) = Len(s) - k
           /\ \A i \in 1 .. Len(s) - k : SubSeq(s, k + 1, Len(s))[i] = s[k + i]
<1>1. SubSeq(s, k + 1, Len(s)) \in Seq(S)
  OBVIOUS
<1>2. Len(SubSeq(s, k + 1, Len(s))) = Len(s) - k
  OBVIOUS
<1>3. \A i \in 1 .. Len(s) - k : SubSeq(s, k + 1, Len(s))[i] = s[k + i]
  OBVIOUS
<1>. QED
  BY <1>1, <1>2, <1>3, Zenon

(* Two sequences, one after the other. *)
LEMMA Joined ==
    ASSUME NEW S, NEW s \in Seq(S), NEW t \in Seq(S)
    PROVE  /\ s \o t \in Seq(S) /\ DOMAIN (s \o t) = 1 .. Len(s) + Len(t)
           /\ \A i \in 1 .. Len(s) + Len(t) : (s \o t)[i] = IF i <= Len(s) THEN s[i] ELSE t[i - Len(s)]
  OBVIOUS

(* Which entries are left when one is cut out, and that they are told apart. *)
Cuts(t, s, k) ==
    /\ \A i \in DOMAIN t : \E m \in DOMAIN s \ {k} : t[i] = s[m]
    /\ \A m \in DOMAIN s \ {k} : \E i \in DOMAIN t : t[i] = s[m]
    /\ \A i, l \in DOMAIN t : i # l => \E m, p \in DOMAIN s \ {k} : t[i] = s[m] /\ t[l] = s[p] /\ m # p

(* SubSeq and \o cut one entry out. *)
LEMMA CutKeeps ==
    ASSUME NEW S, NEW s \in Seq(S), NEW k \in DOMAIN s, NEW t, t = SubSeq(s, 1, k - 1) \o SubSeq(s, k + 1, Len(s))
    PROVE  t \in Seq(S) /\ Cuts(t, s, k)
<1>1. PICK head, tail : head = SubSeq(s, 1, k - 1) /\ tail = SubSeq(s, k + 1, Len(s))
  BY Zenon
<1>2. t = head \o tail
  BY ONLY <1>1, t = SubSeq(s, 1, k - 1) \o SubSeq(s, k + 1, Len(s)), Zenon
<1>3. DOMAIN s = 1 .. Len(s) /\ Len(s) \in Nat
  BY ONLY s \in Seq(S)
<1>4. PICK n \in Nat : n = Len(s)
  BY <1>3, Zenon
<1>5. k \in 1 .. Len(s)
  BY ONLY <1>3, k \in DOMAIN s, Zenon
<1>6. head \in Seq(S) /\ Len(head) = k - 1 /\ \A i \in 1 .. k - 1 : head[i] = s[i]
  <2>1. /\ SubSeq(s, 1, k - 1) \in Seq(S) /\ Len(SubSeq(s, 1, k - 1)) = k - 1
        /\ \A i \in 1 .. k - 1 : SubSeq(s, 1, k - 1)[i] = s[i]
    BY ONLY <1>5, s \in Seq(S), Before, Zenon
  <2>. QED
    BY ONLY <1>1, <2>1, Zenon
<1>7. tail \in Seq(S) /\ Len(tail) = n - k /\ \A i \in 1 .. n - k : tail[i] = s[k + i]
  <2>1. /\ SubSeq(s, k + 1, Len(s)) \in Seq(S) /\ Len(SubSeq(s, k + 1, Len(s))) = Len(s) - k
        /\ \A i \in 1 .. Len(s) - k : SubSeq(s, k + 1, Len(s))[i] = s[k + i]
    BY ONLY <1>5, s \in Seq(S), After, Zenon
  <2>. QED
    BY ONLY <1>1, <1>4, <2>1, Zenon
<1>8. /\ t \in Seq(S) /\ DOMAIN t = 1 .. Len(head) + Len(tail)
      /\ \A i \in 1 .. Len(head) + Len(tail) : t[i] = IF i <= Len(head) THEN head[i] ELSE tail[i - Len(head)]
  <2>1. /\ head \o tail \in Seq(S) /\ DOMAIN (head \o tail) = 1 .. Len(head) + Len(tail)
        /\ \A i \in 1 .. Len(head) + Len(tail) :
              (head \o tail)[i] = IF i <= Len(head) THEN head[i] ELSE tail[i - Len(head)]
    BY ONLY <1>6, <1>7, Joined, Zenon
  <2>. QED
    BY ONLY <1>2, <2>1, Zenon
<1>9. DOMAIN t = 1 .. n - 1 /\ \A i \in DOMAIN t : t[i] = IF i < k THEN s[i] ELSE s[i + 1]
  <2>1. k \in 1 .. n
    BY ONLY <1>4, <1>5, Zenon
  <2>2. /\ DOMAIN t = 1 .. (k - 1) + (n - k)
        /\ \A i \in 1 .. (k - 1) + (n - k) : t[i] = IF i <= k - 1 THEN head[i] ELSE tail[i - (k - 1)]
    BY ONLY <1>6, <1>7, <1>8, Zenon
  <2>3. k \in Int /\ 1 <= k /\ k <= n /\ n \in Nat
    BY ONLY <2>1, n \in Nat
  <2>4. (k - 1) + (n - k) = n - 1
    BY ONLY <2>3
  <2>5. ASSUME NEW i \in 1 .. n - 1, i < k PROVE t[i] = s[i]
    <3>1. i <= k - 1 /\ i \in 1 .. k - 1 /\ i \in 1 .. (k - 1) + (n - k)
      BY ONLY <2>3, <2>4, <2>5
    <3>. QED
      BY ONLY <1>6, <2>2, <3>1, Zenon
  <2>6. ASSUME NEW i \in 1 .. n - 1, ~(i < k) PROVE t[i] = s[i + 1]
    <3>1. ~(i <= k - 1) /\ i \in 1 .. (k - 1) + (n - k)
      BY ONLY <2>3, <2>4, <2>6
    <3>2. t[i] = tail[i - (k - 1)]
      BY ONLY <2>2, <3>1, Zenon
    <3>3. i - (k - 1) \in 1 .. n - k /\ k + (i - (k - 1)) = i + 1
      BY ONLY <2>3, <2>6
    <3>4. tail[i - (k - 1)] = s[k + (i - (k - 1))]
      BY ONLY <1>7, <3>3, Zenon
    <3>. QED
      BY ONLY <3>2, <3>3, <3>4, Zenon
  <2>. QED
    BY ONLY <2>2, <2>4, <2>5, <2>6, Zenon
<1>10. k \in 1 .. n /\ DOMAIN s = 1 .. n
  BY <1>3, <1>4, <1>5, Zenon
<1> DEFINE At(i) == IF i < k THEN i ELSE i + 1
<1>11. ASSUME NEW i \in DOMAIN t PROVE At(i) \in DOMAIN s \ {k} /\ t[i] = s[At(i)]
  <2>1. i \in 1 .. n - 1
    BY ONLY <1>9, <1>11, Zenon
  <2>2. At(i) \in 1 .. n /\ At(i) # k
    BY ONLY <1>10, <2>1, n \in Nat
  <2>3. t[i] = s[At(i)]
    BY ONLY <1>9, <1>11, Zenon
  <2>. QED
    BY ONLY <1>10, <2>2, <2>3, Zenon
<1>12. ASSUME NEW m \in DOMAIN s \ {k} PROVE \E i \in DOMAIN t : t[i] = s[m]
  <2>1. CASE m < k
    <3>1. m \in DOMAIN t
      BY ONLY <1>9, <1>10, <1>12, <2>1, n \in Nat
    <3>. QED
      BY ONLY <1>9, <2>1, <3>1, Zenon
  <2>2. CASE ~(m < k)
    <3>1. m - 1 \in DOMAIN t /\ ~(m - 1 < k) /\ (m - 1) + 1 = m
      BY ONLY <1>9, <1>10, <1>12, <2>2, n \in Nat
    <3>. QED
      BY ONLY <1>9, <3>1, Zenon
  <2>. QED
    BY ONLY <2>1, <2>2, Zenon
<1>13. \A i, l \in DOMAIN t : i # l => At(i) # At(l)
  BY ONLY <1>9, <1>10, n \in Nat
<1>. HIDE DEF At
<1>. QED
  BY ONLY <1>8, <1>11, <1>12, <1>13, Zenon DEF Cuts

(* A job leaves the queue. *)
LEMMA QueueShrinks ==
    ASSUME queue \in Seq(Jobs), NoTwice(queue), NEW k \in DOMAIN queue, NEW j \in Jobs, j = queue[k], queue' = Dropped(k)
    PROVE  /\ queue' \in Seq(Jobs) /\ NoTwice(queue)' /\ ~Queued(j)'
           /\ \A x \in Jobs : Queued(x)' => Queued(x)
<1>1. PICK t : t = Dropped(k)
  BY Zenon
<1>2. t \in Seq(Jobs) /\ Cuts(t, queue, k)
  <2>1. t = SubSeq(queue, 1, k - 1) \o SubSeq(queue, k + 1, Len(queue))
    BY <1>1, Zenon DEF Dropped
  <2>. QED
    BY ONLY <2>1, queue \in Seq(Jobs), k \in DOMAIN queue, CutKeeps, Zenon
<1>3. queue' = t
  BY <1>1, Zenon
<1>4. NoTwice(t)
  <2>. SUFFICES ASSUME NEW i \in DOMAIN t, NEW l \in DOMAIN t, t[i] = t[l], i # l PROVE FALSE
    BY Zenon DEF NoTwice
  <2>1. PICK m \in DOMAIN queue \ {k}, p \in DOMAIN queue \ {k} : t[i] = queue[m] /\ t[l] = queue[p] /\ m # p
    BY ONLY <1>2, i \in DOMAIN t, l \in DOMAIN t, i # l, Zenon DEF Cuts
  <2>. QED
    BY <2>1, Zenon DEF NoTwice
<1>5. \A i \in DOMAIN t : t[i] # j
  BY ONLY <1>2, NoTwice(queue), j = queue[k], k \in DOMAIN queue, Zenon DEF NoTwice, Cuts
<1>6. \A x \in Jobs : (\E i \in DOMAIN t : t[i] = x) => Queued(x)
  BY ONLY <1>2 DEF Queued, Cuts
<1>7. ~Queued(j)' /\ \A x \in Jobs : Queued(x)' => Queued(x)
  BY ONLY <1>3, <1>5, <1>6, Zenon DEF Queued
<1>. QED
  BY ONLY <1>2, <1>3, <1>4, <1>7, Zenon DEF NoTwice

(* Handling a completion closes the attempt and forgets the run together. *)
LEMMA FinalizeInv == ASSUME SupervisorInv, NEW i \in DOMAIN runs, Finalize(i) PROVE SupervisorInv'
<1>1. /\ actor = Idle /\ actor' = Promoting(1) /\ runs[i].outcome # "none"
      /\ runs' = SubSeq(runs, 1, i - 1) \o SubSeq(runs, i + 1, Len(runs))
      /\ UNCHANGED <<scenario, retries, up, plan, recovering, pending, deleting, queue>>
  BY Zenon DEF Finalize, planner
<1>2. Typed /\ Phases /\ NoTwice(queue) /\ RunsFit
  BY Zenon DEF SupervisorInv
<1>3. runs \in Seq(RunType) /\ runs[i] \in RunType
  BY <1>2 DEF Typed
<1>4. up # "down"
  BY <1>2 DEF Phases
<1>5. PICK j \in Jobs : j = runs[i].job
  BY <1>3, Zenon DEF RunType
<1>6. PICK a \in Nat : a = runs[i].attempt
  BY <1>3, Zenon DEF RunType
<1>7. PICK o \in Terminals \cup {"interrupted"} : o = Recorded(runs[i].outcome)
  BY <1>1, <1>3, Zenon DEF RunType, Recorded
<1>8. Finish(a, o) /\ active' = [active EXCEPT ![j] = 0]
  BY <1>5, <1>6, <1>7, Zenon DEF Finalize
<1>9. active[j] = a /\ a # 0
  BY <1>2, <1>5, <1>6, Zenon DEF RunsFit
<1>10. JobOK(j) /\ Lives(j) /\ Bound(j, a) /\ Asked(j) = {} /\ ~Queued(j) /\ j \notin plan /\ recovering # j
       /\ OpenAttempts(j) \subseteq {jobs[j].attempt}
  BY <1>9, Zenon DEF SupervisorInv, JobOK
<1>11. /\ actor' \in ActorType /\ actor'.at = "promote" /\ actor'.scan # 0 /\ actor.at = "idle"
  <2>1. actor' = [at |-> "promote", job |-> NoJob, attempt |-> 0, status |-> "none", scan |-> 1]
    BY ONLY <1>1, Stages, Zenon
  <2>2. actor.at = "idle"
    BY ONLY <1>1, Stages, Zenon
  <2>. QED
    BY ONLY <2>1, <2>2 DEF ActorType
<1>12. active' \in [Jobs -> Nat] /\ active'[j] = 0 /\ \A k \in Jobs \ {j} : active'[k] = active[k]
  BY <1>2, <1>8, Zenon DEF Typed
<1>13. /\ attempts' \in Seq([job : Jobs, outcome : Outcomes])
       /\ jobs' \in [Jobs -> RowType]
       /\ \A k \in Jobs \ {j} : /\ jobs'[k] = jobs[k] /\ OpenAttempts(k)' = OpenAttempts(k)
                                /\ Truthful(k) => Truthful(k)'
  BY <1>2, <1>8, <1>9, <1>10, FinishedRow, Zenon
<1>14. PICK t : t = SubSeq(runs, 1, i - 1) \o SubSeq(runs, i + 1, Len(runs))
  BY Zenon
<1>15. runs' = t
  BY ONLY <1>1, <1>14, Zenon
<1>16. t \in Seq(RunType) /\ Cuts(t, runs, i)
  BY ONLY <1>3, <1>14, i \in DOMAIN runs, CutKeeps, Zenon
<1>17. Typed'
  BY ONLY <1>1, <1>2, <1>11, <1>12, <1>13, <1>15, <1>16, Zenon DEF Typed
<1>18. Phases' /\ NoTwice(queue)'
  BY ONLY <1>1, <1>2, <1>4, <1>11, Zenon DEF Phases, NoTwice
<1>19. RunsFit'
  <2>1. \A m \in DOMAIN runs : runs[m].job \in Jobs /\ runs[m].tracked /\ runs[m].attempt # 0
                               /\ active[runs[m].job] = runs[m].attempt
    <3>1. \A m \in DOMAIN runs : runs[m] \in RunType
      BY <1>3
    <3>. QED
      BY ONLY <1>2, <3>1, Zenon DEF RunsFit, RunType
  <2>2. \A m, p \in DOMAIN runs : runs[m].job = runs[p].job => m = p
    BY <1>2, Zenon DEF RunsFit
  <2>3. \A m \in DOMAIN runs \ {i} : runs[m].job # j
    BY ONLY <1>5, <2>2, i \in DOMAIN runs, Zenon
  <2>4. ASSUME NEW x \in DOMAIN t PROVE t[x].tracked /\ t[x].attempt # 0 /\ active'[t[x].job] = t[x].attempt
    <3>1. PICK m \in DOMAIN runs \ {i} : t[x] = runs[m]
      BY ONLY <1>16, <2>4, Zenon DEF Cuts
    <3>. QED
      BY ONLY <1>12, <2>1, <2>3, <3>1
  <2>5. ASSUME NEW x \in DOMAIN t, NEW l \in DOMAIN t, t[x].job = t[l].job, x # l PROVE FALSE
    <3>1. PICK m \in DOMAIN runs \ {i}, p \in DOMAIN runs \ {i} : t[x] = runs[m] /\ t[l] = runs[p] /\ m # p
      BY ONLY <1>16, <2>5, Zenon DEF Cuts
    <3>. QED
      BY ONLY <2>2, <2>5, <3>1, Zenon
  <2>6. ASSUME NEW k \in Jobs, active'[k] # 0 PROVE \E x \in DOMAIN t : t[x].job = k
    <3>1. k # j /\ active[k] # 0
      BY <1>12, <2>6, Zenon
    <3>2. PICK m \in DOMAIN runs : runs[m].job = k
      BY <1>2, <3>1, Zenon DEF RunsFit
    <3>3. m # i
      BY <1>5, <3>1, <3>2, Zenon
    <3>. QED
      BY ONLY <1>16, <3>2, <3>3, Zenon DEF Cuts
  <2>. QED
    BY ONLY <1>15, <2>4, <2>5, <2>6, Zenon DEF RunsFit
<1>20. ASSUME NEW k \in Jobs, k # j PROVE JobOK(k)'
  <2>1. ~Launches(k)' /\ ~Marked(k)' /\ ~Marked(k)
    BY <1>11, Zenon DEF Launches, Marked
  <2>2. Steady(k)
    BY <1>1, <1>12, <1>13, <1>20, <2>1, PartsKept, Zenon DEF Steady
  <2>. QED
    BY <2>2, JobKept, Zenon DEF SupervisorInv
<1>21. JobOK(j)'
  BY <1>1, <1>8, <1>9, <1>10, <1>11, <1>12, EndedJob, Zenon
<1>. QED
  BY <1>17, <1>18, <1>19, <1>20, <1>21, Zenon DEF SupervisorInv

(* A freed slot takes the first job of the queue that may run. *)
LEMMA PromoteInv == ASSUME SupervisorInv, Promote PROVE SupervisorInv'
<1>1. /\ actor.at = "promote"
      /\ UNCHANGED <<scenario, attempts, retries, up, plan, recovering, pending, deleting, active, runs>>
  BY Zenon DEF Promote, planner
<1>2. Typed /\ Phases /\ NoTwice(queue) /\ RunsFit /\ up # "down" /\ actor.scan # 0
  BY <1>1, Stages DEF SupervisorInv, Phases
<1>3. PICK k \in Nat : k = actor.scan /\ k # 0
  BY <1>2, Zenon DEF Typed, ActorType
<1>4. queue \in Seq(Jobs) /\ Len(queue) \in Nat /\ DOMAIN queue = 1 .. Len(queue)
  BY <1>2 DEF Typed
<1>5. /\ Idle \in ActorType /\ Idle.at = "idle"
      /\ \A n \in Nat : Promoting(n) \in ActorType /\ Promoting(n).at = "promote" /\ Promoting(n).scan = n
  BY Stages, Zenon DEF ActorType
<1>6. CASE UNCHANGED <<jobs, queue>> /\ actor' \in {Idle, Promoting(k + 1)}
  <2>1. actor' \in ActorType /\ actor'.at \in {"idle", "promote"} /\ (actor'.at = "promote" => actor'.scan # 0)
    BY <1>3, <1>5, <1>6
  <2>2. Typed'
    BY ONLY <1>1, <1>2, <1>6, <2>1, Zenon DEF Typed
  <2>3. Phases' /\ NoTwice(queue)' /\ RunsFit'
    BY <1>1, <1>2, <1>6, <2>1, Zenon DEF Phases, NoTwice, RunsFit
  <2>4. ASSUME NEW j \in Jobs PROVE JobOK(j)'
    <3>1. ~Launches(j)' /\ ~Marked(j)' /\ ~Marked(j)
      BY <1>1, <2>1, Zenon DEF Launches, Marked
    <3>2. Steady(j)
      BY <1>1, <1>6, <3>1, PartsKept, Zenon DEF Steady
    <3>. QED
      BY <3>2, JobKept, Zenon DEF SupervisorInv
  <2>. QED
    BY <2>2, <2>3, <2>4, Zenon DEF SupervisorInv
<1>7. CASE k <= Len(queue) /\ queue' = Dropped(k)
  <2>1. k \in DOMAIN queue
    BY <1>3, <1>4, <1>7
  <2>2. PICK j \in Jobs : j = queue[k]
    BY <1>4, <2>1
  <2>3. Queued(j)
    BY <2>1, <2>2, Zenon DEF Queued
  <2>4. JobOK(j) /\ Lives(j) /\ Bound(j, jobs[j].attempt) /\ Asked(j) = {} /\ active[j] = 0 /\ j \notin plan
        /\ recovering # j /\ j \notin deleting /\ OpenAttempts(j) \subseteq {jobs[j].attempt} /\ Truthful(j)
    BY <2>3, Zenon DEF SupervisorInv, JobOK, Lives
  <2>5. queue' \in Seq(Jobs) /\ NoTwice(queue)' /\ ~Queued(j)' /\ \A x \in Jobs : Queued(x)' => Queued(x)
    BY ONLY <1>2, <1>4, <1>7, <2>1, <2>2, QueueShrinks, Zenon
  <2>6. PICK a \in Nat : a = jobs[j].attempt
    BY <1>2, Zenon DEF Typed, RowType
  <2>7. /\ Launching(j, a, k) \in ActorType /\ Launching(j, a, k).at = "begin" /\ Launching(j, a, k).job = j
        /\ Launching(j, a, k).attempt = a
    BY Stages, Zenon DEF ActorType
  <2>8. ASSUME NEW x \in Jobs, x # j, jobs'[x] = jobs[x], actor'.at \in {"begin", "promote"},
               actor'.at = "begin" => actor'.job = j
        PROVE  JobOK(x)'
    <3>1. ~Launches(x)' /\ ~Marked(x)' /\ ~Marked(x)
      BY <1>1, <2>8, Zenon DEF Launches, Marked
    <3>2. Steady(x)
      BY <1>1, <2>5, <2>8, <3>1, PartsKept, Zenon DEF Steady
    <3>. QED
      BY <3>2, JobKept, Zenon DEF SupervisorInv
  <2>9. Asked(j)' = {} /\ j \notin plan' /\ recovering' # j /\ j \notin deleting' /\ active'[j] = 0
        /\ OpenAttempts(j)' = OpenAttempts(j)
    BY <1>1, <2>4, PartsKept, Zenon
  <2>10. CASE jobs[j].desired = "running" /\ actor' = Launching(j, a, k) /\ jobs' = jobs
    <3>1. Typed'
      BY ONLY <1>1, <1>2, <2>5, <2>7, <2>10, Zenon DEF Typed
    <3>2. Phases' /\ RunsFit'
      BY <1>1, <1>2, <2>7, <2>10, Zenon DEF Phases, RunsFit
    <3>3. ASSUME NEW x \in Jobs, x # j PROVE JobOK(x)'
      BY <2>7, <2>8, <2>10, <3>3, Zenon
    <3>4. JobOK(j)'
      <4>1. Launches(j)' /\ ~Marked(j)' /\ actor'.attempt = a /\ actor'.at = "begin"
        BY <2>7, <2>10, Zenon DEF Launches, Marked
      <4>2. Lives(j)' /\ Bound(j, a)' /\ Truthful(j)' /\ jobs'[j].desired = "running"
        BY <1>1, <2>4, <2>6, <2>9, <2>10, PartsKept, Zenon DEF Lives, Exists, Terminal, Bound
      <4>. QED
        BY <2>4, <2>5, <2>9, <2>10, <4>1, <4>2, Zenon DEF JobOK
    <3>. QED
      BY <2>5, <3>1, <3>2, <3>3, <3>4, Zenon DEF SupervisorInv
  <2>11. CASE jobs[j].desired = "cancelled" /\ actor' = Promoting(k) /\ jobs' = [jobs EXCEPT ![j].status = "cancelled"]
    <3>1. SetStatus(j, "cancelled") /\ "cancelled" \in Statuses
      BY <2>11, Zenon DEF SetStatus, Statuses, Terminals
    <3>2. /\ jobs' \in [Jobs -> RowType]
          /\ jobs'[j].status = "cancelled" /\ jobs'[j].desired = jobs[j].desired /\ jobs'[j].attempt = jobs[j].attempt
          /\ \A x \in Jobs \ {j} : jobs'[x] = jobs[x]
      BY <1>2, <3>1, StatusSet, Zenon
    <3>3. actor' \in ActorType /\ actor'.at = "promote" /\ actor'.scan # 0
      BY <1>3, <1>5, <2>11, Zenon
    <3>4. Typed'
      BY ONLY <1>1, <1>2, <2>5, <3>2, <3>3, Zenon DEF Typed
    <3>5. Phases' /\ RunsFit'
      BY <1>1, <1>2, <3>3, Zenon DEF Phases, RunsFit
    <3>6. ASSUME NEW x \in Jobs, x # j PROVE JobOK(x)'
      BY <2>8, <3>2, <3>3, <3>6, Zenon
    <3>7. JobOK(j)'
      <4>1. ~Launches(j)' /\ ~Marked(j)'
        BY <3>3, Zenon DEF Launches, Marked
      <4>2. Truthful(j)'
        BY <3>2, Zenon DEF Truthful
      <4>. QED
        BY <2>4, <2>5, <2>9, <3>2, <4>1, <4>2, Zenon DEF JobOK
    <3>. QED
      BY <2>5, <3>4, <3>5, <3>6, <3>7, Zenon DEF SupervisorInv
  <2>12. /\ ~(jobs[j].desired = "paused") => jobs[j].desired \in {"running", "cancelled"}
    BY <1>2, Zenon DEF Typed, RowType
  <2>13. /\ jobs[j].desired # "paused"
         /\ actor' = IF jobs[j].desired = "running" THEN Launching(j, a, k) ELSE Promoting(k)
         /\ jobs' = IF jobs[j].desired = "cancelled" THEN [jobs EXCEPT ![j].status = "cancelled"] ELSE jobs
    <3>1. Exists(j) /\ ~Terminal(j)
      BY <2>4, Zenon DEF Lives
    <3>2. ~(k > Len(queue))
      BY ONLY <1>3, <1>4, <1>7
    <3>3. queue' # queue
      BY <2>3, <2>5, Zenon DEF Queued
    <3>. QED
      BY ONLY Promote, <1>3, <2>2, <2>6, <3>1, <3>2, <3>3, Zenon DEF Promote
  <2>. QED
    BY <2>10, <2>11, <2>12, <2>13, Zenon
<1>. QED
  BY <1>3, <1>6, <1>7, Zenon DEF Promote

-----------------------------------------------------------------------------
(* The whole. *)

(* Nobody asks for a retry.  A retry that waits for a slot, or that overtakes
   the deletion of its job, breaks what follows; Scenarios without retries are
   what the theorems are about. *)
NoRetries == \A s \in Scenarios : s.retries = 0

(* Where no retry is asked for, none happens. *)
LEMMA RetryNever == ASSUME NoRetries, SupervisorInv, NEW j \in Jobs, Retry(j) PROVE FALSE
<1>1. scenario.retries = 0 /\ retries \in Nat
  BY Zenon DEF NoRetries, SupervisorInv, Typed
<1>2. retries < scenario.retries
  BY Zenon DEF Retry
<1>. QED
  BY <1>1, <1>2

(* Every initial state satisfies the inductive invariant. *)
LEMMA SupervisorInitInv == ASSUME SupervisorInit PROVE SupervisorInv
<1>1. Typed
  BY Stages DEF SupervisorInit, Typed, NoRow, RowType, ActorType
<1>2. Phases /\ NoTwice(queue) /\ RunsFit
  BY Stages DEF SupervisorInit, Phases, NoTwice, RunsFit
<1>3. ASSUME NEW j \in Jobs PROVE JobOK(j)
  <2>1. OpenAttempts(j) = {} /\ Asked(j) = {} /\ ~Queued(j) /\ ~Launches(j) /\ ~Marked(j) /\ active[j] = 0
    BY Stages DEF SupervisorInit, OpenAttempts, Asked, Queued, Launches, Marked
  <2>2. plan = {} /\ deleting = {} /\ recovering # j /\ jobs[j].status = "none"
    BY ScenarioAssumption, Zenon DEF SupervisorInit, NoRow
  <2>3. Truthful(j)
    BY <2>2, Zenon DEF Truthful
  <2>. QED
    BY <2>1, <2>2, <2>3, Zenon DEF JobOK
<1>. QED
  BY <1>1, <1>2, <1>3, Zenon DEF SupervisorInv

(* The actions, one by one. *)
LEMMA NextIsOne ==
    ASSUME SupervisorNext
    PROVE  \/ Start \/ Stop \/ BeginRecovery \/ Serve \/ BeginAttempt \/ MarkActive \/ Launch \/ LaunchFails
           \/ MarkStatus \/ Promote \/ Shutdown
           \/ \E j \in Jobs : Classify(j) \/ RemoveHistory(j) \/ CreateJob(j) \/ DeleteCheck(j)
           \/ \E j \in Jobs : Pause(j) \/ Resume(j) \/ Cancel(j) \/ Retry(j)
           \/ \E command \in pending : Enqueue(command[1], command[2])
           \/ \E i \in DOMAIN runs : Finalize(i) \/ \E o \in Terminals : RunEnds(i, o)
           \/ \E n : UpdateLimits(n)
  BY Zenon DEF SupervisorNext, Handler, Planner, EnqueueSome, FinalizeSome, SomeRunEnds, RemoveSome, Command

(* Every step, a stutter included, preserves the inductive invariant. *)
LEMMA SupervisorNextInv == ASSUME NoRetries, SupervisorInv, [SupervisorNext]_supervisorVars PROVE SupervisorInv'
<1>1. CASE Start \/ Stop \/ BeginRecovery \/ Serve
  BY <1>1, StartInv, StopInv, BeginRecoveryInv, ServeInv, Zenon
<1>2. CASE BeginAttempt \/ MarkActive \/ Launch \/ LaunchFails \/ MarkStatus \/ Promote \/ Shutdown
  BY <1>2, BeginAttemptInv, MarkActiveInv, LaunchInv, LaunchFailsInv, MarkStatusInv, PromoteInv, ShutdownInv, Zenon
<1>3. CASE \E j \in Jobs : Classify(j) \/ RemoveHistory(j) \/ CreateJob(j) \/ DeleteCheck(j)
  BY <1>3, ClassifyInv, RemoveHistoryInv, CreateJobInv, DeleteCheckInv, Zenon
<1>4. CASE \E j \in Jobs : Pause(j) \/ Resume(j) \/ Cancel(j) \/ Retry(j)
  BY <1>4, PauseInv, ResumeInv, CancelInv, RetryNever, Zenon
<1>5. ASSUME NEW command \in pending, Enqueue(command[1], command[2]) PROVE SupervisorInv'
  <2>1. command[1] \in Jobs /\ command[2] \in Nat
    BY <1>5, Zenon DEF SupervisorInv, Typed
  <2>. QED
    BY <1>5, <2>1, EnqueueInv, Zenon
<1>6. CASE \E i \in DOMAIN runs : Finalize(i) \/ \E o \in Terminals : RunEnds(i, o)
  BY <1>6, FinalizeInv, RunEndsInv, Zenon
<1>7. CASE \E n : UpdateLimits(n)
  BY <1>7, UpdateLimitsInv, Zenon
<1>8. CASE UNCHANGED supervisorVars
  <2>1. UNCHANGED <<scenario, jobs, attempts, retries, up, plan, recovering, pending, deleting, active, queue, actor, runs>>
    BY <1>8, Zenon DEF supervisorVars, registry, planner, memory
  <2>2. RunsStay
    BY <2>1, Zenon DEF SupervisorInv, Typed, RunsStay
  <2>. QED
    BY <2>1, <2>2, RunsOnlyInv, Zenon
<1>. QED
  BY <1>1, <1>2, <1>3, <1>4, <1>5, <1>6, <1>7, <1>8, NextIsOne, Zenon

(* The registry and the actor's memory agree (Actor), in every behaviour without
   retries: a job is in at most one of the places from which it can be
   launched, and the attempt it will use or uses is its open one. *)
THEOREM SupervisorInvariant == ASSUME NoRetries PROVE SupervisorSpec => []SupervisorInv
<1>1. SupervisorInit => SupervisorInv
  BY SupervisorInitInv, Zenon
<1>2. SupervisorInv /\ [SupervisorNext]_supervisorVars => SupervisorInv'
  BY SupervisorNextInv, Zenon
<1>. QED
  BY <1>1, <1>2, PTL DEF SupervisorSpec

(* Actor::active names exactly the engine's runs, one per job, each working on
   an unfinished attempt. *)
THEOREM RunsAreTracked == ASSUME NoRetries PROVE SupervisorSpec => []RunsTracked
<1>1. ASSUME SupervisorInv PROVE RunsTracked
  <2>1. runs \in Seq(RunType) /\ RunsFit
    BY <1>1, Zenon DEF SupervisorInv, Typed
  <2>2. ASSUME NEW i \in DOMAIN runs PROVE active[runs[i].job] = runs[i].attempt /\ Open(runs[i].attempt)
    <3>0. runs[i] \in RunType
      BY <2>1
    <3>1. runs[i].job \in Jobs
      BY <3>0, Zenon DEF RunType
    <3>2. active[runs[i].job] = runs[i].attempt /\ active[runs[i].job] # 0
      BY <2>1, Zenon DEF RunsFit
    <3>3. Bound(runs[i].job, active[runs[i].job])
      BY <1>1, <3>1, <3>2, Zenon DEF SupervisorInv, JobOK
    <3>. QED
      BY <3>2, <3>3 DEF Bound, OpenAttempts, Open
  <2>. QED
    BY <2>1, <2>2, Zenon DEF RunsTracked, RunsFit
<1>. QED
  BY <1>1, SupervisorInvariant, PTL

(* A job has at most one unfinished attempt, whatever crash interrupted a launch
   or a recovery (begin_recovery_attempt_once). *)
THEOREM OneAttemptOpen == ASSUME NoRetries PROVE SupervisorSpec => []OneOpenAttempt
<1>1. ASSUME SupervisorInv PROVE OneOpenAttempt
  <2>. SUFFICES ASSUME NEW a \in DOMAIN attempts, NEW b \in DOMAIN attempts, Open(a), Open(b),
                       attempts[a].job = attempts[b].job
                PROVE  a = b
    BY Zenon DEF OneOpenAttempt
  <2>1. attempts[a] \in [job : Jobs, outcome : Outcomes] /\ attempts[b] \in [job : Jobs, outcome : Outcomes]
    <3> DEFINE Row == [job : Jobs, outcome : Outcomes]
    <3>1. attempts \in Seq(Row)
      BY <1>1, Zenon DEF SupervisorInv, Typed
    <3>. HIDE DEF Row
    <3>2. attempts[a] \in Row /\ attempts[b] \in Row
      BY <3>1
    <3>. QED
      BY <3>2, Zenon DEF Row
  <2>2. PICK j \in Jobs : j = attempts[a].job
    BY <2>1, Zenon
  <2>3. attempts[a] = [job |-> j, outcome |-> "open"] /\ attempts[b] = [job |-> j, outcome |-> "open"]
    BY <2>1, <2>2, Zenon DEF Open
  <2>4. a \in OpenAttempts(j) /\ b \in OpenAttempts(j) /\ OpenAttempts(j) \subseteq {jobs[j].attempt}
    BY <1>1, <2>3, Zenon DEF OpenAttempts, SupervisorInv, JobOK
  <2>. QED
    BY <2>4, Zenon
<1>. QED
  BY <1>1, SupervisorInvariant, PTL

(* A job counts as completed or failed only because its current attempt ended so
   (finish_attempt). *)
THEOREM OutcomesAreTruthful == ASSUME NoRetries PROVE SupervisorSpec => []OutcomeTruthful
<1>1. ASSUME SupervisorInv PROVE OutcomeTruthful
  <2>1. 0 \notin DOMAIN attempts
    BY <1>1 DEF SupervisorInv, Typed
  <2>2. \A j \in Jobs : Truthful(j)
    BY <1>1, Zenon DEF SupervisorInv, JobOK
  <2>. QED
    BY <2>1, <2>2, Zenon DEF OutcomeTruthful, Truthful
<1>. QED
  BY <1>1, SupervisorInvariant, PTL

(* The steps that write the status of a job. *)
LEMMA WhoWrites ==
    ASSUME SupervisorNext, ~UNCHANGED jobs
    PROVE  \/ BeginRecovery \/ BeginAttempt \/ MarkActive \/ LaunchFails \/ MarkStatus \/ Promote
           \/ \E j \in Jobs : Classify(j) \/ RemoveHistory(j) \/ CreateJob(j)
           \/ \E j \in Jobs : Pause(j) \/ Resume(j) \/ Cancel(j) \/ Retry(j)
           \/ \E i \in DOMAIN runs : Finalize(i)
<1>1. ~Start /\ ~Stop /\ ~Serve /\ ~Launch /\ ~Shutdown
  BY Zenon DEF Start, Stop, Serve, Launch, Shutdown, registry
<1>2. ASSUME NEW j PROVE ~DeleteCheck(j)
  BY Zenon DEF DeleteCheck, registry
<1>3. ASSUME NEW j, NEW p PROVE ~Enqueue(j, p)
  BY Zenon DEF Enqueue, registry
<1>4. ASSUME NEW i, NEW o PROVE ~RunEnds(i, o)
  BY Zenon DEF RunEnds, registry
<1>5. ASSUME NEW n PROVE ~UpdateLimits(n)
  BY Zenon DEF UpdateLimits, registry
<1>. QED
  BY <1>1, <1>2, <1>3, <1>4, <1>5, NextIsOne, Zenon

(* A job that has ended is not reopened: the step that changes its row deletes it. *)
LEMMA EndedStays ==
    ASSUME NoRetries, SupervisorInv, SupervisorNext, NEW j \in Jobs, Terminal(j), jobs'[j].status # jobs[j].status
    PROVE  jobs'[j] = Removed
<1>1. Typed /\ JobOK(j) /\ ~Lives(j) /\ Exists(j)
  BY Zenon DEF SupervisorInv, Lives, Exists, Terminal, Statuses
<1>2. ~UNCHANGED jobs
  BY Zenon
<1>3. recovering # j /\ j \notin plan /\ ~Queued(j) /\ ~Launches(j) /\ active[j] = 0 /\ ~Marked(j)
  BY <1>1, Zenon DEF JobOK
<1>4. jobs \in [Jobs -> RowType]
  BY <1>1, Zenon DEF Typed
<1>5. ASSUME BeginRecovery PROVE FALSE
  BY <1>4, <1>5, Zenon DEF BeginRecovery, RowType
<1>6. ASSUME BeginAttempt PROVE FALSE
  BY <1>4, <1>6 DEF BeginAttempt, RowType, registry
<1>7. ASSUME MarkActive PROVE FALSE
  BY <1>3, <1>4, <1>7, Zenon DEF MarkActive, SetStatus, Launches
<1>8. ASSUME MarkStatus PROVE FALSE
  BY <1>3, <1>4, <1>8, Zenon DEF MarkStatus, SetStatus, Marked
<1>9. ASSUME NEW k \in Jobs, Classify(k) PROVE FALSE
  <2>1. k \in plan /\ jobs[k].desired \in {"running", "paused", "cancelled"}
    BY <1>4, <1>9, Zenon DEF Classify, RowType
  <2>2. SetStatus(k, "recovering") \/ SetStatus(k, "paused") \/ UNCHANGED jobs
    BY <1>9, <2>1, Zenon DEF Classify
  <2>. QED
    BY <1>2, <1>3, <1>4, <2>1, <2>2, Zenon DEF SetStatus
<1>10. ASSUME NEW k \in Jobs, RemoveHistory(k) PROVE jobs'[j] = Removed
  BY <1>4, <1>10, Zenon DEF RemoveHistory
<1>11. ASSUME NEW k \in Jobs, CreateJob(k) PROVE FALSE
  <2>1. k # j /\ SetStatus(k, "queued")
    BY <1>11 DEF CreateJob, NoRow, Terminal, Terminals
  <2>. QED
    BY <1>4, <2>1, Zenon DEF SetStatus
<1>12. ASSUME NEW k \in Jobs, Pause(k) \/ Resume(k) \/ Cancel(k) \/ Retry(k) PROVE FALSE
  <2>1. PICK d : SetDesired(k, d)
    BY <1>12, Zenon DEF Pause, Resume, Cancel, Retry
  <2>. QED
    BY <1>4, <2>1, Zenon DEF SetDesired, RowType
<1>13. ASSUME NEW a \in Nat, NEW o \in Terminals \cup {"interrupted"}, NEW k \in Jobs, a # 0, Bound(k, a), k # j, Finish(a, o)
       PROVE  FALSE
  <2>1. OpenAttempts(k) \subseteq {jobs[k].attempt}
    BY Zenon DEF SupervisorInv, JobOK
  <2>2. jobs'[j] = jobs[j]
    BY <1>1, <1>13, <2>1, FinishedRow, Zenon
  <2>. QED
    BY <2>2, Zenon
<1>14. ASSUME LaunchFails PROVE FALSE
  <2>1. actor.at = "spawn" /\ Finish(actor.attempt, "failed")
    BY <1>14, Zenon DEF LaunchFails
  <2>2. PICK k \in Jobs : k = actor.job
    BY <2>1, Zenon DEF SupervisorInv, Phases
  <2>3. Launches(k) /\ k # j
    BY <1>3, <2>1, <2>2, Zenon DEF Launches
  <2>4. PICK a \in Nat : a = actor.attempt
    BY <1>1, Zenon DEF Typed, ActorType
  <2>5. Bound(k, a) /\ a # 0
    BY <2>1, <2>3, <2>4, Zenon DEF SupervisorInv, JobOK
  <2>. QED
    BY <1>13, <2>1, <2>3, <2>4, <2>5, Zenon DEF Terminals
<1>15. ASSUME NEW i \in DOMAIN runs, Finalize(i) PROVE FALSE
  <2>1. runs[i] \in RunType /\ RunsFit
    BY <1>1 DEF Typed, SupervisorInv
  <2>2. PICK k \in Jobs : k = runs[i].job
    BY <2>1, Zenon DEF RunType
  <2>3. PICK a \in Nat : a = runs[i].attempt
    BY <2>1, Zenon DEF RunType
  <2>4. active[k] = a /\ a # 0 /\ k # j
    BY <1>3, <2>1, <2>2, <2>3 DEF RunsFit
  <2>5. Bound(k, a)
    BY <2>4, Zenon DEF SupervisorInv, JobOK
  <2>6. PICK o \in Terminals \cup {"interrupted"} : o = Recorded(runs[i].outcome)
    BY <1>15, <2>1, Zenon DEF RunType, Recorded, Finalize
  <2>7. Finish(a, o)
    BY <1>15, <2>3, <2>6, Zenon DEF Finalize
  <2>. QED
    BY <1>13, <2>4, <2>5, <2>7, Zenon
<1>16. ASSUME Promote PROVE FALSE
  <2>1. PICK k : k = queue[actor.scan]
    BY Zenon
  <2>2. Lives(k) /\ jobs' = [jobs EXCEPT ![k].status = "cancelled"]
    BY <1>2, <1>16, <2>1, Zenon DEF Promote, Lives
  <2>3. k # j
    BY <1>1, <2>2, Zenon
  <2>. QED
    BY <1>4, <2>2, <2>3, Zenon
<1>. QED
  BY <1>2, <1>5, <1>6, <1>7, <1>8, <1>9, <1>10, <1>11, <1>12, <1>14, <1>15, <1>16, WhoWrites, Zenon

(* A job that has ended stays so until it is deleted (enqueue, promote_queued,
   recovery): no late command, completion or recovery revives it. *)
THEOREM TerminalJobsStay == ASSUME NoRetries PROVE SupervisorSpec => TerminalStays
<1> DEFINE Stays == \A j \in Jobs :
                       Terminal(j) /\ jobs'[j].status # jobs[j].status
                           => jobs'[j] = Removed \/ ("retry" \in scenario.commands /\ actor.job = j)
<1>1. SupervisorInv /\ [SupervisorNext]_supervisorVars => [Stays]_supervisorVars
  BY EndedStays, Zenon
<1>. QED
  BY <1>1, SupervisorInvariant, PTL DEF SupervisorSpec, TerminalStays

(* The engine is never started for a job the user has cancelled (enqueue,
   promote_queued, classify), through crashes and recoveries. *)
THEOREM CancelledIsNotLaunched == ASSUME NoRetries PROVE SupervisorSpec => NoLaunchAfterCancel
<1> DEFINE Stays == \A j \in Jobs : active[j] = 0 /\ active'[j] # 0 => jobs[j].desired # "cancelled"
<1>1. ASSUME SupervisorInv, SupervisorNext, NEW j \in Jobs, active[j] = 0, active'[j] # 0
      PROVE  jobs[j].desired # "cancelled"
  <2>1. ~UNCHANGED active /\ Typed
    BY <1>1, Zenon DEF SupervisorInv
  <2>2. ~Start /\ ~BeginRecovery /\ ~Serve /\ ~BeginAttempt /\ ~MarkActive /\ ~LaunchFails /\ ~MarkStatus /\ ~Promote
        /\ ~Shutdown
    BY <2>1, Zenon DEF Start, BeginRecovery, Serve, BeginAttempt, MarkActive, LaunchFails, MarkStatus, Promote, Shutdown, memory
  <2>3. ASSUME NEW k PROVE ~Classify(k) /\ ~RemoveHistory(k) /\ ~CreateJob(k) /\ ~DeleteCheck(k)
    BY <2>1, Zenon DEF Classify, RemoveHistory, CreateJob, DeleteCheck, memory
  <2>4. ASSUME NEW k PROVE ~Pause(k) /\ ~Resume(k) /\ ~Cancel(k) /\ ~Retry(k)
    BY <2>1, Zenon DEF Pause, Resume, Cancel, Retry, memory
  <2>5. ASSUME NEW k, NEW p PROVE ~Enqueue(k, p) /\ ~RunEnds(k, p) /\ ~UpdateLimits(k)
    BY <2>1, Zenon DEF Enqueue, RunEnds, UpdateLimits, memory
  <2>6. ~Stop
    BY <1>1, Zenon DEF Stop
  <2>7. ASSUME NEW i \in DOMAIN runs PROVE ~Finalize(i)
    BY <1>1, <2>1, Zenon DEF Finalize, Typed
  <2>8. Launch
    BY <1>1, <2>2, <2>3, <2>4, <2>5, <2>6, <2>7, NextIsOne, Zenon
  <2>9. actor.at = "spawn" /\ actor.job = j
    BY <1>1, <2>1, <2>8, Zenon DEF Launch, Typed
  <2>10. Launches(j) /\ JobOK(j)
    BY <1>1, <2>9, Zenon DEF Launches, SupervisorInv
  <2>. QED
    BY <2>10, Zenon DEF JobOK
<1>2. SupervisorInv /\ [SupervisorNext]_supervisorVars => [Stays]_supervisorVars
  BY <1>1, Zenon
<1>. QED
  BY <1>2, SupervisorInvariant, PTL DEF SupervisorSpec, NoLaunchAfterCancel
=============================================================================
