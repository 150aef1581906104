---------------------------- MODULE WriteBudget ----------------------------
(* The byte budgets of io/write_budget.rs: one pool of the engine and one of
   each job, acquired in that order.  A task has one reservation; it waits for
   bytes by registering with the pool before it looks at the counter. *)
EXTENDS Naturals, Sequences, FiniteSetsExt

CONSTANTS
    Tasks,
    BudgetJob,      \* function: the job of each task
    BudgetMax,      \* function: capacity of the "global" and of a "job" pool
    Quanta          \* the byte counts asked for

ASSUME BudgetAssumption ==
    /\ BudgetMax["global"] \in Nat /\ BudgetMax["job"] \in Nat
    /\ Quanta \subseteq Nat

VARIABLES
    used,           \* outstanding bytes of each pool
    task            \* what each task holds and does

budgetVars == <<used, task>>

Global == <<"global", 0>>
JobPool(t) == <<"job", BudgetJob[t]>>
BudgetPools == {Global} \cup {JobPool(t) : t \in Tasks}
Left(p) == BudgetMax[p[1]] - used[p]

(* kept: bytes of the reservation; asks: bytes being acquired, first from the
   global pool, then (rolls: the rollback guard is armed) from the job's. *)
Resting == [pc |-> "rest", kept |-> 0, asks |-> 0, rolls |-> FALSE, told |-> FALSE, frees |-> <<>>]

BudgetInit ==
    /\ used = [p \in BudgetPools |-> 0]
    /\ task = [t \in Tasks |-> Resting]

Wants(t) == IF task[t].rolls THEN JobPool(t) ELSE Global

(* reserve when nothing is held, grow otherwise *)
Ask(t, n) ==
    /\ task[t].pc = "rest"
    /\ task[t].kept + n <= BudgetMax["job"]
    /\ task' = [task EXCEPT ![t].pc = "enable", ![t].asks = n]
    /\ UNCHANGED used

(* acquire: notified.enable(), then try_acquire, then the wait *)
Enable(t) ==
    /\ task[t].pc = "enable"
    /\ task' = [task EXCEPT ![t].pc = "try", ![t].told = FALSE]
    /\ UNCHANGED used

Acquired(t) ==
    IF task[t].rolls
    THEN [Resting EXCEPT !.kept = task[t].kept + task[t].asks]
    ELSE [task[t] EXCEPT !.rolls = TRUE, !.pc = "enable"]

Admits(t) == task[t].asks <= Left(Wants(t))

TryAcquire(t) ==
    /\ task[t].pc = "try"
    /\ IF Admits(t)
       THEN /\ used' = [used EXCEPT ![Wants(t)] = @ + task[t].asks]
            /\ task' = [task EXCEPT ![t] = Acquired(t)]
       ELSE task' = [task EXCEPT ![t].pc = "refused"] /\ UNCHANGED used

Await(t) ==
    /\ task[t].pc = "refused"
    /\ task' = [task EXCEPT ![t].pc = "wait"]
    /\ UNCHANGED used

Notified(t) ==
    /\ task[t].pc = "wait" /\ task[t].told
    /\ task' = [task EXCEPT ![t].pc = "enable"]
    /\ UNCHANGED used

(* The waiting future is dropped: the guard gives the global bytes back. *)
Forsake(t) ==
    /\ task[t].pc = "wait"
    /\ task' = [task EXCEPT ![t] = [Resting EXCEPT !.kept = task[t].kept,
                    !.pc = IF task[t].rolls THEN "free" ELSE "rest",
                    !.frees = IF task[t].rolls THEN <<<<Global, task[t].asks>>>> ELSE <<>>]]
    /\ UNCHANGED used

(* reconcile to a smaller frame, or the reservation's drop *)
Reconcile(t, n) ==
    /\ task[t].pc = "rest" /\ n < task[t].kept
    /\ task' = [task EXCEPT ![t].pc = "free", ![t].kept = n,
                    ![t].frees = <<<<Global, task[t].kept - n>>, <<JobPool(t), task[t].kept - n>>>>]
    /\ UNCHANGED used

Freed(t) == Head(task[t].frees)[1]

(* release: the counter goes down ... *)
FreeBytes(t) ==
    /\ task[t].pc = "free"
    /\ used' = [used EXCEPT ![Freed(t)] = @ - Head(task[t].frees)[2]]
    /\ task' = [task EXCEPT ![t].pc = "notify"]

(* Mutant: only the tasks that already wait are told. *)
TellWaiting(t, u) == task[u].pc = "wait" /\ Wants(u) = Freed(t)

Told(t, u) == task[u].pc \in {"try", "refused", "wait"} /\ Wants(u) = Freed(t)

(* ... and every registered task is told. *)
NotifyWaiters(t) ==
    /\ task[t].pc = "notify"
    /\ task' = [u \in Tasks |->
          IF u = t
          THEN [task[t] EXCEPT !.frees = Tail(@), !.pc = IF Len(task[t].frees) > 1 THEN "free" ELSE "rest"]
          ELSE [task[u] EXCEPT !.told = @ \/ Told(t, u)]]
    /\ UNCHANGED used

BudgetNext ==
    \E t \in Tasks :
        \/ \E n \in Quanta : Ask(t, n)
        \/ Enable(t) \/ TryAcquire(t) \/ Await(t) \/ Notified(t) \/ Forsake(t)
        \/ \E n \in Quanta \cup {0} : Reconcile(t, n)
        \/ FreeBytes(t) \/ NotifyWaiters(t)

BudgetSpec == BudgetInit /\ [][BudgetNext]_budgetVars

---------------------------------------------------------------------------

(* "A concurrent release can never be slept through": a task that waits without
   having been told could not be admitted, or the task that made room is just
   about to tell it. *)
NoMissedRelease ==
    \A t \in Tasks :
        task[t].pc = "wait" /\ ~task[t].told =>
            \/ task[t].asks > Left(Wants(t))
            \/ \E u \in Tasks : task[u].pc = "notify" /\ Freed(u) = Wants(t)
=============================================================================
