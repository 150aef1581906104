----------------------------- MODULE MCScheduler -----------------------------
(* A small instance of Scheduler for TLC: the three lease-sizing selectors. *)
EXTENDS Scheduler

SomeTargets ==
    {[kind |-> "explicit", size |-> 2, workers |-> 0, oversub |-> 0],
     [kind |-> "automatic", size |-> 0, workers |-> 2, oversub |-> 1],
     [kind |-> "duration", size |-> 2, workers |-> 0, oversub |-> 0]}
=============================================================================
