-------------------------- MODULE MCWritePipeline --------------------------
(* Instances of the pipelined write path for TLC. *)
EXTENDS WritePipeline

MCSessions == 0 .. 1
MCTargets == {[kind |-> "explicit", size |-> 3, workers |-> 0, oversub |-> 0]}
MCChunks == {1, 2}

CONSTANTS t1, t2
Case(es, ws, ts) == [events |-> es, workers |-> ws, threads |-> ts]
(* One worker whose writes complete in any order, and every pair of events that
   meet; two workers that share a thread and split each other's tails. *)
OneWorker == {Case(e, {0}, {t1, t2}) : e \in
    {{"cancel", "pause"}, {"pause", "savefail"}, {"bodyfault", "writefail"}, {"bodyfatal"}}}
TwoWorkers == {Case({}, {0, 1}, {t1})}
MCScenarios == OneWorker \cup TwoWorkers
=============================================================================
