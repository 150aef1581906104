---------------------------- MODULE MCSupervisor ----------------------------
(***************************************************************************)
(* Two jobs.  Retries are requested with a slot for every job, so that a   *)
(* retry never waits in the queue (see README.md for one that waits).      *)
(***************************************************************************)
EXTENDS Supervisor

CrashScenario ==
    [slots |-> 1, starts |-> 3, retries |-> 0, commands |-> {"cancel", "limits", "shutdown"}]
PauseScenario == [slots |-> 1, starts |-> 2, retries |-> 0, commands |-> {"pause", "cancel"}]
RetryScenario == [slots |-> 2, starts |-> 1, retries |-> 2, commands |-> {"retry", "delete"}]

MCScenarios == {CrashScenario, PauseScenario, RetryScenario}
=============================================================================
