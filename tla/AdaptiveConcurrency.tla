------------------------- MODULE AdaptiveConcurrency -------------------------
(***************************************************************************)
(* Adaptive range concurrency: AdaptiveController, crates/engine/src/      *)
(* control/adaptive.rs, and the task that runs it for a segmented job,     *)
(* adaptive_controller_loop in job/segmented.rs, beside the operator's     *)
(* set_concurrency.                                                        *)
(*                                                                         *)
(* A window is its goodput and wasted bytes, small integers, and which of  *)
(* the ceilings it passes.  The material gain band of 5% is kept.  The     *)
(* cooldown is counted in windows, of which a slow one may use up several. *)
(***************************************************************************)
EXTENDS Integers

CONSTANTS
    MinWorkers, MaxWorkers,     \* the job's configured bounds
    ConnectionCap,              \* connections allowed to the origin, HTTP/1
    Goodputs,                   \* useful goodput of a window
    CooldownWindows,            \* cooldown / window
    SustainedWindows,           \* sustained_pressure_windows
    OpeningCap                  \* OPENING_WINDOW_CAP

ASSUME AdaptiveAssumption ==
    /\ MinWorkers \in Nat \ {0} /\ MaxWorkers \in Nat /\ MinWorkers <= MaxWorkers
    /\ ConnectionCap \in Nat \ {0} /\ Goodputs \subseteq Nat /\ CooldownWindows \in Nat
    /\ SustainedWindows \in Nat \ {0} /\ OpeningCap \in Nat

VARIABLES
    h2,             \* protocol_is_h2
    desired,        \* desired_workers
    manual,         \* manual_override of the job
    operator,       \* the operator's call under way, and the count of the last one
    loop,           \* the controller task: its step and the level it has decided on
    best, smoothed, \* best_goodput and smoothed_goodput, Unknown at first
    anchored, openings,     \* reference_anchored, baseline_windows
    preProbe,       \* pre_probe_level, 0 for none
    cooldown,       \* windows left of the cooldown
    pressured       \* pressure_windows, counted up to the threshold

adaptiveVars == <<h2, desired, manual, operator, loop, best, smoothed, anchored, openings,
                  preProbe, cooldown, pressured>>
controllerVars == <<best, smoothed, anchored, openings, preProbe, cooldown, pressured>>

Unknown == -1
Most(a, b) == IF a >= b THEN a ELSE b
Least(a, b) == IF a <= b THEN a ELSE b
Clamp(n, low, high) == Most(low, Least(n, high))

(* Growth stops at the connection allowance unless workers are streams. *)
EffectiveMax == IF h2 THEN MaxWorkers ELSE Least(MaxWorkers, ConnectionCap)
Top == Most(EffectiveMax, MinWorkers)

(* The task is spawned for a job whose concurrency is adaptive. *)
AdaptiveInit ==
    /\ h2 \in BOOLEAN
    /\ desired = MinWorkers /\ manual = FALSE
    /\ operator = [step |-> "none", count |-> 0]
    /\ \E first \in {"sample", "ended"} : loop = [step |-> first, level |-> 0]
    /\ best = Unknown /\ smoothed = Unknown /\ anchored = FALSE /\ openings = 0
    /\ preProbe = 0 /\ cooldown = 0 /\ pressured = 0

-----------------------------------------------------------------------------
(* decide *)
Smooth(goodput) == IF smoothed = Unknown THEN goodput ELSE (smoothed + goodput) \div 2
(* Within the band of the previous value: the reference has converged. *)
Converged(s) ==
    /\ smoothed # Unknown
    /\ LET change == IF s >= smoothed THEN s - smoothed ELSE smoothed - s
       IN  IF smoothed = 0 THEN s = 0 ELSE 20 * change < smoothed
Anchors(s) == anchored \/ Converged(s) \/ openings >= OpeningCap
MaterialGain(s, reference) == IF reference = 0 THEN s > 0 ELSE 20 * (s - reference) >= reference

(* What a window shows: under_pressure, storage_pressure, resource_pressure. *)
Windows == [completed : Goodputs, wasted : Goodputs, overTolerance : BOOLEAN,
            storage : BOOLEAN, resource : BOOLEAN]
Pressure(w) ==
    IF w.overTolerance \/ (w.wasted > 0 /\ w.wasted >= w.completed /\ w.completed > 0) THEN "retry"
    ELSE IF w.storage THEN "storage"
    ELSE IF w.resource THEN "resource" ELSE "none"

(* The level that a decision leads to: apply.  It is stored only if it differs. *)
Up(current) == Clamp(current + 1, MinWorkers, Top)
Down(current) == Clamp(Most(current - 1, 0), MinWorkers, Top)
Decide(level) ==
    loop' = IF level = desired THEN [step |-> "sample", level |-> 0]
            ELSE [step |-> "apply", level |-> level]

(* Pressure never probes.  A probe under way is reverted; retries and throttling
   reduce at once, storage and resources after several windows. *)
UnderPressure(kind, s, current) ==
    /\ pressured' = IF kind = "retry" THEN SustainedWindows
                  ELSE Least(pressured + 1, SustainedWindows)
    /\ cooldown' = CooldownWindows /\ preProbe' = 0
    /\ Decide(IF preProbe # 0
              THEN IF preProbe < current THEN Down(current) ELSE current
              ELSE IF pressured' >= SustainedWindows /\ current > MinWorkers
              THEN Down(current) ELSE current)
    /\ s \in Nat /\ UNCHANGED <<best, openings>>

(* Only steady windows raise the reference. *)
Ratchet(s) == IF preProbe = 0 THEN Most(best, s) ELSE best

(* A probe under way is kept for a material gain over the reference and goes on,
   or is reverted. *)
JudgeProbe(s, current, reference) ==
    /\ cooldown' = CooldownWindows
    /\ IF MaterialGain(s, reference)
       THEN /\ best' = s
            /\ IF current < Top THEN preProbe' = current /\ Decide(Up(current))
               ELSE preProbe' = 0 /\ Decide(current)
       ELSE /\ best' = reference /\ preProbe' = 0
            /\ Decide(IF current > MinWorkers THEN Down(current) ELSE current)

StartProbe(current, reference, left) ==
    /\ best' = reference
    /\ IF current < Top
       THEN preProbe' = current /\ cooldown' = CooldownWindows /\ Decide(Up(current))
       ELSE preProbe' = 0 /\ cooldown' = left /\ Decide(current)

Steady(s, current, left) ==
    /\ pressured' = 0
    /\ \/ /\ left > 0
          /\ best' = Ratchet(s) /\ Decide(current)
          /\ cooldown' = left /\ UNCHANGED <<preProbe, openings>>
       \/ /\ left = 0 /\ ~Anchors(s)
          /\ openings' = openings + 1
          /\ best' = Ratchet(s) /\ Decide(current)
          /\ cooldown' = left /\ UNCHANGED preProbe
       \/ /\ left = 0 /\ Anchors(s)
          /\ IF preProbe # 0 THEN JudgeProbe(s, current, Ratchet(s))
             ELSE StartProbe(current, Ratchet(s), left)
          /\ UNCHANGED openings

-----------------------------------------------------------------------------
(* adaptive_controller_loop.  A sub-interval passes: the task looks at its stop
   conditions first. *)
Sample ==
    /\ loop.step = "sample"
    /\ loop' = [step |-> IF manual THEN "ended" ELSE "decide", level |-> 0]
    /\ UNCHANGED <<h2, desired, manual, operator, controllerVars>>

(* An empty window decides nothing. *)
EmptyWindow ==
    /\ loop.step = "decide"
    /\ \E passed \in 1 .. CooldownWindows : cooldown' = Most(cooldown - passed, 0)
    /\ loop' = [step |-> "sample", level |-> 0]
    /\ UNCHANGED <<h2, desired, manual, operator, best, smoothed, anchored, openings, preProbe, pressured>>

(* A window ends: the sample is folded, the current count read, and decided. *)
DecideWindow(w, passed) ==
    /\ loop.step = "decide"
    /\ LET s == Smooth(w.completed)
           kind == Pressure(w) IN
          /\ smoothed' = s /\ anchored' = Anchors(s)
          /\ IF kind = "none" THEN Steady(s, desired, Most(cooldown - passed, 0))
             ELSE UnderPressure(kind, s, desired)
    /\ UNCHANGED <<h2, desired, manual, operator>>

(* adjust_desired_workers. *)
Apply ==
    /\ loop.step = "apply"
    /\ desired' = Clamp(loop.level, MinWorkers, MaxWorkers)
    /\ loop' = [step |-> "sample", level |-> 0]
    /\ UNCHANGED <<h2, manual, operator, controllerVars>>

(* The job shuts down: its signal wakes the task. *)
Stop ==
    /\ loop.step = "sample" /\ loop' = [step |-> "ended", level |-> 0]
    /\ UNCHANGED <<h2, desired, manual, operator, controllerVars>>

(* set_desired_workers: the count, then the mark. *)
SetDesired(n) ==
    /\ operator.step = "none"
    /\ desired' = Clamp(n, MinWorkers, MaxWorkers)
    /\ operator' = [step |-> "mark", count |-> desired']
    /\ UNCHANGED <<h2, manual, loop, controllerVars>>
MarkManual ==
    /\ operator.step = "mark" /\ manual' = TRUE
    /\ operator' = [operator EXCEPT !.step = "none"]
    /\ UNCHANGED <<h2, desired, loop, controllerVars>>

SettlingWindow ==
    \E w \in Windows, passed \in 1 .. CooldownWindows : DecideWindow(w, passed)
AdaptiveNext ==
    \/ Sample \/ EmptyWindow \/ SettlingWindow \/ Apply \/ Stop \/ MarkManual
    \/ \E n \in 0 .. MaxWorkers + 1 : SetDesired(n)

-----------------------------------------------------------------------------

=============================================================================
