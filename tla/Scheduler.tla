----------------------------- MODULE Scheduler -----------------------------
(***************************************************************************)
(* The byte-range scheduling core of a segmented download,                 *)
(* crates/engine/src/scheduler/core.rs (SegmentScheduler).                 *)
(*                                                                         *)
(* The target [0, TotalSize) is cut into leases that workers transfer.     *)
(* `pending` and `completed` are IntervalSets in the code; here they are   *)
(* the sets of bytes they cover (module IntervalSet checks that the        *)
(* interval representation computes exactly these sets).  A lease covers   *)
(* start..end, both inclusive, and its bytes start..next-1 are             *)
(* acknowledged.  Every public operation of SegmentScheduler that changes  *)
(* state is one action; its parameters are the operation's arguments, so   *)
(* callers with a stale lease id or a stale generation are steps as well.  *)
(***************************************************************************)
EXTENDS Integers, FiniteSets

CONSTANTS
    TotalSize,      \* length of the target in bytes
    MinSegment,     \* policy.min_segment_size
    MaxSegment,     \* policy.max_segment_size
    Targets,        \* the values policy.target may have
    SplitThreshold, \* policy.split_threshold
    Divisors,       \* values policy.ready_work_divisor may be given
    MaxLeases,      \* bound: how many leases a behaviour may hand out
    MaxGeneration   \* bound: the last resource generation

TargetSelector ==
    [kind : {"none", "explicit", "automatic", "duration"},
     size : Nat,        \* Explicit(size), Duration{seed_size}
     workers : Nat,     \* Automatic{initial_workers}
     oversub : Nat]     \* Automatic{oversubscription}

ASSUME SizeAssumption == TotalSize \in Nat
ASSUME PolicyAssumption ==
    /\ MinSegment \in Nat \ {0}
    /\ MaxSegment \in Nat /\ MaxSegment >= MinSegment
    /\ Targets \subseteq TargetSelector
    /\ SplitThreshold \in Nat
    /\ Divisors \subseteq Nat /\ 0 \in Divisors
ASSUME BoundAssumption == MaxLeases \in Nat /\ MaxGeneration \in Nat \ {0}

VARIABLES
    pending,    \* bytes owned by no lease and not completed
    completed,  \* bytes of settled leases
    active,     \* function: id of a live lease |-> the lease
    nextLease,  \* id of the next lease
    generation, \* current resource generation
    divisor,    \* policy.ready_work_divisor
    target,     \* policy.target: a TargetSelector, fixed at initialization
    resolved,   \* resolved_target; 0 stands for None
    sampler     \* duration_target: samples folded so far, last allocation

schedVars == <<pending, completed, active, nextLease, generation, divisor,
          target, resolved, sampler>>

Bytes == 0 .. TotalSize - 1

Lease == [generation : 1 .. MaxGeneration, start : Nat, end : Nat, next : Nat]

(* DURATION_STABLE_SAMPLES: samples beyond it change nothing more. *)
StableSamples == 3

-----------------------------------------------------------------------------
(* Arithmetic of the lease sizes. *)

Min2(a, b) == IF a <= b THEN a ELSE b
Max2(a, b) == IF a >= b THEN a ELSE b
SatSub(a, b) == IF a >= b THEN a - b ELSE 0
Clamp(x, lo, hi) == Max2(lo, Min2(x, hi))
DivCeil(a, b) == (a + b - 1) \div b

MinInGap(gap) == Max2(Min2(MinSegment, gap), 1)

(* SchedulerPolicy::resolve_target; computed once, from the initial rest. *)
ResolveTarget(pendingBytes) ==
    LET raw == CASE target.kind = "automatic" ->
                      DivCeil(Max2(pendingBytes, 1),
                              Max2(target.workers, 1) * Max2(target.oversub, 1))
                 [] OTHER -> target.size
    IN  IF target.kind = "none" THEN 0 ELSE Clamp(raw, MinSegment, MaxSegment)

(* Mutant: the reserve counts one ready segment too few. *)
ReadyWorkCapShort(want, gap, d) ==
    LET reserve == SatSub(d, 2) * MinInGap(gap)
    IN  IF d = 0 \/ gap <= reserve
        THEN want
        ELSE Min2(want, Max2(gap - reserve, MinInGap(gap)))

(* SchedulerPolicy::apply_ready_work_cap with divisor d. *)
ReadyWorkCap(want, gap, d) ==
    LET reserve == SatSub(d, 1) * MinInGap(gap)
    IN  IF d = 0 \/ gap <= reserve
        THEN want
        ELSE Min2(want, Max2(gap - reserve, MinInGap(gap)))

(* SchedulerPolicy::target_len before its own cap. *)
TargetLen(gap) ==
    LET raw == IF resolved = 0 THEN MaxSegment ELSE resolved
        low == Min2(MinSegment, gap)
    IN  Max2(Min2(Clamp(raw, low, MaxSegment), gap), low)

(* DurationTarget::next_size: the goodput estimate depends on the clock, so *)
(* once it is stable any size within a factor two of the last one may come. *)
DurationSizes(gap) ==
    LET low == Min2(MinSegment, gap)
        stepped == Max2(sampler.last \div 2, 1) .. 2 * sampler.last
    IN  IF sampler.samples < StableSamples
        THEN {Max2(Min2(Clamp(target.size, low, MaxSegment), gap), 1)}
        ELSE {Max2(Min2(Clamp(x, low, MaxSegment), gap), MinInGap(gap)) : x \in stepped}

(* target_len_for_gap: the sizes the next carve from a gap may have.  The *)
(* ready-work cap is applied twice on the policy path.                    *)
CarveSizes(gap) ==
    IF target.kind = "duration"
    THEN {ReadyWorkCap(w, gap, divisor) : w \in DurationSizes(gap)}
    ELSE {ReadyWorkCap(ReadyWorkCap(TargetLen(gap), gap, divisor), gap, divisor)}

-----------------------------------------------------------------------------
(* Leases. *)

UnfinishedAfterFrontier(l) == l.next + 1 .. l.end

Span(l) == l.start .. l.end
Acked(l) == l.start .. l.next - 1       \* acknowledged bytes
Unfinished(l) == l.next .. l.end
Remaining(l) == IF l.next > l.end THEN 0 ELSE l.end - l.next + 1

NoLeases == [i \in {} |-> 0]

Live(id, gen) == id \in DOMAIN active /\ active[id].generation = gen

Without(id) == [i \in DOMAIN active \ {id} |-> active[i]]
With(id, l) == [i \in DOMAIN active \cup {id} |-> IF i = id THEN l ELSE active[i]]

AdvanceBackwards(l, through) ==
    [l EXCEPT !.next = Max2(l.start, Min2(through, l.end + 1))]

(* report_progress on one lease: forward only, clamped to the live end. *)
Advance(l, through) ==
    IF through <= l.next THEN l
    ELSE [l EXCEPT !.next = Min2(through, l.end + 1)]

NewLease(s, e) == [generation |-> generation, start |-> s, end |-> e, next |-> s]

(* observe_duration_sample: a sample counts unless it is degenerate (no  *)
(* bytes, or held for less than a millisecond of the clock).             *)
Observe(settled) ==
    IF target.kind # "duration" THEN UNCHANGED sampler
    ELSE \E n \in {sampler.samples, Min2(sampler.samples + 1, StableSamples)} :
            /\ settled = 0 => n = sampler.samples
            /\ sampler' = [samples |-> n, last |-> Max2(settled, 1)]

-----------------------------------------------------------------------------
(* initialize: `done` are the ranges a checkpoint restored, clamped to the *)
(* domain.                                                                 *)
InitWith(done) ==
    /\ completed = done \cap Bytes
    /\ pending = Bytes \ done
    /\ active = NoLeases
    /\ nextLease = 1
    /\ generation = 1
    /\ divisor \in Divisors
    /\ target \in Targets
    /\ resolved = ResolveTarget(Cardinality(Bytes \ done))
    /\ sampler = [samples |-> 0, last |-> target.size]

SchedulerInit == \E done \in SUBSET Bytes : InitWith(done)

(* acquire: carve the front of the first pending gap s..e. *)
Acquire ==
    /\ nextLease <= MaxLeases
    /\ \E s, e \in pending :
          /\ \A b \in pending : s <= b
          /\ s .. e \subseteq pending /\ e + 1 \notin pending
          /\ \E want \in CarveSizes(e - s + 1) :
                LET end == Min2(s + want - 1, e)
                IN  /\ pending' = pending \ (s .. end)
                    /\ active' = With(nextLease, NewLease(s, end))
    /\ nextLease' = nextLease + 1
    /\ UNCHANGED <<completed, generation, divisor, target, resolved, sampler>>

(* report_progress. *)
ReportProgress(id, gen, through) ==
    /\ Live(id, gen)
    /\ active' = With(id, Advance(active[id], through))
    /\ UNCHANGED <<pending, completed, nextLease, generation, divisor, target, resolved, sampler>>

(* absorb_worker_progress: fold the workers' published records
   [lease, generation, written], one per cell; cells of unknown leases or
   stale generations are skipped. *)
AbsorbWorkerProgress(records) ==
    /\ active' = [i \in DOMAIN active |->
                    LET mine == {r \in records : r.lease = i
                                    /\ r.generation = active[i].generation}
                    IN  IF mine = {} THEN active[i]
                        ELSE Advance(active[i],
                               (CHOOSE r \in mine : \A q \in mine : q.written <= r.written).written)]
    /\ UNCHANGED <<pending, completed, nextLease, generation, divisor, target, resolved, sampler>>

(* complete: the whole lease settles, whatever its frontier. *)
Complete(id, gen) ==
    /\ Live(id, gen)
    /\ active' = Without(id)
    /\ completed' = completed \cup Span(active[id])
    /\ Observe(active[id].end - active[id].start + 1)
    /\ UNCHANGED <<pending, nextLease, generation, divisor, target, resolved>>

GiveBack(id) ==
    /\ active' = Without(id)
    /\ pending' = pending \cup Unfinished(active[id])
    /\ completed' = completed \cup Acked(active[id])

(* fail: requeue the unfinished tail, keep the acknowledged prefix. *)
Fail(id, gen) ==
    /\ Live(id, gen)
    /\ GiveBack(id)
    /\ Observe(active[id].next - active[id].start)
    /\ UNCHANGED <<nextLease, generation, divisor, target, resolved>>

(* release: the same without a duration sample. *)
Release(id, gen) ==
    /\ Live(id, gen)
    /\ GiveBack(id)
    /\ UNCHANGED <<nextLease, generation, divisor, target, resolved, sampler>>

(* split_tail: hand half of the tail above the receipt watermark to a new
   lease, whose id is nextLease.  Nothing happens unless the tail is longer
   than minTail. *)
TailLen(l, received) == SatSub(l.end, Max2(l.next, received)) + 1

SplitTail(id, gen, minTail, received) ==
    /\ nextLease <= MaxLeases
    /\ Live(id, gen)
    /\ LET l == active[id]
           tailLen == TailLen(l, received)
           take == Clamp(tailLen \div 2, 1, tailLen - 1)
           newStart == l.end - take + 1
       IN  /\ tailLen > Max2(minTail, 1)
           /\ active' = [i \in DOMAIN active \cup {nextLease} |->
                            IF i = nextLease THEN NewLease(newStart, l.end)
                            ELSE IF i = id THEN [l EXCEPT !.end = newStart - 1]
                            ELSE active[i]]
           /\ sampler' = IF target.kind = "duration"
                         THEN [sampler EXCEPT !.last = newStart - l.start]
                         ELSE sampler
    /\ nextLease' = nextLease + 1
    /\ UNCHANGED <<pending, completed, generation, divisor, target, resolved>>

(* bump_generation: every live lease is invalidated. *)
BumpGeneration ==
    /\ generation < MaxGeneration
    /\ generation' = generation + 1
    /\ active' = NoLeases
    /\ pending' = pending \cup UNION {Unfinished(active[i]) : i \in DOMAIN active}
    /\ completed' = completed \cup UNION {Acked(active[i]) : i \in DOMAIN active}
    /\ UNCHANGED <<nextLease, divisor, target, resolved, sampler>>

SetReadyWorkDivisor(d) ==
    /\ divisor' = d
    /\ UNCHANGED <<pending, completed, active, nextLease, generation, target, resolved, sampler>>

-----------------------------------------------------------------------------
(* Queries. *)

IsFinished == pending = {} /\ active = NoLeases
IsComplete == completed = Bytes
HasActive == active # NoLeases

(* largest_splittable: ties are broken by the hash map's iteration order. *)
LargestSplittable(minTail) ==
    {i \in DOMAIN active :
        /\ Remaining(active[i]) > Max2(minTail, 1)
        /\ \A j \in DOMAIN active : Remaining(active[j]) <= Remaining(active[i])}

(* settled_ranges: completed bytes and the acknowledged prefixes. *)
Settled == completed \cup UNION {Acked(active[i]) : i \in DOMAIN active}

-----------------------------------------------------------------------------
(* The arguments a caller may pass.  Each live lease has at most one worker's
   cell; a record at offset 0 stands for a cell that has published nothing. *)
Ids == 1 .. MaxLeases
Offsets == 0 .. TotalSize + 1

SchedulerNext ==
    \/ Acquire
    \/ \E id \in Ids, gen \in 1 .. generation :
          \/ \E off \in Offsets : ReportProgress(id, gen, off)
          \/ Complete(id, gen)
          \/ Fail(id, gen)
          \/ Release(id, gen)
          \/ \E off \in Offsets : SplitTail(id, gen, SplitThreshold, off)
    \/ \E gen \in 1 .. generation, through \in [DOMAIN active -> Offsets] :
          AbsorbWorkerProgress({[lease |-> i, generation |-> gen, written |-> through[i]] :
                                   i \in DOMAIN active})
    \/ BumpGeneration
    \/ \E d \in Divisors : SetReadyWorkDivisor(d)

SchedulerSpec == SchedulerInit /\ [][SchedulerNext]_schedVars

-----------------------------------------------------------------------------
(* Properties. *)

(* Every variable has its type. *)
SchedulerTypeOK ==
    /\ pending \in SUBSET Bytes
    /\ completed \in SUBSET Bytes
    /\ DOMAIN active \in SUBSET (1 .. nextLease - 1)
    /\ \A i \in DOMAIN active : active[i] \in Lease
    /\ nextLease \in 1 .. MaxLeases + 1
    /\ generation \in 1 .. MaxGeneration
    /\ divisor \in Divisors
    /\ target \in TargetSelector
    /\ resolved \in Nat
    /\ sampler \in [samples : 0 .. StableSamples, last : Nat]

(* Every live lease is non-empty, lies in the domain, belongs to the current
   generation, and its frontier stays between its start and the byte after
   its (possibly split-shrunk) end. *)
LeaseShape ==
    \A i \in DOMAIN active :
        LET l == active[i]
        IN  /\ l.generation = generation
            /\ l.start <= l.end /\ l.end < TotalSize
            /\ l.start <= l.next /\ l.next <= l.end + 1

(* No byte has two owners. *)
NoOverlap ==
    /\ pending \cap completed = {}
    /\ \A i \in DOMAIN active :
          /\ Span(active[i]) \cap (pending \cup completed) = {}
          /\ \A j \in DOMAIN active \ {i} : Span(active[i]) \cap Span(active[j]) = {}

(* No byte is lost: pending, completed and leased bytes are the whole target
   after any sequence of carves, splits, failures and rollovers. *)
Coverage ==
    \A b \in Bytes :
        b \in pending \/ b \in completed \/ \E i \in DOMAIN active : b \in Span(active[i])

(* invariants_hold: every byte of the target has exactly one owner. *)
InvariantsHold == NoOverlap /\ Coverage

(* The inductive invariant: the accounting, and the shape of the leases it rests
   on. *)
SchedInv == SchedulerTypeOK /\ LeaseShape /\ NoOverlap /\ Coverage

(* settled_ranges only grows: a byte once acknowledged for a lease is never
   requeued, whether the lease then fails, is released, is split or loses its
   generation; checkpoints taken from it are never contradicted later. *)
SettledGrows == [][Settled \subseteq Settled']_schedVars

(* The ready-work cap: while the first gap holds at least divisor minimum
   segments, acquire leaves divisor - 1 of them unclaimed in it. *)
CarveLeavesReadyWork ==
    [][\A s, e \in pending :
         /\ divisor > 0 /\ Acquire
         /\ \A b \in pending : s <= b
         /\ s .. e \subseteq pending /\ e + 1 \notin pending
         /\ e - s + 1 >= divisor * MinSegment
         => Cardinality((s .. e) \cap pending') >= (divisor - 1) * MinSegment]_schedVars

(* Whatever the selector, the ready-work divisor and the goodput samples so
   far, the next carve from a gap of any length respects the policy: at least
   the minimum segment or the whole gap, never more than the maximum. *)
CarveWithinPolicy ==
    \A gap \in 1 .. TotalSize :
        CarveSizes(gap) \subseteq Min2(MinSegment, gap) .. Min2(MaxSegment, gap)
============================================================================
