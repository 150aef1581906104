--------------------------- MODULE SchedulerProofs ---------------------------
(* Proofs about Scheduler, for every size, policy and bound.

   The inductive invariant SchedInv adds to the code's accounting invariant the
   types and the shape of the leases (non-empty, frontier within one past the
   end): without them it does not survive splits and give-backs. *)
EXTENDS Scheduler, FiniteSetTheorems, TLAPS


(* The size of a carve: between the smallest segment (or the whole gap) and *)
(* the largest one, whatever selector, duration samples and ready-work      *)
(* divisor produced it.                                                     *)
LEMMA CarveBounded ==
    ASSUME SchedulerTypeOK, NEW gap \in Nat \ {0}
    PROVE  CarveSizes(gap) \subseteq Min2(MinSegment, gap) .. Min2(MaxSegment, gap)
<1> USE PolicyAssumption
<1> DEFINE low == Min2(MinSegment, gap)
           high == Min2(MaxSegment, gap)
<1>1. /\ MinInGap(gap) = low
      /\ low \in Nat /\ high \in Nat /\ 1 <= low /\ low <= high
      /\ low <= gap /\ high <= gap /\ high <= MaxSegment /\ low <= MaxSegment
      /\ \A n \in Nat : n <= MaxSegment /\ n <= gap => n <= high
  BY DEF MinInGap, Min2, Max2
<1> HIDE DEF low, high
<1>2. ASSUME NEW w \in low .. high, NEW d \in Nat
      PROVE  ReadyWorkCap(w, gap, d) \in low .. high
  <2> DEFINE reserve == SatSub(d, 1) * MinInGap(gap)
  <2>1. reserve \in Nat
    BY <1>1 DEF SatSub
  <2> HIDE DEF reserve
  <2>2. ReadyWorkCap(w, gap, d) = IF d = 0 \/ gap <= reserve THEN w
                                  ELSE Min2(w, Max2(gap - reserve, low))
    BY <1>1, Zenon DEF ReadyWorkCap, reserve
  <2> QED BY <1>1, <1>2, <2>1, <2>2 DEF Min2, Max2
<1>3. \A x \in Nat : /\ Clamp(x, low, MaxSegment) \in Nat
                     /\ low <= Clamp(x, low, MaxSegment)
                     /\ Clamp(x, low, MaxSegment) <= MaxSegment
  BY <1>1 DEF Clamp, Min2, Max2
<1>4. \A x \in Nat : Max2(Min2(Clamp(x, low, MaxSegment), gap), low) \in low .. high
  BY <1>1, <1>3 DEF Min2, Max2
<1>5. TargetLen(gap) \in low .. high
  BY <1>4, Zenon DEF TargetLen, low, SchedulerTypeOK
<1>6. DurationSizes(gap) \subseteq low .. high
  <2>1. target.size \in Nat /\ sampler.last \in Nat
    BY Zenon DEF SchedulerTypeOK, TargetSelector
  <2>2. \A x \in Nat : Max2(Min2(Clamp(x, low, MaxSegment), gap), 1) \in low .. high
    BY <1>1, <1>3 DEF Min2, Max2
  <2>3. Max2(sampler.last \div 2, 1) .. 2 * sampler.last \subseteq Nat
    BY <2>1 DEF Max2
  <2> QED BY <1>1, <1>4, <2>1, <2>2, <2>3 DEF DurationSizes, low
<1>7. divisor \in Nat
  BY Zenon DEF SchedulerTypeOK
<1> QED BY <1>2, <1>5, <1>6, <1>7, Zenon DEF CarveSizes, low, high

(* apply_ready_work_cap: a gap of at least divisor smallest segments keeps
   divisor - 1 of them whatever size the selector wanted. *)
LEMMA CarveReserves ==
    ASSUME SchedulerTypeOK, NEW gap \in Nat, divisor > 0, gap >= divisor * MinSegment,
           NEW want \in CarveSizes(gap)
    PROVE  want \in Nat /\ 1 <= want /\ want <= gap - (divisor - 1) * MinSegment
<1> DEFINE reserve == (divisor - 1) * MinSegment
<1>1. divisor \in Nat /\ MinSegment \in Nat \ {0}
  BY PolicyAssumption, Zenon DEF SchedulerTypeOK
<1>2. reserve \in Nat /\ divisor * MinSegment = reserve + MinSegment
  <2>1. \A d, m \in Nat : d > 0 => (d - 1) * m \in Nat /\ d * m = (d - 1) * m + m
    OBVIOUS
  <2> QED BY <1>1, <2>1
<1> HIDE DEF reserve
<1>3. gap - reserve >= MinSegment /\ gap \in Nat \ {0}
  BY <1>1, <1>2
<1>4. MinInGap(gap) = MinSegment
  BY <1>1, <1>2, <1>3 DEF MinInGap, Min2, Max2
<1>5. SatSub(divisor, 1) * MinInGap(gap) = reserve
  BY <1>1, <1>4 DEF SatSub, reserve
<1>6. \A w : ReadyWorkCap(w, gap, divisor) = Min2(w, gap - reserve)
  <2> TAKE w
  <2>1. ReadyWorkCap(w, gap, divisor) = Min2(w, Max2(gap - reserve, MinSegment))
    BY <1>1, <1>2, <1>3, <1>4, <1>5 DEF ReadyWorkCap
  <2>2. Max2(gap - reserve, MinSegment) = gap - reserve
    BY <1>1, <1>2, <1>3, Zenon DEF Max2
  <2> QED BY <2>1, <2>2
<1>7. want \in Nat /\ 1 <= want
  BY <1>1, <1>3, CarveBounded, PolicyAssumption DEF Min2
<1>8. PICK w : want = ReadyWorkCap(w, gap, divisor)
  BY DEF CarveSizes
<1>9. want = Min2(w, gap - reserve)
  BY <1>6, <1>8, Zenon
<1>10. want <= gap - reserve
  BY <1>2, <1>7, <1>9 DEF Min2
<1> QED BY <1>7, <1>10, Zenon DEF reserve

(* The initial state satisfies the inductive invariant. *)
LEMMA SchedInitInv == SchedulerInit => SchedInv
<1> USE SizeAssumption, PolicyAssumption, BoundAssumption
<1> SUFFICES ASSUME NEW done \in SUBSET Bytes, InitWith(done) PROVE SchedInv
  BY Zenon DEF SchedulerInit
<1>0. target \in TargetSelector
  BY Zenon DEF InitWith
<1>1. resolved \in Nat
  <2>1. IsFiniteSet(Bytes \ done)
    <3>1. IsFiniteSet(Bytes)
      BY FS_Interval, 0 \in Int, TotalSize - 1 \in Int, Zenon DEF Bytes
    <3> QED BY <3>1, FS_Subset, Bytes \ done \in SUBSET Bytes, Zenon
  <2>2. Cardinality(Bytes \ done) \in Nat
    BY <2>1, FS_CardinalityType, Zenon
  <2> DEFINE n == Cardinality(Bytes \ done)
             den == Max2(target.workers, 1) * Max2(target.oversub, 1)
  <2>3. den \in Nat /\ den >= 1
    <3>1. Max2(target.workers, 1) \in Nat \ {0} /\ Max2(target.oversub, 1) \in Nat \ {0}
      BY <1>0 DEF TargetSelector, Max2
    <3>2. \A a, b \in Nat \ {0} : a * b \in Nat /\ a * b >= 1
      OBVIOUS
    <3> QED BY <3>1, <3>2
  <2>4. Max2(n, 1) \in Nat
    BY <2>2, Zenon DEF Max2
  <2> HIDE DEF den, n
  <2>5. DivCeil(Max2(n, 1), den) \in Nat
    BY <2>3, <2>4 DEF DivCeil
  <2>6. \A x \in Nat : Clamp(x, MinSegment, MaxSegment) \in Nat
    BY Zenon DEF Clamp, Min2, Max2
  <2>7. ResolveTarget(n) \in Nat
    BY <1>0, <2>5, <2>6, Zenon DEF ResolveTarget, den, TargetSelector
  <2> QED BY <2>7 DEF InitWith, n
<1>2. SchedulerTypeOK
  BY <1>0, <1>1 DEF InitWith, SchedulerTypeOK, NoLeases, TargetSelector, StableSamples
<1>3. LeaseShape /\ NoOverlap /\ Coverage
  BY Zenon DEF InitWith, LeaseShape, NoOverlap, Coverage, NoLeases
<1> QED BY <1>2, <1>3, Zenon DEF SchedInv
-----------------------------------------------------------------------------
(* Each operation preserves the invariant and never unsettles a byte. *)

(* acquire: the carved bytes leave pending and become the new lease. *)
LEMMA SchedAcquireInv ==
    ASSUME SchedInv, Acquire PROVE SchedInv' /\ Settled \subseteq Settled'
<1> USE SizeAssumption, PolicyAssumption, BoundAssumption DEF SchedInv
<1>1. PICK s \in pending, e \in pending :
        /\ \A b \in pending : s <= b
        /\ s .. e \subseteq pending /\ e + 1 \notin pending
        /\ \E want \in CarveSizes(e - s + 1) :
              LET end == Min2(s + want - 1, e)
              IN  /\ pending' = pending \ (s .. end)
                  /\ active' = With(nextLease, NewLease(s, end))
  BY Zenon DEF Acquire
<1>2. s \in Nat /\ e \in Nat /\ s <= e /\ e < TotalSize
  BY <1>1 DEF SchedulerTypeOK, Bytes
<1>3. PICK want \in CarveSizes(e - s + 1) :
        /\ pending' = pending \ (s .. Min2(s + want - 1, e))
        /\ active' = With(nextLease, NewLease(s, Min2(s + want - 1, e)))
  BY <1>1, Zenon
<1>4. want \in Nat /\ want >= 1
  BY <1>2, <1>3, CarveBounded DEF Min2
<1> DEFINE end == Min2(s + want - 1, e)
<1>5. end \in Nat /\ s <= end /\ end <= e
  BY <1>2, <1>4 DEF Min2
<1>6. pending' = pending \ (s .. end) /\ active' = With(nextLease, NewLease(s, end))
  BY <1>3, Zenon
<1> HIDE DEF end
<1>7. s .. end \subseteq pending
  BY <1>1, <1>2, <1>5
<1>8. /\ nextLease' = nextLease + 1 /\ nextLease <= MaxLeases
      /\ UNCHANGED <<completed, generation, divisor, target, resolved, sampler>>
  BY Zenon DEF Acquire
<1>9. /\ DOMAIN active' = DOMAIN active \cup {nextLease}
      /\ nextLease \notin DOMAIN active
      /\ active'[nextLease] = [generation |-> generation, start |-> s, end |-> end, next |-> s]
      /\ \A i \in DOMAIN active : active'[i] = active[i]
  BY <1>6 DEF With, NewLease, SchedulerTypeOK
<1>10. SchedulerTypeOK'
  <2>1. active'[nextLease] \in Lease
    BY <1>2, <1>5, <1>9 DEF SchedulerTypeOK, Lease
  <2>2. \A i \in DOMAIN active' : active'[i] \in Lease
    BY <1>9, <2>1 DEF SchedulerTypeOK
  <2>3. DOMAIN active' \subseteq 1 .. nextLease' - 1
    BY <1>8, <1>9 DEF SchedulerTypeOK
  <2>4. nextLease' \in 1 .. MaxLeases + 1
    BY <1>8 DEF SchedulerTypeOK
  <2>5. pending' \in SUBSET Bytes /\ completed' \in SUBSET Bytes
    BY <1>6, <1>8, Zenon DEF SchedulerTypeOK
  <2> QED BY <1>8, <2>2, <2>3, <2>4, <2>5, Zenon DEF SchedulerTypeOK, Bytes, Lease, StableSamples
<1>11. LeaseShape'
  BY <1>2, <1>5, <1>8, <1>9 DEF LeaseShape
<1>12. NoOverlap'
  <2>1. (pending \cap completed)' = {}
    BY <1>6, <1>8 DEF NoOverlap
  <2>2. Span(active'[nextLease]) = s .. end
    BY <1>9 DEF Span
  <2>3. \A i \in DOMAIN active : Span(active'[i]) = Span(active[i])
    BY <1>9, Zenon DEF Span
  <2>4. \A i \in DOMAIN active : Span(active[i]) \cap (s .. end) = {}
    BY <1>7 DEF NoOverlap
  <2>5. (s .. end) \cap (pending' \cup completed') = {}
    BY <1>6, <1>7, <1>8, Zenon DEF NoOverlap
  <2>6. pending' \subseteq pending /\ completed' = completed
    BY <1>6, <1>8, Zenon
  <2> QED BY <1>9, <2>1, <2>2, <2>3, <2>4, <2>5, <2>6 DEF NoOverlap
<1>13. Coverage'
  <2>1. ASSUME NEW b \in Bytes, b \notin pending', b \notin completed'
        PROVE \E i \in DOMAIN active' : b \in Span(active'[i])
    <3>1. CASE b \in s .. end
      BY <3>1, <1>9 DEF Span
    <3>2. CASE b \notin s .. end
      BY <2>1, <3>2, <1>6, <1>8, <1>9, Zenon DEF Coverage, Span
    <3> QED BY <3>1, <3>2, Zenon
  <2> QED BY <2>1 DEF Coverage, Bytes
<1>14. Settled \subseteq Settled'
  BY <1>8, <1>9 DEF Settled, Acked
<1> QED BY <1>10, <1>11, <1>12, <1>13, <1>14

(* Moving frontiers forward within their leases changes no ownership. *)
LEMMA FrontierInv ==
    ASSUME SchedInv,
           UNCHANGED <<pending, completed, nextLease, generation, divisor, target, resolved, sampler>>,
           DOMAIN active' = DOMAIN active,
           \A i \in DOMAIN active :
              \E n \in Nat : /\ active'[i] = [active[i] EXCEPT !.next = n]
                            /\ active[i].next <= n /\ n <= active[i].end + 1
    PROVE  SchedInv' /\ Settled \subseteq Settled'
<1> USE SizeAssumption, PolicyAssumption, BoundAssumption DEF SchedInv
<1>1. \A i \in DOMAIN active :
         /\ active'[i] \in Lease
         /\ active'[i].start = active[i].start /\ active'[i].end = active[i].end
         /\ active'[i].generation = active[i].generation
         /\ active[i].next <= active'[i].next /\ active'[i].next <= active[i].end + 1
  BY DEF SchedulerTypeOK, Lease
<1>2. SchedulerTypeOK'
  BY <1>1, Zenon DEF SchedulerTypeOK
<1>3. LeaseShape'
  BY <1>1 DEF LeaseShape, SchedulerTypeOK, Lease
<1>4. \A i \in DOMAIN active : Span(active'[i]) = Span(active[i])
  BY <1>1, Zenon DEF Span
<1>5. NoOverlap' /\ Coverage'
  BY <1>4 DEF NoOverlap, Coverage, Bytes
<1>6. \A i \in DOMAIN active : Acked(active[i]) \subseteq Acked(active'[i])
  BY <1>1 DEF Acked, SchedulerTypeOK, Lease
<1>7. Settled \subseteq Settled'
  BY <1>6 DEF Settled
<1> QED BY <1>2, <1>3, <1>5, <1>7

(* report_progress moves a frontier forward and never past the live end. *)
LEMMA AdvanceWithin ==
    ASSUME NEW l \in Lease, l.next <= l.end + 1, NEW through \in Nat
    PROVE  \E n \in Nat : /\ Advance(l, through) = [l EXCEPT !.next = n]
                         /\ l.next <= n /\ n <= l.end + 1
<1>1. CASE through <= l.next
  <2>1. Advance(l, through) = [l EXCEPT !.next = l.next]
    BY <1>1, Zenon DEF Advance, Lease
  <2> QED BY <2>1 DEF Lease
<1>2. CASE ~(through <= l.next)
  <2>1. Advance(l, through) = [l EXCEPT !.next = Min2(through, l.end + 1)]
    BY <1>2, Zenon DEF Advance
  <2>2. /\ Min2(through, l.end + 1) \in Nat
        /\ l.next <= Min2(through, l.end + 1) /\ Min2(through, l.end + 1) <= l.end + 1
    BY <1>2 DEF Min2, Lease
  <2> QED BY <2>1, <2>2
<1> QED BY <1>1, <1>2, Zenon

(* report_progress, from any caller with a current lease id. *)
LEMMA ReportInv ==
    ASSUME SchedInv, NEW id, NEW gen, NEW through \in Nat, ReportProgress(id, gen, through)
    PROVE  SchedInv' /\ Settled \subseteq Settled'
<1> USE DEF SchedInv
<1>1. \A i \in DOMAIN active : active[i] \in Lease /\ active[i].next <= active[i].end + 1
  BY DEF SchedulerTypeOK, LeaseShape
<1>2. id \in DOMAIN active /\ active' = With(id, Advance(active[id], through))
  BY Zenon DEF ReportProgress, Live
<1>3. DOMAIN active' = DOMAIN active
  BY <1>2, Zenon DEF With
<1>4. \A i \in DOMAIN active :
         active'[i] = IF i = id THEN Advance(active[id], through) ELSE active[i]
  BY <1>2 DEF With
<1>5. ASSUME NEW i \in DOMAIN active
      PROVE \E n \in Nat : /\ active'[i] = [active[i] EXCEPT !.next = n]
                           /\ active[i].next <= n /\ n <= active[i].end + 1
  <2>1. CASE i = id
    BY <1>1, <1>2, <1>4, <2>1, AdvanceWithin
  <2>2. CASE i # id
    <3>1. active'[i] = [active[i] EXCEPT !.next = active[i].next]
      BY <1>1, <1>4, <2>2, Zenon DEF Lease
    <3> QED BY <1>1, <3>1 DEF Lease
  <2> QED BY <2>1, <2>2, Zenon
<1>6. UNCHANGED <<pending, completed, nextLease, generation, divisor, target, resolved, sampler>>
  BY DEF ReportProgress
<1> QED BY <1>3, <1>5, <1>6, FrontierInv, Zenon

(* Removing a lease and handing each of its bytes to exactly one of pending *)
(* and completed, the acknowledged ones to completed.                       *)
LEMMA SettleInv ==
    ASSUME SchedInv, NEW id \in DOMAIN active, NEW give \in SUBSET Unfinished(active[id]),
           active' = Without(id),
           pending' = pending \cup give,
           completed' = completed \cup (Span(active[id]) \ give),
           UNCHANGED <<nextLease, generation, divisor, target, resolved>>,
           sampler' \in [samples : 0 .. StableSamples, last : Nat]
    PROVE  SchedInv' /\ Settled \subseteq Settled'
<1> USE SizeAssumption, PolicyAssumption, BoundAssumption DEF SchedInv
<1> DEFINE l == active[id]
<1>1. /\ DOMAIN active' = DOMAIN active \ {id}
      /\ \A i \in DOMAIN active' : active'[i] = active[i]
  BY DEF Without
<1>2. /\ l \in Lease /\ l.start <= l.end /\ l.end < TotalSize
      /\ l.start <= l.next /\ l.next <= l.end + 1
  BY Zenon DEF SchedulerTypeOK, LeaseShape
<1>3. give \subseteq Span(l) /\ Span(l) \subseteq Bytes /\ Acked(l) \cap give = {} /\ Acked(l) \subseteq Span(l)
  BY <1>2 DEF Span, Unfinished, Acked, Bytes, Lease
<1>4. SchedulerTypeOK'
  BY <1>1, <1>3, Zenon DEF SchedulerTypeOK, Bytes, Lease
<1>5. LeaseShape'
  BY <1>1 DEF LeaseShape
<1>6. NoOverlap'
  <2>1. (pending \cap completed)' = {}
    BY <1>3 DEF NoOverlap
  <2>2. \A i \in DOMAIN active' : Span(active'[i]) \cap (pending' \cup completed') = {}
    BY <1>1, <1>3 DEF NoOverlap
  <2> QED BY <1>1, <2>1, <2>2 DEF NoOverlap
<1>7. Coverage'
  <2>1. ASSUME NEW b \in Bytes, b \notin pending', b \notin completed'
        PROVE \E i \in DOMAIN active' : b \in Span(active'[i])
    BY <2>1, <1>1, <1>3 DEF Coverage
  <2> QED BY <2>1, Zenon DEF Coverage, Bytes
<1>8. Settled \subseteq Settled'
  BY <1>1, <1>3 DEF Settled
<1> QED BY <1>4, <1>5, <1>6, <1>7, <1>8, Zenon

(* A duration sample keeps the sampler's type. *)
LEMMA ObserveType ==
    ASSUME SchedulerTypeOK, NEW n \in Nat, Observe(n)
    PROVE  sampler' \in [samples : 0 .. StableSamples, last : Nat]
BY DEF SchedulerTypeOK, Observe, Max2, Min2, StableSamples

(* complete: every byte of the lease settles. *)
LEMMA SchedCompleteInv ==
    ASSUME SchedInv, NEW id, NEW gen, Complete(id, gen)
    PROVE  SchedInv' /\ Settled \subseteq Settled'
<1>1. id \in DOMAIN active /\ active[id] \in Lease /\ active[id].start <= active[id].end
  BY DEF SchedInv, Complete, Live, SchedulerTypeOK, LeaseShape
<1>2. active[id].end - active[id].start + 1 \in Nat
  BY <1>1 DEF Lease
<1>3. sampler' \in [samples : 0 .. StableSamples, last : Nat]
  BY <1>2, ObserveType, Zenon DEF SchedInv, Complete
<1>4. completed' = completed \cup (Span(active[id]) \ {}) /\ pending' = pending \cup {}
  BY DEF Complete
<1>5. active' = Without(id) /\ UNCHANGED <<nextLease, generation, divisor, target, resolved>>
  BY Zenon DEF Complete
<1> QED BY <1>1, <1>3, <1>4, <1>5, SettleInv, Zenon

(* fail and release give a lease's bytes back without losing one. *)
LEMMA GiveBackInv ==
    ASSUME SchedInv, NEW id \in DOMAIN active, GiveBack(id),
           UNCHANGED <<nextLease, generation, divisor, target, resolved>>,
           sampler' \in [samples : 0 .. StableSamples, last : Nat]
    PROVE  SchedInv' /\ Settled \subseteq Settled'
<1>1. /\ active[id] \in Lease /\ active[id].start <= active[id].next
      /\ active[id].next <= active[id].end + 1
  BY DEF SchedInv, SchedulerTypeOK, LeaseShape
<1>2. Acked(active[id]) = Span(active[id]) \ Unfinished(active[id])
  BY <1>1 DEF Acked, Span, Unfinished, Lease
<1> QED BY <1>2, SettleInv, Zenon DEF GiveBack

(* fail: the unfinished tail is pending again, the prefix settles. *)
LEMMA FailInv ==
    ASSUME SchedInv, NEW id, NEW gen, Fail(id, gen)
    PROVE  SchedInv' /\ Settled \subseteq Settled'
<1>1. id \in DOMAIN active /\ active[id] \in Lease /\ active[id].start <= active[id].next
  BY DEF SchedInv, Fail, Live, SchedulerTypeOK, LeaseShape
<1>2. active[id].next - active[id].start \in Nat
  BY <1>1 DEF Lease
<1>3. sampler' \in [samples : 0 .. StableSamples, last : Nat]
  BY <1>2, ObserveType, Zenon DEF SchedInv, Fail
<1> QED BY <1>1, <1>3, GiveBackInv, Zenon DEF Fail

(* release: the same, without a duration sample. *)
LEMMA ReleaseInv ==
    ASSUME SchedInv, NEW id, NEW gen, Release(id, gen)
    PROVE  SchedInv' /\ Settled \subseteq Settled'
<1>1. id \in DOMAIN active /\ sampler' \in [samples : 0 .. StableSamples, last : Nat]
  BY Zenon DEF SchedInv, Release, Live, SchedulerTypeOK
<1> QED BY <1>1, GiveBackInv DEF Release

(* split_tail: the victim's shrunken range and the new lease share its bytes. *)
LEMMA SchedSplitInv ==
    ASSUME SchedInv, NEW id, NEW gen, NEW minTail \in Nat, NEW received \in Nat,
           SplitTail(id, gen, minTail, received)
    PROVE  SchedInv' /\ Settled \subseteq Settled'
<1> USE SizeAssumption, PolicyAssumption, BoundAssumption DEF SchedInv
<1> DEFINE l == active[id]
           tailStart == Max2(l.next, received)
           tailLen == TailLen(l, received)
           take == Clamp(tailLen \div 2, 1, tailLen - 1)
           newStart == l.end - take + 1
<1>1. id \in DOMAIN active /\ nextLease \in Nat /\ id # nextLease /\ nextLease \notin DOMAIN active
  BY DEF SplitTail, Live, SchedulerTypeOK
<1>2. /\ l \in Lease /\ l.start <= l.end /\ l.end < TotalSize
      /\ l.start <= l.next /\ l.next <= l.end + 1 /\ l.generation = generation
  BY <1>1, Zenon DEF SchedulerTypeOK, LeaseShape
<1>3. /\ tailLen > Max2(minTail, 1)
      /\ active' = [i \in DOMAIN active \cup {nextLease} |->
                        IF i = nextLease THEN NewLease(newStart, l.end)
                        ELSE IF i = id THEN [l EXCEPT !.end = newStart - 1]
                        ELSE active[i]]
      /\ sampler' = IF target.kind = "duration"
                    THEN [sampler EXCEPT !.last = newStart - l.start] ELSE sampler
      /\ nextLease <= MaxLeases /\ nextLease' = nextLease + 1
      /\ UNCHANGED <<pending, completed, generation, divisor, target, resolved>>
  BY DEF SplitTail
<1>4. newStart \in Nat /\ l.next < newStart /\ newStart <= l.end
  <2>1. tailLen \in Nat /\ tailLen > 1
    BY <1>2, <1>3 DEF Max2, SatSub, Lease, TailLen
  <2>2. tailStart \in Nat /\ l.next <= tailStart /\ tailLen = l.end - tailStart + 1
    BY <1>2, <2>1 DEF Max2, SatSub, Lease, TailLen
  <2>3. take \in Nat /\ 1 <= take /\ take <= tailLen - 1
    <3>1. tailLen \div 2 \in Nat
      BY <2>1
    <3> HIDE DEF tailLen
    <3> QED BY <2>1, <3>1 DEF Clamp, Min2, Max2
  <2> HIDE DEF take, tailLen, tailStart
  <2> QED BY <1>2, <2>2, <2>3 DEF Lease
<1> HIDE DEF newStart
<1>5. /\ DOMAIN active' = DOMAIN active \cup {nextLease}
      /\ active'[nextLease] = [generation |-> generation, start |-> newStart,
                               end |-> l.end, next |-> newStart]
      /\ active'[id] = [l EXCEPT !.end = newStart - 1]
      /\ \A i \in DOMAIN active \ {id} : active'[i] = active[i]
  BY <1>1, <1>3, Zenon DEF NewLease
<1>6. /\ active'[id] \in Lease /\ active'[id].start = l.start /\ active'[id].next = l.next
      /\ active'[id].end = newStart - 1 /\ active'[id].generation = l.generation
  BY <1>2, <1>4, <1>5 DEF Lease
<1>7. SchedulerTypeOK'
  <2>1. active'[nextLease] \in Lease
    BY <1>2, <1>4, <1>5 DEF SchedulerTypeOK, Lease
  <2>2. \A i \in DOMAIN active' : active'[i] \in Lease
    BY <1>5, <1>6, <2>1 DEF SchedulerTypeOK
  <2>3. DOMAIN active' \subseteq 1 .. nextLease' - 1
    BY <1>3, <1>5 DEF SchedulerTypeOK
  <2>4. nextLease' \in 1 .. MaxLeases + 1
    BY <1>3 DEF SchedulerTypeOK
  <2>5. sampler' \in [samples : 0 .. StableSamples, last : Nat]
    BY <1>2, <1>3, <1>4 DEF SchedulerTypeOK, Lease, StableSamples
  <2> QED BY <1>3, <2>2, <2>3, <2>4, <2>5, Zenon DEF SchedulerTypeOK, Bytes, Lease, StableSamples
<1>8. LeaseShape'
  BY <1>2, <1>3, <1>4, <1>5, <1>6 DEF LeaseShape, Lease
<1>9. /\ Span(active'[id]) = l.start .. newStart - 1
      /\ Span(active'[nextLease]) = newStart .. l.end
      /\ Span(l) = l.start .. l.end
      /\ \A i \in DOMAIN active \ {id} : Span(active'[i]) = Span(active[i])
  BY <1>5, <1>6 DEF Span
<1>10. /\ Span(active'[id]) \subseteq Span(l) /\ Span(active'[nextLease]) \subseteq Span(l)
       /\ Span(active'[id]) \cap Span(active'[nextLease]) = {}
       /\ Span(l) \subseteq Span(active'[id]) \cup Span(active'[nextLease])
  <2>1. l.start \in Int /\ l.end \in Int /\ newStart \in Int /\ l.start <= newStart /\ newStart <= l.end
    BY <1>2, <1>4 DEF Lease
  <2> HIDE DEF l
  <2> QED BY <1>9, <2>1
<1>11. NoOverlap'
  <2> DEFINE owner(i) == IF i = nextLease THEN id ELSE i
  <2>1. \A i \in DOMAIN active' :
           owner(i) \in DOMAIN active /\ Span(active'[i]) \subseteq Span(active[owner(i)])
    BY <1>1, <1>5, <1>9, <1>10, Zenon
  <2>2. \A i \in DOMAIN active' : Span(active'[i]) \cap (pending' \cup completed') = {}
    <3>1. \A i \in DOMAIN active : Span(active[i]) \cap (pending \cup completed) = {}
      BY Zenon DEF NoOverlap
    <3>2. pending' = pending /\ completed' = completed
      BY <1>3
    <3> HIDE DEF owner, SchedInv
    <3> QED BY <2>1, <3>1, <3>2
  <2>3. ASSUME NEW i \in DOMAIN active', NEW j \in DOMAIN active', i # j
        PROVE Span(active'[i]) \cap Span(active'[j]) = {}
    <3>1. CASE owner(i) # owner(j)
      <4>1. Span(active[owner(i)]) \cap Span(active[owner(j)]) = {}
        BY <2>1, <3>1, Zenon DEF NoOverlap
      <4> HIDE DEF owner, SchedInv
      <4> QED BY <2>1, <4>1
    <3>2. CASE owner(i) = owner(j)
      <4>1. (i = id /\ j = nextLease) \/ (i = nextLease /\ j = id)
        BY <2>3, <3>2, <1>1, Zenon
      <4> HIDE DEF l, SchedInv
      <4> QED BY <1>10, <4>1
    <3> QED BY <3>1, <3>2, Zenon
  <2>4. pending' \cap completed' = {}
    BY <1>3 DEF NoOverlap
  <2> QED BY <2>2, <2>3, <2>4, Zenon DEF NoOverlap
<1>12. Coverage'
  <2>1. ASSUME NEW b \in Bytes, b \notin pending', b \notin completed'
        PROVE \E i \in DOMAIN active' : b \in Span(active'[i])
    BY <2>1, <1>1, <1>3, <1>5, <1>9, <1>10 DEF Coverage
  <2> QED BY <2>1, Zenon DEF Coverage, Bytes
<1>13. Settled \subseteq Settled'
  <2>1. \A i \in DOMAIN active : Acked(active'[i]) = Acked(active[i])
    BY <1>1, <1>5, <1>6, Zenon DEF Acked
  <2>2. completed' = completed /\ DOMAIN active \subseteq DOMAIN active'
    BY <1>3, <1>5
  <2> QED BY ONLY <2>1, <2>2, Zenon DEF Settled
<1>14. SchedInv'
  BY ONLY <1>7, <1>8, <1>11, <1>12, Zenon DEF SchedInv
<1> QED BY ONLY <1>13, <1>14

(* bump_generation: all live leases are given back at once. *)
LEMMA SchedBumpInv ==
    ASSUME SchedInv, BumpGeneration PROVE SchedInv' /\ Settled \subseteq Settled'
<1> USE SizeAssumption, PolicyAssumption, BoundAssumption DEF SchedInv
<1>1. DOMAIN active' = {}
  BY DEF BumpGeneration, NoLeases
<1>2. /\ \A b : b \in pending' <=> b \in pending \/ \E i \in DOMAIN active : b \in Unfinished(active[i])
      /\ \A b : b \in completed' <=> b \in completed \/ \E i \in DOMAIN active : b \in Acked(active[i])
  BY Zenon DEF BumpGeneration
<1>3. \A i \in DOMAIN active :
         /\ Unfinished(active[i]) \subseteq Span(active[i]) /\ Acked(active[i]) \subseteq Span(active[i])
         /\ Span(active[i]) \subseteq Unfinished(active[i]) \cup Acked(active[i])
         /\ Unfinished(active[i]) \cap Acked(active[i]) = {}
         /\ Span(active[i]) \subseteq Bytes
  BY DEF SchedulerTypeOK, LeaseShape, Lease, Span, Acked, Unfinished, Bytes
<1>4. SchedulerTypeOK'
  <2>1. pending' \in SUBSET Bytes /\ completed' \in SUBSET Bytes
    BY <1>2, <1>3 DEF SchedulerTypeOK
  <2> QED BY <1>1, <2>1 DEF SchedulerTypeOK, BumpGeneration, Bytes, Lease, StableSamples
<1>5. LeaseShape'
  BY <1>1, Zenon DEF LeaseShape
<1>6. NoOverlap'
  <2>1. ASSUME NEW b, b \in pending', b \in completed' PROVE FALSE
    BY <2>1, <1>2, <1>3 DEF NoOverlap
  <2> QED BY <1>1, <2>1, Zenon DEF NoOverlap
<1>7. Coverage'
  <2>1. ASSUME NEW b \in Bytes PROVE b \in pending' \/ b \in completed'
    BY <1>2, <1>3, Zenon DEF Coverage
  <2> QED BY <2>1 DEF Coverage, Bytes
<1>8. Settled \subseteq Settled'
  BY <1>2, Zenon DEF Settled
<1> QED BY <1>4, <1>5, <1>6, <1>7, <1>8

(* absorb_worker_progress: all cells are folded, stale ones skipped. *)
LEMMA AbsorbInv ==
    ASSUME SchedInv, NEW gen, NEW through \in [DOMAIN active -> Nat],
           AbsorbWorkerProgress({[lease |-> i, generation |-> gen, written |-> through[i]] :
                                    i \in DOMAIN active})
    PROVE  SchedInv' /\ Settled \subseteq Settled'
<1> DEFINE rec(i) == [lease |-> i, generation |-> gen, written |-> through[i]]
           recs == {rec(i) : i \in DOMAIN active}
           mine(i) == {q \in recs : q.lease = i /\ q.generation = active[i].generation}
           top(i) == CHOOSE q \in mine(i) : \A p \in mine(i) : p.written <= q.written
<1>1. /\ active' = [i \in DOMAIN active |->
                       IF mine(i) = {} THEN active[i] ELSE Advance(active[i], top(i).written)]
      /\ UNCHANGED <<pending, completed, nextLease, generation, divisor, target, resolved, sampler>>
  BY DEF AbsorbWorkerProgress
<1>2. \A i \in DOMAIN active : mine(i) = {} \/ top(i).written = through[i]
  <2>1. SUFFICES ASSUME NEW i \in DOMAIN active, mine(i) # {} PROVE top(i).written = through[i]
    BY Zenon
  <2>2. \A q \in mine(i) : q = rec(i)
    OBVIOUS
  <2>3. mine(i) = {rec(i)}
    BY <2>1, <2>2, Zenon
  <2>4. rec(i).written <= rec(i).written
    OBVIOUS
  <2>5. \E q \in mine(i) : \A p \in mine(i) : p.written <= q.written
    BY <2>3, <2>4, Zenon
  <2>6. top(i) \in mine(i)
    BY <2>5, Zenon
  <2>7. top(i) = rec(i)
    <3> HIDE DEF top, mine
    <3> QED BY <2>2, <2>6, Zenon
  <2> HIDE DEF top
  <2> QED BY <2>7
<1>3. \A i \in DOMAIN active : active'[i] = active[i] \/ active'[i] = Advance(active[i], through[i])
  BY <1>1, <1>2
<1>4. DOMAIN active' = DOMAIN active
  BY <1>1, Zenon
<1>5. ASSUME NEW i \in DOMAIN active
      PROVE \E n \in Nat : /\ active'[i] = [active[i] EXCEPT !.next = n]
                           /\ active[i].next <= n /\ n <= active[i].end + 1
  <2>1. active[i] \in Lease /\ active[i].next <= active[i].end + 1
    BY Zenon DEF SchedInv, SchedulerTypeOK, LeaseShape
  <2>2. CASE active'[i] = active[i]
    <3>1. active'[i] = [active[i] EXCEPT !.next = active[i].next]
      BY <2>1, <2>2 DEF Lease
    <3> QED BY <2>1, <3>1 DEF Lease
  <2>3. CASE active'[i] = Advance(active[i], through[i])
    BY <2>1, <2>3, AdvanceWithin, Zenon
  <2> QED BY <1>3, <2>2, <2>3
<1> QED BY <1>1, <1>4, <1>5, FrontierInv

-----------------------------------------------------------------------------
(* Every step keeps the inductive invariant and only adds settled bytes. *)
LEMMA SchedNextInv ==
    ASSUME SchedInv, SchedulerNext PROVE SchedInv' /\ Settled \subseteq Settled'
<1> USE SizeAssumption, PolicyAssumption, BoundAssumption
<1>1. CASE Acquire
  BY <1>1, SchedAcquireInv
<1>2. ASSUME NEW id \in Ids, NEW gen \in 1 .. generation,
             \/ \E off \in Offsets : ReportProgress(id, gen, off)
             \/ Complete(id, gen)
             \/ Fail(id, gen)
             \/ Release(id, gen)
             \/ \E off \in Offsets : SplitTail(id, gen, SplitThreshold, off)
      PROVE  SchedInv' /\ Settled \subseteq Settled'
  <2>1. \A off \in Offsets : off \in Nat
    BY DEF Offsets
  <2>2. CASE \E off \in Offsets : ReportProgress(id, gen, off)
    BY <2>1, <2>2, ReportInv, Zenon
  <2>4. CASE Complete(id, gen)
    BY <2>4, SchedCompleteInv, Zenon
  <2>5. CASE Fail(id, gen)
    BY <2>5, FailInv, Zenon
  <2>6. CASE Release(id, gen)
    BY <2>6, ReleaseInv, Zenon
  <2>7. CASE \E off \in Offsets : SplitTail(id, gen, SplitThreshold, off)
    BY <2>1, <2>7, SchedSplitInv
  <2> QED BY <1>2, <2>2, <2>4, <2>5, <2>6, <2>7, Zenon
<1>3. CASE BumpGeneration
  BY <1>3, SchedBumpInv, Zenon
<1>4. ASSUME NEW d \in Divisors, SetReadyWorkDivisor(d)
      PROVE  SchedInv' /\ Settled \subseteq Settled'
  <2>1. UNCHANGED <<pending, completed, active, nextLease, generation, target, resolved, sampler>> /\ divisor' = d
    BY <1>4 DEF SetReadyWorkDivisor
  <2>2. SchedulerTypeOK'
    BY <2>1, Zenon DEF SchedInv, SchedulerTypeOK, Bytes, Lease
  <2> QED BY <2>1, <2>2 DEF SchedInv, LeaseShape, NoOverlap, Coverage, Span, Settled, Acked, Bytes
<1>5. ASSUME NEW gen \in 1 .. generation, NEW through \in [DOMAIN active -> Offsets],
             AbsorbWorkerProgress({[lease |-> i, generation |-> gen, written |-> through[i]] :
                                      i \in DOMAIN active})
      PROVE  SchedInv' /\ Settled \subseteq Settled'
  <2>1. through \in [DOMAIN active -> Nat]
    BY DEF Offsets
  <2> QED BY <1>5, <2>1, AbsorbInv, Zenon
<1> QED BY <1>1, <1>2, <1>3, <1>4, <1>5, Zenon DEF SchedulerNext

(* A stuttering step changes nothing. *)
LEMMA SchedStutterInv ==
    ASSUME SchedInv, UNCHANGED schedVars PROVE SchedInv'
BY Zenon DEF SchedInv, schedVars, SchedulerTypeOK, LeaseShape, NoOverlap, Coverage, Bytes, Lease, Span

(* The inductive invariant holds in every reachable state of the scheduler,
   for every size, policy, lease count and generation count. *)
THEOREM SchedulerInvariant == SchedulerSpec => []SchedInv
<1>1. SchedInv /\ [SchedulerNext]_schedVars => SchedInv'
  BY SchedNextInv, SchedStutterInv, Zenon
<1> QED BY SchedInitInv, <1>1, PTL DEF SchedulerSpec

(* Every variable keeps its type. *)
THEOREM TypeCorrect == SchedulerSpec => []SchedulerTypeOK
<1>1. SchedInv => SchedulerTypeOK
  BY DEF SchedInv
<1> QED BY SchedulerInvariant, <1>1, PTL

(* Leases are well formed: non-empty, inside the target, of the current
   generation, with the frontier inside the possibly split-shrunk range. *)
THEOREM LeasesWellFormed == SchedulerSpec => []LeaseShape
<1>1. SchedInv => LeaseShape
  BY DEF SchedInv
<1> QED BY SchedulerInvariant, <1>1, PTL

(* Exclusive ownership: pending, completed and the live leases never share a
   byte (the overlap half of SegmentScheduler::invariants_hold). *)
THEOREM ExclusiveOwnership == SchedulerSpec => []NoOverlap
<1>1. SchedInv => NoOverlap
  BY DEF SchedInv
<1> QED BY SchedulerInvariant, <1>1, PTL

(* No byte of the target is ever lost by a carve, split, failure, release or
   generation rollover (the coverage half of invariants_hold). *)
THEOREM NothingLost == SchedulerSpec => []Coverage
<1>1. SchedInv => Coverage
  BY Zenon DEF SchedInv
<1> QED BY SchedulerInvariant, <1>1, PTL

(* SegmentScheduler::invariants_hold itself: every byte of the target always
   has exactly one owner. *)
THEOREM AccountingHolds == SchedulerSpec => []InvariantsHold
<1>1. SchedInv => InvariantsHold
  BY DEF SchedInv, InvariantsHold
<1> QED BY SchedulerInvariant, <1>1, PTL

(* Every selector carves within the policy: target_len_for_gap returns at least
   the smallest segment (or the whole gap) and at most the largest. *)
THEOREM CarvesRespectPolicy == SchedulerSpec => []CarveWithinPolicy
<1>1. SchedulerTypeOK => CarveWithinPolicy
  BY CarveBounded, SizeAssumption DEF CarveWithinPolicy
<1> QED BY TypeCorrect, <1>1, PTL

(* settled_ranges, what a checkpoint records, never loses a byte. *)
THEOREM SettledMonotone == SchedulerSpec => SettledGrows
<1>1. SchedInv /\ [SchedulerNext]_schedVars => [Settled \subseteq Settled']_schedVars
  BY SchedNextInv
<1> QED BY SchedulerInvariant, <1>1, PTL DEF SchedulerSpec, SettledGrows

(* The ready-work cap at work: an acquire that finds a long enough first gap
   leaves divisor - 1 smallest segments of it for the other workers. *)
THEOREM ReadyWorkIsLeft == SchedulerSpec => CarveLeavesReadyWork
<1> DEFINE Left(s, e) ==
        /\ divisor > 0 /\ Acquire
        /\ \A b \in pending : s <= b
        /\ s .. e \subseteq pending /\ e + 1 \notin pending
        /\ e - s + 1 >= divisor * MinSegment
        => Cardinality((s .. e) \cap pending') >= (divisor - 1) * MinSegment
<1>1. ASSUME SchedulerTypeOK, NEW s \in pending, NEW e \in pending PROVE Left(s, e)
  <2> SUFFICES ASSUME divisor > 0, Acquire,
                      \A b \in pending : s <= b,
                      s .. e \subseteq pending, e + 1 \notin pending,
                      e - s + 1 >= divisor * MinSegment
               PROVE  Cardinality((s .. e) \cap pending') >= (divisor - 1) * MinSegment
    BY Zenon
  <2>1. pending \subseteq Nat /\ s \in Nat /\ e \in Nat /\ s <= e
    BY <1>1, SizeAssumption DEF SchedulerTypeOK, Bytes
  <2>2. PICK s0, e0 \in pending :
          /\ \A b \in pending : s0 <= b
          /\ s0 .. e0 \subseteq pending /\ e0 + 1 \notin pending
          /\ \E want \in CarveSizes(e0 - s0 + 1) :
                pending' = pending \ (s0 .. Min2(s0 + want - 1, e0))
    BY Zenon DEF Acquire
  <2>3. s0 = s
    BY <2>1, <2>2
  <2>4. e0 = e
    BY <2>1, <2>2, <2>3
  <2>5. PICK want \in CarveSizes(e - s + 1) :
          pending' = pending \ (s .. Min2(s + want - 1, e))
    BY <2>2, <2>3, <2>4
  <2> DEFINE gap == e - s + 1
             reserve == (divisor - 1) * MinSegment
  <2>6. gap \in Nat /\ e = s + gap - 1
    BY <2>1
  <2>7. want \in Nat /\ 1 <= want /\ want <= gap - reserve
    BY <1>1, <2>5, <2>6, CarveReserves, Zenon
  <2>8. reserve \in Nat
    <3>1. divisor - 1 \in Nat /\ MinSegment \in Nat
      BY <1>1, PolicyAssumption DEF SchedulerTypeOK
    <3>2. \A d, m \in Nat : d * m \in Nat
      OBVIOUS
    <3> QED BY <3>1, <3>2
  <2> HIDE DEF reserve, gap
  <2>9. Min2(s + want - 1, e) = s + want - 1
    BY <2>1, <2>6, <2>7, <2>8 DEF Min2
  <2>10. (s .. e) \cap pending' = s + want .. e
    BY <2>1, <2>5, <2>7, <2>9
  <2>11. s + want \in Int /\ e \in Int
    BY <2>1, <2>7
  <2>12. Cardinality(s + want .. e) = IF s + want > e THEN 0 ELSE e - (s + want) + 1
    BY <2>11, FS_Interval, Zenon
  <2>13. (IF s + want > e THEN 0 ELSE e - (s + want) + 1) >= reserve
    BY <2>1, <2>6, <2>7, <2>8
  <2>14. Cardinality((s .. e) \cap pending') >= reserve
    BY <2>10, <2>12, <2>13, Zenon
  <2> QED BY <2>14 DEF reserve
<1>2. SchedulerTypeOK => [\A s, e \in pending : Left(s, e)]_schedVars
  BY <1>1
<1> QED BY <1>2, TypeCorrect, PTL DEF SchedulerSpec, CarveLeavesReadyWork
=============================================================================
