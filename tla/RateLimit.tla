------------------------------ MODULE RateLimit ------------------------------
(***************************************************************************)
(* Token buckets, crates/engine/src/control/rate_limit.rs: one for each    *)
(* job above one for the engine.  A worker accounts each chunk it has read *)
(* with its job's bucket and with the engine's, and sleeps for the longer  *)
(* of the two waits (acquire_rate in job/segmented.rs and the sequential   *)
(* loop of job/controller.rs).                                             *)
(*                                                                         *)
(* Rates are bytes in one tick of the clock.  A bucket's limit and burst   *)
(* are separate atomics: changing the rate and accounting a chunk are two  *)
(* steps each.                                                             *)
(***************************************************************************)
EXTENDS Integers, FiniteSets

CONSTANTS
    Readers,            \* the workers that read
    Sharing,            \* the possible assignments of readers to jobs
    Rates,              \* the rates a job may be given; 0 is unlimited
    EngineRate,
    ChunkSizes,
    MaxClock,           \* bound: the clock
    MaxRead,            \* bound: bytes a reader reads
    MaxChanges          \* bound: rate changes

ASSUME RateAssumption ==
    /\ Rates \subseteq Nat /\ EngineRate \in Nat /\ ChunkSizes \subseteq Nat \ {0}
    /\ MaxClock \in Nat /\ MaxRead \in Nat /\ MaxChanges \in Nat

VARIABLES
    jobOf,              \* the assignment in force
    limit, burst,       \* the two atomics of each bucket
    tokens, refilled,   \* BucketState of each bucket
    reader,             \* pc, the chunk, the rate read, and how long to sleep
    delivered,          \* bytes that passed each bucket
    top,                \* history: the highest rate of each bucket, Unlimited once it was 0
    clock, changes

rateVars == <<jobOf, limit, burst, tokens, refilled, reader, delivered, top, clock, changes>>

Engine == "engine"
Buckets == {Engine} \cup {jobOf[w] : w \in Readers}
Unlimited == -1
Larger(a, b) == IF a >= b THEN a ELSE b
Smaller(a, b) == IF a <= b THEN a ELSE b

(* default_burst: a quarter of a second, at least a byte's worth. *)
DefaultBurst(rate) == IF rate \div 4 = 0 THEN Larger(rate, 1) ELSE rate \div 4

Reading == [pc |-> "read", chunk |-> 0, rate |-> 0, wait |-> 0, total |-> 0]

RateInit ==
    /\ jobOf \in Sharing
    /\ \E rate \in Rates :
          limit = [b \in Buckets |-> IF b = Engine THEN EngineRate ELSE rate]
    /\ burst = [b \in Buckets |-> DefaultBurst(limit[b])]
    /\ tokens = burst
    /\ refilled = [b \in Buckets |-> 0]
    /\ reader = [w \in Readers |-> Reading]
    /\ delivered = [b \in Buckets |-> 0]
    /\ top = [b \in Buckets |-> IF limit[b] = 0 THEN Unlimited ELSE limit[b]]
    /\ clock = 0 /\ changes = 0

-----------------------------------------------------------------------------
(* A chunk arrives; first the job's bucket. *)
Read(w, n) ==
    /\ reader[w].pc = "read" /\ reader[w].total + n <= MaxRead
    /\ reader' = [reader EXCEPT ![w] = [@ EXCEPT !.pc = "job", !.chunk = n, !.total = @ + n]]
    /\ UNCHANGED <<jobOf, limit, burst, tokens, refilled, delivered, top, clock, changes>>

(* acquire, outside the lock: the limit decides whether to account at all. *)
Consult(w, b, from, to, past) ==
    /\ reader[w].pc = from
    /\ reader' = [reader EXCEPT ![w].pc = IF limit[b] = 0 THEN past ELSE to, ![w].rate = limit[b]]
    /\ UNCHANGED <<jobOf, limit, burst, tokens, refilled, delivered, top, clock, changes>>

(* dominant_wait: the slower bucket governs. *)
(* Mutant of DominantWait: the faster one does. *)
FirstWait(a, b) == IF a = 0 THEN b ELSE IF b = 0 THEN a ELSE Smaller(a, b)
DominantWait(a, b) == Larger(a, b)

(* Under the lock: refill for the time since the last one, up to the burst, and
   debit the chunk; a negative balance is the wait. *)
Refilled(b, rate) ==
    IF clock = refilled[b] THEN tokens[b]
    ELSE Smaller(tokens[b] + (clock - refilled[b]) * rate, burst[b])
WaitFor(balance, rate) == IF balance >= 0 THEN 0 ELSE (rate - 1 - balance) \div rate
Debited(b, rate, n) == Refilled(b, rate) - n

Account(w, b, from, to) ==
    /\ reader[w].pc = from
    /\ LET rate == reader[w].rate
           balance == Refilled(b, rate) - reader[w].chunk
       IN  /\ tokens' = [tokens EXCEPT ![b] = Debited(b, rate, reader[w].chunk)]
           /\ refilled' = [refilled EXCEPT ![b] = clock]
           /\ reader' = [reader EXCEPT ![w].pc = to,
                                       ![w].wait = DominantWait(@, WaitFor(balance, rate))]
    /\ UNCHANGED <<jobOf, limit, burst, delivered, top, clock, changes>>

(* The sleep is over: the chunk goes on, and the next may come. *)
Deliver(w) ==
    /\ reader[w].pc = "sleep" /\ reader[w].wait = 0
    /\ delivered' = [b \in Buckets |-> IF b \in {Engine, jobOf[w]} THEN delivered[b] + reader[w].chunk
                                       ELSE delivered[b]]
    /\ reader' = [reader EXCEPT ![w] = [Reading EXCEPT !.total = reader[w].total]]
    /\ UNCHANGED <<jobOf, limit, burst, tokens, refilled, top, clock, changes>>

(* Cancellation ends the sleep; the chunk is dropped, its debit stays. *)
Cancelled(w) ==
    /\ reader[w].pc = "sleep" /\ reader[w].wait > 0
    /\ reader' = [reader EXCEPT ![w].pc = "ended"]
    /\ UNCHANGED <<jobOf, limit, burst, tokens, refilled, delivered, top, clock, changes>>

(* set_rate: the limit, then the burst. *)
SetLimit(b, rate) ==
    /\ b # Engine /\ rate # limit[b] /\ changes < MaxChanges /\ changes' = changes + 1
    /\ burst[b] = DefaultBurst(limit[b])
    /\ limit' = [limit EXCEPT ![b] = rate]
    /\ top' = [top EXCEPT ![b] = IF rate = 0 \/ @ = Unlimited THEN Unlimited ELSE Larger(@, rate)]
    /\ UNCHANGED <<jobOf, burst, tokens, refilled, reader, delivered, clock>>
SetBurst(b) ==
    /\ burst[b] # DefaultBurst(limit[b])
    /\ burst' = [burst EXCEPT ![b] = DefaultBurst(limit[b])]
    /\ UNCHANGED <<jobOf, limit, tokens, refilled, reader, delivered, top, clock, changes>>

Pass ==
    /\ clock < MaxClock /\ clock' = clock + 1
    /\ reader' = [w \in Readers |-> [reader[w] EXCEPT !.wait =
                     IF reader[w].pc = "sleep" THEN Larger(@ - 1, 0) ELSE @]]
    /\ UNCHANGED <<jobOf, limit, burst, tokens, refilled, delivered, top, changes>>

RateNext ==
    \/ \E w \in Readers :
          \/ \E n \in ChunkSizes : Read(w, n)
          \/ Consult(w, jobOf[w], "job", "jobDebit", "engine")
          \/ Account(w, jobOf[w], "jobDebit", "engine")
          \/ Consult(w, Engine, "engine", "engineDebit", "sleep")
          \/ Account(w, Engine, "engineDebit", "sleep")
          \/ Deliver(w) \/ Cancelled(w)
    \/ \E b \in Buckets : SetBurst(b) \/ \E rate \in Rates : SetLimit(b, rate)
    \/ Pass

-----------------------------------------------------------------------------
(* The limits bind, whatever the interleaving: through a bucket pass at no time
   more bytes than its largest burst and its highest rate allow, for one job and
   for all jobs of the engine together. *)
Paced ==
    \A b \in Buckets : top[b] # Unlimited =>
        delivered[b] <= DefaultBurst(top[b]) + top[b] * clock

=============================================================================
