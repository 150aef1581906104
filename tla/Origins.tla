------------------------------- MODULE Origins -------------------------------
(***************************************************************************)
(* The engine-wide registry of origins, crates/engine/src/control/         *)
(* origin.rs: request slots and the throttle deadline that the jobs of one *)
(* origin share.                                                           *)
(*                                                                         *)
(* An entry is an object of its own.  A request that has looked its entry  *)
(* up keeps a reference to it while it sleeps or queues, whether or not    *)
(* the registry still has the entry; admission is therefore several steps. *)
(* Deadlines are kept as the time that is left.  How long an entry has     *)
(* been idle is not modelled: eviction takes any idle entries, where the   *)
(* code takes those beyond the TTL and then the least recently active.     *)
(***************************************************************************)
EXTENDS Naturals, Sequences, FiniteSets

CONSTANTS
    Keys,           \* normalized final origins
    Requests,       \* the requests of all jobs, each for one origin
    Capacity,       \* capacity_per_origin
    EntryLimits,    \* the values of max_entries considered
    Delays,         \* what a throttled response asks for, already capped
    MaxThrottles    \* bound: throttled responses

ASSUME OriginAssumption ==
    /\ Capacity \in Nat \ {0} /\ EntryLimits \subseteq Nat \ {0}
    /\ MaxThrottles \in Nat /\ Delays \subseteq Nat \ {0}

VARIABLES
    maxEntries,     \* max_entries
    entryOf,        \* OriginRegistry.entries: the entry of each key, or NoEntry
    backoff,        \* what is left of each entry's backoff_until_ms
    slots,          \* the queue of each entry's semaphore
    request,        \* pc, key, entry and remaining sleep of each request
    throttles

originVars == <<maxEntries, entryOf, backoff, slots, request, throttles>>

NoEntry == 0
(* Enough objects: one for every key and one that each request may still hold. *)
Entries == 1 .. Cardinality(Keys) + Cardinality(Requests)
NotAsking(k, step) == [pc |-> step, key |-> k, entry |-> NoEntry, sleep |-> 0]

Holders(e) == {r \in Requests : request[r].pc = "admitted" /\ request[r].entry = e}
Kept == {k \in Keys : entryOf[k] # NoEntry}
Referenced == {request[r].entry : r \in Requests} \cup {entryOf[k] : k \in Keys}

OriginInit ==
    /\ maxEntries \in EntryLimits
    /\ entryOf = [k \in Keys |-> NoEntry]
    /\ backoff = [e \in Entries |-> 0]
    /\ slots = [e \in Entries |-> <<>>]
    /\ \E keyOf \in [Requests -> Keys] : request = [r \in Requests |-> NotAsking(keyOf[r], "idle")]
    /\ throttles = 0

-----------------------------------------------------------------------------
(* entry: the registered entry of a key, or a new one.  At the limit idle entries
   are evicted until there is room or only entries with a holder are left. *)
IdleKeys == {k \in Kept : Holders(entryOf[k]) = {}}
Evictions ==
    IF Cardinality(Kept) < maxEntries THEN {{}}
    ELSE {v \in SUBSET IdleKeys : Cardinality(Kept \ v) < maxEntries \/ v = IdleKeys}

NewEntry == CHOOSE e \in Entries \ Referenced : TRUE
(* What a caller gets: the entry, what is left of its deadline, and the registry
   that results. *)
Lookups(k) ==
    IF k \in Kept THEN {[entry |-> entryOf[k], left |-> backoff[entryOf[k]], entries |-> entryOf]}
    ELSE {[entry |-> NewEntry, left |-> 0,
           entries |-> [l \in Keys |-> IF l = k THEN NewEntry
                                       ELSE IF l \in victims THEN NoEntry ELSE entryOf[l]]] :
            victims \in Evictions}

-----------------------------------------------------------------------------
(* admit *)
Begin(r) ==
    /\ request[r].pc = "idle"
    /\ \E found \in Lookups(request[r].key) :
          /\ entryOf' = found.entries
          /\ backoff' = [backoff EXCEPT ![found.entry] = found.left]
          /\ request' = [request EXCEPT ![r].pc = "check", ![r].entry = found.entry]
    /\ UNCHANGED <<maxEntries, slots, throttles>>

(* The shared deadline: sleep it off and look again, or queue for a slot. *)
CheckDeadline(r) ==
    /\ request[r].pc = "check"
    /\ LET e == request[r].entry
       IN  IF backoff[e] > 0
           THEN /\ request' = [request EXCEPT ![r].pc = "sleep", ![r].sleep = backoff[e]]
                /\ UNCHANGED slots
           ELSE /\ request' = [request EXCEPT ![r].pc = "queued"]
                /\ slots' = [slots EXCEPT ![e] = Append(@, r)]
    /\ UNCHANGED <<maxEntries, entryOf, backoff, throttles>>

TimerFires(r) ==
    /\ request[r].pc = "sleep" /\ request[r].sleep = 0
    /\ request' = [request EXCEPT ![r].pc = "check"]
    /\ UNCHANGED <<maxEntries, entryOf, backoff, slots, throttles>>

(* A slot goes to the first in the queue. *)
Grant(r) ==
    LET e == request[r].entry
    IN  /\ request[r].pc = "queued" /\ Head(slots[e]) = r
        /\ Cardinality(Holders(e)) < Capacity
        /\ slots' = [slots EXCEPT ![e] = Tail(@)]
        /\ request' = [request EXCEPT ![r].pc = "admitted"]
        /\ UNCHANGED <<maxEntries, entryOf, backoff, throttles>>

(* Mutant of GiveUp: the waiter stays in the queue. *)
GiveUpInQueue(r) ==
    /\ request[r].pc \in {"sleep", "queued"}
    /\ request' = [request EXCEPT ![r] = NotAsking(@.key, "ended")]
    /\ UNCHANGED <<maxEntries, entryOf, backoff, slots, throttles>>
(* The token fires while the request sleeps or queues; a queued one leaves. *)
GiveUp(r) ==
    /\ request[r].pc \in {"sleep", "queued"}
    /\ slots' = [slots EXCEPT ![request[r].entry] = SelectSeq(@, LAMBDA q : q # r)]
    /\ request' = [request EXCEPT ![r] = NotAsking(@.key, "ended")]
    /\ UNCHANGED <<maxEntries, entryOf, backoff, throttles>>

(* The compare-and-swap loop of report_throttle only extends. *)
Extended(left, delay) == IF left >= delay THEN left ELSE delay

(* report_throttle, then the permit is dropped and the request retried; the
   entry is looked up again. *)
Throttled(r, delay) ==
    /\ request[r].pc = "admitted"
    /\ throttles < MaxThrottles /\ throttles' = throttles + 1
    /\ \E found \in Lookups(request[r].key) :
          /\ entryOf' = found.entries
          /\ backoff' = [backoff EXCEPT ![found.entry] = Extended(found.left, delay)]
    /\ request' = [request EXCEPT ![r] = NotAsking(@.key, "idle")]
    /\ UNCHANGED <<maxEntries, slots>>

(* report_success and the end of the request. *)
Succeeded(r) ==
    /\ request[r].pc = "admitted"
    /\ \E found \in Lookups(request[r].key) :
          /\ entryOf' = found.entries
          /\ backoff' = [backoff EXCEPT ![found.entry] = found.left]
    /\ request' = [request EXCEPT ![r] = NotAsking(@.key, "ended")]
    /\ UNCHANGED <<maxEntries, slots, throttles>>

(* The request fails or is cancelled while it runs: only the permit goes. *)
Dropped(r) ==
    /\ request[r].pc = "admitted"
    /\ request' = [request EXCEPT ![r] = NotAsking(@.key, "ended")]
    /\ UNCHANGED <<maxEntries, entryOf, backoff, slots, throttles>>

Less(t) == IF t = 0 THEN 0 ELSE t - 1
Tick ==
    /\ backoff' = [e \in Entries |-> Less(backoff[e])]
    /\ request' = [r \in Requests |-> [request[r] EXCEPT !.sleep = Less(@)]]
    /\ UNCHANGED <<maxEntries, entryOf, slots, throttles>>

Admission(r) == CheckDeadline(r) \/ TimerFires(r) \/ Grant(r)
Ending(r) == (\E d \in Delays : Throttled(r, d)) \/ Succeeded(r) \/ Dropped(r)

OriginNext == Tick \/ \E r \in Requests : Begin(r) \/ Admission(r) \/ Ending(r) \/ GiveUp(r)
(* Time passes; every request that runs ends, by the body deadline at the latest. *)
OriginFairness ==
    /\ WF_originVars(Tick)
    /\ \A r \in Requests : WF_originVars(Admission(r)) /\ WF_originVars(Ending(r))

-----------------------------------------------------------------------------

(* A request that asks for admission gets it or is cancelled: no lost slot, no
   endless cooldown. *)
AdmissionEnds ==
    \A r \in Requests : request[r].pc \in {"check", "sleep", "queued"} ~> request[r].pc \in {"admitted", "ended"}
=============================================================================
