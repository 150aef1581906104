--------------------------- MODULE MCSegmentedJob ---------------------------
(* Small instances of SegmentedJob for TLC: two workers, up to four bytes. *)
EXTENDS SegmentedJob

(* Every carve takes the whole gap: later leases come from splits. *)
WholeTarget == {[kind |-> "explicit", size |-> TotalSize, workers |-> 0, oversub |-> 0]}

From(n, workers, durable, events) ==
    [events |-> events, resumed |-> 0 .. TotalSize - n - 1, durable |-> durable,
     desired |-> workers]

(* Faults and pauses with two bytes left to fetch, splits with three. *)
SafetyScenarios ==
    {From(2, 2, FALSE, {"fatal", "cancel", "writefail"}),
     From(2, 2, FALSE, {"retryable", "changed"}),
     From(2, 2, TRUE, {"pause", "savefail"}),
     From(3, 2, FALSE, {})}

LiveScenarios ==
    {From(2, 2, FALSE, {"retryable", "cancel"}), From(2, 1, FALSE, {"desired"})}
ShortResponse == {From(2, 2, FALSE, {"short"})}
=============================================================================
