----------------------------- MODULE IntervalSet -----------------------------
(***************************************************************************)
(* The normalized set of inclusive byte ranges,                            *)
(* crates/engine/src/scheduler/interval_set.rs: a BTreeMap from the start  *)
(* of a range to its end.  The other modules work with the sets of bytes   *)
(* such maps cover; the properties here are what entitles them to.         *)
(* MaxOffset is the largest offset the integer type holds, so the          *)
(* saturating additions are exercised at their limit.                      *)
(***************************************************************************)
EXTENDS Integers, FiniteSets, FiniteSetsExt

CONSTANT MaxOffset

ASSUME OffsetAssumption == MaxOffset \in Nat

VARIABLE map    \* start of a range |-> its inclusive end

Offsets == 0 .. MaxOffset

SatAdd1(n) == IF n = MaxOffset THEN n ELSE n + 1
SatSub1(n) == IF n = 0 THEN 0 ELSE n - 1

Empty == [k \in {} |-> 0]
Removed(m, k) == [j \in DOMAIN m \ {k} |-> m[j]]
Put(m, k, v) == [j \in DOMAIN m \cup {k} |-> IF j = k THEN v ELSE m[j]]

(* The keys below an offset, and the one BTreeMap::range finds last. *)
UpTo(m, n) == {k \in DOMAIN m : k <= n}
From(m, n) == {k \in DOMAIN m : k >= n}

(* The successors that overlap or touch lo..hi are merged, one by one. *)
RECURSIVE AbsorbSuccessors(_, _, _)
AbsorbSuccessors(m, lo, hi) ==
    LET next == Min(From(m, lo))
    IN  IF From(m, lo) = {} \/ next > SatAdd1(hi) THEN Put(m, lo, hi)
        ELSE AbsorbSuccessors(Removed(m, next), Min({lo, next}), Max({hi, m[next]}))

(* Mutant: a predecessor that only touches the new range is left alone. *)
InsertOverlapping(m, start, end) ==
    LET pred == Max(UpTo(m, start))
    IN  IF end < start THEN m
        ELSE IF UpTo(m, start) # {} /\ m[pred] >= start
        THEN AbsorbSuccessors(Removed(m, pred), Min({start, pred}), Max({end, m[pred]}))
        ELSE AbsorbSuccessors(m, start, end)

Insert(m, start, end) ==
    LET pred == Max(UpTo(m, start))
    IN  IF end < start THEN m
        ELSE IF UpTo(m, start) # {} /\ m[pred] >= SatSub1(start)
        THEN AbsorbSuccessors(Removed(m, pred), Min({start, pred}), Max({end, m[pred]}))
        ELSE AbsorbSuccessors(m, start, end)

(* Every entry that meets the window is removed and its ends put back. *)
Subtract(m, start, end) ==
    LET below == UpTo(m, start - 1)
        spanning == {k \in below : k = Max(below) /\ m[k] >= start}
        hit == {k \in DOMAIN m : start <= k /\ k <= end} \cup spanning
        heads == {k \in hit : k < start}
        tails == {k \in hit : m[k] > end}
    IN  IF end < start THEN m
        ELSE [k \in (DOMAIN m \ hit) \cup heads \cup {end + 1 : j \in tails} |->
                IF k \in DOMAIN m \ hit THEN m[k]
                ELSE IF k \in heads THEN start - 1
                ELSE m[CHOOSE j \in tails : TRUE]]

Contains(m, offset) ==
    LET pred == Max(UpTo(m, offset))
    IN  UpTo(m, offset) # {} /\ offset <= m[pred]

None == -1

FirstGapFrom(m, start, limit) ==
    IF start > limit THEN None
    ELSE IF ~Contains(m, start) THEN start
    ELSE LET v == m[Max(UpTo(m, start))] IN IF v >= limit THEN None ELSE v + 1

(* len, in the width of the offsets. *)
LenOf(m) == MapThenSumSet(LAMBDA k : m[k] - k + 1, DOMAIN m) % (MaxOffset + 1)

Covers(m, total) == total = 0 \/ LenOf(m) = total

(* union: insert every range of another set. *)
Union(m, other) == FoldSet(LAMBDA k, acc : Insert(acc, k, other[k]), m, DOMAIN other)

(* complement_within: the gap before each range, then the one after the last
   (`next` ends as the last range's end plus one). *)
ComplementWithin(m, total) ==
    LET next(k) == IF UpTo(m, k - 1) = {} THEN 0 ELSE SatAdd1(m[Max(UpTo(m, k - 1))])
        rest == IF m = Empty THEN 0 ELSE SatAdd1(m[Max(DOMAIN m)])
    IN  {<<next(k), k - 1>> : k \in {j \in DOMAIN m : j > next(j)}}
        \cup (IF rest < total THEN {<<rest, total - 1>>} ELSE {})

-----------------------------------------------------------------------------
Init == map = Empty

Next ==
    \E a, b \in Offsets :
        \/ map' = Insert(map, a, b)
        \/ map' = Subtract(map, a, b)

Spec == Init /\ [][Next]_map

-----------------------------------------------------------------------------
(* The reference: the bytes that a set of ranges covers. *)
Cover(m) == UNION {k .. m[k] : k \in DOMAIN m}

Normalized(m) ==
    /\ DOMAIN m \subseteq Offsets
    /\ \A k \in DOMAIN m : k <= m[k] /\ m[k] \in Offsets
    /\ \A j, k \in DOMAIN m : j < k => m[j] + 1 < k

(* The module comment's invariant, "non-overlapping, sorted, no
   adjacent-unmerged ranges", after any sequence of inserts and subtracts. *)
StaysNormalized == Normalized(map)

(* insert, subtract and union are the set operations on the covered bytes,
   for every window: empty, touching, spanning several ranges, at the limit. *)
EditsExact ==
    /\ \A a, b \in Offsets :
          /\ Cover(Insert(map, a, b)) = Cover(map) \cup (a .. b)
          /\ Cover(Subtract(map, a, b)) = Cover(map) \ (a .. b)
    /\ LET other == Insert(Insert(Empty, 0, 1), MaxOffset - 1, MaxOffset)
       IN  /\ Cover(Union(map, other)) = Cover(map) \cup Cover(other)
           /\ Normalized(Union(map, other))

(* contains, first_gap_from, len, covers and complement_within answer what the
   covered bytes say; covers may add up lengths because ranges are disjoint
   and inside the target. *)
QueriesExact ==
    /\ \A n \in Offsets : Contains(map, n) <=> n \in Cover(map)
    /\ \A n, limit \in Offsets :
          LET gaps == (n .. limit) \ Cover(map)
          IN  FirstGapFrom(map, n, limit) = IF gaps = {} THEN None ELSE Min(gaps)
    /\ \A total \in Offsets :
          /\ UNION {r[1] .. r[2] : r \in ComplementWithin(map, total)}
                 \cap (0 .. total - 1) = (0 .. total - 1) \ Cover(map)
          /\ Cover(map) \subseteq 0 .. total - 1 =>
                /\ LenOf(map) = Cardinality(Cover(map))
                /\ Covers(map, total) <=> Cover(map) = 0 .. total - 1
                /\ \A r \in ComplementWithin(map, total) : r[1] <= r[2] /\ r[2] < total
=============================================================================
