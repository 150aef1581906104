---------------------------- MODULE ResumeRules ----------------------------
(***************************************************************************)
(* The decisions that keep a resumed download to one representation of     *)
(* the resource: crates/engine/src/http/{validators,range}.rs and          *)
(* crates/engine/src/resume/{checkpoint,flow,coordinated_store}.rs.        *)
(*                                                                         *)
(* A representation is a generation, a positive number; 0 stands for an    *)
(* absent header or field, and for a byte of a file nobody wrote.  A file  *)
(* is a sequence of generations, byte i of the file at index i + 1.        *)
(* Normalised completed ranges are the set of the byte offsets they cover. *)
(***************************************************************************)
EXTENDS Naturals, Sequences, FiniteSets

CONSTANT Window     \* bytes hashed into a checkpoint's covered digest

Absent == 0
Hole == 0
NoCheckpoint == [ranges |-> {}, none |-> TRUE]
NoDigest == <<>>

(* Captured response headers: which of them a server sends is its style. *)
from_headers(style, gen, size) ==
    [etag  |-> IF style \in {"strong", "weak"} THEN gen ELSE Absent,
     weak  |-> style = "weak",
     date  |-> IF style = "dated" THEN gen ELSE Absent,
     total |-> size]

(* Only what both sides carry can contradict. *)
same_generation(a, b) ==
    \A f \in {"etag", "date", "total"} :
        a[f] # Absent /\ b[f] # Absent => a[f] = b[f]

comparable_generation(saved, current) ==
    IF saved.etag # Absent /\ ~saved.weak
    THEN current.etag # Absent /\ ~current.weak
    ELSE saved.date # Absent /\ current.date # Absent

(* The If-Range validator of a conditional request. *)
if_range_value(v) == IF v.etag # Absent /\ ~v.weak THEN v.etag ELSE v.date

(***************************************************************************)
(* A range response: its status, its Content-Range and its validators.     *)
(***************************************************************************)
range_request_is_nonzero(start) == start > 0

into_error(kind) == IF kind = "GenerationChanged" THEN "ResourceChanged" ELSE "InvalidRange"

(* A mutant: validators of the response are not compared. *)
RangeOfAnyGeneration(s, e, response, established, expected) ==
    IF response.status = 200 THEN IF s > 0 THEN "FullResponseToNonzeroRange" ELSE "Ok"
    ELSE IF response.start # s THEN "StartMismatch" ELSE "Ok"

(* "Ok", or the first reason for which the response is refused. *)
validate_range_response(s, e, response, established, expected) ==
    CASE response.status = 200 ->
            IF range_request_is_nonzero(s) THEN "FullResponseToNonzeroRange" ELSE "Ok"
      [] response.status \notin {200, 206} -> "UnexpectedStatus"
      [] OTHER ->
            IF response.start # s THEN "StartMismatch"
            ELSE IF response.end > e THEN "EndOvershoot"
            ELSE IF established # Absent /\ response.total # Absent /\ established # response.total
                 THEN "TotalConflict"
            ELSE IF ~same_generation(expected, response.validators) THEN "GenerationChanged"
            ELSE "Ok"

(***************************************************************************)
(* Checkpoints and the file they describe.                                 *)
(***************************************************************************)
Offsets(bytes) == 0 .. Len(bytes) - 1
ByteAt(bytes, i) == bytes[i + 1]

(* The first Window covered bytes, in order; none past the file's end. *)
covered_digest(bytes, ranges) ==
    LET rank(i) == Cardinality({j \in ranges : j < i})
        head == {i \in ranges : rank(i) < Window}
    IN  IF head \subseteq Offsets(bytes)
        THEN [i \in head |-> ByteAt(bytes, i)]
        ELSE NoDigest

(* Checkpoint::new with the two stamps that bind it to the output file. *)
StampedCheckpoint(ranges, validators, total, ino, bytes) ==
    [ranges |-> ranges, none |-> FALSE, validators |-> validators, total |-> total,
     identity |-> ino, digest |-> covered_digest(bytes, ranges)]

(* A digest that could not be computed was not recorded. *)
verify_local_binding(cp, ino, bytes) ==
    /\ cp.identity = ino
    /\ cp.digest # NoDigest => cp.digest = covered_digest(bytes, cp.ranges)

(* Structural validation on load, of ranges already in normal form. *)
validate(cp) == cp.total # Absent => cp.ranges \subseteq 0 .. cp.total - 1

(* The file must be the engine's own (a single link) and long enough. *)
validate_temp_file(cp, ino, links, bytes) ==
    /\ ino # 0
    /\ links = 1
    /\ cp.ranges \subseteq Offsets(bytes)
    /\ verify_local_binding(cp, ino, bytes)

contiguous_prefix(ranges) ==
    CHOOSE n \in 0 .. Cardinality(ranges) :
        /\ 0 .. n - 1 \subseteq ranges
        /\ n \notin ranges

(* Discovery before the network: what a policy makes of the stored state. *)
discover_admission_pieces(resume, cp, corrupt) ==
    CASE resume = "Never" -> "Fresh"
      [] resume = "Allowed" -> IF corrupt THEN "DeleteAndFresh"
                               ELSE IF cp.none THEN "Fresh" ELSE "Resuming"
      [] resume = "Required" -> IF corrupt THEN "Fail"
                                ELSE IF cp.none THEN "RequiredMissing" ELSE "Resuming"

(* The decision once the probe's validators are known. *)
finalize(cp, remote, ino, links, bytes) ==
    IF cp.none THEN "Fresh"
    ELSE IF ~same_generation(cp.validators, remote) THEN "Reject"
    ELSE IF ~comparable_generation(cp.validators, remote) THEN "DeleteAndFresh"
    ELSE IF ~validate_temp_file(cp, ino, links, bytes) THEN "DeleteAndFresh"
    ELSE "Resuming"

(***************************************************************************)
(* CoordinatedCheckpointStore::save_atomic: what a save forwards to the    *)
(* adapter given the last snapshot this job's store accepted.              *)
(***************************************************************************)
union_ranges(a, b) == a \cup b

lineage_conflict(prev, cp) ==
    ~prev.none /\ (prev.validators # cp.validators \/ prev.total # cp.total)

superseded(prev, cp) == ~prev.none /\ union_ranges(prev.ranges, cp.ranges) = prev.ranges

forwarded(prev, cp) == [cp EXCEPT !.ranges = union_ranges(prev.ranges, cp.ranges)]
=============================================================================
