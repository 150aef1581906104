----------------------------- MODULE LeaseProgress -----------------------------
(* One worker's progress cell (job/segmented.rs, LeaseProgress): a record of
   five words published by the worker and read, word by word, by the
   coordinator.  Every load and store is SeqCst, so each is one step. *)
EXTENDS Integers, Sequences

CONSTANTS
    Publications,   \* records a worker publishes, in order; 0 stands for clear()
    MaxReads        \* snapshots taken

ASSUME CellAssumption == Publications \in Seq(Nat) /\ MaxReads \in Nat

VARIABLES
    cell,       \* the words in memory, each the publication it belongs to
    sequence,
    writer,     \* the store the worker is at, and the sequence it loaded
    published,  \* publications completed
    reader,     \* the load the coordinator is at, and what it has loaded
    reads,
    current     \* the publications that were whole at some time during the read

cellVars == <<cell, sequence, writer, published, reader, reads, current>>

Words == <<"lease_id", "generation", "lease_start", "written_through", "received_through">>
Blank == [i \in DOMAIN Words |-> 0]
NotReading == [at |-> 0, seq |-> 0, words |-> Blank, found |-> FALSE]

CellInit ==
    /\ cell = Blank /\ sequence = 0
    /\ writer = [at |-> 0, seq |-> 0] /\ published = 0
    /\ reader = NotReading /\ reads = 0
    /\ current = {}

----------------------------------------------------------------------------
(* publish: odd sequence, the words, even sequence.  `seq | 1` on an even
   sequence adds one. *)

OddSequence(seq) == IF seq % 2 = 1 THEN seq ELSE seq + 1

BeginPublish ==
    /\ writer.at = 0 /\ published < Len(Publications)
    /\ writer' = [at |-> 1, seq |-> OddSequence(sequence)]
    /\ sequence' = OddSequence(sequence)
    /\ UNCHANGED <<cell, published, reader, reads, current>>

StoreWord ==
    /\ writer.at \in DOMAIN Words
    /\ cell' = [cell EXCEPT ![writer.at] = Publications[published + 1]]
    /\ writer' = [writer EXCEPT !.at = @ + 1]
    /\ UNCHANGED <<sequence, published, reader, reads, current>>

EndPublish ==
    /\ writer.at = Len(Words) + 1
    /\ sequence' = writer.seq + 1
    /\ writer' = [writer EXCEPT !.at = 0]
    /\ published' = published + 1
    /\ current' = IF reader.at = 0 THEN current ELSE current \cup {Publications[published + 1]}
    /\ UNCHANGED <<cell, reader, reads>>

----------------------------------------------------------------------------
(* snapshot: retried while the sequence is odd or has moved. *)

Latest == IF published = 0 THEN 0 ELSE Publications[published]

LoadSequence ==
    /\ reader.at = 0 /\ ~reader.found /\ reads < MaxReads
    /\ sequence % 2 = 0
    /\ reader' = [NotReading EXCEPT !.at = 1, !.seq = sequence]
    /\ current' = {Latest}
    /\ UNCHANGED <<cell, sequence, writer, published, reads>>

LoadWord ==
    /\ reader.at \in DOMAIN Words
    /\ reader' = [reader EXCEPT !.words[reader.at] = cell[reader.at], !.at = @ + 1]
    /\ UNCHANGED <<cell, sequence, writer, published, reads, current>>

EvenAgain == reader.at = Len(Words) + 1 /\ sequence % 2 = 0

Unmoved == reader.at = Len(Words) + 1 /\ sequence = reader.seq

Accept ==
    /\ Unmoved
    /\ reader' = [reader EXCEPT !.at = 0, !.found = TRUE]
    /\ reads' = reads + 1
    /\ UNCHANGED <<cell, sequence, writer, published, current>>

Retry ==
    /\ reader.at = Len(Words) + 1 /\ ~Unmoved
    /\ reader' = NotReading
    /\ current' = {}
    /\ UNCHANGED <<cell, sequence, writer, published, reads>>

(* A record whose lease id is 0 reads as idle: the caller skips it. *)
Consume ==
    /\ reader.found
    /\ reader' = NotReading
    /\ current' = {}
    /\ UNCHANGED <<cell, sequence, writer, published, reads>>

CellNext ==
    \/ BeginPublish \/ StoreWord \/ EndPublish
    \/ LoadSequence \/ LoadWord \/ Accept \/ Retry \/ Consume

CellSpec == CellInit /\ [][CellNext]_cellVars

----------------------------------------------------------------------------
(* A snapshot is one publication, whole when the reader looked, never a mix
   of two: "lease id, generation and written-through offset always come from
   the same publication".  The live-tail split moves bytes on the strength of
   it. *)
SnapshotCoherent ==
    reader.found => \E record \in current : \A i \in DOMAIN Words : reader.words[i] = record
=============================================================================
