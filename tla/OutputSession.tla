--------------------------- MODULE OutputSession ---------------------------
(* The temporary file of a download and its publication: OutputSession of
   io/output_session.rs over FileSink of io/sink.rs, published by
   io/publish.rs, on a directory that other programs write to as well.  The
   process may die between any two file system calls. *)
EXTENDS Naturals, FiniteSets

CONSTANTS
    Size,           \* blocks of a whole representation
    MaxNode,        \* files the directory ever holds
    MaxWriters,     \* live write capabilities
    MaxRuns,        \* sessions begun
    MaxIntrusions,   \* interventions of another program
    MaxIoFaults,    \* failing file system calls
    StrangersAt     \* the steps of a session during which others may replace its file

NoNode == 0
Elsewhere == 1      \* a file of another program, outside the directory
Blocks == 0 .. Size - 1
Nodes == 1 .. MaxNode

(* Between the look that binds a file to the session and the session's last
   checkpoint nobody replaces the file: the code would not notice. *)
ASSUME SessionAssumption ==
    /\ Size \in Nat /\ MaxNode \in Nat \ {0} /\ MaxWriters \in Nat
    /\ MaxRuns \in Nat /\ MaxIntrusions \in Nat /\ MaxIoFaults \in Nat
    /\ {"validate", "prepare", "open"} \cap StrangersAt = {}

VARIABLES
    dir,            \* what the names "temp" and "dest" denote: a node, or NoNode
    nodes,          \* the files: whose they are, what they are, their blocks and length
    sess,           \* the output session
    lent,           \* the write-only capabilities: the file they hold and how many live
    mark,           \* the saved checkpoint: the file it binds to and the blocks it covers
    left            \* bounds: fresh nodes, runs, strangers and faults left

sessionVars == <<dir, nodes, sess, lent, mark, left>>

Closed == [pc |-> "idle", handle |-> NoNode, own |-> NoNode, seen |-> NoNode, shared |-> FALSE,
           keep |-> FALSE, finalized |-> FALSE, aborted |-> FALSE, accepted |-> {},
           known |-> TRUE, mode |-> "NoReplace"]
NoMark == [node |-> NoNode, blocks |-> {}]
PlainFile(mine, length) == [mine |-> mine, kind |-> "file", blocks |-> {}, len |-> length]

SessionInit ==
    /\ dir = [temp |-> NoNode, dest |-> NoNode]
    /\ nodes = [n \in Nodes |-> IF n = Elsewhere THEN PlainFile(FALSE, Size) ELSE PlainFile(TRUE, 0)]
    /\ sess = Closed
    /\ lent = [node |-> NoNode, alive |-> 0]
    /\ mark = NoMark
    /\ left = [node |-> 2, runs |-> MaxRuns, strangers |-> MaxIntrusions, faults |-> MaxIoFaults]

AtStep(pc) == sess.pc = pc
IoFault == left.faults > 0 /\ left' = [left EXCEPT !.faults = @ - 1]
Unfailing == UNCHANGED left

---------------------------------------------------------------------------
(* Files *)

links(n) == (IF dir.temp = n THEN 1 ELSE 0) + (IF dir.dest = n THEN 1 ELSE 0)

(* Mutant: the number of names is not looked at. *)
ValidateAnyNames == dir.temp # NoNode /\ nodes[dir.temp].kind = "file"

(* validate_owned_regular_file: a file of one name, never a link *)
validate_owned_regular_file ==
    /\ dir.temp # NoNode
    /\ nodes[dir.temp].kind = "file"
    /\ links(dir.temp) <= 1

(* What opening the temp name yields: a symbolic link is followed. *)
Opened == IF nodes[dir.temp].kind = "link" THEN Elsewhere ELSE dir.temp

(* Mutant: the opened file is not compared. *)
AnyFile(a, b) == TRUE

same_file_identity(a, b) == a = b

RemoveTemp(d) == [d EXCEPT !.temp = NoNode]
WriteBlock(n, b) ==
    nodes' = [nodes EXCEPT ![n].blocks = @ \cup {b},
                           ![n].len = IF @ > b THEN @ ELSE b + 1]

(* Drop of FileSink: the temp name goes away unless the file was finalized,
   aborted or is to be kept; a failing removal is ignored. *)
Dropped(s, failing) ==
    IF s.finalized \/ s.aborted \/ s.keep \/ failing THEN dir ELSE RemoveTemp(dir)

EndSession(s, failing) == sess' = Closed /\ dir' = Dropped(s, failing)

---------------------------------------------------------------------------
(* A fresh output: create_exclusive, then prepare *)

Begin ==
    /\ AtStep("idle") /\ left.runs > 0 /\ lent.alive = 0
    /\ left' = [left EXCEPT !.runs = @ - 1]
    /\ \E mode \in {"NoReplace", "Replace"}, known \in BOOLEAN :
          /\ mode = "NoReplace" => dir.dest = NoNode
          /\ sess' = [Closed EXCEPT !.pc = "admit", !.mode = mode, !.known = known]
    /\ UNCHANGED <<dir, nodes, lent, mark>>

(* verify_local_binding and the owned-file check admit the checkpoint; without
   them the run starts afresh, after the restart state is deleted. *)
verify_local_binding == mark.node = dir.temp

(* A stream goes on from the end of the covered prefix; segments reuse all. *)
Prefix(blocks) == {b \in blocks : 0 .. b \subseteq blocks}
Reusable == IF sess.known THEN mark.blocks ELSE Prefix(mark.blocks)

Admit ==
    /\ AtStep("admit")
    /\ \/ /\ mark # NoMark /\ validate_owned_regular_file /\ verify_local_binding
          /\ sess' = [sess EXCEPT !.pc = "validate", !.accepted = Reusable]
          /\ UNCHANGED mark
       \/ /\ sess' = [sess EXCEPT !.pc = "create"]
          /\ mark' = NoMark
    /\ UNCHANGED <<dir, nodes, lent, left>>

(* Whatever holds the temp name is unlinked, never opened. *)
Unlink ==
    /\ AtStep("create")
    /\ \/ dir' = RemoveTemp(dir) /\ sess' = [sess EXCEPT !.pc = "create_new"] /\ Unfailing
       \/ IoFault /\ sess' = Closed /\ UNCHANGED dir
    /\ UNCHANGED <<nodes, lent, mark>>

(* create_new fails when another entry has appeared. *)
CreateNew ==
    /\ AtStep("create_new")
    /\ \/ /\ dir.temp = NoNode /\ left.node <= MaxNode
          /\ dir' = [dir EXCEPT !.temp = left.node]
          /\ sess' = [sess EXCEPT !.pc = "prepare", !.handle = left.node, !.own = left.node]
          /\ left' = [left EXCEPT !.node = @ + 1]
       \/ dir.temp # NoNode /\ sess' = Closed /\ UNCHANGED <<dir, left>>
    /\ UNCHANGED <<nodes, lent, mark>>

(* Preallocation sets the length of a file whose length is known; where it is
   unsupported nothing changes, and a real error drops the new file. *)
Prepare ==
    /\ AtStep("prepare")
    /\ \E resumable \in BOOLEAN :
          LET open == [sess EXCEPT !.pc = "open", !.keep = resumable] IN
          \/ /\ sess.known /\ sess' = open
             /\ nodes' = [nodes EXCEPT ![sess.handle].len = Size]
             /\ Unfailing /\ UNCHANGED dir
          \/ sess' = open /\ Unfailing /\ UNCHANGED <<dir, nodes>>
          \/ sess.known /\ IoFault /\ EndSession(sess, FALSE) /\ UNCHANGED nodes
    /\ UNCHANGED <<lent, mark>>

---------------------------------------------------------------------------
(* A resumed output: open_owned looks at the name, opens it, and looks again *)

Refused == sess' = Closed

Validate ==
    /\ AtStep("validate")
    /\ IF validate_owned_regular_file
       THEN sess' = [sess EXCEPT !.pc = "opening", !.seen = dir.temp]
       ELSE Refused
    /\ UNCHANGED <<dir, nodes, lent, mark, left>>

OpenFile ==
    /\ AtStep("opening")
    /\ IF dir.temp # NoNode /\ same_file_identity(sess.seen, Opened)
       THEN sess' = [sess EXCEPT !.pc = "opened", !.handle = Opened]
       ELSE Refused
    /\ UNCHANGED <<dir, nodes, lent, mark, left>>

Recheck ==
    /\ AtStep("opened")
    /\ IF same_file_identity(sess.handle, dir.temp)
       THEN sess' = [sess EXCEPT !.pc = "open", !.own = sess.handle, !.keep = TRUE, !.seen = NoNode]
       ELSE Refused
    /\ UNCHANGED <<dir, nodes, lent, mark, left>>

---------------------------------------------------------------------------
(* Writing *)

Exclusive == AtStep("open") /\ ~sess.shared

(* The sequential write needs the handle to itself. *)
write_at ==
    /\ Exclusive /\ lent.alive = 0
    /\ \E b \in Blocks :
          /\ b \notin sess.accepted
          /\ \A earlier \in 0 .. b : earlier < b => earlier \in sess.accepted
          /\ \/ /\ WriteBlock(sess.handle, b) /\ Unfailing
                /\ sess' = [sess EXCEPT !.accepted = @ \cup {b}]
             \/ IoFault /\ UNCHANGED <<nodes, sess>>
    /\ UNCHANGED <<dir, lent, mark>>

share_write_handles ==
    /\ Exclusive /\ sess.known /\ lent.alive = 0
    /\ \E count \in 1 .. MaxWriters : lent' = [node |-> sess.handle, alive |-> count]
    /\ sess' = [sess EXCEPT !.shared = TRUE]
    /\ UNCHANGED <<dir, nodes, mark, left>>

clone_capability ==
    /\ lent.alive \in 1 .. MaxWriters - 1
    /\ lent' = [lent EXCEPT !.alive = @ + 1]
    /\ UNCHANGED <<dir, nodes, sess, mark, left>>

(* A capability writes whatever became of the session that lent it. *)
write_blocking ==
    /\ lent.alive > 0
    /\ \E b \in Blocks :
          /\ WriteBlock(lent.node, b)
          /\ sess' = IF sess.shared THEN [sess EXCEPT !.accepted = @ \cup {b}] ELSE sess
    /\ UNCHANGED <<dir, lent, mark, left>>

DropCapability ==
    /\ lent.alive > 0
    /\ lent' = [node |-> IF lent.alive = 1 THEN NoNode ELSE lent.node, alive |-> lent.alive - 1]
    /\ UNCHANGED <<dir, nodes, sess, mark, left>>

Unwritten(alive) == alive = 0

reclaim_exclusive ==
    /\ AtStep("open") /\ sess.shared /\ Unwritten(lent.alive)
    /\ sess' = [sess EXCEPT !.shared = FALSE]
    /\ UNCHANGED <<dir, nodes, lent, mark, left>>

(* A checkpoint binds to the file the temp name denotes. *)
SaveMark ==
    /\ AtStep("open") /\ sess.accepted # {}
    /\ mark' = [node |-> dir.temp, blocks |-> sess.accepted]
    /\ sess' = [sess EXCEPT !.keep = TRUE]
    /\ UNCHANGED <<dir, nodes, lent, left>>

(* preserve_partial, as pausing and cancelling with KeepPartial do *)
preserve_partial ==
    /\ AtStep("open") /\ sess' = [sess EXCEPT !.keep = TRUE]
    /\ UNCHANGED <<dir, nodes, lent, mark, left>>

(* abort closes and deletes the file; when the removal fails the drop that
   follows tries once more.  The caller may delete the checkpoint as well. *)
abort ==
    /\ Exclusive
    /\ \/ dir' = RemoveTemp(dir) /\ sess' = Closed /\ Unfailing
       \/ IoFault /\ \E failing \in BOOLEAN : EndSession(sess, failing)
    /\ mark' \in {mark, NoMark}
    /\ UNCHANGED <<nodes, lent>>

(* A failed body starts over: from the acknowledged prefix, whose file is kept
   and opened again, or from nothing, the file aborted and created anew. *)
RestartFromDurable ==
    /\ Exclusive /\ 0 \in sess.accepted
    /\ sess' = [sess EXCEPT !.pc = "validate", !.accepted = Prefix(@), !.handle = NoNode]
    /\ UNCHANGED <<dir, nodes, lent, mark, left>>

RestartFromZero ==
    /\ Exclusive /\ 0 \notin sess.accepted
    /\ sess' = [sess EXCEPT !.pc = "create", !.accepted = {}, !.handle = NoNode, !.keep = FALSE]
    /\ \/ dir' = RemoveTemp(dir) /\ Unfailing
       \/ IoFault /\ UNCHANGED dir
    /\ UNCHANGED <<nodes, lent, mark>>

Drop ==
    /\ sess.pc \in {"open", "verified", "finalized"}
    /\ EndSession(sess, FALSE)
    /\ UNCHANGED <<nodes, lent, mark, left>>

---------------------------------------------------------------------------
(* Completion: verify, finalize, publish *)

(* complete_verified_output on the open file: a known length must match what
   was accepted, an unknown one is cut to it. *)
Accepted == Cardinality(sess.accepted)

Verify ==
    /\ Exclusive
    /\ IF sess.known
       THEN sess.accepted = Blocks /\ nodes[sess.handle].len = Size /\ UNCHANGED nodes
       ELSE /\ sess.accepted # {}
            /\ nodes' = [nodes EXCEPT ![sess.handle].len = Accepted,
                                      ![sess.handle].blocks = @ \cap 0 .. Accepted - 1]
    /\ sess' = [sess EXCEPT !.pc = "verified"]
    /\ UNCHANGED <<dir, lent, mark, left>>

(* finalize synchronizes and closes the handle *)
finalize ==
    /\ AtStep("verified")
    /\ \/ /\ sess' = [sess EXCEPT !.pc = "finalized", !.finalized = TRUE, !.handle = NoNode]
          /\ Unfailing /\ UNCHANGED dir
       \/ IoFault /\ EndSession(sess, FALSE)
    /\ UNCHANGED <<nodes, lent, mark>>

(* commit_with_policy takes the identity of the handle, if it is still open,
   and publish_verified compares the entry with it. *)
Identity == sess.handle
commit_with_policy ==
    /\ AtStep("finalized") /\ ~sess.shared
    /\ sess' = IF Identity # NoNode => dir.temp = Identity
               THEN [sess EXCEPT !.pc = "publish", !.handle = NoNode]
               ELSE Closed
    /\ UNCHANGED <<dir, nodes, lent, mark, left>>

(* A rename replaces the destination; a hard link does not, and leaves the
   temp name to be removed afterwards. *)
Rename ==
    /\ AtStep("publish") /\ sess.mode = "Replace" /\ dir.temp # NoNode
    /\ dir' = [temp |-> NoNode, dest |-> dir.temp]
    /\ sess' = [sess EXCEPT !.pc = "published"]
    /\ UNCHANGED <<nodes, lent, mark, left>>

HardLink ==
    /\ AtStep("publish") /\ sess.mode = "NoReplace" /\ dir.temp # NoNode /\ dir.dest = NoNode
    /\ dir' = [dir EXCEPT !.dest = dir.temp]
    /\ sess' = [sess EXCEPT !.pc = "linked"]
    /\ UNCHANGED <<nodes, lent, mark, left>>

PublishFails ==
    /\ AtStep("publish")
    /\ \/ dir.temp = NoNode /\ Unfailing
       \/ sess.mode = "NoReplace" /\ dir.dest # NoNode /\ Unfailing
       \/ IoFault
    /\ sess' = Closed
    /\ UNCHANGED <<dir, nodes, lent, mark>>

RemoveLink ==
    /\ AtStep("linked")
    /\ \/ dir' = RemoveTemp(dir) /\ Unfailing
       \/ IoFault /\ UNCHANGED dir
    /\ sess' = [sess EXCEPT !.pc = "published"]
    /\ UNCHANGED <<nodes, lent, mark>>

(* The checkpoint goes last, and may stay behind. *)
DeleteMark ==
    /\ AtStep("published")
    /\ \/ mark' = NoMark /\ Unfailing
       \/ IoFault /\ UNCHANGED mark
    /\ sess' = Closed
    /\ UNCHANGED <<dir, nodes, lent>>

---------------------------------------------------------------------------
(* The process dies; another program replaces the partial by a file or a link
   of its own, or takes the destination's name. *)

Crash ==
    /\ ~AtStep("idle")
    /\ sess' = Closed /\ lent' = [node |-> NoNode, alive |-> 0]
    /\ UNCHANGED <<dir, nodes, mark, left>>

Intrude ==
    /\ left.strangers > 0 /\ left.node <= MaxNode
    /\ \E name \in {"temp", "dest"}, kind \in {"file", "link"} :
          /\ name = "temp" => sess.pc \in StrangersAt
          /\ name = "dest" => dir.dest = NoNode /\ kind = "file"
          /\ dir' = [dir EXCEPT ![name] = left.node]
          /\ nodes' = [nodes EXCEPT ![left.node] = [PlainFile(FALSE, Size) EXCEPT !.kind = kind]]
    /\ left' = [left EXCEPT !.strangers = @ - 1, !.node = @ + 1]
    /\ UNCHANGED <<sess, lent, mark>>

SessionNext ==
    \/ Begin \/ Admit \/ Unlink \/ CreateNew \/ Prepare \/ Validate \/ OpenFile \/ Recheck
    \/ write_at \/ share_write_handles \/ clone_capability \/ write_blocking \/ DropCapability
    \/ reclaim_exclusive \/ SaveMark \/ preserve_partial \/ abort \/ Drop
    \/ RestartFromDurable \/ RestartFromZero
    \/ Verify \/ finalize \/ commit_with_policy \/ Rename \/ HardLink \/ PublishFails
    \/ RemoveLink \/ DeleteMark \/ Crash \/ Intrude

SessionSpec == SessionInit /\ [][SessionNext]_sessionVars

---------------------------------------------------------------------------

(* What another program owns is never written to: neither a file it puts in
   the place of the partial, nor the target of a link it puts there (open_owned:
   "a replacement between check and open fails closed"). *)
OthersUntouched == \A n \in Nodes : ~nodes[n].mine => nodes[n].blocks = {}

(* Once the destination names a file of the engine, nothing writes to that
   file again: not a capability that is still out, and not the run that resumes
   after a crash between publication by link and the removal of the temp name. *)
PublishedSealed ==
    [][dir.dest # NoNode /\ nodes[dir.dest].mine => nodes'[dir.dest] = nodes[dir.dest]]_sessionVars
=============================================================================
