--------------------------- MODULE JobPauseProofs ---------------------------
(* Proofs about SegmentedJob, second part: what a pause relies on.  The
   invariant PauseInv follows a worker from the pause it notices, through the
   save it asks for and waits for, to its rest; every step of the other workers
   and of the coordinator keeps it. *)
EXTENDS JobStepProofs

-----------------------------------------------------------------------------
(* What a step does to the leases of the other workers. *)

(* What a step of others may do to a worker's lease: shorten it, take it away
   with a new generation, and move its frontier to what its holder published. *)
Tame(v) ==
    /\ Kept(held[v].id)
    /\ generation' = 1 /\ held[v].id \in DOMAIN active => held[v].id \in DOMAIN active'
    /\ held[v].id \in DOMAIN active' =>
          \/ active'[held[v].id].next = active[held[v].id].next
          \/ cell[v].lease = held[v].id /\ active'[held[v].id].next <= cell[v].written

(* A worker that has published something holds a lease, a live one in the
   first generation. *)
LEMMA Publishes ==
    ASSUME JobInv, LeasesOK, NEW v \in Workers, PauseSound(v), cell[v].lease # 0
    PROVE  /\ pc[v] \in Busy /\ HasLease(v) /\ cell[v].lease = held[v].id
           /\ generation = 1 => held[v].id \in DOMAIN active
<1>1. WorkerSound(v)
  BY ONLY JobInv, v \in Workers, Zenon DEF JobInv
<1>2. cell[v].lease = held[v].id
  BY ONLY <1>1, cell[v].lease # 0, Zenon DEF WorkerSound, CellSound
<1>3. pc[v] \in Busy /\ HasLease(v)
  BY ONLY <1>1, <1>2, cell[v].lease # 0 DEF WorkerSound, NoLease
<1>4. generation = 1 => held[v].id \in DOMAIN active
  BY ONLY <1>3, PauseSound(v), Zenon DEF PauseSound
<1> QED BY ONLY <1>2, <1>3, <1>4, Zenon

(* What is covered stays covered: a lease only gets shorter. *)
LEMMA StaysCovered ==
    ASSUME JobInv, LeasesOK, LeasesOK', Ages, NEW v \in Workers, PauseSound(v), Same(v), Tame(v),
           NEW S, Covered(v, S), NEW T, S \subseteq T
    PROVE  generation' = 1 /\ cell'[v].lease # 0 => Owned(v)' \subseteq T
<1> SUFFICES ASSUME generation' = 1, cell'[v].lease # 0 PROVE Owned(v)' \subseteq T
  BY Zenon
<1>1. generation = 1 /\ held'[v] = held[v] /\ cell'[v] = cell[v] /\ cell[v].lease # 0
  BY ONLY generation' = 1, cell'[v].lease # 0, Ages, Same(v) DEF Ages, Same
<1>2. held[v].id \in DOMAIN active
  BY ONLY JobInv, LeasesOK, v \in Workers, PauseSound(v), <1>1, Publishes, Zenon
<1>3. held[v].id \in DOMAIN active' /\ active'[held[v].id].end <= active[held[v].id].end
  BY ONLY <1>2, generation' = 1, Tame(v), Zenon DEF Tame, Kept
<1>4. active[held[v].id].end \in Nat /\ active'[held[v].id].end \in Nat
  BY ONLY <1>2, <1>3, LeasesOK, LeasesOK', Zenon DEF LeasesOK
<1>5. cell[v].written \in Nat /\ held[v].start \in Nat
  BY ONLY JobInv, v \in Workers, Zenon DEF JobInv, Types
<1>6. Owned(v)' \subseteq Owned(v)
  BY ONLY <1>1, <1>3, <1>4, <1>5 DEF Owned, Min2
<1>7. Owned(v) \subseteq S
  BY ONLY <1>1, Covered(v, S), Zenon DEF Covered
<1> QED BY ONLY <1>6, <1>7, S \subseteq T, Zenon

(* The part of PauseSound about the lease itself. *)
LeaseSound(w) ==
    /\ generation = 1 /\ pc[w] \in Busy => held[w].id \in DOMAIN active
    /\ pc[w] = "request" /\ held[w].id \in DOMAIN active => active[held[w].id].next = held[w].start
    /\ pc[w] \in Receiving =>
          /\ cell[w].lease # 0 => cell[w].written = xfer[w].pos
          /\ held[w].id \in DOMAIN active => active[held[w].id].next <= xfer[w].pos

(* A worker that only looks on keeps it. *)
LEMMA LeaseStays ==
    ASSUME JobInv, LeasesOK, Ages, NEW v \in Workers, PauseSound(v), Same(v), Tame(v)
    PROVE  LeaseSound(v)'
<1>1. pc'[v] = pc[v] /\ held'[v] = held[v] /\ xfer'[v] = xfer[v] /\ cell'[v] = cell[v]
  BY ONLY Same(v), Zenon DEF Same
<1>2. LeaseSound(v)
  BY ONLY PauseSound(v), Zenon DEF PauseSound, LeaseSound
<1>3. generation' = 1 => generation = 1
  BY ONLY Ages DEF Ages
<1>4. /\ generation' = 1 /\ held[v].id \in DOMAIN active => held[v].id \in DOMAIN active'
      /\ held[v].id \in DOMAIN active' => held[v].id \in DOMAIN active
      /\ held[v].id \in DOMAIN active' =>
          \/ active'[held[v].id].next = active[held[v].id].next
          \/ cell[v].lease = held[v].id /\ active'[held[v].id].next <= cell[v].written
  BY ONLY Tame(v), Zenon DEF Tame, Kept
<1>5. pc[v] \in Busy => 0 < held[v].id /\ held[v].id \in Nat
  BY ONLY JobInv, v \in Workers, Zenon DEF JobInv, WorkerSound, HasLease, Types
<1>6. pc[v] = "request" => cell[v].lease = 0
  BY ONLY JobInv, v \in Workers, Zenon DEF JobInv, WorkerSound, CellSound
<1>7. generation' = 1 /\ pc'[v] \in Busy => held'[v].id \in DOMAIN active'
  BY ONLY <1>1, <1>2, <1>3, <1>4, Zenon DEF LeaseSound
<1>8. pc'[v] = "request" /\ held'[v].id \in DOMAIN active' => active'[held'[v].id].next = held'[v].start
  <2>1. "request" \in Busy
    BY ONLY Zenon DEF Busy
  <2> QED BY ONLY <1>1, <1>2, <1>4, <1>5, <1>6, <2>1 DEF LeaseSound
<1>9. pc'[v] \in Receiving =>
          /\ cell'[v].lease # 0 => cell'[v].written = xfer'[v].pos
          /\ held'[v].id \in DOMAIN active' => active'[held'[v].id].next <= xfer'[v].pos
  <2>1. pc[v] \in Receiving => pc[v] \in Busy
    BY ONLY Zenon DEF Busy
  <2> QED BY ONLY <1>1, <1>2, <1>4, <1>5, <2>1, SMTT(30) DEF LeaseSound
<1> QED BY ONLY <1>7, <1>8, <1>9, Zenon DEF LeaseSound

(* A step of another worker leaves a worker's pause alone. *)
LEMMA PauseBystander ==
    ASSUME JobInv, LeasesOK, LeasesOK', Ages, NEW v \in Workers, PauseSound(v), Same(v), Tame(v),
           v \in queue' <=> v \in queue, reply'[v] = reply[v], coord' = coord, checkpoint' = checkpoint
    PROVE  PauseSound(v)'
<1>1. pc'[v] = pc[v]
  BY ONLY Same(v), Zenon DEF Same
<1>2. LeaseSound(v)'
  BY ONLY JobInv, LeasesOK, Ages, v \in Workers, PauseSound(v), Same(v), Tame(v), LeaseStays, Zenon
<1>3. Saving' <=> Saving
  BY ONLY coord' = coord, Zenon DEF Saving
<1>4. ASSUME Saving, coord.for = v PROVE Covered(v, coord.ranges)'
  <2>1. Covered(v, coord.ranges)
    BY ONLY PauseSound(v), <1>4, Zenon DEF PauseSound
  <2>2. generation' = 1 /\ cell'[v].lease # 0 => Owned(v)' \subseteq coord.ranges
    BY ONLY JobInv, LeasesOK, LeasesOK', Ages, v \in Workers, PauseSound(v), Same(v), Tame(v), <2>1, StaysCovered, Zenon
  <2> QED BY ONLY <2>2, coord' = coord, Zenon DEF Covered
<1>5. ASSUME reply[v] = "ok" \/ pc[v] = "paused" PROVE Covered(v, checkpoint)'
  <2>1. Covered(v, checkpoint)
    BY ONLY PauseSound(v), <1>5, Zenon DEF PauseSound
  <2>2. generation' = 1 /\ cell'[v].lease # 0 => Owned(v)' \subseteq checkpoint
    BY ONLY JobInv, LeasesOK, LeasesOK', Ages, v \in Workers, PauseSound(v), Same(v), Tame(v), <2>1, StaysCovered, Zenon
  <2> QED BY ONLY <2>2, checkpoint' = checkpoint DEF Covered
<1> QED BY ONLY PauseSound(v), v \in queue' <=> v \in queue, reply'[v] = reply[v], coord' = coord,
               <1>1, <1>2, <1>3, <1>4, <1>5, Zenon DEF PauseSound, LeaseSound

(* Two workers hold different leases, and all of them were handed out. *)
LEMMA HoldsOther ==
    ASSUME JobInv, LeasesOK, NEW w \in Workers, NEW v \in Workers \ {w}
    PROVE  /\ held[v].id \in Nat /\ nextLease \in Nat /\ (held[v].id < nextLease \/ held[v].id = 0)
           /\ pc[w] \in Busy => held[v].id # held[w].id
<1>1. WorkerSound(v) /\ WorkerSound(w) /\ LeasesHeld /\ Types
  BY ONLY JobInv, w \in Workers, v \in Workers \ {w}, Zenon DEF JobInv
<1>2. held[v].id \in Nat /\ held[w].id \in Nat /\ nextLease \in Nat
  BY ONLY <1>1, LeasesOK, w \in Workers, v \in Workers \ {w}, Zenon DEF Types, LeasesOK
<1>3. held[v].id < nextLease \/ held[v].id = 0
  BY ONLY <1>1 DEF WorkerSound, HasLease, NoLease
<1>4. pc[w] \in Busy => held[v].id # held[w].id
  <2>1. pc[w] \in Busy => held[w].id # 0
    BY ONLY <1>1, <1>2 DEF WorkerSound, HasLease
  <2> QED BY ONLY <1>1, <2>1, w \in Workers, v \in Workers \ {w}, Zenon DEF LeasesHeld
<1> QED BY ONLY <1>2, <1>3, <1>4, Zenon

(* A step that leaves the scheduler alone is tame. *)
LEMMA TameQuiet ==
    ASSUME LeasesOK, UNCHANGED schedVars, NEW v \in Workers
    PROVE  Tame(v)
<1>1. active' = active /\ generation' = generation
  BY ONLY UNCHANGED schedVars, Zenon DEF schedVars
<1>2. held[v].id \in DOMAIN active => active[held[v].id].end <= active[held[v].id].end
  BY ONLY LeasesOK DEF LeasesOK
<1> QED BY ONLY <1>1, <1>2, Zenon DEF Tame, Kept

(* So is taking a new lease. *)
LEMMA TameTaken ==
    ASSUME JobInv, LeasesOK, LeasesOK', NEW w \in Workers, Taken(w), NEW v \in Workers \ {w}
    PROVE  Tame(v)
<1>1. held[v].id # nextLease \/ held[v].id = 0
  BY ONLY JobInv, LeasesOK, w \in Workers, v \in Workers \ {w}, HoldsOther
<1>2. 0 \notin DOMAIN active /\ 0 < nextLease
  <2>1. nextLease \in DOMAIN active'
    BY ONLY Taken(w), Zenon DEF Taken
  <2> QED BY ONLY LeasesOK, LeasesOK', <2>1 DEF LeasesOK
<1>3. held[v].id \in DOMAIN active' => held[v].id \in DOMAIN active
  BY ONLY <1>1, <1>2, Taken(w) DEF Taken
<1> QED BY ONLY <1>3, Taken(w), Zenon DEF Tame, Kept, Taken

(* So is giving one's own lease up, unless it is for a new generation. *)
LEMMA TameGone ==
    ASSUME JobInv, LeasesOK, NEW w \in Workers, pc[w] \in Busy, NEW v \in Workers \ {w},
           Ages, Gone(w)
    PROVE  Tame(v)
<1>1. held[v].id # held[w].id
  BY ONLY JobInv, LeasesOK, w \in Workers, pc[w] \in Busy, v \in Workers \ {w}, HoldsOther, Zenon
<1>2. \A i \in DOMAIN active' : i \in DOMAIN active /\ active'[i] = active[i] /\ active[i].end <= active[i].end
  BY ONLY LeasesOK, Gone(w) DEF Gone, LeasesOK
<1>3. DOMAIN active \ {held[w].id} \subseteq DOMAIN active' \/ generation' # 1
  BY ONLY Ages, Gone(w) DEF Ages, Gone
<1> QED BY ONLY <1>1, <1>2, <1>3, Zenon DEF Tame, Kept

(* So is absorbing the cells. *)
LEMMA TameReconcile ==
    ASSUME JobInv, LeasesOK, LeasesOK', Reconcile, written' = written, NEW v \in Workers
    PROVE  Tame(v)
<1>1. Absorbed /\ \A i \in DOMAIN active : Kept(i)
  BY ONLY JobInv, LeasesOK, LeasesOK', Reconcile, written' = written, ReconcileKeeps, Zenon
<1>2. \A i \in DOMAIN active :
         \/ active'[i] = active[i]
         \/ \E w \in Workers :
               /\ cell[w].lease = i /\ held[w].id = i
               /\ active'[i] = Advance(active[i], cell[w].written)
  BY ONLY JobInv, LeasesOK, Reconcile, ReconcileIs, Zenon
<1>3. Kept(held[v].id) /\ (held[v].id \in DOMAIN active => held[v].id \in DOMAIN active')
  BY ONLY <1>1, Zenon DEF Kept, Absorbed
<1>4. ASSUME held[v].id \in DOMAIN active'
      PROVE  \/ active'[held[v].id].next = active[held[v].id].next
             \/ cell[v].lease = held[v].id /\ active'[held[v].id].next <= cell[v].written
  <2>1. held[v].id \in DOMAIN active
    BY ONLY <1>4, <1>1, Zenon DEF Absorbed
  <2>2. ASSUME NEW w \in Workers, cell[w].lease = held[v].id, held[w].id = held[v].id,
               active'[held[v].id] = Advance(active[held[v].id], cell[w].written)
        PROVE  <1>4!2
    <3>1. w = v
      <4>1. LeasesHeld /\ held[w].id \in DOMAIN active /\ held[w].id # 0
        BY ONLY JobInv, LeasesOK, <2>1, <2>2, SMTT(30) DEF JobInv, LeasesOK
      <4> QED BY ONLY <4>1, <2>2, w \in Workers, v \in Workers, Zenon DEF LeasesHeld
    <3>2. cell[w].written \in Nat
      BY ONLY JobInv, w \in Workers, Zenon DEF JobInv, Types
    <3>3. LET l == Advance(active[held[v].id], cell[w].written)
          IN  l.next = active[held[v].id].next \/ l.next <= cell[w].written
      BY ONLY LeasesOK, <2>1, <3>2, AdvanceIs, Zenon
    <3> QED BY ONLY <2>2, <3>1, <3>3
  <2> QED BY ONLY <1>2, <2>1, <2>2, Zenon
<1> QED BY ONLY <1>3, <1>4, Zenon DEF Tame

(* A worker that does not wait for a save is in none. *)
Apart(w) ==
    /\ queue' = queue /\ reply' = reply /\ coord' = coord /\ checkpoint' = checkpoint
    /\ pc[w] # "awaitSave" /\ pc'[w] \notin {"awaitSave", "paused"}

(* Its steps keep PauseInv if they keep what it says of its lease. *)
LEMMA PauseApart ==
    ASSUME JobInv, LeasesOK, LeasesOK', Ages, PauseInv, NEW w \in Workers, Apart(w), LeaseSound(w)',
           \A v \in Workers \ {w} : Same(v) /\ Tame(v)
    PROVE  PauseInv'
<1>1. /\ queue' = queue /\ reply' = reply /\ coord' = coord /\ checkpoint' = checkpoint
      /\ pc[w] # "awaitSave" /\ pc'[w] \notin {"awaitSave", "paused"}
  BY ONLY Apart(w), Zenon DEF Apart
<1>2. ASSUME NEW v \in Workers \ {w} PROVE PauseSound(v)'
  <2>1. PauseSound(v) /\ v \in Workers
    BY ONLY PauseInv, <1>2, SMTT(30) DEF PauseInv
  <2> QED BY ONLY JobInv, LeasesOK, LeasesOK', Ages, <1>1, <2>1, PauseBystander,
                  \A u \in Workers \ {w} : Same(u) /\ Tame(u), <1>2, Zenon
<1>3. PauseSound(w)'
  <2>1. PauseSound(w)
    BY ONLY PauseInv, w \in Workers, Zenon DEF PauseInv
  <2>2. w \notin queue /\ ~(Saving /\ coord.for = w) /\ reply[w] = "none"
    BY ONLY <1>1, <2>1 DEF PauseSound
  <2> QED BY ONLY <1>1, <2>2, LeaseSound(w)', Zenon DEF PauseSound, LeaseSound, Saving
<1> QED BY ONLY PauseInv, <1>1, <1>2, <1>3, w \in Workers DEF PauseInv

-----------------------------------------------------------------------------
(* The pause, one step of a worker after the other. *)

(* The step of a worker that stays where it is needed: it moves, and the
   scheduler does not. *)
LEMMA PauseQuiet ==
    ASSUME JobInv, LeasesOK, LeasesOK', Ages, PauseInv, NEW w \in Workers, Apart(w), Quiet(w), LeaseSound(w)'
    PROVE  PauseInv'
<1>1. \A v \in Workers \ {w} : Same(v) /\ Tame(v)
  BY ONLY LeasesOK, Quiet(w), TameQuiet DEF Quiet, Same
<1> QED BY ONLY JobInv, LeasesOK, LeasesOK', Ages, PauseInv, w \in Workers, Apart(w), LeaseSound(w)', <1>1, PauseApart, Zenon

(* The moves that are not about a save. *)
LEMMA PauseMoves ==
    ASSUME JobInv, LeasesOK, LeasesOK', Ages, PauseInv, NEW w \in Workers, NEW to, MoveTo(w, to),
           Plain(pc[w], to), Apart(w)
    PROVE  PauseInv'
<1>1. PauseSound(w) /\ Types
  BY ONLY JobInv, PauseInv, w \in Workers, Zenon DEF PauseInv, JobInv
<1>2. /\ UNCHANGED <<schedVars, held, xfer, cell, written, scenario>>
      /\ pc'[w] = to /\ \A v \in Workers \ {w} : pc'[v] = pc[v]
  BY ONLY <1>1, MoveTo(w, to), w \in Workers, Zenon DEF MoveTo, Types
<1>3. Quiet(w)
  BY ONLY <1>2, Zenon DEF Quiet
<1>4. LeaseSound(w)'
  <2>1. active' = active /\ generation' = generation /\ held' = held /\ xfer' = xfer /\ cell' = cell
    BY ONLY <1>2, Zenon DEF schedVars
  <2>2. /\ to \in Busy => pc[w] \in Busy
        /\ to = "request" => pc[w] = "request"
        /\ to \in Receiving => pc[w] \in Receiving
    BY ONLY Plain(pc[w], to), Zenon DEF Plain
  <2> QED BY ONLY <1>1, <1>2, <2>1, <2>2, Zenon DEF PauseSound, LeaseSound
<1> QED BY ONLY JobInv, LeasesOK, LeasesOK', Ages, PauseInv, w \in Workers, Apart(w), <1>3, <1>4, PauseQuiet, Zenon

(* A worker that reads or writes stays between the start of its lease and what
   it has published. *)
LEMMA PauseTransfer ==
    ASSUME JobInv, LeasesOK, LeasesOK', Ages, PauseInv, NEW w \in Workers, Apart(w), Quiet(w),
           pc[w] \in Receiving \cup {"request"}, pc'[w] \in Busy \ {"request"},
           pc[w] \in Receiving => xfer[w].pos <= xfer'[w].pos /\ xfer'[w].pos \in Nat,
           pc[w] = "request" => xfer'[w].pos = held[w].start,
           (cell'[w] = cell[w] /\ (pc[w] \in Receiving => xfer'[w].pos = xfer[w].pos))
              \/ cell'[w].written = xfer'[w].pos
    PROVE  PauseInv'
<1>1. PauseSound(w) /\ Types /\ WorkerSound(w)
  BY ONLY JobInv, PauseInv, w \in Workers, Zenon DEF PauseInv, JobInv
<1>2. active' = active /\ generation' = generation /\ held' = held
  BY ONLY Quiet(w), Zenon DEF Quiet, schedVars
<1>3. pc[w] \in Busy
  BY ONLY pc[w] \in Receiving \cup {"request"}, Zenon DEF Busy
<1>4. /\ held[w].id \in DOMAIN active => active[held[w].id].next \in Nat
      /\ held[w].start \in Nat /\ xfer[w].pos \in Nat
  BY ONLY LeasesOK, <1>1, w \in Workers, Zenon DEF LeasesOK, Types
<1>5. held[w].id \in DOMAIN active => active[held[w].id].next <= xfer'[w].pos
  <2>1. CASE pc[w] = "request"
    BY ONLY <1>1, <1>4, <2>1, pc[w] = "request" => xfer'[w].pos = held[w].start, SMTT(30) DEF PauseSound
  <2>2. CASE pc[w] \in Receiving
    BY ONLY <1>1, <1>4, <2>2, pc[w] \in Receiving => xfer[w].pos <= xfer'[w].pos /\ xfer'[w].pos \in Nat, SMTT(30) DEF PauseSound
  <2> QED BY ONLY <2>1, <2>2, pc[w] \in Receiving \cup {"request"}
<1>6. cell'[w].lease # 0 => cell'[w].written = xfer'[w].pos
  <2>1. CASE pc[w] = "request" /\ cell'[w] = cell[w]
    BY ONLY <1>1, <2>1, SMTT(30) DEF WorkerSound, CellSound
  <2>2. CASE pc[w] \in Receiving /\ cell'[w] = cell[w] /\ xfer'[w].pos = xfer[w].pos
    BY ONLY <1>1, <2>2, Zenon DEF PauseSound
  <2> QED BY ONLY <2>1, <2>2, pc[w] \in Receiving \cup {"request"},
                  (cell'[w] = cell[w] /\ (pc[w] \in Receiving => xfer'[w].pos = xfer[w].pos))
                     \/ cell'[w].written = xfer'[w].pos, Zenon
<1>7. LeaseSound(w)'
  BY ONLY <1>1, <1>2, <1>3, <1>5, <1>6, pc'[w] \in Busy \ {"request"}, Zenon DEF PauseSound, LeaseSound
<1> QED BY ONLY JobInv, LeasesOK, LeasesOK', Ages, PauseInv, w \in Workers, Apart(w), Quiet(w), <1>7, PauseQuiet

(* A worker that leaves its lease has nothing left to pause. *)
LEMMA PauseLeaves ==
    ASSUME JobInv, LeasesOK, LeasesOK', Ages, PauseInv, NEW w \in Workers, Apart(w), pc[w] \in Busy,
           NEW to \in WorkerStates \ Busy, Goto(w, to), Gone(w), Drop(w),
           ClearCell(w) \/ cell' = cell
    PROVE  PauseInv'
<1>1. Types
  BY ONLY JobInv, Zenon DEF JobInv
<1>2. /\ pc'[w] = to
      /\ \A v \in Workers \ {w} : pc'[v] = pc[v] /\ held'[v] = held[v] /\ xfer'[v] = xfer[v] /\ cell'[v] = cell[v]
  BY ONLY <1>1, Goto(w, to), Drop(w), ClearCell(w) \/ cell' = cell, w \in Workers, Zenon DEF Types, Goto, Drop, ClearCell
<1>3. \A v \in Workers \ {w} : Same(v)
  BY ONLY <1>2 DEF Same
<1>4. \A v \in Workers \ {w} : Tame(v)
  BY ONLY JobInv, LeasesOK, Ages, w \in Workers, pc[w] \in Busy, Gone(w), TameGone, Zenon
<1>5. LeaseSound(w)'
  BY ONLY <1>2, Zenon DEF LeaseSound, Busy, Receiving, Finishing
<1> QED BY ONLY JobInv, LeasesOK, LeasesOK', Ages, PauseInv, w \in Workers, Apart(w), <1>3, <1>4, <1>5, PauseApart

(* A worker that takes one starts at its beginning. *)
LEMMA PauseTakes ==
    ASSUME JobInv, LeasesOK, LeasesOK', Ages, PauseInv, NEW w \in Workers, Apart(w), Taken(w),
           Hold(w), Goto(w, "request"), UNCHANGED <<xfer, cell>>
    PROVE  PauseInv'
<1>1. Types
  BY ONLY JobInv, Zenon DEF JobInv
<1>2. /\ pc'[w] = "request" /\ held'[w].id = nextLease /\ held'[w].start = active'[nextLease].start
      /\ \A v \in Workers \ {w} : pc'[v] = pc[v] /\ held'[v] = held[v] /\ xfer'[v] = xfer[v] /\ cell'[v] = cell[v]
  BY ONLY <1>1, Goto(w, "request"), Hold(w), UNCHANGED <<xfer, cell>>, w \in Workers, Zenon DEF Types, Goto, Hold
<1>3. \A v \in Workers \ {w} : Same(v)
  BY ONLY <1>2, Zenon DEF Same
<1>4. \A v \in Workers \ {w} : Tame(v)
  BY ONLY JobInv, LeasesOK, LeasesOK', w \in Workers, Taken(w), TameTaken, Zenon
<1>5. LeaseSound(w)'
  BY ONLY <1>2, Taken(w), Zenon DEF LeaseSound, Taken, Receiving
<1> QED BY ONLY JobInv, LeasesOK, LeasesOK', Ages, PauseInv, w \in Workers, Apart(w), <1>3, <1>4, <1>5, PauseApart

(* A worker's step is about no save unless it asks for one or gets its answer. *)
Clear(w) ==
    /\ UNCHANGED <<queue, reply, coord, checkpoint>> /\ pc[w] # "awaitSave"
    /\ \E to : to \notin {"awaitSave", "paused"} /\ pc' = [pc EXCEPT ![w] = to]

(* All steps but those two are clear of saves. *)
LEMMA WorkClear ==
    ASSUME NEW w \in Workers, Work(w), ~SendSave(w), ~AwaitSave(w)
    PROVE  Clear(w)
<1> USE DEF At, Goto, Raise, env, ioVars, coordVars, Clear
<1>1. CASE Check(w)
  <2>1. Station(w) \notin {"awaitSave", "paused"}
    BY ONLY Zenon DEF Station
  <2> QED BY ONLY <1>1, <2>1, Zenon DEF Check
<1>2. CASE Wait(w) \/ AcquireLease(w) \/ NoWork(w) \/ Split(w)
  BY ONLY <1>2, Zenon DEF Wait, AcquireLease, NoWork, Split
<1>3. CASE Respond(w) \/ ReadWakes(w) \/ Write(w) \/ PauseEnds(w)
  BY ONLY <1>3, Zenon DEF Respond, ReadWakes, Write, PauseEnds, Continue
<1>4. CASE RequestFails(w) \/ ReadFails(w) \/ WriteFails(w) \/ ReadData(w)
  BY ONLY <1>4, ZenonT(30) DEF RequestFails, ReadFails, WriteFails, ReadData
<1>5. CASE ReadEnd(w) \/ ReadPauses(w) \/ CompleteLease(w) \/ FinalAck(w)
  BY ONLY <1>5, Zenon DEF ReadEnd, ReadPauses, CompleteLease, FinalAck
<1>6. CASE Requeue(w)
  <2>1. (IF attempt[w] < MaxAttempts THEN "backoff" ELSE "giveUp") \notin {"awaitSave", "paused"}
    BY Zenon
  <2> QED BY ONLY <1>6, <2>1, Zenon DEF Requeue
<1>7. CASE Abandon(w) \/ Bump(w) \/ InstallFatal(w) \/ GiveUp(w) \/ BackoffEnds(w)
  BY ONLY <1>7, Zenon DEF Abandon, Bump, InstallFatal, GiveUp, BackoffEnds
<1>8. CASE ReconcileFrom(w, "done", "ack") \/ ReconcileFrom(w, "settle", "complete")
           \/ ReconcileFrom(w, "retry", "requeue") \/ ReconcileFrom(w, "fail", "abandon")
  BY ONLY <1>8, Zenon DEF ReconcileFrom
<1> QED BY ONLY Work(w), ~SendSave(w), ~AwaitSave(w), <1>1, <1>2, <1>3, <1>4, <1>5, <1>6, <1>7, <1>8
        DEF Work, Progress, Arrives, Settling

(* So they leave the worker apart from them. *)
LEMMA WorkApart ==
    ASSUME JobInv, NEW w \in Workers, Work(w), ~SendSave(w), ~AwaitSave(w)
    PROVE  Apart(w)
<1>1. Clear(w)
  BY ONLY w \in Workers, Work(w), ~SendSave(w), ~AwaitSave(w), WorkClear, Zenon
<1>2. pc \in [Workers -> WorkerStates]
  BY ONLY JobInv, Zenon DEF JobInv, Types
<1> QED BY ONLY <1>1, <1>2, w \in Workers, Zenon DEF Clear, Apart

(* A response starts where the lease does. *)
LEMMA PauseResponds ==
    ASSUME JobInv, LeasesOK, LeasesOK', Ages, PauseInv, NEW w \in Workers, Apart(w), Respond(w)
    PROVE  PauseInv'
<1>1. Types /\ WorkerSound(w)
  BY ONLY JobInv, w \in Workers, Zenon DEF JobInv
<1>2. pc[w] = "request"
  BY ONLY Respond(w) DEF Respond
<1>3. HasLease(w) /\ cell[w].lease = 0
  BY ONLY <1>1, <1>2, Zenon DEF WorkerSound, Busy, CellSound
<1>4. ResumeAt(w) = held[w].start
  <2>1. held[w].id # 0 /\ held[w].next = held[w].start
    BY ONLY <1>1, <1>3, w \in Workers DEF Types, HasLease
  <2> QED BY ONLY <1>3, <2>1, Zenon DEF ResumeAt
<1>5. PICK last : xfer' = [xfer EXCEPT ![w] = Response(w, last)]
  BY ONLY Respond(w), Zenon DEF Respond
<1>6. PICK to \in {"fail", "read"} : pc' = [pc EXCEPT ![w] = to]
  BY ONLY Respond(w), Zenon DEF Respond, Continue, Raise, Goto
<1>7. UNCHANGED <<schedVars, held, cell, written, scenario>>
  BY ONLY Respond(w), Zenon DEF Respond, env, ioVars, ctlVars
<1>8. Response(w, last).pos = held[w].start
  BY ONLY <1>4, Zenon DEF Response
<1>9. xfer'[w] = Response(w, last) /\ pc'[w] = to /\ \A v \in Workers \ {w} : xfer'[v] = xfer[v] /\ pc'[v] = pc[v]
  BY ONLY <1>1, <1>5, <1>6, w \in Workers, Zenon DEF Types
<1>10. Quiet(w)
  BY ONLY <1>7, <1>9, Zenon DEF Quiet
<1>11. /\ pc'[w] \in Busy \ {"request"} /\ xfer'[w].pos = held[w].start /\ cell'[w] = cell[w]
       /\ pc[w] \notin Receiving
  BY ONLY <1>2, <1>7, <1>8, <1>9, Zenon DEF Busy, Receiving
<1> QED BY ONLY JobInv, LeasesOK, LeasesOK', Ages, PauseInv, w \in Workers, Apart(w), <1>2, <1>10, <1>11, PauseTransfer

(* Reading moves nothing that was published. *)
LEMMA PauseReads ==
    ASSUME JobInv, LeasesOK, LeasesOK', Ages, PauseInv, NEW w \in Workers, Apart(w), ReadData(w) \/ ReadWakes(w)
    PROVE  PauseInv'
<1>1. Types /\ pc[w] = "read"
  BY ONLY JobInv, ReadData(w) \/ ReadWakes(w), Zenon DEF JobInv, ReadData, ReadWakes
<1>2. UNCHANGED <<schedVars, held, cell, written, scenario>>
  BY ONLY ReadData(w) \/ ReadWakes(w) DEF ReadData, ReadWakes, env, ioVars, ctlVars
<1>3. PICK to \in {"done", "write", "fail", "read"} : pc' = [pc EXCEPT ![w] = to]
  BY ONLY ReadData(w) \/ ReadWakes(w), Zenon DEF ReadData, ReadWakes, Continue, Raise, Goto
<1>4. xfer'[w].pos = xfer[w].pos /\ \A v \in Workers \ {w} : xfer'[v] = xfer[v]
  <2>1. CASE ReadWakes(w)
    BY ONLY <1>1, <2>1, w \in Workers DEF ReadWakes, Types
  <2>2. CASE ReadData(w)
    <3>1. xfer' = xfer \/ \E a, b : xfer' = [xfer EXCEPT ![w].len = a, ![w].cut = b]
      BY ONLY <2>2, Zenon DEF ReadData
    <3>2. CASE xfer' = xfer
      BY ONLY <3>2
    <3>3. ASSUME NEW a, NEW b, xfer' = [xfer EXCEPT ![w].len = a, ![w].cut = b] PROVE <1>4
      BY ONLY <1>1, <3>3, w \in Workers, Zenon DEF Types
    <3> QED BY ONLY <3>1, <3>2, <3>3, Zenon
  <2> QED BY ONLY <2>1, <2>2, ReadData(w) \/ ReadWakes(w), Zenon
<1>5. pc'[w] = to /\ \A v \in Workers \ {w} : pc'[v] = pc[v]
  BY ONLY <1>1, <1>3, w \in Workers, Zenon DEF Types
<1>6. Quiet(w)
  BY ONLY <1>2, <1>4, <1>5, Zenon DEF Quiet
<1>7. /\ pc[w] \in Receiving /\ pc[w] # "request" /\ pc'[w] \in Busy \ {"request"} /\ cell'[w] = cell[w]
      /\ xfer[w].pos <= xfer'[w].pos /\ xfer'[w].pos \in Nat
  <2>1. xfer[w].pos \in Nat
    BY ONLY <1>1, w \in Workers, Zenon DEF Types
  <2>2. pc[w] \in Receiving /\ pc[w] # "request" /\ to \in Busy \ {"request"}
    BY ONLY <1>1, Zenon DEF Busy, Receiving, Finishing
  <2> QED BY ONLY <1>2, <1>4, <1>5, <2>1, <2>2
<1> QED BY ONLY JobInv, LeasesOK, LeasesOK', Ages, PauseInv, w \in Workers, Apart(w), <1>4, <1>6, <1>7, PauseTransfer

(* Writing publishes what it wrote. *)
LEMMA PauseWrites ==
    ASSUME JobInv, LeasesOK, LeasesOK', Ages, PauseInv, NEW w \in Workers, Apart(w), Write(w)
    PROVE  PauseInv'
<1> DEFINE through == xfer[w].pos + xfer[w].len
<1>1. Types /\ pc[w] = "write"
  BY ONLY JobInv, Write(w), Zenon DEF JobInv, Write
<1>2. UNCHANGED <<schedVars, held, scenario>>
  BY ONLY Write(w), Zenon DEF Write, ctlVars
<1>3. /\ cell' = [cell EXCEPT ![w] = [lease |-> held[w].id, generation |-> held[w].generation,
                                      written |-> through, received |-> through]]
      /\ xfer' = [xfer EXCEPT ![w].pos = through, ![w].len = 0, ![w].cut = FALSE]
      /\ written' = written \cup Chunk(w)
  BY ONLY Write(w), Zenon DEF Write, Publish
<1>4. PICK to \in {"fail", "read", "done"} : pc' = [pc EXCEPT ![w] = to]
  BY ONLY Write(w) DEF Write, Continue, Raise, Goto
<1>5. xfer[w].pos \in Nat /\ through \in Nat /\ xfer[w].pos <= through
  BY ONLY <1>1, w \in Workers DEF Types
<1> HIDE DEF through
<1>6. /\ xfer'[w].pos = through /\ cell'[w].written = through /\ pc'[w] = to
      /\ \A v \in Workers \ {w} : pc'[v] = pc[v] /\ xfer'[v] = xfer[v] /\ cell'[v] = cell[v]
  BY ONLY <1>1, <1>3, <1>4, w \in Workers, Zenon DEF Types
<1>7. Quiet(w)
  BY ONLY <1>2, <1>3, <1>6, Zenon DEF Quiet
<1>8. /\ pc[w] \in Receiving /\ pc[w] # "request" /\ pc'[w] \in Busy \ {"request"}
      /\ cell'[w].written = xfer'[w].pos
      /\ xfer[w].pos <= xfer'[w].pos /\ xfer'[w].pos \in Nat
  <2>1. pc[w] \in Receiving /\ pc[w] # "request" /\ to \in Busy \ {"request"}
    BY ONLY <1>1 DEF Busy, Receiving, Finishing
  <2> QED BY ONLY <1>5, <1>6, <2>1, Zenon
<1> QED BY ONLY JobInv, LeasesOK, LeasesOK', Ages, PauseInv, w \in Workers, Apart(w), <1>7, <1>8, PauseTransfer, Zenon

(* At the end of an attempt a worker has stopped receiving. *)
LEMMA PauseEndsAttempt ==
    ASSUME JobInv, LeasesOK, LeasesOK', Ages, PauseInv, NEW w \in Workers, Apart(w),
           pc[w] \in Busy, pc'[w] \in Busy \ (Receiving \cup {"request"}),
           DOMAIN active' = DOMAIN active, held' = held,
           \A v \in Workers \ {w} : Same(v) /\ Tame(v)
    PROVE  PauseInv'
<1>1. PauseSound(w)
  BY ONLY PauseInv, w \in Workers, Zenon DEF PauseInv
<1>2. generation' = 1 => generation = 1
  BY ONLY Ages DEF Ages
<1>3. LeaseSound(w)'
  BY ONLY ZenonT(30), <1>1, <1>2, pc[w] \in Busy, pc'[w] \in Busy \ (Receiving \cup {"request"}),
          DOMAIN active' = DOMAIN active, held' = held DEF PauseSound, LeaseSound
<1> QED BY ONLY JobInv, LeasesOK, LeasesOK', Ages, PauseInv, w \in Workers, Apart(w), <1>3, PauseApart,
               \A v \in Workers \ {w} : Same(v) /\ Tame(v), Zenon

(* Absorbing the cells on the way there. *)
LEMMA PauseReconciles ==
    ASSUME JobInv, LeasesOK, LeasesOK', Ages, PauseInv, NEW w \in Workers, Apart(w),
           NEW from \in {"done", "settle", "retry", "fail"}, NEW to \in {"ack", "complete", "requeue", "abandon"},
           ReconcileFrom(w, from, to)
    PROVE  PauseInv'
<1>1. /\ pc[w] = from /\ pc' = [pc EXCEPT ![w] = to] /\ Reconcile
      /\ held' = held /\ xfer' = xfer /\ cell' = cell /\ written' = written
  BY ONLY ReconcileFrom(w, from, to), Zenon DEF ReconcileFrom, At, Goto, local, env, ioVars
<1>2. pc'[w] = to /\ \A v \in Workers \ {w} : pc'[v] = pc[v]
  BY ONLY JobInv, <1>1, w \in Workers, Zenon DEF JobInv, Types
<1>3. \A v \in Workers \ {w} : Same(v)
  BY ONLY <1>1, <1>2, Zenon DEF Same
<1>4. \A v \in Workers \ {w} : Tame(v)
  BY ONLY JobInv, LeasesOK, LeasesOK', <1>1, TameReconcile, Zenon
<1>5. DOMAIN active' = DOMAIN active
  BY ONLY JobInv, LeasesOK, LeasesOK', <1>1, ReconcileKeeps DEF Absorbed
<1>6. pc[w] \in Busy /\ pc'[w] \in Busy \ (Receiving \cup {"request"})
  BY ONLY <1>1, <1>2, Zenon DEF Busy, Receiving, Finishing
<1> QED BY ONLY JobInv, LeasesOK, LeasesOK', Ages, PauseInv, w \in Workers, Apart(w),
               <1>1, <1>3, <1>4, <1>5, <1>6, PauseEndsAttempt

(* And acknowledging the lease. *)
LEMMA PauseAcks ==
    ASSUME JobInv, LeasesOK, LeasesOK', Ages, PauseInv, NEW w \in Workers, Apart(w), FinalAck(w)
    PROVE  PauseInv'
<1>1. /\ pc[w] = "ack" /\ pc' = [pc EXCEPT ![w] = "settle"] /\ cell' = [cell EXCEPT ![w] = NoCell]
      /\ held' = held /\ xfer' = xfer
  BY ONLY FinalAck(w) DEF FinalAck, At, Goto, ClearCell, local
<1>2. /\ Absorbed
      /\ \A i \in DOMAIN active : i # held[w].id => active'[i] = active[i]
  BY ONLY LeasesOK, LeasesOK', JobInv, w \in Workers, FinalAck(w), FinalAckIs, Zenon
<1>3. pc'[w] = "settle" /\ \A v \in Workers \ {w} : pc'[v] = pc[v] /\ cell'[v] = cell[v]
  BY ONLY JobInv, <1>1, w \in Workers, Zenon DEF JobInv, Types
<1>4. \A v \in Workers \ {w} : Same(v)
  BY ONLY <1>1, <1>3 DEF Same
<1>5. pc[w] \in Busy /\ pc'[w] \in Busy \ (Receiving \cup {"request"})
  BY ONLY <1>1, <1>3, Zenon DEF Busy, Receiving, Finishing
<1>6. ASSUME NEW v \in Workers \ {w} PROVE Tame(v)
  <2>1. held[v].id # held[w].id
    BY ONLY JobInv, LeasesOK, w \in Workers, <1>5, <1>6, HoldsOther, Zenon
  <2>2. held[v].id \in DOMAIN active => active[held[v].id].end <= active[held[v].id].end
    BY ONLY LeasesOK DEF LeasesOK
  <2> QED BY ONLY <1>2, <2>1, <2>2, Zenon DEF Tame, Kept, Absorbed
<1> QED BY ONLY JobInv, LeasesOK, LeasesOK', Ages, PauseInv, w \in Workers, Apart(w),
               <1>1, <1>2, <1>4, <1>5, <1>6, PauseEndsAttempt, Zenon DEF Absorbed

(* Giving the lease up. *)
LEMMA PauseGivesUp ==
    ASSUME JobInv, LeasesOK, LeasesOK', Ages, PauseInv, NEW w \in Workers, Apart(w),
           CompleteLease(w) \/ Requeue(w) \/ Abandon(w) \/ Bump(w)
    PROVE  PauseInv'
<1>1. CASE CompleteLease(w)
  <2>1. pc[w] = "complete" /\ Goto(w, "top") /\ Drop(w) /\ ClearCell(w)
    BY ONLY <1>1, Zenon DEF CompleteLease, At
  <2>2. pc[w] \in Busy /\ "top" \in WorkerStates \ Busy
    BY ONLY <2>1, Zenon DEF Finishing, Busy, Receiving, WorkerStates
  <2>3. Gone(w)
    BY ONLY JobInv, LeasesOK, w \in Workers, <1>1, CompleteGone
  <2> QED BY ONLY JobInv, LeasesOK, LeasesOK', Ages, PauseInv, w \in Workers, Apart(w), <2>1, <2>2, <2>3, PauseLeaves, Zenon
<1>2. ASSUME GiveBackLease(w), pc[w] \in Busy, NEW to \in WorkerStates \ Busy, Goto(w, to) PROVE PauseInv'
  <2>1. Drop(w) /\ ClearCell(w)
    BY ONLY <1>2, Zenon DEF GiveBackLease
  <2>2. Gone(w)
    BY ONLY JobInv, LeasesOK, w \in Workers, <1>2, GiveBackGone, Zenon
  <2> QED BY ONLY JobInv, LeasesOK, LeasesOK', Ages, PauseInv, w \in Workers, Apart(w), <1>2, <2>1, <2>2, PauseLeaves, Zenon
<1>3. CASE Requeue(w)
  <2> DEFINE to == IF attempt[w] < MaxAttempts THEN "backoff" ELSE "giveUp"
  <2>1. GiveBackLease(w) /\ pc[w] = "requeue" /\ Goto(w, to)
    BY ONLY <1>3, Zenon DEF Requeue, At
  <2>2. pc[w] \in Busy /\ to \in WorkerStates \ Busy
    BY ONLY <2>1, Zenon DEF Finishing, Busy, Receiving, WorkerStates
  <2> HIDE DEF to
  <2> QED BY ONLY <1>2, <2>1, <2>2, Zenon
<1>4. CASE Abandon(w)
  <2>1. GiveBackLease(w) /\ pc[w] = "abandon" /\ Goto(w, "install")
    BY ONLY <1>4 DEF Abandon, At
  <2>2. pc[w] \in Busy /\ "install" \in WorkerStates \ Busy
    BY ONLY <2>1, Zenon DEF Finishing, Busy, Receiving, WorkerStates
  <2> QED BY ONLY <1>2, <2>1, <2>2, Zenon
<1>5. CASE Bump(w)
  <2>1. pc[w] = "bump" /\ Goto(w, "install") /\ Drop(w) /\ cell' = cell
    BY ONLY <1>5 DEF Bump, At
  <2>2. pc[w] \in Busy /\ "install" \in WorkerStates \ Busy
    BY ONLY <2>1, Zenon DEF Finishing, Busy, Receiving, WorkerStates
  <2>3. Gone(w)
    BY ONLY JobInv, LeasesOK, w \in Workers, <1>5, BumpGone, Zenon
  <2> QED BY ONLY JobInv, LeasesOK, LeasesOK', Ages, PauseInv, w \in Workers, Apart(w), <2>1, <2>2, <2>3, PauseLeaves, Zenon
<1> QED BY ONLY CompleteLease(w) \/ Requeue(w) \/ Abandon(w) \/ Bump(w), <1>1, <1>3, <1>4, <1>5, Zenon

(* Taking one. *)
LEMMA PauseAcquires ==
    ASSUME JobInv, LeasesOK, LeasesOK', Ages, PauseInv, NEW w \in Workers, Apart(w), AcquireLease(w) \/ Split(w)
    PROVE  PauseInv'
<1>1. pc[w] \in {"acquire", "split"} /\ xfer' = xfer /\ cell' = cell /\ written' = written /\ scenario' = scenario
  BY ONLY AcquireLease(w) \/ Split(w) DEF AcquireLease, Split, env, ioVars, ctlVars
<1>2. ASSUME NEW to \in {"noWork", "parked"}, Goto(w, to), UNCHANGED <<schedVars, held>> PROVE PauseInv'
  <2>1. MoveTo(w, to) /\ Plain(pc[w], to)
    BY ONLY <1>1, <1>2 DEF MoveTo, Goto, Plain, Busy, Receiving, Finishing, WorkerStates
  <2> QED BY ONLY JobInv, LeasesOK, LeasesOK', Ages, PauseInv, w \in Workers, Apart(w), <2>1, PauseMoves, Zenon
<1>3. ASSUME Taken(w), Hold(w), Goto(w, "request") PROVE PauseInv'
  BY ONLY JobInv, LeasesOK, LeasesOK', Ages, PauseInv, w \in Workers, Apart(w), <1>1, <1>3, PauseTakes, Zenon
<1>4. CASE AcquireLease(w)
  <2>1. \/ Acquire /\ Hold(w) /\ Goto(w, "request")
        \/ Goto(w, "noWork") /\ UNCHANGED <<schedVars, held>>
    BY ONLY <1>4, Zenon DEF AcquireLease
  <2> QED BY ONLY LeasesOK, w \in Workers, <1>2, <1>3, <2>1, AcquireTakes, Zenon
<1>5. CASE Split(w)
  <2>1. ASSUME NEW i \in LargestSplittable(SplitThreshold),
               SplitTail(i, active[i].generation, SplitThreshold, ReceivedThrough(i)),
               Hold(w), Goto(w, "request")
        PROVE  PauseInv'
    <3>1. SplitThreshold \in Nat /\ ReceivedThrough(i) \in Nat
      <4>1. i \in DOMAIN active
        BY ONLY <2>1, Zenon DEF LargestSplittable
      <4> QED BY ONLY JobInv, LeasesOK, <4>1, SizeAssumption, PolicyAssumption, BoundAssumption, ReceivedNat, Zenon
    <3>2. Taken(w)
      BY ONLY LeasesOK, w \in Workers, <2>1, <3>1, SplitTakes, Zenon
    <3> QED BY ONLY <1>3, <2>1, <3>2, Zenon
  <2>2. \/ \E i \in LargestSplittable(SplitThreshold) :
                 /\ SplitTail(i, active[i].generation, SplitThreshold, ReceivedThrough(i))
                 /\ Hold(w) /\ Goto(w, "request")
        \/ Goto(w, "parked") /\ UNCHANGED <<schedVars, held>>
    BY ONLY <1>5, Zenon DEF Split
  <2> QED BY ONLY <1>2, <2>1, <2>2
<1> QED BY ONLY <1>4, <1>5, AcquireLease(w) \/ Split(w), Zenon

(* A step that moves no lease of a worker keeps PauseInv if it keeps each
   worker's place in the save. *)
LEMMA PauseSaves ==
    ASSUME JobInv, LeasesOK, LeasesOK', Ages, PauseInv, NEW w \in Workers, Quiet(w), UNCHANGED <<xfer, cell>>,
           queue' \subseteq Workers, reply' \in [Workers -> {"none", "ok", "error"}],
           coord' = coord, checkpoint' = checkpoint,
           \A v \in Workers \ {w} : reply'[v] = reply[v] /\ (v \in queue' <=> v \in queue),
           PauseSound(w)'
    PROVE  PauseInv'
<1>1. ASSUME NEW v \in Workers \ {w} PROVE PauseSound(v)'
  <2>1. Same(v)
    BY ONLY Quiet(w), <1>1 DEF Quiet, Same
  <2>2. Tame(v)
    BY ONLY LeasesOK, Quiet(w), <1>1, TameQuiet, Zenon DEF Quiet
  <2>3. PauseSound(v) /\ v \in Workers
    BY ONLY PauseInv, <1>1, Zenon DEF PauseInv
  <2>4. reply'[v] = reply[v] /\ (v \in queue' <=> v \in queue)
    BY ONLY <1>1, \A u \in Workers \ {w} : reply'[u] = reply[u] /\ (u \in queue' <=> u \in queue), Zenon
  <2> QED BY ONLY JobInv, LeasesOK, LeasesOK', Ages, <2>1, <2>2, <2>3, <2>4, coord' = coord, checkpoint' = checkpoint,
                  PauseBystander, Zenon
<1> QED BY ONLY SMTT(30), <1>1, PauseSound(w)', queue' \subseteq Workers, reply' \in [Workers -> {"none", "ok", "error"}]
        DEF PauseInv

(* Asking for a save, and getting the answer. *)
LEMMA PauseAsks ==
    ASSUME JobInv, LeasesOK, LeasesOK', Ages, PauseInv, NEW w \in Workers, SendSave(w) \/ AwaitSave(w)
    PROVE  PauseInv'
<1>1. Types /\ PauseSound(w) /\ queue \subseteq Workers /\ reply \in [Workers -> {"none", "ok", "error"}]
  BY ONLY JobInv, PauseInv, w \in Workers, Zenon DEF JobInv, PauseInv
<1>2. UNCHANGED <<schedVars, held, xfer, cell, written, scenario, coord, checkpoint>>
  BY ONLY SendSave(w) \/ AwaitSave(w), Zenon DEF SendSave, AwaitSave, ioVars, ctlVars
<1>3. active' = active /\ generation' = generation /\ held' = held /\ xfer' = xfer /\ cell' = cell
      /\ coord' = coord /\ checkpoint' = checkpoint
  BY ONLY <1>2, Zenon DEF schedVars
<1>4. \A to : pc' = [pc EXCEPT ![w] = to] => pc'[w] = to /\ Quiet(w)
  BY ONLY <1>1, <1>2, w \in Workers, Zenon DEF Types, Quiet
<1>6. pc[w] \in Receiving
  BY ONLY SendSave(w) \/ AwaitSave(w), SMTT(30) DEF SendSave, AwaitSave, Receiving
<1>7. ASSUME pc'[w] \in Busy, pc'[w] # "request" PROVE LeaseSound(w)'
  BY ONLY <1>1, <1>3, <1>6, <1>7, Zenon DEF PauseSound, LeaseSound, Busy
<1>8. CASE SendSave(w)
  <2>1. pc[w] = "save" /\ reply' = reply
    BY ONLY <1>8, Zenon DEF SendSave
  <2>2. w \notin queue /\ ~(Saving /\ coord.for = w) /\ reply[w] = "none"
    BY ONLY <1>1, <2>1, Zenon DEF PauseSound
  <2>3. CASE coord.pc = "stopped"
    <3>1. pc' = [pc EXCEPT ![w] = "fail"] /\ queue' = queue
      BY ONLY <1>8, <2>3 DEF SendSave, Raise, Goto
    <3>2. pc'[w] = "fail" /\ Quiet(w)
      BY ONLY <1>4, <3>1, Zenon
    <3>3. LeaseSound(w)'
      BY ONLY <1>7, <3>2, Zenon DEF Busy
    <3>4. PauseSound(w)'
      BY ONLY <1>3, <2>1, <2>2, <3>1, <3>2, <3>3, SMTT(90) DEF PauseSound, LeaseSound, Saving
    <3> QED BY ONLY JobInv, LeasesOK, LeasesOK', Ages, PauseInv, w \in Workers, <1>1, <1>3, <2>1, <3>1, <3>2, <3>4, PauseSaves, Zenon
  <2>4. CASE coord.pc # "stopped"
    <3>1. pc' = [pc EXCEPT ![w] = "awaitSave"] /\ queue' = queue \cup {w}
      BY ONLY <1>8, <2>4, Zenon DEF SendSave, Goto
    <3>2. pc'[w] = "awaitSave" /\ Quiet(w)
      BY ONLY <1>4, <3>1, Zenon
    <3>3. LeaseSound(w)'
      BY ONLY <1>7, <3>2, Zenon DEF Busy, Receiving
    <3>4. PauseSound(w)'
      BY ONLY <1>3, <2>1, <2>2, <3>1, <3>2, <3>3, Zenon DEF PauseSound, LeaseSound, Saving
    <3>5. /\ queue' \subseteq Workers /\ \A v \in Workers \ {w} : v \in queue' <=> v \in queue
      BY ONLY <1>1, <3>1, w \in Workers, Zenon
    <3> QED BY ONLY JobInv, LeasesOK, LeasesOK', Ages, PauseInv, w \in Workers, <1>1, <1>3, <2>1, <3>2, <3>4, <3>5, PauseSaves, Zenon
  <2> QED BY ONLY <2>3, <2>4
<1>9. CASE AwaitSave(w)
  <2>1. /\ pc[w] = "awaitSave" /\ reply[w] # "none" /\ reply' = [reply EXCEPT ![w] = "none"]
        /\ queue' = queue
    BY ONLY <1>9, Zenon DEF AwaitSave
  <2>2. w \notin queue /\ ~(Saving /\ coord.for = w)
    BY ONLY <1>1, <2>1, Zenon DEF PauseSound
  <2>3. /\ reply' \in [Workers -> {"none", "ok", "error"}] /\ reply'[w] = "none"
        /\ \A v \in Workers \ {w} : reply'[v] = reply[v]
    BY ONLY <1>1, <2>1, w \in Workers, SMTT(30)
  <2>4. CASE reply[w] = "ok"
    <3>1. pc' = [pc EXCEPT ![w] = "paused"]
      BY ONLY <1>9, <2>4 DEF AwaitSave, Goto
    <3>2. pc'[w] = "paused" /\ Quiet(w)
      BY ONLY <1>4, <3>1, Zenon
    <3>3. LeaseSound(w)'
      BY ONLY <1>7, <3>2, Zenon DEF Busy, Receiving
    <3>4. Covered(w, checkpoint)'
      BY ONLY <1>1, <1>3, <2>4, Zenon DEF PauseSound, Covered, Owned
    <3>5. PauseSound(w)'
      BY ONLY <1>3, <2>1, <2>2, <2>3, <3>2, <3>3, <3>4, Zenon DEF PauseSound, LeaseSound, Saving
    <3> QED BY ONLY JobInv, LeasesOK, LeasesOK', Ages, PauseInv, w \in Workers, <1>1, <1>3, <2>1, <2>3, <3>2, <3>5, PauseSaves, Zenon
  <2>5. CASE reply[w] # "ok"
    <3>1. pc' = [pc EXCEPT ![w] = "fail"]
      BY ONLY <1>9, <2>5, Zenon DEF AwaitSave, Goto, Raise
    <3>2. pc'[w] = "fail" /\ Quiet(w)
      BY ONLY <1>4, <3>1, ZenonT(30)
    <3>3. LeaseSound(w)'
      BY ONLY <1>7, <3>2, Zenon DEF Busy
    <3>4. PauseSound(w)'
      BY ONLY <1>3, <2>1, <2>2, <2>3, <3>2, <3>3, Zenon DEF PauseSound, LeaseSound, Saving
    <3> QED BY ONLY JobInv, LeasesOK, LeasesOK', Ages, PauseInv, w \in Workers, <1>1, <1>3, <2>1, <2>3, <3>2, <3>4, PauseSaves, Zenon
  <2> QED BY ONLY <2>4, <2>5, Zenon
<1> QED BY ONLY <1>8, <1>9, SendSave(w) \/ AwaitSave(w), Zenon

(* Every step of a worker keeps PauseInv. *)
LEMMA PauseWorks ==
    ASSUME JobInv, LeasesOK, LeasesOK', Ages, PauseInv, NEW w \in Workers, Work(w)
    PROVE  PauseInv'
<1>1. CASE SendSave(w) \/ AwaitSave(w)
  BY ONLY JobInv, LeasesOK, LeasesOK', Ages, PauseInv, w \in Workers, <1>1, PauseAsks, Zenon
<1>2. ASSUME ~SendSave(w), ~AwaitSave(w) PROVE PauseInv'
  <2>1. Apart(w)
    BY ONLY JobInv, w \in Workers, Work(w), <1>2, WorkApart
  <2>2. CASE Moves(w)
    <3>1. PICK to \in WorkerStates : MoveTo(w, to) /\ Plain(pc[w], to)
      BY ONLY w \in Workers, <2>2, MovesTo
    <3> QED BY ONLY JobInv, LeasesOK, LeasesOK', Ages, PauseInv, w \in Workers, <2>1, <3>1, PauseMoves, Zenon
  <2>3. CASE Respond(w) \/ ReadData(w) \/ ReadWakes(w) \/ Write(w)
    BY ONLY JobInv, LeasesOK, LeasesOK', Ages, PauseInv, w \in Workers, <2>1, <2>3, PauseResponds, PauseReads, PauseWrites, Zenon
  <2>4. CASE AcquireLease(w) \/ Split(w)
    BY ONLY JobInv, LeasesOK, LeasesOK', Ages, PauseInv, w \in Workers, <2>1, <2>4, PauseAcquires
  <2>5. CASE CompleteLease(w) \/ Requeue(w) \/ Abandon(w) \/ Bump(w)
    BY ONLY JobInv, LeasesOK, LeasesOK', Ages, PauseInv, w \in Workers, <2>1, <2>5, PauseGivesUp, Zenon
  <2>6. CASE FinalAck(w)
    BY ONLY JobInv, LeasesOK, LeasesOK', Ages, PauseInv, w \in Workers, <2>1, <2>6, PauseAcks
  <2>7. CASE ReconcileFrom(w, "done", "ack") \/ ReconcileFrom(w, "settle", "complete")
             \/ ReconcileFrom(w, "retry", "requeue") \/ ReconcileFrom(w, "fail", "abandon")
    BY ONLY JobInv, LeasesOK, LeasesOK', Ages, PauseInv, w \in Workers, <2>1, <2>7, PauseReconciles, Zenon
  <2> QED BY ONLY Work(w), <2>2, <2>3, <2>4, <2>5, <2>6, <2>7, <1>2, Zenon DEF Work, Moves, Progress, Arrives, Settling
<1> QED BY ONLY <1>1, <1>2, Zenon

-----------------------------------------------------------------------------
(* The pause and the coordinator. *)

(* Absorbing the cells settles what every worker has published. *)
LEMMA OwnedSettles ==
    ASSUME JobInv, LeasesOK, LeasesOK', Reconcile, written' = written, NEW w \in Workers, PauseSound(w),
           cell[w].lease # 0, generation = 1
    PROVE  Owned(w) \subseteq Settled'
<1> DEFINE i == held[w].id
<1>1. HasLease(w) /\ cell[w].lease = i /\ i \in DOMAIN active
  BY ONLY JobInv, LeasesOK, w \in Workers, PauseSound(w), cell[w].lease # 0, generation = 1, Publishes, Zenon
<1>2. cell[w].generation = active[i].generation
  BY ONLY JobInv, w \in Workers, <1>1, cell[w].lease # 0, Zenon DEF JobInv, WorkerSound, CellSound, HasLease
<1>3. active'[i] = Advance(active[i], cell[w].written) /\ DOMAIN active' = DOMAIN active
  <2>1. /\ \/ /\ active'[i] = active[i]
              /\ \A v \in Workers : ~(cell[v].lease = i /\ cell[v].generation = active[i].generation)
           \/ \E v \in Workers :
                 /\ cell[v].lease = i /\ held[v].id = i
                 /\ active'[i] = Advance(active[i], cell[v].written)
    BY ONLY JobInv, LeasesOK, Reconcile, <1>1, ReconcileIs, Zenon
  <2>2. \A v \in Workers : cell[v].lease = i => v = w
    BY ONLY JobInv, LeasesOK, w \in Workers, <1>1, OneRecord, SMTT(30)
  <2>3. DOMAIN active' = DOMAIN active
    BY ONLY JobInv, LeasesOK, LeasesOK', Reconcile, written' = written, ReconcileKeeps, Zenon DEF Absorbed
  <2> QED BY ONLY <1>1, <1>2, <2>1, <2>2, <2>3, w \in Workers, Zenon
<1>4. /\ active[i] \in [generation : Nat, start : Nat, end : Nat, next : Nat]
      /\ active[i].start = held[w].start /\ cell[w].written \in Nat
  BY ONLY JobInv, LeasesOK, w \in Workers, <1>1, SMTT(90) DEF JobInv, Types, LeasesOK, HasLease
<1>5. active'[i].start = held[w].start /\ active'[i].next \in Nat
      /\ Min2(cell[w].written, active[i].end + 1) <= active'[i].next
  <2>1. CASE cell[w].written <= active[i].next
    BY ONLY <1>3, <1>4, <2>1 DEF Advance, Min2
  <2>2. CASE ~(cell[w].written <= active[i].next)
    BY ONLY <1>3, <1>4, <2>2 DEF Advance, Min2
  <2> QED BY ONLY <2>1, <2>2, Zenon
<1>6. Owned(w) \subseteq active'[i].start .. active'[i].next - 1
  BY ONLY <1>4, <1>5, SMTT(60) DEF Owned, Min2
<1>7. active'[i].start .. active'[i].next - 1 \subseteq Settled'
  BY ONLY <1>1, <1>3, Zenon DEF Settled, Acked
<1> QED BY ONLY <1>6, <1>7

(* A step in which no worker moves and leases are at most absorbed. *)
Still == /\ \A v \in Workers : Same(v) /\ Tame(v)
         /\ checkpoint \subseteq checkpoint'

(* In such a step, a worker's save goes from the queue to the coordinator, from
   there to an answer, or nowhere. *)
Served(v) ==
    /\ v \in queue' => v \in queue /\ reply'[v] = reply[v] /\ ~(Saving' /\ coord'.for = v)
    /\ Saving' /\ coord'.for = v =>
          /\ reply'[v] = reply[v]
          /\ \/ v \in queue /\ Covered(v, coord.ranges)'
             \/ Saving /\ coord.for = v /\ coord'.ranges = coord.ranges
    /\ reply'[v] # reply[v] =>
          /\ v \in queue \/ (Saving /\ coord.for = v)
          /\ reply'[v] = "ok" => Covered(v, checkpoint)'

(* So PauseSound survives it. *)
LEMMA PauseServed ==
    ASSUME JobInv, LeasesOK, LeasesOK', Ages, NEW v \in Workers, PauseSound(v), Still, Served(v)
    PROVE  PauseSound(v)'
<1>1. Same(v) /\ Tame(v) /\ checkpoint \subseteq checkpoint' /\ pc'[v] = pc[v]
  BY ONLY Still, v \in Workers, ZenonT(30) DEF Still, Same
<1>2. LeaseSound(v)'
  BY ONLY JobInv, LeasesOK, Ages, v \in Workers, PauseSound(v), <1>1, LeaseStays, ZenonT(30)
<1>3. v \in queue' => pc'[v] = "awaitSave" /\ reply'[v] = "none" /\ ~(Saving' /\ coord'.for = v)
  BY ONLY PauseSound(v), Served(v), <1>1, Zenon DEF PauseSound, Served
<1>4. Saving' /\ coord'.for = v => pc'[v] = "awaitSave" /\ reply'[v] = "none"
  BY ONLY PauseSound(v), Served(v), <1>1, Zenon DEF PauseSound, Served
<1>5. ASSUME Saving', coord'.for = v PROVE Covered(v, coord.ranges)'
  <2>1. CASE Saving /\ coord.for = v /\ coord'.ranges = coord.ranges
    <3>1. Covered(v, coord.ranges)
      BY ONLY PauseSound(v), <2>1, ZenonT(30) DEF PauseSound
    <3>2. generation' = 1 /\ cell'[v].lease # 0 => Owned(v)' \subseteq coord.ranges
      BY ONLY JobInv, LeasesOK, LeasesOK', Ages, v \in Workers, PauseSound(v), <1>1, <3>1, StaysCovered, ZenonT(30)
    <3> QED BY ONLY <2>1, <3>2, Zenon DEF Covered
  <2> QED BY ONLY Served(v), <1>5, <2>1, Zenon DEF Served
<1>6. reply'[v] # "none" => pc'[v] = "awaitSave"
  BY ONLY PauseSound(v), Served(v), <1>1, Zenon DEF PauseSound, Served
<1>7. ASSUME reply'[v] = "ok" \/ pc'[v] = "paused" PROVE Covered(v, checkpoint)'
  <2>1. CASE reply'[v] # reply[v]
    BY ONLY PauseSound(v), Served(v), <1>1, <1>7, <2>1 DEF PauseSound, Served
  <2>2. CASE reply'[v] = reply[v]
    <3>1. Covered(v, checkpoint)
      BY ONLY PauseSound(v), <1>1, <1>7, <2>2, Zenon DEF PauseSound
    <3>2. generation' = 1 /\ cell'[v].lease # 0 => Owned(v)' \subseteq checkpoint'
      BY ONLY JobInv, LeasesOK, LeasesOK', Ages, v \in Workers, PauseSound(v), <1>1, <3>1, StaysCovered, Zenon
    <3> QED BY ONLY <3>2, Zenon DEF Covered
  <2> QED BY ONLY <2>1, <2>2, Zenon
<1> QED BY ONLY <1>2, <1>3, <1>4, <1>5, <1>6, <1>7, ZenonT(30) DEF PauseSound, LeaseSound

(* How a save that ends serves the workers. *)
LEMMA SaveEndsServes ==
    ASSUME PauseInv, SaveInv, NEW for \in Workers \cup {Tick}, NEW ok \in BOOLEAN, SaveEnds(for, ok),
           \A v \in Workers : Saving /\ coord.for = v => for = v,
           \A v \in Workers : for = v => v \in queue \/ (Saving /\ coord.for = v),
           \A v \in Workers : for = v /\ ok => Covered(v, checkpoint)'
    PROVE  /\ \A v \in Workers : Served(v)
           /\ queue' \subseteq Workers /\ reply' \in [Workers -> {"none", "ok", "error"}]
<1>1. queue \subseteq Workers /\ reply \in [Workers -> {"none", "ok", "error"}]
  BY ONLY PauseInv, Zenon DEF PauseInv
<1>2. ~Saving'
  <2>1. coord' = CoordTo("idle") \/ coord' = CoordTo("stopped")
    BY ONLY SaveEnds(for, ok), Zenon DEF SaveEnds
  <2> QED BY ONLY <2>1 DEF CoordTo, Saving
<1>3. CASE for # Tick
  <2>1. reply' = [reply EXCEPT ![for] = IF ok THEN "ok" ELSE "error"] /\ queue' = queue \ {for} /\ for \in Workers
    BY ONLY SaveEnds(for, ok), <1>3, for \in Workers \cup {Tick}, Zenon DEF SaveEnds
  <2>2. /\ reply'[for] = IF ok THEN "ok" ELSE "error"
        /\ \A v \in Workers \ {for} : reply'[v] = reply[v]
        /\ reply' \in [Workers -> {"none", "ok", "error"}] /\ queue' \subseteq Workers
    BY ONLY <1>1, <2>1, Zenon
  <2>3. ASSUME NEW v \in Workers PROVE Served(v)
    <3>1. CASE v = for
      <4>1. v \in queue \/ (Saving /\ coord.for = v)
        BY ONLY <2>3, <3>1, \A u \in Workers : for = u => u \in queue \/ (Saving /\ coord.for = u), Zenon
      <4>2. reply'[v] = "ok" => Covered(v, checkpoint)'
        BY ONLY <2>2, <2>3, <3>1, \A u \in Workers : for = u /\ ok => Covered(u, checkpoint)', Zenon
      <4> QED BY ONLY <1>2, <2>1, <3>1, <4>1, <4>2, Zenon DEF Served
    <3>2. CASE v # for
      BY ONLY <1>2, <2>1, <2>2, <2>3, <3>2, Zenon DEF Served
    <3> QED BY ONLY <3>1, <3>2, Zenon
  <2> QED BY ONLY <2>2, <2>3, Zenon
<1>4. CASE for = Tick /\ ok
  BY ONLY SaveEnds(for, ok), <1>1, <1>2, <1>4 DEF SaveEnds, Served
<1>5. CASE for = Tick /\ ~ok
  <2>1. reply' = [v \in Workers |-> IF v \in queue THEN "error" ELSE reply[v]] /\ queue' = {}
    BY ONLY SaveEnds(for, ok), <1>5, Zenon DEF SaveEnds
  <2> QED BY ONLY <1>1, <1>2, <2>1, Zenon DEF Served
<1> QED BY ONLY <1>3, <1>4, <1>5, ok \in BOOLEAN, Zenon

(* A still step that serves every worker keeps PauseInv. *)
LEMMA PauseStill ==
    ASSUME JobInv, LeasesOK, LeasesOK', Ages, PauseInv, Still, \A v \in Workers : Served(v),
           queue' \subseteq Workers, reply' \in [Workers -> {"none", "ok", "error"}]
    PROVE  PauseInv'
<1>1. ASSUME NEW v \in Workers PROVE PauseSound(v)'
  <2>1. PauseSound(v) /\ Served(v)
    BY ONLY PauseInv, <1>1, \A u \in Workers : Served(u), Zenon DEF PauseInv
  <2> QED BY ONLY JobInv, LeasesOK, LeasesOK', Ages, <1>1, Still, <2>1, PauseServed, Zenon
<1> QED BY ONLY <1>1, queue' \subseteq Workers, reply' \in [Workers -> {"none", "ok", "error"}] DEF PauseInv

(* A step that touches no lease is still. *)
LEMMA StillIs ==
    ASSUME LeasesOK, UNCHANGED <<schedVars, pc, held, xfer, cell>>, checkpoint \subseteq checkpoint'
    PROVE  Still
<1>1. \A v \in Workers : Same(v)
  BY ONLY UNCHANGED <<schedVars, pc, held, xfer, cell>>, Zenon DEF Same
<1>2. \A v \in Workers : Tame(v)
  BY ONLY LeasesOK, UNCHANGED <<schedVars, pc, held, xfer, cell>>, TameQuiet, Zenon
<1> QED BY ONLY <1>1, <1>2, checkpoint \subseteq checkpoint', Zenon DEF Still

(* A snapshot has what its worker published, or has nothing to save that is not
   saved already. *)
LEMMA PauseSnapshot ==
    ASSUME JobInv, LeasesOK, LeasesOK', Ages, SaveInv, PauseInv, NEW for \in queue \cup {Tick}, Snapshot(for)
    PROVE  PauseInv'
<1>1. /\ coord.pc = "idle" /\ Reconcile /\ checkpoint' = checkpoint /\ saved' = saved
      /\ pc' = pc /\ held' = held /\ xfer' = xfer /\ cell' = cell /\ written' = written
  BY ONLY Snapshot(for), Zenon DEF Snapshot, AbsorbAndNotify, local, ioVars
<1>2. ~Saving /\ for \in Workers \cup {Tick} /\ queue \subseteq Workers /\ reply \in [Workers -> {"none", "ok", "error"}]
      /\ Tick \notin Workers
  <2>1. Tick \notin Workers
    BY ONLY JobAssumption DEF Tick, Workers
  <2> QED BY ONLY PauseInv, <1>1, <2>1, for \in queue \cup {Tick} DEF PauseInv, Saving
<1>3. Still
  <2>1. \A v \in Workers : Same(v)
    BY ONLY <1>1, Zenon DEF Same
  <2>2. \A v \in Workers : Tame(v)
    BY ONLY JobInv, LeasesOK, LeasesOK', <1>1, TameReconcile, Zenon
  <2> QED BY ONLY <1>1, <2>1, <2>2, Zenon DEF Still
<1>4. ASSUME NEW v \in Workers, NEW S, S = Settled'
      PROVE  generation' = 1 /\ cell'[v].lease # 0 => Owned(v)' \subseteq S
  <2>1. PauseSound(v)
    BY ONLY PauseInv, <1>4, Zenon DEF PauseInv
  <2>2. Covered(v, Settled')
    BY ONLY JobInv, LeasesOK, LeasesOK', <1>1, <1>4, <2>1, OwnedSettles, Zenon DEF Covered
  <2>3. Same(v) /\ Tame(v)
    BY ONLY <1>3, <1>4, Zenon DEF Still
  <2> QED BY ONLY JobInv, LeasesOK, LeasesOK', Ages, <1>4, <2>1, <2>2, <2>3, StaysCovered, Zenon
<1>5. CASE SaveEnds(for, TRUE) /\ (Settled' = {} \/ saved = [ranges |-> Settled', generation |-> generation])
  <2>1. Settled' \subseteq checkpoint'
    <3>1. CASE Settled' = {}
      BY ONLY <3>1, Zenon
    <3>2. CASE saved = [ranges |-> Settled', generation |-> generation]
      <4>1. saved = NoSave \/ saved.ranges = checkpoint
        BY ONLY SaveInv DEF SaveInv
      <4> QED BY ONLY <1>1, <3>2, <4>1, Zenon DEF NoSave
    <3> QED BY ONLY <1>5, <3>1, <3>2, Zenon
  <2>2. \A v \in Workers : for = v /\ TRUE => Covered(v, checkpoint)'
    BY ONLY <1>4, <2>1, Zenon DEF Covered
  <2>3. /\ \A v \in Workers : Served(v)
        /\ queue' \subseteq Workers /\ reply' \in [Workers -> {"none", "ok", "error"}]
    <3>1. /\ \A v \in Workers : Saving /\ coord.for = v => for = v
          /\ \A v \in Workers : for = v => v \in queue \/ (Saving /\ coord.for = v)
      BY ONLY <1>2, for \in queue \cup {Tick}
    <3> QED BY ONLY PauseInv, SaveInv, <1>2, <1>5, <2>2, <3>1, SaveEndsServes, Zenon
  <2> QED BY ONLY JobInv, LeasesOK, LeasesOK', Ages, PauseInv, <1>3, <2>3, PauseStill, Zenon
<1>6. CASE /\ coord' = [pc |-> "fence", for |-> for, ranges |-> Settled', generation |-> generation]
           /\ queue' = queue \ {for} /\ UNCHANGED <<reply, fatal>>
  <2>1. coord'.for = for /\ coord'.ranges = Settled' /\ reply' = reply /\ queue' = queue \ {for}
    BY ONLY <1>6, Zenon
  <2>2. ASSUME NEW v \in Workers PROVE Covered(v, coord.ranges)'
    BY ONLY <1>4, <2>1, <2>2, Zenon DEF Covered
  <2>3. ASSUME NEW v \in Workers PROVE Served(v)
    BY ONLY <1>2, <2>1, <2>2, <2>3, for \in queue \cup {Tick}, Zenon DEF Served
  <2> QED BY ONLY JobInv, LeasesOK, LeasesOK', Ages, PauseInv, <1>2, <1>3, <2>1, <2>3, PauseStill, Zenon
<1> QED BY ONLY Snapshot(for), <1>5, <1>6, Zenon DEF Snapshot

(* The end of a save answers its worker: with ok once it is stored, or after a
   new generation, which takes the leases away. *)
LEMMA PauseStored ==
    ASSUME JobInv, LeasesOK, LeasesOK', Ages, SaveInv, PauseInv, Fence \/ Store \/ SaveFails,
           checkpoint \subseteq checkpoint'
    PROVE  PauseInv'
<1>1. /\ UNCHANGED <<schedVars, pc, held, xfer, cell>> /\ Saving
  BY ONLY Fence \/ Store \/ SaveFails, Zenon DEF Fence, Store, SaveFails, local, Saving
<1>2. Still
  BY ONLY LeasesOK, <1>1, checkpoint \subseteq checkpoint', StillIs, Zenon
<1>3. /\ coord.for \in Workers \cup {Tick} /\ 1 <= coord.generation /\ coord.generation <= generation
      /\ coord.generation \in Nat
  BY ONLY SaveInv, <1>1 DEF SaveInv
<1>4. active' = active /\ generation' = generation /\ held' = held /\ cell' = cell
  BY ONLY <1>1, Zenon DEF schedVars
<1>5. ASSUME NEW ok \in BOOLEAN, SaveEnds(coord.for, ok),
             \A v \in Workers : coord.for = v /\ ok => Covered(v, checkpoint)'
      PROVE  PauseInv'
  <2>1. /\ \A v \in Workers : Served(v)
        /\ queue' \subseteq Workers /\ reply' \in [Workers -> {"none", "ok", "error"}]
    BY ONLY PauseInv, SaveInv, <1>1, <1>3, <1>5, SaveEndsServes, Zenon
  <2> QED BY ONLY JobInv, LeasesOK, LeasesOK', Ages, PauseInv, <1>2, <2>1, PauseStill, Zenon
<1>6. CASE Fence
  <2>1. CASE generation # coord.generation /\ SaveEnds(coord.for, TRUE)
    <3>1. generation' # 1
      BY ONLY <1>3, <1>4, <2>1, Ages DEF Ages
    <3>2. \A v \in Workers : coord.for = v /\ TRUE => Covered(v, checkpoint)'
      BY ONLY <3>1, Zenon DEF Covered
    <3> QED BY ONLY <1>5, <2>1, <3>2, Zenon
  <2>2. CASE coord' = [coord EXCEPT !.pc = "store"] /\ UNCHANGED <<queue, reply, fatal>>
    <3>1. coord'.for = coord.for /\ coord'.ranges = coord.ranges /\ queue' = queue /\ reply' = reply
      BY ONLY SaveInv, <2>2, Zenon DEF SaveInv
    <3>2. \A v \in Workers : v \in queue => ~(Saving /\ coord.for = v)
      BY ONLY PauseInv, Zenon DEF PauseInv, PauseSound
    <3>3. \A v \in Workers : Served(v)
      BY ONLY <1>1, <3>1, <3>2, Zenon DEF Served
    <3>4. queue' \subseteq Workers /\ reply' \in [Workers -> {"none", "ok", "error"}]
      BY ONLY PauseInv, <3>1, Zenon DEF PauseInv
    <3> QED BY ONLY JobInv, LeasesOK, LeasesOK', Ages, PauseInv, <1>2, <3>3, <3>4, PauseStill, Zenon
  <2> QED BY ONLY <1>6, <2>1, <2>2, Zenon DEF Fence
<1>7. CASE Store
  <2>1. checkpoint' = coord.ranges /\ SaveEnds(coord.for, TRUE)
    BY ONLY <1>7, ZenonT(30) DEF Store
  <2>2. ASSUME NEW v \in Workers, coord.for = v PROVE Covered(v, checkpoint)'
    <3>1. Covered(v, coord.ranges)
      BY ONLY PauseInv, <1>1, <2>2, Zenon DEF PauseInv, PauseSound
    <3> QED BY ONLY <1>4, <2>1, <3>1, Zenon DEF Covered, Owned
  <2> QED BY ONLY <1>5, <2>1, <2>2, Zenon
<1>8. CASE SaveFails
  <2>1. SaveEnds(coord.for, FALSE)
    BY ONLY <1>8, Zenon DEF SaveFails
  <2> QED BY ONLY <1>5, <2>1, Zenon
<1> QED BY ONLY Fence \/ Store \/ SaveFails, <1>6, <1>7, <1>8, Zenon

(* Every step keeps PauseInv. *)
LEMMA PauseNext ==
    ASSUME Step, SaveInv, PauseInv, OutcomeInv, [Next]_vars, checkpoint \subseteq checkpoint'
    PROVE  PauseInv'
<1>1. JobInv /\ LeasesOK /\ LeasesOK' /\ Ages
  <2>1. generation \in 1 .. MaxGeneration /\ MaxGeneration \in Nat
    BY ONLY Step, BoundAssumption, Zenon DEF Step, SchedInv, SchedulerTypeOK
  <2>2. generation' \in Nat /\ generation <= generation'
    BY ONLY Step, GenerationGrows, Zenon DEF Step, LeasesOK
  <2> QED BY ONLY Step, <2>1, <2>2 DEF Step, Ages
<1>2. ASSUME NEW w \in Workers, Work(w) PROVE PauseInv'
  BY ONLY PauseInv, <1>1, <1>2, PauseWorks, Zenon
<1>3. ASSUME NEW for \in queue \cup {Tick}, Snapshot(for) PROVE PauseInv'
  BY ONLY SaveInv, PauseInv, <1>1, <1>3, PauseSnapshot, Zenon
<1>4. CASE Fence \/ Store \/ SaveFails
  BY ONLY SaveInv, PauseInv, <1>1, <1>4, checkpoint \subseteq checkpoint', PauseStored
<1>5. CASE UNCHANGED vars \/ RunSegmented \/ Cancel \/ TogglePause \/ SetDesired
  <2>1. /\ UNCHANGED <<schedVars, pc, held, xfer, cell>> /\ queue' = queue /\ reply' = reply
        /\ coord' = coord \/ (~Saving /\ ~Saving')
    BY ONLY <1>5, SMTT(60) DEF vars, env, local, coordVars, RunSegmented, JoinWorkers, StopCoordinator, Report, Cancel,
                     TogglePause, SetDesired, CoordTo, Saving
  <2>2. Still
    BY ONLY <1>1, <2>1, checkpoint \subseteq checkpoint', StillIs, Zenon
  <2>3. \A v \in Workers : v \in queue => ~(Saving /\ coord.for = v)
    BY ONLY PauseInv, Zenon DEF PauseInv, PauseSound
  <2>4. \A v \in Workers : Served(v)
    <3>1. CASE coord' = coord
      BY ONLY <2>1, <2>3, <3>1, Zenon DEF Served, Saving
    <3>2. CASE ~Saving /\ ~Saving'
      BY ONLY <2>1, <3>2 DEF Served
    <3> QED BY ONLY <2>1, <3>1, <3>2, Zenon
  <2>5. queue' \subseteq Workers /\ reply' \in [Workers -> {"none", "ok", "error"}]
    BY ONLY PauseInv, <2>1, Zenon DEF PauseInv
  <2> QED BY ONLY PauseInv, <1>1, <2>2, <2>4, <2>5, PauseStill, Zenon
<1> QED BY ONLY [Next]_vars, <1>2, <1>3, <1>4, <1>5, NextCases, Zenon DEF Aloof

(* PauseInv holds at the start. *)
LEMMA PauseInit ==
    ASSUME Init
    PROVE  PauseInv
<1>1. /\ pc = [w \in Workers |-> "top"] /\ queue = {} /\ reply = [w \in Workers |-> "none"]
      /\ coord = [pc |-> "idle", for |-> Tick, ranges |-> {}, generation |-> 0]
  BY ONLY Init, Zenon DEF Init
<1>2. "top" \notin Busy /\ "top" \notin Receiving
  BY ONLY Zenon DEF Busy, Receiving, Finishing
<1> QED BY ONLY <1>1, <1>2, Zenon DEF PauseInv, PauseSound, Saving

(* What PauseInv says of a paused worker. *)
LEMMA PauseShows ==
    ASSUME JobInv, LeasesOK, PauseInv
    PROVE  PauseIsResumable
<1> SUFFICES ASSUME NEW w \in Workers, pc[w] = "paused", generation = 1, cell[w].lease # 0
             PROVE  Acked(active[held[w].id]) \cup Owned(w) \subseteq checkpoint
  BY DEF PauseIsResumable, Owned
<1>1. PauseSound(w) /\ Types
  BY ONLY JobInv, PauseInv, Zenon DEF JobInv, PauseInv
<1>2. HasLease(w) /\ held[w].id \in DOMAIN active
  BY ONLY JobInv, LeasesOK, w \in Workers, cell[w].lease # 0, generation = 1, <1>1, Publishes, Zenon
<1>3. Owned(w) \subseteq checkpoint
  BY ONLY <1>1, pc[w] = "paused", generation = 1, cell[w].lease # 0, SMTT(30) DEF PauseSound, Covered
<1>4. /\ active[held[w].id].start = held[w].start /\ active[held[w].id].end \in Nat
      /\ active[held[w].id].next \in Nat /\ active[held[w].id].next <= active[held[w].id].end + 1
  BY ONLY LeasesOK, <1>2, Zenon DEF LeasesOK, HasLease
<1>5. /\ held[w].start \in Nat /\ cell[w].written \in Nat /\ cell[w].written = xfer[w].pos
      /\ active[held[w].id].next <= xfer[w].pos
  BY ONLY <1>1, <1>2, w \in Workers, pc[w] = "paused", cell[w].lease # 0, ZenonT(30) DEF Types, PauseSound, Receiving
<1>6. Acked(active[held[w].id]) \subseteq Owned(w)
  <2>1. PICK first \in Nat, next \in Nat, last \in Nat, pos \in Nat :
             /\ first = held[w].start /\ next = active[held[w].id].next /\ last = active[held[w].id].end
             /\ pos = cell[w].written
    BY ONLY <1>4, <1>5, Zenon
  <2>2. next <= last + 1 /\ next <= pos
    BY ONLY <1>4, <1>5, <2>1, Zenon
  <2>3. Acked(active[held[w].id]) = first .. next - 1 /\ Owned(w) = first .. Min2(pos - 1, last)
    BY ONLY <1>4, <2>1, Zenon DEF Acked, Owned
  <2>4. first .. next - 1 \subseteq first .. Min2(pos - 1, last)
    BY ONLY <2>2 DEF Min2
  <2> QED BY ONLY <2>3, <2>4, SMTT(30)
<1> QED BY ONLY <1>3, <1>6, Zenon
=============================================================================
