--------------------------- MODULE MCEngineParts ---------------------------
(* Parts of the engine that share no state with one another, for TLC.  What a
   download leaves on disk: the checkpoint file, the temporary file and its
   publication, the name it is given and the candidate it owns.  What its
   workers share in memory: byte budgets, buffers, the writer lane, the
   progress cell, the sets of ranges.  What an embedder configures.  A
   behaviour exercises one of them, chosen initially, while the others stay in
   their first states. *)
EXTENDS CheckpointStore, OutputSession, Naming, Destinations,
        WriteBudget, WriterLane, LeaseProgress, IntervalSet, Configuration

CONSTANTS j1, j2, p1, p2, u1, u2
VARIABLE component

MCBytes == 1 .. 3
MCGenerations == {1, 2}
MCBudgetJob == [t \in {"x", "y", "z"} |-> IF t = "z" THEN 2 ELSE 1]
MCBudgetMax == [global |-> 3, job |-> 2]
(* Two jobs of one process, two processes, and a job that must resume. *)
Request(p, u, r) == [process |-> p, url |-> u, resume |-> r]
MCAssignments ==
    {[j \in {j1, j2} |-> IF j = j1 THEN first ELSE second] :
        first \in {Request(p1, u1, "Allowed")},
        second \in {Request(p1, u2, "Never"), Request(p2, u1, "Allowed"), Request(p2, u2, "Required")}}
(* 0 clears the cell. *)
MCPublications == <<1, 2, 0, 3, 4>>

(* The first states of the components that do not move. *)
NamingStill ==
    /\ asked = [kind |-> "file", meta |-> NoName, base |-> <<>>, fallback |-> Unnamed, cap |-> HardCap, rename |-> FALSE]
    /\ step = "asked" /\ siblings = <<>> /\ destination = Unnamed
DestinationsStill == request[j2].resume = "Never" /\ \A c \in Candidates : part[c] = Nobody

MCInit ==
    /\ component \in {"store", "session", "naming", "destinations", "budget", "pool", "lane", "cell", "ranges", "config"}
    /\ StoreInit /\ (component # "store" => durable)
    /\ DestinationInit /\ (component # "destinations" => DestinationsStill)
    /\ IF component = "naming" THEN NamingInit ELSE NamingStill
    /\ SessionInit /\ BudgetInit /\ PoolInit /\ LaneInit /\ CellInit /\ Init /\ ConfigInit

MCNext ==
    /\ \/ component = "store" /\ StoreNext
       \/ component = "session" /\ SessionNext
       \/ component = "naming" /\ NamingNext
       \/ component = "destinations" /\ DestinationNext
       \/ component = "budget" /\ BudgetNext
       \/ component = "pool" /\ PoolNext
       \/ component = "lane" /\ LaneNext
       \/ component = "cell" /\ CellNext
       \/ component = "ranges" /\ Next
       \/ component = "config" /\ ConfigNext
    /\ component # "store" => UNCHANGED storeVars
    /\ component # "session" => UNCHANGED sessionVars
    /\ component # "naming" => UNCHANGED namingVars
    /\ component # "destinations" => UNCHANGED destinationVars
    /\ component # "budget" => UNCHANGED budgetVars
    /\ component # "pool" => UNCHANGED poolVars
    /\ component # "lane" => UNCHANGED laneVars
    /\ component # "cell" => UNCHANGED cellVars
    /\ component # "ranges" => UNCHANGED map
    /\ component # "config" => UNCHANGED configVars
    /\ UNCHANGED component

MCSpec ==
    MCInit /\ [][MCNext]_<<storeVars, sessionVars, namingVars, destinationVars, budgetVars,
                           poolVars, laneVars, cellVars, map, configVars, component>>

-----------------------------------------------------------------------------
(* Inserting, subtracting and uniting ranges are the set operations on the
   bytes they cover and keep the ranges sorted, disjoint and unmergeable
   (StaysNormalized and EditsExact, evaluated where the ranges move). *)
RangeEditsExact == component = "ranges" => StaysNormalized /\ EditsExact

(* What a set of ranges answers, first gaps, lengths, complements, is what the
   bytes it covers say (QueriesExact, evaluated where the ranges move). *)
RangeQueriesExact == component = "ranges" => QueriesExact
=============================================================================
