----------------------------- MODULE PathPolicy -----------------------------
(***************************************************************************)
(* Where a launch may write: path_policy.rs resolve_for_launch and         *)
(* ensure_destination_directory of supervisor/mod.rs, over a small tree    *)
(* with symbolic links that another process may change between any two     *)
(* steps.                                                                  *)
(*                                                                         *)
(* A path is a sequence of names, the first of which is one of two         *)
(* directories that always exist: the configured root and another one.    *)
(* Under them an entry is missing, a directory, or a link to one of the    *)
(* two.  A relative destination is a sequence of components; ".." stands   *)
(* for every component validate_relative_components refuses.               *)
(***************************************************************************)
EXTENDS Integers, Sequences, FiniteSets

LOCAL INSTANCE SequencesExt

CONSTANTS
    Names,          \* names of entries
    Requested,      \* relative destinations that are asked for
    MaxSwaps        \* how often another process changes an entry

VARIABLES
    tree,       \* the entries, by path
    swaps,
    launch      \* the launch in progress

policyVars == <<tree, swaps, launch>>

Root == <<"root">>
Outside == <<"outside">>
Dir == <<"dir">>
Missing == <<"missing">>
Kinds == {Dir, Missing, Root, Outside}        \* the last two: links

Entries == {base \o rest : base \in {Root, Outside},
                           rest \in {<<a>> : a \in Names} \cup {<<a, b>> : a, b \in Names}}
Parent(p) == SubSeq(p, 1, Len(p) - 1)
InsideRoot(p) == IsPrefix(Root, p)
IsDir(p) == p \notin {Root, Outside} => tree[p] = Dir

AtRest == [at |-> "idle", relative |-> <<>>, current |-> Root, missing |-> <<>>,
            directory |-> FALSE, moved |-> FALSE]

PolicyInit ==
    /\ tree = [p \in Entries |-> Missing]
    /\ swaps = 0
    /\ launch = AtRest

(* External: another process replaces an entry; what was below is gone. *)
Swap(p, kind) ==
    /\ swaps < MaxSwaps /\ IsDir(Parent(p)) /\ tree[p] # kind
    /\ tree' = [q \in Entries |-> IF q = p THEN kind ELSE IF IsPrefix(p, q) THEN Missing ELSE tree[q]]
    /\ swaps' = swaps + 1
    /\ launch' = [launch EXCEPT !.moved = TRUE]

-----------------------------------------------------------------------------
(* The file system's canonicalize; Missing if something on the way is. *)
Follow(p) == IF p \in {Root, Outside} THEN p
             ELSE IF tree[p] = Dir THEN p ELSE tree[p]
canonicalize(p) ==
    FoldLeft(LAMBDA at, name : IF at = Missing THEN Missing ELSE Follow(Append(at, name)),
             SubSeq(p, 1, 1), Tail(p))

validate_relative_components(relative) == \A i \in DOMAIN relative : relative[i] # ".."

(* Mutant of StepInto: an existing entry is joined, not resolved. *)
StepLexical(walk, name) ==
    LET next == Append(walk.current, name)
    IN  IF walk.missing # <<>> \/ tree[next] = Missing
          THEN [walk EXCEPT !.missing = Append(@, name)]
          ELSE [walk EXCEPT !.current = next]

(* One component: resolved while it exists, collected once one is missing. *)
StepInto(walk, name) ==
    LET next == Append(walk.current, name)
    IN  IF walk.missing # <<>> \/ tree[next] = Missing
          THEN [walk EXCEPT !.missing = Append(@, name)]
          ELSE [walk EXCEPT !.current = canonicalize(next)]

(* resolve_for_launch: the walk along the existing prefix. *)
Walk(relative, directory) ==
    /\ launch.at = "idle"
    /\ launch' = IF ~validate_relative_components(relative) THEN AtRest
                 ELSE [FoldLeft(StepInto, [AtRest EXCEPT !.relative = relative], relative)
                        EXCEPT !.at = "walked", !.directory = directory]
    /\ UNCHANGED <<tree, swaps>>

(* All but the last missing component are created, the result is resolved
   again, and the destination must be under the root. *)
CreateParents ==
    /\ launch.at = "walked"
    /\ LET parents == IF launch.missing = <<>> THEN <<>> ELSE Parent(launch.missing)
           parent == launch.current \o parents
           made == IF parents # <<>> /\ tree[parent] = Missing THEN [tree EXCEPT ![parent] = Dir] ELSE tree
           found == IF parents # <<>> /\ tree[parent] = Missing THEN parent ELSE canonicalize(parent)
           destination == IF launch.missing = <<>> THEN launch.current
                          ELSE Append(found, launch.missing[Len(launch.missing)])
           ok == (launch.missing = <<>> \/ found # Missing) /\ InsideRoot(destination)
       IN  /\ tree' = made
           /\ launch' = IF ~ok THEN AtRest
                        ELSE [launch EXCEPT !.at = IF launch.directory THEN "ensure" ELSE "launched",
                                            !.current = destination]
    /\ UNCHANGED swaps

(* The directory is created, resolved and checked once more. *)
ensure_destination_directory ==
    /\ launch.at = "ensure"
    /\ LET p == launch.current
           creatable == p # Root /\ tree[p] = Missing /\ IsDir(Parent(p))
           found == IF creatable THEN p ELSE canonicalize(p)
       IN  /\ tree' = IF creatable THEN [tree EXCEPT ![p] = Dir] ELSE tree
           /\ launch' = IF found # Missing /\ InsideRoot(found)
                          THEN [launch EXCEPT !.at = "launched", !.current = found, !.moved = FALSE]
                          ELSE AtRest
    /\ UNCHANGED swaps

LaunchEnds ==
    /\ launch.at = "launched"
    /\ launch' = AtRest
    /\ UNCHANGED <<tree, swaps>>

PolicyNext ==
    \/ \E p \in Entries, kind \in Kinds : Swap(p, kind)
    \/ \E relative \in Requested, directory \in BOOLEAN : Walk(relative, directory)
    \/ CreateParents \/ ensure_destination_directory \/ LaunchEnds

PolicySpec == PolicyInit /\ [][PolicyNext]_policyVars

-----------------------------------------------------------------------------
(* What the engine is given lies under the root on disk, not only by name
   (resolve_for_launch, ensure_destination_directory): the directory it writes
   into resolves to a place under the root, links included.  A directory
   destination is resolved last of all, so this holds whatever changed during
   the resolution; a file destination is safe if nothing changed meanwhile. *)
LandsInside ==
    launch.at = "launched" /\ ~launch.moved =>
        /\ InsideRoot(launch.current)
        /\ canonicalize(launch.current) \in {launch.current} \cup (IF launch.directory THEN {} ELSE {Missing})
        /\ launch.current # Root => canonicalize(Parent(launch.current)) = Parent(launch.current)
=============================================================================
