--------------------------- MODULE MCApplication ---------------------------
(* The application around the supervisor, for TLC: what a page shows, how it
   lists jobs, the catalogue of roots and settings, and the resolution of a
   job's directory.  The components share no state: a behaviour exercises one
   of them, chosen initially, while the others stay in their first states. *)
EXTENDS LiveViews, Catalogue, PathPolicy

VARIABLE component

MCRequested == {<<>>, <<"a">>, <<"b">>, <<"a", "b">>, <<"b", "a">>, <<"a", "..">>}

MCInit ==
    /\ LiveInit /\ PagesInit /\ CatalogueInit /\ PolicyInit
    /\ component \in {"views", "pages", "catalogue", "paths"}
    /\ component # "pages" => \A j \in PageJobs : stamps[j] = 0

MCNext ==
    /\ \/ component = "views" /\ LiveNext /\ UNCHANGED <<pageVars, catalogueVars, policyVars>>
       \/ component = "pages" /\ PagesNext /\ UNCHANGED <<liveVars, catalogueVars, policyVars>>
       \/ component = "catalogue" /\ CatalogueNext /\ UNCHANGED <<liveVars, pageVars, policyVars>>
       \/ component = "paths" /\ PolicyNext /\ UNCHANGED <<liveVars, pageVars, catalogueVars>>
    /\ UNCHANGED component

MCSpec == MCInit /\ [][MCNext]_<<liveVars, pageVars, catalogueVars, policyVars, component>>
=============================================================================
