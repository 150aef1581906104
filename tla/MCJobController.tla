-------------------------- MODULE MCJobController --------------------------
(* Small instances of JobController. *)
EXTENDS JobController

PlainRequest == [resume |-> "Allowed", overwrite |-> "Replace", target |-> "File",
                 hash |-> 0, expected |-> 0]
Quiet == [style |-> "strong", known |-> TRUE, durable |-> FALSE, preallocate |-> TRUE,
          provider |-> FALSE, deadline |-> FALSE, faults |-> FALSE, crashes |-> FALSE,
          replaces |-> TRUE, pauses |-> FALSE, cancels |-> 0, requests |-> {PlainRequest}]

(* Crashes and power loss between runs, and a resource that changes. *)
Recovering ==
    {[Quiet EXCEPT !.crashes = TRUE, !.durable = TRUE],
     [Quiet EXCEPT !.crashes = TRUE, !.style = "dated", !.known = FALSE],
     [Quiet EXCEPT !.style = "weak", !.preallocate = FALSE],
     [Quiet EXCEPT !.style = "none", !.provider = TRUE, !.replaces = FALSE]}

(* A client that cancels, pauses and resumes; a deadline. *)
Controlled ==
    {[Quiet EXCEPT !.replaces = FALSE, !.cancels = 2, !.pauses = TRUE],
     [Quiet EXCEPT !.replaces = FALSE, !.cancels = 1, !.deadline = TRUE]}

(* Failing disks, foreign files and every kind of request. *)
Faulty ==
    {[Quiet EXCEPT !.faults = TRUE, !.crashes = TRUE, !.replaces = FALSE,
       !.requests = {[PlainRequest EXCEPT !.overwrite = "FailIfExists"],
                     [PlainRequest EXCEPT !.resume = "Required"],
                     [PlainRequest EXCEPT !.resume = "Never", !.target = "Directory",
                                          !.hash = 1, !.expected = Total],
                     [PlainRequest EXCEPT !.overwrite = "FailIfExists", !.target = "Directory",
                                          !.expected = 1]}]}

(* A body longer than the client expects, from a server that states no size. *)
Overlong ==
    {[Quiet EXCEPT !.known = FALSE, !.replaces = FALSE,
       !.requests = {[PlainRequest EXCEPT !.expected = 1]}]}

(* One resource that never changes, and a client that cancels at most once. *)
Undisturbed == {[Quiet EXCEPT !.replaces = FALSE, !.cancels = 1]}

MCScenarios == Recovering \cup Controlled \cup Faulty \cup Overlong
=============================================================================
