--------------------------- MODULE ServiceProofs ----------------------------
(* What the jobs of an engine share, proved for every number of roots, rows,
   tasks, pools, publications and subscribers: the catalogue of roots and the
   pages of the history, the memory an engine is configured for, the write
   memory that tasks wait for, the progress cell the coordinator reads and the
   last events of a stream. *)
EXTENDS Catalogue, Configuration, WriteBudget, LeaseProgress, EventHub,
        FiniteSetTheorems, TLAPS

USE SMTT(20), ZenonT(30)

-----------------------------------------------------------------------------
(* The catalogue of roots. *)

RequestSteps == {"none", "found", "insert", "default", "disable", "clear", "create", "apply"}
RequestType == [at : RequestSteps, dir : Dirs \cup {NoDir}, makeDefault : BOOLEAN, job : RootJobs \cup {0},
                value : Concurrencies \cup {0}]
CatalogueTyped ==
    /\ roots \in [Dirs -> [known : BOOLEAN, enabled : BOOLEAN]]
    /\ rooted \in [RootJobs -> [root : Dirs \cup {NoDir}, open : BOOLEAN]]
    /\ requests \in [Clients -> RequestType]

(* A request that concerns a root names one, and one that creates a job names a
   job that does not exist yet and that nobody else creates. *)
RequestsFit ==
    /\ \A c \in Clients : requests[c].at \in {"insert", "disable", "create"} => requests[c].dir \in Dirs
    /\ \A c \in Clients : Pending(c, "create") => /\ requests[c].job \in RootJobs
                                             /\ rooted[requests[c].job].root = NoDir
    /\ \A c, e \in Clients : Pending(c, "create") /\ Pending(e, "create") /\ requests[c].job = requests[e].job => c = e
    /\ \A j \in RootJobs : rooted[j].open => rooted[j].root # NoDir

(* Every unfinished job under a root that is being disabled, and every job that
   is being created under a disabled one, is among those that raced. *)
RacesNoted ==
    /\ \A c \in Clients : Pending(c, "disable") =>
          \A j \in RootJobs : rooted[j].open /\ rooted[j].root = requests[c].dir => j \in raced
    /\ \A c \in Clients : Pending(c, "create") /\ ~roots[requests[c].dir].enabled => requests[c].job \in raced

CatalogueInv == CatalogueTyped /\ RequestsFit /\ RacesNoted /\ DisabledUnused

(* A client whose request neither disables a root nor creates a job next, while
   the tables stay or a root is enabled. *)
LEMMA ClientMoves ==
    ASSUME CatalogueInv, NEW c \in Clients, NEW r \in RequestType, Do(c, r),
           r.at \notin {"disable", "create"}, r.at = "insert" => r.dir \in Dirs,
           roots' \in [Dirs -> [known : BOOLEAN, enabled : BOOLEAN]],
           \A d \in Dirs : roots[d].enabled => roots'[d].enabled,
           UNCHANGED <<rooted, raced>>
    PROVE  CatalogueInv'
<1>1. requests' = [requests EXCEPT ![c] = r] /\ requests \in [Clients -> RequestType]
  BY Zenon DEF Do, CatalogueInv, CatalogueTyped
<1>2. requests' \in [Clients -> RequestType] /\ requests'[c] = r /\ \A e \in Clients : e # c => requests'[e] = requests[e]
  BY <1>1, Zenon
<1>3. CatalogueTyped'
  BY <1>2, Zenon DEF CatalogueInv, CatalogueTyped
<1>4. \A e \in Clients : (Pending(e, "create")' => Pending(e, "create") /\ requests'[e] = requests[e])
                      /\ (Pending(e, "disable")' => Pending(e, "disable") /\ requests'[e] = requests[e])
  BY <1>2, Zenon DEF Pending
<1>5. RequestsFit'
  BY <1>2, <1>4 DEF CatalogueInv, RequestsFit
<1>6. RacesNoted'
  BY <1>2, <1>4 DEF CatalogueInv, RacesNoted, RequestsFit, Pending
<1>7. DisabledUnused'
  BY Zenon DEF CatalogueInv, DisabledUnused, RequestsFit, CatalogueTyped
<1>. QED
  BY <1>3, <1>5, <1>6, <1>7, Zenon DEF CatalogueInv

(* The requests that a client can be left with. *)
LEMMA RequestFor ==
    ASSUME NEW at \in RequestSteps, NEW d \in Dirs, NEW b \in BOOLEAN
    PROVE  /\ Request(at, d) \in RequestType /\ Request(at, d).at = at /\ Request(at, d).dir = d
           /\ [Request(at, d) EXCEPT !.makeDefault = b] \in RequestType
           /\ [Request(at, d) EXCEPT !.makeDefault = b].at = at
           /\ [Request(at, d) EXCEPT !.makeDefault = b].dir = d
<1>1. NoRequest \in RequestType
  BY Zenon DEF NoRequest, RequestType, RequestSteps
<1>. QED
  BY <1>1, Zenon DEF Request, RequestType

(* None, and those that go on from another. *)
LEMMA SomeRequests ==
    /\ NoRequest \in RequestType /\ NoRequest.at = "none"
    /\ \A r \in RequestType : [r EXCEPT !.at = "default"] \in RequestType /\ [r EXCEPT !.at = "default"].at = "default"
    /\ \A r \in RequestType : [r EXCEPT !.at = "clear"] \in RequestType /\ [r EXCEPT !.at = "clear"].at = "clear"
<1>1. NoRequest \in RequestType /\ NoRequest.at = "none"
  BY Zenon DEF NoRequest, RequestType, RequestSteps
<1>2. "default" \in RequestSteps /\ "clear" \in RequestSteps
  BY Zenon DEF RequestSteps
<1>. QED
  BY <1>1, <1>2, Zenon DEF RequestType

(* The request of create_job. *)
LEMMA OtherRequests ==
    ASSUME NEW d \in Dirs, NEW j \in RootJobs
    PROVE  /\ [Request("create", d) EXCEPT !.job = j] \in RequestType
           /\ [Request("create", d) EXCEPT !.job = j].at = "create"
           /\ [Request("create", d) EXCEPT !.job = j].dir = d
           /\ [Request("create", d) EXCEPT !.job = j].job = j
<1>1. "create" \in RequestSteps /\ TRUE \in BOOLEAN
  BY Zenon DEF RequestSteps
<1>2. Request("create", d) \in RequestType /\ Request("create", d).at = "create" /\ Request("create", d).dir = d
  BY <1>1, RequestFor, Zenon
<1>. QED
  BY <1>1, <1>2, Zenon DEF RequestType

(* The request of put_settings. *)
LEMMA ApplyRequest ==
    ASSUME NEW n \in Concurrencies
    PROVE  /\ [NoRequest EXCEPT !.at = "apply", !.value = n] \in RequestType
           /\ [NoRequest EXCEPT !.at = "apply", !.value = n].at = "apply"
<1>1. "apply" \in RequestSteps
  BY Zenon DEF RequestSteps
<1>. QED
  BY <1>1, SomeRequests, Zenon DEF RequestType

(* A handler that goes on to the default root, or is done. *)
LEMMA RequestDone ==
    ASSUME CatalogueInv, NEW c \in Clients, Done(c) \/ ThenDefault(c),
           roots' \in [Dirs -> [known : BOOLEAN, enabled : BOOLEAN]],
           \A d \in Dirs : roots[d].enabled => roots'[d].enabled,
           UNCHANGED <<rooted, raced>>
    PROVE  CatalogueInv'
<1>1. requests[c] \in RequestType
  BY Zenon DEF CatalogueInv, CatalogueTyped
<1>2. CASE Done(c)
  BY <1>2, SomeRequests, ClientMoves, Zenon DEF Done
<1>3. CASE Do(c, [requests[c] EXCEPT !.at = "default"])
  <2>1. PICK r : r = [requests[c] EXCEPT !.at = "default"]
    BY Zenon
  <2>2. r \in RequestType /\ r.at = "default" /\ Do(c, r)
    BY <1>1, <1>3, <2>1, SomeRequests, Zenon
  <2>. QED
    BY <2>2, ClientMoves, Zenon
<1>. QED
  BY <1>2, <1>3, Zenon DEF ThenDefault

(* The handlers that only read, insert or enable a root. *)
LEMMA RootsInv ==
    ASSUME CatalogueInv, NEW c \in Clients,
           \/ \E d \in Dirs, b \in BOOLEAN : AddRoot(c, d, b) \/ EnableRoot(c, d, b)
           \/ \E d \in Dirs : MakeDefault(c, d)
           \/ FoundRoot(c) \/ InsertRoot(c) \/ set_default_root(c) \/ ClearDefault(c) \/ ApplyLimits(c)
    PROVE  CatalogueInv'
<1>0. roots \in [Dirs -> [known : BOOLEAN, enabled : BOOLEAN]]
  BY Zenon DEF CatalogueInv, CatalogueTyped
<1>1. ASSUME NEW d \in Dirs, NEW b \in BOOLEAN, AddRoot(c, d, b) PROVE CatalogueInv'
  <2>1. PICK at \in {"found", "insert"} : at = (IF roots[d].known THEN "found" ELSE "insert")
    BY Zenon
  <2>2. Do(c, [Request(at, d) EXCEPT !.makeDefault = b]) /\ UNCHANGED <<roots, rooted, raced>>
    BY <1>1, <2>1, Zenon DEF AddRoot
  <2>3. at \in RequestSteps
    BY Zenon DEF RequestSteps
  <2>4. PICK r : r = [Request(at, d) EXCEPT !.makeDefault = b]
    BY Zenon
  <2>a. /\ [Request(at, d) EXCEPT !.makeDefault = b] \in RequestType
        /\ [Request(at, d) EXCEPT !.makeDefault = b].at = at
        /\ [Request(at, d) EXCEPT !.makeDefault = b].dir = d
    BY <2>3, RequestFor
  <2>5. r \in RequestType /\ r.at = at /\ r.dir = d /\ Do(c, r)
    BY <2>2, <2>4, <2>a, Zenon
  <2>. QED
    BY <1>0, <2>2, <2>5, ClientMoves, Zenon
<1>2. ASSUME NEW d \in Dirs, NEW b \in BOOLEAN, EnableRoot(c, d, b) PROVE CatalogueInv'
  <2>1. /\ roots' = [roots EXCEPT ![d].enabled = TRUE] /\ UNCHANGED <<rooted, raced>>
        /\ Do(c, IF b THEN Request("default", d) ELSE NoRequest)
    BY <1>2, Zenon DEF EnableRoot
  <2>2. /\ roots' \in [Dirs -> [known : BOOLEAN, enabled : BOOLEAN]]
        /\ \A e \in Dirs : roots[e].enabled => roots'[e].enabled
    BY <1>0, <2>1, Zenon
  <2>3. "default" \in RequestSteps /\ TRUE \in BOOLEAN
    BY Zenon DEF RequestSteps
  <2>4. PICK r \in {Request("default", d), NoRequest} : Do(c, r)
    BY <2>1, Zenon
  <2>a. /\ Request("default", d) \in RequestType /\ Request("default", d).at = "default"
        /\ NoRequest \in RequestType /\ NoRequest.at = "none"
    BY <2>3, RequestFor, SomeRequests, Zenon
  <2>5. r \in RequestType /\ r.at \in {"default", "none"}
    BY <2>4, <2>a, Zenon
  <2>. QED
    BY <2>1, <2>2, <2>4, <2>5, ClientMoves, Zenon
<1>3. ASSUME NEW d \in Dirs, MakeDefault(c, d) PROVE CatalogueInv'
  <2>1. "default" \in RequestSteps /\ TRUE \in BOOLEAN
    BY Zenon DEF RequestSteps
  <2>2. PICK r : r = Request("default", d)
    BY Zenon
  <2>a. Do(c, r) /\ UNCHANGED <<roots, rooted, raced>>
    BY <1>3, <2>2 DEF MakeDefault
  <2>3. r \in RequestType /\ r.at = "default"
    BY <2>1, <2>2, RequestFor, Zenon
  <2>. QED
    BY <1>0, <2>3, <2>a, ClientMoves, Zenon
<1>4. CASE FoundRoot(c) \/ set_default_root(c) \/ ClearDefault(c) \/ ApplyLimits(c)
  <2>1. (Done(c) \/ ThenDefault(c)) /\ UNCHANGED <<roots, rooted, raced>>
    BY <1>4, Zenon DEF FoundRoot, set_default_root, ClearDefault, ApplyLimits
  <2>. QED
    BY <1>0, <2>1, RequestDone, Zenon
<1>5. CASE InsertRoot(c)
  <2>1. UNCHANGED <<rooted, raced>> /\ requests[c].dir \in Dirs
    BY <1>5, Zenon DEF InsertRoot, CatalogueInv, RequestsFit, Pending
  <2>2. CASE Done(c) /\ UNCHANGED roots
    BY <1>0, <2>1, <2>2, RequestDone, Zenon
  <2>3. CASE ThenDefault(c) /\ roots' = [roots EXCEPT ![requests[c].dir] = [known |-> TRUE, enabled |-> TRUE]]
    <3>1. /\ roots' \in [Dirs -> [known : BOOLEAN, enabled : BOOLEAN]]
          /\ \A e \in Dirs : roots[e].enabled => roots'[e].enabled
      BY <1>0, <2>1, <2>3, Zenon
    <3>. QED
      BY <2>1, <2>3, <3>1, RequestDone, Zenon
  <2>. QED
    BY <1>5, <2>2, <2>3, Zenon DEF InsertRoot
<1>. QED
  BY <1>1, <1>2, <1>3, <1>4, <1>5, Zenon

(* disable_root counts the jobs that need the root: it goes on only when there
   are none. *)
LEMMA CountJobsInv ==
    ASSUME CatalogueInv, NEW c \in Clients, NEW d \in Dirs, NEW b \in BOOLEAN, CountJobs(c, d, b)
    PROVE  CatalogueInv'
<1>0. requests \in [Clients -> RequestType] /\ UNCHANGED <<roots, rooted, raced>>
  BY Zenon DEF CatalogueInv, CatalogueTyped, CountJobs
<1>1. CASE InUse(d)
  <2>1. Do(c, NoRequest)
    BY <1>1, Zenon DEF CountJobs
  <2>. QED
    BY <1>0, <2>1, RequestDone, Zenon DEF Done, CatalogueInv, CatalogueTyped
<1>2. CASE ~InUse(d)
  <2>1. PICK r : r = [Request("disable", d) EXCEPT !.makeDefault = b]
    BY Zenon
  <2>2. "disable" \in RequestSteps
    BY Zenon DEF RequestSteps
  <2>a. /\ [Request("disable", d) EXCEPT !.makeDefault = b] \in RequestType
        /\ [Request("disable", d) EXCEPT !.makeDefault = b].at = "disable"
        /\ [Request("disable", d) EXCEPT !.makeDefault = b].dir = d
    BY <2>2, RequestFor
  <2>3. r \in RequestType /\ r.at = "disable" /\ r.dir = d
    BY <2>1, <2>a, Zenon
  <2>4. requests' = [requests EXCEPT ![c] = r]
    BY <1>2, <2>1, Zenon DEF CountJobs, Do
  <2>5. requests' \in [Clients -> RequestType] /\ requests'[c] = r /\ \A e \in Clients : e # c => requests'[e] = requests[e]
    BY <1>0, <2>3, <2>4, Zenon
  <2>6. CatalogueTyped'
    BY <1>0, <2>5, Zenon DEF CatalogueInv, CatalogueTyped
  <2>7. RequestsFit'
    BY <1>0, <2>3, <2>5 DEF CatalogueInv, RequestsFit, Pending
  <2>8. RacesNoted'
    BY <1>0, <1>2, <2>3, <2>5 DEF CatalogueInv, RacesNoted, InUse, Pending
  <2>9. DisabledUnused'
    BY <1>0, Zenon DEF CatalogueInv, DisabledUnused
  <2>. QED
    BY <2>6, <2>7, <2>8, <2>9, Zenon DEF CatalogueInv
<1>. QED
  BY <1>1, <1>2, Zenon

(* disable_root, the update: every job that is or will be under the root has
   raced with it. *)
LEMMA DisableInv == ASSUME CatalogueInv, NEW c \in Clients, Disable(c) PROVE CatalogueInv'
<1> DEFINE d == requests[c].dir
<1>0. /\ requests \in [Clients -> RequestType] /\ requests[c] \in RequestType
      /\ roots \in [Dirs -> [known : BOOLEAN, enabled : BOOLEAN]]
      /\ rooted \in [RootJobs -> [root : Dirs \cup {NoDir}, open : BOOLEAN]]
  BY Zenon DEF CatalogueInv, CatalogueTyped
<1>1. /\ Pending(c, "disable") /\ d \in Dirs /\ rooted' = rooted
      /\ roots' = [roots EXCEPT ![d].enabled = FALSE]
      /\ raced' = raced \cup {requests[e].job : e \in Busy("create", d)}
      /\ requests' = [requests EXCEPT ![c] = [requests[c] EXCEPT !.at = "clear"]]
  BY Zenon DEF Disable, Do, CatalogueInv, RequestsFit, Pending
<1>2. /\ roots' \in [Dirs -> [known : BOOLEAN, enabled : BOOLEAN]]
      /\ \A e \in Dirs : e # d => roots'[e] = roots[e]
  BY <1>0, <1>1, Zenon
<1>3. PICK r : r = [requests[c] EXCEPT !.at = "clear"]
  BY Zenon
<1>4. r \in RequestType /\ r.at = "clear"
  BY <1>0, <1>3, SomeRequests, Zenon
<1>5. requests' \in [Clients -> RequestType] /\ requests'[c] = r /\ \A e \in Clients : e # c => requests'[e] = requests[e]
  BY <1>0, <1>1, <1>3, <1>4, Zenon
<1>6. \A e \in Clients : (Pending(e, "create")' => Pending(e, "create") /\ requests'[e] = requests[e])
                      /\ (Pending(e, "disable")' => Pending(e, "disable") /\ requests'[e] = requests[e])
  BY <1>4, <1>5, Zenon DEF Pending
<1>7. raced \subseteq raced' /\ \A e \in Clients : Pending(e, "create") /\ requests[e].dir = d => requests[e].job \in raced'
  BY <1>1 DEF Busy
<1>8. CatalogueTyped'
  BY <1>1, <1>2, <1>5, Zenon DEF CatalogueInv, CatalogueTyped
<1>9. RequestsFit'
  BY <1>1, <1>4, <1>5, <1>6 DEF CatalogueInv, RequestsFit
<1>10. RacesNoted'
  <2>1. ASSUME NEW e \in Clients, Pending(e, "create")', ~roots'[requests'[e].dir].enabled PROVE requests'[e].job \in raced'
    <3>1. Pending(e, "create") /\ requests'[e] = requests[e] /\ requests[e].dir \in Dirs
      BY <1>6, <2>1, Zenon DEF CatalogueInv, RequestsFit, Pending
    <3>2. CASE requests[e].dir = d
      BY <1>7, <3>1, <3>2, Zenon
    <3>3. CASE requests[e].dir # d
      BY <1>2, <1>7, <2>1, <3>1, <3>3, Zenon DEF CatalogueInv, RacesNoted
    <3>. QED
      BY <3>2, <3>3, Zenon
  <2>2. ASSUME NEW e \in Clients, Pending(e, "disable")', NEW j \in RootJobs, rooted[j].open, rooted[j].root = requests'[e].dir
        PROVE  j \in raced'
    BY <1>6, <1>7, <2>2, Zenon DEF CatalogueInv, RacesNoted
  <2>. QED
    BY <1>1, <2>1, <2>2, Zenon DEF RacesNoted
<1>11. DisabledUnused'
  <2>1. ASSUME NEW j \in RootJobs, rooted[j].open, ~roots'[rooted[j].root].enabled PROVE j \in raced'
    <3>1. rooted[j].root \in Dirs
      BY <1>0, <2>1, Zenon DEF CatalogueInv, RequestsFit
    <3>2. CASE rooted[j].root = d
      BY <1>1, <1>7, <2>1, <3>2, Zenon DEF CatalogueInv, RacesNoted
    <3>3. CASE rooted[j].root # d
      BY <1>2, <1>7, <2>1, <3>1, <3>3, Zenon DEF CatalogueInv, DisabledUnused
    <3>. QED
      BY <3>2, <3>3, Zenon
  <2>. QED
    BY <1>1, <2>1, Zenon DEF DisabledUnused
<1>. QED
  BY <1>8, <1>9, <1>10, <1>11, Zenon DEF CatalogueInv

(* create_job finds its root enabled; the job is one nobody else creates. *)
LEMMA CheckRootInv ==
    ASSUME CatalogueInv, NEW c \in Clients, NEW j \in RootJobs, NEW d \in Dirs, CheckRoot(c, j, d)
    PROVE  CatalogueInv'
<1>0. requests \in [Clients -> RequestType] /\ UNCHANGED <<roots, rooted, raced>>
  BY Zenon DEF CatalogueInv, CatalogueTyped, CheckRoot
<1>1. CASE Do(c, NoRequest)
  BY <1>0, <1>1, RequestDone, Zenon DEF Done, CatalogueInv, CatalogueTyped
<1>2. CASE roots[d].enabled /\ Do(c, [Request("create", d) EXCEPT !.job = j])
  <2>1. PICK r : r = [Request("create", d) EXCEPT !.job = j]
    BY Zenon
  <2>2. r \in RequestType /\ r.at = "create" /\ r.dir = d /\ r.job = j
    BY <2>1, OtherRequests
  <2>3. requests' = [requests EXCEPT ![c] = r]
    BY <1>2, <2>1, Zenon DEF Do
  <2>4. requests' \in [Clients -> RequestType] /\ requests'[c] = r /\ \A e \in Clients : e # c => requests'[e] = requests[e]
    BY <1>0, <2>2, <2>3, Zenon
  <2>5. rooted[j].root = NoDir /\ \A e \in Clients : requests[e].job # j
    BY Zenon DEF CheckRoot
  <2>6. CatalogueTyped'
    BY <1>0, <2>4, Zenon DEF CatalogueInv, CatalogueTyped
  <2>7. RequestsFit'
    BY <1>0, <2>2, <2>4, <2>5 DEF CatalogueInv, RequestsFit, Pending
  <2>8. RacesNoted'
    BY <1>0, <1>2, <2>2, <2>4, Zenon DEF CatalogueInv, RacesNoted, Pending
  <2>9. DisabledUnused'
    BY <1>0, Zenon DEF CatalogueInv, DisabledUnused
  <2>. QED
    BY <2>6, <2>7, <2>8, <2>9, Zenon DEF CatalogueInv
<1>. QED
  BY <1>1, <1>2, Zenon DEF CheckRoot

(* The insertion of a job: if its root is being disabled the job has raced, and
   if it was disabled since the look the update noted the job. *)
LEMMA InsertJobInv == ASSUME CatalogueInv, NEW c \in Clients, insert_job(c) PROVE CatalogueInv'
<1>0. /\ requests \in [Clients -> RequestType] /\ requests[c] \in RequestType
      /\ rooted \in [RootJobs -> [root : Dirs \cup {NoDir}, open : BOOLEAN]]
      /\ roots' = roots /\ Pending(c, "create")
  BY Zenon DEF CatalogueInv, CatalogueTyped, insert_job
<1>1. PICK d \in Dirs, k \in RootJobs : d = requests[c].dir /\ k = requests[c].job
  BY <1>0, Zenon DEF CatalogueInv, RequestsFit, Pending
<1>2. /\ rooted' = [rooted EXCEPT ![k] = [root |-> d, open |-> TRUE]]
      /\ requests' = [requests EXCEPT ![c] = NoRequest]
      /\ raced' = IF Busy("disable", d) = {} THEN raced ELSE raced \cup {k}
  BY <1>1, Zenon DEF insert_job, Done, Do
<1>3. /\ rooted' \in [RootJobs -> [root : Dirs \cup {NoDir}, open : BOOLEAN]]
      /\ rooted'[k].root = d /\ \A j \in RootJobs : j # k => rooted'[j] = rooted[j]
  BY <1>0, <1>2, Zenon
<1>4. requests' \in [Clients -> RequestType] /\ requests'[c] = NoRequest /\ \A e \in Clients : e # c => requests'[e] = requests[e]
  BY <1>0, <1>2, SomeRequests, Zenon
<1>5. \A e \in Clients : (Pending(e, "create")' => Pending(e, "create") /\ e # c /\ requests'[e] = requests[e])
                      /\ (Pending(e, "disable")' => Pending(e, "disable") /\ requests'[e] = requests[e])
  BY <1>4, SomeRequests, Zenon DEF Pending
<1>6. raced \subseteq raced' /\ \A e \in Clients : Pending(e, "disable") /\ requests[e].dir = d => k \in raced'
  BY <1>2, Zenon DEF Busy
<1>7. ~roots[d].enabled => k \in raced'
  BY <1>0, <1>1, <1>6, Zenon DEF CatalogueInv, RacesNoted
<1>8. CatalogueTyped'
  BY <1>0, <1>3, <1>4 DEF CatalogueInv, CatalogueTyped
<1>9. RequestsFit'
  <2>1. d # NoDir
    BY CatalogueAssumption, Zenon
  <2>2. \A e \in Clients : Pending(e, "create")' => requests[e].job # k
    BY <1>0, <1>1, <1>5 DEF CatalogueInv, RequestsFit
  <2>3. \A e \in Clients : requests'[e].at \in {"insert", "disable", "create"} => requests'[e].dir \in Dirs
    BY <1>4, SomeRequests, Zenon DEF CatalogueInv, RequestsFit
  <2>4. \A e \in Clients : Pending(e, "create")' => /\ requests'[e].job \in RootJobs
                                               /\ rooted'[requests'[e].job].root = NoDir
    BY <1>3, <1>5, <2>2 DEF CatalogueInv, RequestsFit
  <2>5. \A j \in RootJobs : rooted'[j].open => rooted'[j].root # NoDir
    BY <1>3, <2>1, Zenon DEF CatalogueInv, RequestsFit
  <2>6. \A e, f \in Clients : Pending(e, "create")' /\ Pending(f, "create")' /\ requests'[e].job = requests'[f].job => e = f
    BY <1>5 DEF CatalogueInv, RequestsFit
  <2>. QED
    BY <2>3, <2>4, <2>5, <2>6, Zenon DEF RequestsFit
<1>10. RacesNoted'
  <2>1. ASSUME NEW e \in Clients, Pending(e, "create")', ~roots[requests'[e].dir].enabled PROVE requests'[e].job \in raced'
    BY <1>5, <1>6, <2>1, Zenon DEF CatalogueInv, RacesNoted
  <2>2. ASSUME NEW e \in Clients, Pending(e, "disable")', NEW j \in RootJobs, rooted'[j].open, rooted'[j].root = requests'[e].dir
        PROVE  j \in raced'
    BY <1>3, <1>5, <1>6, <2>2 DEF CatalogueInv, RacesNoted
  <2>. QED
    BY <1>0, <2>1, <2>2, Zenon DEF RacesNoted
<1>11. DisabledUnused'
  BY <1>0, <1>3, <1>6, <1>7, Zenon DEF CatalogueInv, DisabledUnused
<1>. QED
  BY <1>8, <1>9, <1>10, <1>11, Zenon DEF CatalogueInv

(* A job ends, or is retried: a retry under a root that is disabled, or is
   being disabled, is noted. *)
LEMMA JobsInv == ASSUME CatalogueInv, NEW j \in RootJobs, JobEnds(j) \/ RetryJob(j) PROVE CatalogueInv'
<1>0. /\ requests \in [Clients -> RequestType]
      /\ rooted \in [RootJobs -> [root : Dirs \cup {NoDir}, open : BOOLEAN]]
      /\ roots' = roots /\ requests' = requests
  BY Zenon DEF CatalogueInv, CatalogueTyped, JobEnds, RetryJob
<1>1. PICK b \in BOOLEAN : rooted' = [rooted EXCEPT ![j].open = b]
  BY Zenon DEF JobEnds, RetryJob
<1>2. /\ rooted' \in [RootJobs -> [root : Dirs \cup {NoDir}, open : BOOLEAN]]
      /\ \A k \in RootJobs : rooted'[k].root = rooted[k].root
      /\ \A k \in RootJobs : k # j => rooted'[k] = rooted[k]
  BY <1>0, <1>1, Zenon
<1>3. CatalogueTyped'
  BY <1>0, <1>2, Zenon DEF CatalogueInv, CatalogueTyped
<1>4. rooted[j].root # NoDir
  BY Zenon DEF JobEnds, RetryJob, CatalogueInv, RequestsFit
<1>5. RequestsFit'
  BY <1>0, <1>2, <1>4, Zenon DEF CatalogueInv, RequestsFit, Pending
<1>6. CASE JobEnds(j)
  <2>1. rooted'[j].open = FALSE /\ raced' = raced
    BY <1>0, <1>6, Zenon DEF JobEnds
  <2>2. RacesNoted'
    BY <1>0, <1>2, <2>1 DEF CatalogueInv, RacesNoted, Pending
  <2>3. DisabledUnused'
    BY <1>0, <1>2, <2>1, Zenon DEF CatalogueInv, DisabledUnused
  <2>. QED
    BY <1>3, <1>5, <2>2, <2>3, Zenon DEF CatalogueInv
<1>7. CASE RetryJob(j)
  <2>1. /\ ~roots[rooted[j].root].enabled => j \in raced'
        /\ \A e \in Clients : Pending(e, "disable") /\ requests[e].dir = rooted[j].root => j \in raced'
        /\ \A k \in raced : k # j => k \in raced'
    BY <1>7 DEF RetryJob, Busy
  <2>2. \A e \in Clients : Pending(e, "create") => requests[e].job # j
    BY <1>4, Zenon DEF CatalogueInv, RequestsFit
  <2>3. RacesNoted'
    BY <1>0, <1>2, <2>1, <2>2 DEF CatalogueInv, RacesNoted, Pending
  <2>4. DisabledUnused'
    BY <1>0, <1>2, <2>1, Zenon DEF CatalogueInv, DisabledUnused
  <2>. QED
    BY <1>3, <1>5, <2>3, <2>4, Zenon DEF CatalogueInv
<1>. QED
  BY <1>6, <1>7, Zenon

(* The settings. *)
LEMMA SettingsInv ==
    ASSUME CatalogueInv, NEW c \in Clients, NEW n \in Concurrencies, NEW d \in Dirs \cup {NoDir}, UpdateSettings(c, n, d)
    PROVE  CatalogueInv'
<1>0. roots' = roots /\ rooted' = rooted /\ raced' = raced /\ roots \in [Dirs -> [known : BOOLEAN, enabled : BOOLEAN]]
  BY Zenon DEF UpdateSettings, CatalogueInv, CatalogueTyped
<1>1. CASE requests' = requests
  BY <1>0, <1>1, Zenon DEF CatalogueInv, CatalogueTyped, RequestsFit, RacesNoted, DisabledUnused, Pending
<1>2. CASE Do(c, [NoRequest EXCEPT !.at = "apply", !.value = n])
  <2>1. PICK r : r = [NoRequest EXCEPT !.at = "apply", !.value = n]
    BY Zenon
  <2>2. r \in RequestType /\ r.at = "apply"
    BY <2>1, ApplyRequest, Zenon
  <2>3. Do(c, r)
    BY <1>2, <2>1, Zenon
  <2>. QED
    BY <1>0, <2>2, <2>3, ClientMoves, Zenon
<1>. QED
  BY <1>1, <1>2, Zenon DEF UpdateSettings

(* Every step keeps the invariant. *)
LEMMA CatalogueNextInv == ASSUME CatalogueInv, [CatalogueNext]_catalogueVars PROVE CatalogueInv'
<1>1. CASE UNCHANGED catalogueVars
  BY <1>1, Zenon DEF catalogueVars, CatalogueInv, CatalogueTyped, RequestsFit, RacesNoted, DisabledUnused, Pending
<1>2. ASSUME NEW c \in Clients,
             \/ \E d \in Dirs, b \in BOOLEAN : AddRoot(c, d, b) \/ EnableRoot(c, d, b)
             \/ \E d \in Dirs : MakeDefault(c, d)
             \/ FoundRoot(c) \/ InsertRoot(c) \/ set_default_root(c) \/ ClearDefault(c) \/ ApplyLimits(c)
      PROVE  CatalogueInv'
  BY <1>2, RootsInv, Zenon
<1>3. ASSUME NEW c \in Clients, NEW d \in Dirs, NEW b \in BOOLEAN, CountJobs(c, d, b) PROVE CatalogueInv'
  BY <1>3, CountJobsInv, Zenon
<1>4. ASSUME NEW c \in Clients, Disable(c) PROVE CatalogueInv'
  BY <1>4, DisableInv, Zenon
<1>5. ASSUME NEW c \in Clients, NEW j \in RootJobs, NEW d \in Dirs, CheckRoot(c, j, d) PROVE CatalogueInv'
  BY <1>5, CheckRootInv, Zenon
<1>6. ASSUME NEW c \in Clients, insert_job(c) PROVE CatalogueInv'
  BY <1>6, InsertJobInv, Zenon
<1>7. ASSUME NEW c \in Clients, NEW n \in Concurrencies, NEW d \in Dirs \cup {NoDir}, UpdateSettings(c, n, d) PROVE CatalogueInv'
  BY <1>7, SettingsInv, Zenon
<1>8. ASSUME NEW j \in RootJobs, JobEnds(j) \/ RetryJob(j) PROVE CatalogueInv'
  BY <1>8, JobsInv, Zenon
<1>. QED
  BY <1>1, <1>2, <1>3, <1>4, <1>5, <1>6, <1>7, <1>8, Zenon DEF CatalogueNext

(* It holds initially. *)
LEMMA CatalogueInitInv == CatalogueInit => CatalogueInv
<1>1. CatalogueInit => CatalogueTyped
  BY SomeRequests DEF CatalogueInit, CatalogueTyped, NoRoot
<1>2. CatalogueInit => RequestsFit /\ RacesNoted /\ DisabledUnused
  BY SomeRequests DEF CatalogueInit, RequestsFit, RacesNoted, DisabledUnused, Pending
<1>. QED
  BY <1>1, <1>2, Zenon DEF CatalogueInv

(* For every number of roots, jobs and requests in flight, disable_root,
   create_job and retry_job leave no unfinished job under a disabled root but
   those that raced with the disabling. *)
THEOREM DisabledIsUnused == CatalogueSpec => []DisabledUnused
<1>1. CatalogueInv => DisabledUnused
  BY Zenon DEF CatalogueInv
<1>. QED
  BY <1>1, CatalogueInitInv, CatalogueNextInv, PTL DEF CatalogueSpec

(* The settings in force.  Unless two requests overlapped, at most one is still
   to be applied, it holds what is stored, and without one the limit in force
   is the stored one. *)
SettingsAgree ==
    ~overlapped =>
        /\ \A c, e \in Clients : Pending(c, "apply") /\ Pending(e, "apply") => c = e
        /\ \A c \in Clients : Pending(c, "apply") => requests[c].value = saved
        /\ (\A c \in Clients : ~Pending(c, "apply")) => limit = saved

(* A request that has nothing to do with the settings. *)
LEMMA OthersMove ==
    ASSUME CatalogueTyped, SettingsAgree, NEW c \in Clients, NEW r, Do(c, r), r.at # "apply", ~Pending(c, "apply"),
           UNCHANGED <<saved, limit, overlapped>>
    PROVE  SettingsAgree'
<1>1. \A e \in Clients : requests'[e] = IF e = c THEN r ELSE requests[e]
  BY Zenon DEF Do, CatalogueTyped
<1>2. \A e \in Clients : Pending(e, "apply")' <=> Pending(e, "apply")
  BY <1>1, Zenon DEF Pending
<1>3. \A e \in Clients : Pending(e, "apply") => requests'[e] = requests[e]
  BY <1>1, Zenon
<1>. QED
  BY <1>2, <1>3, Zenon DEF SettingsAgree

(* A request that begins. *)
LEMMA Begins ==
    ASSUME CatalogueTyped, SettingsAgree, NEW c \in Clients, Free(c), NEW r, Do(c, r), r.at # "apply",
           UNCHANGED <<saved, limit, overlapped>>
    PROVE  SettingsAgree'
<1>1. ~Pending(c, "apply")
  BY SomeRequests, Zenon DEF Free, Pending
<1>. QED
  BY <1>1, OthersMove, Zenon

(* A request for a root that goes on, or ends. *)
LEMMA GoesOn ==
    ASSUME CatalogueTyped, SettingsAgree, NEW c \in Clients, Done(c) \/ ThenDefault(c), ~Pending(c, "apply"),
           UNCHANGED <<saved, limit, overlapped>>
    PROVE  SettingsAgree'
<1>1. CASE Done(c)
  BY <1>1, SomeRequests, OthersMove, Zenon DEF Done
<1>2. CASE Do(c, [requests[c] EXCEPT !.at = "default"])
  <2>1. [requests[c] EXCEPT !.at = "default"].at = "default"
    BY SomeRequests, Zenon DEF CatalogueTyped
  <2>. QED
    BY <1>2, <2>1, OthersMove, Zenon
<1>. QED
  BY <1>1, <1>2, Zenon DEF ThenDefault

(* Requests for roots and jobs. *)
LEMMA RootsLeaveSettings ==
    ASSUME CatalogueTyped, SettingsAgree, NEW c \in Clients, NEW d \in Dirs, NEW b \in BOOLEAN,
           AddRoot(c, d, b) \/ EnableRoot(c, d, b) \/ CountJobs(c, d, b) \/ MakeDefault(c, d)
    PROVE  SettingsAgree'
<1>1. Free(c) /\ UNCHANGED <<saved, limit, overlapped>>
  BY Zenon DEF AddRoot, EnableRoot, CountJobs, MakeDefault
<1>2. {"found", "insert", "default", "disable"} \subseteq RequestSteps
  BY Zenon DEF RequestSteps
<1>3. \A at \in {"found", "insert", "default", "disable"} :
          /\ Request(at, d).at # "apply" /\ [Request(at, d) EXCEPT !.makeDefault = b].at # "apply"
          /\ Request(at, d) \in RequestType
  BY <1>2, RequestFor, Zenon
<1>4. NoRequest.at # "apply"
  BY SomeRequests, Zenon
<1>5. PICK r : Do(c, r) /\ r.at # "apply"
  <2>1. CASE AddRoot(c, d, b)
    BY <1>3, <2>1, Zenon DEF AddRoot
  <2>2. CASE EnableRoot(c, d, b)
    BY <1>3, <1>4, <2>2, Zenon DEF EnableRoot
  <2>3. CASE CountJobs(c, d, b)
    BY <1>3, <1>4, <2>3, Zenon DEF CountJobs
  <2>4. CASE MakeDefault(c, d)
    BY <1>3, <2>4, Zenon DEF MakeDefault
  <2>. QED
    BY <2>1, <2>2, <2>3, <2>4, Zenon
<1>. QED
  BY <1>1, <1>5, Begins, Zenon

(* Their later steps. *)
LEMMA HandlersLeaveSettings ==
    ASSUME CatalogueTyped, SettingsAgree, NEW c \in Clients,
           FoundRoot(c) \/ InsertRoot(c) \/ set_default_root(c) \/ Disable(c) \/ ClearDefault(c) \/ insert_job(c)
    PROVE  SettingsAgree'
<1>1. ~Pending(c, "apply") /\ UNCHANGED <<saved, limit, overlapped>>
  BY Zenon DEF FoundRoot, InsertRoot, set_default_root, Disable, ClearDefault, insert_job, Pending
<1>2. CASE Done(c) \/ ThenDefault(c)
  BY <1>1, <1>2, GoesOn, Zenon
<1>3. CASE Do(c, [requests[c] EXCEPT !.at = "clear"])
  <2>1. [requests[c] EXCEPT !.at = "clear"].at = "clear"
    BY SomeRequests, Zenon DEF CatalogueTyped
  <2>. QED
    BY <1>1, <1>3, <2>1, OthersMove, Zenon
<1>. QED
  BY <1>2, <1>3, Zenon DEF FoundRoot, InsertRoot, set_default_root, Disable, ClearDefault, insert_job

(* update_settings stores, and leaves what it stored to be applied. *)
LEMMA StoringAgrees ==
    ASSUME CatalogueTyped, SettingsAgree, NEW c \in Clients, NEW n \in Concurrencies, NEW d \in Dirs \cup {NoDir},
           UpdateSettings(c, n, d)
    PROVE  SettingsAgree'
<1> DEFINE r == [NoRequest EXCEPT !.at = "apply", !.value = n]
<1>1. r.at = "apply" /\ r.value = n
  BY ApplyRequest, SomeRequests, Zenon DEF RequestType
<1>. HIDE DEF r
<1>2. CASE UNCHANGED <<saved, requests, overlapped>>
  BY <1>2, Zenon DEF UpdateSettings, SettingsAgree, Pending
<1>3. CASE saved' = n /\ Do(c, r) /\ overlapped' = (overlapped \/ \E e \in Clients : Pending(e, "apply"))
  <2>1. \A e \in Clients : requests'[e] = IF e = c THEN r ELSE requests[e]
    BY <1>3, Zenon DEF Do, CatalogueTyped
  <2>2. ~overlapped' => \A e \in Clients : ~Pending(e, "apply")
    BY <1>3, Zenon
  <2>3. ~overlapped' => \A e \in Clients : Pending(e, "apply")' => e = c
    BY <2>1, <2>2, Zenon DEF Pending
  <2>4. Pending(c, "apply")' /\ requests'[c].value = saved'
    BY <1>1, <1>3, <2>1, Zenon DEF Pending
  <2>. QED
    BY <2>3, <2>4, Zenon DEF SettingsAgree
<1>. QED
  BY <1>2, <1>3, Zenon DEF UpdateSettings, r

(* update_limits puts in force what is stored, if it was the only one. *)
LEMMA ApplyingAgrees ==
    ASSUME CatalogueTyped, SettingsAgree, NEW c \in Clients, ApplyLimits(c)
    PROVE  SettingsAgree'
<1>1. \A e \in Clients : requests'[e] = IF e = c THEN NoRequest ELSE requests[e]
  BY Zenon DEF ApplyLimits, Done, Do, CatalogueTyped
<1>2. \A e \in Clients : Pending(e, "apply")' => Pending(e, "apply") /\ e # c
  BY <1>1, SomeRequests, Zenon DEF Pending
<1>3. Pending(c, "apply") /\ limit' = requests[c].value /\ saved' = saved /\ overlapped' = overlapped
  BY Zenon DEF ApplyLimits
<1>4. ~overlapped => limit' = saved' /\ \A e \in Clients : ~Pending(e, "apply")'
  BY <1>2, <1>3, Zenon DEF SettingsAgree
<1>. QED
  BY <1>3, <1>4, Zenon DEF SettingsAgree

(* The supervisor works with the stored settings whenever no settings request
   is in flight and none have overlapped (put_settings), for any number of
   clients. *)
THEOREM LimitsAreApplied == CatalogueSpec => []LimitsApplied
<1>1. CatalogueInit => SettingsAgree
  BY SomeRequests DEF CatalogueInit, SettingsAgree, Pending
<1>2. CatalogueInv /\ SettingsAgree /\ [CatalogueNext]_catalogueVars => SettingsAgree'
  <2>. SUFFICES ASSUME CatalogueTyped, SettingsAgree, [CatalogueNext]_catalogueVars PROVE SettingsAgree'
    BY Zenon DEF CatalogueInv
  <2>1. CASE UNCHANGED catalogueVars
    BY <2>1, Zenon DEF catalogueVars, SettingsAgree, Pending
  <2>2. ASSUME NEW j \in RootJobs, JobEnds(j) \/ RetryJob(j) PROVE SettingsAgree'
    BY <2>2, Zenon DEF JobEnds, RetryJob, SettingsAgree, Pending
  <2>3. ASSUME NEW c \in Clients, NEW d \in Dirs, NEW b \in BOOLEAN,
               AddRoot(c, d, b) \/ EnableRoot(c, d, b) \/ CountJobs(c, d, b) \/ MakeDefault(c, d)
        PROVE  SettingsAgree'
    BY <2>3, RootsLeaveSettings, Zenon
  <2>4. ASSUME NEW c \in Clients, NEW d \in Dirs, NEW j \in RootJobs, CheckRoot(c, j, d) PROVE SettingsAgree'
    <3>1. NoRequest.at # "apply" /\ [Request("create", d) EXCEPT !.job = j].at # "apply"
      BY SomeRequests, OtherRequests, Zenon
    <3>2. PICK r : Do(c, r) /\ r.at # "apply"
      BY <2>4, <3>1, Zenon DEF CheckRoot
    <3>. QED
      BY <2>4, <3>2, Begins, Zenon DEF CheckRoot
  <2>. QED
    BY <2>1, <2>2, <2>3, <2>4, HandlersLeaveSettings, StoringAgrees, ApplyingAgrees, Zenon DEF CatalogueNext
<1>3. SettingsAgree => LimitsApplied
  BY Zenon DEF SettingsAgree, LimitsApplied
<1>. QED
  BY <1>1, <1>2, <1>3, CatalogueInitInv, CatalogueNextInv, PTL DEF CatalogueSpec

-----------------------------------------------------------------------------
(* The pages of a traversal. *)

StampsTyped == stamps \in [PageJobs -> Nat] /\ millis \in Nat \ {0} /\ \A j \in PageJobs : stamps[j] <= millis

(* The rows that a page is read from, and those that come before a row. *)
RowsBehind(cursor) == {j \in Rows : Behind(j, cursor)}
RowsBefore(S, j) == {k \in S : Precedes(k, j)}

(* The order of a page is a strict order in which any two rows compare. *)
LEMMA PageOrder ==
    ASSUME StampsTyped
    PROVE  /\ \A a \in PageJobs : ~Precedes(a, a)
           /\ \A a, b \in PageJobs : a # b => Precedes(a, b) \/ Precedes(b, a)
           /\ \A a, b, c \in PageJobs : Precedes(a, b) /\ Precedes(b, c) => Precedes(a, c)
  BY PagesAssumption DEF StampsTyped, Precedes

(* A row has fewer rows before it than one that comes after it. *)
LEMMA FewerBefore ==
    ASSUME StampsTyped, NEW S \in SUBSET PageJobs, NEW a \in S, NEW b \in S, Precedes(a, b)
    PROVE  /\ Cardinality(RowsBefore(S, a)) \in Nat /\ Cardinality(RowsBefore(S, b)) \in Nat
           /\ Cardinality(RowsBefore(S, a)) < Cardinality(RowsBefore(S, b))
<1>1. IsFiniteSet(S)
  BY PagesAssumption, FS_Subset, Zenon
<1>2. RowsBefore(S, b) \in SUBSET S /\ RowsBefore(S, a) \in SUBSET S
  BY Zenon DEF RowsBefore
<1>3. IsFiniteSet(RowsBefore(S, b)) /\ IsFiniteSet(RowsBefore(S, a))
  BY <1>1, <1>2, FS_Subset, Zenon
<1>4. RowsBefore(S, a) \in SUBSET RowsBefore(S, b)
  BY PageOrder, Zenon DEF RowsBefore
<1>5. a \in RowsBefore(S, b) /\ a \notin RowsBefore(S, a)
  BY PageOrder, Zenon DEF RowsBefore
<1>6. Cardinality(RowsBefore(S, a)) <= Cardinality(RowsBefore(S, b))
      /\ Cardinality(RowsBefore(S, a)) # Cardinality(RowsBefore(S, b))
  BY <1>3, <1>4, <1>5, FS_Subset, Zenon
<1>7. Cardinality(RowsBefore(S, a)) \in Nat /\ Cardinality(RowsBefore(S, b)) \in Nat
  BY <1>3, FS_CardinalityType, Zenon
<1>. QED
  BY <1>6, <1>7

(* The ranks of the rows of a set are one to their number, each taken once. *)
LEMMA RanksAreABijection ==
    ASSUME StampsTyped, NEW S \in SUBSET PageJobs
    PROVE  /\ Cardinality(S) \in Nat
           /\ \A j \in S : Cardinality(RowsBefore(S, j)) + 1 \in 1..Cardinality(S)
           /\ \A i \in 1..Cardinality(S) : \E j \in S : Cardinality(RowsBefore(S, j)) + 1 = i
<1> DEFINE m == Cardinality(S)
           f == [j \in S |-> Cardinality(RowsBefore(S, j)) + 1]
<1>1. IsFiniteSet(S)
  BY PagesAssumption, FS_Subset, Zenon
<1>2. m \in Nat
  BY <1>1, FS_CardinalityType, Zenon
<1>3. ASSUME NEW j \in S PROVE Cardinality(RowsBefore(S, j)) + 1 \in 1..m
  <2>1. RowsBefore(S, j) \in SUBSET S /\ j \notin RowsBefore(S, j)
    BY PageOrder, Zenon DEF RowsBefore
  <2>2. Cardinality(RowsBefore(S, j)) <= m /\ Cardinality(RowsBefore(S, j)) # m /\ IsFiniteSet(RowsBefore(S, j))
    BY <1>1, <2>1, FS_Subset, Zenon
  <2>3. Cardinality(RowsBefore(S, j)) \in Nat
    BY <2>2, FS_CardinalityType, Zenon
  <2>. QED
    BY <1>2, <2>2, <2>3
<1>4. ASSUME NEW a \in S, NEW b \in S, f[a] = f[b] PROVE a = b
  <2>1. CASE Precedes(a, b)
    BY <1>4, <2>1, FewerBefore
  <2>2. CASE Precedes(b, a)
    BY <1>4, <2>2, FewerBefore
  <2>. QED
    BY <2>1, <2>2, PageOrder, Zenon
<1>5. f \in [S -> 1..m]
  BY <1>3, Zenon
<1>6. f \in Injection(S, 1..m)
  BY <1>4, <1>5, Zenon DEF Injection, IsInjective
<1>7. IsFiniteSet(1..m) /\ Cardinality(1..m) = m
  <2>1. IsFiniteSet(1..m) /\ Cardinality(1..m) = IF 1 > m THEN 0 ELSE m - 1 + 1
    BY <1>2, FS_Interval
  <2>. QED
    BY <1>2, <2>1
<1>8. f \in Surjection(S, 1..m)
  BY <1>6, <1>7, FS_Injection, Zenon
<1>9. \A i \in 1..m : \E j \in S : f[j] = i
  BY <1>8, Zenon DEF Surjection
<1>. QED
  BY <1>2, <1>3, <1>9, Zenon

(* What the query returns: rows behind the cursor in the order of the page, at
   most n of them, and a row it leaves out comes after all of a full answer. *)
LEMMA FirstRowsAreFirst ==
    ASSUME StampsTyped, NEW cursor, NEW n \in Nat
    PROVE  LET r == FirstRows(cursor, n)
               S == RowsBehind(cursor)
           IN  /\ r \in Seq(S) /\ Len(r) \in 0..n
               /\ \A i, k \in 1..Len(r) : i < k => Precedes(r[i], r[k])
               /\ \A u \in S : \/ \E i \in 1..Len(r) : r[i] = u
                               \/ Len(r) = n /\ \A i \in 1..Len(r) : Precedes(r[i], u)
<1> DEFINE S == RowsBehind(cursor)
           m == Cardinality(S)
           len == IF m < n THEN m ELSE n
           R(j) == Cardinality(RowsBefore(S, j)) + 1
           r == [i \in 1..len |-> CHOOSE j \in S : R(j) = i]
<1>1. FirstRows(cursor, n) = r
  BY Zenon DEF FirstRows, RowsBehind, RowsBefore
<1>2. S \in SUBSET PageJobs
  BY Zenon DEF RowsBehind, Rows
<1>3. /\ m \in Nat
      /\ \A j \in S : R(j) \in 1..m
      /\ \A i \in 1..m : \E j \in S : R(j) = i
  BY <1>2, RanksAreABijection, Zenon
<1>4. \A a, b \in S : Precedes(a, b) => R(a) < R(b)
  BY <1>2, FewerBefore
<1>5. \A a, b \in S : a = b \/ Precedes(a, b) \/ Precedes(b, a)
  BY <1>2, PageOrder, Zenon
<1>. HIDE DEF S, m, R
<1>6. len \in 0..n /\ len <= m /\ len \in Nat
  BY <1>3
<1>7. \A i \in 1..len : r[i] \in S /\ R(r[i]) = i
  BY <1>3, <1>6
<1>8. r \in [1..len -> S]
  BY <1>7, Zenon
<1>9. r \in Seq(S) /\ Len(r) = len
  <2>1. len \in Nat
    BY <1>6, Zenon
  <2>. HIDE DEF r, len
  <2>. QED
    BY <1>8, <2>1
<1>10. ASSUME NEW i \in 1..len, NEW k \in 1..len, i < k PROVE Precedes(r[i], r[k])
  <2>1. r[i] \in S /\ r[k] \in S /\ R(r[i]) = i /\ R(r[k]) = k
    BY <1>7, Zenon
  <2>. HIDE DEF r, len
  <2>2. i \in Int /\ k \in Int
    BY <1>6
  <2>. QED
    BY <1>4, <1>5, <1>10, <2>1, <2>2
<1>11. ASSUME NEW u \in S, ~\E i \in 1..len : r[i] = u
       PROVE  len = n /\ \A i \in 1..len : Precedes(r[i], u)
  <2>1. R(u) \in 1..m
    BY <1>3, Zenon
  <2>2. R(u) \notin 1..len
    <3>1. SUFFICES ASSUME R(u) \in 1..len PROVE FALSE
      BY Zenon
    <3>2. r[R(u)] \in S /\ R(r[R(u)]) = R(u)
      BY <1>7, <3>1, Zenon
    <3>3. r[R(u)] # u
      BY <1>11, <3>1, Zenon
    <3>4. R(r[R(u)]) \in Int /\ R(u) \in Int
      BY <1>3, <3>2, <2>1
    <3>. HIDE DEF r, len
    <3>. QED
      BY <1>4, <1>5, <3>2, <3>3, <3>4
  <2>3. len < R(u)
    BY <1>3, <1>6, <2>1, <2>2
  <2>4. len = n
    BY <1>3, <2>1, <2>3
  <2>5. ASSUME NEW i \in 1..len PROVE Precedes(r[i], u)
    <3>1. r[i] \in S /\ R(r[i]) = i /\ r[i] # u
      BY <1>7, <1>11, Zenon
    <3>2. i < R(u) /\ i \in Int /\ R(u) \in Int
      BY <1>3, <1>6, <2>1, <2>3
    <3>. HIDE DEF r, len
    <3>. QED
      BY <1>4, <1>5, <3>1, <3>2
  <2>. QED
    BY <2>4, <2>5, Zenon
<1>. HIDE DEF r, len
<1>. QED
  BY <1>1, <1>6, <1>9, <1>10, <1>11, Zenon DEF S

(* Where a traversal stands.  What it listed lies before its cursor, and stays
   there when it is stamped anew; what was not touched is listed or lies behind
   the cursor. *)
ListedJobs == {walk.listed[i] : i \in DOMAIN walk.listed}

WalkTyped ==
    /\ walk \in [at : {"new", "paging", "done"}, cursor : [millis : Int, id : Int],
                 listed : Seq(PageJobs), untouched : SUBSET PageJobs]
    /\ walk.at = "new" => walk.cursor = FromTop /\ walk.listed = <<>> /\ walk.untouched = {}
    /\ walk.at = "paging" => walk.cursor # FromTop /\ walk.cursor.millis <= millis /\ walk.cursor.millis > 0

ListedBefore ==
    walk.at = "paging" =>
        \A j \in ListedJobs :
            /\ stamps[j] # 0 => ~Behind(j, walk.cursor)
            /\ millis > walk.cursor.millis \/ j >= walk.cursor.id

UntouchedAhead ==
    /\ walk.untouched \subseteq Rows
    /\ walk.at = "paging" => \A j \in walk.untouched : j \in ListedJobs \/ Behind(j, walk.cursor)
    /\ walk.at = "done" => walk.untouched \subseteq ListedJobs

ListedOnce == \A i, k \in DOMAIN walk.listed : walk.listed[i] = walk.listed[k] => i = k

PagesInv == StampsTyped /\ WalkTyped /\ ListedBefore /\ UntouchedAhead /\ ListedOnce

(* What a page leaves unchanged. *)
LEMMA StampKeeps == ASSUME PagesInv, NEW j \in PageJobs, NEW now \in 1..MaxMillis, StampRow(j, now) PROVE PagesInv'
<1>1. /\ stamps' = [stamps EXCEPT ![j] = now] /\ millis' = now /\ now >= millis /\ now \in Nat \ {0}
      /\ stamps \in [PageJobs -> Nat] /\ millis \in Nat
  BY PagesAssumption DEF PagesInv, StampsTyped, StampRow
<1>2. StampsTyped'
  BY <1>1 DEF PagesInv, StampsTyped
<1>3. /\ walk'.at = walk.at /\ walk'.cursor = walk.cursor /\ walk'.listed = walk.listed
      /\ walk'.untouched = walk.untouched \ {j}
      /\ walk' \in [at : {"new", "paging", "done"}, cursor : [millis : Int, id : Int],
                   listed : Seq(PageJobs), untouched : SUBSET PageJobs]
  BY Zenon DEF PagesInv, WalkTyped, StampRow, Touched
<1>4. WalkTyped'
  <2>1. walk.cursor.millis \in Int
    BY Zenon DEF PagesInv, WalkTyped
  <2>. QED
    BY <1>1, <1>3, <2>1 DEF PagesInv, WalkTyped, FromTop
<1>5. ListedJobs' = ListedJobs /\ ListedJobs \subseteq PageJobs
  BY <1>3 DEF ListedJobs, PagesInv, WalkTyped
<1>6. ListedBefore'
  <2>. SUFFICES ASSUME walk.at = "paging", NEW k \in ListedJobs
                PROVE  /\ stamps'[k] # 0 => ~Behind(k, walk.cursor)'
                       /\ millis' > walk.cursor.millis \/ k >= walk.cursor.id
    BY <1>3, <1>5, Zenon DEF ListedBefore
  <2>1. walk.cursor # FromTop /\ walk.cursor.millis \in Int /\ walk.cursor.id \in Int /\ k \in Int /\ k \in PageJobs
        /\ walk.cursor.millis <= millis
    BY <1>5, PagesAssumption DEF PagesInv, WalkTyped
  <2>2. /\ stamps[k] # 0 => ~Behind(k, walk.cursor)
        /\ millis > walk.cursor.millis \/ k >= walk.cursor.id
    BY Zenon DEF PagesInv, ListedBefore
  <2>3. Behind(k, walk.cursor)' <=>
            stamps'[k] < walk.cursor.millis \/ (stamps'[k] = walk.cursor.millis /\ k < walk.cursor.id)
    BY <1>3, <2>1, Zenon DEF Behind
  <2>4. CASE k = j
    <3>1. stamps'[k] = now
      BY <1>1, <2>4, Zenon
    <3>. QED
      BY <1>1, <2>1, <2>2, <2>3, <3>1
  <2>5. CASE k # j
    <3>1. stamps'[k] = stamps[k]
      BY <1>1, <2>1, <2>5, Zenon
    <3>2. Behind(k, walk.cursor) <=>
              stamps[k] < walk.cursor.millis \/ (stamps[k] = walk.cursor.millis /\ k < walk.cursor.id)
      BY <2>1, Zenon DEF Behind
    <3>. QED
      BY <1>1, <2>1, <2>2, <2>3, <3>1, <3>2
  <2>. QED
    BY <2>4, <2>5, Zenon
<1>7. UntouchedAhead'
  BY <1>1, <1>3, <1>5 DEF PagesInv, UntouchedAhead, Rows, Behind
<1>8. ListedOnce'
  BY <1>3, Zenon DEF PagesInv, ListedOnce
<1>. QED
  BY <1>2, <1>4, <1>6, <1>7, <1>8, Zenon DEF PagesInv

(* Removing a row leaves the others where they are. *)
LEMMA RemoveKeeps == ASSUME PagesInv, NEW j \in PageJobs, remove_job_history(j) PROVE PagesInv'
<1>1. /\ stamps' = [stamps EXCEPT ![j] = 0] /\ millis' = millis
      /\ stamps \in [PageJobs -> Nat] /\ millis \in Nat
  BY Zenon DEF PagesInv, StampsTyped, remove_job_history
<1>2. StampsTyped'
  BY <1>1 DEF PagesInv, StampsTyped
<1>3. /\ walk'.at = walk.at /\ walk'.cursor = walk.cursor /\ walk'.listed = walk.listed
      /\ walk'.untouched = walk.untouched \ {j}
      /\ walk' \in [at : {"new", "paging", "done"}, cursor : [millis : Int, id : Int],
                   listed : Seq(PageJobs), untouched : SUBSET PageJobs]
  BY Zenon DEF PagesInv, WalkTyped, remove_job_history, Touched
<1>4. WalkTyped'
  BY <1>1, <1>3, Zenon DEF PagesInv, WalkTyped, FromTop
<1>5. ListedJobs' = ListedJobs /\ ListedJobs \subseteq PageJobs
  BY <1>3 DEF ListedJobs, PagesInv, WalkTyped
<1>6. ListedBefore'
  BY <1>1, <1>3, <1>5, Zenon DEF PagesInv, ListedBefore, Behind
<1>7. UntouchedAhead'
  BY <1>1, <1>3, <1>5, Zenon DEF PagesInv, UntouchedAhead, Rows, Behind
<1>8. ListedOnce'
  BY <1>3, Zenon DEF PagesInv, ListedOnce
<1>. QED
  BY <1>2, <1>4, <1>6, <1>7, <1>8, Zenon DEF PagesInv

(* The page that a request answers with. *)
LEMMA PageRead ==
    ASSUME PagesInv, NEW n \in Nat \ {0}
    PROVE  LET rows == FirstRows(walk.cursor, n + 1)
               more == Len(rows) > n
               page == IF more THEN SubSeq(rows, 1, n) ELSE rows
               S == RowsBehind(walk.cursor)
           IN  /\ page \in Seq(S) /\ (more => Len(page) = n)
               /\ \A i, k \in 1..Len(page) : i < k => Precedes(page[i], page[k])
               /\ \A u \in S : \/ \E i \in 1..Len(page) : page[i] = u
                               \/ more /\ Precedes(page[Len(page)], u)
<1> DEFINE rows == FirstRows(walk.cursor, n + 1)
           more == Len(rows) > n
           page == IF more THEN SubSeq(rows, 1, n) ELSE rows
           S == RowsBehind(walk.cursor)
<1>1. n + 1 \in Nat /\ StampsTyped
  BY DEF PagesInv
<1>2. /\ rows \in Seq(S) /\ Len(rows) \in 0..(n + 1)
      /\ \A i, k \in 1..Len(rows) : i < k => Precedes(rows[i], rows[k])
      /\ \A u \in S : \/ \E i \in 1..Len(rows) : rows[i] = u
                      \/ Len(rows) = n + 1 /\ \A i \in 1..Len(rows) : Precedes(rows[i], u)
  BY <1>1, FirstRowsAreFirst, Zenon
<1>. HIDE DEF rows, S
<1>3. CASE ~more
  <2>1. page = rows /\ Len(rows) # n + 1
    BY <1>3
  <2>. QED
    BY <1>2, <1>3, <2>1, Zenon DEF rows, S
<1>4. CASE more
  <2>1. Len(rows) = n + 1 /\ page = SubSeq(rows, 1, n)
    BY <1>2, <1>4
  <2>2. page \in Seq(S) /\ Len(page) = n /\ \A i \in 1..n : page[i] = rows[i]
    BY <1>2, <2>1
  <2>. HIDE DEF page
  <2>3. \A i, k \in 1..Len(page) : i < k => Precedes(page[i], page[k])
    BY <1>2, <2>1, <2>2
  <2>4. ASSUME NEW u \in S, ~\E i \in 1..Len(page) : page[i] = u PROVE Precedes(page[n], u)
    <3>1. CASE \E i \in 1..Len(rows) : rows[i] = u
      <4>1. PICK i \in 1..(n + 1) : rows[i] = u
        BY <2>1, <3>1, Zenon
      <4>2. i = n + 1
        BY <2>2, <2>4, <4>1
      <4>3. Precedes(rows[n], rows[n + 1])
        BY <1>2, <2>1
      <4>. QED
        BY <2>2, <4>1, <4>2, <4>3
    <3>2. CASE \A i \in 1..Len(rows) : Precedes(rows[i], u)
      BY <2>1, <2>2, <3>2
    <3>. QED
      BY <1>2, <3>1, <3>2, Zenon
  <2>. QED
    BY <1>4, <2>2, <2>3, <2>4, Zenon DEF rows, page, S
<1>. QED
  BY <1>3, <1>4, Zenon

(* A page keeps the traversal exact. *)
LEMMA PageKeeps == ASSUME PagesInv, list_jobs_page(MaxPage) PROVE PagesInv'
<1> DEFINE n == clamp(MaxPage)
           rows == FirstRows(walk.cursor, n + 1)
           more == Len(rows) > n
           page == IF more THEN SubSeq(rows, 1, n) ELSE rows
           S == RowsBehind(walk.cursor)
           last == page[Len(page)]
           Paged == {page[i] : i \in 1..Len(page)}
<1>1. n \in Nat \ {0}
  BY PagesAssumption DEF clamp
<1>2. /\ page \in Seq(S) /\ (more => Len(page) = n)
      /\ \A i, k \in 1..Len(page) : i < k => Precedes(page[i], page[k])
      /\ \A u \in S : \/ \E i \in 1..Len(page) : page[i] = u
                      \/ more /\ Precedes(page[Len(page)], u)
  BY <1>1, PageRead, Zenon
<1>3. /\ walk.at # "done" /\ stamps' = stamps /\ millis' = millis
      /\ walk' = [at |-> IF more THEN "paging" ELSE "done",
                  cursor |-> IF more THEN [millis |-> stamps[last], id |-> last] ELSE FromTop,
                  listed |-> walk.listed \o page,
                  untouched |-> IF walk.at = "new" THEN Rows ELSE walk.untouched]
  BY Zenon DEF list_jobs_page
<1>. HIDE DEF n, rows, page, S
<1>4. S \subseteq PageJobs /\ S \subseteq Rows /\ \A j \in S : Behind(j, walk.cursor)
  BY Zenon DEF S, RowsBehind, Rows
<1>5. more => last \in S
  BY <1>1, <1>2
<1>6. stamps \in [PageJobs -> Nat] /\ millis \in Nat /\ \A j \in PageJobs : stamps[j] <= millis
  BY Zenon DEF PagesInv, StampsTyped
<1>7. /\ walk.listed \in Seq(PageJobs) /\ walk.untouched \subseteq PageJobs
      /\ walk.at \in {"new", "paging"}
      /\ walk.cursor.millis \in Int /\ walk.cursor.id \in Int
  BY <1>3, Zenon DEF PagesInv, WalkTyped
<1>8. page \in Seq(PageJobs) /\ walk.listed \o page \in Seq(PageJobs)
  BY <1>2, <1>4, <1>7
<1>9. /\ walk'.at = IF more THEN "paging" ELSE "done"
      /\ walk'.cursor = IF more THEN [millis |-> stamps[last], id |-> last] ELSE FromTop
      /\ walk'.listed = walk.listed \o page
      /\ walk'.untouched = IF walk.at = "new" THEN Rows ELSE walk.untouched
  BY <1>3, Zenon
<1>10. more => stamps[last] \in Nat \ {0} /\ last \in Nat /\ last \in PageJobs
  BY <1>4, <1>5, <1>6, PagesAssumption, Zenon DEF Rows
<1>11. [millis |-> stamps[last], id |-> last].millis = stamps[last] /\ [millis |-> stamps[last], id |-> last].id = last
       /\ FromTop.millis = -1 /\ FromTop.id = -1
  BY Zenon DEF FromTop
<1>. HIDE DEF more, last
<1>12. Rows \subseteq PageJobs
  BY Zenon DEF Rows
<1>13. WalkTyped'
  <2>1. walk'.cursor \in [millis : Int, id : Int]
    BY <1>9, <1>10 DEF FromTop
  <2>2. walk'.untouched \subseteq PageJobs
    BY <1>7, <1>9, <1>12, Zenon
  <2>3. walk' \in [at : {"new", "paging", "done"}, cursor : [millis : Int, id : Int],
                   listed : Seq(PageJobs), untouched : SUBSET PageJobs]
    BY <1>3, <1>8, <1>9, <2>1, <2>2, Zenon
  <2>4. walk'.at = "paging" => more
    BY <1>9, Zenon
  <2>5. more => walk'.cursor # FromTop /\ walk'.cursor.millis <= millis /\ walk'.cursor.millis > 0
    BY <1>6, <1>9, <1>10, <1>11
  <2>. QED
    BY <1>3, <1>9, <2>3, <2>4, <2>5, Zenon DEF WalkTyped
<1>14. \A i \in 1..Len(walk.listed) : (walk.listed \o page)[i] = walk.listed[i]
  BY <1>7, <1>8
<1>15. \A i \in 1..Len(page) : (walk.listed \o page)[Len(walk.listed) + i] = page[i]
  BY <1>7, <1>8
<1>16. Len(walk.listed \o page) = Len(walk.listed) + Len(page) /\ Len(walk.listed) \in Nat /\ Len(page) \in Nat
  BY <1>7, <1>8
<1>17. ListedJobs = {walk.listed[i] : i \in 1..Len(walk.listed)}
  BY <1>7 DEF ListedJobs
<1>18. ListedJobs' = {(walk.listed \o page)[i] : i \in 1..Len(walk.listed \o page)}
  <2>1. DOMAIN (walk.listed \o page) = 1..Len(walk.listed \o page)
    BY <1>8
  <2>. QED
    BY ONLY <1>9, <2>1, Zenon DEF ListedJobs
<1>19. ListedJobs' = ListedJobs \cup Paged
  <2>1. ASSUME NEW i \in 1..Len(walk.listed \o page) PROVE (walk.listed \o page)[i] \in ListedJobs \cup Paged
    <3>1. CASE i <= Len(walk.listed)
      BY <1>14, <1>16, <1>17, <3>1
    <3>2. CASE i > Len(walk.listed)
      <4>1. i - Len(walk.listed) \in 1..Len(page) /\ Len(walk.listed) + (i - Len(walk.listed)) = i
        BY <1>16, <3>2
      <4>2. (walk.listed \o page)[i] = page[i - Len(walk.listed)]
        BY <1>15, <4>1, Zenon
      <4>. QED
        BY <4>1, <4>2, Zenon
    <3>. QED
      BY <1>16, <3>1, <3>2
  <2>2. ASSUME NEW i \in 1..Len(walk.listed) PROVE walk.listed[i] \in ListedJobs'
    <3>1. i \in 1..Len(walk.listed \o page)
      BY <1>16
    <3>. QED
      BY <1>14, <1>18, <3>1, Zenon
  <2>3. ASSUME NEW i \in 1..Len(page) PROVE page[i] \in ListedJobs'
    <3>1. Len(walk.listed) + i \in 1..Len(walk.listed \o page)
      BY <1>16
    <3>. QED
      BY <1>15, <1>18, <3>1, Zenon
  <2>. QED
    BY <1>17, <1>18, <2>1, <2>2, <2>3, Zenon
<1>20. ListedJobs \cap S = {}
  <2>1. CASE walk.at = "new"
    <3>1. walk.listed = <<>>
      BY <2>1, Zenon DEF PagesInv, WalkTyped
    <3>. QED
      BY <1>17, <3>1
  <2>2. CASE walk.at = "paging"
    BY <1>4, <2>2, Zenon DEF PagesInv, ListedBefore, Rows
  <2>. QED
    BY <1>7, <2>1, <2>2, Zenon
<1>21. Paged \subseteq S
  BY <1>2
<1>22. \A i, k \in 1..Len(page) : page[i] = page[k] => i = k
  <2>1. \A a \in PageJobs : ~Precedes(a, a)
    BY PageOrder, Zenon DEF PagesInv
  <2>2. \A i \in 1..Len(page) : page[i] \in PageJobs
    BY <1>8
  <2>3. \A i, k \in 1..Len(page) : i < k => page[i] # page[k]
    BY <1>2, <2>1, <2>2, Zenon
  <2>. QED
    BY <1>16, <2>3
<1>23. ListedOnce'
  <2> DEFINE l == Len(walk.listed)
             all == walk.listed \o page
  <2>1. SUFFICES ASSUME NEW i \in 1..Len(all), NEW k \in 1..Len(all), all[i] = all[k] PROVE i = k
    <3>1. DOMAIN (walk.listed \o page) = 1..Len(walk.listed \o page)
      BY <1>8
    <3>. QED
      BY <1>9, <3>1, Zenon DEF ListedOnce
  <2>2. \A x \in 1..Len(all) : x <= l => all[x] \in ListedJobs /\ all[x] = walk.listed[x] /\ x \in DOMAIN walk.listed
    BY <1>7, <1>14, <1>16, <1>17
  <2>3. \A x \in 1..Len(all) : x > l => x - l \in 1..Len(page) /\ all[x] = page[x - l]
    BY <1>15, <1>16
  <2>4. \A x \in 1..Len(page) : page[x] \in S
    BY <1>21, Zenon
  <2>5. i \in Int /\ k \in Int /\ l \in Int
    BY <1>16
  <2>. HIDE DEF l, all
  <2>6. CASE i <= l /\ k <= l
    BY <2>1, <2>2, <2>6, Zenon DEF PagesInv, ListedOnce
  <2>7. CASE i > l /\ k > l
    <3>1. i - l = k - l
      BY <1>22, <2>1, <2>3, <2>7, Zenon
    <3>. QED
      BY <2>5, <3>1
  <2>8. CASE (i <= l /\ k > l) \/ (i > l /\ k <= l)
    BY <1>20, <2>1, <2>2, <2>3, <2>4, <2>8, Zenon
  <2>. QED
    BY <2>5, <2>6, <2>7, <2>8
<1>24. ASSUME more PROVE ListedBefore'
  <2> DEFINE m == stamps[last]
  <2>1. /\ walk'.cursor # FromTop /\ walk'.cursor.millis = m /\ walk'.cursor.id = last
        /\ m \in Nat /\ last \in Nat /\ last \in PageJobs /\ last \in S
    BY <1>5, <1>9, <1>10, <1>11, <1>24
  <2>. HIDE DEF m
  <2>. SUFFICES ASSUME NEW j \in ListedJobs'
                PROVE  /\ stamps[j] # 0 => ~(stamps[j] < m \/ (stamps[j] = m /\ j < last))
                       /\ millis > m \/ j >= last
    BY <1>3, <2>1, Zenon DEF ListedBefore, Behind
  <2>2. CASE j \in Paged
    <3>1. PICK i \in 1..Len(page) : j = page[i]
      BY <2>2, Zenon
    <3>2. j = last \/ Precedes(j, last)
      <4>1. Len(page) \in 1..Len(page) /\ (i = Len(page) \/ i < Len(page))
        BY <1>16
      <4>. QED
        BY <1>2, <3>1, <4>1, Zenon DEF last
    <3>3. j \in PageJobs /\ j \in Nat
      <4>1. j \in PageJobs
        BY <1>4, <1>21, <2>2, Zenon
      <4>. QED
        BY <4>1, PagesAssumption, Zenon
    <3>. QED
      BY <1>6, <2>1, <3>2, <3>3 DEF Precedes, m
  <2>3. CASE j \in ListedJobs
    <3>1. walk.at = "paging"
      <4>1. CASE walk.at = "new"
        <5>1. walk.listed = <<>>
          BY <4>1, Zenon DEF PagesInv, WalkTyped
        <5>. QED
          BY <1>17, <2>3, <5>1
      <4>. QED
        BY <1>7, <4>1, Zenon
    <3>2. /\ stamps[j] # 0 => ~Behind(j, walk.cursor)
          /\ millis > walk.cursor.millis \/ j >= walk.cursor.id
          /\ walk.cursor # FromTop /\ walk.cursor.millis <= millis
      BY <2>3, <3>1, Zenon DEF PagesInv, ListedBefore, WalkTyped
    <3>3. m < walk.cursor.millis \/ (m = walk.cursor.millis /\ last < walk.cursor.id)
      BY <1>4, <2>1, <3>2, Zenon DEF Behind, m
    <3>4. stamps[j] # 0 => ~(stamps[j] < walk.cursor.millis \/ (stamps[j] = walk.cursor.millis /\ j < walk.cursor.id))
      BY <3>2, Zenon DEF Behind
    <3>5. j \in PageJobs /\ j \in Nat
      <4>1. \A i \in 1..Len(walk.listed) : walk.listed[i] \in PageJobs
        BY <1>7
      <4>2. j \in PageJobs
        BY <1>17, <2>3, <4>1, Zenon
      <4>. QED
        BY <4>2, PagesAssumption, Zenon
    <3>. QED
      BY <1>6, <1>7, <2>1, <3>2, <3>3, <3>4, <3>5
  <2>. QED
    BY <1>19, <2>2, <2>3
<1>25. ListedBefore'
  <2>1. ~more => walk'.at # "paging"
    BY <1>9, Zenon
  <2>. QED
    BY <1>24, <2>1, Zenon DEF ListedBefore
<1>26. UntouchedAhead'
  <2>1. walk'.untouched \subseteq ListedJobs \cup S /\ walk'.untouched \subseteq Rows
    <3>1. CASE walk.at = "new"
      <4>1. walk.cursor = FromTop
        BY <3>1, Zenon DEF PagesInv, WalkTyped
      <4>. QED
        BY <1>9, <3>1, <4>1, Zenon DEF S, RowsBehind, Behind
    <3>2. CASE walk.at = "paging"
      BY <1>9, <3>2, Zenon DEF PagesInv, UntouchedAhead, S, RowsBehind
    <3>. QED
      BY <1>7, <3>1, <3>2, Zenon
  <2>2. Rows' = Rows
    BY <1>3, Zenon DEF Rows
  <2>3. CASE ~more
    <3>1. S \subseteq Paged
      BY <1>2, <2>3
    <3>. QED
      BY <1>9, <1>19, <2>1, <2>2, <2>3, <3>1, Zenon DEF UntouchedAhead
  <2>4. CASE more
    <3>1. ASSUME NEW j \in walk'.untouched, j \notin ListedJobs' PROVE Behind(j, walk.cursor)'
      <4>1. j \in S /\ Precedes(last, j)
        BY <1>2, <1>19, <2>1, <3>1 DEF last
      <4>2. j \in Nat /\ last \in Nat /\ j \in PageJobs /\ last \in PageJobs
        BY <1>4, <1>10, <2>4, <4>1, PagesAssumption, Zenon
      <4>3. walk'.cursor.millis = stamps[last] /\ walk'.cursor.id = last
        BY <1>9, <1>11, <2>4, Zenon
      <4>4. stamps[j] < stamps[last] \/ (stamps[j] = stamps[last] /\ j < last)
        BY <1>6, <4>1, <4>2 DEF Precedes
      <4>. QED
        BY <1>3, <4>3, <4>4, Zenon DEF Behind
    <3>. QED
      BY <1>9, <2>1, <2>2, <2>4, <3>1, Zenon DEF UntouchedAhead
  <2>. QED
    BY <2>3, <2>4, Zenon
<1>27. StampsTyped'
  BY <1>3, Zenon DEF PagesInv, StampsTyped
<1>. QED
  BY <1>13, <1>23, <1>25, <1>26, <1>27, Zenon DEF PagesInv

(* A traversal of the job list is exact however the rows move meanwhile: it
   lists no job twice, and in the end every job that nothing touched. *)
THEOREM PagesAreExact == PagesSpec => []PagesExact
<1>1. PagesInit => PagesInv
  <2>. SUFFICES ASSUME PagesInit PROVE PagesInv
    BY Zenon
  <2>1. StampsTyped
    BY DEF PagesInit, StampsTyped
  <2>2. walk.at = "new" /\ walk.cursor = FromTop /\ walk.listed = <<>> /\ walk.untouched = {}
    BY Zenon DEF PagesInit, NotBegun
  <2>3. walk \in [at : {"new", "paging", "done"}, cursor : [millis : Int, id : Int],
                  listed : Seq(PageJobs), untouched : SUBSET PageJobs]
    BY DEF PagesInit, NotBegun, FromTop
  <2>. QED
    BY <2>1, <2>2, <2>3 DEF PagesInv, WalkTyped, ListedBefore, UntouchedAhead, ListedOnce
<1>2. PagesInv /\ [PagesNext]_pageVars => PagesInv'
  <2>1. ASSUME PagesInv, UNCHANGED pageVars PROVE PagesInv'
    BY <2>1 DEF pageVars, PagesInv, StampsTyped, WalkTyped, ListedBefore, UntouchedAhead, ListedOnce, ListedJobs,
       Rows, Behind
  <2>. QED
    BY <2>1, StampKeeps, RemoveKeeps, PageKeeps, Zenon DEF PagesNext
<1>3. PagesInv => PagesExact
  BY Zenon DEF PagesInv, ListedOnce, UntouchedAhead, ListedJobs, PagesExact
<1>. QED
  BY <1>1, <1>2, <1>3, PTL DEF PagesSpec

-----------------------------------------------------------------------------
(* The memory of an engine. *)

(* The parts and the fields are the ones an embedder finds; what the sizes are
   computed from is never negative. *)
ConfigTyped ==
    /\ config \in [DOMAIN Default -> UNION {[DOMAIN Default[part] -> Int] : part \in DOMAIN Default}]
    /\ \A part \in DOMAIN Default : config[part] \in [DOMAIN Default[part] -> Int]
    /\ \A part \in {"memory", "engine"} : \A field \in DOMAIN Default[part] : config[part][field] \in Nat

(* What a built engine was validated for, and how much of it is in use. *)
Carved ==
    engine = "built" =>
        /\ CarveOutFits
        /\ pool = config.memory.aggregate_max_bytes - connection_ingress_footprint * config.engine.max_connections_total
        /\ open \in Nat /\ open <= config.engine.max_connections_total
        /\ pipeline \in Nat /\ pipeline <= pool

ConfigInv == ConfigTyped /\ Carved /\ (engine # "built" => open = 0 /\ pipeline = 0)

(* The fields that the sizes are computed from. *)
LEMMA SizesAreNumbers ==
    ASSUME ConfigTyped
    PROVE  /\ config.memory.aggregate_max_bytes \in Nat /\ config.memory.job_max_bytes \in Nat
           /\ config.memory.network_ingress_max_bytes \in Nat
           /\ config.engine.read_buffer_size \in Nat /\ config.engine.max_connections_total \in Nat
<1>1. {"aggregate_max_bytes", "job_max_bytes", "network_ingress_max_bytes"} \subseteq DOMAIN TransferMemory
  BY ONLY SMT DEF TransferMemory
<1>2. {"read_buffer_size", "max_connections_total"} \subseteq DOMAIN EngineDefaults
  BY ONLY SMT DEF EngineDefaults
<1>3. /\ "memory" \in DOMAIN Default /\ "engine" \in DOMAIN Default
      /\ Default["memory"] = TransferMemory /\ Default["engine"] = EngineDefaults
  BY ONLY Zenon DEF Default
<1>. QED
  BY <1>1, <1>2, <1>3, Zenon DEF ConfigTyped

(* The footprint that the carve-out is computed with is the one of the profile
   each connection is built with. *)
LEMMA FootprintsAgree ==
    ASSUME ConfigTyped
    PROVE  /\ connection_ingress_footprint \in Nat
           /\ IngressProfile.connection_footprint = connection_ingress_footprint
  BY SizesAreNumbers, SMTT(60) DEF IngressProfile, connection_ingress_footprint, Least, Largest, frame, Ingress,
     INGRESS_WINDOW_CAP, MAX_HEADER_LIST_BYTES

(* Fewer connections need no more. *)
LEMMA FewerNeedLess == ASSUME NEW a \in Nat, NEW b \in Nat, NEW f \in Nat, a <= b PROVE a * f <= b * f /\ a * f \in Nat
<1>1. PICK d \in Nat : b = a + d
  <2>1. b - a \in Nat /\ b = a + (b - a)
    OBVIOUS
  <2>. QED
    BY <2>1
<1>2. d * f \in Nat /\ a * f \in Nat /\ b * f = a * f + d * f
  BY <1>1
<1>. QED
  BY <1>2

(* The parts of a configuration. *)
LEMMA DefaultParts ==
    DOMAIN Default = {"engine", "memory", "budget", "transfer", "retry", "network", "pool", "optional"}
  BY ONLY Zenon DEF Default

(* A configuration is a function on its parts. *)
LEMMA DefaultIsFunction == Default = [part \in DOMAIN Default |-> Default[part]]
  BY ONLY Zenon DEF Default

(* Setting a field keeps the types. *)
LEMMA SetFieldTyped ==
    ASSUME ConfigTyped, NEW part \in DOMAIN Default, NEW field \in DOMAIN Default[part], NEW value \in Nat,
           SetField(part, field, value)
    PROVE  ConfigTyped'
<1> DEFINE changed == [config[part] EXCEPT ![field] = value]
<1>1. changed \in [DOMAIN Default[part] -> Int] /\ config' = [config EXCEPT ![part] = changed]
  BY DEF ConfigTyped, SetField
<1>2. \A f \in DOMAIN Default[part] : changed[f] = IF f = field THEN value ELSE config[part][f]
  BY DEF ConfigTyped
<1>. HIDE DEF changed
<1>3. ASSUME NEW p \in DOMAIN Default
      PROVE  /\ p = part => config'[p] = changed
             /\ p # part => config'[p] = config[p]
  BY <1>1 DEF ConfigTyped
<1>4. config' \in [DOMAIN Default -> UNION {[DOMAIN Default[p] -> Int] : p \in DOMAIN Default}]
  BY <1>1, <1>3 DEF ConfigTyped
<1>5. \A p \in DOMAIN Default : config'[p] \in [DOMAIN Default[p] -> Int]
  BY <1>1, <1>3 DEF ConfigTyped
<1>6. \A p \in {"memory", "engine"} \cap DOMAIN Default : \A f \in DOMAIN Default[p] : config'[p][f] \in Nat
  BY <1>2, <1>3, Zenon DEF ConfigTyped
<1>7. {"memory", "engine"} \subseteq DOMAIN Default
  BY ONLY DefaultParts, Zenon
<1>. QED
  BY <1>4, <1>5, <1>6, <1>7, Zenon DEF ConfigTyped

(* The initial configuration. *)
LEMMA DefaultTyped == ASSUME config = Default PROVE ConfigTyped
<1> DEFINE Parts == {"engine", "memory", "budget", "transfer", "retry", "network", "pool", "optional"}
<1>1. DOMAIN Default = Parts
  BY ONLY DefaultParts, Zenon
<1>2. Default = [part \in Parts |-> Default[part]]
  BY ONLY <1>1, DefaultIsFunction, Zenon
<1>3. ASSUME NEW part \in Parts PROVE Default[part] \in [DOMAIN Default[part] -> Int]
  <2>1. /\ TransferMemory \in [DOMAIN TransferMemory -> Int]
        /\ WriteBudgetDefault \in [DOMAIN WriteBudgetDefault -> Int]
    BY ONLY SMT DEF TransferMemory, WriteBudgetDefault
  <2>2. /\ TransferPolicy \in [DOMAIN TransferPolicy -> Int]
        /\ RetryPolicy \in [DOMAIN RetryPolicy -> Int]
    BY ONLY SMT DEF TransferPolicy, RetryPolicy
  <2>3. /\ NetworkPolicy \in [DOMAIN NetworkPolicy -> Int]
        /\ PoolConfig \in [DOMAIN PoolConfig -> Int]
    BY ONLY SMT DEF NetworkPolicy, PoolConfig
  <2>4. EngineDefaults \in [DOMAIN EngineDefaults -> Int]
    BY ONLY SMT DEF EngineDefaults
  <2>5. OptionalDefaults \in [DOMAIN OptionalDefaults -> Int]
    BY ONLY SMT DEF OptionalDefaults, Unlimited
  <2>6. /\ Default.engine = EngineDefaults /\ Default.memory = TransferMemory /\ Default.budget = WriteBudgetDefault
        /\ Default.transfer = TransferPolicy /\ Default.retry = RetryPolicy /\ Default.network = NetworkPolicy
        /\ Default.pool = PoolConfig /\ Default.optional = OptionalDefaults
    BY ONLY Zenon DEF Default
  <2>. QED
    BY ONLY <1>3, <2>1, <2>2, <2>3, <2>4, <2>5, <2>6, Zenon
<1>4. ASSUME NEW part \in {"memory", "engine"}, NEW field \in DOMAIN Default[part] PROVE Default[part][field] \in Nat
  <2>1. \A f \in DOMAIN TransferMemory : TransferMemory[f] \in Nat
    BY ONLY SMT DEF TransferMemory
  <2>2. \A f \in DOMAIN EngineDefaults : EngineDefaults[f] \in Nat
    BY ONLY SMT DEF EngineDefaults
  <2>3. Default.engine = EngineDefaults /\ Default.memory = TransferMemory
    BY ONLY Zenon DEF Default
  <2>. QED
    BY ONLY <1>4, <2>1, <2>2, <2>3, Zenon
<1>5. Default \in [Parts -> UNION {[DOMAIN Default[part] -> Int] : part \in Parts}]
  BY <1>2, <1>3
<1>. QED
  BY <1>1, <1>3, <1>4, <1>5 DEF ConfigTyped

(* What is computed from a configuration stays while it does. *)
LEMMA SizesKept ==
    ASSUME config' = config
    PROVE  /\ ConfigTyped => ConfigTyped'
           /\ CarveOutFits => CarveOutFits'
           /\ connection_ingress_footprint' = connection_ingress_footprint
  BY Zenon DEF ConfigTyped, CarveOutFits, connection_ingress_footprint, Ingress, frame

(* A product that does not overflow is not cut. *)
LEMMA LeastOf == ASSUME NEW a \in Nat, NEW b \in Nat, a <= b PROVE Least(a, b) = a
  BY DEF Least

(* Every step keeps it. *)
LEMMA ConfigNextInv == ASSUME ConfigInv, [ConfigNext]_configVars PROVE ConfigInv'
<1>1. ASSUME NEW part \in DOMAIN Default, NEW field \in DOMAIN Default[part],
             NEW value \in IF part \in {"memory", "budget"} THEN Sizes ELSE Counts, SetField(part, field, value)
      PROVE  ConfigInv'
  <2>1. value \in Nat
    BY WordAssumption
  <2>2. ConfigTyped'
    BY <1>1, <2>1, SetFieldTyped DEF ConfigInv
  <2>. QED
    BY <1>1, <2>2 DEF ConfigInv, SetField, Carved
<1>2. CASE from_config
  <2>1. ConfigTyped' /\ open = 0 /\ pipeline = 0 /\ open' = 0 /\ pipeline' = 0 /\ config' = config
    BY <1>2 DEF ConfigInv, ConfigTyped, from_config
  <2>2. CASE ~validate
    BY <1>2, <2>1, <2>2 DEF ConfigInv, Carved, from_config
  <2>3. CASE validate
    <3> DEFINE F == connection_ingress_footprint
               C == config.engine.max_connections_total
    <3>1. CarveOutFits
      BY <2>3 DEF validate, validate_memory
    <3>2. F \in Nat /\ C \in Nat /\ F * C \in Nat
      BY FootprintsAgree, SizesAreNumbers DEF ConfigInv
    <3>3. connection_ingress_reserve = F * C
      <4>1. F * C <= WordMax /\ WordMax \in Nat
        BY <3>1, WordAssumption, Zenon DEF CarveOutFits
      <4>2. connection_ingress_reserve = Least(F * C, WordMax)
        BY Zenon DEF connection_ingress_reserve
      <4>. QED
        BY <3>2, <4>1, <4>2, LeastOf, Zenon
    <3>4. CarveOutFits' /\ connection_ingress_footprint' = F
      BY <2>1, <3>1, SizesKept, Zenon
    <3>5. F * C + config.memory.job_max_bytes <= config.memory.aggregate_max_bytes
      BY <3>1 DEF CarveOutFits
    <3>6. config.memory.aggregate_max_bytes - F * C \in Nat
      BY <3>2, <3>5, SizesAreNumbers DEF ConfigInv
    <3>7. pool' = config.memory.aggregate_max_bytes - F * C
      BY <1>2, <2>3, <3>3, <3>6 DEF from_config, Largest
    <3>8. Carved'
      BY <2>1, <3>2, <3>4, <3>6, <3>7 DEF Carved
    <3>. QED
      BY <1>2, <2>1, <2>3, <3>8 DEF ConfigInv, from_config
  <2>. QED
    BY <2>2, <2>3
<1>3. CASE Dial(config.engine.max_connections_total - open) \/ HangUp
  <2>1. config' = config /\ engine' = engine /\ pool' = pool /\ pipeline' = pipeline /\ engine = "built"
    BY <1>3 DEF ConfigInv, Dial, HangUp
  <2>2. ConfigTyped' /\ CarveOutFits' /\ connection_ingress_footprint' = connection_ingress_footprint
    BY <2>1, SizesKept, Zenon DEF ConfigInv, Carved
  <2>3. open' \in Nat /\ open' <= config.engine.max_connections_total
    BY <1>3, <2>1, SizesAreNumbers DEF ConfigInv, Carved, Dial, HangUp
  <2>4. Carved'
    BY <2>1, <2>2, <2>3, Zenon DEF ConfigInv, Carved
  <2>. QED
    BY <2>1, <2>2, <2>4, Zenon DEF ConfigInv
<1>4. CASE ReservePipeline(pool - pipeline) \/ ReleasePipeline
  <2>1. config' = config /\ engine' = engine /\ pool' = pool /\ open' = open /\ engine = "built"
    BY <1>4 DEF ConfigInv, ReservePipeline, ReleasePipeline
  <2>2. ConfigTyped' /\ CarveOutFits' /\ connection_ingress_footprint' = connection_ingress_footprint
    BY <2>1, SizesKept, Zenon DEF ConfigInv, Carved
  <2>3. pipeline \in Nat /\ pipeline <= pool /\ pool \in Int
    <3>1. connection_ingress_footprint * config.engine.max_connections_total \in Nat
      BY FootprintsAgree, SizesAreNumbers DEF ConfigInv
    <3>. QED
      BY <2>1, <3>1, SizesAreNumbers DEF ConfigInv, Carved
  <2>4. pipeline' \in Nat /\ pipeline' <= pool
    BY <1>4, <2>3 DEF ReservePipeline, ReleasePipeline
  <2>5. Carved'
    BY <2>1, <2>2, <2>4, Zenon DEF ConfigInv, Carved
  <2>. QED
    BY <2>1, <2>2, <2>5, Zenon DEF ConfigInv
<1>5. CASE UNCHANGED configVars
  BY <1>5, SizesKept, Zenon DEF ConfigInv, Carved, configVars
<1>. QED
  BY <1>1, <1>2, <1>3, <1>4, <1>5 DEF ConfigNext

(* Whatever valid configuration an embedder builds an engine with, what its
   connections may buffer and what the ledger admits stay together within the
   configured aggregate. *)
THEOREM MemoryIsWithinAggregate == ConfigSpec => []MemoryWithinAggregate
<1>1. ConfigInit => ConfigInv
  BY DefaultTyped DEF ConfigInit, ConfigInv, Carved
<1>2. ConfigInv /\ [ConfigNext]_configVars => ConfigInv'
  BY ConfigNextInv
<1>3. ConfigInv => MemoryWithinAggregate
  <2>. SUFFICES ASSUME ConfigInv, engine = "built"
                PROVE  open * connection_ingress_footprint + pipeline <= config.memory.aggregate_max_bytes
    BY FootprintsAgree DEF ConfigInv, MemoryWithinAggregate
  <2> DEFINE F == connection_ingress_footprint
             C == config.engine.max_connections_total
  <2>1. F \in Nat /\ C \in Nat /\ open \in Nat /\ open <= C
    BY FootprintsAgree, SizesAreNumbers DEF ConfigInv, Carved
  <2>2. open * F <= C * F /\ open * F \in Nat
    BY <2>1, FewerNeedLess
  <2>3. C * F = F * C
    BY <2>1
  <2>4. pipeline \in Nat /\ pipeline <= config.memory.aggregate_max_bytes - F * C
    BY DEF ConfigInv, Carved
  <2>. QED
    BY <2>1, <2>2, <2>3, <2>4, SizesAreNumbers DEF ConfigInv
<1>. QED
  BY <1>1, <1>2, <1>3, PTL DEF ConfigSpec

-----------------------------------------------------------------------------
(* Reservations of write memory. *)

BudgetSteps == {"rest", "enable", "try", "refused", "wait", "free", "notify"}
Reservations == [pc : BudgetSteps, kept : Nat, asks : Nat, rolls : BOOLEAN, told : BOOLEAN,
                 frees : Seq(BudgetPools \X Nat)]

BudgetTyped ==
    /\ used \in [BudgetPools -> Int]
    /\ task \in [Tasks -> Reservations]
    /\ \A t \in Tasks : task[t].pc \in {"free", "notify"} => task[t].frees # <<>>

(* From the failed attempt on: no room, or whoever made some is about to tell. *)
Turned(t) ==
    task[t].pc \in {"refused", "wait"} /\ ~task[t].told =>
        \/ task[t].asks > Left(Wants(t))
        \/ \E u \in Tasks : task[u].pc = "notify" /\ Freed(u) = Wants(t)

BudgetInv == BudgetTyped /\ \A t \in Tasks : Turned(t)

(* Taking the first element of a sequence. *)
LEMMA HeadAndTail ==
    ASSUME NEW S, NEW s \in Seq(S), s # <<>>
    PROVE  Head(s) \in S /\ Tail(s) \in Seq(S) /\ (Len(s) > 1 => Tail(s) # <<>>)
<1>1. Len(s) > 0 /\ Len(s) \in Nat
  OBVIOUS
<1>2. Head(s) \in S
  BY <1>1
<1>3. Tail(s) \in Seq(S)
  BY <1>1
<1>4. Len(Tail(s)) = Len(s) - 1
  BY <1>1
<1>5. Len(s) > 1 => Len(Tail(s)) # 0
  BY <1>1, <1>4
<1>6. Len(<<>>) = 0
  OBVIOUS
<1>. QED
  BY <1>2, <1>3, <1>5, <1>6, Zenon

(* The pools a task deals with, and what it gives back first. *)
LEMMA PoolsTyped ==
    ASSUME BudgetTyped, NEW t \in Tasks
    PROVE  /\ Global \in BudgetPools /\ JobPool(t) \in BudgetPools /\ Wants(t) \in BudgetPools
           /\ \A p \in BudgetPools : BudgetMax[p[1]] \in Nat /\ used[p] \in Int
           /\ task[t] \in Reservations
           /\ task[t].frees # <<>> =>
                /\ Freed(t) \in BudgetPools /\ Head(task[t].frees)[2] \in Nat
                /\ Tail(task[t].frees) \in Seq(BudgetPools \X Nat)
                /\ (Len(task[t].frees) > 1 => Tail(task[t].frees) # <<>>)
<1>1. Global \in BudgetPools /\ JobPool(t) \in BudgetPools
  BY DEF BudgetPools
<1>2. \A p \in BudgetPools : BudgetMax[p[1]] \in Nat
  BY BudgetAssumption DEF BudgetPools, Global, JobPool
<1>3. task[t] \in Reservations /\ task[t].frees \in Seq(BudgetPools \X Nat)
  BY DEF BudgetTyped, Reservations
<1>4. ASSUME task[t].frees # <<>>
      PROVE  /\ Head(task[t].frees) \in BudgetPools \X Nat
             /\ Tail(task[t].frees) \in Seq(BudgetPools \X Nat)
             /\ (Len(task[t].frees) > 1 => Tail(task[t].frees) # <<>>)
  BY <1>3, <1>4, HeadAndTail, Zenon
<1>. QED
  BY <1>1, <1>2, <1>3, <1>4, Zenon DEF BudgetTyped, Wants, Freed

(* What a task that is not at rest after a step of another task sees of it. *)
LEMMA OthersStep ==
    ASSUME BudgetInv, BudgetTyped', NEW t \in Tasks,
           \A u \in Tasks : u # t => task'[u] = task[u],
           \A p \in BudgetPools : used'[p] >= used[p],
           task[t].pc # "notify",
           Turned(t)'
    PROVE  BudgetInv'
<1>1. SUFFICES ASSUME NEW u \in Tasks, u # t PROVE Turned(u)'
  BY DEF BudgetInv
<1>2. Turned(u) /\ task'[u] = task[u] /\ Wants(u)' = Wants(u)
  BY <1>1 DEF BudgetInv, Wants, JobPool
<1>3. Wants(u) \in BudgetPools /\ BudgetMax[Wants(u)[1]] \in Nat /\ used[Wants(u)] \in Int /\ used'[Wants(u)] \in Int
      /\ task[u].asks \in Nat
  BY PoolsTyped, Zenon DEF BudgetInv, BudgetTyped, Reservations
<1>4. task[u].asks > Left(Wants(u)) => task'[u].asks > Left(Wants(u))'
  BY <1>2, <1>3, SMTT(60) DEF Left
<1>5. ASSUME NEW v \in Tasks, task[v].pc = "notify", Freed(v) = Wants(u)
      PROVE  v # t /\ task'[v].pc = "notify" /\ Freed(v)' = Wants(u)'
  BY <1>2, <1>5 DEF Freed
<1>. QED
  BY <1>2, <1>4, <1>5 DEF Turned

(* Every step of a reservation keeps the invariant. *)
LEMMA BudgetNextInv == BudgetInv /\ [BudgetNext]_budgetVars => BudgetInv'
<1>. SUFFICES ASSUME BudgetInv, [BudgetNext]_budgetVars PROVE BudgetInv'
  OBVIOUS
<1>0. BudgetTyped
  BY DEF BudgetInv
<1>1. CASE UNCHANGED budgetVars
  BY <1>1 DEF budgetVars, BudgetInv, BudgetTyped, Turned, Left, Wants, Freed, JobPool
<1>2. ASSUME NEW t \in Tasks, NEW s \in Reservations, task' = [task EXCEPT ![t] = s], used' = used,
             s.pc \in {"free", "notify"} => s.frees # <<>>,
             task[t].pc # "notify", s.pc \notin {"refused", "wait"} \/ Turned(t)'
      PROVE  BudgetInv'
  <2>1. BudgetTyped'
    BY <1>0, <1>2 DEF BudgetTyped
  <2>2. task'[t] = s
    BY <1>0, <1>2 DEF BudgetTyped
  <2>3. Turned(t)'
    BY <1>2, <2>2 DEF Turned
  <2>. QED
    BY <1>0, <1>2, <2>1, <2>3, OthersStep, SMTT(60) DEF BudgetTyped
<1>3. ASSUME NEW t \in Tasks, NEW n \in Quanta, Ask(t, n) PROVE BudgetInv'
  <2>1. task' = [task EXCEPT ![t] = [task[t] EXCEPT !.pc = "enable", !.asks = n]]
    BY <1>3, Zenon DEF Ask
  <2>2. [task[t] EXCEPT !.pc = "enable", !.asks = n] \in Reservations
    BY <1>0, BudgetAssumption, Zenon DEF BudgetTyped, Reservations, BudgetSteps
  <2>. QED
    BY <1>2, <1>3, <2>1, <2>2, Zenon DEF Ask, Reservations
<1>4. ASSUME NEW t \in Tasks, Enable(t) PROVE BudgetInv'
  <2>1. task' = [task EXCEPT ![t] = [task[t] EXCEPT !.pc = "try", !.told = FALSE]]
    BY <1>4, Zenon DEF Enable
  <2>2. [task[t] EXCEPT !.pc = "try", !.told = FALSE] \in Reservations
    BY <1>0, Zenon DEF BudgetTyped, Reservations, BudgetSteps
  <2>. QED
    BY <1>2, <1>4, <2>1, <2>2, Zenon DEF Enable, Reservations
<1>5. ASSUME NEW t \in Tasks, Notified(t) PROVE BudgetInv'
  <2>1. task' = [task EXCEPT ![t] = [task[t] EXCEPT !.pc = "enable"]]
    BY <1>5 DEF Notified
  <2>2. [task[t] EXCEPT !.pc = "enable"] \in Reservations
    BY <1>0, Zenon DEF BudgetTyped, Reservations, BudgetSteps
  <2>. QED
    BY <1>2, <1>5, <2>1, <2>2, Zenon DEF Notified, Reservations
<1>6. ASSUME NEW t \in Tasks, NEW pc \in {"refused", "wait"}, used' = used, pc = "wait" => Turned(t),
             task[t].pc = IF pc = "wait" THEN "refused" ELSE "try",
             pc = "refused" => ~Admits(t), task' = [task EXCEPT ![t].pc = pc]
      PROVE  BudgetInv'
  <2>1. task' = [task EXCEPT ![t] = [task[t] EXCEPT !.pc = pc]]
    BY <1>6
  <2>2. [task[t] EXCEPT !.pc = pc] \in Reservations
    BY <1>0, Zenon DEF BudgetTyped, Reservations, BudgetSteps
  <2>3. task'[t] = [task[t] EXCEPT !.pc = pc] /\ \A u \in Tasks : u # t => task'[u] = task[u]
    BY <1>0, <2>1 DEF BudgetTyped
  <2>4. task'[t].asks = task[t].asks /\ task'[t].told = task[t].told /\ Wants(t)' = Wants(t) /\ Left(Wants(t))' = Left(Wants(t))
    BY <1>0, <1>6, <2>3 DEF BudgetTyped, Reservations, Wants, JobPool, Left
  <2>5. CASE pc = "refused"
    <3>1. task[t].asks > Left(Wants(t))
      BY <1>0, <1>6, <2>5, PoolsTyped DEF Admits, Left, Reservations
    <3>. QED
      BY <1>2, <1>6, <2>1, <2>2, <2>4, <2>5, <3>1, Zenon DEF Turned, Reservations
  <2>6. CASE pc = "wait"
    <3>1. ASSUME NEW u \in Tasks, task[u].pc = "notify", Freed(u) = Wants(t)
          PROVE  task'[u].pc = "notify" /\ Freed(u)' = Wants(t)'
      BY <1>6, <2>3, <2>4, <2>6, <3>1 DEF Freed
    <3>2. Turned(t)'
      BY <1>6, <2>4, <2>6, <3>1 DEF Turned
    <3>. QED
      BY <1>2, <1>6, <2>1, <2>2, <2>6, <3>2, Zenon DEF Reservations
  <2>. QED
    BY <2>5, <2>6
<1>7. ASSUME NEW t \in Tasks, Await(t) PROVE BudgetInv'
  BY <1>6, <1>7, Zenon DEF Await, BudgetInv
<1>8. ASSUME NEW t \in Tasks, TryAcquire(t) PROVE BudgetInv'
  <2>1. CASE ~Admits(t)
    BY <1>6, <1>8, <2>1 DEF TryAcquire
  <2>2. CASE Admits(t)
    <3>1. task[t].pc = "try" /\ used' = [used EXCEPT ![Wants(t)] = @ + task[t].asks] /\ task' = [task EXCEPT ![t] = Acquired(t)]
      BY <1>8, <2>2 DEF TryAcquire
    <3>2. Acquired(t) \in Reservations /\ Acquired(t).pc \in {"rest", "enable"}
      <4>1. task[t] \in Reservations /\ task[t].kept + task[t].asks \in Nat /\ <<>> \in Seq(BudgetPools \X Nat)
        BY <1>0 DEF BudgetTyped, Reservations
      <4>2. Resting \in Reservations
        BY <4>1 DEF Resting, Reservations, BudgetSteps
      <4>3. CASE task[t].rolls
        BY <4>1, <4>2, <4>3, Zenon DEF Acquired, Reservations, Resting
      <4>4. CASE ~task[t].rolls
        BY <4>1, <4>4, Zenon DEF Acquired, Reservations, BudgetSteps
      <4>. QED
        BY <4>3, <4>4
    <3>3. Wants(t) \in BudgetPools /\ task[t].asks \in Nat /\ used \in [BudgetPools -> Int] /\ task \in [Tasks -> Reservations]
      BY <1>0, PoolsTyped DEF BudgetTyped, Reservations
    <3>4. task'[t] = Acquired(t) /\ \A u \in Tasks : u # t => task'[u] = task[u]
      BY <3>1, <3>3
    <3>5. used' \in [BudgetPools -> Int] /\ \A p \in BudgetPools : used'[p] >= used[p]
      BY <3>1, <3>3
    <3>6. task' \in [Tasks -> Reservations]
      BY <3>1, <3>2, <3>3
    <3>7. BudgetTyped'
      BY <1>0, <3>2, <3>4, <3>5, <3>6 DEF BudgetTyped
    <3>8. Turned(t)'
      BY <3>2, <3>4 DEF Turned
    <3>. QED
      BY <3>1, <3>4, <3>5, <3>7, <3>8, OthersStep
  <2>. QED
    BY <2>1, <2>2
<1>9. ASSUME NEW t \in Tasks, Forsake(t) PROVE BudgetInv'
  <2> DEFINE s == [Resting EXCEPT !.kept = task[t].kept,
                    !.pc = IF task[t].rolls THEN "free" ELSE "rest",
                    !.frees = IF task[t].rolls THEN <<<<Global, task[t].asks>>>> ELSE <<>>]
  <2>1. <<<<Global, task[t].asks>>>> \in Seq(BudgetPools \X Nat) /\ <<>> \in Seq(BudgetPools \X Nat)
    BY <1>0, PoolsTyped DEF Reservations
  <2>2. s \in Reservations /\ (s.pc \in {"free", "notify"} => s.frees # <<>>) /\ s.pc \notin {"refused", "wait"}
    BY <1>0, <2>1, PoolsTyped, Zenon DEF Reservations, BudgetSteps, Resting
  <2>. QED
    BY <1>2, <1>9, <2>2, Zenon DEF Forsake
<1>10. ASSUME NEW t \in Tasks, NEW n \in Quanta \cup {0}, Reconcile(t, n) PROVE BudgetInv'
  <2> DEFINE f == <<<<Global, task[t].kept - n>>, <<JobPool(t), task[t].kept - n>>>>
             s == [task[t] EXCEPT !.pc = "free", !.kept = n, !.frees = f]
  <2>1. n \in Nat /\ n < task[t].kept /\ task[t].kept \in Nat /\ task[t] \in Reservations
    BY <1>0, <1>10, PoolsTyped, BudgetAssumption DEF Reservations, Reconcile
  <2>2. f \in Seq(BudgetPools \X Nat) /\ f # <<>>
    BY <1>0, <2>1, PoolsTyped
  <2>3. task' = [task EXCEPT ![t] = s]
    BY <1>10, Zenon DEF Reconcile
  <2>. HIDE DEF f
  <2>4. s \in Reservations /\ s.frees = f /\ s.pc = "free"
    BY <2>1, <2>2, Zenon DEF Reservations, BudgetSteps
  <2>. QED
    BY <1>2, <1>10, <2>2, <2>3, <2>4, Zenon DEF Reconcile
<1>11. ASSUME NEW t \in Tasks, FreeBytes(t) PROVE BudgetInv'
  <2>1. /\ task[t].pc = "free" /\ task' = [task EXCEPT ![t] = [task[t] EXCEPT !.pc = "notify"]]
        /\ used' = [used EXCEPT ![Freed(t)] = used[Freed(t)] - Head(task[t].frees)[2]]
    BY <1>11 DEF FreeBytes
  <2>2. /\ task[t].frees # <<>> /\ task[t] \in Reservations /\ task \in [Tasks -> Reservations]
        /\ used \in [BudgetPools -> Int]
    BY <1>0, <2>1, PoolsTyped DEF BudgetTyped
  <2>3. Freed(t) \in BudgetPools /\ Head(task[t].frees)[2] \in Nat
    BY <1>0, <2>2, PoolsTyped
  <2>4. [task[t] EXCEPT !.pc = "notify"] \in Reservations /\ [task[t] EXCEPT !.pc = "notify"].frees = task[t].frees
    BY <2>2, Zenon DEF Reservations, BudgetSteps
  <2>5. /\ task'[t].pc = "notify" /\ task'[t].frees = task[t].frees /\ Freed(t)' = Freed(t)
        /\ \A u \in Tasks : u # t => task'[u] = task[u]
    BY <2>1, <2>2, <2>4 DEF Freed, Reservations
  <2>6. /\ used' \in [BudgetPools -> Int] /\ task' \in [Tasks -> Reservations]
        /\ \A p \in BudgetPools : p # Freed(t) => used'[p] = used[p]
    BY <2>1, <2>2, <2>3, <2>4
  <2>7. BudgetTyped'
    BY <1>0, <2>2, <2>5, <2>6 DEF BudgetTyped
  <2>8. ASSUME NEW u \in Tasks PROVE Turned(u)'
    <3>1. CASE u = t
      BY <2>5, <3>1 DEF Turned
    <3>2. CASE u # t
      <4>1. Turned(u) /\ task'[u] = task[u] /\ Wants(u)' = Wants(u) /\ Wants(u) \in BudgetPools
        BY <1>0, <2>5, <3>2, PoolsTyped DEF BudgetInv, Wants, JobPool
      <4>2. CASE Wants(u) = Freed(t)
        BY <2>5, <4>1, <4>2 DEF Turned
      <4>3. CASE Wants(u) # Freed(t)
        <5>1. Left(Wants(u))' = Left(Wants(u))
          BY <2>6, <4>1, <4>3 DEF Left
        <5>2. \A v \in Tasks : task[v].pc = "notify" => task'[v].pc = "notify" /\ Freed(v)' = Freed(v)
          BY <2>1, <2>5 DEF Freed
        <5>. QED
          BY <4>1, <5>1, <5>2 DEF Turned
      <4>. QED
        BY <4>2, <4>3
    <3>. QED
      BY <3>1, <3>2
  <2>. QED
    BY <2>7, <2>8 DEF BudgetInv
<1>12. ASSUME NEW t \in Tasks, NotifyWaiters(t) PROVE BudgetInv'
  <2> DEFINE s == [task[t] EXCEPT !.frees = Tail(task[t].frees), !.pc = IF Len(task[t].frees) > 1 THEN "free" ELSE "rest"]
             o(u) == [task[u] EXCEPT !.told = task[u].told \/ Told(t, u)]
  <2>1. /\ task[t].pc = "notify" /\ used' = used
        /\ task' = [u \in Tasks |-> IF u = t THEN s ELSE o(u)]
    BY <1>12 DEF NotifyWaiters
  <2>2. task[t].frees # <<>> /\ \A u \in Tasks : task[u] \in Reservations
    BY <1>0, <2>1 DEF BudgetTyped
  <2>3. Tail(task[t].frees) \in Seq(BudgetPools \X Nat) /\ (Len(task[t].frees) > 1 => Tail(task[t].frees) # <<>>)
    BY <1>0, <2>2, PoolsTyped
  <2>4. s \in Reservations /\ (s.pc \in {"free", "notify"} => s.frees # <<>>) /\ s.pc \notin {"refused", "wait"}
    BY <2>2, <2>3, Zenon DEF Reservations, BudgetSteps
  <2>5. \A u \in Tasks : /\ o(u) \in Reservations /\ o(u).pc = task[u].pc /\ o(u).frees = task[u].frees
                         /\ o(u).asks = task[u].asks /\ o(u).rolls = task[u].rolls
                         /\ (o(u).told <=> task[u].told \/ Told(t, u))
    BY <2>2, Zenon DEF Reservations
  <2>. HIDE DEF s, o
  <2>6. task'[t] = s /\ \A u \in Tasks : u # t => task'[u] = o(u)
    BY <2>1
  <2>7. BudgetTyped'
    BY <1>0, <2>1, <2>4, <2>5, <2>6 DEF BudgetTyped
  <2>8. ASSUME NEW u \in Tasks PROVE Turned(u)'
    <3>1. CASE u = t
      BY <2>4, <2>6, <3>1 DEF Turned
    <3>2. CASE u # t
      <4>1. /\ Turned(u) /\ task'[u] = o(u) /\ Wants(u)' = Wants(u) /\ Left(Wants(u))' = Left(Wants(u))
            /\ task'[u].pc = task[u].pc /\ task'[u].asks = task[u].asks /\ (~task'[u].told => ~task[u].told /\ ~Told(t, u))
        BY <2>1, <2>5, <2>6, <3>2 DEF BudgetInv, Wants, JobPool, Left
      <4>2. ASSUME NEW v \in Tasks, task[v].pc = "notify", Freed(v) = Wants(u), v # t
            PROVE  task'[v].pc = "notify" /\ Freed(v)' = Wants(u)'
        BY <2>5, <2>6, <4>1, <4>2 DEF Freed
      <4>3. task[u].pc \in {"refused", "wait"} /\ ~Told(t, u) => Freed(t) # Wants(u)
        BY DEF Told
      <4>. QED
        BY <4>1, <4>2, <4>3 DEF Turned
    <3>. QED
      BY <3>1, <3>2
  <2>. QED
    BY <2>7, <2>8 DEF BudgetInv
<1>. QED
  BY <1>1, <1>3, <1>4, <1>5, <1>7, <1>8, <1>9, <1>10, <1>11, <1>12 DEF BudgetNext

(* At the start nothing is reserved and nobody waits. *)
LEMMA BudgetInitInv == BudgetInit => BudgetInv
<1>1. <<>> \in Seq(BudgetPools \X Nat)
  OBVIOUS
<1>. QED
  BY <1>1, SMTT(60) DEF BudgetInit, BudgetInv, BudgetTyped, Turned, Resting, Reservations, BudgetSteps

(* "A concurrent release can never be slept through" (write_budget.rs), for any
   number of tasks and jobs and any capacities. *)
THEOREM ReleasesAreSeen == BudgetSpec => []NoMissedRelease
<1>1. BudgetInv => NoMissedRelease
  BY DEF BudgetInv, Turned, NoMissedRelease
<1>. QED
  BY <1>1, BudgetInitInv, BudgetNextInv, PTL DEF BudgetSpec

-----------------------------------------------------------------------------
(* The progress cell. *)

(* The words of the cell; the publication a word belongs to is the latest one,
   or from the writer's position back the one under way. *)
Places == 1 .. 5
CellTyped ==
    /\ cell \in [Places -> Nat] /\ sequence \in Nat
    /\ writer \in [at : 0 .. 6, seq : Nat] /\ published \in 0 .. Len(Publications)
    /\ reader \in [at : 0 .. 6, seq : Nat, words : [Places -> Nat], found : BOOLEAN]

(* The sequence counts the publications twice, and is odd during one. *)
Counted ==
    /\ writer.at = 0 => sequence = 2 * published
    /\ writer.at > 0 => /\ sequence = 2 * published + 1 /\ writer.seq = sequence
                        /\ published < Len(Publications)
Stored ==
    \A i \in Places : /\ i >= writer.at \/ writer.at = 0 => cell[i] = Latest
                      /\ i < writer.at => cell[i] = Publications[published + 1]

(* A reader whose sequence has not moved has read the latest publication. *)
Loaded ==
    /\ reader.at > 0 => \E m \in 0 .. published : reader.seq = 2 * m
    /\ reader.at > 0 /\ sequence = reader.seq =>
          /\ Latest \in current
          /\ \A i \in Places : i < reader.at => reader.words[i] = Latest
    /\ reader.found => reader.at = 0 /\ \E record \in current : \A i \in Places : reader.words[i] = record

CellInv == CellTyped /\ Counted /\ Stored /\ Loaded

(* The cell has five words. *)
LEMMA WordsAre == DOMAIN Words = Places /\ Len(Words) + 1 = 6
  BY DEF Words, Places

(* The sequence is odd while a publication is written and even afterwards. *)
LEMMA OddIs == \A n \in Nat : OddSequence(2 * n) = 2 * n + 1 /\ (2 * n) % 2 = 0 /\ (2 * n + 1) % 2 = 1
  BY DEF OddSequence

(* The cell starts with nothing published. *)
LEMMA CellInitInv == CellInit => CellInv
  BY WordsAre, CellAssumption DEF CellInit, CellInv, CellTyped, Counted, Stored, Loaded, Blank, NotReading, Latest

(* Every step of the writer and of the reader keeps the invariant. *)
LEMMA CellNextInv == CellInv /\ [CellNext]_cellVars => CellInv'
<1>. SUFFICES ASSUME CellInv, [CellNext]_cellVars PROVE CellInv'
  OBVIOUS
<1>0. CellTyped /\ Counted /\ Stored /\ Loaded /\ Len(Publications) \in Nat
  BY CellAssumption DEF CellInv
<1>t. /\ writer.at \in 0 .. 6 /\ writer.seq \in Nat /\ sequence \in Nat /\ published \in Nat
      /\ published <= Len(Publications) /\ reader.at \in 0 .. 6 /\ reader.seq \in Nat
      /\ cell \in [Places -> Nat] /\ reader.words \in [Places -> Nat]
  BY <1>0 DEF CellTyped
<1>1. CASE BeginPublish
  <2>1. /\ writer.at = 0 /\ published < Len(Publications) /\ writer' = [at |-> 1, seq |-> sequence + 1]
        /\ sequence' = sequence + 1 /\ sequence = 2 * published /\ UNCHANGED <<cell, published, reader, reads, current>>
    BY <1>0, <1>1, OddIs DEF BeginPublish, Counted, CellTyped
  <2>2. CellTyped' /\ Counted' /\ writer'.at = 1
    BY <1>0, <2>1 DEF CellTyped, Counted
  <2>3. Stored'
    <3>1. \A k \in Places : cell[k] = Latest /\ ~(k < 1)
      BY <1>0, <2>1 DEF Stored, Places
    <3>. QED
      BY <2>1, <2>2, <3>1 DEF Stored, Latest
  <2>4. reader.at > 0 => sequence' # reader.seq
    BY <1>0, <2>1 DEF CellTyped, Loaded
  <2>5. Loaded'
    BY <1>0, <2>1, <2>4 DEF Loaded
  <2>. QED
    BY <2>2, <2>3, <2>5 DEF CellInv
<1>2. CASE StoreWord
  <2> DEFINE record == Publications[published + 1]
  <2>1. /\ writer.at \in Places /\ cell' = [cell EXCEPT ![writer.at] = record]
        /\ writer' = [writer EXCEPT !.at = writer.at + 1]
        /\ UNCHANGED <<sequence, published, reader, reads, current>>
    BY <1>2, WordsAre DEF StoreWord
  <2>2. published < Len(Publications) /\ sequence = 2 * published + 1 /\ writer.seq = sequence
    <3>1. writer.at > 0
      BY <2>1 DEF Places
    <3>. QED
      BY <1>0, <3>1 DEF Counted
  <2>3. record \in Nat
    <3>1. published + 1 \in 1 .. Len(Publications)
      BY <1>0, <1>t, <2>2
    <3>. QED
      BY <3>1, CellAssumption
  <2>. HIDE DEF record
  <2>4. writer' \in [at : 0 .. 6, seq : Nat] /\ writer'.at = writer.at + 1 /\ writer'.seq = writer.seq
    <3>1. writer.at + 1 \in 0 .. 6
      BY <2>1 DEF Places
    <3>2. writer \in [at : 0 .. 6, seq : Nat]
      BY <1>0 DEF CellTyped
    <3>. QED
      BY ONLY <2>1, <3>1, <3>2
  <2>5. cell' \in [Places -> Nat] /\ cell'[writer.at] = record /\ \A i \in Places : i # writer.at => cell'[i] = cell[i]
    BY <1>t, <2>1, <2>3
  <2>6. CellTyped' /\ Counted'
    BY <1>0, <1>t, <2>1, <2>2, <2>4, <2>5 DEF CellTyped, Counted
  <2>7. Stored'
    <3>1. ASSUME NEW i \in Places
          PROVE  (i >= writer.at + 1 => cell'[i] = Latest) /\ (i < writer.at + 1 => cell'[i] = record)
      BY <1>0, <2>1, <2>5 DEF Stored, Places, record
    <3>2. writer.at + 1 # 0
      BY <2>1 DEF Places
    <3>. QED
      BY <2>1, <2>4, <3>1, <3>2 DEF Stored, Latest, record
  <2>8. Loaded'
    BY <1>0, <2>1 DEF Loaded, Latest
  <2>. QED
    BY <2>6, <2>7, <2>8 DEF CellInv
<1>3. CASE EndPublish
  <2>1. /\ writer.at = 6 /\ sequence' = sequence + 1 /\ sequence = 2 * published + 1 /\ published < Len(Publications)
        /\ writer' = [writer EXCEPT !.at = 0] /\ published' = published + 1 /\ UNCHANGED <<cell, reader, reads>>
        /\ current \subseteq current' /\ (reader.at = 0 => current' = current)
    BY <1>0, <1>3, WordsAre DEF EndPublish, Counted, CellTyped
  <2>2. CellTyped' /\ Counted' /\ writer'.at = 0
    BY <1>0, <2>1 DEF CellTyped, Counted
  <2>3. Stored'
    <3>1. \A i \in Places : cell'[i] = Publications[published'] /\ ~(i < 0)
      BY <1>0, <2>1 DEF Stored, Places
    <3>2. Latest' = Publications[published']
      BY <1>t, <2>1 DEF Latest
    <3>. QED
      BY <2>2, <3>1, <3>2 DEF Stored
  <2>4. reader.at > 0 => sequence' # reader.seq
    BY <1>0, <2>1 DEF CellTyped, Loaded
  <2>5. reader.at > 0 => \E m \in 0 .. published' : reader.seq = 2 * m
    BY <1>0, <2>1 DEF CellTyped, Loaded
  <2>6. Loaded'
    BY <1>0, <2>1, <2>4, <2>5 DEF Loaded
  <2>. QED
    BY <2>2, <2>3, <2>6 DEF CellInv
<1>4. CASE LoadSequence
  <2>1. /\ reader.at = 0 /\ ~reader.found /\ reader' = [at |-> 1, seq |-> sequence, words |-> Blank, found |-> FALSE]
        /\ current' = {Latest} /\ UNCHANGED <<cell, sequence, writer, published, reads>>
    BY <1>4, Zenon DEF LoadSequence, NotReading
  <2>2. sequence = 2 * published
    BY <1>0, <1>4, OddIs DEF LoadSequence, CellTyped, Counted
  <2>3. Blank \in [Places -> Nat]
    BY WordsAre DEF Blank
  <2>4. CellTyped' /\ Counted' /\ Stored' /\ Latest' = Latest
    BY <1>0, <2>1, <2>3 DEF CellTyped, Counted, Stored, Latest
  <2>5. Loaded'
    <3>1. reader'.at = 1 /\ reader'.seq = sequence /\ reader'.found = FALSE
      BY <2>1
    <3>2. \E m \in 0 .. published' : sequence = 2 * m
      BY <1>t, <2>1, <2>2, SMTT(60)
    <3>3. \A i \in Places : ~(i < 1)
      BY DEF Places
    <3>. QED
      BY <2>1, <2>4, <3>1, <3>2, <3>3 DEF Loaded
  <2>. QED
    BY <2>4, <2>5 DEF CellInv
<1>5. CASE LoadWord
  <2>1. /\ reader.at \in Places /\ UNCHANGED <<cell, sequence, writer, published, reads, current>>
        /\ reader' = [reader EXCEPT !.words = [reader.words EXCEPT ![reader.at] = cell[reader.at]], !.at = reader.at + 1]
    BY <1>5, WordsAre DEF LoadWord
  <2>2. [reader.words EXCEPT ![reader.at] = cell[reader.at]] \in [Places -> Nat] /\ reader.at + 1 \in 0 .. 6
    <3>1. reader.at + 1 \in 0 .. 6
      BY <2>1 DEF Places
    <3>. QED
      BY <1>t, <2>1, <3>1
  <2>3. /\ reader'.at = reader.at + 1 /\ reader'.seq = reader.seq /\ reader'.found = reader.found
        /\ reader'.words = [reader.words EXCEPT ![reader.at] = cell[reader.at]]
        /\ CellTyped'
    BY <1>0, <2>1, <2>2, Zenon DEF CellTyped
  <2>4. Counted' /\ Stored' /\ Latest' = Latest
    BY <1>0, <2>1 DEF Counted, Stored, Latest
  <2>5. ~reader.found /\ reader.at > 0 /\ reader.at + 1 > 0
    BY <1>0, <2>1 DEF Loaded, Places
  <2>6. sequence = reader.seq => writer.at = 0
    <3>1. PICK m \in 0 .. published : reader.seq = 2 * m
      BY <1>0, <2>5 DEF Loaded
    <3>. QED
      BY <1>0, <1>t, <3>1 DEF Counted
  <2>7. ASSUME sequence = reader.seq
        PROVE  Latest \in current /\ \A i \in Places : i < reader.at + 1 => reader'.words[i] = Latest
    <3>1. Latest \in current /\ \A i \in Places : i < reader.at => reader.words[i] = Latest
      BY <1>0, <2>5, <2>7 DEF Loaded
    <3>2. cell[reader.at] = Latest
      BY <1>0, <2>1, <2>6, <2>7 DEF Stored
    <3>3. \A i \in Places : i < reader.at + 1 => i < reader.at \/ i = reader.at
      BY <2>1 DEF Places
    <3>4. \A i \in Places : reader'.words[i] = IF i = reader.at THEN cell[reader.at] ELSE reader.words[i]
      BY <1>t, <2>1, <2>3
    <3>. QED
      BY <3>1, <3>2, <3>3, <3>4
  <2>8. Loaded'
    BY <1>0, <2>1, <2>3, <2>4, <2>5, <2>7 DEF Loaded
  <2>. QED
    BY <2>3, <2>4, <2>8 DEF CellInv
<1>6. CASE Accept
  <2>1. /\ reader.at = 6 /\ sequence = reader.seq /\ UNCHANGED <<cell, sequence, writer, published, current>>
        /\ reader' = [reader EXCEPT !.at = 0, !.found = TRUE]
    BY <1>6, WordsAre DEF Accept, Unmoved
  <2>2. CellTyped' /\ reader'.at = 0 /\ reader'.words = reader.words
    <3>1. reader \in [at : 0 .. 6, seq : Nat, words : [Places -> Nat], found : BOOLEAN]
      BY <1>0 DEF CellTyped
    <3>2. /\ reader' \in [at : 0 .. 6, seq : Nat, words : [Places -> Nat], found : BOOLEAN]
          /\ reader'.at = 0 /\ reader'.words = reader.words
      <4>1. reader' = [at |-> 0, seq |-> reader.seq, words |-> reader.words, found |-> TRUE]
        BY <2>1, <3>1, Zenon
      <4>. QED
        BY <1>t, <4>1, SMTT(60)
    <3>. QED
      BY <1>0, <2>1, <3>2 DEF CellTyped
  <2>3. Counted' /\ Stored' /\ Latest' = Latest
    BY <1>0, <2>1 DEF Counted, Stored, Latest
  <2>4. Latest \in current /\ \A i \in Places : reader.words[i] = Latest
    BY <1>0, <2>1 DEF Loaded, Places
  <2>5. Loaded'
    <3>1. ~(reader'.at > 0)
      BY <2>2
    <3>. QED
      BY <2>1, <2>2, <2>4, <3>1 DEF Loaded
  <2>. QED
    BY <2>2, <2>3, <2>5 DEF CellInv
<1>7. CASE Retry \/ Consume
  <2>1. reader' = NotReading /\ UNCHANGED <<cell, sequence, writer, published, reads>>
    BY <1>7 DEF Retry, Consume
  <2>2. Blank \in [Places -> Nat]
    BY WordsAre DEF Blank
  <2>3. /\ reader'.at = 0 /\ ~reader'.found
        /\ reader' \in [at : 0 .. 6, seq : Nat, words : [Places -> Nat], found : BOOLEAN]
    BY <2>1, <2>2 DEF NotReading
  <2>4. CellTyped'
    BY <1>0, <2>1, <2>3, Zenon DEF CellTyped
  <2>5. Counted' /\ Stored'
    BY <1>0, <2>1, Zenon DEF Counted, Stored, Latest
  <2>6. Loaded'
    <3>1. ~(reader'.at > 0)
      BY <2>3
    <3>. QED
      BY <2>3, <3>1, Zenon DEF Loaded
  <2>. QED
    BY <2>4, <2>5, <2>6, Zenon DEF CellInv
<1>8. CASE UNCHANGED cellVars
  BY <1>0, <1>8, Zenon DEF cellVars, CellInv, CellTyped, Counted, Stored, Loaded, Latest
<1>. QED
  BY <1>1, <1>2, <1>3, <1>4, <1>5, <1>6, <1>7, <1>8 DEF CellNext

(* "lease id, generation and written-through offset always come from the same
   publication" (LeaseProgress::snapshot), for every sequence of publications
   and any number of reads. *)
THEOREM SnapshotsAreCoherent == CellSpec => []SnapshotCoherent
<1>1. CellInv => SnapshotCoherent
  BY WordsAre DEF CellInv, Loaded, SnapshotCoherent
<1>. QED
  BY <1>1, CellInitInv, CellNextInv, PTL DEF CellSpec

-----------------------------------------------------------------------------
(* The streams of events. *)


StreamType == [at : {"none", "next", "empty", "select", "ended"}, cursor : Nat, told : BOOLEAN,
               lost : BOOLEAN, crossed : BOOLEAN]

HubTyped ==
    /\ sentEvents \in Nat /\ lastOfRun \in Nat /\ lastOfRun <= sentEvents
    /\ terminal \in BOOLEAN /\ retained \in BOOLEAN
    /\ streams \in [Subscribers -> StreamType]

(* A stream that found the channel empty has seen everything that was sent
   before; one that has ended did so after the signal. *)
StreamKept(s) ==
    /\ streams[s].cursor <= sentEvents
    /\ streams[s].at = "empty" /\ ~streams[s].crossed => streams[s].cursor = sentEvents
    /\ streams[s].at = "ended" => terminal
    /\ streams[s].at = "ended" /\ ~streams[s].crossed => streams[s].cursor >= lastOfRun

HubInv ==
    /\ HubTyped
    /\ ~retained => terminal
    /\ \A s \in Subscribers : StreamKept(s)

(* One stream moves, the hub and the other streams stay. *)
LEMMA StreamMoves ==
    ASSUME HubInv, NEW s \in Subscribers, NEW r \in StreamType, Goes(s, r),
           r.cursor <= sentEvents,
           r.at = "empty" /\ ~r.crossed => r.cursor = sentEvents,
           r.at = "ended" => terminal,
           r.at = "ended" /\ ~r.crossed => r.cursor >= lastOfRun
    PROVE  HubInv'
<1>1. /\ streams' = [streams EXCEPT ![s] = r] /\ streams \in [Subscribers -> StreamType]
      /\ UNCHANGED <<sentEvents, lastOfRun, terminal, retained>>
  BY DEF Goes, HubInv, HubTyped
<1>2. HubTyped'
  BY <1>1 DEF HubInv, HubTyped
<1>3. ASSUME NEW t \in Subscribers PROVE StreamKept(t)'
  <2>1. CASE t = s
    BY <1>1, <2>1 DEF StreamKept
  <2>2. CASE t # s
    BY <1>1, <2>2 DEF StreamKept, HubInv
  <2>. QED
    BY <2>1, <2>2
<1>. QED
  BY <1>1, <1>2, <1>3 DEF HubInv

(* ReceiveEvent leaves the cursor within what was sent. *)
LEMMA ReceiveInv ==
    ASSUME HubInv, NEW s \in Subscribers, HasEvent(s), ReceiveEvent(s)
    PROVE  HubInv'
<1> DEFINE r == [streams[s] EXCEPT !.at = "next", !.lost = @ \/ Overtaken(s),
                               !.cursor = IF Overtaken(s) THEN sentEvents - Buffer ELSE @ + 1]
<1>1. streams[s] \in StreamType /\ sentEvents \in Nat /\ Buffer \in Nat
  BY BufferAssumption DEF HubInv, HubTyped
<1>2. streams[s].cursor < sentEvents
  BY DEF HasEvent
<1>3. (IF Overtaken(s) THEN sentEvents - Buffer ELSE streams[s].cursor + 1) \in 0 .. sentEvents
  BY <1>1, <1>2 DEF Overtaken, StreamType
<1>4. Overtaken(s) \in BOOLEAN
  BY DEF Overtaken
<1>5. r \in StreamType /\ r.at = "next" /\ r.cursor <= sentEvents
  <2>1. ASSUME NEW st \in StreamType, NEW c \in Nat, NEW l \in BOOLEAN
        PROVE  /\ [st EXCEPT !.at = "next", !.lost = l, !.cursor = c] \in StreamType
               /\ [st EXCEPT !.at = "next", !.lost = l, !.cursor = c].at = "next"
               /\ [st EXCEPT !.at = "next", !.lost = l, !.cursor = c].cursor = c
    BY Zenon DEF StreamType
  <2>2. PICK c \in 0 .. sentEvents : c = (IF Overtaken(s) THEN sentEvents - Buffer ELSE streams[s].cursor + 1)
    BY <1>3
  <2>3. c \in Nat /\ c <= sentEvents
    BY <1>1, <2>2
  <2>4. PICK l \in BOOLEAN : l = (streams[s].lost \/ Overtaken(s))
    BY <1>1, Zenon DEF StreamType
  <2>5. r = [streams[s] EXCEPT !.at = "next", !.lost = l, !.cursor = c]
    BY <2>2, <2>4, Zenon
  <2>6. /\ [streams[s] EXCEPT !.at = "next", !.lost = l, !.cursor = c] \in StreamType
        /\ [streams[s] EXCEPT !.at = "next", !.lost = l, !.cursor = c].at = "next"
        /\ [streams[s] EXCEPT !.at = "next", !.lost = l, !.cursor = c].cursor = c
    BY <1>1, <2>1, <2>3, <2>4, Zenon
  <2>. HIDE DEF r
  <2>. QED
    BY <2>3, <2>5, <2>6
<1>6. Goes(s, r)
  BY DEF ReceiveEvent
<1> HIDE DEF r
<1>. QED
  BY <1>5, <1>6, StreamMoves

(* Every step preserves the invariant. *)
LEMMA HubNextInv == ASSUME HubInv, [HubNext]_hubVars PROVE HubInv'
<1>0. /\ sentEvents \in Nat /\ lastOfRun \in Nat /\ lastOfRun <= sentEvents
      /\ streams \in [Subscribers -> StreamType]
      /\ \A s \in Subscribers : streams[s] \in StreamType /\ StreamKept(s)
  BY DEF HubInv, HubTyped
<1>1. CASE EmitEvent
  <2>1. /\ sentEvents' = sentEvents + 1 /\ UNCHANGED <<lastOfRun, terminal, retained>>
        /\ streams' = [s \in Subscribers |-> [streams[s] EXCEPT !.crossed = @ \/ streams[s].at = "empty"]]
    BY <1>1 DEF EmitEvent
  <2>2. ASSUME NEW s \in Subscribers
        PROVE  /\ streams'[s] \in StreamType /\ streams'[s].cursor = streams[s].cursor
               /\ streams'[s].at = streams[s].at
               /\ streams'[s].crossed = (streams[s].crossed \/ streams[s].at = "empty")
    BY <1>0, <2>1, Zenon DEF StreamType
  <2>3. HubTyped'
    <3>1. streams' \in [Subscribers -> StreamType]
      BY <2>1, <2>2, Zenon
    <3>2. terminal' \in BOOLEAN /\ retained' \in BOOLEAN
      BY <2>1, Zenon DEF HubInv, HubTyped
    <3>3. sentEvents' \in Nat /\ lastOfRun' \in Nat /\ lastOfRun' <= sentEvents'
      BY <1>0, <2>1
    <3>. QED
      BY <3>1, <3>2, <3>3, Zenon DEF HubTyped
  <2>4. ASSUME NEW s \in Subscribers PROVE StreamKept(s)'
    <3>1. streams'[s].at = streams[s].at /\ (~streams'[s].crossed => ~streams[s].crossed /\ streams[s].at # "empty")
      BY <2>2, Zenon
    <3>2. streams[s].at = "ended" => terminal /\ terminal'
      BY <1>0, <2>1, Zenon DEF StreamKept
    <3>3. streams[s].cursor \in Nat /\ streams'[s].cursor = streams[s].cursor
      BY <1>0, <2>2, Zenon DEF StreamType
    <3>4. /\ streams[s].cursor <= sentEvents
          /\ streams[s].at = "ended" /\ ~streams[s].crossed => streams[s].cursor >= lastOfRun
      BY <1>0, Zenon DEF StreamKept
    <3>. QED
      BY <1>0, <2>1, <3>1, <3>2, <3>3, <3>4 DEF StreamKept
  <2>. QED
    BY <2>1, <2>3, <2>4 DEF HubInv
<1>2. CASE Terminate
  <2>1. ~terminal /\ terminal' = TRUE /\ lastOfRun' = sentEvents /\ UNCHANGED <<sentEvents, retained, streams>>
    BY <1>2 DEF Terminate
  <2>2. ASSUME NEW s \in Subscribers PROVE StreamKept(s)'
    BY <1>0, <2>1 DEF StreamKept
  <2>3. HubTyped'
    BY <1>0, <2>1 DEF HubTyped, HubInv
  <2>. QED
    BY <2>1, <2>2, <2>3 DEF HubInv
<1>3. CASE DropHub
  BY <1>0, <1>3, Zenon DEF DropHub, HubInv, HubTyped, StreamKept
<1>4. CASE UNCHANGED hubVars
  BY <1>0, <1>4 DEF hubVars, HubInv, HubTyped, StreamKept
<1>5. ASSUME NEW s \in Subscribers, subscribe(s) PROVE HubInv'
  <2> DEFINE r == [NoStream EXCEPT !.at = "next", !.cursor = sentEvents, !.told = terminal]
  <2>1. Goes(s, r)
    BY <1>5 DEF subscribe, Goes
  <2>2. r \in StreamType /\ r.at = "next" /\ r.cursor = sentEvents
    BY <1>0, Zenon DEF StreamType, NoStream, HubInv, HubTyped
  <2>. HIDE DEF r
  <2>. QED
    BY <1>0, <2>1, <2>2, StreamMoves
<1>6. ASSUME NEW s \in Subscribers, NEW at \in {"next", "empty", "select", "ended"}, NEW told \in BOOLEAN,
             Goes(s, [streams[s] EXCEPT !.at = at, !.told = told]),
             at = "empty" => streams[s].cursor = sentEvents,
             at = "ended" => terminal /\ (~streams[s].crossed => streams[s].cursor = sentEvents)
      PROVE  HubInv'
  <2> DEFINE r == [streams[s] EXCEPT !.at = at, !.told = told]
  <2>1. r \in StreamType /\ r.at = at /\ r.cursor = streams[s].cursor /\ r.crossed = streams[s].crossed
    BY <1>0, Zenon DEF StreamType
  <2>2. r.cursor <= sentEvents
    BY <1>0, <2>1 DEF StreamKept
  <2>3. Goes(s, r)
    BY <1>6
  <2>. HIDE DEF r
  <2>. QED
    BY <1>0, <1>6, <2>1, <2>2, <2>3, StreamMoves
<1>7. ASSUME NEW s \in Subscribers, ~HasEvent(s) PROVE streams[s].cursor = sentEvents
  BY <1>0, <1>7 DEF HasEvent, StreamKept, StreamType
<1>8. \A s \in Subscribers : \A at : [streams[s] EXCEPT !.at = at] = [streams[s] EXCEPT !.at = at, !.told = streams[s].told]
  BY <1>0, Zenon DEF StreamType
<1>9. ASSUME NEW s \in Subscribers, TryRecv(s) PROVE HubInv'
  <2>1. CASE HasEvent(s) /\ ReceiveEvent(s)
    BY <2>1, ReceiveInv
  <2>2. CASE ~HasEvent(s) /\ Goes(s, [streams[s] EXCEPT !.at = IF retained THEN "empty" ELSE "ended"])
    <3>1. PICK at \in {"empty", "ended"} : at = (IF retained THEN "empty" ELSE "ended")
      OBVIOUS
    <3>2. at = "ended" => terminal
      BY <3>1 DEF HubInv
    <3>3. Goes(s, [streams[s] EXCEPT !.at = at, !.told = streams[s].told]) /\ streams[s].told \in BOOLEAN
      BY <1>0, <1>8, <2>2, <3>1, Zenon DEF StreamType
    <3>. QED
      BY <1>6, <1>7, <2>2, <3>2, <3>3, Zenon
  <2>. QED
    BY <1>9, <2>1, <2>2 DEF TryRecv
<1>10. ASSUME NEW s \in Subscribers, CheckTerminal(s) PROVE HubInv'
  <2>1. streams[s].at = "empty" /\ Goes(s, [streams[s] EXCEPT !.at = IF terminal THEN "ended" ELSE "select"])
    BY <1>10 DEF CheckTerminal
  <2>2. PICK at \in {"select", "ended"} : at = (IF terminal THEN "ended" ELSE "select")
    OBVIOUS
  <2>3. ~streams[s].crossed => streams[s].cursor = sentEvents
    BY <1>0, <2>1 DEF StreamKept
  <2>4. Goes(s, [streams[s] EXCEPT !.at = at, !.told = streams[s].told]) /\ streams[s].told \in BOOLEAN
    BY <1>0, <1>8, <2>1, <2>2, Zenon DEF StreamType
  <2>. QED
    BY <1>6, <2>2, <2>3, <2>4, Zenon
<1>11. ASSUME NEW s \in Subscribers, Awaken(s) PROVE HubInv'
  <2>1. CASE HasEvent(s) /\ ReceiveEvent(s)
    BY <2>1, ReceiveInv
  <2>2. CASE Goes(s, [streams[s] EXCEPT !.at = "next", !.told = TRUE])
    BY <1>6, <2>2, Zenon
  <2>3. CASE ~HasEvent(s) /\ ~retained /\ Goes(s, [streams[s] EXCEPT !.at = "ended"])
    <3>1. terminal
      BY <2>3 DEF HubInv
    <3>2. Goes(s, [streams[s] EXCEPT !.at = "ended", !.told = streams[s].told]) /\ streams[s].told \in BOOLEAN
      BY <1>0, <1>8, <2>3, Zenon DEF StreamType
    <3>. QED
      BY <1>6, <1>7, <2>3, <3>1, <3>2, Zenon
  <2>. QED
    BY <1>11, <2>1, <2>2, <2>3 DEF Awaken
<1>. QED
  BY <1>1, <1>2, <1>3, <1>4, <1>5, <1>9, <1>10, <1>11 DEF HubNext

(* Every event of the run reaches a stream that kept up (EventStream::next). *)
THEOREM FinalEventsAreKept == HubSpec => []FinalEventsKept
<1>1. HubInit => HubInv
  <2>. SUFFICES ASSUME HubInit PROVE HubInv
    OBVIOUS
  <2>1. NoStream \in StreamType /\ NoStream.at = "none" /\ NoStream.cursor = 0
    BY DEF NoStream, StreamType
  <2>2. ASSUME NEW s \in Subscribers PROVE streams[s] = NoStream /\ StreamKept(s)
    BY <2>1 DEF HubInit, StreamKept
  <2>3. HubTyped /\ (~retained => terminal)
    <3>1. streams \in [Subscribers -> StreamType]
      BY <2>1 DEF HubInit
    <3>2. sentEvents = 0 /\ lastOfRun = 0 /\ terminal = FALSE /\ retained = TRUE
      BY DEF HubInit
    <3>3. sentEvents \in Nat /\ lastOfRun \in Nat /\ lastOfRun <= sentEvents
      BY <3>2
    <3>. QED
      BY <3>1, <3>2, <3>3, Zenon DEF HubTyped
  <2>. QED
    BY <2>2, <2>3 DEF HubInv
<1>2. HubInv => FinalEventsKept
  BY DEF HubInv, StreamKept, FinalEventsKept
<1>. QED
  BY <1>1, <1>2, HubNextInv, PTL DEF HubSpec
=============================================================================
