------------------------------ MODULE Catalogue ------------------------------
(***************************************************************************)
(* Configured roots, the global settings and the creation of jobs under a  *)
(* root: registry.rs (add_root, enable_root, disable_root,                 *)
(* set_default_root, update_settings), behind api/roots.rs,                *)
(* api/settings.rs and create_job of api/jobs.rs.                          *)
(*                                                                         *)
(* Requests are handled concurrently, each statement of a handler is one   *)
(* transaction of its own.  A root is its canonical directory: the column  *)
(* is unique, and rows are never deleted.                                  *)
(*                                                                         *)
(* Paging through the jobs collection while jobs are created, updated and  *)
(* removed: registry.rs list_jobs_page behind api/jobs.rs list_jobs.  The  *)
(* order is newest update first, ties by id; the cursor is the last row of *)
(* the page.  The wall clock does not go back; several updates may fall    *)
(* into one millisecond.                                                   *)
(***************************************************************************)
EXTENDS Integers, FiniteSets, Sequences

CONSTANTS
    Dirs,           \* directories that exist
    Clients,        \* requests in flight at once
    RootJobs,       \* jobs
    Concurrencies,  \* values of active_concurrency that are sent
    PageJobs,       \* job ids, naturals: ids are compared in the cursor
    MaxMillis,      \* bound on the clock
    MaxPage         \* the requested limit

NoDir == 0

ASSUME CatalogueAssumption == NoDir \notin Dirs

(* The table holds finitely many rows; the clock and the limit are integers. *)
ASSUME PagesAssumption ==
    /\ IsFiniteSet(PageJobs) /\ PageJobs \subseteq Nat
    /\ MaxMillis \in Nat /\ MaxPage \in Nat

VARIABLES
    roots,          \* table roots
    defaultRoot,    \* settings.default_root_id
    saved,          \* settings.active_concurrency
    limit,          \* Actor.max_active
    rooted,         \* table jobs: the root of each job and whether it has ended
    requests,       \* the handlers in progress
    raced,          \* jobs created or retried while their root was being disabled, or after
    overlapped,     \* two settings requests were in flight together
    stamps,         \* updated_at of each row listed, 0 for none
    millis,         \* now_millis
    walk            \* one client's traversal of the pages

catalogueVars == <<roots, defaultRoot, saved, limit, rooted, requests, raced, overlapped>>

NoRoot == [known |-> FALSE, enabled |-> FALSE]
NoRequest == [at |-> "none", dir |-> NoDir, makeDefault |-> FALSE, job |-> 0, value |-> 0]
Request(at, dir) == [NoRequest EXCEPT !.at = at, !.dir = dir]

CatalogueInit ==
    /\ roots = [d \in Dirs |-> NoRoot]
    /\ defaultRoot = NoDir
    /\ saved = 3 /\ limit = 3
    /\ rooted = [j \in RootJobs |-> [root |-> NoDir, open |-> FALSE]]
    /\ requests = [c \in Clients |-> NoRequest]
    /\ raced = {} /\ overlapped = FALSE

Free(c) == requests[c] = NoRequest
Do(c, r) == requests' = [requests EXCEPT ![c] = r]
Done(c) == Do(c, NoRequest)
Pending(c, at) == requests[c].at = at
(* The default is recorded next, if the request asks for it. *)
ThenDefault(c) == IF requests[c].makeDefault THEN Do(c, [requests[c] EXCEPT !.at = "default"]) ELSE Done(c)

-----------------------------------------------------------------------------
(* Roots. *)

(* create_root, add_root: the directory is looked up before it is inserted. *)
AddRoot(c, d, makeDefault) ==
    /\ Free(c)
    /\ Do(c, [Request(IF roots[d].known THEN "found" ELSE "insert", d) EXCEPT !.makeDefault = makeDefault])
    /\ UNCHANGED <<roots, defaultRoot, saved, limit, rooted, raced, overlapped>>

FoundRoot(c) ==
    /\ Pending(c, "found")
    /\ ThenDefault(c)
    /\ UNCHANGED <<roots, defaultRoot, saved, limit, rooted, raced, overlapped>>

(* The insertion fails when another request was faster. *)
InsertRoot(c) ==
    /\ Pending(c, "insert")
    /\ LET d == requests[c].dir
       IN  IF roots[d].known THEN Done(c) /\ UNCHANGED roots
           ELSE /\ roots' = [roots EXCEPT ![d] = [known |-> TRUE, enabled |-> TRUE]]
                /\ ThenDefault(c)
    /\ UNCHANGED <<defaultRoot, saved, limit, rooted, raced, overlapped>>

set_default_root(c) ==
    /\ Pending(c, "default")
    /\ defaultRoot' = requests[c].dir
    /\ Done(c)
    /\ UNCHANGED <<roots, saved, limit, rooted, raced, overlapped>>

(* patch_root: enable, disable, make default, in this order. *)
EnableRoot(c, d, makeDefault) ==
    /\ Free(c) /\ roots[d].known
    /\ roots' = [roots EXCEPT ![d].enabled = TRUE]
    /\ Do(c, IF makeDefault THEN Request("default", d) ELSE NoRequest)
    /\ UNCHANGED <<defaultRoot, saved, limit, rooted, raced, overlapped>>

MakeDefault(c, d) ==
    /\ Free(c) /\ roots[d].known
    /\ Do(c, Request("default", d))
    /\ UNCHANGED <<roots, defaultRoot, saved, limit, rooted, raced, overlapped>>

InUse(d) == \E j \in RootJobs : rooted[j].root = d /\ rooted[j].open

(* Mutant of CountJobs: the default root is spared, any other disabled. *)
CountDefault(c, d, makeDefault) ==
    /\ Free(c) /\ roots[d].known
    /\ Do(c, IF d = defaultRoot THEN NoRequest
             ELSE [Request("disable", d) EXCEPT !.makeDefault = makeDefault])
    /\ UNCHANGED <<roots, defaultRoot, saved, limit, rooted, raced, overlapped>>

(* disable_root, first statement: refused while a job needs the root. *)
CountJobs(c, d, makeDefault) ==
    /\ Free(c) /\ roots[d].known
    /\ Do(c, IF InUse(d) THEN NoRequest
             ELSE [Request("disable", d) EXCEPT !.makeDefault = makeDefault])
    /\ UNCHANGED <<roots, defaultRoot, saved, limit, rooted, raced, overlapped>>

Busy(at, d) == {e \in Clients : Pending(e, at) /\ requests[e].dir = d}

Disable(c) ==
    /\ Pending(c, "disable")
    /\ LET d == requests[c].dir
       IN  /\ roots' = [roots EXCEPT ![d].enabled = FALSE]
           /\ raced' = raced \cup {requests[e].job : e \in Busy("create", d)}
    /\ Do(c, [requests[c] EXCEPT !.at = "clear"])
    /\ UNCHANGED <<defaultRoot, saved, limit, rooted, overlapped>>

ClearDefault(c) ==
    /\ Pending(c, "clear")
    /\ defaultRoot' = IF defaultRoot = requests[c].dir THEN NoDir ELSE defaultRoot
    /\ ThenDefault(c)
    /\ UNCHANGED <<roots, saved, limit, rooted, raced, overlapped>>

-----------------------------------------------------------------------------
(* Jobs. *)

(* create_job: the root must be enabled ... *)
CheckRoot(c, j, d) ==
    /\ Free(c) /\ rooted[j].root = NoDir
    /\ \A e \in Clients : requests[e].job # j
    /\ Do(c, IF roots[d].known /\ roots[d].enabled THEN [Request("create", d) EXCEPT !.job = j]
             ELSE NoRequest)
    /\ UNCHANGED <<roots, defaultRoot, saved, limit, rooted, raced, overlapped>>

(* ... and then the intent is inserted. *)
insert_job(c) ==
    /\ Pending(c, "create")
    /\ rooted' = [rooted EXCEPT ![requests[c].job] = [root |-> requests[c].dir, open |-> TRUE]]
    /\ raced' = IF Busy("disable", requests[c].dir) = {} THEN raced ELSE raced \cup {requests[c].job}
    /\ Done(c)
    /\ UNCHANGED <<roots, defaultRoot, saved, limit, overlapped>>

JobEnds(j) ==
    /\ rooted[j].open
    /\ rooted' = [rooted EXCEPT ![j].open = FALSE]
    /\ UNCHANGED <<roots, defaultRoot, saved, limit, requests, raced, overlapped>>

(* retry_job asks the supervisor, which does not look at the root until it
   launches the job: resolve_for_launch then fails, and the job with it. *)
RetryJob(j) ==
    /\ rooted[j].root # NoDir /\ ~rooted[j].open
    /\ rooted' = [rooted EXCEPT ![j].open = TRUE]
    /\ LET d == rooted[j].root
       IN  raced' = IF roots[d].enabled /\ Busy("disable", d) = {} THEN raced \ {j} ELSE raced \cup {j}
    /\ UNCHANGED <<roots, defaultRoot, saved, limit, requests, overlapped>>

-----------------------------------------------------------------------------
(* Settings. *)

(* put_settings, update_settings: zero is refused, an unknown root is. *)
UpdateSettings(c, n, d) ==
    /\ Free(c)
    /\ IF n = 0 \/ (d # NoDir /\ ~roots[d].known)
         THEN UNCHANGED <<saved, defaultRoot, requests, overlapped>>
         ELSE /\ saved' = n /\ defaultRoot' = d
              /\ Do(c, [NoRequest EXCEPT !.at = "apply", !.value = n])
              /\ overlapped' = (overlapped \/ \E e \in Clients : Pending(e, "apply"))
    /\ UNCHANGED <<roots, limit, rooted, raced>>

(* The supervisor's update_limits, once the settings are saved. *)
ApplyLimits(c) ==
    /\ Pending(c, "apply")
    /\ limit' = requests[c].value
    /\ Done(c)
    /\ UNCHANGED <<roots, defaultRoot, saved, rooted, raced, overlapped>>

CatalogueNext ==
    \E c \in Clients :
        \/ \E d \in Dirs, b \in BOOLEAN : AddRoot(c, d, b) \/ EnableRoot(c, d, b) \/ CountJobs(c, d, b)
        \/ \E d \in Dirs : MakeDefault(c, d)
        \/ FoundRoot(c) \/ InsertRoot(c) \/ set_default_root(c) \/ Disable(c) \/ ClearDefault(c)
        \/ \E j \in RootJobs, d \in Dirs : CheckRoot(c, j, d)
        \/ insert_job(c) \/ ApplyLimits(c)
        \/ \E n \in Concurrencies, d \in Dirs \cup {NoDir} : UpdateSettings(c, n, d)
        \/ \E j \in RootJobs : JobEnds(j) \/ RetryJob(j)

CatalogueSpec == CatalogueInit /\ [][CatalogueNext]_catalogueVars

-----------------------------------------------------------------------------
(* Pages. *)

pageVars == <<stamps, millis, walk>>

FromTop == [millis |-> -1, id |-> -1]         \* no cursor
NotBegun == [at |-> "new", cursor |-> FromTop, listed |-> <<>>, untouched |-> {}]
Rows == {j \in PageJobs : stamps[j] # 0}

PagesInit ==
    /\ stamps \in [PageJobs -> 0..1]
    /\ millis = 1
    /\ walk = NotBegun

(* A row is touched: whatever the traversal has not listed yet may move. *)
Touched(j) == walk' = [walk EXCEPT !.untouched = @ \ {j}]

(* insert_job and every update of a row stamp it with the present time. *)
StampRow(j, now) ==
    /\ now \in {millis, millis + 1} /\ now <= MaxMillis
    /\ stamps' = [stamps EXCEPT ![j] = now]
    /\ millis' = now
    /\ Touched(j)

remove_job_history(j) ==
    /\ j \in Rows
    /\ stamps' = [stamps EXCEPT ![j] = 0]
    /\ Touched(j)
    /\ UNCHANGED millis

(* Mutant of Behind: rows of the cursor's millisecond are taken as listed. *)
BehindEarlier(j, cursor) == cursor = FromTop \/ stamps[j] < cursor.millis

(* The rows after the cursor in the order of the page. *)
Behind(j, cursor) ==
    \/ cursor = FromTop
    \/ stamps[j] < cursor.millis
    \/ stamps[j] = cursor.millis /\ j < cursor.id

Precedes(a, b) == stamps[a] > stamps[b] \/ (stamps[a] = stamps[b] /\ a > b)

clamp(n) == IF n < 1 THEN 1 ELSE IF n > 200 THEN 200 ELSE n

(* ORDER BY ... LIMIT: the first n rows behind the cursor. *)
FirstRows(cursor, n) ==
    LET rows == {j \in Rows : Behind(j, cursor)}
        Rank(j) == Cardinality({k \in rows : Precedes(k, j)}) + 1
    IN  [i \in 1..(IF Cardinality(rows) < n THEN Cardinality(rows) ELSE n) |->
            CHOOSE j \in rows : Rank(j) = i]

(* One row more than the limit is read; if it is there, another page is. *)
list_jobs_page(size) ==
    LET n == clamp(size)
        rows == FirstRows(walk.cursor, n + 1)
        more == Len(rows) > n
        page == IF more THEN SubSeq(rows, 1, n) ELSE rows
        last == page[Len(page)]
    IN  /\ walk.at # "done"
        /\ walk' = [at |-> IF more THEN "paging" ELSE "done",
                    cursor |-> IF more THEN [millis |-> stamps[last], id |-> last] ELSE FromTop,
                    listed |-> walk.listed \o page,
                    untouched |-> IF walk.at = "new" THEN Rows ELSE walk.untouched]
        /\ UNCHANGED <<stamps, millis>>

PagesNext ==
    \/ \E j \in PageJobs, now \in 1..MaxMillis : StampRow(j, now)
    \/ \E j \in PageJobs : remove_job_history(j)
    \/ list_jobs_page(MaxPage)

PagesSpec == PagesInit /\ [][PagesNext]_pageVars

-----------------------------------------------------------------------------
(* Properties. *)

(* A root that a job still needs stays enabled (disable_root, create_job,
   patch_root): through any interleaving of requests, the only unfinished jobs
   under a disabled root are those created while it was being disabled and
   those retried since. *)
DisabledUnused ==
    \A j \in RootJobs : rooted[j].open /\ ~roots[rooted[j].root].enabled => j \in raced

(* The supervisor works with the settings that are stored (put_settings),
   when no settings request is in flight and none have overlapped. *)
LimitsApplied ==
    ~overlapped /\ (\A c \in Clients : ~Pending(c, "apply")) => limit = saved

(* Page boundaries are stable (list_jobs_page): a traversal lists no job
   twice, and when it is finished it has listed every job that nothing
   touched in the meantime, however the others moved, ties included. *)
PagesExact ==
    /\ \A i, k \in DOMAIN walk.listed : walk.listed[i] = walk.listed[k] => i = k
    /\ walk.at = "done" => walk.untouched \subseteq {walk.listed[i] : i \in DOMAIN walk.listed}
=============================================================================
