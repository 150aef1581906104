---------------------------- MODULE HttpExchange ----------------------------
(***************************************************************************)
(* One probe or one transfer of the HTTP layer, up to the response whose   *)
(* body may be read: crates/engine/src/http/{transport,redirect,probe,     *)
(* execution}.rs.  The exchange follows redirects one request at a time;   *)
(* a probe is a HEAD request and, when the policy asks for it, a ranged    *)
(* request that verifies the advertised range support.                     *)
(*                                                                         *)
(* A URL is its scheme, its host with the effective port, and its path.    *)
(* A server answers any request with any head of Heads: it may redirect,   *)
(* refuse, ignore the range, or misstate a length.  Headers the caller     *)
(* supplied are the names in CallerHeaders.                                *)
(***************************************************************************)
EXTENDS ResumeRules

CONSTANTS Urls,            \* the URLs a server may name
          Locations,       \* Location values: absolute, relative or unusable
          RedirectPolicies,\* records max_redirects, deny_downgrade, forward
          Jobs,            \* what is asked: kind, url, headers, sensitive, the probe's
                           \*   threshold and verify, the transfer's range and intent
          Lengths,         \* resource sizes a server may state
          Styles           \* which validators the server sends

VARIABLES ask,        \* the probe or transfer asked for
          policy,     \* RedirectPolicy
          token,      \* the job's cancellation token
          gen,        \* generation of the resource at the server
          tracker,    \* RedirectTracker of the current chain, and its URL
          step,       \* where the exchange is: "send", "wait" or "done"
          meta,       \* ProbeMetadata learnt so far
          result,     \* outcome: a failure, probe metadata or a body
          wire        \* requests sent so far

exchangeVars == <<ask, policy, token, gen, tracker, step, meta, result, wire>>

CredentialHeaders == {"authorization"}
CallerHeaders == CredentialHeaders \cup {"custom"}
(* What a caller asks for names headers of its own. *)
ASSUME ExchangeAssumption == \A j \in Jobs : j.headers \subseteq CallerHeaders

NoLocation == [form |-> "none"]
NoRange == [start |-> 0, end |-> 0, total |-> Absent, given |-> FALSE]
NoMeta == [known |-> FALSE]
Pending == [kind |-> "none"]

(***************************************************************************)
(* Redirects.                                                              *)
(***************************************************************************)
origin_of(u) == <<u.scheme, u.host>>

NoUrl == [scheme |-> "", host |-> "", path |-> ""]

(* A Location resolved against the URL that answered with it. *)
resolve_redirect(current, loc) ==
    CASE loc.form = "absolute" -> loc.url
      [] loc.form = "authority" -> [scheme |-> current.scheme, host |-> loc.host, path |-> loc.path]
      [] loc.form = "path" -> [current EXCEPT !.path = loc.path]
      [] loc.form = "invalid" -> NoUrl

is_redirect(status) == status = 302

(* The headers a request to target may carry out of those configured for the
   original URL. *)
scoped_request_headers(original, target, headers) ==
    IF origin_of(original) = origin_of(target) \/ policy.forward THEN headers
    ELSE IF ask.sensitive THEN {} ELSE headers \ CredentialHeaders

NewTracker(url, purpose, headers) ==
    [url |-> url, hops |-> 0, visited |-> {}, cross_origin_seen |-> FALSE,
     purpose |-> purpose, headers |-> headers]

Follow(t, target) == [action |-> "Follow", tracker |-> t, target |-> target]
Reject(t) == [action |-> "Reject", tracker |-> t, target |-> NoUrl]
Final(t) == [action |-> "Final", tracker |-> t, target |-> NoUrl]

(* A mutant: the strip follows the last hop and is not latched. *)
CrossedLastHop(t, target) ==
    [t EXCEPT !.cross_origin_seen = origin_of(t.url) # origin_of(target) /\ ~policy.forward]

Crossed(t, target) ==
    [t EXCEPT !.cross_origin_seen = @ \/ (origin_of(t.url) # origin_of(target) /\ ~policy.forward)]

Downgrades(from, to) == policy.deny_downgrade /\ from.scheme = "https" /\ to.scheme = "http"

TooMany(hops) == hops > policy.max_redirects

(* RedirectTracker::decide, in the order of its checks. *)
decide(t, head) ==
    LET target == resolve_redirect(t.url, head.location)
        counted == [t EXCEPT !.hops = @ + 1]
        seen == [counted EXCEPT !.visited = @ \cup {target}]
    IN  IF ~is_redirect(head.status) THEN Final(t)
        ELSE IF head.location = NoLocation \/ target = NoUrl THEN Reject(t)
        ELSE IF TooMany(counted.hops) THEN Reject(counted)
        ELSE IF target \in counted.visited THEN Reject(counted)
        ELSE IF Downgrades(t.url, target) THEN Reject(seen)
        ELSE Follow(Crossed(seen, target), target)

(***************************************************************************)
(* Requests and the heads that answer them.                                *)
(***************************************************************************)
supported(scheme) == scheme \in {"http", "https"}

(* The range a request of the current chain asks for. *)
RequestedRange ==
    CASE tracker.purpose = "validate" -> <<0, 0>>
      [] tracker.purpose = "get" /\ ask.kind = "range" -> ask.range
      [] OTHER -> <<>>

(* single_request: the headers it builds for one hop. *)
BuiltRequest ==
    [url |-> tracker.url,
     purpose |-> tracker.purpose,
     range |-> RequestedRange,
     if_range |-> IF tracker.purpose = "get" /\ RequestedRange # <<>>
                  THEN if_range_value(ask.expected) ELSE Absent,
     headers |-> IF tracker.cross_origin_seen
                 THEN IF ask.sensitive THEN {} ELSE tracker.headers \ CredentialHeaders
                 ELSE tracker.headers]

Heads ==
    [status : {302}, location : Locations \cup {NoLocation}, length : {Absent}, style : {"none"},
     accept_ranges : {FALSE}, content_range : {NoRange}]
    \cup [status : {401, 404, 503}, location : {NoLocation}, length : {Absent}, style : {"none"},
          accept_ranges : {FALSE}, content_range : {NoRange}]
    \cup [status : {200}, location : {NoLocation}, length : Lengths \cup {Absent}, style : Styles,
          accept_ranges : BOOLEAN, content_range : {NoRange}]
    \cup [status : {206}, location : {NoLocation}, length : {1}, style : Styles,
          accept_ranges : {TRUE},
          content_range : {NoRange} \cup
             [start : {0, 1}, end : {0, 1, 2}, total : Lengths \cup {Absent}, given : {TRUE}]]

(* ResponseMetadata::from_head. *)
total_size(head) == IF head.content_range.given THEN head.content_range.total ELSE head.length
ResponseMetadata(head) ==
    [status |-> head.status,
     start |-> head.content_range.start, end |-> head.content_range.end,
     total |-> total_size(head),
     validators |-> from_headers(head.style, gen, total_size(head))]

status_to_error(status) ==
    CASE status \in {404, 410} -> "NotFound"
      [] status = 401 -> "AuthenticationRequired"
      [] status = 403 -> "AuthorizationFailed"
      [] status = 407 -> "Proxy"
      [] status = 429 -> "RateLimited"
      [] status \in 500 .. 599 -> "Server"
      [] OTHER -> "Protocol"

(* The category in which a connect-phase error reaches the job. *)
reconstruct_error(category) ==
    IF category \in {"Proxy", "Tls", "Dns", "UnsupportedScheme", "InvalidUrl"}
    THEN category ELSE "Connection"

Failure(error) == [kind |-> "failure", error |-> error]

ExchangeInit ==
    /\ ask \in Jobs
    /\ policy \in RedirectPolicies
    /\ token = "live"
    /\ gen = 1
    /\ tracker = NewTracker(ask.url, IF ask.kind = "probe" THEN "head" ELSE "get", ask.headers)
    /\ step = "send"
    /\ meta = NoMeta
    /\ result = Pending
    /\ wire = {}

Finish(outcome) ==
    /\ step' = "done"
    /\ result' = outcome

(* The loop head of request_following_redirects, and single_request up to the
   point where it waits for a response head. *)
Send ==
    /\ step = "send"
    /\ UNCHANGED <<ask, policy, token, gen, tracker, meta>>
    /\ IF token = "cancelled" THEN Finish(Failure("Cancelled")) /\ UNCHANGED wire
       ELSE IF ~supported(tracker.url.scheme)
       THEN Finish(Failure("UnsupportedScheme")) /\ UNCHANGED wire
       ELSE /\ step' = "wait"
            /\ wire' = wire \cup {BuiltRequest}
            /\ UNCHANGED result

(* The wait for a head ends without one: a cancellation wins the select, the
   response-header timeout expires, or the connector or connection fails. *)
NoHead ==
    /\ step = "wait"
    /\ IF token = "cancelled" THEN Finish(Failure("Cancelled"))
       ELSE \/ Finish(Failure("ConnectTimeout"))
            \/ \E c \in {"Dns", "Tls", "ConnectTimeout"} : Finish(Failure(reconstruct_error(c)))
    /\ UNCHANGED <<ask, policy, token, gen, tracker, meta, wire>>

(* probe::interpret of the final HEAD response: Content-Length is the size,
   whatever the status. *)
interpret(head) ==
    [known |-> TRUE, final_url |-> tracker.url, status |-> head.status,
     total |-> head.length,
     validators |-> from_headers(head.style, gen, head.length),
     accept_ranges |-> head.accept_ranges, range_verified |-> FALSE,
     proof |-> NoRange]

Verifies(m) ==
    /\ m.total # Absent /\ m.total >= ask.threshold
    /\ m.accept_ranges /\ ask.verify /\ ~m.range_verified

(* The HEAD response is final: its metadata, then the validating request, in
   a chain of its own that starts at the final URL. *)
HeadAnswered(head) ==
    IF head.status \notin {200, 206}
    THEN Finish(Failure(status_to_error(head.status))) /\ UNCHANGED <<tracker, meta>>
    ELSE LET m == interpret(head) IN
         /\ meta' = m
         /\ IF Verifies(m)
            THEN /\ step' = "send"
                 /\ tracker' = NewTracker(m.final_url, "validate",
                                          scoped_request_headers(ask.url, m.final_url, ask.headers))
                 /\ UNCHANGED result
            ELSE Finish([kind |-> "probed"]) /\ UNCHANGED tracker

ProvesRanges(head) ==
    /\ head.status = 206
    /\ head.content_range.given
    /\ head.content_range.start = 0 /\ head.content_range.total # Absent

(* The validating response: the Content-Range total is trusted over HEAD's
   length, and an answer that proves nothing withdraws the advertisement. *)
ValidateAnswered(head) ==
    /\ meta' = IF ProvesRanges(head)
               THEN [meta EXCEPT !.range_verified = TRUE, !.total = head.content_range.total,
                                 !.proof = head.content_range]
               ELSE [meta EXCEPT !.accept_ranges = FALSE]
    /\ Finish([kind |-> "probed"])
    /\ UNCHANGED tracker

Delivered(start, end, total, head) ==
    [kind |-> "body", start |-> start, end |-> end, total |-> total,
     gen |-> gen, status |-> head.status, validators |-> ResponseMetadata(head).validators]

LastByte(head) == IF total_size(head) = Absent THEN Absent ELSE total_size(head) - 1

(* HttpTransport::transfer on the final response: status, then intent, all
   before a body is handed out. *)
GetAnswered(head) ==
    /\ UNCHANGED <<tracker, meta>>
    /\ LET response == ResponseMetadata(head)
           verdict == validate_range_response(ask.range[1], ask.range[2], response,
                                              ask.established, ask.expected)
       IN  IF head.status \notin {200, 206} THEN Finish(Failure(status_to_error(head.status)))
           ELSE IF ask.kind = "full"
           THEN Finish(Delivered(0, LastByte(head), response.total, head))
           ELSE IF head.status = 200 /\ ask.full_response = "ResourceChanged"
           THEN Finish(Failure("ResourceChanged"))
           ELSE IF head.status = 206 /\ ~head.content_range.given
           THEN Finish(Failure("InvalidRange"))
           ELSE IF verdict # "Ok" THEN Finish(Failure(into_error(verdict)))
           ELSE Finish(Delivered(ask.range[1],
                                 IF head.status = 200 THEN ask.range[2] ELSE response.end,
                                 IF response.total # Absent THEN response.total ELSE ask.established,
                                 head))

(* A response head arrives: a redirect decision, then its meaning. *)
Answer ==
    /\ step = "wait"
    /\ token # "cancelled"
    /\ \E head \in Heads :
         LET d == decide(tracker, head) IN
         CASE d.action = "Follow" ->
                /\ tracker' = [d.tracker EXCEPT !.url = d.target]
                /\ step' = "send"
                /\ UNCHANGED <<meta, result>>
           [] d.action = "Reject" ->
                /\ tracker' = d.tracker
                /\ Finish(Failure("Redirect"))
                /\ UNCHANGED meta
           [] d.action = "Final" ->
                CASE tracker.purpose = "head" -> HeadAnswered(head)
                  [] tracker.purpose = "validate" -> ValidateAnswered(head)
                  [] tracker.purpose = "get" -> GetAnswered(head)
    /\ UNCHANGED <<ask, policy, token, gen, wire>>

CancelJob ==
    /\ token = "live" /\ step # "done"
    /\ token' = "cancelled"
    /\ UNCHANGED <<ask, policy, gen, tracker, step, meta, result, wire>>

(* The resource is replaced at the server. *)
Replace ==
    /\ step = "send" /\ gen = 1
    /\ gen' = 2
    /\ UNCHANGED <<ask, policy, token, tracker, step, meta, result, wire>>

ExchangeNext == Send \/ NoHead \/ Answer \/ CancelJob \/ Replace
ExchangeSpec == ExchangeInit /\ [][ExchangeNext]_exchangeVars

-----------------------------------------------------------------------------
(* Origin credentials reach the origin they were configured for and no other,
   through any chain of hops and through the validating request that starts
   at the chain's end, unless forwarding was asked for; a request marked
   sensitive then carries no caller header at all. *)
CredentialsScoped ==
    \A r \in wire :
        ~policy.forward /\ origin_of(r.url) # origin_of(ask.url)
            => r.headers \subseteq IF ask.sensitive THEN {} ELSE CallerHeaders \ CredentialHeaders

=============================================================================
