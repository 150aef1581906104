----------------------------- MODULE MCNetwork -----------------------------
(* What a request goes through, for TLC: the rate limits, the worker count, the
   connector, the exchange up to its final response, and the credentials the
   workers share.  They share no state here: a behaviour exercises one of
   them, chosen initially, while the others stay in their first states. *)
EXTENDS RateLimit, AdaptiveConcurrency, Connections, HttpExchange, Credentials

CONSTANTS o1, o2, c1, c2
VARIABLE component

(* Two readers of one job, or of two. *)
MCSharing == {[w \in {"a", "b"} |-> "j1"],
              [w \in {"a", "b"} |-> IF w = "a" THEN "j1" ELSE "j2"]}
(* Either limit can be the one that binds. *)
MCLimits == {[total |-> t, perOrigin |-> n] : t \in {1, 2}, n \in {1}} \cup {[total |-> 2, perOrigin |-> 2]}

Url(s, h, p) == [scheme |-> s, host |-> h, path |-> p]
MCUrls == {Url("https", "a", "p"), Url("https", "a", "q"), Url("https", "b", "p"),
           Url("http", "b", "p"), Url("ftp", "a", "p")}
MCLocations ==
    {[form |-> "absolute", url |-> u] : u \in MCUrls}
    \cup {[form |-> "authority", host |-> "b", path |-> "q"],
          [form |-> "path", path |-> "q"], [form |-> "invalid"]}
MCPolicies ==
    {[max_redirects |-> 2, deny_downgrade |-> d, forward |-> f] : d \in BOOLEAN, f \in BOOLEAN}

NoExpectation == [etag |-> Absent, weak |-> FALSE, date |-> Absent, total |-> Absent]
Asked(kind, scheme, sensitive, verify, range, expected, established, full) ==
    [kind |-> kind, url |-> Url(scheme, "a", "p"), headers |-> CallerHeaders,
     sensitive |-> sensitive, threshold |-> 2, verify |-> verify, range |-> range,
     expected |-> expected, established |-> established, full_response |-> full]
(* Probes, a whole transfer, and the ranged transfers of a fresh job, a
   resumed one and a segment. *)
MCJobs ==
    {Asked("probe", s, m, v, <<0, 0>>, NoExpectation, Absent, "InvalidRange")
        : s \in {"http", "https"}, m \in BOOLEAN, v \in BOOLEAN}
    \cup {Asked("full", "https", FALSE, FALSE, <<0, 0>>, NoExpectation, Absent, "InvalidRange")}
    \cup {Asked("range", "https", FALSE, FALSE, r, from_headers(st, 1, 3), 3, f)
        : r \in {<<0, 1>>, <<1, 2>>}, st \in {"strong"},
          f \in {"InvalidRange", "ResourceChanged"}}

(* One first state for the components that a behaviour does not exercise. *)
Still ==
    /\ component # "rates" => /\ \A b \in Buckets \ {Engine} : limit[b] = 0
                              /\ jobOf = CHOOSE s \in Sharing : TRUE
    /\ component # "adaptive" => h2 /\ loop.step = "ended"
    /\ component # "connections" => /\ limits = CHOOSE l \in Limits : TRUE
                                    /\ proxy = "none" /\ preferH2
    /\ component # "exchange" => /\ ask = CHOOSE j \in Jobs : TRUE
                                 /\ policy = CHOOSE p \in RedirectPolicies : TRUE
    /\ component # "credentials" => accepted = {}

MCInit ==
    /\ component \in {"rates", "adaptive", "connections", "exchange", "credentials"}
    /\ RateInit /\ AdaptiveInit /\ ConnInit /\ ExchangeInit /\ CredentialInit /\ Still

MCNext ==
    /\ \/ component = "rates" /\ RateNext
       \/ component = "adaptive" /\ AdaptiveNext
       \/ component = "connections" /\ ConnNext
       \/ component = "exchange" /\ ExchangeNext
       \/ component = "credentials" /\ CredentialNext
    /\ component # "rates" => UNCHANGED rateVars
    /\ component # "adaptive" => UNCHANGED adaptiveVars
    /\ component # "connections" => UNCHANGED connVars
    /\ component # "exchange" => UNCHANGED exchangeVars
    /\ component # "credentials" => UNCHANGED credentialVars
    /\ UNCHANGED component

MCSpec == MCInit /\ [][MCNext]_<<rateVars, adaptiveVars, connVars, exchangeVars, credentialVars, component>>
=============================================================================
