--------------------------- MODULE TransferProofs ---------------------------
(* How the bytes of a job are asked for and read, proved for every number of
   clients, challenges, hops, connections and chunks: the answer to a challenge,
   the credentials that follow a redirect, the permits of connections and the
   reading of a body. *)
EXTENDS Credentials, HttpExchange, Connections, HttpBody, FiniteSetTheorems, TLAPS

USE SMTT(20), ZenonT(30)

-----------------------------------------------------------------------------
(* Answers to challenges. *)

CredentialSteps == {"ready", "request", "sent", "fatal"}
Attempts == [step : CredentialSteps, sent : Nat, provided : BOOLEAN, requests : Nat, attempts : Nat]

(* The second request of an attempt is sent after an answer was provided, and
   only then. *)
Requested(c) ==
    /\ client[c].requests <= 2
    /\ client[c].step \in {"request", "sent"} /\ ~client[c].provided => client[c].requests <= 1
    /\ client[c].step = "request" => client[c].requests <= 1
    /\ client[c].step = "request" /\ ~client[c].provided => client[c].requests = 0

(* The last challenge answered is the one remembered. *)
Remembered ==
    /\ log \in Seq(Challenges)
    /\ Len(log) > 0 => answered = log[Len(log)]

CredentialInv ==
    /\ headers \in Nat /\ stages_used \in Nat /\ client \in [Clients -> Attempts]
    /\ stages_used <= MAX_AUTH_STAGES
    /\ \A c \in Clients : Requested(c)
    /\ Remembered /\ AnswersShared

(* No client has asked for anything at the start. *)
LEMMA CredentialInitInv == CredentialInit => CredentialInv
<1>1. ASSUME CredentialInit PROVE log = <<>> /\ Len(log) = 0 /\ log \in Seq(Challenges)
  BY <1>1 DEF CredentialInit
<1>2. CredentialInit => Remembered /\ AnswersShared
  BY <1>1 DEF Remembered, AnswersShared
<1>. QED
  BY <1>2, CredentialAssumption DEF CredentialInit, CredentialInv, Attempts, CredentialSteps, Requested

(* A step of one client, which changes nothing but its own attempt. *)
LEMMA AttemptMoves ==
    ASSUME client \in [Clients -> Attempts], \A d \in Clients : Requested(d),
           NEW c \in Clients, NEW a \in Attempts, client' = [client EXCEPT ![c] = a],
           /\ a.requests <= 2
           /\ a.step \in {"request", "sent"} /\ ~a.provided => a.requests <= 1
           /\ a.step = "request" => a.requests <= 1
           /\ a.step = "request" /\ ~a.provided => a.requests = 0
    PROVE  client' \in [Clients -> Attempts] /\ \A d \in Clients : Requested(d)'
<1>1. client'[c] = a /\ \A d \in Clients : d # c => client'[d] = client[d]
  OBVIOUS
<1>2. Requested(c)'
  BY <1>1 DEF Requested
<1>3. \A d \in Clients : d # c => Requested(d)'
  BY <1>1 DEF Requested
<1>. QED
  BY <1>2, <1>3

(* Every step of a client and every refresh keeps the invariant. *)
LEMMA CredentialNextInv == CredentialInv /\ [CredentialNext]_credentialVars => CredentialInv'
<1>. SUFFICES ASSUME CredentialInv, [CredentialNext]_credentialVars PROVE CredentialInv'
  OBVIOUS
<1>0. /\ headers \in Nat /\ stages_used \in Nat /\ client \in [Clients -> Attempts]
      /\ stages_used <= MAX_AUTH_STAGES /\ (\A c \in Clients : Requested(c)) /\ Remembered /\ AnswersShared
  BY DEF CredentialInv
<1>a. ASSUME NEW c \in Clients
      PROVE  /\ client[c] \in Attempts /\ client[c].requests \in Nat /\ client[c].requests <= 2
             /\ client[c].attempts + 1 \in Nat
  BY <1>0 DEF Attempts, Requested
<1>k. ASSUME UNCHANGED <<headers, stages_used, answered, log>>, client' \in [Clients -> Attempts],
             \A d \in Clients : Requested(d)'
      PROVE  CredentialInv'
  BY <1>0, <1>k DEF CredentialInv, Remembered, AnswersShared
<1>s. ASSUME NEW c \in Clients, NEW outcome \in {"request", "fatal"}, Settled(c, outcome),
             client[c].step = "sent", ~client[c].provided \/ outcome = "fatal"
      PROVE  client' \in [Clients -> Attempts] /\ \A d \in Clients : Requested(d)'
  <2> DEFINE a == [client[c] EXCEPT !.step = outcome, !.provided = client[c].provided \/ outcome = "request"]
  <2>1. client' = [client EXCEPT ![c] = a]
    BY <1>s, Zenon DEF Settled
  <2>2. a \in Attempts /\ a.step = outcome /\ a.requests = client[c].requests
        /\ (a.provided <=> client[c].provided \/ outcome = "request")
    BY <1>a, Zenon DEF Attempts, CredentialSteps
  <2>3. a.requests <= 2 /\ (outcome = "request" => a.requests <= 1)
    BY <1>0, <1>a, <1>s, <2>2 DEF Requested
  <2>. HIDE DEF a
  <2>. QED
    BY <1>0, <1>s, <2>1, <2>2, <2>3, AttemptMoves, Zenon
<1>1. ASSUME NEW c \in Clients, BeginAttempt(c) PROVE CredentialInv'
  <2>1. client' = [client EXCEPT ![c] = [step |-> "request", sent |-> 0, provided |-> FALSE,
                                        requests |-> 0, attempts |-> client[c].attempts + 1]]
    BY <1>1 DEF BeginAttempt
  <2>2. [step |-> "request", sent |-> 0, provided |-> FALSE, requests |-> 0,
         attempts |-> client[c].attempts + 1] \in Attempts
    BY <1>a DEF Attempts, CredentialSteps
  <2>3. client' \in [Clients -> Attempts] /\ \A d \in Clients : Requested(d)'
    <3> DEFINE a == [step |-> "request", sent |-> 0, provided |-> FALSE, requests |-> 0,
                     attempts |-> client[c].attempts + 1]
    <3>1. a \in Attempts /\ a.requests = 0 /\ a.requests <= 2 /\ a.requests <= 1
      BY <2>2
    <3>. HIDE DEF a
    <3>. QED
      BY <1>0, <2>1, <3>1, AttemptMoves, Zenon DEF a
  <2>. QED
    BY <1>1, <1>k, <2>3 DEF BeginAttempt
<1>2. ASSUME NEW c \in Clients, SendRequest(c) PROVE CredentialInv'
  <2> DEFINE a == [client[c] EXCEPT !.step = "sent", !.sent = headers, !.requests = client[c].requests + 1]
  <2>1. client' = [client EXCEPT ![c] = a] /\ client[c].step = "request"
    BY <1>2, Zenon DEF SendRequest
  <2>2. /\ a \in Attempts /\ a.step = "sent" /\ a.requests = client[c].requests + 1
        /\ a.provided = client[c].provided
    <3>1. client[c] \in Attempts /\ client[c].requests + 1 \in Nat
      BY <1>a
    <3>. QED
      BY ONLY <1>0, <3>1, Zenon DEF Attempts, CredentialSteps
  <2>3. a.requests <= 2 /\ (~a.provided => a.requests <= 1)
    BY <1>0, <1>a, <2>1, <2>2 DEF Requested
  <2>. HIDE DEF a
  <2>4. client' \in [Clients -> Attempts] /\ \A d \in Clients : Requested(d)'
    BY <1>0, <2>1, <2>2, <2>3, AttemptMoves, Zenon
  <2>. QED
    BY <1>2, <1>k, <2>4 DEF SendRequest
<1>3. ASSUME NEW c \in Clients, Accepted(c) PROVE CredentialInv'
  <2>1. client' = [client EXCEPT ![c] = [client[c] EXCEPT !.step = "ready"]]
    BY <1>3 DEF Accepted
  <2>2. /\ [client[c] EXCEPT !.step = "ready"] \in Attempts
        /\ [client[c] EXCEPT !.step = "ready"].requests <= 2 /\ [client[c] EXCEPT !.step = "ready"].step = "ready"
    BY <1>a DEF Attempts, CredentialSteps
  <2>3. client' \in [Clients -> Attempts] /\ \A d \in Clients : Requested(d)'
    BY <1>0, <2>1, <2>2, AttemptMoves, Zenon
  <2>. QED
    BY <1>3, <1>k, <2>3 DEF Accepted
<1>4. ASSUME NEW c \in Clients, Challenged(c) PROVE CredentialInv'
  <2>1. PICK challenge \in Challenges :
          IF client[c].provided
          THEN Settled(c, "fatal") /\ UNCHANGED <<headers, stages_used, answered, log>>
          ELSE provide(c, challenge)
    BY <1>4, Zenon DEF Challenged
  <2>2. client[c].step = "sent"
    BY <1>4, Zenon DEF Challenged
  <2>3. CASE Settled(c, "fatal") /\ UNCHANGED <<headers, stages_used, answered, log>>
    BY <1>k, <1>s, <2>2, <2>3, Zenon
  <2>4. CASE ~client[c].provided /\ Settled(c, "request") /\ UNCHANGED <<headers, stages_used, answered, log>>
    BY <1>k, <1>s, <2>2, <2>4
  <2>5. CASE /\ ~client[c].provided /\ ~AlreadyAnswered(challenge) /\ MayConsult
             /\ stages_used' = stages_used + 1
             /\ headers' = headers + 1 /\ answered' = challenge /\ log' = Append(log, challenge)
             /\ Settled(c, "request")
    <3>1. client' \in [Clients -> Attempts] /\ \A d \in Clients : Requested(d)'
      BY <1>s, <2>2, <2>5
    <3>2. Remembered' /\ AnswersShared'
      <4>1. log \in Seq(Challenges) /\ Len(log) \in Nat
        BY <1>0 DEF Remembered
      <4>2. log' \in Seq(Challenges) /\ Len(log') = Len(log) + 1 /\ log'[Len(log) + 1] = challenge
            /\ \A i \in 1 .. Len(log) : log'[i] = log[i]
        BY <2>5, <4>1
      <4>3. Len(log) > 0 => log[Len(log)] # challenge
        BY <1>0, <2>5 DEF Remembered, AlreadyAnswered
      <4>4. ASSUME NEW i \in 1 .. Len(log') - 1 PROVE log'[i] # log'[i + 1]
        <5>1. CASE i = Len(log)
          BY <4>1, <4>2, <4>3, <5>1
        <5>2. CASE i # Len(log)
          <6>1. i \in 1 .. Len(log) - 1 /\ i \in 1 .. Len(log) /\ i + 1 \in 1 .. Len(log)
            BY <4>1, <4>2, <5>2
          <6>. QED
            BY <1>0, <4>2, <6>1 DEF AnswersShared
        <5>. QED
          BY <5>1, <5>2
      <4>. QED
        BY <2>5, <4>2, <4>4 DEF Remembered, AnswersShared
    <3>. QED
      BY <1>0, <2>5, <3>1, <3>2, CredentialAssumption DEF CredentialInv, MayConsult
  <2>6. CASE /\ ~client[c].provided /\ MayConsult /\ stages_used' = stages_used + 1
             /\ Settled(c, "fatal") /\ UNCHANGED <<headers, answered, log>>
    <3>1. client' \in [Clients -> Attempts] /\ \A d \in Clients : Requested(d)'
      BY <1>s, <2>2, <2>6
    <3>2. Remembered' /\ AnswersShared'
      BY <1>0, <2>6 DEF Remembered, AnswersShared
    <3>. QED
      BY <1>0, <2>6, <3>1, <3>2, CredentialAssumption DEF CredentialInv, MayConsult
  <2>. QED
    BY <2>1, <2>3, <2>4, <2>5, <2>6 DEF provide
<1>5. CASE UNCHANGED credentialVars
  BY <1>5 DEF credentialVars, CredentialInv, Requested, Remembered, AnswersShared
<1>. QED
  BY <1>1, <1>2, <1>3, <1>4, <1>5 DEF CredentialNext

(* However many workers are challenged and whatever the server accepts, a job
   consults its provider at most MAX_AUTH_STAGES times and an attempt sends at
   most two requests (SharedCredentials::provide). *)
THEOREM AuthenticationIsBounded == CredentialSpec => []AuthenticationBounded
<1>1. CredentialInv => AuthenticationBounded
  BY DEF CredentialInv, Requested, AuthenticationBounded
<1>. QED
  BY <1>1, CredentialInitInv, CredentialNextInv, PTL DEF CredentialSpec

(* The provider never answers the same challenge twice in a row. *)
THEOREM AnswersAreShared == CredentialSpec => []AnswersShared
<1>1. CredentialInv => AnswersShared
  BY DEF CredentialInv
<1>. QED
  BY <1>1, CredentialInitInv, CredentialNextInv, PTL DEF CredentialSpec

-----------------------------------------------------------------------------
(* Credentials and redirects. *)

(* What may go to another origin than the one the credentials are for. *)
Permitted == IF ask.sensitive THEN {} ELSE CallerHeaders \ CredentialHeaders
Tracker(url, hops, visited, seen, purpose, carried) ==
    [url |-> url, hops |-> hops, visited |-> visited, cross_origin_seen |-> seen,
     purpose |-> purpose, headers |-> carried]

Purposes == {"head", "validate", "get"}

(* A chain that has not been seen to leave the origin is still there, or it
   began elsewhere and carries nothing that must stay. *)
Guarded(url, seen, carried) ==
    /\ carried \subseteq CallerHeaders
    /\ ~policy.forward => \/ seen
                          \/ origin_of(url) = origin_of(ask.url)
                          \/ carried \subseteq Permitted

ExchangeInv ==
    /\ ask.headers \subseteq CallerHeaders
    /\ \E url, hops, visited, seen, purpose, carried :
          /\ tracker = Tracker(url, hops, visited, seen, purpose, carried) /\ purpose \in Purposes
          /\ Guarded(url, seen, carried)
    /\ CredentialsScoped

(* The first request goes where the caller asked for. *)
LEMMA ExchangeInitInv == ExchangeInit => ExchangeInv
<1>. SUFFICES ASSUME ExchangeInit PROVE ExchangeInv
  OBVIOUS
<1>1. ask.headers \subseteq CallerHeaders
  BY ExchangeAssumption DEF ExchangeInit
<1>2. PICK purpose \in Purposes : tracker = Tracker(ask.url, 0, {}, FALSE, purpose, ask.headers)
  BY Zenon DEF ExchangeInit, NewTracker, Tracker, Purposes
<1>3. Guarded(ask.url, FALSE, ask.headers)
  BY <1>1, Zenon DEF Guarded
<1>4. CredentialsScoped
  BY DEF ExchangeInit, CredentialsScoped
<1>. QED
  BY <1>1, <1>2, <1>3, <1>4, Zenon DEF ExchangeInv

(* A redirect that is followed keeps the chain guarded. *)
LEMMA FollowGuarded ==
    ASSUME NEW url, NEW hops, NEW visited, NEW seen, NEW purpose, NEW carried, NEW head,
           Guarded(url, seen, carried),
           NEW d, d = decide(Tracker(url, hops, visited, seen, purpose, carried), head), d.action # "Final"
    PROVE  d.action = "Follow" => \E h, v, s :
                 /\ [d.tracker EXCEPT !.url = d.target] = Tracker(d.target, h, v, s, purpose, carried)
                 /\ Guarded(d.target, s, carried)
<1> DEFINE t == Tracker(url, hops, visited, seen, purpose, carried)
           target == resolve_redirect(url, head.location)
           counted == Tracker(url, hops + 1, visited, seen, purpose, carried)
           met == Tracker(url, hops + 1, visited \cup {target}, seen, purpose, carried)
           s == seen \/ (origin_of(url) # origin_of(target) /\ ~policy.forward)
<1>1. [t EXCEPT !.hops = t.hops + 1] = counted /\ t.url = url
  BY DEF Tracker
<1>2. [counted EXCEPT !.visited = counted.visited \cup {target}] = met
  BY DEF Tracker
<1>3. Crossed(met, target) = Tracker(url, hops + 1, visited \cup {target}, s, purpose, carried)
  BY DEF Tracker, Crossed
<1>4. [Crossed(met, target) EXCEPT !.url = target] = Tracker(target, hops + 1, visited \cup {target}, s, purpose, carried)
  BY <1>3 DEF Tracker
<1>5. Guarded(target, s, carried)
  BY DEF Guarded
<1>6. \/ decide(t, head) = Final(t)
      \/ decide(t, head) = Reject(t)
      \/ decide(t, head) = Reject(counted)
      \/ decide(t, head) = Reject(met)
      \/ decide(t, head) = Follow(Crossed(met, target), target)
  BY <1>1, <1>2, Zenon DEF decide
<1>7. d.action = "Follow" => d.target = target /\ d.tracker = Crossed(met, target)
  BY <1>6 DEF Final, Reject, Follow
<1>8. ASSUME d.action = "Follow"
      PROVE  /\ [d.tracker EXCEPT !.url = d.target] = Tracker(d.target, hops + 1, visited \cup {target}, s, purpose, carried)
             /\ Guarded(d.target, s, carried)
  BY <1>4, <1>5, <1>7, <1>8, Zenon
<1>. HIDE DEF target, s
<1>. QED
  BY <1>8, Zenon

(* A redirect that is refused leaves the chain where it was: only the count of hops and the targets met change. *)
LEMMA RejectKeeps ==
    ASSUME NEW url, NEW hops, NEW visited, NEW seen, NEW purpose, NEW carried, NEW head,
           decide(Tracker(url, hops, visited, seen, purpose, carried), head).action = "Reject"
    PROVE  \E h, v : decide(Tracker(url, hops, visited, seen, purpose, carried), head).tracker
                         = Tracker(url, h, v, seen, purpose, carried)
<1> DEFINE t == Tracker(url, hops, visited, seen, purpose, carried)
           target == resolve_redirect(url, head.location)
           counted == Tracker(url, hops + 1, visited, seen, purpose, carried)
           met == Tracker(url, hops + 1, visited \cup {target}, seen, purpose, carried)
<1>1. [t EXCEPT !.hops = t.hops + 1] = counted /\ t.url = url
  BY DEF Tracker
<1>2. [counted EXCEPT !.visited = counted.visited \cup {target}] = met
  BY DEF Tracker
<1>3. \/ decide(t, head) = Final(t)
      \/ decide(t, head) = Reject(t)
      \/ decide(t, head) = Reject(counted)
      \/ decide(t, head) = Reject(met)
      \/ decide(t, head) = Follow(Crossed(met, target), target)
  BY <1>1, <1>2, Zenon DEF decide
<1>4. decide(t, head).tracker \in {t, counted, met}
  BY <1>3 DEF Final, Reject, Follow
<1>. QED
  BY <1>4

(* Every hop and every restart of the chain keeps the invariant. *)
LEMMA ExchangeNextInv == ExchangeInv /\ [ExchangeNext]_exchangeVars => ExchangeInv'
<1>. SUFFICES ASSUME ExchangeInv, [ExchangeNext]_exchangeVars PROVE ExchangeInv'
  OBVIOUS
<1>1. ask.headers \subseteq CallerHeaders /\ CredentialsScoped
  BY Zenon DEF ExchangeInv
<1>2. PICK url, hops, visited, seen, purpose, carried :
          /\ tracker = Tracker(url, hops, visited, seen, purpose, carried) /\ purpose \in Purposes
          /\ Guarded(url, seen, carried)
  BY Zenon DEF ExchangeInv
<1>3. /\ tracker.url = url /\ tracker.cross_origin_seen = seen /\ tracker.headers = carried
      /\ tracker.purpose = purpose
  BY <1>2 DEF Tracker
(* The chain goes on, or another begins. *)
<1>4. ASSUME UNCHANGED <<ask, policy, wire>>,
             NEW u, NEW h, NEW v, NEW s, NEW p \in Purposes, NEW hd, tracker' = Tracker(u, h, v, s, p, hd), Guarded(u, s, hd)
      PROVE  ExchangeInv'
  <2>1. Guarded(u, s, hd)'
    BY <1>4 DEF Guarded, Permitted
  <2>2. ask'.headers \subseteq CallerHeaders /\ CredentialsScoped'
    BY <1>1, <1>4 DEF CredentialsScoped
  <2>. QED
    BY <1>4, <2>1, <2>2, Zenon DEF ExchangeInv
<1>5. CASE UNCHANGED <<ask, policy, wire, tracker>>
  BY <1>2, <1>4, <1>5
<1>6. CASE Send
  <2>1. UNCHANGED <<ask, policy, tracker>>
    BY <1>6 DEF Send
  <2>2. CASE wire' = wire
    BY <1>5, <2>1, <2>2
  <2>3. CASE wire' = wire \cup {BuiltRequest}
    <3>1. /\ BuiltRequest.url = url
          /\ BuiltRequest.headers = IF seen THEN IF ask.sensitive THEN {} ELSE carried \ CredentialHeaders
                                    ELSE carried
      BY <1>3, Zenon DEF BuiltRequest
    <3>2. ~policy.forward /\ origin_of(url) # origin_of(ask.url) => BuiltRequest.headers \subseteq Permitted
      BY <1>2, <3>1, Zenon DEF Guarded, Permitted
    <3>3. CredentialsScoped'
      BY <1>1, <2>1, <2>3, <3>1, <3>2 DEF CredentialsScoped, Permitted
    <3>4. Guarded(url, seen, carried)'
      BY <1>2, <2>1 DEF Guarded, Permitted
    <3>. QED
      BY <1>1, <1>2, <2>1, <3>3, <3>4, Zenon DEF ExchangeInv
  <2>. QED
    BY <1>6, <2>2, <2>3 DEF Send
<1>7. CASE Answer
  <2>1. PICK head \in Heads :
         LET d == decide(tracker, head) IN
         CASE d.action = "Follow" ->
                /\ tracker' = [d.tracker EXCEPT !.url = d.target]
                /\ step' = "send"
                /\ UNCHANGED <<meta, result>>
           [] d.action = "Reject" ->
                /\ tracker' = d.tracker
                /\ Finish(Failure("Redirect"))
                /\ UNCHANGED meta
           [] d.action = "Final" ->
                CASE tracker.purpose = "head" -> HeadAnswered(head)
                  [] tracker.purpose = "validate" -> ValidateAnswered(head)
                  [] tracker.purpose = "get" -> GetAnswered(head)
    BY <1>7, Zenon DEF Answer
  <2>2. UNCHANGED <<ask, policy, wire>>
    BY <1>7 DEF Answer
  <2> DEFINE d == decide(tracker, head)
  <2>3. d.action \in {"Follow", "Reject", "Final"} /\ d = decide(Tracker(url, hops, visited, seen, purpose, carried), head)
    BY <1>2 DEF decide, Follow, Reject, Final
  <2>4. CASE d.action = "Follow"
    <3>1. tracker' = [d.tracker EXCEPT !.url = d.target]
      BY <2>1, <2>4
    <3>. HIDE DEF d
    <3>2. PICK h, v, s : tracker' = Tracker(d.target, h, v, s, purpose, carried) /\ Guarded(d.target, s, carried)
      BY <1>2, <2>3, <2>4, <3>1, FollowGuarded
    <3>. QED
      BY <1>2, <1>4, <2>2, <3>2
  <2>5. CASE d.action = "Reject"
    <3>1. tracker' = d.tracker
      BY <2>1, <2>5
    <3>. HIDE DEF d
    <3>2. PICK h, v : tracker' = Tracker(url, h, v, seen, purpose, carried)
      BY <2>3, <2>5, <3>1, RejectKeeps
    <3>. QED
      BY <1>2, <1>4, <2>2, <3>2
  <2>6. CASE d.action = "Final"
    <3>1. \/ HeadAnswered(head) \/ ValidateAnswered(head) \/ GetAnswered(head)
      BY <1>2, <1>3, <2>1, <2>6, Zenon DEF Purposes
    <3>2. CASE HeadAnswered(head)
      <4>1. CASE tracker' = tracker
        BY <1>2, <1>4, <2>2, <4>1
      <4>2. CASE tracker' = NewTracker(url, "validate", scoped_request_headers(ask.url, url, ask.headers))
        <5>1. tracker' = Tracker(url, 0, {}, FALSE, "validate", scoped_request_headers(ask.url, url, ask.headers))
          BY <4>2, Zenon DEF NewTracker, Tracker
        <5>2. Guarded(url, FALSE, scoped_request_headers(ask.url, url, ask.headers))
          BY <1>1, Zenon DEF Guarded, scoped_request_headers, Permitted, CallerHeaders
        <5>. QED
          BY <1>4, <2>2, <5>1, <5>2, Zenon DEF Purposes
      <4>. QED
        BY <1>3, <3>2, <4>1, <4>2, Zenon DEF HeadAnswered, interpret
    <3>3. CASE ValidateAnswered(head) \/ GetAnswered(head)
      <4>1. tracker' = tracker
        BY <3>3 DEF ValidateAnswered, GetAnswered
      <4>. QED
        BY <1>2, <1>4, <2>2, <4>1
    <3>. QED
      BY <3>1, <3>2, <3>3
  <2>. QED
    BY <2>3, <2>4, <2>5, <2>6
<1>8. CASE NoHead \/ CancelJob \/ Replace \/ UNCHANGED exchangeVars
  BY <1>5, <1>8 DEF NoHead, CancelJob, Replace, exchangeVars
<1>. QED
  BY <1>6, <1>7, <1>8 DEF ExchangeNext

(* Origin credentials reach no other origin, whatever servers name in their
   redirects and through the validating request of a probe (decide,
   scoped_request_headers), for any number of hops. *)
THEOREM CredentialsAreScoped == ExchangeSpec => []CredentialsScoped
<1>1. ExchangeInv => CredentialsScoped
  BY Zenon DEF ExchangeInv
<1>. QED
  BY <1>1, ExchangeInitInv, ExchangeNextInv, PTL DEF ExchangeSpec

-----------------------------------------------------------------------------
(* Connections and their permits. *)


Stages == {"resolve", "checkAddress", "checkProxy", "tcp", "tunnel", "socks", "tls"}
OriginSteps == {"dialing", "open", "idle"}
GlobalSteps == {"wantOrigin"} \cup OriginSteps
ConnSteps == {"fresh", "wantGlobal", "ended"} \cup GlobalSteps
ConnType ==
    [step : ConnSteps, origin : OriginNames \cup {""}, scheme : Schemes \cup {""}, plan : Seq(Stages),
     accepted : SUBSET {"host", "address", "proxy"}, addresses : Nat,
     socket : {"none", "address", "proxy"}, tls : BOOLEAN, h2 : BOOLEAN]

ConnInv ==
    /\ limits \in Limits /\ proxy \in Policies /\ preferH2 \in BOOLEAN
    /\ conn \in [Conns -> ConnType]
    /\ LimitsHeld /\ IngressMetered

(* The sets that the limits count. *)
LEMMA HeldFinite ==
    ASSUME conn \in [Conns -> ConnType]
    PROVE  /\ IsFiniteSet(GlobalHeld) /\ Cardinality(GlobalHeld) \in Nat
           /\ \A o : IsFiniteSet(OriginHeld(o)) /\ Cardinality(OriginHeld(o)) \in Nat
           /\ IsFiniteSet({c \in Conns : HoldsOrigin(c)})
           /\ Cardinality({c \in Conns : HoldsOrigin(c)}) \in Nat
<1>1. IsFiniteSet(Conns)
  BY ConnectionsAssumption
<1>2. ASSUME NEW S \in SUBSET Conns PROVE IsFiniteSet(S) /\ Cardinality(S) \in Nat
  BY <1>1, FS_Subset, FS_CardinalityType
<1>3. /\ GlobalHeld \in SUBSET Conns /\ {c \in Conns : HoldsOrigin(c)} \in SUBSET Conns
      /\ \A o : OriginHeld(o) \in SUBSET Conns
  BY DEF GlobalHeld, OriginHeld
<1>. QED
  BY <1>2, <1>3

(* A set that loses elements, or gains one, keeps within a limit. *)
LEMMA CountMoves ==
    ASSUME NEW S, NEW T, NEW x, IsFiniteSet(S), NEW n \in Nat, Cardinality(S) <= n,
           T \subseteq S \cup {x}, x \in T => x \in S \/ Cardinality(S) < n
    PROVE  Cardinality(T) <= n
<1>1. CASE x \in T /\ x \notin S
  <2>1. IsFiniteSet(S \cup {x}) /\ Cardinality(S \cup {x}) = Cardinality(S) + 1
    BY <1>1, FS_AddElement
  <2>2. Cardinality(T) <= Cardinality(S \cup {x}) /\ IsFiniteSet(T)
    BY <2>1, FS_Subset
  <2>3. Cardinality(S) \in Nat /\ Cardinality(T) \in Nat
    BY <2>2, FS_CardinalityType
  <2>. QED
    BY <1>1, <2>1, <2>2, <2>3
<1>2. CASE ~(x \in T /\ x \notin S)
  <2>1. T \in SUBSET S
    BY <1>2
  <2>2. Cardinality(T) <= Cardinality(S) /\ IsFiniteSet(T)
    BY <2>1, FS_Subset
  <2>3. Cardinality(S) \in Nat /\ Cardinality(T) \in Nat
    BY <2>2, FS_CardinalityType
  <2>. QED
    BY <2>2, <2>3
<1>. QED
  BY <1>1, <1>2

(* An attempt that moves keeps the limits if it takes a permit only where one
   is free, and the meter if it charges and releases with the origin's permit. *)
LEMMA ConnMoves ==
    ASSUME ConnInv, NEW c \in Conns, NEW r \in ConnType, Set(c, r), UNCHANGED <<limits, proxy, preferH2>>,
           r.step \in GlobalSteps => conn[c].step \in GlobalSteps \/ Cardinality(GlobalHeld) < limits.total,
           r.step \in OriginSteps => \/ conn[c].step \in OriginSteps /\ r.origin = conn[c].origin
                                     \/ /\ conn[c].step \notin OriginSteps
                                        /\ Cardinality(OriginHeld(r.origin)) < limits.perOrigin,
           ingressCharged' = ingressCharged + (IF r.step \in OriginSteps THEN 1 ELSE 0)
                                            - (IF conn[c].step \in OriginSteps THEN 1 ELSE 0)
    PROVE  ConnInv'
<1>0. /\ conn \in [Conns -> ConnType] /\ conn' = [conn EXCEPT ![c] = r] /\ limits' = limits /\ preferH2' = preferH2 /\ proxy' = proxy
      /\ limits \in Limits /\ limits.total \in Nat /\ limits.perOrigin \in Nat
  BY ConnectionsAssumption DEF ConnInv, Set
<1>1. conn' \in [Conns -> ConnType] /\ conn'[c] = r /\ \A d \in Conns : d # c => conn'[d] = conn[d]
  BY <1>0
<1>h. /\ IsFiniteSet(GlobalHeld) /\ \A o : IsFiniteSet(OriginHeld(o))
      /\ IsFiniteSet({d \in Conns : HoldsOrigin(d)})
      /\ Cardinality({d \in Conns : HoldsOrigin(d)}) \in Nat
  BY <1>0, HeldFinite
<1>2. Cardinality(GlobalHeld') <= limits.total
  <2>1. GlobalHeld = {d \in Conns : conn[d].step \in GlobalSteps} /\ GlobalHeld' = {d \in Conns : conn'[d].step \in GlobalSteps}
    BY Zenon DEF GlobalHeld, HoldsGlobal, GlobalSteps, OriginSteps
  <2>2. GlobalHeld' \subseteq GlobalHeld \cup {c}
    BY <1>1, <2>1
  <2>3. c \in GlobalHeld' => c \in GlobalHeld \/ Cardinality(GlobalHeld) < limits.total
    BY <1>1, <2>1
  <2>4. Cardinality(GlobalHeld) <= limits.total
    BY DEF ConnInv, LimitsHeld
  <2>. QED
    BY <1>0, <1>h, <2>2, <2>3, <2>4, CountMoves
<1>3. ASSUME NEW o \in OriginNames PROVE Cardinality(OriginHeld(o)') <= limits.perOrigin
  <2>1. /\ OriginHeld(o) = {d \in Conns : conn[d].step \in OriginSteps /\ conn[d].origin = o}
        /\ OriginHeld(o)' = {d \in Conns : conn'[d].step \in OriginSteps /\ conn'[d].origin = o}
    BY Zenon DEF OriginHeld, HoldsOrigin, OriginSteps
  <2>2. OriginHeld(o)' \subseteq OriginHeld(o) \cup {c}
    BY <1>1, <2>1, Zenon
  <2>3. c \in OriginHeld(o)' => c \in OriginHeld(o) \/ Cardinality(OriginHeld(o)) < limits.perOrigin
    BY <1>1, <2>1, Zenon
  <2>4. Cardinality(OriginHeld(o)) <= limits.perOrigin
    BY DEF ConnInv, LimitsHeld
  <2>. QED
    BY <1>0, <1>h, <2>2, <2>3, <2>4, CountMoves
<1>4. IngressMetered'
  <2> DEFINE S == {d \in Conns : HoldsOrigin(d)}
             T == {d \in Conns : HoldsOrigin(d)'}
  <2>0. ingressCharged = Cardinality(S) /\ IsFiniteSet(S) /\ Cardinality(S) \in Nat
    BY <1>h DEF ConnInv, IngressMetered
  <2>1. S = {d \in Conns : conn[d].step \in OriginSteps} /\ T = {d \in Conns : conn'[d].step \in OriginSteps}
    BY Zenon DEF HoldsOrigin, OriginSteps
  <2>2. ingressCharged' = Cardinality(T)
    <3>1. CASE r.step \in OriginSteps /\ conn[c].step \notin OriginSteps
      <4>1. T = S \cup {c} /\ c \notin S
        BY <1>1, <2>1, <3>1
      <4>2. Cardinality(T) = Cardinality(S) + 1
        BY <2>0, <4>1, FS_AddElement, Zenon
      <4>. HIDE DEF S, T
      <4>. QED
        BY <2>0, <3>1, <4>2
    <3>2. CASE r.step \notin OriginSteps /\ conn[c].step \in OriginSteps
      <4>1. T = S \ {c} /\ c \in S
        BY <1>1, <2>1, <3>2
      <4>2. Cardinality(T) = Cardinality(S) - 1
        BY <2>0, <4>1, FS_RemoveElement, Zenon
      <4>. HIDE DEF S, T
      <4>. QED
        BY <2>0, <3>2, <4>2
    <3>3. CASE r.step \in OriginSteps <=> conn[c].step \in OriginSteps
      <4>1. T = S
        BY <1>1, <2>1, <3>3
      <4>. HIDE DEF S, T
      <4>. QED
        BY <2>0, <3>3, <4>1
    <3>. QED
      BY <3>1, <3>2, <3>3, Zenon
  <2>. QED
    BY <2>2, Zenon DEF IngressMetered
<1>. QED
  BY <1>0, <1>1, <1>2, <1>3, <1>4 DEF ConnInv, LimitsHeld

(* The record of an attempt with another step, or fewer addresses to try. *)
LEMMA Updated ==
    ASSUME NEW r \in ConnType, NEW s \in ConnSteps, NEW n \in Nat
    PROVE  /\ [r EXCEPT !.step = s] \in ConnType
           /\ [r EXCEPT !.step = s].step = s /\ [r EXCEPT !.step = s].origin = r.origin
           /\ [r EXCEPT !.addresses = n] \in ConnType
           /\ [r EXCEPT !.addresses = n].step = r.step /\ [r EXCEPT !.addresses = n].origin = r.origin
<1>1. r = [step |-> r.step, origin |-> r.origin, scheme |-> r.scheme, plan |-> r.plan, accepted |-> r.accepted,
           addresses |-> r.addresses, socket |-> r.socket, tls |-> r.tls, h2 |-> r.h2]
  BY Zenon DEF ConnType
<1>. QED
  BY <1>1, Zenon DEF ConnType

(* The record of an attempt after a stage of its dial. *)
LEMMA Dialled ==
    ASSUME NEW r \in ConnType, r.plan # <<>>
    PROVE  LET next == [r EXCEPT !.plan = Tail(@)]
           IN  /\ next \in ConnType /\ next.step = r.step /\ next.origin = r.origin /\ next.scheme = r.scheme
               /\ next.plan = Tail(r.plan) /\ next.accepted = r.accepted /\ next.socket = r.socket
               /\ next.tls = r.tls /\ next.h2 = r.h2 /\ next.addresses = r.addresses
<1>1. Tail(r.plan) \in Seq(Stages)
  <2>1. PICK p \in Seq(Stages) : p = r.plan
    BY Zenon DEF ConnType
  <2>2. p # <<>> => Tail(p) \in Seq(Stages)
    OBVIOUS
  <2>. QED
    BY <2>1, <2>2
<1>. QED
  BY <1>1, Zenon DEF ConnType

(* A connection that holds its permits goes on with them. *)
LEMMA ConnStays ==
    ASSUME ConnInv, NEW c \in Conns, NEW r \in ConnType, Proceed(c, r),
           conn[c].step \in OriginSteps, r.step \in OriginSteps, r.origin = conn[c].origin
    PROVE  ConnInv'
<1>1. Set(c, r) /\ UNCHANGED <<limits, proxy, preferH2, ingressCharged>>
  BY Zenon DEF Proceed
<1>2. ingressCharged \in Nat
  BY HeldFinite DEF ConnInv, IngressMetered
<1>3. ingressCharged' = ingressCharged + (IF r.step \in OriginSteps THEN 1 ELSE 0)
                                       - (IF conn[c].step \in OriginSteps THEN 1 ELSE 0)
  BY <1>1, <1>2
<1>4. conn[c].step \in GlobalSteps
  BY DEF GlobalSteps
<1>. QED
  BY <1>1, <1>3, <1>4, ConnMoves, Zenon

(* An attempt that has not begun, or has ended, holds nothing. *)
LEMMA NotConnected ==
    /\ Fresh \in ConnType /\ Fresh.step = "fresh" /\ Fresh.socket = "none"
    /\ Ended \in ConnType /\ Ended.step = "ended" /\ Ended.socket = "none"
<1>1. <<>> \in Seq(Stages) /\ {} \in SUBSET {"host", "address", "proxy"} /\ 0 \in Nat
  OBVIOUS
<1>2. Fresh \in ConnType /\ Fresh.step = "fresh" /\ Fresh.socket = "none"
  BY <1>1, Zenon DEF Fresh, ConnType, ConnSteps
<1>3. "ended" \in ConnSteps
  BY DEF ConnSteps
<1>. QED
  BY <1>2, <1>3, Zenon DEF Ended, ConnType

(* A connection that ends gives back its permits and its charge. *)
LEMMA ConnEnds ==
    ASSUME ConnInv, NEW c \in Conns, Set(c, Ended), DropPermits(c), UNCHANGED <<limits, proxy, preferH2>>
    PROVE  ConnInv'
<1>1. Ended \in ConnType /\ Ended.step = "ended"
  BY NotConnected
<1>2. Ended.step \notin GlobalSteps /\ Ended.step \notin OriginSteps
  BY <1>1 DEF GlobalSteps, OriginSteps
<1>3. ingressCharged \in Nat
  BY HeldFinite DEF ConnInv, IngressMetered
<1>4. ingressCharged' = ingressCharged + (IF Ended.step \in OriginSteps THEN 1 ELSE 0)
                                       - (IF conn[c].step \in OriginSteps THEN 1 ELSE 0)
  BY <1>2, <1>3 DEF DropPermits, HoldsOrigin, OriginSteps
<1>. QED
  BY <1>1, <1>2, <1>4, ConnMoves, Zenon

(* Every step preserves the invariant. *)
LEMMA ConnNextInv == ASSUME ConnInv, [ConnNext]_connVars PROVE ConnInv'
<1>0. conn \in [Conns -> ConnType] /\ ingressCharged \in Nat /\ preferH2 \in BOOLEAN
  BY HeldFinite DEF ConnInv, IngressMetered
<1>1. ASSUME NEW c \in Conns, Set(c, Ended), DropPermits(c), UNCHANGED <<limits, proxy, preferH2>>
      PROVE  ConnInv'
  BY <1>1, ConnEnds
<1>2. ASSUME NEW c \in Conns, Fail(c) PROVE ConnInv'
  BY <1>1, <1>2 DEF Fail
<1>3. ASSUME NEW c \in Conns, NEW o \in OriginNames, NEW scheme \in Schemes, Connect(c, o, scheme)
      PROVE  ConnInv'
  <2>0. conn[c].step = "fresh" /\ UNCHANGED <<limits, proxy, preferH2, ingressCharged>>
    BY <1>3 DEF Connect
  <2>1. CASE Set(c, Ended)
    <3>1. DropPermits(c)
      BY <2>0 DEF DropPermits, HoldsOrigin
    <3>. QED
      BY <1>1, <2>0, <2>1, <3>1
  <2>2. CASE Set(c, [Fresh EXCEPT !.step = "wantGlobal", !.origin = o, !.scheme = scheme,
                                  !.plan = Path(scheme), !.accepted = {"host"}])
    <3>1. PICK r : r = [Fresh EXCEPT !.step = "wantGlobal", !.origin = o, !.scheme = scheme,
                                     !.plan = Path(scheme), !.accepted = {"host"}]
      BY Zenon
    <3>2. Path(scheme) \in Seq(Stages)
      <4>1. proxy \in {"none", "http", "socks5"} /\ scheme \in {"http", "https"}
        BY ConnectionsAssumption DEF ConnInv, Schemes
      <4>2. Path(scheme) \in {<<"resolve", "checkAddress", "tcp">>, <<"resolve", "checkAddress", "tcp", "tls">>,
                              <<"checkProxy", "resolve", "tcp">>, <<"checkProxy", "tunnel", "tls">>,
                              <<"checkProxy", "socks">>, <<"checkProxy", "socks", "tls">>}
        BY <4>1 DEF Path
      <4>3. /\ <<"resolve", "checkAddress", "tcp">> \in Seq(Stages)
            /\ <<"resolve", "checkAddress", "tcp", "tls">> \in Seq(Stages)
        BY DEF Stages
      <4>4. <<"checkProxy", "resolve", "tcp">> \in Seq(Stages) /\ <<"checkProxy", "tunnel", "tls">> \in Seq(Stages)
        BY DEF Stages
      <4>5. <<"checkProxy", "socks">> \in Seq(Stages) /\ <<"checkProxy", "socks", "tls">> \in Seq(Stages)
        BY DEF Stages
      <4>. QED
        BY <4>2, <4>3, <4>4, <4>5, Zenon
    <3>3. r \in ConnType /\ r.step = "wantGlobal"
      <4>1. "wantGlobal" \in ConnSteps /\ {"host"} \in SUBSET {"host", "address", "proxy"}
        BY DEF ConnSteps
      <4>. QED
        BY <3>1, <3>2, <4>1, NotConnected, Zenon DEF ConnType
    <3>4. r.step \notin GlobalSteps /\ r.step \notin OriginSteps /\ conn[c].step \notin OriginSteps
      BY <2>0, <3>3 DEF GlobalSteps, OriginSteps
    <3>5. ingressCharged' = ingressCharged + (IF r.step \in OriginSteps THEN 1 ELSE 0)
                                           - (IF conn[c].step \in OriginSteps THEN 1 ELSE 0)
      BY <1>0, <2>0, <3>4
    <3>. QED
      BY <2>0, <2>2, <3>1, <3>3, <3>4, <3>5, ConnMoves, Zenon
  <2>. QED
    BY <1>3, <2>1, <2>2 DEF Connect
<1>4. ASSUME NEW c \in Conns, TakeGlobal(c) PROVE ConnInv'
  <2>1. /\ conn[c].step = "wantGlobal" /\ Cardinality(GlobalHeld) < limits.total
        /\ Set(c, [conn[c] EXCEPT !.step = "wantOrigin"])
        /\ UNCHANGED <<limits, proxy, preferH2, ingressCharged>>
    BY <1>4 DEF TakeGlobal
  <2>2. PICK r : r = [conn[c] EXCEPT !.step = "wantOrigin"]
    BY Zenon
  <2>3. r \in ConnType /\ r.step = "wantOrigin"
    BY <1>0, <2>2, ZenonT(60) DEF ConnType, ConnSteps, GlobalSteps
  <2>4. r.step \notin OriginSteps /\ conn[c].step \notin OriginSteps
    BY <2>1, <2>3 DEF OriginSteps
  <2>5. ingressCharged' = ingressCharged + (IF r.step \in OriginSteps THEN 1 ELSE 0)
                                         - (IF conn[c].step \in OriginSteps THEN 1 ELSE 0)
    BY <1>0, <2>1, <2>4
  <2>. QED
    BY <2>1, <2>2, <2>3, <2>4, <2>5, ConnMoves, Zenon
<1>5. ASSUME NEW c \in Conns, TakeOrigin(c) PROVE ConnInv'
  <2>1. /\ conn[c].step = "wantOrigin" /\ Cardinality(OriginHeld(conn[c].origin)) < limits.perOrigin
        /\ Set(c, [conn[c] EXCEPT !.step = "dialing"])
        /\ ingressCharged' = ingressCharged + 1
        /\ UNCHANGED <<limits, proxy, preferH2>>
    BY <1>5 DEF TakeOrigin
  <2>2. PICK r : r = [conn[c] EXCEPT !.step = "dialing"]
    BY Zenon
  <2>3. r \in ConnType /\ r.step = "dialing" /\ r.origin = conn[c].origin
    BY <1>0, <2>2, ZenonT(60) DEF ConnType, ConnSteps, GlobalSteps, OriginSteps
  <2>4. r.step \in OriginSteps /\ conn[c].step \notin OriginSteps /\ conn[c].step \in GlobalSteps
    BY <2>1, <2>3 DEF OriginSteps, GlobalSteps
  <2>5. ingressCharged' = ingressCharged + (IF r.step \in OriginSteps THEN 1 ELSE 0)
                                         - (IF conn[c].step \in OriginSteps THEN 1 ELSE 0)
    BY <1>0, <2>1, <2>4
  <2>. QED
    BY <2>1, <2>2, <2>3, <2>4, <2>5, ConnMoves, Zenon
<1>6. ASSUME NEW c \in Conns, NEW stage, Now(c, stage)
      PROVE  /\ Onward(c) \in ConnType /\ Onward(c).step = "dialing" /\ Onward(c).origin = conn[c].origin
             /\ Onward(c).accepted \in SUBSET {"host", "address", "proxy"}
             /\ conn[c].step \in OriginSteps /\ "dialing" \in OriginSteps
  <2>1. conn[c] \in ConnType /\ conn[c].plan # <<>> /\ conn[c].step = "dialing"
    BY <1>0, <1>6 DEF Now
  <2>2. Onward(c) \in ConnType /\ Onward(c).step = conn[c].step /\ Onward(c).origin = conn[c].origin
    BY <2>1, Dialled DEF Onward
  <2>. QED
    BY <2>1, <2>2, Zenon DEF OriginSteps, ConnType
<1>7. ASSUME NEW c \in Conns, NEW r \in ConnType, Proceed(c, r), conn[c].step \in OriginSteps,
             r.step \in OriginSteps, r.origin = conn[c].origin
      PROVE  ConnInv'
  BY <1>7, ConnStays
<1>8. ASSUME NEW c \in Conns, Resolve(c) PROVE ConnInv'
  <2>1. Now(c, "resolve")
    BY <1>8 DEF Resolve
  <2>2. ASSUME NEW n \in 1 .. MaxAddresses, Proceed(c, [Onward(c) EXCEPT !.addresses = n]) PROVE ConnInv'
    <3>1. PICK r : r = [Onward(c) EXCEPT !.addresses = n]
      BY Zenon
    <3>2. n \in Nat
      BY ConnectionsAssumption
    <3>3. r \in ConnType /\ r.step = "dialing" /\ r.origin = conn[c].origin
      BY <1>6, <2>1, <3>1, <3>2, ZenonT(60) DEF ConnType
    <3>. QED
      BY <1>6, <1>7, <2>1, <2>2, <3>1, <3>3, Zenon
  <2>. QED
    BY <1>2, <1>8, <2>2, Zenon DEF Resolve
<1>9. ASSUME NEW c \in Conns, NEW stage, Now(c, stage), NEW a \in {"address", "proxy"},
             Proceed(c, [Onward(c) EXCEPT !.accepted = @ \cup {a}])
      PROVE  ConnInv'
  <2>1. PICK r : r = [Onward(c) EXCEPT !.accepted = @ \cup {a}]
    BY Zenon
  <2>2. Onward(c).accepted \cup {a} \in SUBSET {"host", "address", "proxy"}
    BY <1>6, <1>9
  <2>3. r \in ConnType /\ r.step = "dialing" /\ r.origin = conn[c].origin
    BY <1>6, <1>9, <2>1, <2>2, Zenon DEF ConnType
  <2>. QED
    BY <1>6, <1>7, <1>9, <2>1, <2>3, Zenon
<1>10. ASSUME NEW c \in Conns, CheckAddress(c) \/ CheckProxy(c) PROVE ConnInv'
  BY <1>2, <1>9, <1>10 DEF CheckAddress, CheckProxy
<1>11. ASSUME NEW c \in Conns, NEW stage, Now(c, stage), NEW a \in {"address", "proxy"},
              Proceed(c, [Onward(c) EXCEPT !.socket = a])
       PROVE  ConnInv'
  <2>1. PICK r : r = [Onward(c) EXCEPT !.socket = a]
    BY Zenon
  <2>2. r \in ConnType /\ r.step = "dialing" /\ r.origin = conn[c].origin
    BY <1>6, <1>11, <2>1, Zenon DEF ConnType
  <2>. QED
    BY <1>6, <1>7, <1>11, <2>1, <2>2, Zenon
<1>12. ASSUME NEW c \in Conns, DialTcp(c) PROVE ConnInv'
  <2>1. Now(c, "tcp")
    BY <1>12 DEF DialTcp
  <2>2. CASE Proceed(c, [Onward(c) EXCEPT !.socket = IF proxy = "none" THEN "address" ELSE "proxy"])
    <3>1. PICK a \in {"address", "proxy"} : a = (IF proxy = "none" THEN "address" ELSE "proxy")
      OBVIOUS
    <3>. QED
      BY <1>11, <2>1, <2>2, <3>1, Zenon
  <2>3. CASE conn[c].addresses > 1 /\ Proceed(c, [conn[c] EXCEPT !.addresses = @ - 1])
    <3>1. PICK r : r = [conn[c] EXCEPT !.addresses = @ - 1]
      BY Zenon
    <3>a. conn[c].addresses \in Nat /\ conn[c].step \in ConnSteps /\ conn[c] \in ConnType
      BY <1>0, Zenon DEF ConnType
    <3>2. PICK n \in Nat : n = conn[c].addresses - 1
      BY <2>3, <3>a
    <3>b. r = [conn[c] EXCEPT !.addresses = n]
      BY <3>1, <3>2, Zenon
    <3>3. r \in ConnType /\ r.step = conn[c].step /\ r.origin = conn[c].origin
      BY <3>a, <3>b, Updated, Zenon
    <3>. QED
      BY <1>6, <1>7, <2>1, <2>3, <3>1, <3>3, Zenon
  <2>. QED
    BY <1>2, <1>12, <2>2, <2>3 DEF DialTcp
<1>13. ASSUME NEW c \in Conns, DialThroughProxy(c) PROVE ConnInv'
  BY <1>2, <1>11, <1>13, Zenon DEF DialThroughProxy
<1>14. ASSUME NEW c \in Conns, TlsHandshake(c) PROVE ConnInv'
  <2>1. Now(c, "tls")
    BY <1>14 DEF TlsHandshake
  <2>2. ASSUME NEW h \in {FALSE, preferH2}, Proceed(c, [Onward(c) EXCEPT !.tls = TRUE, !.h2 = h]) PROVE ConnInv'
    <3>1. PICK r : r = [Onward(c) EXCEPT !.tls = TRUE, !.h2 = h]
      BY Zenon
    <3>2. h \in BOOLEAN
      BY <1>0, Zenon
    <3>3. r \in ConnType /\ r.step = "dialing" /\ r.origin = conn[c].origin
      BY <1>6, <2>1, <3>1, <3>2, Zenon DEF ConnType
    <3>. QED
      BY <1>6, <1>7, <2>1, <2>2, <3>1, <3>3, Zenon
  <2>. QED
    BY <1>2, <1>14, <2>2 DEF TlsHandshake
<1>15. ASSUME NEW c \in Conns, NEW s \in OriginSteps, conn[c].step \in OriginSteps,
              Proceed(c, [conn[c] EXCEPT !.step = s])
       PROVE  ConnInv'
  <2>1. PICK r : r = [conn[c] EXCEPT !.step = s]
    BY Zenon
  <2>a. s \in ConnSteps
    BY DEF ConnSteps, GlobalSteps
  <2>2. r \in ConnType /\ r.step = s /\ r.origin = conn[c].origin
    BY <1>0, <2>1, <2>a, Updated, Zenon
  <2>. QED
    BY <1>7, <1>15, <2>1, <2>2, Zenon
<1>16. ASSUME NEW c \in Conns, Open(c) \/ Park(c) \/ Reuse(c) PROVE ConnInv'
  BY <1>15, <1>16, Zenon DEF Open, Park, Reuse, Proceed, OriginSteps
<1>17. ASSUME NEW c \in Conns, Close(c) \/ DropAttempt(c) PROVE ConnInv'
  BY <1>1, <1>17 DEF Close, DropAttempt
<1>18. CASE UNCHANGED connVars
  BY <1>18 DEF connVars, ConnInv, LimitsHeld, IngressMetered, GlobalHeld, OriginHeld, HoldsGlobal, HoldsOrigin
<1>. QED
  BY <1>3, <1>4, <1>5, <1>8, <1>10, <1>12, <1>13, <1>14, <1>16, <1>17, <1>18 DEF ConnNext, Dial

(* The limits and the meter are an inductive invariant. *)
THEOREM ConnInvariant == ConnSpec => []ConnInv
<1>1. ConnInit => ConnInv
  <2>. SUFFICES ASSUME ConnInit PROVE ConnInv
    OBVIOUS
  <2>1. conn = [c \in Conns |-> Fresh] /\ Fresh \in ConnType /\ Fresh.step = "fresh"
    BY NotConnected DEF ConnInit
  <2>2. /\ GlobalHeld = {} /\ \A o : OriginHeld(o) = {}
        /\ {c \in Conns : HoldsOrigin(c)} = {}
    BY <2>1 DEF GlobalHeld, OriginHeld, HoldsGlobal, HoldsOrigin
  <2>3. limits \in Limits /\ limits.total \in Nat /\ limits.perOrigin \in Nat
    BY ConnectionsAssumption DEF ConnInit
  <2>4. LimitsHeld /\ IngressMetered
    BY <2>2, <2>3, FS_EmptySet DEF LimitsHeld, IngressMetered, ConnInit
  <2>. QED
    BY <2>1, <2>4 DEF ConnInit, ConnInv
<1>. QED
  BY <1>1, ConnNextInv, PTL DEF ConnSpec

(* The limits on connections are kept, pooled ones included, whatever dials
   fail and whichever attempts are dropped (ConnectionLimits::acquire). *)
THEOREM ConnectionsWithinLimits == ConnSpec => []LimitsHeld
<1>1. ConnInv => LimitsHeld
  BY DEF ConnInv
<1>. QED
  BY <1>1, ConnInvariant, PTL

(* The ledger's charge for ingress is exactly that of the connections that hold
   permits (ConnectionIngressReservation). *)
THEOREM IngressIsMetered == ConnSpec => []IngressMetered
<1>1. ConnInv => IngressMetered
  BY DEF ConnInv
<1>. QED
  BY <1>1, ConnInvariant, PTL

(* Taking the engine's permit before the origin's cannot end in a circle. *)
THEOREM PermitsCannotLock == ConnSpec => []NoCircularWait
<1>1. ASSUME ConnInv, Cardinality(GlobalHeld) = limits.total
      PROVE  \E c \in GlobalHeld :
                \/ HoldsOrigin(c)
                \/ conn[c].step = "wantOrigin" /\ Cardinality(OriginHeld(conn[c].origin)) < limits.perOrigin
  <2>1. limits.total \in Nat \ {0} /\ limits.perOrigin \in Nat \ {0}
    BY <1>1, ConnectionsAssumption DEF ConnInv
  <2>2. PICK c \in GlobalHeld : TRUE
    BY <1>1, <2>1, FS_EmptySet
  <2>3. CASE \E d \in Conns : HoldsOrigin(d)
    BY <2>3 DEF GlobalHeld, HoldsGlobal, HoldsOrigin
  <2>4. CASE \A d \in Conns : ~HoldsOrigin(d)
    <3>1. OriginHeld(conn[c].origin) = {}
      BY <2>4 DEF OriginHeld
    <3>2. conn[c].step = "wantOrigin"
      BY <2>2, <2>4 DEF GlobalHeld, HoldsGlobal, HoldsOrigin
    <3>3. Cardinality(OriginHeld(conn[c].origin)) < limits.perOrigin
      BY <2>1, <3>1, FS_EmptySet
    <3>. QED
      BY <2>2, <3>2, <3>3
  <2>. QED
    BY <2>3, <2>4
<1>2. ConnInv => NoCircularWait
  BY <1>1 DEF NoCircularWait
<1>. QED
  BY <1>2, ConnInvariant, PTL

-----------------------------------------------------------------------------
(* The body of a response. *)


ReaderSteps == {"loop", "polling", "pending"} \cup BodyEnded
ReaderType == [step : ReaderSteps, left : 0 .. IdleTimeout, woken : BOOLEAN]

BodyTyped ==
    /\ bodyReader \in ReaderType
    /\ signal \in [cancelled : BOOLEAN, paused : BOOLEAN]
    /\ quiet \in Nat /\ pauses \in Nat /\ revisions \in Nat

(* Until a pause or a revision wakes the reader, the time since the last chunk
   is what its timer has counted. *)
Timed ==
    pauses = 0 =>
        /\ signal.paused = FALSE
        /\ revisions = 0 => /\ bodyReader.step = "loop" => quiet = 0
                            /\ bodyReader.step = "polling" => quiet = 0 /\ bodyReader.left = IdleTimeout
                            /\ bodyReader.step = "pending" => quiet + bodyReader.left = IdleTimeout

BodyInv == BodyTyped /\ Timed

(* What the step of the reader, its timer and the quiet time must satisfy. *)
Counts(pc, time, silence) ==
    /\ pc = "loop" => silence = 0
    /\ pc = "polling" => silence = 0 /\ time = IdleTimeout
    /\ pc = "pending" => silence + time = IdleTimeout

(* The reader moves: what is left to show. *)
LEMMA ReaderMoves ==
    ASSUME BodyInv, bodyReader' \in ReaderType, quiet' \in Nat, UNCHANGED <<signal, pauses>>,
           revisions' \in Nat, revisions' = 0 => revisions = 0,
           pauses = 0 /\ revisions' = 0 => Counts(bodyReader'.step, bodyReader'.left, quiet')
    PROVE  BodyInv'
<1>1. BodyTyped'
  BY Zenon DEF BodyInv, BodyTyped
<1>2. Timed'
  BY Zenon DEF BodyInv, Timed, Counts
<1>. QED
  BY <1>1, <1>2 DEF BodyInv

(* An updated reader. *)
LEMMA ReaderUpdated ==
    ASSUME NEW r \in ReaderType, NEW s \in ReaderSteps, NEW w \in BOOLEAN
    PROVE  /\ [r EXCEPT !.step = s, !.woken = w] \in ReaderType
           /\ [r EXCEPT !.step = s, !.woken = w].step = s
           /\ [r EXCEPT !.step = s, !.woken = w].left = r.left
BY Zenon DEF ReaderType

(* Every step preserves the invariant. *)
LEMMA BodyNextInv == ASSUME BodyInv, [BodyNext]_bodyVars PROVE BodyInv'
<1>. USE BodyAssumption
<1>0. /\ bodyReader \in ReaderType /\ signal \in [cancelled : BOOLEAN, paused : BOOLEAN]
      /\ quiet \in Nat /\ pauses \in Nat /\ revisions \in Nat
      /\ bodyReader.step \in ReaderSteps /\ bodyReader.left \in 0 .. IdleTimeout
  BY DEF BodyInv, BodyTyped, ReaderType
<1>a. pauses = 0 => /\ signal.paused = FALSE
                    /\ revisions = 0 => Counts(bodyReader.step, bodyReader.left, quiet)
  BY DEF BodyInv, Timed, Counts
<1>1. CASE Arrive
  <2>1. /\ bodyReader' = [bodyReader EXCEPT !.woken = @ \/ bodyReader.step = "pending"]
        /\ UNCHANGED <<signal, quiet, revisions, pauses>>
    BY <1>1 DEF Arrive
  <2>2. PICK w \in BOOLEAN : w = (bodyReader.woken \/ bodyReader.step = "pending")
    BY <1>0, Zenon DEF ReaderType
  <2>3. bodyReader' = [bodyReader EXCEPT !.woken = w]
    BY <2>1, <2>2, Zenon
  <2>4. bodyReader' \in ReaderType /\ bodyReader'.step = bodyReader.step /\ bodyReader'.left = bodyReader.left
    BY <1>0, <2>3 DEF ReaderType
  <2>. QED
    BY <1>0, <1>a, <2>1, <2>4, ReaderMoves
<1>2. CASE NextChunk
  <2>1. UNCHANGED <<signal, quiet, revisions, pauses>> /\ bodyReader.step = "loop"
    BY <1>2 DEF NextChunk
  <2>2. CASE bodyReader' = [bodyReader EXCEPT !.step = "cancelled"]
    <3>1. bodyReader' \in ReaderType /\ bodyReader'.step = "cancelled"
      BY <1>0, <2>2 DEF ReaderType, ReaderSteps, BodyEnded
    <3>. QED
      BY <1>0, <2>1, <3>1, ReaderMoves DEF Counts
  <2>3. CASE bodyReader' = [step |-> "polling", left |-> IdleTimeout, woken |-> TRUE]
    <3>1. bodyReader' \in ReaderType /\ bodyReader'.step = "polling" /\ bodyReader'.left = IdleTimeout
      BY <2>3 DEF ReaderType, ReaderSteps
    <3>2. pauses = 0 /\ revisions = 0 => quiet = 0
      BY <1>a, <2>1 DEF Counts
    <3>. QED
      BY <1>0, <2>1, <3>1, <3>2, ReaderMoves DEF Counts
  <2>. QED
    BY <1>2, <2>2, <2>3 DEF NextChunk
<1>3. CASE PollStep
  <2>0. UNCHANGED <<signal, revisions, pauses>> /\ bodyReader.step \in {"polling", "pending"}
    BY <1>3 DEF PollStep
  <2>1. CASE Interrupted
    <3>1. PICK s \in {"cancelled", "loop"} : /\ s = (IF signal.cancelled THEN "cancelled" ELSE "loop")
                                             /\ bodyReader' = [bodyReader EXCEPT !.step = s, !.woken = FALSE]
      BY <1>3, <2>1, Zenon DEF PollStep
    <3>2. s = "loop" => pauses # 0
      BY <1>a, <2>1, <3>1 DEF Interrupted
    <3>3. quiet' = quiet
      BY <1>3, <2>1 DEF PollStep
    <3>4. s \in ReaderSteps /\ FALSE \in BOOLEAN
      BY DEF ReaderSteps, BodyEnded
    <3>5. bodyReader' \in ReaderType /\ bodyReader'.step = s
      BY <1>0, <3>1, <3>4, ReaderUpdated, ZenonT(60)
    <3>. QED
      BY <1>0, <2>0, <3>1, <3>2, <3>3, <3>5, ReaderMoves DEF Counts
  <2>2. CASE ~Interrupted /\ inbox # <<>>
    <3>1. poll_chunk(Head(inbox))
      BY <1>3, <2>2 DEF PollStep
    <3>2. PICK s \in {"loop", "end", "failed"} :
              /\ bodyReader' = [bodyReader EXCEPT !.step = s, !.woken = FALSE]
              /\ s = "loop" => quiet' = 0
              /\ quiet' \in {0, quiet}
      BY <3>1 DEF poll_chunk
    <3>3. bodyReader' \in ReaderType /\ bodyReader'.step = s
      BY <1>0, <3>2, ReaderUpdated, Zenon DEF ReaderSteps, BodyEnded
    <3>. QED
      BY <1>0, <2>0, <3>2, <3>3, ReaderMoves DEF Counts
  <2>3. CASE ~Interrupted /\ inbox = <<>>
    <3>1. ReadIdle
      BY <1>3, <2>3 DEF PollStep
    <3>2. PICK s \in {"failed", "pending"} : bodyReader' = [bodyReader EXCEPT !.step = s, !.woken = FALSE]
      BY <3>1 DEF ReadIdle
    <3>a. s \in ReaderSteps /\ FALSE \in BOOLEAN /\ quiet' = quiet
      BY <3>1 DEF ReaderSteps, BodyEnded, ReadIdle
    <3>3. bodyReader' \in ReaderType /\ bodyReader'.step = s /\ bodyReader'.left = bodyReader.left
      BY <1>0, <3>2, <3>a, ReaderUpdated, Zenon
    <3>4. pauses = 0 /\ revisions = 0 => quiet + bodyReader.left = IdleTimeout
      BY <1>0, <1>a, <2>0 DEF Counts
    <3>. QED
      BY <1>0, <2>0, <3>2, <3>3, <3>4, <3>a, ReaderMoves DEF Counts
  <2>. QED
    BY <2>1, <2>2, <2>3
<1>4. CASE IdleTimerFires
  <2>1. bodyReader' = [bodyReader EXCEPT !.woken = TRUE] /\ UNCHANGED <<signal, quiet, revisions, pauses>>
    BY <1>4 DEF IdleTimerFires
  <2>2. bodyReader' \in ReaderType /\ bodyReader'.step = bodyReader.step /\ bodyReader'.left = bodyReader.left
    BY <1>0, <2>1, Zenon DEF ReaderType
  <2>. QED
    BY <1>0, <1>a, <2>1, <2>2, ReaderMoves
<1>5. CASE Revised
  <2>1. /\ bodyReader' = [bodyReader EXCEPT !.step = "loop", !.woken = FALSE] /\ revisions' = revisions + 1
        /\ UNCHANGED <<signal, quiet, pauses>>
    BY <1>5 DEF Revised
  <2>2. bodyReader' \in ReaderType
    BY <1>0, <2>1, ReaderUpdated, Zenon DEF ReaderSteps
  <2>3. revisions' \in Nat /\ revisions' # 0
    BY <1>0, <2>1
  <2>. QED
    BY <1>0, <2>1, <2>2, <2>3, ReaderMoves
<1>6. CASE CancelRead
  <2>1. signal' = [signal EXCEPT !.cancelled = TRUE] /\ UNCHANGED <<bodyReader, quiet, revisions, pauses>>
    BY <1>6 DEF CancelRead
  <2>2. signal' \in [cancelled : BOOLEAN, paused : BOOLEAN] /\ signal'.paused = signal.paused
    BY <1>0, <2>1, Zenon
  <2>. QED
    BY <2>1, <2>2, Zenon DEF BodyInv, BodyTyped, Timed
<1>7. CASE PauseRead
  <2>1. signal' = [signal EXCEPT !.paused = TRUE] /\ pauses' = pauses + 1 /\ UNCHANGED <<bodyReader, quiet, revisions>>
    BY <1>7 DEF PauseRead
  <2>2. signal' \in [cancelled : BOOLEAN, paused : BOOLEAN]
    BY <1>0, <2>1, Zenon
  <2>3. pauses' \in Nat /\ pauses' # 0
    BY <1>0, <2>1
  <2>. QED
    BY <2>1, <2>2, <2>3, Zenon DEF BodyInv, BodyTyped, Timed
<1>8. CASE ResumeRead
  <2>1. signal' = [signal EXCEPT !.paused = FALSE] /\ UNCHANGED <<bodyReader, quiet, revisions, pauses>>
    BY <1>8 DEF ResumeRead
  <2>2. signal' \in [cancelled : BOOLEAN, paused : BOOLEAN] /\ signal'.paused = FALSE
    BY <1>0, <2>1, Zenon
  <2>. QED
    BY <2>1, <2>2, Zenon DEF BodyInv, BodyTyped, Timed
<1>9. CASE Elapse
  <2>1. /\ bodyReader.step = "pending" /\ bodyReader.left # 0 /\ bodyReader' = [bodyReader EXCEPT !.left = @ - 1]
        /\ quiet' = (IF quiet > IdleTimeout THEN quiet ELSE quiet + 1)
        /\ UNCHANGED <<signal, revisions, pauses>>
    BY <1>9 DEF Elapse, TimerDue
  <2>2. bodyReader.left - 1 \in 0 .. IdleTimeout /\ quiet' \in Nat
    BY <1>0, <2>1
  <2>3. bodyReader' \in ReaderType /\ bodyReader'.step = "pending" /\ bodyReader'.left = bodyReader.left - 1
    BY <1>0, <2>1, <2>2 DEF ReaderType
  <2>4. pauses = 0 /\ revisions = 0 => quiet' + (bodyReader.left - 1) = IdleTimeout
    BY <1>0, <1>a, <2>1 DEF Counts
  <2>. QED
    BY <1>0, <2>1, <2>2, <2>3, <2>4, ReaderMoves DEF Counts
<1>10. CASE UNCHANGED bodyVars
  BY <1>10, Zenon DEF bodyVars, BodyInv, BodyTyped, Timed
<1>. QED
  BY <1>1, <1>2, <1>3, <1>4, <1>5, <1>6, <1>7, <1>8, <1>9, <1>10 DEF BodyNext

(* A silent server is noticed after the read-idle timeout. *)
THEOREM StallsAreDetected == BodySpec => []StallDetected
<1>1. BodyInit => BodyInv
  <2>. SUFFICES ASSUME BodyInit PROVE BodyInv
    OBVIOUS
  <2>1. bodyReader \in ReaderType /\ bodyReader.step = "loop" /\ signal.paused = FALSE
    BY BodyAssumption DEF BodyInit, ReaderType, ReaderSteps
  <2>2. signal \in [cancelled : BOOLEAN, paused : BOOLEAN]
    BY DEF BodyInit
  <2>. QED
    BY <2>1, <2>2 DEF BodyInit, BodyInv, BodyTyped, Timed
<1>2. BodyInv => StallDetected
  <2>. SUFFICES ASSUME BodyInv, bodyReader.step = "pending", pauses = 0, revisions = 0
                PROVE  quiet <= IdleTimeout
    BY DEF StallDetected
  <2>1. quiet \in Nat /\ bodyReader.left \in 0 .. IdleTimeout /\ quiet + bodyReader.left = IdleTimeout
    BY DEF BodyInv, BodyTyped, ReaderType, Timed
  <2>. QED
    BY <2>1, BodyAssumption
<1>. QED
  BY <1>1, <1>2, BodyNextInv, PTL DEF BodySpec

(* No read that is polled after a cancellation or a pause hands out data. *)
THEOREM InterruptionsWin == BodySpec => InterruptionWins
<1>1. ASSUME [BodyNext]_bodyVars, signal.cancelled \/ signal.paused PROVE received' = received
  BY <1>1 DEF BodyNext, bodyVars, Arrive, NextChunk, PollStep, Interrupted, IdleTimerFires, Revised,
              CancelRead, PauseRead, ResumeRead, Elapse
<1>. QED
  BY <1>1, PTL DEF BodySpec, InterruptionWins
=============================================================================
