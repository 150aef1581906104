---------------------------- MODULE Credentials ----------------------------
(***************************************************************************)
(* SharedCredentials (crates/engine/src/control/auth.rs): the header set   *)
(* the workers of a segmented job share, and the credential provider that  *)
(* answers their 401 and 407 challenges, as the lease attempt of           *)
(* job/segmented.rs uses them.                                             *)
(*                                                                         *)
(* The header set is the number of answers latched into it.  A server      *)
(* accepts some of these versions; which challenge it raises otherwise is  *)
(* its choice.                                                             *)
(***************************************************************************)
EXTENDS Naturals, Sequences

CONSTANTS Clients,          \* workers of one job
          Challenges,       \* distinct challenges a server may raise
          MAX_AUTH_STAGES,
          MaxAttempts       \* bound: lease attempts of a worker

ASSUME CredentialAssumption == MAX_AUTH_STAGES \in Nat /\ MaxAttempts \in Nat

VARIABLES headers,          \* version of the shared header set
          stages_used,
          answered,         \* answered_challenge; "none" before the first answer
          client,           \* each worker's attempt
          accepted,         \* versions the server accepts
          log               \* challenges the provider answered, in order

credentialVars == <<headers, stages_used, answered, client, accepted, log>>

CredentialInit ==
    /\ headers = 0 /\ stages_used = 0 /\ answered = "none"
    /\ client = [c \in Clients |-> [step |-> "ready", sent |-> 0, provided |-> FALSE,
                                    requests |-> 0, attempts |-> 0]]
    /\ accepted \in SUBSET (1 .. MAX_AUTH_STAGES)
    /\ log = <<>>

(* A lease attempt begins: its one credential retry is unused. *)
BeginAttempt(c) ==
    /\ client[c].step = "ready" /\ client[c].attempts < MaxAttempts
    /\ client' = [client EXCEPT ![c] = [step |-> "request", sent |-> 0, provided |-> FALSE,
                                        requests |-> 0, attempts |-> @.attempts + 1]]
    /\ UNCHANGED <<headers, stages_used, answered, accepted, log>>

(* The header set is read anew for every request. *)
SendRequest(c) ==
    /\ client[c].step = "request"
    /\ client' = [client EXCEPT ![c].step = "sent", ![c].sent = headers,
                                ![c].requests = @ + 1]
    /\ UNCHANGED <<headers, stages_used, answered, accepted, log>>

Accepted(c) ==
    /\ client[c].step = "sent" /\ client[c].sent \in accepted
    /\ client' = [client EXCEPT ![c].step = "ready"]
    /\ UNCHANGED <<headers, stages_used, answered, accepted, log>>

Settled(c, outcome) ==
    client' = [client EXCEPT ![c].step = outcome, ![c].provided = @ \/ outcome = "request"]

(* A mutant: the limit is tested after the stage was taken. *)
MayConsultOnce == stages_used <= MAX_AUTH_STAGES

MayConsult == stages_used < MAX_AUTH_STAGES

AlreadyAnswered(challenge) == answered = challenge

(* SharedCredentials::provide of a job with a provider, under its stage lock;
   the provider answers, declines or fails, and its stage is spent in each case. *)
provide(c, challenge) ==
    IF AlreadyAnswered(challenge)
    THEN Settled(c, "request") /\ UNCHANGED <<headers, stages_used, answered, log>>
    ELSE IF ~MayConsult
    THEN Settled(c, "fatal") /\ UNCHANGED <<headers, stages_used, answered, log>>
    ELSE /\ stages_used' = stages_used + 1
         /\ \/ /\ headers' = headers + 1
               /\ answered' = challenge
               /\ log' = Append(log, challenge)
               /\ Settled(c, "request")
            \/ Settled(c, "fatal") /\ UNCHANGED <<headers, answered, log>>

(* The response is a challenge: one retry per attempt, none after it. *)
Challenged(c) ==
    /\ client[c].step = "sent" /\ client[c].sent \notin accepted
    /\ \E challenge \in Challenges :
          IF client[c].provided
          THEN Settled(c, "fatal") /\ UNCHANGED <<headers, stages_used, answered, log>>
          ELSE provide(c, challenge)
    /\ UNCHANGED accepted

CredentialNext ==
    \E c \in Clients : BeginAttempt(c) \/ SendRequest(c) \/ Accepted(c) \/ Challenged(c)
CredentialSpec == CredentialInit /\ [][CredentialNext]_credentialVars

-----------------------------------------------------------------------------
(* However many workers are challenged, and however often, one job asks the
   provider at most MAX_AUTH_STAGES times, and an attempt sends at most two
   requests: wrong credentials never turn into a loop of requests. *)
AuthenticationBounded ==
    /\ stages_used <= MAX_AUTH_STAGES
    /\ \A c \in Clients : client[c].requests <= 2

(* Workers that meet the same challenge share its answer: the provider never
   answers a challenge twice in a row. *)
AnswersShared == \A i \in 1 .. Len(log) - 1 : log[i] # log[i + 1]
=============================================================================
