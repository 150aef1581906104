----------------------------- MODULE MCProgress -----------------------------
(* What a job waits for and must not wait for ever, for TLC: memory of the
   transfer ledger, the admission to an origin, the body of a response and the
   end of an event stream.  They share no state here: a behaviour exercises one
   of them, chosen initially, while the others stay in their first states. *)
EXTENDS TransferLedger, EventHub, Origins, HttpBody

CONSTANTS r1, r2, k1, k2
VARIABLE component

(* Two reservations of one job, in either lane, with pools that hold one large
   or two small ones. *)
MCJobOf == [c \in {"a", "b"} |-> 1]
MCCaps == [frames |-> 2, writer |-> 2, checkpoint |-> 2, job |-> 3, aggregate |-> 3]

(* One first state for the components that a behaviour does not exercise. *)
Still ==
    /\ component # "ledger" => lane = CHOOSE l \in [LedgerJobs -> Lanes] : TRUE
    /\ component # "origins" => /\ maxEntries = CHOOSE n \in EntryLimits : TRUE
                                /\ \A r \in Requests : request[r].key = k1
    /\ component # "body" => limit = 0 /\ selecting

MCInit ==
    /\ component \in {"ledger", "hub", "origins", "body"}
    /\ LedgerInit /\ HubInit /\ OriginInit /\ BodyInit /\ Still

MCNext ==
    /\ \/ component = "ledger" /\ LedgerNext
       \/ component = "hub" /\ HubNext
       \/ component = "origins" /\ OriginNext
       \/ component = "body" /\ BodyNext
    /\ component # "ledger" => UNCHANGED ledgerVars
    /\ component # "hub" => UNCHANGED hubVars
    /\ component # "origins" => UNCHANGED originVars
    /\ component # "body" => UNCHANGED bodyVars
    /\ UNCHANGED component

(* The reader of a body can step from its first state on: its fairness is for
   the behaviours that read. *)
ReaderFairness ==
    /\ WF_bodyVars(component = "body" /\ NextChunk)
    /\ WF_bodyVars(component = "body" /\ PollStep)
    /\ WF_bodyVars(component = "body" /\ IdleTimerFires)
    /\ WF_bodyVars(component = "body" /\ Elapse)

MCSpec ==
    /\ MCInit /\ [][MCNext]_<<ledgerVars, hubVars, originVars, bodyVars, component>>
    /\ LedgerFairness /\ HubFairness /\ OriginFairness /\ ReaderFairness
=============================================================================
