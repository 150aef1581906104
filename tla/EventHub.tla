-------------------------------- MODULE EventHub --------------------------------
(* A job's event stream (metrics/events.rs): the hub broadcasts to subscribers
   through a bounded channel and raises a terminal signal when the run ends,
   while the caller may keep the hub alive through its handle.  Events are
   numbered in the order they are sent; tokio's broadcast and watch channels
   are modelled by what EventStream uses of them. *)
EXTENDS Integers

CONSTANTS
    Subscribers,
    Buffer,         \* the channel's capacity
    MaxEvents

ASSUME BufferAssumption == Buffer \in Nat \ {0}

VARIABLES
    sentEvents,     \* events sent so far
    lastOfRun,      \* sentEvents when the terminal signal was raised
    terminal,       \* the watch channel's value
    retained,       \* the hub is alive: the run or the caller's handle holds it
    streams

hubVars == <<sentEvents, lastOfRun, terminal, retained, streams>>

(* cursor: the events received or skipped; told: the stream's watch receiver
   has seen the signal; lost: the channel has overtaken the stream; crossed: an
   event was sent between its look into the channel and its look at the signal. *)
NoStream == [at |-> "none", cursor |-> 0, told |-> FALSE, lost |-> FALSE, crossed |-> FALSE]

HubInit ==
    /\ sentEvents = 0 /\ lastOfRun = 0 /\ terminal = FALSE /\ retained = TRUE
    /\ streams = [s \in Subscribers |-> NoStream]

(* The run emits until it ends; a control call through a kept handle may emit
   afterwards (set_rate_limit, set_concurrency). *)
EmitEvent ==
    /\ retained /\ sentEvents < MaxEvents
    /\ sentEvents' = sentEvents + 1
    /\ streams' = [s \in Subscribers |->
                     [streams[s] EXCEPT !.crossed = @ \/ streams[s].at = "empty"]]
    /\ UNCHANGED <<lastOfRun, terminal, retained>>

(* TerminalGuard's drop, on every exit path of the run. *)
Terminate ==
    /\ retained /\ ~terminal
    /\ terminal' = TRUE /\ lastOfRun' = sentEvents
    /\ UNCHANGED <<sentEvents, retained, streams>>

DropHub ==
    /\ terminal /\ retained
    /\ retained' = FALSE
    /\ UNCHANGED <<sentEvents, lastOfRun, terminal, streams>>

subscribe(s) ==
    /\ streams[s].at = "none" /\ retained
    /\ streams' = [streams EXCEPT ![s] = [NoStream EXCEPT !.at = "next", !.cursor = sentEvents, !.told = terminal]]
    /\ UNCHANGED <<sentEvents, lastOfRun, terminal, retained>>

----------------------------------------------------------------------------
(* EventStream::next. *)

Goes(s, stream) ==
    /\ streams' = [streams EXCEPT ![s] = stream]
    /\ UNCHANGED <<sentEvents, lastOfRun, terminal, retained>>

HasEvent(s) == streams[s].cursor < sentEvents
Overtaken(s) == sentEvents - streams[s].cursor > Buffer

(* Receiving: a stream the channel has overtaken goes on from the oldest event
   kept; otherwise the next event is returned, and next is called again. *)
ReceiveEvent(s) ==
    Goes(s, [streams[s] EXCEPT !.at = "next", !.lost = @ \/ Overtaken(s),
                               !.cursor = IF Overtaken(s) THEN sentEvents - Buffer ELSE @ + 1])

TryRecv(s) ==
    /\ streams[s].at = "next"
    /\ \/ HasEvent(s) /\ ReceiveEvent(s)
       \/ ~HasEvent(s) /\ Goes(s, [streams[s] EXCEPT !.at = IF retained THEN "empty" ELSE "ended"])

CheckTerminal(s) ==
    /\ streams[s].at = "empty"
    /\ Goes(s, [streams[s] EXCEPT !.at = IF terminal THEN "ended" ELSE "select"])

(* Mutant of Awaken: the signal ends the stream at once. *)
AwakenToEnd(s) ==
    /\ streams[s].at = "select"
    /\ \/ HasEvent(s) /\ ReceiveEvent(s)
       \/ terminal /\ ~streams[s].told /\ Goes(s, [streams[s] EXCEPT !.at = "ended", !.told = TRUE])
       \/ ~HasEvent(s) /\ ~retained /\ Goes(s, [streams[s] EXCEPT !.at = "ended"])

(* The select: an event, the signal, or the end of the hub. *)
Awaken(s) ==
    /\ streams[s].at = "select"
    /\ \/ HasEvent(s) /\ ReceiveEvent(s)
       \/ terminal /\ ~streams[s].told /\ Goes(s, [streams[s] EXCEPT !.at = "next", !.told = TRUE])
       \/ ~HasEvent(s) /\ ~retained /\ Goes(s, [streams[s] EXCEPT !.at = "ended"])

HubNext ==
    \/ EmitEvent \/ Terminate \/ DropHub
    \/ \E s \in Subscribers : subscribe(s) \/ TryRecv(s) \/ CheckTerminal(s) \/ Awaken(s)

(* A subscriber goes on calling next until it returns None. *)
HubFairness ==
    \A s \in Subscribers : WF_hubVars(TryRecv(s)) /\ WF_hubVars(CheckTerminal(s)) /\ WF_hubVars(Awaken(s))

HubSpec == HubInit /\ [][HubNext]_hubVars /\ HubFairness

----------------------------------------------------------------------------

(* "Drain whatever is already queued before considering the terminal state, so
   a late signal cannot drop final events" (EventStream::next): a stream that
   has ended and was never overtaken has every event of the run, unless one was
   sent between its look into the channel and its look at the signal. *)
FinalEventsKept ==
    \A s \in Subscribers :
        streams[s].at = "ended" /\ ~streams[s].lost /\ ~streams[s].crossed => streams[s].cursor >= lastOfRun
=============================================================================
