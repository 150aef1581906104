----------------------------- MODULE Connections -----------------------------
(***************************************************************************)
(* The connector of the HTTP clients: EngineConnector and ConnectionLimits,*)
(* crates/engine/src/http/connect.rs.  A connection takes a permit of the  *)
(* engine, then one of its origin, charges its ingress footprint and dials *)
(* along the path that the proxy policy and the scheme select; permits and *)
(* charge live until the connection is dropped, idle in the pool included. *)
(* An attempt may be dropped at any wait.  The address filter, resolver,   *)
(* peers and proxies answer as they like; which error they lead to is left *)
(* out.                                                                    *)
(***************************************************************************)
EXTENDS Integers, FiniteSets, Sequences

CONSTANTS
    Conns,              \* connection attempts
    OriginNames,        \* scheme, host, port and proxy: origin_key
    Limits,             \* configurations: total and perOrigin
    Policies,           \* proxy policies: "none", "http", "socks5"
    MaxAddresses        \* bound: addresses that a name resolves to

ASSUME ConnectionsAssumption ==
    /\ IsFiniteSet(Conns)
    /\ \A l \in Limits : l.total \in Nat \ {0} /\ l.perOrigin \in 1 .. l.total
    /\ Policies \subseteq {"none", "http", "socks5"} /\ MaxAddresses \in Nat \ {0}

VARIABLES
    limits,             \* max_connections_total and max_connections_per_origin
    proxy,              \* the engine's proxy policy
    preferH2,           \* h2 is offered by ALPN
    conn,               \* each attempt and what it has become
    ingressCharged      \* connections charged to the ledger

connVars == <<limits, proxy, preferH2, conn, ingressCharged>>

Schemes == {"http", "https"}
Fresh == [step |-> "fresh", origin |-> "", scheme |-> "", plan |-> <<>>, accepted |-> {},
          addresses |-> 0, socket |-> "none", tls |-> FALSE, h2 |-> FALSE]

ConnInit ==
    /\ limits \in Limits /\ proxy \in Policies /\ preferH2 \in BOOLEAN
    /\ conn = [c \in Conns |-> Fresh]
    /\ ingressCharged = 0

-----------------------------------------------------------------------------
HoldsGlobal(c) == conn[c].step \in {"wantOrigin", "dialing", "open", "idle"}
HoldsOrigin(c) == conn[c].step \in {"dialing", "open", "idle"}
GlobalHeld == {c \in Conns : HoldsGlobal(c)}
OriginHeld(o) == {c \in Conns : HoldsOrigin(c) /\ conn[c].origin = o}

(* connect: what is done, in order, for a policy and a scheme. *)
Path(scheme) ==
    CASE proxy = "none" /\ scheme = "http"    -> <<"resolve", "checkAddress", "tcp">>
      [] proxy = "none" /\ scheme = "https"   -> <<"resolve", "checkAddress", "tcp", "tls">>
      [] proxy = "http" /\ scheme = "http"    -> <<"checkProxy", "resolve", "tcp">>
      [] proxy = "http" /\ scheme = "https"   -> <<"checkProxy", "tunnel", "tls">>
      [] proxy = "socks5" /\ scheme = "http"  -> <<"checkProxy", "socks">>
      [] proxy = "socks5" /\ scheme = "https" -> <<"checkProxy", "socks", "tls">>

Set(c, r) == conn' = [conn EXCEPT ![c] = r]
Ended == [Fresh EXCEPT !.step = "ended"]

(* LimitPermits and ConnectionIngressReservation are dropped with what holds them. *)
DropPermits(c) == ingressCharged' = IF HoldsOrigin(c) THEN ingressCharged - 1 ELSE ingressCharged

-----------------------------------------------------------------------------
(* connect, up to the permits: the scheme is checked, and the filter sees the
   unresolved host. *)
Connect(c, o, scheme) ==
    /\ conn[c].step = "fresh"
    /\ \/ Set(c, [Fresh EXCEPT !.step = "wantGlobal", !.origin = o, !.scheme = scheme,
                               !.plan = Path(scheme), !.accepted = {"host"}])
       \/ Set(c, Ended)
    /\ UNCHANGED <<limits, proxy, preferH2, ingressCharged>>

(* Mutant of TakeGlobal: the engine's semaphore is not waited for. *)
TakeGlobalFreely(c) ==
    /\ conn[c].step = "wantGlobal"
    /\ Set(c, [conn[c] EXCEPT !.step = "wantOrigin"])
    /\ UNCHANGED <<limits, proxy, preferH2, ingressCharged>>
(* ConnectionLimits::acquire, the engine's permit. *)
TakeGlobal(c) ==
    /\ conn[c].step = "wantGlobal" /\ Cardinality(GlobalHeld) < limits.total
    /\ Set(c, [conn[c] EXCEPT !.step = "wantOrigin"])
    /\ UNCHANGED <<limits, proxy, preferH2, ingressCharged>>
(* The origin's permit; then the ingress footprint is charged. *)
TakeOrigin(c) ==
    /\ conn[c].step = "wantOrigin" /\ Cardinality(OriginHeld(conn[c].origin)) < limits.perOrigin
    /\ Set(c, [conn[c] EXCEPT !.step = "dialing"])
    /\ ingressCharged' = ingressCharged + 1
    /\ UNCHANGED <<limits, proxy, preferH2>>

Now(c, stage) == conn[c].step = "dialing" /\ conn[c].plan # <<>> /\ Head(conn[c].plan) = stage
Onward(c) == [conn[c] EXCEPT !.plan = Tail(@)]
Fail(c) ==
    Set(c, Ended) /\ DropPermits(c) /\ UNCHANGED <<limits, proxy, preferH2>>
Proceed(c, r) == Set(c, r) /\ UNCHANGED <<limits, proxy, preferH2, ingressCharged>>

(* connect_tcp: the name is resolved, every address passes the filter, and each
   is tried in turn. *)
Resolve(c) ==
    /\ Now(c, "resolve")
    /\ \/ \E n \in 1 .. MaxAddresses : Proceed(c, [Onward(c) EXCEPT !.addresses = n])
       \/ Fail(c)
CheckAddress(c) ==
    /\ Now(c, "checkAddress")
    /\ \/ Proceed(c, [Onward(c) EXCEPT !.accepted = @ \cup {"address"}])
       \/ Fail(c)
DialTcp(c) ==
    /\ Now(c, "tcp")
    /\ \/ Proceed(c, [Onward(c) EXCEPT !.socket = IF proxy = "none" THEN "address" ELSE "proxy"])
       \/ conn[c].addresses > 1 /\ Proceed(c, [conn[c] EXCEPT !.addresses = @ - 1])
       \/ conn[c].addresses = 1 /\ Fail(c)
CheckProxy(c) ==
    /\ Now(c, "checkProxy")
    /\ \/ Proceed(c, [Onward(c) EXCEPT !.accepted = @ \cup {"proxy"}])
       \/ Fail(c)
(* The tunnel or the SOCKS handshake, dialled by RawTcpConnector. *)
DialThroughProxy(c) ==
    /\ Now(c, "tunnel") \/ Now(c, "socks")
    /\ \/ Proceed(c, [Onward(c) EXCEPT !.socket = "proxy"])
       \/ Fail(c)
(* tls_handshake with the origin; ALPN settles the protocol. *)
TlsHandshake(c) ==
    /\ Now(c, "tls")
    /\ \/ \E h2 \in {FALSE, preferH2} : Proceed(c, [Onward(c) EXCEPT !.tls = TRUE, !.h2 = h2])
       \/ Fail(c)
(* The stream is ready: it takes permits and charge along. *)
Open(c) ==
    /\ conn[c].step = "dialing" /\ conn[c].plan = <<>>
    /\ Set(c, [conn[c] EXCEPT !.step = "open"])
    /\ UNCHANGED <<limits, proxy, preferH2, ingressCharged>>

(* The client's pool keeps a connection whose response was read, hands it out
   again and closes it when idle for long enough. *)
Park(c) == conn[c].step = "open" /\ Proceed(c, [conn[c] EXCEPT !.step = "idle"])
Reuse(c) == conn[c].step = "idle" /\ Proceed(c, [conn[c] EXCEPT !.step = "open"])
Close(c) ==
    /\ conn[c].step \in {"open", "idle"}
    /\ Set(c, Ended) /\ DropPermits(c)
    /\ UNCHANGED <<limits, proxy, preferH2>>
(* The attempt is dropped while it waits: its request was cancelled. *)
DropAttempt(c) ==
    /\ conn[c].step \in {"wantGlobal", "wantOrigin", "dialing"}
    /\ Set(c, Ended) /\ DropPermits(c)
    /\ UNCHANGED <<limits, proxy, preferH2>>

Dial(c) == Resolve(c) \/ CheckAddress(c) \/ DialTcp(c) \/ CheckProxy(c) \/ DialThroughProxy(c)
           \/ TlsHandshake(c) \/ Open(c)
ConnNext ==
    \E c \in Conns :
       \/ \E o \in OriginNames, scheme \in Schemes : Connect(c, o, scheme)
       \/ TakeGlobal(c) \/ TakeOrigin(c) \/ Dial(c)
       \/ Park(c) \/ Reuse(c) \/ Close(c) \/ DropAttempt(c)

ConnSpec == ConnInit /\ [][ConnNext]_connVars

-----------------------------------------------------------------------------
(* Connections of the engine and of each origin, pooled idle ones included, stay
   within their limits. *)
LimitsHeld ==
    /\ Cardinality(GlobalHeld) <= limits.total
    /\ \A o \in OriginNames : Cardinality(OriginHeld(o)) <= limits.perOrigin

(* The ledger meters exactly the connections that hold permits: no dial that
   fails or is dropped leaves its footprint behind. *)
IngressMetered == ingressCharged = Cardinality({c \in Conns : HoldsOrigin(c)})

(* Attempts never wait for one another in a circle: when all the engine's permits
   are taken, some holder needs nothing that a waiting attempt holds. *)
NoCircularWait ==
    Cardinality(GlobalHeld) = limits.total =>
        \E c \in GlobalHeld :
           \/ HoldsOrigin(c)
           \/ conn[c].step = "wantOrigin" /\ Cardinality(OriginHeld(conn[c].origin)) < limits.perOrigin
=============================================================================
