------------------------------- MODULE Ledger -------------------------------
(* The way to the Fabric ledger.  A request comes over the bus, either to    *)
(* the ledger gateway (docker/ledger-gateway/consumer.py), which handles one *)
(* message after the other, or to a component of dummy_fabric, which has a   *)
(* thread for each.  Both call the fabric-proxy (docker/fabric-proxy/main.go)*)
(* over HTTP and wait for less than it may take.                             *)
EXTENDS Naturals, Sequences

CONSTANTS
    Requests,
    MaxRestarts,    \* bound on restarts of the ledger gateway
    None

CertCenter == {"IssueTypeCertificate", "CertifyFirmware", "CreateDronePass"}
CertCenterQueries == {"ReadDronePass", "ListDronePasses"}
Aggregator == {"CreateOrder", "AssignOrder", "RequestFlightPermission", "FinalizeOrder"}
AggregatorQueries == {"ReadOrder"}
Insurer == {"CreateInsuranceRecord", "ApproveOrder"}
InsurerQueries == {"ReadInsuranceRecord"}
Operator == {"ConfirmOrder", "StartOrder", "FinishOrder"}
Orvd == {"ApproveFlightPermission"}

Queries == CertCenterQueries \cup AggregatorQueries \cup InsurerQueries
Invokes == CertCenter \cup Aggregator \cup Insurer \cup Operator \cup Orvd

CONSTANT Methods    \* the methods asked for: a subset of Queries \cup Invokes

VARIABLES
    broker,         \* of the ledger gateway: "kafka" or "mqtt"
    method, route,  \* of each request: what it calls, and through what
    caller,         \* of each request: idle, waiting, ok, failed or gone
    log,            \* the messages of the gateway's topic
    position,       \* the gateway's next message
    offset,         \* what its group will start from
    busy,           \* the request the gateway is at
    restarts,       \* how often it started again
    tries,          \* HTTP calls made for a request
    proxy,          \* of each call: none, endorsing, committing, ok or error
    onLedger        \* of each call's transaction: no, sent or yes

requestVars == <<broker, method, route>>
gatewayVars == <<log, position, offset, busy, restarts>>
proxyVars == <<tries, proxy, onLedger>>
ledgerVars == <<requestVars, caller, gatewayVars, proxyVars>>

Calls == Requests \X (1..(MaxRestarts + 1))

Init ==
    /\ broker \in {"kafka", "mqtt"}
    /\ method \in [Requests -> Methods]
    /\ route \in [Requests -> {"gateway", "component"}]
    /\ caller = [r \in Requests |-> "idle"]
    /\ log = <<>> /\ position = 1 /\ offset = 1
    /\ busy = None /\ restarts = 0
    /\ tries = [r \in Requests |-> 0]
    /\ proxy = [c \in Calls |-> "none"]
    /\ onLedger = [c \in Calls |-> "no"]

\* urlopen and requests.post: a new call at the proxy.
CallFabricProxy(r) ==
    /\ tries' = [tries EXCEPT ![r] = @ + 1]
    /\ proxy' = [proxy EXCEPT ![<<r, tries[r] + 1>>] = "endorsing"]
    /\ UNCHANGED onLedger
LastCall(r) == <<r, tries[r]>>

Answered(r, answer) ==
    caller' = [caller EXCEPT ![r] = IF @ = "waiting" THEN answer ELSE @]
-----------------------------------------------------------------------------
(* The callers, and the components, whose threads answer for themselves.     *)

\* With MQTT the gateway listens on components/ledger, and so hears other clients; the
\* buses of this repository leave the dots in their topics and speak past it.
Request(r) ==
    /\ caller[r] = "idle"
    /\ caller' = [caller EXCEPT ![r] = "waiting"]
    /\ \/ /\ route[r] = "gateway"
          /\ log' = Append(log, r)
          /\ UNCHANGED <<position, offset, busy, restarts, proxyVars>>
       \/ /\ route[r] = "gateway" /\ broker = "mqtt"
          /\ UNCHANGED <<gatewayVars, proxyVars>>
       \/ /\ route[r] = "component"
          /\ CallFabricProxy(r)
          /\ UNCHANGED gatewayVars
    /\ UNCHANGED requestVars

\* FabricGateway asks its component for 60 s, other callers for as long as they like.
GiveUp(r) ==
    /\ caller[r] = "waiting"
    /\ caller' = [caller EXCEPT ![r] = "gone"]
    /\ UNCHANGED <<requestVars, gatewayVars, proxyVars>>

\* _call_fabric: what is not 200, or takes more than 60 s, is raised.
ComponentAnswers(r) ==
    /\ route[r] = "component" /\ caller[r] = "waiting"
    /\ \/ proxy[LastCall(r)] = "ok" /\ Answered(r, "ok")
       \/ proxy[LastCall(r)] # "ok" /\ Answered(r, "failed")
    /\ UNCHANGED <<requestVars, gatewayVars, proxyVars>>
-----------------------------------------------------------------------------
(* The ledger gateway.                                                       *)

Take ==
    /\ busy = None /\ position <= Len(log)
    /\ busy' = log[position]
    /\ position' = position + 1
    /\ CallFabricProxy(log[position])
    /\ UNCHANGED <<requestVars, caller, log, offset, restarts>>

\* The answer goes out, to a caller that may be gone, and with it the message is done.
Respond(answer) ==
    /\ Answered(busy, answer)
    /\ busy' = None
    /\ UNCHANGED <<requestVars, log, position, offset, restarts, proxyVars>>

GatewayAnswers ==
    /\ busy # None
    /\ \/ proxy[LastCall(busy)] = "ok" /\ Respond("ok")
       \/ proxy[LastCall(busy)] = "error" /\ Respond("failed")

\* A bug to check RequestsHandled against: no timeout.
HttpTimeoutNever == busy # None /\ FALSE /\ UNCHANGED ledgerVars

\* 30 s.  The proxy goes on.
HttpTimeout ==
    /\ busy # None /\ proxy[LastCall(busy)] \in {"endorsing", "committing"}
    /\ Respond("failed")

\* The consumer commits its position from time to time, when it asks for more.
CommitOffset ==
    /\ broker = "kafka" /\ busy = None /\ offset # position
    /\ offset' = position
    /\ UNCHANGED <<requestVars, caller, log, position, busy, restarts, proxyVars>>

\* A bug to check HandledForGood against: the topic is read from its beginning.
RestartFromStart ==
    /\ restarts < MaxRestarts
    /\ restarts' = restarts + 1
    /\ busy' = None
    /\ position' = 1
    /\ UNCHANGED <<requestVars, caller, log, offset, proxyVars>>

\* The process dies, or is so long at its messages that it is taken out of its group.
\* With Kafka it goes back to its offset, with MQTT it has missed what was there.
Restart ==
    /\ restarts < MaxRestarts
    /\ restarts' = restarts + 1
    /\ busy' = None
    /\ position' = IF broker = "kafka" THEN offset ELSE Len(log) + 1
    /\ UNCHANGED <<requestVars, caller, log, offset, proxyVars>>
-----------------------------------------------------------------------------
(* The proxy: SubmitTransaction endorses, submits and waits for the commit,  *)
(* each for a time of its own; EvaluateTransaction asks a peer.              *)

Proxied(c, to) == proxy' = [proxy EXCEPT ![c] = to]

HandleQuery(c) ==
    /\ proxy[c] = "endorsing" /\ method[c[1]] \in Queries
    /\ \E answer \in {"ok", "error"} : Proxied(c, answer)
    /\ UNCHANGED <<requestVars, caller, gatewayVars, tries, onLedger>>

\* A submit that fails may have reached the ordering service all the same.
Submit(c) ==
    /\ proxy[c] = "endorsing" /\ method[c[1]] \in Invokes
    /\ \/ Proxied(c, "error") /\ UNCHANGED onLedger
       \/ /\ \E to \in {"committing", "error"} : Proxied(c, to)
          /\ onLedger' = [onLedger EXCEPT ![c] = "sent"]
    /\ UNCHANGED <<requestVars, caller, gatewayVars, tries>>

\* The peers commit a transaction or find it invalid.
Commit(c) ==
    /\ onLedger[c] = "sent"
    /\ \E as \in {"yes", "no"} : onLedger' = [onLedger EXCEPT ![c] = as]
    /\ UNCHANGED <<requestVars, caller, gatewayVars, tries, proxy>>

\* A bug to check SuccessIsCommitted against: the answer does not wait for the commit.
CommitStatusUnchecked(c) ==
    /\ proxy[c] = "committing"
    /\ Proxied(c, "ok")
    /\ UNCHANGED <<requestVars, caller, gatewayVars, tries, onLedger>>

\* An invalid transaction is an error, and so is one minute of waiting.
CommitStatus(c) ==
    /\ proxy[c] = "committing"
    /\ \/ onLedger[c] = "yes" /\ Proxied(c, "ok")
       \/ onLedger[c] # "yes" /\ Proxied(c, "error")
    /\ UNCHANGED <<requestVars, caller, gatewayVars, tries, onLedger>>
-----------------------------------------------------------------------------
Gateway == Take \/ GatewayAnswers \/ HttpTimeout

Next ==
    \/ Gateway \/ CommitOffset \/ Restart
    \/ \E r \in Requests : Request(r) \/ GiveUp(r) \/ ComponentAnswers(r)
    \/ \E c \in Calls : HandleQuery(c) \/ Submit(c) \/ Commit(c) \/ CommitStatus(c)

\* The gateway's loop runs; the proxy and the peers may be silent for ever.
Spec == Init /\ [][Next]_ledgerVars /\ WF_ledgerVars(Gateway)
-----------------------------------------------------------------------------
TypeOK ==
    /\ caller \in [Requests -> {"idle", "waiting", "ok", "failed", "gone"}]
    /\ proxy \in [Calls -> {"none", "endorsing", "committing", "ok", "error"}]
    /\ onLedger \in [Calls -> {"no", "sent", "yes"}]
    /\ offset <= position /\ position <= Len(log) + 1

\* A caller that is told of success by a call that writes has its transaction on the
\* ledger, through all the timeouts on the way.
SuccessIsCommitted ==
    \A r \in Requests : caller[r] = "ok" /\ method[r] \in Invokes =>
        \E c \in Calls : c[1] = r /\ onLedger[c] = "yes"

\* A message behind the offset the gateway has committed is never given to the proxy
\* again, whatever restarts: only what was handled since then is done twice.
HandledForGood ==
    [][\A i \in 1..(offset - 1) : tries'[log[i]] = tries[log[i]]]_ledgerVars

\* A message the gateway hears is handled some time, with a silent proxy as well: it
\* gets past it, unless it was MQTT and a restart lost it.
RequestsHandled ==
    \A r \in Requests :
        (\E i \in DOMAIN log : log[i] = r) ~>
            (tries[r] > 0 /\ busy # r) \/ (broker = "mqtt" /\ restarts > 0)
=============================================================================
