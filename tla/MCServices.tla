---------------------------- MODULE MCServices -----------------------------
(* Five models for TLC in one run: a component on the bus, a bus's           *)
(* subscriptions, the way to the ledger, the operator's prices and the model *)
(* demo.  They do not interact: "part" says which of them a behaviour is     *)
(* about, and the others stay in one of their initial states.                *)
EXTENDS OperatorBusiness, Sequences

CONSTANTS
    None,
    Messages, Other, BatchSize,             \* BusComponent
    Topics, Reply,                          \* BusSubscriptions
    Requests, First, MaxRestarts, Methods,  \* Ledger
    Imeis, MaxPrice, MaxLaunches            \* DemoWorld

\* AnalyticsJournal: the two threads that handle no event.
ASSUME MessagesAssumption == {"flush", "stop"} \cap Messages = {}

VARIABLES
    part,
    class, safe, action, wants, place, outbox, sent, policy, allowed,
    arrived, buffer, inHand, posted, lost, journal,
    kind, started, pool, callbacks, op, deaf, running, loop, outlived,
    client, link, connected, greeted, subscribed,
    broker, method, route, caller, log, position, offset, busy, restarts,
    tries, proxy, onLedger,
    inbox, at, locals, reply, calls, brokerUp,
    saved, launches, counter, registry, park, approved, dispatched, landed

M(d, t, c) == [distance |-> d, duration |-> t, cargo |-> c]

\* A mission like others, and such as bring the cost down to some kopecks or below 0.
MCMissions ==
    {M(10, 30, 10000), M(-10, 0, 1), M(-10, 0, 5), M(-11, 0, 0), M(7, -25, 11), M(-10, 1, -800)}

\* The processes of sbd_demo.py.
DemoEntities ==
    {"customer", "aggregator", "operator_1", "operator_2", "insurer", "vendor_uas",
     "droneport_A", "droneport_B", "gcs", "agro_drone", "sitl", "atm", "regulator"}

Component == INSTANCE BusComponent
Bus == INSTANCE BusSubscriptions WITH Kinds <- {"kafka", "mqtt"}
Fabric == INSTANCE Ledger
Demo == INSTANCE DemoWorld WITH
    Entities <- DemoEntities, Orchestrator <- "main", sent <- calls

componentPart ==
    <<class, safe, action, wants, place, outbox, sent, policy, allowed,
      arrived, buffer, inHand, posted, lost, journal>>
subscriptionsPart ==
    <<kind, started, pool, callbacks, op, deaf, running, loop, outlived,
      client, link, connected, greeted, subscribed>>
ledgerPart ==
    <<broker, method, route, caller, log, position, offset, busy, restarts,
      tries, proxy, onLedger>>
demoPart ==
    <<inbox, at, locals, reply, calls, brokerUp,
      saved, launches, counter, registry, park, approved, dispatched, landed>>
servicesVars ==
    <<part, businessVars, componentPart, subscriptionsPart, ledgerPart, demoPart>>
-----------------------------------------------------------------------------
(* A part that is not looked at stands still in one initial state.           *)

\* One message of every kind, against one that has an action and no reply_to
\* and mostly feeds the journal.
ComponentInit ==
    /\ Component!Init
    /\ action[Other] = "known" /\ ~wants[Other]
    /\ part # "component" =>
        /\ class = "component" /\ ~safe /\ policy = Component!Sends
        /\ action = [m \in Messages |-> "known"] /\ wants = [m \in Messages |-> FALSE]

\* A call that writes, through the gateway, and behind it one that reads, or one
\* that writes through a component.
LedgerInit ==
    /\ Fabric!Init
    /\ method[First] = "CreateOrder" /\ route[First] = "gateway"
    /\ part = "ledger" =>
        \A r \in Requests \ {First} : (method[r] = "ReadOrder") = (route[r] = "gateway")
    /\ part # "ledger" =>
        /\ broker = "kafka"
        /\ method = [r \in Requests |-> "CreateOrder"] /\ route = [r \in Requests |-> "gateway"]

MCInit ==
    /\ part \in {"component", "subscriptions", "ledger", "business", "demo"}
    /\ Init
    /\ ComponentInit
    /\ Bus!Init /\ (part # "subscriptions" => kind = "kafka")
    /\ LedgerInit
    /\ Demo!Init

MCNext ==
    /\ UNCHANGED part
    /\ \/ /\ part = "component" /\ Component!Next
          /\ UNCHANGED <<subscriptionsPart, ledgerPart, businessVars, demoPart>>
       \/ /\ part = "subscriptions" /\ Bus!Next
          /\ UNCHANGED <<componentPart, ledgerPart, businessVars, demoPart>>
       \/ /\ part = "ledger" /\ Fabric!Next
          /\ UNCHANGED <<componentPart, subscriptionsPart, businessVars, demoPart>>
       \/ /\ part = "business" /\ Next
          /\ UNCHANGED <<componentPart, subscriptionsPart, ledgerPart, demoPart>>
       \/ /\ part = "demo" /\ Demo!Next
          /\ UNCHANGED <<componentPart, subscriptionsPart, ledgerPart, businessVars>>

\* The fairness of Ledger and of DemoWorld: no liveness of another part is checked.
MCSpec ==
    /\ MCInit /\ [][MCNext]_servicesVars
    /\ WF_servicesVars(/\ part = "ledger" /\ Fabric!Gateway
                       /\ UNCHANGED <<part, componentPart, subscriptionsPart, businessVars, demoPart>>)
    /\ WF_servicesVars(/\ part = "demo" /\ Demo!Shutdown
                       /\ UNCHANGED <<part, componentPart, subscriptionsPart, ledgerPart, businessVars>>)
    /\ WF_servicesVars(/\ part = "demo" /\ Demo!EntitySteps
                       /\ UNCHANGED <<part, componentPart, subscriptionsPart, ledgerPart, businessVars>>)
-----------------------------------------------------------------------------
(* The properties of the parts, which their modules explain.                 *)

\* BusComponent: one answer for a message, or one dead letter.
AnsweredOnce == Component!AnsweredOnce

\* BusComponent: a SafeBus lets nothing out that the monitor did not allow.
NothingUnchecked == Component!NothingUnchecked

\* AnalyticsJournal: an event is in one place.
EventsKept == Component!EventsKept

\* BusSubscriptions: a Kafka subscription has its consumer.
SubscribedIsServed == Bus!SubscribedIsServed

\* BusSubscriptions: an MQTT session has the bus's subscriptions.
ResubscribedOnConnect == Bus!ResubscribedOnConnect

\* Ledger: success means a transaction on the ledger.
SuccessIsCommitted == Fabric!SuccessIsCommitted

\* Ledger: what is behind the committed offset is not done again.
HandledForGood == Fabric!HandledForGood

\* Ledger: the gateway gets past every request.
RequestsHandled == Fabric!RequestsHandled

\* DemoWorld: what flies was planned, validated, prepared and is the cheapest.
FlownAsAgreed == Demo!FlownAsAgreed

\* DemoWorld: what the orchestrator takes for done is done.
AcceptedIsDone == Demo!AcceptedIsDone

\* DemoWorld: told to stop, everybody does.
EveryoneStops == Demo!EveryoneStops
=============================================================================
