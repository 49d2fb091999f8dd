--------------------------- MODULE OrderInsurance ---------------------------
(***************************************************************************)
(* How an order gets its insurance: the operator's component               *)
(* (operator_component.py), the insurer's gateway (sdk/base_gateway.py in  *)
(* alt_insurer) and the insurer's component, three processes that call     *)
(* each other with bus.request.  Each waits for its answer on its own      *)
(* clock, and an answer that comes after its caller gave up is dropped     *)
(* while the work it reports stays done.                                   *)
(***************************************************************************)
EXTENDS InsuranceService

CONSTANTS
    Drones,
    Requests,   \* of each call, the messages it may be
    AGREGATOR_OFFER_RETRIES

ASSUME RetriesAssumption == AGREGATOR_OFFER_RETRIES \in Nat \ {0}

ASSUME RequestsAssumption ==
    /\ None \notin Calls \cup Payloads
    /\ \A c \in Calls : \A q \in Requests[c] : q.drone \in Drones

VARIABLES
    request,    \* the message the operator received for each call, or None
    op,         \* how far the operator's handler is
    answer,     \* what it returned: status, payload; None before
    registry,   \* self._drones in insertion order: drone, and the call whose
                \* handler made its record
    assigned,   \* of each record, the call it was assigned to, or None
    chosen,     \* the entry of the registry the handler of a call holds
    offers,     \* price_offer messages published for each call
    premium,    \* whether the offer's price includes a premium
    gw,         \* how far the insurer's gateway is with each call
    gwAnswer    \* its response, or None

operatorVars == <<request, op, answer, registry, assigned, chosen, offers, premium>>
vars == <<operatorVars, gw, gwAnswer, asked, serviceVars>>

Statuses == {"registered", "assigned", "insured", "incident_processed",
             "offer_sent", "nothing", "failed"}

TypeOK ==
    /\ \A c \in Calls : request[c] \in Requests[c] \cup {None}
    /\ op \in [Calls -> {"idle", "selecting", "waiting", "offering", "done"}]
    /\ answer \in [Calls -> [status : Statuses,
                             payload : Payloads \cup {None}] \cup {None}]
    /\ \A i \in 1..Len(registry) : registry[i] \in [drone : Drones, record : Calls]
    /\ assigned \in [Calls -> Calls \cup {None}]
    /\ chosen \in [Calls -> [drone : Drones, record : Calls] \cup {None}]
    /\ offers \in [Calls -> 0..AGREGATOR_OFFER_RETRIES]
    /\ premium \in [Calls -> BOOLEAN]
    /\ gw \in [Calls -> {"idle", "waiting", "done"}]
    /\ gwAnswer \in [Calls -> Response \cup {None}]
    /\ \A c \in Calls : served[c] \in Response \cup {None}
    /\ serving \in [Calls -> {"idle", "sent", "handling", "terminating", "done"}]
    /\ \A i \in 1..Len(policies) :
          policies[i] \in [call : Calls, status : {"active", "terminated"}]

Init ==
    /\ request = [c \in Calls |-> None]
    /\ op = [c \in Calls |-> "idle"]
    /\ answer = [c \in Calls |-> None]
    /\ registry = <<>>
    /\ assigned = [c \in Calls |-> None]
    /\ chosen = [c \in Calls |-> None]
    /\ offers = [c \in Calls |-> 0]
    /\ premium = [c \in Calls |-> FALSE]
    /\ gw = [c \in Calls |-> "idle"]
    /\ gwAnswer = [c \in Calls |-> None]
    /\ asked = [c \in Calls |-> None]
    /\ ServiceInit

-----------------------------------------------------------------------------
(* The operator's handlers.                                                 *)

Return(c, status, payload) ==
    /\ op' = [op EXCEPT ![c] = "done"]
    /\ answer' = [answer EXCEPT ![c] = [status |-> status, payload |-> payload]]

\* self._drones.get
Entries(d) == {registry[i] : i \in {j \in 1..Len(registry) : registry[j].drone = d}}

\* The record is new each time; the place of a known drone is kept.
Stored(d, c) ==
    IF Entries(d) = {} THEN Append(registry, [drone |-> d, record |-> c])
    ELSE [i \in 1..Len(registry) |->
             IF registry[i].drone = d THEN [drone |-> d, record |-> c] ELSE registry[i]]

Receives(c, kind, q) ==
    /\ op[c] = "idle" /\ q.kind = kind
    /\ request' = [request EXCEPT ![c] = q]

\* _handle_register_drone: the regulator may reject the certificate, or not
\* answer; nothing read before it is asked is used after.
RegisterDrone(c, q) ==
    /\ Receives(c, "register", q)
    /\ \/ registry' = Stored(q.drone, c) /\ Return(c, "registered", None)
       \/ UNCHANGED registry /\ Return(c, "failed", None)
    /\ UNCHANGED <<assigned, chosen, offers, premium, gw, gwAnswer, asked, serviceVars>>

\* _handle_select_drone looks the record up ...
LookUp(c, q) ==
    /\ Receives(c, "select", q)
    /\ \/ \E e \in Entries(q.drone) :
              /\ chosen' = [chosen EXCEPT ![c] = e]
              /\ op' = [op EXCEPT ![c] = "selecting"]
              /\ UNCHANGED answer
       \/ Entries(q.drone) = {} /\ Return(c, "failed", None) /\ UNCHANGED chosen
    /\ UNCHANGED <<registry, assigned, offers, premium, gw, gwAnswer, asked, serviceVars>>

\* Mutant: availability was seen to when the record was looked up.
AssignUnchecked(c) ==
    /\ op[c] = "selecting"
    /\ assigned' = [assigned EXCEPT ![chosen[c].record] = c]
    /\ Return(c, "assigned", None)
    /\ UNCHANGED <<request, registry, chosen, offers, premium, gw, gwAnswer, asked, serviceVars>>

\* ... and marks it, if it is still available; a registration in between has
\* put another record in its place.
Assign(c) ==
    /\ op[c] = "selecting"
    /\ IF assigned[chosen[c].record] = None
       THEN /\ assigned' = [assigned EXCEPT ![chosen[c].record] = c]
            /\ Return(c, "assigned", None)
       ELSE Return(c, "failed", None) /\ UNCHANGED assigned
    /\ UNCHANGED <<request, registry, chosen, offers, premium, gw, gwAnswer, asked, serviceVars>>

Ask(c, action, order, drone, numeric) ==
    /\ asked' = [asked EXCEPT ![c] = [action |-> action, order |-> order,
                                      drone |-> drone, numeric |-> numeric]]
    /\ op' = [op EXCEPT ![c] = "waiting"]

\* _handle_buy_insurance, up to its request to the insurer.
BuyInsurance(c, q) ==
    /\ Receives(c, "buy", q)
    /\ Ask(c, q.action, q.order, q.drone, q.numeric)
    /\ UNCHANGED <<answer, registry, assigned, chosen, offers, premium, gw, gwAnswer, serviceVars>>

\* _handle_create_order takes the first drone that is available; a budget that
\* is not a number raises at once, and so does the walk over the registry when a
\* handler that runs meanwhile adds a drone to those that are there.
CreateOrder(c, q) ==
    LET free == {i \in 1..Len(registry) : assigned[registry[i].record] = None} IN
    /\ Receives(c, "create", q)
    /\ \/ ~ q.numeric /\ Return(c, "failed", None) /\ UNCHANGED <<chosen, asked>>
       \/ q.numeric /\ Len(registry) > 1 /\ Return(c, "failed", None) /\ UNCHANGED <<chosen, asked>>
       \/ q.numeric /\ free = {} /\ Return(c, "nothing", None) /\ UNCHANGED <<chosen, asked>>
       \/ \E i \in free :
              /\ q.numeric /\ \A j \in free : i <= j
              /\ chosen' = [chosen EXCEPT ![c] = registry[i]]
              /\ Ask(c, "mission_insurance", q.order, registry[i].drone, TRUE)
              /\ UNCHANGED answer
    /\ UNCHANGED <<registry, assigned, offers, premium, gw, gwAnswer, serviceVars>>

\* Mutant: any success of the insurer counts as a premium.
ConcludeAnySuccess(c, r) ==
    LET success == r # None /\ r.success = "true" IN
    /\ op[c] = "waiting"
    /\ \/ /\ request[c].kind = "create"
          /\ premium' = [premium EXCEPT ![c] = success]
          /\ op' = [op EXCEPT ![c] = "offering"]
          /\ UNCHANGED answer
       \/ /\ request[c].kind = "buy"
          /\ Return(c, IF success THEN "insured" ELSE "failed", None)
          /\ UNCHANGED premium
    /\ UNCHANGED <<request, registry, assigned, chosen, offers, gw, gwAnswer, asked, serviceVars>>

\* What the handlers make of the insurer's response; None is a timeout.
Conclude(c, r) ==
    LET success == r # None /\ r.success = "true" IN
    /\ op[c] = "waiting"
    /\ \/ /\ request[c].kind = "create"
          /\ premium' = [premium EXCEPT ![c] = success /\ r.payload = "policy"]
          /\ op' = [op EXCEPT ![c] = "offering"]
          /\ UNCHANGED answer
       \/ /\ request[c].kind = "buy" /\ success
          /\ Return(c, IF asked[c].action = "report_incident" THEN "incident_processed"
                       ELSE "insured", r.payload)
          /\ UNCHANGED premium
       \/ request[c].kind = "buy" /\ ~ success /\ Return(c, "failed", None) /\ UNCHANGED premium
    /\ UNCHANGED <<request, registry, assigned, chosen, offers, gw, gwAnswer, asked, serviceVars>>

OpReceive(c) == gw[c] = "done" /\ Conclude(c, gwAnswer[c])

\* Mutant: a create_order whose insurer does not answer fails, as a purchase does.
OpTimeoutRaises(c) ==
    /\ op[c] = "waiting"
    /\ Return(c, "failed", None)
    /\ UNCHANGED <<request, registry, assigned, chosen, offers, premium,
                   gw, gwAnswer, asked, serviceVars>>

OpTimeout(c) == Conclude(c, None)

\* The price_offer is published again and again, two seconds apart.
PublishOffer(c) ==
    /\ op[c] = "offering"
    /\ offers' = [offers EXCEPT ![c] = @ + 1]
    /\ IF offers[c] + 1 = AGREGATOR_OFFER_RETRIES
       THEN Return(c, "offer_sent", None)
       ELSE UNCHANGED <<op, answer>>
    /\ UNCHANGED <<request, registry, assigned, chosen, premium, gw, gwAnswer, asked, serviceVars>>

-----------------------------------------------------------------------------
(* The insurer's gateway, BaseGateway._handle_proxy: whatever the component *)
(* answers, it returns a dict, and BaseSystem sends a dict with success.    *)

GwReturn(c, response) ==
    /\ gw' = [gw EXCEPT ![c] = "done"]
    /\ gwAnswer' = [gwAnswer EXCEPT ![c] = response]

\* An action that is not routed has no handler: the error it gets has no
\* "success" at all.
GwReceive(c) ==
    /\ asked[c] # None /\ gw[c] = "idle"
    /\ \/ /\ asked[c].action \in Actions
          /\ gw' = [gw EXCEPT ![c] = "waiting"]
          /\ serving' = [serving EXCEPT ![c] = "sent"]
          /\ UNCHANGED gwAnswer
       \/ /\ asked[c].action \notin Actions
          /\ GwReturn(c, Answer("missing", "error"))
          /\ UNCHANGED serving
    /\ UNCHANGED <<operatorVars, asked, policies, cursor, served>>

GwReply(c) ==
    /\ gw[c] = "waiting" /\ serving[c] = "done"
    /\ GwReturn(c, IF served[c].success = "true" THEN Answer("true", served[c].payload)
                   ELSE Answer("true", "error"))
    /\ UNCHANGED <<operatorVars, asked, serviceVars>>

GwTimeout(c) ==
    /\ gw[c] = "waiting"
    /\ GwReturn(c, Answer("true", "error"))
    /\ UNCHANGED <<operatorVars, asked, serviceVars>>

ServeCall(c) == Serve(c) /\ UNCHANGED <<operatorVars, gw, gwAnswer, asked>>

-----------------------------------------------------------------------------
Arrive(c) ==
    \E q \in Requests[c] :
        RegisterDrone(c, q) \/ LookUp(c, q) \/ BuyInsurance(c, q) \/ CreateOrder(c, q)

\* A call to request() comes back, with an answer or by its timeout.
OpWakes(c) == OpReceive(c) \/ OpTimeout(c)
GwWakes(c) == GwReply(c) \/ GwTimeout(c)

Next ==
    \E c \in Calls :
        \/ Arrive(c) \/ Assign(c) \/ OpWakes(c) \/ PublishOffer(c)
        \/ GwReceive(c) \/ GwWakes(c) \/ ServeCall(c)

Spec == Init /\ [][Next]_vars

\* A step the threads owe: future.result returns and handlers go on.  Nothing
\* says that a message the broker was given is delivered, so that GwReceive and
\* BeginServe are not among them.
Work(c) ==
    \/ Assign(c) \/ OpWakes(c) \/ PublishOffer(c) \/ GwWakes(c)
    \/ ServeCall(c) /\ serving[c] # "sent"

\* Some thread that can go on does; as the work of a call is finite, this is
\* as much as fairness to each of them.
FairSpec == Spec /\ WF_vars(\E c \in Calls : Work(c))

-----------------------------------------------------------------------------
HasPolicy(c) == \E i \in 1..Len(policies) : policies[i].call = c

\* A terminate_policy for the order of c is in its loop or past it.
Terminated(c) ==
    \E t \in Calls : /\ serving[t] \in {"terminating", "done"}
                     /\ asked[t].action = "terminate_policy"
                     /\ asked[t].order = asked[c].order

\* The operator shows a policy, or prices one, only if the insurer keeps
\* exactly one for that call, still active unless the order's policies were
\* being terminated -- however the two timeouts and the late answers fall.
PolicyBehindAnswer ==
    \A c \in Calls :
        (premium[c] \/ (answer[c] # None /\ answer[c].payload = "policy")) =>
            \E i \in 1..Len(policies) :
                /\ policies[i].call = c
                /\ \A j \in 1..Len(policies) : policies[j].call = c => j = i
                /\ policies[i].status = "active" \/ Terminated(c)

\* A terminate_policy that reports success has ended every policy of its order
\* there was when it began; the loop that met a new policy never does.
TerminateComplete ==
    \A t \in Calls :
        (asked[t] # None /\ asked[t].action = "terminate_policy" /\ served[t] # None
            /\ served[t].success = "true") =>
        \A i \in 1..cursor[t].size :
            asked[policies[i].call].order = asked[t].order => policies[i].status = "terminated"

\* Two handlers that both answer "assigned" hold different registrations of a
\* drone: a drone serves two orders only if it was registered again.
AssignedOncePerRegistration ==
    \A c, d \in Calls :
        (c # d /\ answer[c] # None /\ answer[d] # None
            /\ answer[c].status = "assigned" /\ answer[d].status = "assigned") =>
        chosen[c].record # chosen[d].record

\* An order that was given a drone gets all its offers, insured or not.
OffersGoOut ==
    <>[](\A c \in Calls :
            (request[c] # None /\ request[c].kind = "create" /\ chosen[c] # None) =>
                offers[c] = AGREGATOR_OFFER_RETRIES)

\* The handler of buy_insurance_policy answers "insured" to a purchase only
\* when the insurer has a policy: "success" is to say whether it worked
\* (alt_insurer/docs/module_overview.md).
InsuredHasPolicy ==
    \A c \in Calls :
        (answer[c] # None /\ answer[c].status = "insured"
            /\ asked[c].action \in PolicyActions) => HasPolicy(c)
=============================================================================
