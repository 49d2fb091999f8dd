------------------------------ MODULE DemoWorld ------------------------------
(* The model demo: onboarding (a firmware certificate, one registration, a   *)
(* purchase) and an order flown from end to end, by thirteen processes that  *)
(* each work on the copy of the world they were forked with.  Only what the  *)
(* orchestrator learns from the answers reaches the saved world.             *)
EXTENDS DemoRpc, FiniteSets

CONSTANTS
    Imeis,          \* those of one purchase
    MaxPrice,       \* what the customer pays at most
    MaxLaunches     \* bound: scenarios run one after another

VARIABLES
    saved,          \* the world in the YAML file
    launches,       \* scenarios started
    counter,        \* the regulator's copy of the last registration number
    registry,       \* the regulator's copy of the registered numbers
    park,           \* the UAS at a port, by the port's own copy
    approved,       \* missions the ATM has validated
    dispatched,     \* at a port: <<mission, uas>> prepared for
    landed          \* plans whose mission was allowed to land (history)

cityVars == <<counter, registry, park, approved, dispatched, landed>>
vars == <<rpcVars, cityVars, saved, launches>>

OperatorIds == <<"operator_1", "operator_2">>
Operators == {"operator_1", "operator_2"}
Ports == <<"droneport_A", "droneport_B">>
Droneports == {"droneport_A", "droneport_B"}
TargetPort == "droneport_B"

\* build_world
Uas(model, number, cost) == [model |-> model, number |-> number, cost |-> cost]
BuildWorld ==
    [certificates |-> 0, counter |-> 0, registry |-> {},
     park |-> [p \in Droneports |-> IF p = "droneport_A" THEN <<Uas("agro-model-1", 0, 9000)>>
                                                        ELSE <<Uas("agro-model-3", 0, 9500)>>]]
Goals(operator) == {"AUTH_001", "SAF_002"} \cup (IF operator = "operator_1" THEN {"CONSTR_010"} ELSE {})

\* Those of the scenario and the aggregator's own.
OrderGoals == {"AUTH_001", "SAF_002"} \cup {"CONSTR_010"}

\* A bug to check FlownAsAgreed against: the comparison is turned around.
Dearest(s) ==
    s[CHOOSE i \in DOMAIN s : \A j \in DOMAIN s : s[i].cost > s[j].cost \/ (s[i].cost = s[j].cost /\ i <= j)]

\* min() and sort(): the first of the cheapest.
Cheapest(s) ==
    s[CHOOSE i \in DOMAIN s : \A j \in DOMAIN s : s[i].cost < s[j].cost \/ (s[i].cost = s[j].cost /\ i <= j)]

Init ==
    /\ RpcInit
    /\ saved = BuildWorld
    /\ launches = 0
    /\ counter = 0 /\ registry = {} /\ park = BuildWorld.park
    /\ approved = {} /\ landed = {}
    /\ dispatched = [p \in Droneports |-> {}]
-----------------------------------------------------------------------------
(* Handlers that answer at once.                                             *)

Leaf(e, action, value) == Asked(e, action) /\ Respond(e, Ok(value))

InsuranceQuote ==
    /\ Leaf("insurer", "request_insurance_quote", 1000)
    /\ UNCHANGED cityVars

\* The mission is named after the request; the order names the port to land at.
MissionPlanning ==
    /\ Asked("gcs", "mission_planning")
    /\ LET q == Request("gcs") IN
       Respond("gcs", Ok([mission |-> <<q.from, q.id>>, uas |-> q.args.uas, port |-> q.args.port,
                          return_port |-> TargetPort]))
    /\ UNCHANGED cityVars

SitlSimulate ==
    /\ Leaf("sitl", "sitl_simulate", "simulated")
    /\ UNCHANGED cityVars

ValidateMission ==
    /\ Leaf("atm", "validate_mission", "approved")
    /\ approved' = approved \cup {Request("atm").args.mission}
    /\ UNCHANGED <<counter, registry, park, dispatched, landed>>

TakeoffPermission ==
    /\ Leaf("atm", "request_takeoff_permission", Request("atm").args.mission \in approved)
    /\ UNCHANGED cityVars

FirmwareCert ==
    /\ Leaf("regulator", "request_firmware_certification", "approved")
    /\ UNCHANGED cityVars

\* The number goes up by one, for every type and vendor; the demo has one pair.
UasRegistration ==
    /\ Leaf("regulator", "request_uas_registration", counter + 1)
    /\ counter' = counter + 1
    /\ registry' = registry \cup {counter + 1}
    /\ UNCHANGED <<park, approved, dispatched, landed>>

GetAvailableUas(p) ==
    /\ Leaf(p, "get_available_uas", park[p])
    /\ UNCHANGED cityVars

PrepareDispatch(p) ==
    /\ Leaf(p, "prepare_dispatch", "dispatch_ready")
    /\ LET m == Request(p).args IN
       dispatched' = [dispatched EXCEPT ![p] = {d \in @ : d[1] # m.mission} \cup {<<m.mission, m.uas>>}]
    /\ UNCHANGED <<counter, registry, park, approved, landed>>

CheckReady(p) ==
    /\ LET ready == <<Request(p).args.mission, Request(p).args.uas>> \in dispatched[p]
       IN Leaf(p, "check_droneport_ready", ready)
    /\ UNCHANGED cityVars

\* Allowed as long as there are coordinates, and the mission has some.
LandingPermission(p) ==
    /\ Leaf(p, "request_landing_permission", "landing_allowed")
    /\ landed' = landed \cup {Request(p).args}
    /\ UNCHANGED <<counter, registry, park, approved, dispatched>>

AssignUas(p) ==
    /\ Leaf(p, "assign_uas_to_droneport", Len(Request(p).args))
    /\ park' = [park EXCEPT ![p] = @ \o Request(p).args]
    /\ UNCHANGED <<counter, registry, approved, dispatched, landed>>
-----------------------------------------------------------------------------
(* Handlers that call others.                                                *)

PlaceOrder ==
    /\ \/ /\ Asked("customer", "place_order")
          /\ Call("customer", "aggregator", "receive_order", Request("customer").args, None)
       \/ /\ Answered("customer", "place_order", "receive_order")
          /\ Respond("customer", reply["customer"])
    /\ UNCHANGED cityVars

AskOperator(n, proposals) ==
    Call("aggregator", OperatorIds[n], "proposal_request", Request("aggregator").args,
         [asked |-> n, proposals |-> proposals])

\* Operators are asked one after another; an operator that does not answer ends
\* the order.  How the execution ends makes no difference to the aggregator.
ReceiveOrder ==
    /\ \/ /\ Asked("aggregator", "receive_order")
          /\ AskOperator(1, <<>>)
       \/ /\ Answered("aggregator", "receive_order", "proposal_request")
          /\ LET l == locals["aggregator"]
                 r == reply["aggregator"]
                 got == IF r.ok THEN Append(l.proposals, r.of) ELSE l.proposals
                 offers == [i \in {k \in DOMAIN got : got[k].cost <= MaxPrice} |-> got[i]]
             IN  IF l.asked < Len(OperatorIds) THEN AskOperator(l.asked + 1, got)
                 ELSE IF DOMAIN offers = {} THEN Respond("aggregator", Failed)
                 ELSE LET chosen == Cheapest(offers) IN
                      Call("aggregator", chosen.operator, "assign_order", chosen.selected, chosen)
       \/ /\ Answered("aggregator", "receive_order", "assign_order")
          /\ LET r == reply["aggregator"] IN
             Respond("aggregator", Ok(IF r.ok THEN r.of ELSE Failed))
    /\ UNCHANGED cityVars

AskPort(e, n, candidates) ==
    Call(e, Ports[n], "get_available_uas", None, [asked |-> n, candidates |-> candidates])

\* _on_proposal_request.  A price is its cost, the premium and a margin of 10%; an
\* insurer that answers with an error is taken for one that asks for nothing.
ProposalRequest(e) ==
    /\ \/ /\ Asked(e, "proposal_request")
          /\ IF Request(e).args \subseteq Goals(e) THEN AskPort(e, 1, <<>>) ELSE Respond(e, Failed)
       \/ /\ Answered(e, "proposal_request", "get_available_uas")
          /\ LET n == locals[e].asked
                 here == [i \in DOMAIN reply[e].of |->
                            [port |-> Ports[n], uas |-> reply[e].of[i], cost |-> reply[e].of[i].cost]]
                 all == locals[e].candidates \o here
             IN  IF n < Len(Ports) THEN AskPort(e, n + 1, all)
                 ELSE IF all = <<>> THEN Respond(e, Failed)
                 ELSE Call(e, "insurer", "request_insurance_quote", None, Cheapest(all))
       \/ /\ Answered(e, "proposal_request", "request_insurance_quote")
          /\ LET premium == IF reply[e].ok THEN reply[e].of ELSE 0
                 price == ((locals[e].cost + premium) * 11) \div 10
             IN  IF price > MaxPrice THEN Respond(e, Failed)
                 ELSE Respond(e, Ok([operator |-> e, selected |-> locals[e], cost |-> price]))
    /\ UNCHANGED cityVars

\* _on_assign_order: plan, have it validated, prepare the port, fly.
AssignOrder(e) ==
    /\ \/ /\ Asked(e, "assign_order")
          /\ Call(e, "gcs", "mission_planning", Request(e).args, None)
       \/ /\ Answered(e, "assign_order", "mission_planning")
          /\ IF reply[e].ok
             THEN Call(e, "atm", "validate_mission", reply[e].of, reply[e].of)
             ELSE Respond(e, Failed)
       \/ /\ Answered(e, "assign_order", "validate_mission")
          /\ IF reply[e].ok
             THEN Call(e, Request(e).args.port, "prepare_dispatch", locals[e], locals[e])
             ELSE Respond(e, Failed)
       \/ /\ Answered(e, "assign_order", "prepare_dispatch")
          /\ Call(e, "agro_drone", "agro_mission_received", locals[e], None)
       \/ /\ Answered(e, "assign_order", "agro_mission_received")
          /\ Respond(e, Ok(reply[e]))
    /\ UNCHANGED cityVars

\* _on_agro_mission
AgroMission ==
    LET e == "agro_drone"
        m == Request(e).args
        After(call) == Answered(e, "agro_mission_received", call)
    IN  /\ \/ Asked(e, "agro_mission_received") /\ Call(e, "atm", "request_takeoff_permission", m, None)
           \/ /\ After("request_takeoff_permission")
              /\ IF reply[e].ok /\ reply[e].of
                 THEN Call(e, m.port, "check_droneport_ready", m, None)
                 ELSE Respond(e, Failed)
           \/ /\ After("check_droneport_ready")
              /\ IF reply[e].ok /\ reply[e].of
                 THEN Call(e, "sitl", "sitl_simulate", m, None)
                 ELSE Respond(e, Failed)
           \/ After("sitl_simulate") /\ Call(e, m.return_port, "request_landing_permission", m, None)
           \/ After("request_landing_permission") /\ Respond(e, Ok(m))
        /\ UNCHANGED cityVars

\* _on_firmware_certification, _on_uas_registration: the regulator's answer.
VendorForwards(action) ==
    /\ \/ Asked("vendor_uas", action) /\ Call("vendor_uas", "regulator", action, None, None)
       \/ Answered("vendor_uas", action, action) /\ Respond("vendor_uas", reply["vendor_uas"])
    /\ UNCHANGED cityVars

\* The vendor's _on_uas_purchase: a registration for each UAS.
VendorPurchase ==
    LET Register(numbers) == Call("vendor_uas", "regulator", "request_uas_registration", None, numbers) IN
    /\ \/ Asked("vendor_uas", "request_uas_purchase") /\ Register(<<>>)
       \/ /\ Answered("vendor_uas", "request_uas_purchase", "request_uas_registration")
          /\ LET numbers == Append(locals["vendor_uas"], reply["vendor_uas"].of) IN
             IF ~reply["vendor_uas"].ok THEN Respond("vendor_uas", Failed)
             ELSE IF Len(numbers) < Cardinality(Imeis) THEN Register(numbers)
             ELSE Respond("vendor_uas", Ok(numbers))
    /\ UNCHANGED cityVars

\* The operator's _on_uas_purchase: buy, then put the UAS into the port's park.
OperatorPurchase(e) ==
    /\ \/ /\ Asked(e, "request_uas_purchase")
          /\ Call(e, "vendor_uas", "request_uas_purchase", None, None)
       \/ /\ Answered(e, "request_uas_purchase", "request_uas_purchase")
          /\ IF reply[e].ok
             THEN LET items == [i \in DOMAIN reply[e].of |-> Uas("agro-model-new", reply[e].of[i], 9800)]
                  IN Call(e, TargetPort, "assign_uas_to_droneport", items, items)
             ELSE Respond(e, Failed)
       \/ /\ Answered(e, "request_uas_purchase", "assign_uas_to_droneport")
          /\ Respond(e, Ok(locals[e]))
    /\ UNCHANGED cityVars
-----------------------------------------------------------------------------
(* The orchestrator.                                                         *)

Main == Orchestrator
MainAnswered(call) == at[Main] = call /\ reply[Main] # None

\* The first request of a scenario goes out as soon as everybody is started.
Launch(to, action, args) ==
    /\ at[Main] = "ready" /\ launches < MaxLaunches
    /\ StartAll
    /\ launches' = launches + 1
    /\ inbox' = [e \in Entities |-> IF e = to
                   THEN <<[from |-> Main, id |-> 1, action |-> action, args |-> args]>> ELSE <<>>]
    /\ sent' = [p \in Processes |-> IF p = Main THEN 1 ELSE 0]
    /\ at' = [p \in Processes |-> IF p = Main THEN action ELSE "ready"]
    /\ locals' = [p \in Processes |-> None]
    /\ counter' = saved.counter /\ registry' = saved.registry /\ park' = saved.park
    /\ approved' = {} /\ landed' = {} /\ dispatched' = [p \in Droneports |-> {}]
    /\ UNCHANGED saved

\* scenario_certification_and_purchase.  An answer that is not what was asked for
\* fails an assertion or a lookup, and then nothing is saved.
Onboarding ==
    \/ Launch("vendor_uas", "request_firmware_certification", None)
    \/ /\ \/ /\ MainAnswered("request_firmware_certification")
             /\ IF reply[Main].ok
                THEN Call(Main, "vendor_uas", "request_uas_registration", None, None)
                ELSE StopAll(None)
          \/ /\ MainAnswered("request_uas_registration")
             /\ IF reply[Main].ok
                THEN Call(Main, "operator_1", "request_uas_purchase", None, [registered |-> reply[Main].of])
                ELSE StopAll(None)
          \/ /\ MainAnswered("request_uas_purchase")
             /\ IF reply[Main].ok /\ Len(reply[Main].of) = 2
                THEN StopAll([registered |-> locals[Main].registered, bought |-> reply[Main].of])
                ELSE StopAll(None)
       /\ UNCHANGED <<cityVars, saved, launches>>

\* A bug to check AcceptedIsDone against: the status of the answer is enough.
AcceptedByStatus(answer) == answer.ok

\* The result carries the coordinates of the port the order names.
Accepted(answer) == answer.ok /\ answer.of.ok /\ answer.of.of.return_port = TargetPort

\* scenario_customer_agro_order
Order ==
    \/ Launch("customer", "place_order", OrderGoals)
    \/ /\ MainAnswered("place_order")
       /\ IF Accepted(reply[Main]) THEN StopAll([flown |-> reply[Main].of.of]) ELSE StopAll(None)
       /\ UNCHANGED <<cityVars, saved, launches>>

\* _wait_for_rpc_main raises TimeoutError.
MainGivesUp ==
    /\ Waiting(Main) /\ reply[Main] = None
    /\ StopAll(None)
    /\ UNCHANGED <<cityVars, saved, launches>>

Greatest(S) == CHOOSE n \in S : \A k \in S : k <= n

\* A list of UAS after those of items are put at its end, one after another, but
\* for one that is in it already.
WithNew(list, items) ==
    LET Known(done, u) == \E i \in DOMAIN done : done[i].model = u.model /\ done[i].number = u.number
        with[n \in 0 .. Len(items)] ==
            IF n = 0 THEN list
            ELSE IF Known(with[n - 1], items[n]) THEN with[n - 1]
            ELSE Append(with[n - 1], items[n])
    IN  with[Len(items)]

\* merge_onboarding_into_world and sync_registration_counters.
Merged(world, result) ==
    LET bought == {result.bought[i].number : i \in DOMAIN result.bought}
        registered == world.registry \cup {result.registered} \cup bought
    IN  [certificates |-> world.certificates + 1,
         counter      |-> Greatest(registered \cup {world.counter}),
         registry     |-> registered,
         park         |-> [world.park EXCEPT ![TargetPort] = WithNew(@, result.bought)]]

\* _shutdown returns (it waits 5 s for each process, stopped or not), and what was
\* accepted is saved.
Save ==
    /\ at[Main] = "closing"
    /\ at' = [at EXCEPT ![Main] = "ready"]
    /\ locals' = [locals EXCEPT ![Main] = None]
    /\ saved' = IF locals[Main] # None /\ "bought" \in DOMAIN locals[Main]
                THEN Merged(saved, locals[Main]) ELSE saved
    /\ UNCHANGED <<inbox, reply, sent, brokerUp, cityVars, launches>>

\* run_all_demo begins with an empty file.
ResetContext ==
    /\ at[Main] = "ready" /\ saved # BuildWorld
    /\ saved' = BuildWorld
    /\ UNCHANGED <<rpcVars, cityVars, launches>>

Shutdown == StopBroker /\ UNCHANGED <<cityVars, saved, launches>>
-----------------------------------------------------------------------------
Handles(e) ==
    \/ e = "insurer" /\ InsuranceQuote
    \/ e = "gcs" /\ MissionPlanning
    \/ e = "sitl" /\ SitlSimulate
    \/ e = "atm" /\ (ValidateMission \/ TakeoffPermission)
    \/ e = "regulator" /\ (FirmwareCert \/ UasRegistration)
    \/ e \in Droneports /\ \/ GetAvailableUas(e) \/ PrepareDispatch(e) \/ CheckReady(e)
                           \/ LandingPermission(e) \/ AssignUas(e)
    \/ e = "customer" /\ PlaceOrder
    \/ e = "aggregator" /\ ReceiveOrder
    \/ e \in Operators /\ (ProposalRequest(e) \/ AssignOrder(e) \/ OperatorPurchase(e))
    \/ e = "agro_drone" /\ AgroMission
    \/ e = "vendor_uas" /\ \/ VendorForwards("request_firmware_certification")
                           \/ VendorForwards("request_uas_registration")
                           \/ VendorPurchase

\* BaseEntity.run
EntityStep(e) ==
    /\ Handles(e) \/ ((GiveUp(e) \/ TakeStop(e)) /\ UNCHANGED cityVars)
    /\ UNCHANGED <<saved, launches>>

EntitySteps == \E e \in Entities : EntityStep(e)

MainStep == Onboarding \/ Order \/ MainGivesUp \/ Shutdown \/ Save \/ ResetContext

Next == EntitySteps \/ MainStep

\* Processes that can take a step are not all kept from it for ever: they are
\* scheduled, and every wait has a deadline.
Fairness == WF_vars(Shutdown) /\ WF_vars(EntitySteps)

Spec == Init /\ [][Next]_vars /\ Fairness
-----------------------------------------------------------------------------
\* What flies was planned for an operator that covers the goals of the order, is
\* validated by the ATM and prepared at the port it starts from, and is a UAS of
\* that port that costs no more than any other.
FlownAsAgreed ==
    LET m == Request("agro_drone").args IN
    at["agro_drone"] \in {"sitl_simulate", "request_landing_permission"} =>
        /\ m.mission \in approved /\ OrderGoals \subseteq Goals(m.mission[1])
        /\ <<m.mission, m.uas>> \in dispatched[m.port]
        /\ \E i \in DOMAIN park[m.port] : park[m.port][i] = m.uas
        /\ \A p \in Droneports : \A i \in DOMAIN park[p] : m.uas.cost <= park[p][i].cost

\* What the orchestrator takes for done is done, although every answer on the way
\* may be missing or be about something else: the mission of the order has landed,
\* the numbers saved are registered and the UAS bought are in the park.
AcceptedIsDone ==
    at[Main] \in {"stopping", "closing"} /\ locals[Main] # None =>
        LET done == locals[Main] IN
        IF "bought" \in DOMAIN done
        THEN /\ done.registered \in registry
             /\ \A i \in DOMAIN done.bought :
                    /\ done.bought[i].number \in registry
                    /\ \E j \in DOMAIN park[TargetPort] : park[TargetPort][j] = done.bought[i]
        ELSE done.flown \in landed

\* Once told to stop, everybody does, although by then the broker answers no one.
EveryoneStops == at[Main] = "stopping" ~> \A e \in Entities : at[e] = "stopped"
=============================================================================
