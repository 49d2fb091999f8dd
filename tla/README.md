# A verification model of the drone economics systems

This directory holds TLA+ models of the programs in this repository, the TLC
configurations that check them on small instances, and proofs of their most
important properties for every value of their constants. Paths are relative to
`src/`; `PROJECT.json` maps each definition to the lines it translates and lists
the hazards of the code, each with the properties that would catch it.

To check a run: `tlc -config bus_kafka.cfg MCSystemBus`. To check a module's
proofs: `tlapm SystemBusProofs.tla`.

## 1. The system

Independent systems (operator, insurer, regulator, drone developer, ledger) talk
over one message broker, Kafka or MQTT. A system is a *gateway* with some
*components* behind it. Every one of them is a process with a bus object and a
dictionary of handlers; a handler runs in the bus's thread pool and may itself
call other components with `bus.request`, which blocks it until an answer comes
or a timeout passes. Apart from the drone developer's services, which keep SQLite
databases, all state is in memory, in dictionaries and lists that (but for the
table of pending requests, the callbacks of MQTT and the journal's buffer) no lock
protects.

The hard behaviours all come from that: handlers of one process interleave; every
link of a chain of calls has a timeout of its own, and an answer that comes after
its caller gave up is dropped while the work it reports stays done; messages are
lost and delivered again; state read before a nested call is used after it; and
one logical operation changes the state of several processes, of which some may fail.

### Inventory

| Component | State | Operations | Interacts with | Hard behaviour | What makes it correct |
|---|---|---|---|---|---|
| **SystemBus** `broker/` | table of pending Futures, callbacks, executor queue, consumers | publish, request, subscribe, unsubscribe, start, stop; delivery of messages and replies | everything | replies racing timeouts, redelivery, a pool whose workers wait for jobs of that pool, stop() under load | each call returns once, with the callee's answer or None; no leaked entry, no lost wake-up |
| **BaseComponent, BaseSystem** `sdk/` | handler table | dispatch of a message to its handler, response, dead letters | bus, journal | what an exception in a handler becomes | the response tells success from failure |
| **BaseGateway** `sdk/base_gateway.py` | routing table | `_handle_proxy`: forward and answer | bus, components behind it | its timeout against the caller's and the component's | as above |
| **SafeBus** `sdk/safe_bus.py` | none | check with a monitor, then publish or request | bus, monitor | the monitor does not answer; policies change after the check | nothing unapproved goes out |
| **Journals** `sdk/analytics_journal.py` and others | a locked buffer, a flush thread | log, flush, stop | bus, HTTP | flush against log, stop against log, failed posts | every event is posted once |
| **Fleet manager** `systems/operator/.../fleet_manager` | registry of units, extended data, reservation cache, purchase history | reserve, release, update, search, purchase | bus, developer | handlers interleave in core and service without a lock | a unit is held by one mission, and only with a valid certificate; caches agree |
| **Mission planner** `.../mission_planner` | missions, plans in the air, history, templates | create, update, approve, start, complete, abort, templates, clean-up | none | decisions made on plans that change later | missions in the air are safe and apart; what is checked is what is flown |
| **Operator component** `.../operator_component` | registry of drones | register with a certificate, select, buy insurance, create order with offers, mission upload to ORVD | insurer, regulator, ORVD, aggregator, ground station | nested calls inside unlocked handlers | what it tells the customer is what the others did; a certificate and a registration are asked for before they are used |
| **Operator clients** `.../operator_clients` | cache of catalogs | load from YAML or over the bus, find, purchase | fleet manager, developer | handlers that hold a catalog the cache has replaced | no catalog sells more than its stock |
| **Alternative insurer** `systems/alt_insurer` | policies, incidents, flight statistics | calculate, annual and mission policies, incident, terminate | bus | a loop over a dictionary other handlers extend | a policy behind every answer; terminations complete |
| **Operator security monitor** `.../security_monitor` | request history, audit log, counters, violations | validate a request against P1-P4, report, clean up | operator's parts | limits at their boundary, clean-up during requests | no sender gets past its limit; what is not granted is accounted for |
| **Business logic** `.../business_logic` | proposals, statistics | cost, margin, discount, proposal, order | monitor, fleet manager | rounding, proposals used twice | no sale below the margin, whatever is rounded on the way |
| **Regulator** `systems/regulator` | three dictionaries of certificates | register, verify | operator | its answers race the timeouts of its gateway and of the operator | a certificate is good for its own drone only |
| **UAS developer** `systems/uas_dev_company` | SQLite: firmware; certificates, incidents; drones; purchases; users; audit | submit, certify, report vulnerability, register, purchase, deliver, users | regulator, droneport, operator, its own monitor | four databases without a common transaction, snapshots used after a remote call, calls that break off half-way | a drone is sold once, with an active certificate, and flown only after its re-registration |
| **UAS developer's monitor, gateway, users** | policy table; accounts; tokens | HTTP requests, proxied requests, policy changes, accounts | all its services | the monitor gives up before the service it asked | only allowed requests; the answer tells what was done; an administrator is left |
| **Ledger gateway, proxy, dummy fabric** `docker/`, `systems/dummy_fabric` | consumer offset, calls at the proxy | take a message, call the ledger, wait for its commit, answer | bus, HTTP, Fabric | at-least-once consumption of calls that are not idempotent; timeouts shorter than the work | success means a committed transaction; nothing behind the committed offset is done again |
| **Model demo** `demos/sbd-model-simple-demo` | thirteen processes with a copy of the world each | onboarding, an order from end to end | its own broker of queues | nested calls whose timeouts undercut one another; stopping while calls are open | what flies was agreed to; what is taken for done is done; everybody stops |
| Dummy systems, waypoint generators, scripts, notebooks | none, or scripted | | | | not modelled, see section 8 |

## 2. The modules

| Module | Models | Lines of the code |
|---|---|---|
| `RpcCall` | the contract of `request()`: one end per call, with the callee's answer, None or an exception | `broker/src/system_bus.py` (docstring), `mqtt_system_bus.py` |
| `SystemBus` | `request()` and what completes it, on both brokers | `kafka_system_bus.py`, `mqtt_system_bus.py` |
| `SystemBusProofs` | its theorems, and that it implements `RpcCall` | |
| `BusSubscriptions` | start, stop, subscribe, unsubscribe; consumers, sessions, lost connections | the same two files |
| `BusComponent` | from a message to answers, dead letters and journal entries; SafeBus | `sdk/base_component.py`, `base_system.py`, `base_gateway.py`, `safe_bus.py`, `security_monitor.py` |
| `AnalyticsJournal` | the journal's buffer and posts; `BusComponent` has an INSTANCE of it | `sdk/analytics_journal.py` |
| `FleetManager` | core, service and handlers of the fleet manager | `fleet_manager/src/*.py` |
| `DeveloperClient` | catalogs and purchases of the fleet manager | `operator_clients/src/developer_client.py`, `fleet_manager.py` |
| `MissionPlannerCore` | the pure checks of a flight plan (no variables) | `mission_planner_core.py` |
| `MissionPlanner` | the life of missions; EXTENDS the core | `mission_planner_service.py` |
| `MissionPlannerProofs` | its theorems | |
| `InsuranceService` | the insurer's component | `insurance_service.py` |
| `OrderInsurance` | operator component and insurer's gateway; EXTENDS the insurer | `operator_component.py`, `sdk/base_gateway.py` |
| `OrderInsuranceProofs` | its theorems | |
| `FlightRegistration` | certificates at the registration of a drone; mission uploads to ORVD | `operator_component.py`, the regulator's component and gateway |
| `OperatorSecurity` | the operator's security monitor | `security_monitor_core.py`, `security_monitor_service.py` |
| `OperatorBusiness` | prices, proposals and payments in kopecks | `business_logic_core.py`, `business_logic_service.py` |
| `UasLifecycle` | firmware, certification, registry and purchase services of the drone developer | `uas_dev_company/src/{firmware_ingestion,certification_service,drone_registry,purchase_service,shared/tcb}` |
| `UasLifecycleProofs` | its theorems | |
| `UasMonitor` | the developer's table of policies | `shared/security_monitor.py`, `security_policies.py` |
| `UasUsers` | its accounts | `user_management/` |
| `UasGateway` | an HTTP request through gateway, monitor and service; EXTENDS the two | `gateway/`, `shared/component_base.py`, `jwt_tokens.py` and others |
| `UasGatewayProofs` | its theorems | |
| `Ledger` | the way of a call to the Fabric ledger | `docker/ledger-gateway/consumer.py`, `docker/fabric-proxy/main.go`, `systems/dummy_fabric/` |
| `DemoRpc` | entities and broker of the model demo | `base_entity.py`, `simple_broker.py` |
| `DemoWorld` | the demo's handlers and scenario; EXTENDS `DemoRpc` | `entities/*.py`, `sbd_demo.py`, `world_state.py` |
| `DemoProofs` | its theorems | |
| `MCOperator` | `FleetManager` (twice), `DeveloperClient`, `OperatorSecurity`, `FlightRegistration` for TLC | |
| `OperatorProofs` | theorems about these four | |
| `MCServices` | `BusComponent`, `BusSubscriptions`, `Ledger`, `OperatorBusiness`, `DemoWorld` for TLC | |
| `ServicesProofs` | theorems about the first four and the journal | |
| other `MC*` | model values, message sets and symmetry for TLC | |

Definitions whose comment begins with "Mutant" or "A bug to check" are not part of
a specification: each is what its neighbour would be after a plausible mistake in
the code, and shows which mistake a property notices.

### SystemBus

One process. A call of `request()` is an element of `Calls`, standing for its
correlation id. `phase` is where its thread is, `pending` the keys of
`_pending_requests`, `resolved` how often its Future was completed, `jobs` the
queue of the executor. Register / PublishOk / PublishFail / ReturnReply /
Timeout / PopPending are the statements of `request()` in their order; the
lock-protected pop of `_handle_reply` is `CompleteFuture`. `request()` may also end with
an exception: of `start()` at its entry (`StartFails`), before there is an entry, and, on
MQTT, of `publish()`, whose `start()` and `json.dumps` come before its `try`
(`PublishRaises`). Nothing pops the entry then; on Kafka every exception of a send is turned
into False. So `NoLeakedEntry` is checked on Kafka, and `LeaksOnlyUnsent` on MQTT: what is
left behind belongs to a call whose request was never sent. The calls in
`Inbound` are made by handlers and hold a worker of the pool. The one difference
between the brokers is who completes a Future (`ReplyViaPool`): on Kafka a reply is
a job of the same pool, on MQTT the network thread does it. The callee and the
broker are external: they answer a published call, up to `MaxCopies` times, and
lose replies. A publish reported as failed may have reached the broker.
`bus` is the bus object: on Kafka `stop()` cancels queued jobs and the pool stays shut
whatever calls `start()` later; on MQTT it first drops the client ("stopping"), waits for the
pool to run empty ("stopped"), and a later `publish` or `request` connects it again ("again").

### BusSubscriptions

One thread calls start, subscribe, unsubscribe and stop; behind it run the consumer
threads of Kafka or the network thread of MQTT. `op` is where the caller is; each wait
(the 2 s join of a consumer, `_on_connect`) and each statement at which the other
thread may see half of a change is a step. On Kafka a subscription may find no consumer
(`deaf` remembers it), and a loop that is still in its callback after the join lives on
(`outlived`). On MQTT the session of the broker keeps nothing over a lost connection, and
the loop of `_on_connect` over the callbacks is one step after its flag, because it holds
their lock. The pool of callbacks is made once and shut down by stop(), for good.

### BusComponent and AnalyticsJournal

`place` is where a message is, from the inbox of its component to "done"; `outbox` what
its handler has still to send, computed from the class of the component (`SystemSends`,
`SharedSends`, ...), the message's action and what the handler did. On a SafeBus each send
asks the monitor first (`Ask`, `SecurityCheck`, `CheckTimeout`), except for those in
`Skipped`; the policy may change while it is asked, and `allowed` remembers what it said
meanwhile. A `log_event` that goes out arrives at the journal. There the lock of the
buffer makes each of its blocks a step; a batch is in the hand of one thread while it is
posted, and a post that fails is lost, as in the code.

### FleetManager

`pc` and `arg` are the place and the request of each handler. A handler is cut
where CPython 3.12, which the component's image uses, may switch threads (calls
and backward jumps); statements with no call between them are one step. That is
why `CommitReserve`, with the second status check and its two assignments, is
atomic and `AddCheck` / `AddStore` are not: building the `UASState` is a call.
`grants` is a history variable, the missions that were told "success" for a unit
and have not lost it since, by a release or by an update that makes it available. Two more
remember what a handler may not have seen: `withdrawn` is the handlers that found a valid
certificate which an update, its date or a second unit under the same id has taken away before
they reserved, `overtaken` the units whose holder changed, or whose state was stored anew,
while a handler had yet to write its entry in the service's cache. Requests overlap in every run;
only purchases can be kept apart (`OneBuyer`), because two that overlap store over one
another (finding 2).

### DeveloperClient, FlightRegistration

`stock` belongs to a parsed catalog and not to the cache, as the objects of the code do:
a handler goes on with the catalog it `held`. Over the bus the client awaits what a
synchronous request returns, so that it never gets a catalog (`cache` stays 0). What a
purchase sold is added to the fleet unit by unit: an id is drawn (`NextUasId`), looked up
(`CheckId`) and stored (`StoreUnit`). A unit whose id is taken is skipped, as in the code, and
one stored over another is in nobody's fleet; `clashes` counts how often an id was drawn that
another purchase had drawn and not stored yet. Ids are counted from the first free one.
`FlightRegistration` has two halves that do not meet, certificates (`check`, `shown`) and
uploads (`flight`): each wait may end before its answer, and ORVD, which is not in the
repository, registers or refuses as it likes, also after the operator gave up. Nothing looks
at whether the home went out: `unsent` remembers the uploads whose `publish()` refused it.

### OperatorSecurity, OperatorBusiness

The core and service classes; their components cannot run at this commit (section 8).
The history and the audit log count requests by their timestamps, which the sender
chooses. Whether the service puts in notices at all is chosen once (`enable_notifications`). Amounts are integers, in kopecks; where `round(x, 2)` is half way, both
results are allowed, since the float decides. `Proposed` is in twentieths of a kopeck,
because 5 % of a kopeck may decide about a margin.

### MissionPlannerCore and MissionPlanner

The methods of the service are coroutines that never suspend, hence one action
each. `store` holds every Mission object, `missions` and `history` hold references
to them, as in Python: the same object may be in both. A route is the list of points
the client sent with the indices the optimisation kept, so that a property can speak
of the points that are flown over but no longer checked. An id may be used again, as
`create_mission` lets it be: `overwritten` is a history variable, the ids that were given to
another mission while theirs had a plan in the air. Distance, leg length and
collinearity are parameters; the proofs need only that the distance is symmetric.

### InsuranceService and OrderInsurance

An element of `Calls` is one message to the operator, followed through the
operator's handler (`op`), the gateway's (`gw`) and the insurer's (`serving`).
`OpTimeout` and `GwTimeout` may happen while the next link still works, and the
late answer is then ignored, as `request()` does (the bus is modelled here by its
contract, `RpcCall`). `registry` holds references to records, so that a handler can hold a
record which a registration has replaced. The gateway turns whatever it gets into a
success (`GwReply`, `GwTimeout`); `Conclude` is what each handler makes of it. An order for
a numeric id walks the registry, which raises when a registration stores into it meanwhile.
The loop of `terminate_policy` runs one policy at a time and raises when the
dictionary grew. Premiums and statistics are left out, as nothing else reads them.

### UasLifecycle

The tables of the four SQLite databases are `firmware`, `certs`, `drones` and
`orders`; columns that no decision reads are left out. `pc` is where the handler of a
request is, named for the call or the commit it is on its way to; every commit and every
remote call is a step of its own, and `goals`, `certId`, `decision` and `rows` are what
the handler holds in local variables between two of them. `integrated` says whether
`UAS_EXTERNAL_SYSTEMS_TRANSPORT` is "bus", so that there is a regulator; it is chosen once.
The regulator and the operator's fleet are external: the first answers anything its
port accepts, the second is told.

`BreakOff` ends a handler for a timeout, an error in an answer, a locked database or a
crash: all raise or kill, and no handler compensates or retries. A message it
had sent is still acted upon, which is why `ApplyToDrones`, `NarrowDrones`, `UpdateDrone`
and `RegulatorReregisters` do not ask whether their caller lives, and why their answer
may find nobody (`unheard`). A message that is lost is a handler that breaks off
and a step that is never taken. `apply_firmware_cert_decision` narrows goals with a SELECT
that, in Python's `sqlite3`, opens no transaction, and UPDATEs after it: two steps.
`seen` is a history variable, the requests that were done when a request came:
the properties speak of what was done before, because between requests that overlap
hardly anything is promised (finding 4).

### UasMonitor, UasUsers, UasGateway

A request is followed from its token (`call`, `pc`) through the monitor (`hop`) to the
service (`job`) and back, in three deployments (`mode`): over the bus, with SQLite
databases per domain, and as one process. Each hop has its timeout and none recalls the
work behind it. An answer takes no time: one that is late is one whose sender is
still at work when the timeout comes, and `LoseProxy` and `LoseWork` happen only when the
caller has given up. Accounts are read by SELECTs that open no transaction (`Checked`,
`counted`) and written later (`Write`); `raced` remembers a write that relied on a COUNT
that was no longer true. Where every domain has a database of its own `delete_user` fails,
because its table of purchases is elsewhere; a purchase is two transactions and its answer
is left out of `AnswerTruthful`. Tokens name a role for 24 hours, whatever becomes of it.

### Ledger

A call goes to the ledger gateway, which handles one message after the other, or to a
component of dummy_fabric, which has a thread for each. Kafka's `offset` is committed on
a timer, MQTT keeps nothing for a gateway that is away; `Restart` starts from there. The
proxy endorses, submits and waits for the commit status; the caller, the gateway and the
component each give up on their own. `onLedger` is what became of the transaction.

### DemoRpc, DemoWorld

An entity handles one request at a time and waits for one answer at a time. Two things
are shortened. The broker moves messages in the order they were put, so that only that
order counts and its hop is no step; a message is lost if it is put behind the broker's
stop. And an idle entity takes the stop at once. Each process works on the copy of the
world it was forked with (`counter`, `registry`, `park`), and the orchestrator merges
what the answers told it into the saved file (`Merged`, which puts the UAS bought into
the park one after another, `WithNew`) and starts the next scenario only when all have
stopped. `approved`, `dispatched` and `landed` are the copies of the ATM and of the ports:
missions validated, missions prepared with their UAS, and the plans whose mission was
allowed to land.

## 3. The runs

States are distinct states. All runs take between some seconds and three minutes
on two workers.

| Run | Instance | Shows |
|---|---|---|
| `bus_kafka` (15,085) | 3 calls, 2 of them from handlers, 1 worker, 1 copy | `NoLeakedEntry`, `NoPrematureDiscard`; the bus implements the contract with its fairness (`RpcFairSpec`), so that every call returns |
| `bus_mqtt` (171,600) | 3 calls, 2 workers, 2 copies of each reply | `LeaksOnlyUnsent`, and the bus implements the contract (`RpcSpec`) under redelivery, exceptions and restarts |
| `operator` (538,184) | see below | five questions about the operator's parts |
| `mission_lifecycle` (354,724) | 2 missions whose ids are used again, safe, unsafe, far and empty routes | `NoActiveConflict`, `RegisteredIsActive`, `FlownIsSafe`, `ApprovalCoversPlan` |
| `order_insurance` (179,944) | 3 calls of every kind, 2 offers, 2 drones | `PolicyBehindAnswer`, `TerminateComplete`, `AssignedOncePerRegistration`; every offer goes out (`OffersGoOut`) |
| `uas_lifecycle` (493,849) | 1 firmware, 1 drone, 6 requests, 2 at work at once, 1 breaks off | `OwnerHasOrder`, `SoldOnceInOrder`, `RevokedNotSold`, `ReregisteredBeforeUse` |
| `uas_gateway` (927,338) | 2 accounts, 2 requests at once, 3 deployments | `AnswerTruthful`, `AdminOnly`, `AdminRemains` |
| `services` (508,523) | see below | five questions about the shared services and the demo |
| `bus_kafka_nested` | 1 worker, 2 calls | finding 1: `NestedRpcServed` fails on Kafka |
| `fleet_purchase_race` | 2 purchases at once | finding 2: `UniquePurchaseIds` fails |
| `order_insured` | 1 purchase | finding 3: `InsuredHasPolicy` fails |
| `uas_sold_twice` | 2 purchases of a drone at once | finding 4: `SoldOnce` fails |

`operator` and `services` hold several models that do not meet. Their variable `part`
says which one a behaviour is about; the others stand still in one initial
state, so that the states add up and do not multiply. Each part keeps its own
properties, which its module explains:

| Run, part | Instance | Shows |
|---|---|---|
| `operator`, fleet | 1 unit, 2 handlers at a time, 1 purchase | `OneHolder`, `OfferedIsFree`: reservation is exclusive without a lock; `CacheFollowsCore`, `StaleOnlyIfWithdrawn`: what may go wrong with the cache and with a certificate, and nothing else, over refused and half-applied updates, certificates that expire or are revoked |
| `operator`, developer | 3 handlers, 2 loads, stock 2 | `StockHonoured` |
| `operator`, monitor | 3 requests, limits 2 and 1, window 2 | `GrantsWithinLimit` |
| `operator`, certificates and flights | 2 drones; 2 uploads, 2 missions | `CheckedBeforeUse` |
| `services`, component | 2 messages, batch 2, 5 base classes, 3 policies | `AnsweredOnce`, `NothingUnchecked`, `EventsKept` |
| `services`, subscriptions | 3 topics, both brokers | `SubscribedIsServed`, `ResubscribedOnConnect` |
| `services`, ledger | 2 requests, 1 restart, both brokers | `SuccessIsCommitted`, `HandledForGood`, `RequestsHandled` |
| `services`, business | 6 missions, 2 proposals, 3 moments | `SoldWithMargin`, `SuggestedIsAccepted` |
| `services`, demo | 2 launches of the scenario, 13 processes | `FlownAsAgreed`, `AcceptedIsDone`, `EveryoneStops` |

CHECK_DEADLOCK is off everywhere: calls and creations are bounded, so each model
comes to an end of its own.

### Bounds, and why they are enough

- *Bus.* A call races one reply, one timeout and one stop(); the pool is full with
  one worker (Kafka) or two (MQTT), and a third call is there to be queued behind
  it or to be made outside it. Two copies are what tells once from twice.
- *Subscriptions.* The reply topic and two others: one that is subscribed while the
  other is left. Calls and breaks are not bounded; the states are.
- *Component and journal.* One message of every kind against one that feeds the
  journal; two events are one batch, or one that fills it and one that comes later.
- *Fleet.* Units interact only in the choice of a purchase's id: one is enough where
  purchases do not overlap, and two where they do. The initial fleet is loaded or not, so
  that the unit is there from the start or comes by a purchase.
  Two handlers make a race; that a third cannot undo what one of them checked is
  proved for any number of threads (section 5). `MCUpdates` has one update per
  kind of effect: refused before and after the status is written, a change of status
  alone, and each change of a certificate.
- *Developers' catalogs.* The second load replaces the cache under a handler that holds
  the first. Quantities are positive: the code does not look at a negative one, which
  would put units into the catalog.
- *Operator's monitor.* At the real limits of 100 and 10 only the numbers are larger. The
  clock takes four values, which is a window, its boundary and something after it.
- *Missions.* Conflicts are between two missions. The four positions give a pair
  nearer than the separation, a pair further than the reach of a landing point, a
  no-fly zone and a straight leg; the two take-off times overlap. `MaxHistory` is
  one, which already lets an ended mission come back, because the history only
  grows by an end. Two creations may be of one id, which is the first mission replaced
  where it is: waiting, approved, in the air or ended.
- *Orders.* The three calls are one that makes (registration or purchase), one
  that uses (order, assignment, request) and one that undoes or repeats
  (termination, second registration or assignment). Two offers tell the last from
  the others; the second drone is one that a registration adds while an order walks
  the registry.
- *Prices.* One mission as they come and five with lengths, times or cargo that make the
  cost some kopecks, which is where roundings decide, or negative. For all others
  there is the proof.
- *Drone developer.* A request of each kind, and a second purchase, which is what a sale
  has to be kept from; each comes at most once, so that a chain has every order. Two at work
  at once are a race of any two operations, and one that breaks off a failure at
  any place in any of them. The firmware has one goal and a drone may ask for a
  second, which is what narrowing and the subset check tell apart.
- *Developer's gateway.* Two administrators and two requests make the race on the count.
  The requests are all that change accounts and two of other services; one rule with a
  star is enough to reach what the canonical rules do not allow.
- *Ledger.* A call that writes, through the gateway, and behind it one that reads, or
  another that writes through a component: what a restart repeats, and what it must not.
- *Demo.* The second launch works on the world that the first one saved.

## 4. Fairness

Only the threads and processes of the programs themselves are fair: the scheduler lets
every runnable one run, and a wait with a timeout ends.

- `SystemBus`: each thread in `request()` goes on (`CallerStep`, whose steps exclude
  each other or are all ways on), and a free worker takes the head of the queue.
  Nothing is assumed of callees, of the broker, of deliveries or of stop(): the
  liveness results hold by timeouts alone.
- `OrderInsurance`: some handler that can go on does. Each call has finitely many
  steps, so this is as much as fairness for each of them. That a message reaches the
  next process (`GwReceive`, `BeginServe`) is not assumed.
- `Ledger`: the gateway's loop goes on (`Gateway`), and its HTTP call ends after 30 s.
  The proxy and the peers may be silent for ever; restarts are bounded.
- `DemoWorld`: `_shutdown` sends its stop messages, and some entity that can go on does.
  `EveryoneStops` so rests on the deadline of `wait_for_response`.

The fleet manager and the mission planner never wait; no liveness is stated. A handler
of the drone developer's services may end anywhere without a retry, and a request at
its gateway may be left alone by everybody, so there is no progress to promise.

## 5. What is proved

All theorems hold for every value of the constants, under the assumptions listed at
the end of this section. Of the forty properties the passing runs check, the theorems
state all but the four that need fairness.

`OperatorProofs`, `ServicesProofs` and `DemoProofs` extend the modules that put several
models into one run, so that a theorem is about the same formula as the run. There each
part has a name: `Monitor`, `Developer` and `Flight` in `MCOperator`, `Component`, `Bus`,
`Fabric` and `Demo` in `MCServices`; the fleet manager and the business logic have none.

**SystemBusProofs.** `TypeCorrect`; `FutureSafety` (`LeaksOnlyUnsent`,
`CompletedOnce`, `NoLostWakeup`) on both buses; `EntriesAreRemoved` (`NoLeakedEntry`) on
Kafka, whose `publish` raises nothing; `DiscardSafety` (`NoPrematureDiscard`);
`BusImplementsRpc` (`Spec => RpcSpec`), for any calls, any pool, any number of
copies and of stops, both brokers. None of the properties is
inductive: that a call without
an entry has a completed Future needs to know that an entry is removed either with
a completion or after the call stopped waiting. `FutureInv` says so; `MessageInv`
adds that a completed Future comes from an answer to a published call, and
`QueueInv` that a queued message is there once and its call has not begun,
without which a worker could enter a handler twice. The refinement maps the phases
of `request()` to open, a returned call to its outcome, and the answers sent to
`served`; each step is then one step of the contract or a stutter. The contract allows an
exception to a call that nobody served, at its entry on both buses and later on MQTT only.
Nothing is proved of `NestedRpcServed`: on Kafka it is false (finding 1), and on MQTT, where the
network thread completes the Futures, there is nothing to show.

**OperatorProofs.** Of the fleet manager, for any number of threads, units and missions:
`ExclusiveReservation` (`OneHolder`) and `OffersAreFree` (`OfferedIsFree`), provided that
purchases do not overlap one another. The assumption is needed: `add_uas` stores over its id
without looking again (finding 2 is what happens without it). The invariant adds `HeldInv`,
that a held unit is neither available nor absent, and, for purchases, that a handler about to
store has an absent id. `CacheIsExplained` (`CacheFollowsCore`) and `ReservedIsCertified`
(`StaleOnlyIfWithdrawn`) are without it, in every interleaving: `CacheInv` says that of a unit
that was not overtaken the cache is behind only by what the handler between the two updates is
about to write, and `CertInv` that a handler on its way from the certificate to the reservation
has a unit whose certificate is good, or is among the `withdrawn`.
Of the rest: `AskedBeforeUse` (`CheckedBeforeUse`), for any drones and
uploads; `PaidIsDelivered` (`StockHonoured`), for any number of handlers, loads and quantities,
where `StockInv` says of each catalog that sold
and left are its stock, `CatalogInv` that a handler's catalog is the one it checked, and
`PaidInv` that what is paid is in the fleet, due, or lost to one of the `clashes`;
`LimitIsKept` (`GrantsWithinLimit`, with `DecisionsAccounted` for a service that notifies and for
one that does not), where `HistoryInv` says that the history remembers
whatever the audit log shows inside a window, although the two are cleaned up
apart. Those two properties are about sums over sets of any size. A sum of the community
modules is a fold, of which nothing can be proved by the induction theorems (they take an
operator); the lemmas at the head of the module take a smallest counterexample among the
subsets of a finite set instead (`SmallestSubset`), and show from it that a sum takes
its terms in any order (`TotalIsSum`), that one more term adds itself, and so on.

**MissionPlannerProofs.** `AirspaceSafety` (`NoActiveConflict`), `FlownPlanIsChecked`
(`ActiveIsRegistered`), `OnlySafePlansFly` (`FlownIsSafe`) and `ApprovalIsOfOnePlan`
(`ApprovalCoversPlan`), `NothingHeldForNobody` (`RegisteredIsActive`), for every geometry with a
symmetric distance, every set of routes, any number of missions, ids used again or not. The last
says what `create_mission` may leave behind: a plan the core holds is of an active mission, or
its id was given to another while it was in the air (`overwritten`), and then no call but a start
takes it away. `HeldInv` follows each plan from its start to its end for that. The
invariant adds types and `OwnObject`, that two ids never share a Mission object, since a
change to a shared one would change a plan in the air. `ObjectStep` says what any step may do
to an object: give it a plan that was just validated, and take its approval, or keep the plan
and go on from validated to approved to active; the next two theorems follow, with the
lemma that an optimised plan is no less safe. `estimated_duration` stays
opaque: it is a recursive sum whose value the argument never needs.

**OrderInsuranceProofs.** `TypeCorrect`; `PolicyIsBehindAnswer` (`PolicyBehindAnswer`);
`TerminationIsComplete` (`TerminateComplete`); `RegistrationIsAssignedOnce`
(`AssignedOncePerRegistration`), for any calls, requests and policies, wherever the two
timeouts fall. The argument follows an answer back: `PolicyInv` says that a policy is stored
in the step in which its call is served, once, `ShownInv` that what is shown comes from
an answer of the insurer, and `LoopInv` that a termination that is still in its loop has
ended what is behind its cursor, in a dictionary of the size it began with. `Grows` is what
all steps have in common: answers, policies and assignments are never taken back.

**UasLifecycleProofs.** `TypeCorrect`; `RegistryAdvances` (`RegistryOnlyAdvances`);
`OwnersHaveOrders` (`OwnerHasOrder`); `SoldOnceOneByOne` (`SoldOnceInOrder`);
`RevokedStaysUnsold` (`RevokedNotSold`); `ImportsAreReregistered`
(`ReregisteredBeforeUse`), for any requests, certificates and drones, any number of
handlers at work and of broken calls, with a regulator or without. The argument is that
rows only advance (`Advances`, a lemma per writer), so that what one request left is still
there when a later one looks: `PurchaseInv` says what a purchase has done where it is,
`RevokedInv` that a report past the registry has revoked the drones its predecessors
registered, and `OfferInv` that a purchase past its check found nothing of the kind.
`SaleKept` says that no writer but the end of a purchase changes whether and to whom
a drone is sold.

**UasGatewayProofs.** `TypeCorrect`; `AnswersStayTrue` (`AnswerTruthful`);
`AdministratorsDecide` (`AdminOnly`); `AnAdministratorRemains` (`AdminRemains`), for any
accounts, requests, calls and rules, in each deployment. A request's invariant
(`RequestInv`) says where it can be (`PlaceInv`: no job while the monitor has not forwarded it,
a job in the worker's hands while somebody waits for it), that its change is there from the
commit on, that every answer but a timeout comes when nothing of the job is left to do, and
what the worker found before it writes. A step is of one request and leaves the others alone
(`OthersKept`). That an administrator remains is not inductive: an account can only be
changed by somebody with a token, so that the invariant has to say as well that there are
tokens, or requests made with one, only when there are accounts (`Asked`); then the
write of a request whose count still holds finds at least one more administrator.

**ServicesProofs.** Of the business logic, `MarginIsKept` (`SoldWithMargin`) and
`SuggestionsAreAccepted` (`SuggestedIsAccepted`), for every set of missions with integer data
and any number of
proposals. The argument is arithmetic: the least price is 20/18 of the cost, rounded, and
what a rounding can take away is less than what the 5 % on top of it add; below that a few
costs are left, whose least price is computed. Each bound is a lemma about `\div`.

Of the bus's subscriptions, `SubscribedTopicsAreServed` (`SubscribedIsServed`) and
`SessionMatchesCallbacks` (`ResubscribedOnConnect`), for any number of topics, given that the
reply topic is one. For Kafka the invariant says the same of a caller in the middle of a
call, but for the topic whose loop it is joining. For MQTT it has two bounds on the
session: no topic without a callback but the one being dropped (`NoStrangers`), and, once
`_on_connect` is through, none missing but the one being sent (`NoneMissing`). The
first must hold between the flag and the loop of `_on_connect` as well, where the second
does not.

Of a component and the journal behind it, `AnswersOnce` (`AnsweredOnce`), `AllIsChecked`
(`NothingUnchecked`) and `EventsInOnePlace` (`EventsKept`), for any messages, base class, policy
and size of batch. `AnswerInv` counts what went out and what the handler has still to send
together: at most one answer, of the kind the sender asked for, and one event; `CheckInv`
ties what is approved to what the monitor allowed. For the journal, `JournalInv` says that a
handler holds a batch only while its own event is in it, and that stop() takes one batch:
without that a thread could take a batch over one it has not posted yet.

Of the ledger, `SuccessMeansCommitted` (`SuccessIsCommitted`) and `CommittedIsBehind`
(`HandledForGood`), for any number of requests and of restarts, over both brokers, through the gateway or a component. That a
call which the proxy calls a success is on the ledger (`CommitInv`) is not enough: a caller
is answered from the last call made for it, so each call must have an identity of its own
(`FreshInv`), and that needs the log to have a request once (`LogInv`) and each restart to
repeat it at most once (`TriesInv`). What is behind the offset is done for good because the
offset is never ahead of the position (`OffsetInv`) and a message is in the log once.

**DemoProofs.** `OrderIsFlownAsAgreed` (`FlownAsAgreed`) and `AcceptedIsReallyDone`
(`AcceptedIsDone`), for any maximum price, any number of UAS bought and of launches. Both are
about the far end of a chain of up to five nested calls, each of which may be given up while
the work behind it goes on, so the invariant follows the chain (`LaunchInv`). It says of every
message which call it is, with its arguments (`Fits`: what is assigned to an operator is what
it selected, and what the drone is sent is a plan for it); of every process at work what it
goes on with (`Busy`); and of every answer what its caller may take from it (`Answer`: a report
of success means a plan that has landed). A caller trusts an answer because it is an
answer to the call it waits for: an answer is taken by number, and a message that bears the
number of a caller's last call is the call that the state of the caller is about (`Link`).
Without that, a late answer could be taken for one to a later question. The invariant has
two forms, one for each scenario, and says that one of them holds: no entity knows which
scenario runs, but no call of the other one is on its way. Three facts keep it. An order
leaves the parks as they are, and an onboarding only adds to the registry and to the
parks, so that what a process knew stays true while it waits (`Grown`, `FitsStill`,
`BusyStill`, `AnswerStill`); what the order's operators select is the same for all of them
(`SelectedIs`, `SamePlans`), so that preparing a mission again would put back what it takes
away; and a launch begins with empty queues. The saved world enters by the type of
its parks alone: `WithNewIs` builds the list that the merge leaves, for the two UAS without
which the orchestrator does not accept an onboarding.

### What the proofs assume

Named in the modules and evaluated by the runs:

- *Finite sets*: accounts (`UsersAssumption`) and purchase handlers, which are threads of a
  pool (`BuyersAssumption`). Counts and sums would mean nothing otherwise.
- *Numbers are numbers*: limits above zero and times (`LimitsAssumption`, `TimesAssumption`,
  `TimeAssumption`), retries, copies, integer data of missions (`MissionsAssumption`), stock and
  quantities (`StockAssumption`). The last one says more than the code: `purchase_uas` does
  not refuse a negative quantity, which would put units into the catalog.
- *Distances are symmetric* (`DistanceSymmetric`), and landing points are waypoints.
- *Calls name what they are about*: a drone (`RequestsAssumption`), an account
  (`CallsAssumption`), the fields of a request (`RequestAssumption`, `UpdatesAssumption`).
- *Tags of the model are different things*: `None` is no answer, call or role
  (`RequestsAssumption`, `AnswersAssumption`, `UsersAssumption`), and the journal's two other
  threads are no events (`MessagesAssumption`).

Stated by the theorems themselves: `ReplyIsTopic`, `ConstantsOK` (a number of restarts, and
`None` is no request), `OneBuyer` (purchases that do not overlap) and `ReplyViaPool` (Kafka),
where the text above says so.

## 6. What is model-checked only

- Everything temporal under fairness: `RpcFairSpec`, `OffersGoOut`, `RequestsHandled`,
  `EveryoneStops`. The prover does not do liveness or ENABLED.
- What the sums of `MissionPlannerCore` over a route compute: they are recursive functions
  (`SumOfLegs`), and induction over data is out of the prover's reach with the backends
  installed.

## 7. Findings

1. `bus_kafka_nested`: replies are jobs of the pool whose workers wait for them, so
   that nested calls are *not* served when the pool is full of them, against the
   docstring of `_consumer_loop`. The calls end by their timeouts.
2. `fleet_purchase_race`: `_next_uas_id` does not return a unique id when two
   purchases overlap; two units are stored under one.
3. `order_insured`: the insurer's gateway answers a failure as a success, and the
   operator reports a drone insured that has no policy.
4. `uas_sold_twice`: a purchase reads the status of the drone, asks the regulator and
   then commits without looking again. Two that overlap are both committed, against
   TB-1 of the developer's README, and the drone is the second one's.

More weaknesses are visible in the models, or were met while they were written, without
a run of their own:

- `create_mission` with the id of an active mission replaces it; its plan stays in the
  air, and no call ends it (`overwritten`; `RegisteredIsActive` says that nothing else does so).
- `reserve_uas` reserves a unit whose certificate an update has revoked, or whose date has passed,
  since `authorize_uas_operation` looked at it (against `fleet_manager/docs/security_goals.md:49`);
  `StaleOnlyIfWithdrawn` says that this is the only way to reserve without one.
- Two purchases that overlap may draw one id. `add_uas` refuses the second unit, or stores it
  over the first: it is paid and in no fleet (`clashes`).
- On MQTT an exception of `publish()` leaves the entry of its call in `_pending_requests`.
- A `FabricGateway` wraps a failure into a success with an error in its payload, as every
  gateway does (`base_gateway.py:70`): who calls through it has to look into the payload.
  `SuccessIsCommitted` is about components and ledger gateways, which do not wrap.
- A message that is no JSON, or no object, makes `run_kafka` of the ledger gateway raise before
  and after every restart (`consumer.py:83`). Messages of the model are well formed, and
  `RequestsHandled` promises nothing beyond them.
- Nothing looks at whether the home of a drone was published before ORVD is asked.
- The limit `MAX_CONCURRENT_MISSIONS` is compared when a mission is created and not when
  it starts. The planner takes straight points off a route after validating it, so that a
  later mission can start through a point another still flies over.
- A drone registered from a snapshot that was taken before a report, or whose registry
  the report did not reach, stays on offer with a revoked certificate: `RevokedNotSold`
  promises something only to what was done before the report came, and after it was done.
- `release_uas` is refused when the certificate has expired since the reservation: the
  unit stays reserved.
- `flights_per_year` of the insurer is changed nowhere, so that the fleet factor of a
  premium is always 1.
- A proposal may be paid more than once, and for another order than its own.
- An MQTT bus of this repository publishes with the dots of a topic, and the ledger
  gateway listens with slashes; over MQTT only other clients reach it.
- A Kafka consumer that cannot be created leaves its callback behind, and the next
  subscribe takes the topic for subscribed (`deaf`). A stopped bus that is started again
  runs no callbacks, because its pool stays shut down.
- The operator's gateway waits 10 s for a component that waits 15 s for the insurer: a
  purchase may be made that its caller takes for failed.
- `delete_user` cannot succeed where every domain has a database of its own.
- A YAML catalog that is loaded again has its full stock again.

## 8. What is not modelled, and why

- *Of the modelled components*: statistics, export and wording of the fleet manager, the
  planner and the monitor; the score of a search; premiums of the insurer, which nothing
  reads back; `register_drone_in_orvd` and what only answers in the operator component;
  delivery to a droneport, which the message of a purchase cannot ask for; the
  developer's adapters, audit log and analytics. The arithmetic of distances is a
  parameter.
- *Certificates of systems and operators* at the regulator: two more dictionaries of the
  same kind, which no program of the repository asks for. `RegulatorClient` has one
  reader, the certificate check of a purchase over the bus, which gets no catalog.
- *Bytecode-level races of a single dictionary operation* are not there: CPython
  makes them atomic.
- *No protocol of its own*: bus factory and topic names, Redis-backed component,
  waypoint generators, dummy systems, backup copies, scripts, notebooks, CI.
- *Cannot run at this commit*: the operator's aggregate system imports `TraceContext` from
  `sdk.base_component`, which does not define it. The components around the operator's
  security monitor and its mission planner pass `enable_tracing` to a constructor that
  does not take it; the handlers of the business logic are coroutines that nobody awaits.
  Of these three the core and service classes are modelled (`MissionPlanner` is the
  service; the planner's component does not use it).

## 9. Plan

Done: all modules of section 2, and a theorem for each safety and action property that
a passing run checks.

Models to add, if the code grows there: the operator's aggregate system and its components
on the bus, once they can start; premiums of the insurer as pure operators.
