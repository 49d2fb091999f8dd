----------------------------- MODULE DemoProofs -----------------------------
(* Theorems of the model demo (Demo of MCServices): what flies is what was   *)
(* agreed, and what the orchestrator takes for done is done, for every       *)
(* maximum price, number of UAS bought and number of launches.               *)
EXTENDS MCServices, SequenceTheorems, WellFoundedInduction, FiniteSetTheorems, TLAPS

Main == "main"
Procs == Demo!Processes
Scenarios == {"order", "onboarding"}
-----------------------------------------------------------------------------
(* What is true of a launch depends on the scenario sc it runs.  Predicates  *)
(* take all that they are about as arguments, so that they say the same of   *)
(* a state and of the next one: c is the city, s is the state of a process.  *)

City == [registry |-> registry, park |-> park, approved |-> approved,
         dispatched |-> dispatched, landed |-> landed]

Handled(p) == IF p = Main THEN Demo!Stop ELSE Demo!Request(p)
State(p) == [at |-> at[p], locals |-> locals[p], request |-> Handled(p)]

IsSeq(s) == s \in Seq({s[i] : i \in DOMAIN s})

ParkOK(parks) ==
    /\ DOMAIN parks = Demo!Droneports
    /\ \A p \in Demo!Droneports :
          IsSeq(parks[p]) /\ \A i \in DOMAIN parks[p] : parks[p][i].cost \in Int

\* The order: what an operator chooses among, what it chooses, and a plan to fly it.
Covers(e) == Demo!OrderGoals \subseteq Demo!Goals(e)

Here(c, n) ==
    [i \in DOMAIN c.park[Demo!Ports[n]] |->
        [port |-> Demo!Ports[n], uas |-> c.park[Demo!Ports[n]][i],
         cost |-> c.park[Demo!Ports[n]][i].cost]]

Candidates(c) == Here(c, 1) \o Here(c, 2)
Selected(c) == Demo!Cheapest(Candidates(c))

IsPlan(c, m) ==
    /\ Candidates(c) # <<>>
    /\ m.mission \in Demo!Operators \X Nat /\ Covers(m.mission[1])
    /\ m = [mission |-> m.mission, uas |-> Selected(c).uas, port |-> Selected(c).port,
            return_port |-> Demo!TargetPort]

IsProposal(c, x) ==
    /\ Candidates(c) # <<>>
    /\ x.operator \in Demo!Operators /\ Covers(x.operator)
    /\ x.selected = Selected(c) /\ x.cost \in Int

Dispatched(c, m) == <<m.mission, m.uas>> \in c.dispatched[m.port]

\* The onboarding: registered numbers, and UAS that have such numbers.
AreNumbers(c, x) == IsSeq(x) /\ \A i \in DOMAIN x : x[i] \in c.registry

AreItems(c, x) ==
    /\ IsSeq(x)
    /\ \A i \in DOMAIN x : x[i].number \in c.registry /\ x[i].cost \in Int

InPark(c, x) ==
    \A i \in DOMAIN x : \E j \in DOMAIN c.park[Demo!TargetPort] :
        c.park[Demo!TargetPort][j] = x[i]
-----------------------------------------------------------------------------
(* Who calls whom, with which arguments.                                     *)

Called(p, to, a, who, callee, name) == p = who /\ to = callee /\ a = name

OrderCall(c, p, to, a, x) ==
    \/ Called(p, to, a, Main, "customer", "place_order") /\ x = Demo!OrderGoals
    \/ Called(p, to, a, "customer", "aggregator", "receive_order") /\ x = Demo!OrderGoals
    \/ /\ p = "aggregator" /\ to \in Demo!Operators /\ a = "proposal_request"
       /\ x = Demo!OrderGoals
    \/ /\ p = "aggregator" /\ to \in Demo!Operators /\ a = "assign_order"
       /\ Covers(to) /\ Candidates(c) # <<>> /\ x = Selected(c)
    \/ p \in Demo!Operators /\ to = "insurer" /\ a = "request_insurance_quote"
    \/ p \in Demo!Operators /\ to \in Demo!Droneports /\ a = "get_available_uas"
    \/ /\ p \in Demo!Operators /\ to = "gcs" /\ a = "mission_planning"
       /\ Covers(p) /\ Candidates(c) # <<>> /\ x = Selected(c)
    \/ p \in Demo!Operators /\ to = "atm" /\ a = "validate_mission" /\ IsPlan(c, x)
    \/ /\ p \in Demo!Operators /\ to \in Demo!Droneports /\ a = "prepare_dispatch"
       /\ IsPlan(c, x)
    \/ p \in Demo!Operators /\ to = "agro_drone" /\ a = "agro_mission_received" /\ IsPlan(c, x)
    \/ Called(p, to, a, "agro_drone", "atm", "request_takeoff_permission")
    \/ /\ p = "agro_drone" /\ to \in Demo!Droneports /\ a = "check_droneport_ready"
       /\ IsPlan(c, x) /\ to = x.port
    \/ Called(p, to, a, "agro_drone", "sitl", "sitl_simulate")
    \/ p = "agro_drone" /\ to \in Demo!Droneports /\ a = "request_landing_permission"

OnboardingCall(c, p, to, a, x) ==
    \/ Called(p, to, a, Main, "vendor_uas", "request_firmware_certification")
    \/ Called(p, to, a, Main, "vendor_uas", "request_uas_registration")
    \/ Called(p, to, a, Main, "operator_1", "request_uas_purchase")
    \/ Called(p, to, a, "vendor_uas", "regulator", "request_firmware_certification")
    \/ Called(p, to, a, "vendor_uas", "regulator", "request_uas_registration")
    \/ p \in Demo!Operators /\ to = "vendor_uas" /\ a = "request_uas_purchase"
    \/ /\ p \in Demo!Operators /\ to = Demo!TargetPort /\ a = "assign_uas_to_droneport"
       /\ AreItems(c, x)

Fits(sc, c, p, to, a, x) ==
    IF sc = "order" THEN OrderCall(c, p, to, a, x) ELSE OnboardingCall(c, p, to, a, x)

\* The call a process in state s waits for, if the last one it made is a(x), of to.
FlightCalls == {"request_takeoff_permission", "check_droneport_ready", "sitl_simulate",
                "request_landing_permission"}
Link(s, to, a, x) ==
    /\ s.at = a
    /\ a = "get_available_uas" => to = Demo!Ports[s.locals.asked]
    /\ a \in FlightCalls => x = s.request.args
    /\ a = "assign_uas_to_droneport" => x = s.locals
-----------------------------------------------------------------------------
(* What a process knows while it waits, and the answers that may come.       *)

OrderBusy(c, p, s) ==
    \/ p = Main /\ s.at = "place_order"
    \/ p = "customer" /\ s.at = "receive_order" /\ s.request.action = "place_order"
    \/ /\ p = "aggregator" /\ s.at = "proposal_request" /\ s.request.action = "receive_order"
       /\ s.locals.asked \in 1 .. 2 /\ IsSeq(s.locals.proposals)
       /\ \A i \in DOMAIN s.locals.proposals : IsProposal(c, s.locals.proposals[i])
    \/ p = "aggregator" /\ s.at = "assign_order" /\ s.request.action = "receive_order"
    \/ /\ p \in Demo!Operators /\ s.request.action = "proposal_request" /\ Covers(p)
       /\ s.at = "get_available_uas"
       /\ \/ s.locals = [asked |-> 1, candidates |-> <<>>]
          \/ s.locals = [asked |-> 2, candidates |-> Here(c, 1)]
    \/ /\ p \in Demo!Operators /\ s.request.action = "proposal_request" /\ Covers(p)
       /\ s.at = "request_insurance_quote"
       /\ Candidates(c) # <<>> /\ s.locals = Selected(c)
    \/ /\ p \in Demo!Operators /\ s.request.action = "assign_order"
       /\ s.at \in {"mission_planning", "agro_mission_received"}
    \/ /\ p \in Demo!Operators /\ s.request.action = "assign_order"
       /\ s.at \in {"validate_mission", "prepare_dispatch"} /\ IsPlan(c, s.locals)
    \/ /\ p = "agro_drone" /\ s.request.action = "agro_mission_received"
       /\ IsPlan(c, s.request.args) /\ s.at \in FlightCalls
       /\ s.at # "request_takeoff_permission" => s.request.args.mission \in c.approved
       /\ s.at \in {"sitl_simulate", "request_landing_permission"} => Dispatched(c, s.request.args)

OnboardingBusy(c, p, s) ==
    \/ p = Main /\ s.at \in {"request_firmware_certification", "request_uas_registration"}
    \/ p = Main /\ s.at = "request_uas_purchase" /\ s.locals.registered \in c.registry
    \/ /\ p = "vendor_uas" /\ s.request.action = s.at
       /\ s.at \in {"request_firmware_certification", "request_uas_registration"}
    \/ /\ p = "vendor_uas" /\ s.request.action = "request_uas_purchase"
       /\ s.at = "request_uas_registration" /\ AreNumbers(c, s.locals)
    \/ /\ p \in Demo!Operators /\ s.request.action = "request_uas_purchase"
       /\ s.at = "request_uas_purchase"
    \/ /\ p \in Demo!Operators /\ s.request.action = "request_uas_purchase"
       /\ s.at = "assign_uas_to_droneport" /\ AreItems(c, s.locals)

Busy(sc, c, p, s) == IF sc = "order" THEN OrderBusy(c, p, s) ELSE OnboardingBusy(c, p, s)

Success(r) == r = Demo!Ok(r.of)
Flown(c, r) == r = Demo!Failed \/ (Success(r) /\ r.of \in c.landed)
Reported(c, r) == r = Demo!Failed \/ (Success(r) /\ Flown(c, r.of))

OrderAnswer(c, p, s, r) ==
    /\ s.at \in {"place_order", "receive_order", "assign_order"} => Reported(c, r)
    /\ s.at = "agro_mission_received" => Flown(c, r)
    /\ s.at = "proposal_request" =>
          r = Demo!Failed \/ (Success(r) /\ IsProposal(c, r.of))
    /\ s.at = "get_available_uas" => r = Demo!Ok(c.park[Demo!Ports[s.locals.asked]])
    /\ s.at = "request_insurance_quote" => r = Demo!Failed \/ (Success(r) /\ r.of \in Int)
    /\ s.at = "mission_planning" =>
          r = Demo!Failed \/ (Success(r) /\ IsPlan(c, r.of))
    /\ s.at = "request_takeoff_permission" =>
          r = Demo!Ok(FALSE) \/ s.request.args.mission \in c.approved
    /\ s.at = "check_droneport_ready" =>
          r = Demo!Ok(FALSE) \/ Dispatched(c, s.request.args)
    /\ s.at = "request_landing_permission" => s.request.args \in c.landed

OnboardingAnswer(c, p, s, r) ==
    /\ s.at = "request_uas_registration" =>
          r = Demo!Failed \/ (Success(r) /\ r.of \in c.registry)
    /\ s.at = "request_uas_purchase" /\ p = Main =>
          r = Demo!Failed \/ (Success(r) /\ AreItems(c, r.of) /\ InPark(c, r.of))
    /\ s.at = "request_uas_purchase" /\ p # Main =>
          r = Demo!Failed \/ (Success(r) /\ AreNumbers(c, r.of))
    /\ s.at = "assign_uas_to_droneport" => InPark(c, s.locals)

Answer(sc, c, p, s, r) ==
    IF sc = "order" THEN OrderAnswer(c, p, s, r) ELSE OnboardingAnswer(c, p, s, r)

\* What the orchestrator takes a scenario's end for.
Done(sc, c, r) ==
    IF sc = "order" THEN "bought" \notin DOMAIN r /\ r.flown \in c.landed
    ELSE /\ "bought" \in DOMAIN r
         /\ r.registered \in c.registry
         /\ AreItems(c, r.bought) /\ InPark(c, r.bought) /\ Len(r.bought) = 2
-----------------------------------------------------------------------------
(* The inductive invariant.                                                  *)

TypesInv ==
    /\ DOMAIN inbox = DemoEntities /\ \A e \in DemoEntities : IsSeq(inbox[e])
    /\ DOMAIN at = Procs /\ DOMAIN locals = Procs /\ DOMAIN reply = Procs
    /\ calls \in [Procs -> Nat]
    /\ DOMAIN dispatched = Demo!Droneports
    /\ ParkOK(park) /\ ParkOK(saved.park)

Sent(m) == m.from \in Procs /\ m.id \in Nat /\ m.id <= calls[m.from]
Awaited(m) == Demo!Waiting(m.from) /\ m.id = calls[m.from]

\* A message put for e is a stop message, or a call that is made in this scenario; if
\* the caller still waits for it, it is the call its state is about.
MessageOK(sc, e, m) ==
    \/ m = Demo!Stop
    \/ /\ Sent(m)
       /\ Fits(sc, City, m.from, e, m.action, m.args)
       /\ Awaited(m) => Link(State(m.from), e, m.action, m.args)

Queued(e) == {inbox[e][i] : i \in DOMAIN inbox[e]}
MessagesInv(sc) == \A e \in DemoEntities : \A m \in Queued(e) : MessageOK(sc, e, m)

\* A process that waits handles a request, knows what it goes on with, and has no
\* answer or one to its call.
WaitOK(sc, p) ==
    /\ p # Main => inbox[p] # <<>>
    /\ Busy(sc, City, p, State(p))
    /\ reply[p] = None \/ Answer(sc, City, p, State(p), reply[p])

WaitsInv(sc) == \A p \in Procs : Demo!Waiting(p) => WaitOK(sc, p)

ResultInv(sc) ==
    at[Main] \in {"stopping", "closing"} =>
        locals[Main] = None \/ Done(sc, City, locals[Main])

LaunchInv(sc) == TypesInv /\ MessagesInv(sc) /\ WaitsInv(sc) /\ ResultInv(sc)
DemoInv == \E sc \in Scenarios : LaunchInv(sc)
-----------------------------------------------------------------------------
(* Sequences of anything.                                                    *)

LEMMA SeqOfAny ==
    ASSUME NEW S, NEW s \in Seq(S)
    PROVE  IsSeq(s)
<1>1. Len(s) \in Nat /\ DOMAIN s = 1 .. Len(s) /\ \A i \in 1 .. Len(s) : s[i] \in S
  BY LenProperties, ElementOfSeq
<1> DEFINE T == {s[i] : i \in DOMAIN s}
<1>2. s \in [1 .. Len(s) -> T]
  BY <1>1, LenProperties
<1>3. s \in Seq(T)
  BY <1>1, <1>2, SeqDef
<1> QED
  BY <1>3 DEF IsSeq

LEMMA SeqFacts ==
    ASSUME NEW s, IsSeq(s)
    PROVE  /\ Len(s) \in Nat /\ DOMAIN s = 1 .. Len(s)
           /\ s = <<>> <=> Len(s) = 0
           /\ s # <<>> => 1 \in DOMAIN s /\ Head(s) = s[1]
<1>1. s \in Seq({s[i] : i \in DOMAIN s})
  BY DEF IsSeq
<1> HIDE DEF IsSeq
<1>2. PICK S : s \in Seq(S)
  BY <1>1
<1> QED
  BY <1>2

LEMMA AppendFacts ==
    ASSUME NEW s, IsSeq(s), NEW x
    PROVE  /\ IsSeq(Append(s, x))
           /\ Append(s, x) # <<>>
           /\ s # <<>> => Head(Append(s, x)) = Head(s)
           /\ s = <<>> => Head(Append(s, x)) = x
           /\ \A i \in DOMAIN Append(s, x) :
                 (i \in DOMAIN s /\ Append(s, x)[i] = s[i]) \/ Append(s, x)[i] = x
<1>1. PICK S : s \in Seq(S)
  BY DEF IsSeq
<1> DEFINE T == S \cup {x}
<1>2. s \in Seq(T) /\ x \in T
  BY <1>1, SeqMonotonic
<1> HIDE DEF T
<1>3. Append(s, x) \in Seq(T)
  BY <1>2
<1>4. IsSeq(Append(s, x))
  BY <1>3, SeqOfAny
<1> QED
  BY <1>2, <1>4

LEMMA TailFacts ==
    ASSUME NEW s, IsSeq(s), s # <<>>
    PROVE  /\ IsSeq(Tail(s))
           /\ \A i \in DOMAIN Tail(s) : i + 1 \in DOMAIN s /\ Tail(s)[i] = s[i + 1]
<1>1. PICK S : s \in Seq(S)
  BY DEF IsSeq
<1>2. Tail(s) \in Seq(S)
  BY <1>1
<1>3. IsSeq(Tail(s))
  BY <1>2, SeqOfAny
<1> QED
  BY <1>1, <1>3

LEMMA ConcatFacts ==
    ASSUME NEW s, IsSeq(s), NEW t, IsSeq(t)
    PROVE  /\ IsSeq(s \o t)
           /\ s = <<>> => s \o t = t
           /\ \A i \in DOMAIN s : i \in DOMAIN (s \o t) /\ (s \o t)[i] = s[i]
           /\ \A i \in DOMAIN t : Len(s) + i \in DOMAIN (s \o t) /\ (s \o t)[Len(s) + i] = t[i]
           /\ \A i \in DOMAIN (s \o t) :
                 \/ i \in DOMAIN s /\ (s \o t)[i] = s[i]
                 \/ i - Len(s) \in DOMAIN t /\ (s \o t)[i] = t[i - Len(s)]
<1>1. PICK S : s \in Seq(S)
  BY DEF IsSeq
<1>2. PICK R : t \in Seq(R)
  BY DEF IsSeq
<1> DEFINE T == S \cup R
<1>3. s \in Seq(T) /\ t \in Seq(T)
  BY <1>1, <1>2, SeqMonotonic
<1> HIDE DEF T
<1>4. s \o t \in Seq(T)
  BY <1>3
<1>5. IsSeq(s \o t)
  BY <1>4, SeqOfAny
<1>6. /\ Len(s \o t) = Len(s) + Len(t)
      /\ \A i \in 1 .. Len(s) + Len(t) :
            (s \o t)[i] = IF i <= Len(s) THEN s[i] ELSE t[i - Len(s)]
  BY <1>3, ConcatProperties
<1>7. Len(s) \in Nat /\ Len(t) \in Nat /\ DOMAIN s = 1 .. Len(s) /\ DOMAIN t = 1 .. Len(t)
      /\ DOMAIN (s \o t) = 1 .. Len(s) + Len(t)
  BY <1>5, <1>6, SeqFacts
<1>8. s = <<>> => s \o t = t
  BY <1>3, ConcatEmptySeq
<1> DEFINE u == s \o t
<1>9. /\ \A i \in 1 .. Len(s) : i \in 1 .. Len(s) + Len(t) /\ i <= Len(s)
      /\ \A i \in 1 .. Len(t) : /\ Len(s) + i \in 1 .. Len(s) + Len(t) /\ ~(Len(s) + i <= Len(s))
                                /\ (Len(s) + i) - Len(s) = i
      /\ \A i \in 1 .. Len(s) + Len(t) : i <= Len(s) => i \in 1 .. Len(s)
      /\ \A i \in 1 .. Len(s) + Len(t) : ~(i <= Len(s)) => i - Len(s) \in 1 .. Len(t)
  <2> HIDE DEF IsSeq
  <2> QED
    BY <1>7
<1>10. /\ DOMAIN u = 1 .. Len(s) + Len(t)
       /\ \A i \in 1 .. Len(s) + Len(t) : u[i] = IF i <= Len(s) THEN s[i] ELSE t[i - Len(s)]
  BY <1>6, <1>7
<1> HIDE DEF u
<1>11. \A i \in DOMAIN s : i \in DOMAIN u /\ u[i] = s[i]
  BY <1>7, <1>9, <1>10
<1>12. \A i \in DOMAIN t : Len(s) + i \in DOMAIN u /\ u[Len(s) + i] = t[i]
  BY <1>7, <1>9, <1>10
<1>13. \A i \in DOMAIN u : \/ i \in DOMAIN s /\ u[i] = s[i]
                           \/ i - Len(s) \in DOMAIN t /\ u[i] = t[i - Len(s)]
  BY <1>7, <1>9, <1>10
<1> QED
  BY <1>5, <1>8, <1>11, <1>12, <1>13 DEF u

LEMMA EmptyIsSeq == IsSeq(<<>>)
<1>1. <<>> \in Seq({})
  OBVIOUS
<1> QED
  BY <1>1, SeqOfAny
-----------------------------------------------------------------------------
(* The first of the cheapest.                                                *)

LEMMA LeastExists ==
    ASSUME NEW I, I \subseteq Nat, IsFiniteSet(I), I # {},
           NEW cost, \A i \in I : cost[i] \in Int
    PROVE  \E i \in I : \A j \in I : cost[i] < cost[j] \/ (cost[i] = cost[j] /\ i <= j)
<1> DEFINE Least(i, B) == \A j \in B : cost[i] < cost[j] \/ (cost[i] = cost[j] /\ i <= j)
           T == {B \in SUBSET I : B # {} /\ \A i \in B : ~Least(i, B)}
           F == FiniteSubsetsOf(I)
           R == StrictSubsetOrdering(I)
<1> SUFFICES ASSUME I \in T PROVE FALSE
  OBVIOUS
<1>1. T \subseteq F
  BY FS_Subset DEF FiniteSubsetsOf
<1>2. IsWellFoundedOn(R, F)
  BY FS_StrictSubsetOrderingWellFounded
<1>3. T # {}
  OBVIOUS
<1>4. ASSUME NEW B \in T, NEW b \in B
      PROVE  <<B \ {b}, B>> \in R
  BY DEF StrictSubsetOrdering
<1> HIDE DEF F, R
<1>5. PICK B \in T : \A C \in T : ~(<<C, B>> \in R)
  BY <1>1, <1>2, <1>3, WFMin
<1>6. PICK b : b \in B
  BY <1>5
<1>7. B \ {b} \notin T
  BY <1>4, <1>5, <1>6
<1>8. B \subseteq I /\ b \in Nat /\ cost[b] \in Int
  BY <1>5, <1>6
<1>9. CASE B = {b}
  <2>1. Least(b, B)
    BY <1>8, <1>9
  <2> QED
    BY <1>5, <1>6, <2>1
<1>10. CASE B # {b}
  <2>1. PICK a \in B \ {b} : Least(a, B \ {b})
    BY <1>6, <1>7, <1>8, <1>10
  <2>2. a \in Nat /\ cost[a] \in Int
    BY <1>8, <2>1
  <2>3. \A j \in B : j \in Nat /\ cost[j] \in Int
    BY <1>8
  <2>4. CASE cost[a] < cost[b] \/ (cost[a] = cost[b] /\ a <= b)
    <3>1. Least(a, B)
      BY <2>1, <2>4
    <3> QED
      BY <1>5, <2>1, <3>1
  <2>5. CASE ~(cost[a] < cost[b] \/ (cost[a] = cost[b] /\ a <= b))
    <3>1. cost[b] < cost[a] \/ (cost[b] = cost[a] /\ b <= a)
      BY <1>8, <2>2, <2>5
    <3>2. ASSUME NEW j \in B
          PROVE  cost[b] < cost[j] \/ (cost[b] = cost[j] /\ b <= j)
      <4>1. CASE j = b
        BY <1>8, <4>1
      <4>2. CASE j # b
        <5>1. cost[a] < cost[j] \/ (cost[a] = cost[j] /\ a <= j)
          BY <2>1, <4>2
        <5>2. j \in Nat /\ cost[j] \in Int
          BY <2>3
        <5> HIDE DEF T, Least
        <5> QED
          BY <1>8, <2>2, <3>1, <5>1, <5>2
      <4> QED
        BY <4>1, <4>2
    <3> QED
      BY <1>5, <1>6, <3>2
  <2> QED
    BY <2>4, <2>5
<1> QED
  BY <1>9, <1>10

LEMMA CheapestIs ==
    ASSUME NEW s, DOMAIN s \subseteq Nat, IsFiniteSet(DOMAIN s), DOMAIN s # {},
           \A i \in DOMAIN s : s[i].cost \in Int
    PROVE  \E i \in DOMAIN s : /\ Demo!Cheapest(s) = s[i]
                               /\ \A j \in DOMAIN s : s[i].cost <= s[j].cost
<1> DEFINE cost == [i \in DOMAIN s |-> s[i].cost]
           Leads(i) == \A j \in DOMAIN s :
                           s[i].cost < s[j].cost \/ (s[i].cost = s[j].cost /\ i <= j)
<1>1. \A i \in DOMAIN s : cost[i] \in Int
  OBVIOUS
<1>2. PICK k \in DOMAIN s :
          \A j \in DOMAIN s : cost[k] < cost[j] \/ (cost[k] = cost[j] /\ k <= j)
  <2> HIDE DEF cost
  <2> QED
    BY <1>1, LeastExists
<1>3. Leads(k)
  BY <1>2
<1> DEFINE n == CHOOSE i \in DOMAIN s : Leads(i)
<1>4. n \in DOMAIN s /\ Leads(n)
  BY <1>3
<1>5. Demo!Cheapest(s) = s[n]
  BY DEF Demo!Cheapest
<1>6. \A j \in DOMAIN s : s[n].cost <= s[j].cost
  BY <1>4
<1> HIDE DEF n
<1> QED
  BY <1>4, <1>5, <1>6

\* What an operator selects among is a list of the UAS of both ports.
LEMMA HereIs ==
    ASSUME NEW c, ParkOK(c.park), NEW n \in 1 .. 2
    PROVE  /\ Demo!Ports[n] \in Demo!Droneports
           /\ IsSeq(Here(c, n)) /\ DOMAIN Here(c, n) = DOMAIN c.park[Demo!Ports[n]]
           /\ \A i \in DOMAIN Here(c, n) :
                 /\ Here(c, n)[i].port = Demo!Ports[n]
                 /\ Here(c, n)[i].uas = c.park[Demo!Ports[n]][i]
                 /\ Here(c, n)[i].cost = c.park[Demo!Ports[n]][i].cost
                 /\ Here(c, n)[i].cost \in Int
<1>1. Demo!Ports[n] \in Demo!Droneports
  BY DEF Demo!Ports, Demo!Droneports
<1> DEFINE s == c.park[Demo!Ports[n]]
<1>2. IsSeq(s) /\ \A i \in DOMAIN s : s[i].cost \in Int
  BY <1>1 DEF ParkOK
<1>3. Len(s) \in Nat /\ DOMAIN s = 1 .. Len(s)
  BY <1>2, SeqFacts
<1> DEFINE T == {Here(c, n)[i] : i \in 1 .. Len(s)}
<1>4. DOMAIN Here(c, n) = 1 .. Len(s)
  BY <1>3 DEF Here
<1>5. Here(c, n) \in [1 .. Len(s) -> T]
  BY <1>3 DEF Here
<1>6. Here(c, n) \in Seq(T)
  BY <1>3, <1>5, SeqDef
<1>7. IsSeq(Here(c, n))
  BY <1>6, SeqOfAny
<1> QED
  BY <1>1, <1>2, <1>3, <1>4, <1>7 DEF Here

\* The UAS selected is at its port, and none costs less.
LEMMA SelectedIs ==
    ASSUME NEW c, ParkOK(c.park), Candidates(c) # <<>>
    PROVE  /\ Selected(c).port \in Demo!Droneports
           /\ Selected(c).cost \in Int
           /\ \E i \in DOMAIN c.park[Selected(c).port] :
                 c.park[Selected(c).port][i] = Selected(c).uas
           /\ \A p \in Demo!Droneports : \A i \in DOMAIN c.park[p] :
                 Selected(c).uas.cost <= c.park[p][i].cost
<1> DEFINE s == Candidates(c)
<1>1. IsSeq(Here(c, 1)) /\ IsSeq(Here(c, 2))
  BY HereIs
<1>2. /\ IsSeq(s)
      /\ \A i \in DOMAIN Here(c, 1) : i \in DOMAIN s /\ s[i] = Here(c, 1)[i]
      /\ \A i \in DOMAIN Here(c, 2) :
            Len(Here(c, 1)) + i \in DOMAIN s /\ s[Len(Here(c, 1)) + i] = Here(c, 2)[i]
      /\ \A i \in DOMAIN s : \/ i \in DOMAIN Here(c, 1) /\ s[i] = Here(c, 1)[i]
                             \/ i - Len(Here(c, 1)) \in DOMAIN Here(c, 2)
                                /\ s[i] = Here(c, 2)[i - Len(Here(c, 1))]
  <2> DEFINE x == Here(c, 1)
             y == Here(c, 2)
  <2>1. s = x \o y
    BY DEF Candidates
  <2>2. IsSeq(x) /\ IsSeq(y)
    BY <1>1
  <2> HIDE DEF x, y, s
  <2>3. /\ IsSeq(x \o y)
        /\ x = <<>> => x \o y = y
        /\ \A i \in DOMAIN x : i \in DOMAIN (x \o y) /\ (x \o y)[i] = x[i]
        /\ \A i \in DOMAIN y : Len(x) + i \in DOMAIN (x \o y) /\ (x \o y)[Len(x) + i] = y[i]
        /\ \A i \in DOMAIN (x \o y) : \/ i \in DOMAIN x /\ (x \o y)[i] = x[i]
                                      \/ i - Len(x) \in DOMAIN y /\ (x \o y)[i] = y[i - Len(x)]
    BY <2>2, ConcatFacts, Zenon
  <2> QED
    BY <2>1, <2>3 DEF x, y
<1>12. s # <<>>
  OBVIOUS
<1> HIDE DEF s
<1>3. \A i \in DOMAIN s : \E n \in 1 .. 2 : \E k \in DOMAIN Here(c, n) : s[i] = Here(c, n)[k]
  BY <1>2
<1>4. \A n \in 1 .. 2 : \A k \in DOMAIN Here(c, n) : \E i \in DOMAIN s : s[i] = Here(c, n)[k]
  <2> SUFFICES ASSUME NEW n \in 1 .. 2, NEW k \in DOMAIN Here(c, n)
               PROVE  \E i \in DOMAIN s : s[i] = Here(c, n)[k]
    OBVIOUS
  <2>1. n = 1 \/ n = 2
    OBVIOUS
  <2> QED
    BY <1>2, <2>1
<1>5. /\ DOMAIN s \subseteq Nat /\ IsFiniteSet(DOMAIN s) /\ DOMAIN s # {}
  <2>1. Len(s) \in Nat /\ DOMAIN s = 1 .. Len(s) /\ Len(s) # 0
    BY <1>2, <1>12, SeqFacts
  <2>2. 1 .. Len(s) \subseteq Nat /\ 1 .. Len(s) # {}
    BY <2>1
  <2>3. IsFiniteSet(1 .. Len(s))
    BY <2>1, FS_Interval
  <2> QED
    BY <2>1, <2>2, <2>3, Zenon
<1>6. \A i \in DOMAIN s : s[i].cost \in Int
  BY <1>3, HereIs
<1>7. PICK i \in DOMAIN s : Selected(c) = s[i] /\ \A j \in DOMAIN s : s[i].cost <= s[j].cost
  <2>1. Selected(c) = Demo!Cheapest(s)
    BY DEF Selected, s
  <2> QED
    BY <1>5, <1>6, <2>1, CheapestIs
<1>8. PICK n \in 1 .. 2 : \E k \in DOMAIN Here(c, n) : s[i] = Here(c, n)[k]
  BY <1>3
<1>9. PICK k \in DOMAIN Here(c, n) : s[i] = Here(c, n)[k]
  BY <1>8
<1>10. /\ Selected(c).port = Demo!Ports[n] /\ Demo!Ports[n] \in Demo!Droneports
      /\ k \in DOMAIN c.park[Demo!Ports[n]]
      /\ Selected(c).uas = c.park[Demo!Ports[n]][k]
      /\ Selected(c).cost = Selected(c).uas.cost /\ Selected(c).cost \in Int
  BY <1>7, <1>9, HereIs
<1>11. ASSUME NEW p \in Demo!Droneports, NEW j \in DOMAIN c.park[p]
       PROVE  Selected(c).uas.cost <= c.park[p][j].cost
  <2>1. PICK q \in 1 .. 2 : p = Demo!Ports[q]
    BY DEF Demo!Ports, Demo!Droneports
  <2>2. j \in DOMAIN Here(c, q) /\ Here(c, q)[j].cost = c.park[p][j].cost
    BY <2>1, HereIs
  <2>3. PICK t \in DOMAIN s : s[t] = Here(c, q)[j]
    BY <1>4, <2>2
  <2> QED
    BY <1>7, <1>10, <2>2, <2>3
<1> QED
  BY <1>10, <1>11
-----------------------------------------------------------------------------
(* What a city's growth leaves true.  While an order is on its way the parks *)
(* stay as they are, so that the UAS selected is the same for everyone;      *)
(* during the onboarding numbers and UAS are only added.                     *)

Grown(sc, c, d) ==
    IF sc = "order"
    THEN /\ d.park = c.park /\ c.approved \subseteq d.approved /\ c.landed \subseteq d.landed
         /\ \A p \in Demo!Droneports : \A k :
               <<k, Selected(c).uas>> \in c.dispatched[p] =>
                   <<k, Selected(c).uas>> \in d.dispatched[p]
    ELSE /\ c.registry \subseteq d.registry
         /\ \A i \in DOMAIN c.park[Demo!TargetPort] :
               \E j \in DOMAIN d.park[Demo!TargetPort] :
                   d.park[Demo!TargetPort][j] = c.park[Demo!TargetPort][i]

LEMMA SameCity ==
    ASSUME NEW sc, NEW c
    PROVE  Grown(sc, c, c)
  BY DEF Grown

LEMMA SamePlans ==
    ASSUME NEW c, NEW d, Grown("order", c, d), ParkOK(c.park)
    PROVE  /\ Here(d, 1) = Here(c, 1) /\ Candidates(d) = Candidates(c) /\ Selected(d) = Selected(c)
           /\ \A m : IsPlan(d, m) <=> IsPlan(c, m)
           /\ \A x : IsProposal(d, x) <=> IsProposal(c, x)
           /\ \A m : IsPlan(c, m) /\ Dispatched(c, m) => Dispatched(d, m)
           /\ \A r : (Flown(c, r) => Flown(d, r)) /\ (Reported(c, r) => Reported(d, r))
<1>1. /\ d.park = c.park /\ c.landed \subseteq d.landed
      /\ \A p \in Demo!Droneports : \A k :
            <<k, Selected(c).uas>> \in c.dispatched[p] =>
                <<k, Selected(c).uas>> \in d.dispatched[p]
  BY DEF Grown
<1>2. Here(d, 1) = Here(c, 1) /\ Here(d, 2) = Here(c, 2)
  BY <1>1 DEF Here
<1>3. Candidates(d) = Candidates(c) /\ Selected(d) = Selected(c)
  BY <1>2 DEF Candidates, Selected
<1>4. \A m : IsPlan(d, m) <=> IsPlan(c, m)
  BY <1>3, Zenon DEF IsPlan
<1>5. \A x : IsProposal(d, x) <=> IsProposal(c, x)
  BY <1>3, Zenon DEF IsProposal
<1>6. ASSUME NEW m, IsPlan(c, m), Dispatched(c, m)
      PROVE  Dispatched(d, m)
  <2>1. Selected(c).port \in Demo!Droneports
    BY <1>6, SelectedIs DEF IsPlan
  <2>2. m.uas = Selected(c).uas /\ m.port = Selected(c).port
    <3>1. m = [mission |-> m.mission, uas |-> Selected(c).uas, port |-> Selected(c).port,
               return_port |-> Demo!TargetPort]
      BY <1>6 DEF IsPlan
    <3> QED
      BY <3>1
  <2> QED
    BY <1>1, <1>6, <2>1, <2>2, Zenon DEF Dispatched
<1>7. \A r : Flown(c, r) => Flown(d, r)
  BY <1>1 DEF Flown
<1>8. \A r : Reported(c, r) => Reported(d, r)
  BY <1>7 DEF Reported
<1> QED
  BY <1>2, <1>3, <1>4, <1>5, <1>6, <1>7, <1>8

LEMMA SameItems ==
    ASSUME NEW c, NEW d, Grown("onboarding", c, d)
    PROVE  /\ c.registry \subseteq d.registry
           /\ \A x : AreNumbers(c, x) => AreNumbers(d, x)
           /\ \A x : AreItems(c, x) => AreItems(d, x)
           /\ \A x : InPark(c, x) => InPark(d, x)
<1>1. /\ c.registry \subseteq d.registry
      /\ \A i \in DOMAIN c.park[Demo!TargetPort] :
            \E j \in DOMAIN d.park[Demo!TargetPort] :
                d.park[Demo!TargetPort][j] = c.park[Demo!TargetPort][i]
  BY DEF Grown
<1>2. \A x : AreNumbers(c, x) => AreNumbers(d, x)
  BY <1>1, Zenon DEF AreNumbers
<1>3. \A x : AreItems(c, x) => AreItems(d, x)
  BY <1>1, Zenon DEF AreItems
<1>4. \A x : InPark(c, x) => InPark(d, x)
  <2> SUFFICES ASSUME NEW x, InPark(c, x), NEW i \in DOMAIN x
               PROVE  \E j \in DOMAIN d.park[Demo!TargetPort] :
                          d.park[Demo!TargetPort][j] = x[i]
    BY DEF InPark
  <2>1. PICK k \in DOMAIN c.park[Demo!TargetPort] : c.park[Demo!TargetPort][k] = x[i]
    BY DEF InPark
  <2> QED
    BY <1>1, <2>1, Zenon
<1> QED
  BY <1>1, <1>2, <1>3, <1>4

LEMMA FitsStill ==
    ASSUME NEW sc \in Scenarios, NEW c, NEW d, Grown(sc, c, d), ParkOK(c.park),
           NEW p, NEW to, NEW a, NEW x, Fits(sc, c, p, to, a, x)
    PROVE  Fits(sc, d, p, to, a, x)
<1>1. CASE sc = "order"
  <2>1. /\ Candidates(d) = Candidates(c) /\ Selected(d) = Selected(c)
        /\ IsPlan(d, x) <=> IsPlan(c, x)
    BY <1>1, SamePlans
  <2>2. OrderCall(c, p, to, a, x)
    BY <1>1 DEF Fits
  <2>3. OrderCall(d, p, to, a, x)
    BY <2>1, <2>2, Zenon DEF OrderCall
  <2> QED
    BY <1>1, <2>3 DEF Fits
<1>2. CASE sc = "onboarding"
  <2>1. AreItems(c, x) => AreItems(d, x)
    BY <1>2, SameItems
  <2>2. OnboardingCall(c, p, to, a, x)
    BY <1>2 DEF Fits
  <2>3. OnboardingCall(d, p, to, a, x)
    BY <2>1, <2>2, Zenon DEF OnboardingCall
  <2> QED
    BY <1>2, <2>3 DEF Fits
<1> QED
  BY <1>1, <1>2 DEF Scenarios

LEMMA BusyStill ==
    ASSUME NEW sc \in Scenarios, NEW c, NEW d, Grown(sc, c, d), ParkOK(c.park),
           NEW p, NEW s, Busy(sc, c, p, s)
    PROVE  Busy(sc, d, p, s)
<1>1. CASE sc = "order"
  <2>1. /\ Here(d, 1) = Here(c, 1) /\ Candidates(d) = Candidates(c) /\ Selected(d) = Selected(c)
        /\ \A m : IsPlan(d, m) <=> IsPlan(c, m)
        /\ \A x : IsProposal(d, x) <=> IsProposal(c, x)
        /\ \A m : IsPlan(c, m) /\ Dispatched(c, m) => Dispatched(d, m)
    BY <1>1, SamePlans, Zenon
  <2>2. c.approved \subseteq d.approved
    BY <1>1 DEF Grown
  <2>3. OrderBusy(c, p, s)
    BY <1>1 DEF Busy
  <2>4. OrderBusy(d, p, s)
    BY <2>1, <2>2, <2>3 DEF OrderBusy
  <2> QED
    BY <1>1, <2>4 DEF Busy
<1>2. CASE sc = "onboarding"
  <2>1. /\ c.registry \subseteq d.registry
        /\ AreNumbers(c, s.locals) => AreNumbers(d, s.locals)
        /\ AreItems(c, s.locals) => AreItems(d, s.locals)
    BY <1>2, SameItems, Zenon
  <2>2. OnboardingBusy(c, p, s)
    BY <1>2 DEF Busy
  <2>3. OnboardingBusy(d, p, s)
    BY <2>1, <2>2 DEF OnboardingBusy
  <2> QED
    BY <1>2, <2>3 DEF Busy
<1> QED
  BY <1>1, <1>2 DEF Scenarios

LEMMA AnswerStill ==
    ASSUME NEW sc \in Scenarios, NEW c, NEW d, Grown(sc, c, d), ParkOK(c.park),
           NEW p, NEW s, Busy(sc, c, p, s), NEW r, Answer(sc, c, p, s, r)
    PROVE  Answer(sc, d, p, s, r)
<1>1. CASE sc = "order"
  <2>1. /\ \A m : IsPlan(d, m) <=> IsPlan(c, m)
        /\ \A x : IsProposal(d, x) <=> IsProposal(c, x)
        /\ \A m : IsPlan(c, m) /\ Dispatched(c, m) => Dispatched(d, m)
        /\ (Flown(c, r) => Flown(d, r)) /\ (Reported(c, r) => Reported(d, r))
    BY <1>1, SamePlans, Zenon
  <2>2. c.approved \subseteq d.approved /\ c.landed \subseteq d.landed /\ d.park = c.park
    BY <1>1 DEF Grown
  <2>3. s.at = "check_droneport_ready" => IsPlan(c, s.request.args)
    BY <1>1 DEF Busy, OrderBusy
  <2>4. OrderAnswer(c, p, s, r)
    BY <1>1 DEF Answer
  <2>5. OrderAnswer(d, p, s, r)
    BY <2>1, <2>2, <2>3, <2>4 DEF OrderAnswer
  <2> QED
    BY <1>1, <2>5 DEF Answer
<1>2. CASE sc = "onboarding"
  <2>1. /\ c.registry \subseteq d.registry
        /\ \A x : AreNumbers(c, x) => AreNumbers(d, x)
        /\ \A x : AreItems(c, x) => AreItems(d, x)
        /\ \A x : InPark(c, x) => InPark(d, x)
    BY <1>2, SameItems, Zenon
  <2>2. OnboardingAnswer(c, p, s, r)
    BY <1>2 DEF Answer
  <2>3. OnboardingAnswer(d, p, s, r)
    BY <2>1, <2>2 DEF OnboardingAnswer
  <2> QED
    BY <1>2, <2>3 DEF Answer
<1> QED
  BY <1>1, <1>2 DEF Scenarios

LEMMA DoneStill ==
    ASSUME NEW sc \in Scenarios, NEW c, NEW d, Grown(sc, c, d), NEW r, Done(sc, c, r)
    PROVE  Done(sc, d, r)
<1>1. CASE sc = "order"
  BY <1>1 DEF Grown, Done
<1>2. CASE sc = "onboarding"
  <2>1. /\ c.registry \subseteq d.registry
        /\ \A x : AreItems(c, x) => AreItems(d, x)
        /\ \A x : InPark(c, x) => InPark(d, x)
    BY <1>2, SameItems, Zenon
  <2> QED
    BY <1>2, <2>1 DEF Done
<1> QED
  BY <1>1, <1>2 DEF Scenarios
-----------------------------------------------------------------------------
(* What steps leave alone.                                                   *)

Idles == {"ready", "stopped", "stopping", "closing"}

LEMMA ProcsAre == Procs = DemoEntities \cup {Main} /\ Main \notin DemoEntities
  BY DEF Procs, Demo!Processes, Main, DemoEntities

LEMMA SameCityVars ==
    ASSUME Demo!cityVars' = Demo!cityVars
    PROVE  City' = City /\ park' = park /\ dispatched' = dispatched
  BY DEF City, Demo!cityVars

LEMMA CityPark == City.park = park /\ City.registry = registry
  BY DEF City

LEMMA MessageStill ==
    ASSUME NEW sc \in Scenarios, TypesInv, Grown(sc, City, City'), NEW e, NEW m,
           MessageOK(sc, e, m), calls' \in [Procs -> Nat],
           m.from \in Procs => calls[m.from] <= calls'[m.from],
           Sent(m) /\ Awaited(m)' => Awaited(m) /\ State(m.from)' = State(m.from)
    PROVE  MessageOK(sc, e, m)'
<1>1. CASE m = Demo!Stop
  BY <1>1 DEF MessageOK, Demo!Stop
<1>2. CASE m # Demo!Stop
  <2>1. /\ Sent(m) /\ Fits(sc, City, m.from, e, m.action, m.args)
        /\ Awaited(m) => Link(State(m.from), e, m.action, m.args)
    BY <1>2 DEF MessageOK
  <2>2. Sent(m)'
    BY <2>1 DEF Sent, TypesInv
  <2>3. ParkOK(City.park)
    BY CityPark DEF TypesInv
  <2>4. Fits(sc, City', m.from, e, m.action, m.args)
    BY <2>1, <2>3, FitsStill
  <2>5. Awaited(m)' => Link(State(m.from)', e, m.action, m.args)
    BY <2>1
  <2> QED
    BY <2>2, <2>4, <2>5 DEF MessageOK
<1> QED
  BY <1>1, <1>2

LEMMA WaitStill ==
    ASSUME NEW sc \in Scenarios, TypesInv, Grown(sc, City, City'), NEW p \in Procs,
           WaitOK(sc, p), State(p)' = State(p), p # Main => inbox'[p] # <<>>,
           \/ reply'[p] = reply[p]
           \/ reply'[p] = None
           \/ Answer(sc, City', p, State(p), reply'[p])
    PROVE  WaitOK(sc, p)'
<1>1. ParkOK(City.park)
  BY CityPark DEF TypesInv
<1>2. Busy(sc, City, p, State(p))
  BY DEF WaitOK
<1>3. Busy(sc, City', p, State(p)')
  BY <1>1, <1>2, BusyStill
<1>4. reply'[p] = None \/ Answer(sc, City', p, State(p)', reply'[p])
  <2>1. reply[p] = None \/ Answer(sc, City, p, State(p), reply[p])
    BY DEF WaitOK
  <2>2. reply[p] = None \/ Answer(sc, City', p, State(p), reply[p])
    BY <1>1, <1>2, <2>1, AnswerStill
  <2> QED
    BY <2>2
<1> QED
  BY <1>3, <1>4 DEF WaitOK

\* A process whose own variables stay, and whose inbox only grows, is as it was.
LEMMA StateStill ==
    ASSUME NEW p, at'[p] = at[p], locals'[p] = locals[p],
           p # Main => Head(inbox'[p]) = Head(inbox[p])
    PROVE  State(p)' = State(p)
<1>1. Handled(p)' = Handled(p)
  BY DEF Handled, Demo!Request, Demo!Stop
<1> QED
  BY <1>1 DEF State
-----------------------------------------------------------------------------
(* A call of a process that is at work.                                      *)

LEMMA CallKeeps ==
    ASSUME NEW sc \in Scenarios, LaunchInv(sc),
           NEW p \in Procs, NEW to \in DemoEntities, NEW a, NEW x, NEW l,
           p # Main => inbox[p] # <<>>, a \notin Idles,
           Demo!Call(p, to, a, x, l),
           Demo!cityVars' = Demo!cityVars, saved' = saved,
           Fits(sc, City, p, to, a, x),
           Link([at |-> a, locals |-> l, request |-> Handled(p)], to, a, x),
           Busy(sc, City, p, [at |-> a, locals |-> l, request |-> Handled(p)])
    PROVE  LaunchInv(sc)'
<1>0. PICK q : q = [from |-> p, id |-> calls[p] + 1, action |-> a, args |-> x]
  OBVIOUS
<1>1. /\ DOMAIN inbox = DemoEntities /\ \A e \in DemoEntities : IsSeq(inbox[e])
      /\ DOMAIN at = Procs /\ DOMAIN locals = Procs /\ DOMAIN reply = Procs
      /\ calls \in [Procs -> Nat]
  BY DEF LaunchInv, TypesInv
<1>2. /\ at' = [at EXCEPT ![p] = a] /\ locals' = [locals EXCEPT ![p] = l]
      /\ reply' = [reply EXCEPT ![p] = None] /\ calls' = [calls EXCEPT ![p] = @ + 1]
  BY DEF Demo!Call
<1>3. inbox' = inbox \/ inbox' = [inbox EXCEPT ![to] = Append(@, q)]
  BY <1>0 DEF Demo!Call
<1>4. /\ at'[p] = a /\ locals'[p] = l /\ reply'[p] = None /\ calls'[p] = calls[p] + 1
      /\ \A r \in Procs \ {p} : /\ at'[r] = at[r] /\ locals'[r] = locals[r]
                                /\ reply'[r] = reply[r] /\ calls'[r] = calls[r]
      /\ DOMAIN at' = Procs /\ DOMAIN locals' = Procs /\ DOMAIN reply' = Procs
  BY <1>1, <1>2
<1>5. calls' \in [Procs -> Nat] /\ \A r \in Procs : calls[r] <= calls'[r]
  BY <1>1, <1>2
<1>6. DOMAIN inbox' = DemoEntities
  BY <1>1, <1>3
<1>7. \A e \in DemoEntities : inbox'[e] = inbox[e] \/ (e = to /\ inbox'[e] = Append(inbox[e], q))
  BY <1>1, <1>3
<1>8. ASSUME NEW e \in DemoEntities
      PROVE  /\ IsSeq(inbox'[e])
             /\ inbox[e] # <<>> => inbox'[e] # <<>> /\ Head(inbox'[e]) = Head(inbox[e])
             /\ \A i \in DOMAIN inbox'[e] : \/ i \in DOMAIN inbox[e] /\ inbox'[e][i] = inbox[e][i]
                                            \/ e = to /\ inbox'[e][i] = q
  <2>1. CASE inbox'[e] = inbox[e]
    BY <1>1, <2>1
  <2>2. CASE e = to /\ inbox'[e] = Append(inbox[e], q)
    <3>1. PICK s : s = inbox[e]
      OBVIOUS
    <3>2. IsSeq(s)
      BY <1>1, <3>1
    <3>3. /\ IsSeq(Append(s, q))
          /\ Append(s, q) # <<>>
          /\ s # <<>> => Head(Append(s, q)) = Head(s)
          /\ \A i \in DOMAIN Append(s, q) :
                (i \in DOMAIN s /\ Append(s, q)[i] = s[i]) \/ Append(s, q)[i] = q
      BY <3>2, AppendFacts
    <3>4. PICK w : w = Append(s, q)
      OBVIOUS
    <3>5. inbox'[e] = w /\ inbox[e] = s
      BY <2>2, <3>1, <3>4
    <3> QED
      BY <2>2, <3>3, <3>4, <3>5
  <2> QED
    BY <1>7, <2>1, <2>2
<1>9. City' = City /\ park' = park /\ dispatched' = dispatched
  BY SameCityVars
<1>10. TypesInv /\ Grown(sc, City, City')
  BY <1>9, SameCity DEF LaunchInv
<1>11. TypesInv'
  BY <1>4, <1>5, <1>6, <1>8, <1>9, <1>10 DEF TypesInv
<1>12. State(p)' = [at |-> a, locals |-> l, request |-> Handled(p)]
  <2>1. Handled(p)' = Handled(p)
    BY <1>8, ProcsAre DEF Handled, Demo!Request, Demo!Stop
  <2> QED
    BY <1>4, <2>1 DEF State
<1>13. ASSUME NEW r \in Procs \ {p}, Demo!Waiting(r)'
       PROVE  Demo!Waiting(r) /\ State(r)' = State(r) /\ (r # Main => inbox'[r] # <<>>)
  <2>1. Demo!Waiting(r)
    BY <1>4, <1>13 DEF Demo!Waiting
  <2>2. r # Main => inbox[r] # <<>>
    BY <2>1 DEF LaunchInv, WaitsInv, WaitOK
  <2>3. r # Main => inbox'[r] # <<>> /\ Head(inbox'[r]) = Head(inbox[r])
    BY <1>8, <2>2, ProcsAre
  <2> QED
    BY <1>4, <2>1, <2>3, StateStill
<1>14. ASSUME NEW e \in DemoEntities, NEW k \in Queued(e)'
       PROVE  MessageOK(sc, e, k)'
  <2>1. ASSUME NEW m, MessageOK(sc, e, m)
        PROVE  MessageOK(sc, e, m)'
    <3>1. m.from \in Procs => calls[m.from] <= calls'[m.from]
      BY <1>5
    <3>2. ASSUME Sent(m), Awaited(m)'
          PROVE  Awaited(m) /\ State(m.from)' = State(m.from)
      <4>1. m.from # p
        BY <1>1, <1>4, <3>2 DEF Sent, Awaited
      <4>2. Demo!Waiting(m.from) /\ State(m.from)' = State(m.from)
        BY <1>13, <3>2, <4>1 DEF Sent, Awaited
      <4>3. calls'[m.from] = calls[m.from]
        BY <1>4, <3>2, <4>1 DEF Sent
      <4> QED
        BY <3>2, <4>2, <4>3 DEF Awaited
    <3> QED
      BY <1>5, <1>10, <2>1, <3>1, <3>2, MessageStill
  <2>2. k \in Queued(e) \/ (e = to /\ k = q)
    BY <1>8 DEF Queued
  <2>3. CASE k \in Queued(e)
    <3>1. MessageOK(sc, e, k)
      BY <2>3 DEF LaunchInv, MessagesInv
    <3> QED
      BY <2>1, <3>1
  <2>4. CASE e = to /\ k = q
    <3>1. q.from = p /\ q.id = calls[p] + 1 /\ q.action = a /\ q.args = x
      BY <1>0
    <3>2. Sent(q)'
      BY <1>1, <1>4, <3>1 DEF Sent
    <3>3. Fits(sc, City', q.from, e, q.action, q.args)
      BY <1>9, <2>4, <3>1
    <3>4. Link(State(p)', to, a, x)
      BY <1>12
    <3>5. Link(State(q.from)', e, q.action, q.args)
      BY <2>4, <3>1, <3>4
    <3>6. MessageOK(sc, e, q)'
      BY <3>2, <3>3, <3>5 DEF MessageOK
    <3> QED
      BY <2>4, <3>6
  <2> QED
    BY <2>2, <2>3, <2>4
<1>15. ASSUME NEW r \in Procs, Demo!Waiting(r)'
       PROVE  WaitOK(sc, r)'
  <2>1. CASE r = p
    <3>1. Busy(sc, City', p, State(p)')
      BY <1>9, <1>12
    <3>2. p # Main => inbox'[p] # <<>>
      BY <1>8, ProcsAre
    <3> QED
      BY <1>4, <2>1, <3>1, <3>2 DEF WaitOK
  <2>2. CASE r # p
    <3>1. Demo!Waiting(r) /\ State(r)' = State(r) /\ (r # Main => inbox'[r] # <<>>)
      BY <1>13, <1>15, <2>2
    <3>2. WaitOK(sc, r)
      BY <3>1 DEF LaunchInv, WaitsInv
    <3> QED
      BY <1>4, <1>10, <2>2, <3>1, <3>2, WaitStill
  <2> QED
    BY <2>1, <2>2
<1>16. ResultInv(sc)'
  <2>1. CASE p = Main
    BY <1>4, <2>1 DEF ResultInv, Idles
  <2>2. CASE p # Main
    <3>1. at'[Main] = at[Main] /\ locals'[Main] = locals[Main]
      BY <1>4, <2>2, ProcsAre
    <3> QED
      BY <1>9, <3>1 DEF LaunchInv, ResultInv
  <2> QED
    BY <2>1, <2>2
<1> QED
  BY <1>11, <1>14, <1>15, <1>16 DEF LaunchInv, MessagesInv, WaitsInv
-----------------------------------------------------------------------------
(* The end of a handler: its answer goes to the caller, if that still waits. *)

LEMMA RespondKeeps ==
    ASSUME NEW sc \in Scenarios, LaunchInv(sc), NEW e \in DemoEntities, inbox[e] # <<>>,
           NEW q, q = Demo!Request(e), q # Demo!Stop, NEW v, Demo!Respond(e, v),
           Grown(sc, City, City'), ParkOK(park'), DOMAIN dispatched' = Demo!Droneports,
           saved' = saved,
           \A s : Link(s, e, q.action, q.args) => Answer(sc, City', q.from, s, v)
    PROVE  LaunchInv(sc)'
<1>1. /\ DOMAIN inbox = DemoEntities /\ \A f \in DemoEntities : IsSeq(inbox[f])
      /\ DOMAIN at = Procs /\ DOMAIN locals = Procs /\ DOMAIN reply = Procs
      /\ calls \in [Procs -> Nat] /\ TypesInv
  BY DEF LaunchInv, TypesInv
<1>2. /\ inbox' = [inbox EXCEPT ![e] = Tail(@)]
      /\ at' = [at EXCEPT ![e] = "ready"] /\ locals' = [locals EXCEPT ![e] = None]
      /\ calls' = calls
  BY DEF Demo!Respond
<1>3. /\ DOMAIN reply' = Procs
      /\ \A r \in Procs \ {e} : \/ reply'[r] = reply[r]
                                \/ r = q.from /\ calls[r] = q.id /\ reply'[r] = v
  BY DEF Demo!Respond, Procs
<1>4. /\ at'[e] = "ready"
      /\ \A r \in Procs \ {e} : at'[r] = at[r] /\ locals'[r] = locals[r]
      /\ DOMAIN at' = Procs /\ DOMAIN locals' = Procs
  BY <1>1, <1>2, ProcsAre
<1>5. /\ DOMAIN inbox' = DemoEntities /\ inbox'[e] = Tail(inbox[e])
      /\ \A f \in DemoEntities \ {e} : inbox'[f] = inbox[f]
  BY <1>1, <1>2
<1>6. IsSeq(inbox'[e]) /\ Queued(e)' \subseteq Queued(e)
  BY <1>1, <1>5, TailFacts DEF Queued
<1>7. \A f \in DemoEntities : IsSeq(inbox'[f]) /\ Queued(f)' \subseteq Queued(f)
  BY <1>1, <1>5, <1>6 DEF Queued
<1>8. TypesInv'
  BY <1>1, <1>2, <1>3, <1>4, <1>5, <1>7 DEF TypesInv
<1>9. ASSUME NEW r \in Procs, Demo!Waiting(r)'
      PROVE  r # e /\ Demo!Waiting(r) /\ State(r)' = State(r) /\ (r # Main => inbox'[r] # <<>>)
  <2>1. r # e /\ Demo!Waiting(r)
    BY <1>4, <1>9 DEF Demo!Waiting
  <2>2. r # Main => inbox'[r] = inbox[r] /\ inbox[r] # <<>>
    BY <1>5, <2>1, ProcsAre DEF LaunchInv, WaitsInv, WaitOK
  <2> QED
    BY <1>4, <2>1, <2>2, StateStill
<1>10. q \in Queued(e) /\ MessageOK(sc, e, q)
  <2>1. q \in Queued(e)
    BY <1>1, SeqFacts DEF Demo!Request, Queued
  <2> QED
    BY <2>1 DEF LaunchInv, MessagesInv
<1>11. ASSUME NEW f \in DemoEntities, NEW k \in Queued(f)'
       PROVE  MessageOK(sc, f, k)'
  <2>1. MessageOK(sc, f, k)
    BY <1>7 DEF LaunchInv, MessagesInv
  <2>2. ASSUME Sent(k), Awaited(k)'
        PROVE  Awaited(k) /\ State(k.from)' = State(k.from)
    BY <1>2, <1>9, <2>2 DEF Sent, Awaited
  <2>3. k.from \in Procs => calls[k.from] <= calls'[k.from]
    BY <1>1, <1>2
  <2>4. calls' \in [Procs -> Nat]
    BY <1>1, <1>2
  <2> QED
    BY <1>1, <2>1, <2>2, <2>3, <2>4, MessageStill
<1>12. ASSUME NEW r \in Procs, Demo!Waiting(r)'
       PROVE  WaitOK(sc, r)'
  <2>1. r # e /\ Demo!Waiting(r) /\ State(r)' = State(r) /\ (r # Main => inbox'[r] # <<>>)
    BY <1>9, <1>12
  <2>2. WaitOK(sc, r)
    BY <2>1 DEF LaunchInv, WaitsInv
  <2>3. reply'[r] = reply[r] \/ Answer(sc, City', r, State(r), reply'[r])
    <3>1. CASE reply'[r] = reply[r]
      BY <3>1
    <3>2. CASE r = q.from /\ calls[r] = q.id /\ reply'[r] = v
      <4>1. Awaited(q)
        BY <2>1, <3>2 DEF Awaited
      <4>2. Link(State(r), e, q.action, q.args)
        BY <1>10, <3>2, <4>1 DEF MessageOK
      <4> QED
        BY <3>2, <4>2
    <3> QED
      BY <1>3, <2>1, <3>1, <3>2
  <2> QED
    BY <1>1, <2>1, <2>2, <2>3, WaitStill
<1>13. ResultInv(sc)'
  <2>1. at'[Main] = at[Main] /\ locals'[Main] = locals[Main]
    BY <1>4, ProcsAre
  <2> QED
    BY <2>1, DoneStill DEF LaunchInv, ResultInv
<1> QED
  BY <1>8, <1>11, <1>12, <1>13 DEF LaunchInv, MessagesInv, WaitsInv
-----------------------------------------------------------------------------
(* Steps of the orchestrator, and a stop message taken.                      *)

\* Everybody is sent a stop message.
LEMMA StopAllKeeps ==
    ASSUME NEW sc \in Scenarios, LaunchInv(sc), NEW result, Demo!StopAll(result),
           result = None \/ Done(sc, City, result),
           Demo!cityVars' = Demo!cityVars, saved' = saved
    PROVE  LaunchInv(sc)'
<1>1. /\ DOMAIN inbox = DemoEntities /\ \A f \in DemoEntities : IsSeq(inbox[f])
      /\ DOMAIN at = Procs /\ DOMAIN locals = Procs /\ DOMAIN reply = Procs
      /\ calls \in [Procs -> Nat] /\ TypesInv
  BY DEF LaunchInv, TypesInv
<1>2. City' = City /\ park' = park /\ dispatched' = dispatched /\ Grown(sc, City, City')
  BY SameCityVars, SameCity
<1>3. /\ calls' = calls
      /\ at'[Main] = "stopping" /\ locals'[Main] = result
      /\ DOMAIN at' = Procs /\ DOMAIN locals' = Procs /\ DOMAIN reply' = Procs
      /\ \A r \in DemoEntities : locals'[r] = locals[r] /\ reply'[r] = reply[r]
  BY <1>1, ProcsAre DEF Demo!StopAll, Main, Procs
<1>4. ASSUME NEW r \in DemoEntities
      PROVE  \/ at'[r] = at[r] /\ ~Demo!Idle(r)
             \/ at'[r] = "stopped" /\ Demo!Idle(r)
  BY ProcsAre DEF Demo!StopAll, Main, Procs
<1>5. /\ DOMAIN inbox' = DemoEntities
      /\ \A f \in DemoEntities :
            inbox'[f] = IF Demo!Idle(f) THEN <<>> ELSE Append(inbox[f], Demo!Stop)
  BY DEF Demo!StopAll
<1>6. ASSUME NEW f \in DemoEntities
      PROVE  /\ IsSeq(inbox'[f])
             /\ inbox[f] # <<>> => inbox'[f] # <<>> /\ Head(inbox'[f]) = Head(inbox[f])
             /\ \A k \in Queued(f)' : k \in Queued(f) \/ k = Demo!Stop
  <2>1. CASE Demo!Idle(f)
    <3>1. inbox'[f] = <<>> /\ inbox[f] = <<>>
      BY <1>5, <2>1 DEF Demo!Idle
    <3> QED
      BY <3>1, EmptyIsSeq DEF Queued
  <2>2. CASE ~Demo!Idle(f)
    <3>1. PICK s : s = inbox[f]
      OBVIOUS
    <3>2. PICK w : w = Append(s, Demo!Stop)
      OBVIOUS
    <3>3. inbox[f] = s /\ inbox'[f] = w
      BY <1>5, <2>2, <3>1, <3>2
    <3>4. IsSeq(s)
      BY <1>1, <3>1
    <3>5. /\ IsSeq(w)
          /\ s # <<>> => w # <<>> /\ Head(w) = Head(s)
          /\ \A i \in DOMAIN w : (i \in DOMAIN s /\ w[i] = s[i]) \/ w[i] = Demo!Stop
      BY <3>2, <3>4, AppendFacts
    <3>6. Queued(f) = {s[i] : i \in DOMAIN s} /\ Queued(f)' = {w[i] : i \in DOMAIN w}
      BY <3>3 DEF Queued
    <3>7. \A k \in Queued(f)' : k \in Queued(f) \/ k = Demo!Stop
      BY <3>5, <3>6
    <3> QED
      BY <3>3, <3>5, <3>7
  <2> QED
    BY <2>1, <2>2
<1>7. TypesInv'
  BY <1>1, <1>2, <1>3, <1>5, <1>6 DEF TypesInv
<1>8. ASSUME NEW r \in Procs, Demo!Waiting(r)'
      PROVE  /\ r \in DemoEntities /\ Demo!Waiting(r) /\ State(r)' = State(r)
             /\ inbox'[r] # <<>>
  <2>1. r \in DemoEntities
    BY <1>3, <1>8, ProcsAre DEF Demo!Waiting
  <2>2. at'[r] = at[r]
    BY <1>4, <1>8, <2>1 DEF Demo!Waiting
  <2>3. Demo!Waiting(r)
    BY <1>8, <2>2 DEF Demo!Waiting
  <2>4. inbox[r] # <<>>
    BY <2>1, <2>3, ProcsAre DEF LaunchInv, WaitsInv, WaitOK
  <2>5. inbox'[r] # <<>> /\ Head(inbox'[r]) = Head(inbox[r])
    BY <1>6, <2>1, <2>4
  <2> QED
    BY <1>3, <2>1, <2>2, <2>3, <2>5, StateStill
<1>9. ASSUME NEW f \in DemoEntities, NEW k \in Queued(f)'
      PROVE  MessageOK(sc, f, k)'
  <2>1. CASE k = Demo!Stop
    BY <2>1 DEF MessageOK, Demo!Stop
  <2>2. CASE k \in Queued(f)
    <3>1. MessageOK(sc, f, k)
      BY <2>2 DEF LaunchInv, MessagesInv
    <3>2. ASSUME Sent(k), Awaited(k)'
          PROVE  Awaited(k) /\ State(k.from)' = State(k.from)
      BY <1>3, <1>8, <3>2 DEF Sent, Awaited
    <3>3. k.from \in Procs => calls[k.from] <= calls'[k.from]
      BY <1>1, <1>3
    <3>4. calls' \in [Procs -> Nat]
      BY <1>1, <1>3
    <3> QED
      BY <1>1, <1>2, <3>1, <3>2, <3>3, <3>4, MessageStill
  <2> QED
    BY <1>6, <2>1, <2>2
<1>10. ASSUME NEW r \in Procs, Demo!Waiting(r)'
       PROVE  WaitOK(sc, r)'
  <2>1. r \in DemoEntities /\ Demo!Waiting(r) /\ State(r)' = State(r) /\ inbox'[r] # <<>>
    BY <1>8, <1>10
  <2>2. WaitOK(sc, r) /\ reply'[r] = reply[r]
    BY <1>3, <2>1 DEF LaunchInv, WaitsInv
  <2> QED
    BY <1>1, <1>2, <2>1, <2>2, WaitStill
<1>11. ResultInv(sc)'
  BY <1>2, <1>3 DEF ResultInv
<1> QED
  BY <1>7, <1>9, <1>10, <1>11 DEF LaunchInv, MessagesInv, WaitsInv

\* An entity is stopped.
LEMMA TakeStopKeeps ==
    ASSUME NEW sc \in Scenarios, LaunchInv(sc), NEW e \in DemoEntities, Demo!TakeStop(e),
           Demo!cityVars' = Demo!cityVars, saved' = saved
    PROVE  LaunchInv(sc)'
<1>1. /\ DOMAIN inbox = DemoEntities /\ \A f \in DemoEntities : IsSeq(inbox[f])
      /\ DOMAIN at = Procs /\ DOMAIN locals = Procs /\ DOMAIN reply = Procs
      /\ calls \in [Procs -> Nat] /\ TypesInv
  BY DEF LaunchInv, TypesInv
<1>2. City' = City /\ park' = park /\ dispatched' = dispatched /\ Grown(sc, City, City')
  BY SameCityVars, SameCity
<1>3. /\ calls' = calls /\ locals' = locals /\ reply' = reply
      /\ at' = [at EXCEPT ![e] = "stopped"] /\ inbox' = [inbox EXCEPT ![e] = <<>>]
  BY DEF Demo!TakeStop
<1>4. /\ DOMAIN at' = Procs /\ at'[e] = "stopped"
      /\ \A r \in Procs \ {e} : at'[r] = at[r]
      /\ DOMAIN inbox' = DemoEntities /\ inbox'[e] = <<>>
      /\ \A f \in DemoEntities \ {e} : inbox'[f] = inbox[f]
  BY <1>1, <1>3, ProcsAre
<1>5. \A f \in DemoEntities : IsSeq(inbox'[f]) /\ Queued(f)' \subseteq Queued(f)
  BY <1>1, <1>4, EmptyIsSeq DEF Queued
<1>6. TypesInv'
  BY <1>1, <1>2, <1>3, <1>4, <1>5 DEF TypesInv
<1>7. ASSUME NEW r \in Procs, Demo!Waiting(r)'
      PROVE  Demo!Waiting(r) /\ State(r)' = State(r) /\ (r # Main => inbox'[r] # <<>>)
  <2>1. r # e /\ Demo!Waiting(r)
    BY <1>4, <1>7 DEF Demo!Waiting
  <2>2. r # Main => inbox'[r] = inbox[r] /\ inbox[r] # <<>>
    BY <1>4, <2>1, ProcsAre DEF LaunchInv, WaitsInv, WaitOK
  <2> QED
    BY <1>3, <1>4, <2>1, <2>2, StateStill
<1>8. ASSUME NEW f \in DemoEntities, NEW k \in Queued(f)'
      PROVE  MessageOK(sc, f, k)'
  <2>1. MessageOK(sc, f, k)
    BY <1>5 DEF LaunchInv, MessagesInv
  <2>2. ASSUME Sent(k), Awaited(k)'
        PROVE  Awaited(k) /\ State(k.from)' = State(k.from)
    BY <1>3, <1>7, <2>2 DEF Sent, Awaited
  <2>3. k.from \in Procs => calls[k.from] <= calls'[k.from]
    BY <1>1, <1>3
  <2> QED
    BY <1>1, <1>2, <1>3, <2>1, <2>2, <2>3, MessageStill
<1>9. ASSUME NEW r \in Procs, Demo!Waiting(r)'
      PROVE  WaitOK(sc, r)'
  <2>1. Demo!Waiting(r) /\ State(r)' = State(r) /\ (r # Main => inbox'[r] # <<>>)
    BY <1>7, <1>9
  <2>2. WaitOK(sc, r)
    BY <2>1 DEF LaunchInv, WaitsInv
  <2> QED
    BY <1>1, <1>2, <1>3, <2>1, <2>2, WaitStill
<1>10. ResultInv(sc)'
  BY <1>2, <1>3, <1>4, ProcsAre DEF LaunchInv, ResultInv
<1> QED
  BY <1>6, <1>8, <1>9, <1>10 DEF LaunchInv, MessagesInv, WaitsInv

\* The orchestrator goes from one thing to another that is no call.
LEMMA MainKeeps ==
    ASSUME NEW sc \in Scenarios, LaunchInv(sc),
           inbox' = inbox, reply' = reply, calls' = calls, Demo!cityVars' = Demo!cityVars,
           NEW a \in Idles, at' = [at EXCEPT ![Main] = a],
           DOMAIN locals' = Procs, \A r \in DemoEntities : locals'[r] = locals[r],
           ParkOK(saved'.park), ResultInv(sc)'
    PROVE  LaunchInv(sc)'
<1>1. /\ DOMAIN at = Procs /\ calls \in [Procs -> Nat] /\ TypesInv
  BY DEF LaunchInv, TypesInv
<1>2. City' = City /\ park' = park /\ dispatched' = dispatched /\ Grown(sc, City, City')
  BY SameCityVars, SameCity
<1>3. /\ DOMAIN at' = Procs /\ at'[Main] = a
      /\ \A r \in DemoEntities : at'[r] = at[r]
  BY <1>1, ProcsAre
<1>4. TypesInv'
  BY <1>1, <1>2, <1>3 DEF TypesInv
<1>5. ASSUME NEW r \in Procs, Demo!Waiting(r)'
      PROVE  r # Main /\ Demo!Waiting(r) /\ State(r)' = State(r)
  <2>1. r # Main
    BY <1>3, <1>5 DEF Idles, Demo!Waiting
  <2>2. r \in DemoEntities /\ at'[r] = at[r] /\ locals'[r] = locals[r]
    BY <1>3, <2>1, ProcsAre
  <2>3. Demo!Waiting(r)
    BY <1>5, <2>2 DEF Demo!Waiting
  <2> QED
    BY <2>1, <2>2, <2>3, StateStill
<1>6. ASSUME NEW f \in DemoEntities, NEW k \in Queued(f)'
      PROVE  MessageOK(sc, f, k)'
  <2>1. MessageOK(sc, f, k)
    BY DEF LaunchInv, MessagesInv, Queued
  <2>2. ASSUME Sent(k), Awaited(k)'
        PROVE  Awaited(k) /\ State(k.from)' = State(k.from)
    BY <1>5, <2>2 DEF Sent, Awaited
  <2>3. k.from \in Procs => calls[k.from] <= calls'[k.from]
    BY <1>1
  <2> QED
    BY <1>1, <1>2, <2>1, <2>2, <2>3, MessageStill
<1>7. ASSUME NEW r \in Procs, Demo!Waiting(r)'
      PROVE  WaitOK(sc, r)'
  <2>1. r # Main /\ Demo!Waiting(r) /\ State(r)' = State(r)
    BY <1>5, <1>7
  <2>2. WaitOK(sc, r)
    BY <2>1 DEF LaunchInv, WaitsInv
  <2>3. inbox'[r] # <<>>
    BY <2>1, <2>2 DEF WaitOK
  <2> QED
    BY <1>1, <1>2, <2>1, <2>2, <2>3, WaitStill
<1> QED
  BY <1>4, <1>6, <1>7 DEF LaunchInv, MessagesInv, WaitsInv
-----------------------------------------------------------------------------
(* What the steps below use of the invariant.                                *)

LEMMA RequestIs ==
    ASSUME NEW sc \in Scenarios, LaunchInv(sc), NEW e \in DemoEntities, inbox[e] # <<>>,
           Demo!Request(e).action # "__stop__"
    PROVE  /\ Demo!Request(e) # Demo!Stop
           /\ Sent(Demo!Request(e))
           /\ Fits(sc, City, Demo!Request(e).from, e, Demo!Request(e).action,
                   Demo!Request(e).args)
<1>1. PICK q : q = Demo!Request(e)
  OBVIOUS
<1>2. q \in Queued(e)
  BY <1>1, SeqFacts DEF LaunchInv, TypesInv, Demo!Request, Queued
<1>3. MessageOK(sc, e, q)
  BY <1>2 DEF LaunchInv, MessagesInv
<1>4. q # Demo!Stop
  BY <1>1 DEF Demo!Stop
<1> QED
  BY <1>1, <1>3, <1>4 DEF MessageOK

LEMMA WaiterIs ==
    ASSUME NEW sc \in Scenarios, LaunchInv(sc), NEW p \in Procs, at[p] \notin Idles
    PROVE  /\ p # Main => inbox[p] # <<>>
           /\ Busy(sc, City, p, State(p))
           /\ reply[p] # None => Answer(sc, City, p, State(p), reply[p])
<1>1. Demo!Waiting(p)
  BY DEF Demo!Waiting, Idles
<1> QED
  BY <1>1 DEF LaunchInv, WaitsInv, WaitOK

LEMMA StateIs ==
    ASSUME NEW p
    PROVE  /\ State(p).at = at[p] /\ State(p).locals = locals[p]
           /\ p # Main => State(p).request = Demo!Request(p)
  BY DEF State, Handled

LEMMA CityIs ==
    /\ City.registry = registry /\ City.park = park /\ City.approved = approved
    /\ City.dispatched = dispatched /\ City.landed = landed
  BY DEF City

\* An answer of a handler that leaves the city as it is.
LEMMA RespondsInPlace ==
    ASSUME NEW sc \in Scenarios, LaunchInv(sc), NEW e \in DemoEntities, inbox[e] # <<>>,
           Demo!Request(e).action # "__stop__", NEW v, Demo!Respond(e, v),
           Demo!cityVars' = Demo!cityVars, saved' = saved,
           \A s : Link(s, e, Demo!Request(e).action, Demo!Request(e).args) =>
                      Answer(sc, City, Demo!Request(e).from, s, v)
    PROVE  LaunchInv(sc)'
<1>1. PICK q : q = Demo!Request(e)
  OBVIOUS
<1>2. q # Demo!Stop
  BY <1>1, RequestIs
<1>3. City' = City /\ park' = park /\ dispatched' = dispatched /\ Grown(sc, City, City')
  BY SameCityVars, SameCity
<1>4. ParkOK(park') /\ DOMAIN dispatched' = Demo!Droneports
  BY <1>3 DEF LaunchInv, TypesInv
<1>5. \A s : Link(s, e, q.action, q.args) => Answer(sc, City', q.from, s, v)
  BY <1>1, <1>3
<1> QED
  BY <1>1, <1>2, <1>3, <1>4, <1>5, RespondKeeps

\* Whoever gives up a call answers with an error, which no caller takes for more.
LEMMA FailedIsAnswer ==
    ASSUME NEW sc \in Scenarios, NEW c, NEW e \in DemoEntities, NEW s, Busy(sc, c, e, s),
           NEW p, NEW x, Fits(sc, c, p, e, s.request.action, x),
           NEW t, Link(t, e, s.request.action, x)
    PROVE  Answer(sc, c, p, t, Demo!Failed)
<1>1. t.at = s.request.action
  BY DEF Link
<1>2. CASE sc = "order"
  <2>1. s.request.action \in {"place_order", "receive_order", "proposal_request", "assign_order",
                              "agro_mission_received"}
    BY <1>2, ProcsAre DEF Busy, OrderBusy
  <2>2. OrderAnswer(c, p, t, Demo!Failed)
    BY <1>1, <2>1 DEF OrderAnswer, Reported, Flown
  <2> QED
    BY <1>2, <2>2 DEF Answer
<1>3. CASE sc = "onboarding"
  <2>1. s.request.action \in {"request_firmware_certification", "request_uas_registration",
                              "request_uas_purchase"}
    BY <1>3, ProcsAre DEF Busy, OnboardingBusy
  <2>2. OnboardingAnswer(c, p, t, Demo!Failed)
    BY <1>1, <2>1 DEF OnboardingAnswer
  <2> QED
    BY <1>3, <2>2 DEF Answer, Scenarios
<1> QED
  BY <1>2, <1>3 DEF Scenarios

LEMMA BusyRequest ==
    ASSUME NEW sc \in Scenarios, NEW c, NEW e \in DemoEntities, NEW s, Busy(sc, c, e, s)
    PROVE  s.request.action # "__stop__"
<1>1. CASE sc = "order"
  BY <1>1, ProcsAre DEF Busy, OrderBusy
<1>2. CASE sc = "onboarding"
  BY <1>2, ProcsAre DEF Busy, OnboardingBusy
<1> QED
  BY <1>1, <1>2 DEF Scenarios

LEMMA GiveUpKeeps ==
    ASSUME NEW sc \in Scenarios, LaunchInv(sc), NEW e \in DemoEntities, Demo!GiveUp(e),
           Demo!cityVars' = Demo!cityVars, saved' = saved
    PROVE  LaunchInv(sc)'
<1>1. at[e] \notin Idles /\ Demo!Respond(e, Demo!Failed)
  BY DEF Demo!GiveUp, Demo!Waiting, Idles
<1>2. inbox[e] # <<>> /\ Busy(sc, City, e, State(e))
  BY <1>1, WaiterIs, ProcsAre
<1>3. State(e).request = Demo!Request(e)
  BY StateIs, ProcsAre
<1>4. Demo!Request(e).action # "__stop__"
  BY <1>2, <1>3, BusyRequest
<1>5. Fits(sc, City, Demo!Request(e).from, e, Demo!Request(e).action, Demo!Request(e).args)
  BY <1>2, <1>4, RequestIs
<1>6. \A s : Link(s, e, Demo!Request(e).action, Demo!Request(e).args) =>
                 Answer(sc, City, Demo!Request(e).from, s, Demo!Failed)
  BY <1>2, <1>3, <1>5, FailedIsAnswer
<1> QED
  BY <1>1, <1>2, <1>4, <1>6, RespondsInPlace
-----------------------------------------------------------------------------
(* A launch begins with a city of its own.                                   *)

LEMMA LaunchStarts ==
    ASSUME TypesInv, NEW sc \in Scenarios, NEW to \in DemoEntities, NEW a, a \notin Idles, NEW x,
           Demo!Launch(to, a, x),
           \A c : Fits(sc, c, Main, to, a, x),
           \A c, s : s.at = a => Busy(sc, c, Main, s) /\ Link(s, to, a, x)
    PROVE  LaunchInv(sc)'
<1>0. PICK q : q = [from |-> Main, id |-> 1, action |-> a, args |-> x]
  OBVIOUS
<1>1. /\ inbox' = [e \in DemoEntities |-> IF e = to THEN <<q>> ELSE <<>>]
      /\ calls' = [p \in Procs |-> IF p = Main THEN 1 ELSE 0]
      /\ at' = [p \in Procs |-> IF p = Main THEN a ELSE "ready"]
      /\ locals' = [p \in Procs |-> None]
      /\ reply' = [p \in Procs |-> None]
  BY <1>0 DEF Demo!Launch, Demo!StartAll, Demo!Main, Main, Procs
<1>2. /\ park' = saved.park /\ saved' = saved
      /\ dispatched' = [p \in Demo!Droneports |-> {}]
  BY DEF Demo!Launch
<1>3. \A e \in DemoEntities : IsSeq(inbox'[e]) /\ Queued(e)' = IF e = to THEN {q} ELSE {}
  <2>1. <<q>> \in Seq({q})
    OBVIOUS
  <2>2. IsSeq(<<q>>)
    BY <2>1, SeqOfAny
  <2> QED
    BY <1>1, <2>2, EmptyIsSeq DEF Queued
<1>4. /\ DOMAIN inbox' = DemoEntities /\ DOMAIN at' = Procs /\ DOMAIN locals' = Procs
      /\ DOMAIN reply' = Procs /\ calls' \in [Procs -> Nat]
  BY <1>1
<1>5. TypesInv'
  BY <1>2, <1>3, <1>4 DEF TypesInv
<1>6. at'[Main] = a /\ calls'[Main] = 1 /\ \A r \in Procs \ {Main} : at'[r] = "ready"
  BY <1>1, ProcsAre
<1>7. State(Main)'.at = a
  BY <1>6 DEF State
<1>8. ASSUME NEW e \in DemoEntities, NEW k \in Queued(e)'
      PROVE  MessageOK(sc, e, k)'
  <2>1. e = to /\ k = q
    BY <1>3, <1>8
  <2>2. q.from = Main /\ q.id = 1 /\ q.action = a /\ q.args = x
    BY <1>0
  <2>3. Sent(q)'
    BY <1>6, <2>2, ProcsAre DEF Sent
  <2>4. Fits(sc, City', q.from, to, q.action, q.args)
    BY <2>2
  <2>5. Link(State(Main)', to, a, x)
    BY <1>7
  <2>6. Link(State(q.from)', to, q.action, q.args)
    BY <2>2, <2>5
  <2>7. MessageOK(sc, to, q)'
    BY <2>3, <2>4, <2>6 DEF MessageOK
  <2> QED
    BY <2>1, <2>7
<1>9. ASSUME NEW r \in Procs, Demo!Waiting(r)'
      PROVE  WaitOK(sc, r)'
  <2>1. r = Main
    BY <1>6, <1>9 DEF Demo!Waiting
  <2>2. Busy(sc, City', Main, State(Main)')
    BY <1>7
  <2>3. reply'[Main] = None
    BY <1>1, ProcsAre
  <2> QED
    BY <2>1, <2>2, <2>3 DEF WaitOK
<1>10. ResultInv(sc)'
  BY <1>6 DEF ResultInv, Idles
<1> QED
  BY <1>5, <1>8, <1>9, <1>10 DEF LaunchInv, MessagesInv, WaitsInv

LEMMA BuiltParkIs == ParkOK(Demo!BuildWorld.park)
<1>1. Demo!BuildWorld.park =
          [p \in Demo!Droneports |->
              IF p = "droneport_A" THEN <<Demo!Uas("agro-model-1", 0, 9000)>>
                                   ELSE <<Demo!Uas("agro-model-3", 0, 9500)>>]
  BY DEF Demo!BuildWorld
<1>2. ASSUME NEW u, u.cost \in Int
      PROVE  IsSeq(<<u>>) /\ \A i \in DOMAIN <<u>> : <<u>>[i].cost \in Int
  <2>1. <<u>> \in Seq({u})
    OBVIOUS
  <2>2. IsSeq(<<u>>)
    BY <2>1, SeqOfAny
  <2> QED
    BY <1>2, <2>2
<1>3. Demo!Uas("agro-model-1", 0, 9000).cost \in Int /\ Demo!Uas("agro-model-3", 0, 9500).cost \in Int
  BY DEF Demo!Uas
<1> HIDE DEF Demo!Uas
<1> QED
  BY <1>1, <1>2, <1>3 DEF ParkOK

LEMMA DemoInit == Demo!Init => DemoInv
<1> SUFFICES ASSUME Demo!Init PROVE LaunchInv("order")
  BY DEF DemoInv, Scenarios
<1>1. /\ inbox = [e \in DemoEntities |-> <<>>]
      /\ at = [p \in Procs |-> IF p = Main THEN "ready" ELSE "stopped"]
      /\ locals = [p \in Procs |-> None] /\ reply = [p \in Procs |-> None]
      /\ calls = [p \in Procs |-> 0]
      /\ saved = Demo!BuildWorld /\ park = Demo!BuildWorld.park
      /\ dispatched = [p \in Demo!Droneports |-> {}]
  BY DEF Demo!Init, Demo!RpcInit, Main, Procs
<1>2. ParkOK(Demo!BuildWorld.park)
  BY BuiltParkIs
<1>3. \A e \in DemoEntities : IsSeq(inbox[e]) /\ Queued(e) = {}
  BY <1>1, EmptyIsSeq DEF Queued
<1>4. TypesInv
  BY <1>1, <1>2, <1>3 DEF TypesInv
<1>5. \A p \in Procs : ~Demo!Waiting(p)
  BY <1>1 DEF Demo!Waiting
<1>6. at[Main] = "ready"
  BY <1>1, ProcsAre
<1> QED
  BY <1>3, <1>4, <1>5, <1>6 DEF LaunchInv, MessagesInv, WaitsInv, ResultInv
-----------------------------------------------------------------------------
(* The order: handlers that answer at once.                                  *)

LEMMA OrderRequest ==
    ASSUME LaunchInv("order"), NEW e \in DemoEntities, inbox[e] # <<>>,
           NEW a, Demo!Request(e).action = a, a # "__stop__"
    PROVE  /\ Sent(Demo!Request(e))
           /\ OrderCall(City, Demo!Request(e).from, e, a, Demo!Request(e).args)
  BY RequestIs DEF Scenarios, Fits

LEMMA OrderResponds ==
    ASSUME LaunchInv("order"), NEW e \in DemoEntities, inbox[e] # <<>>,
           NEW a, Demo!Request(e).action = a, a # "__stop__", NEW v, Demo!Respond(e, v),
           Demo!cityVars' = Demo!cityVars, saved' = saved,
           \A s : Link(s, e, a, Demo!Request(e).args) =>
                      OrderAnswer(City, Demo!Request(e).from, s, v)
    PROVE  LaunchInv("order")'
  BY RespondsInPlace DEF Scenarios, Answer

LEMMA OkIs ==
    ASSUME NEW x
    PROVE  Demo!Ok(x).ok = TRUE /\ Demo!Ok(x).of = x /\ Success(Demo!Ok(x))
  BY DEF Demo!Ok, Success

LEMMA OrderLeaves ==
    ASSUME LaunchInv("order"), saved' = saved,
           \/ Demo!InsuranceQuote
           \/ Demo!SitlSimulate
    PROVE  LaunchInv("order")'
<1>1. CASE Demo!InsuranceQuote
  <2>1. /\ inbox["insurer"] # <<>> /\ Demo!Request("insurer").action = "request_insurance_quote"
        /\ Demo!Respond("insurer", Demo!Ok(1000)) /\ Demo!cityVars' = Demo!cityVars
    BY <1>1 DEF Demo!InsuranceQuote, Demo!Leaf, Demo!Asked, Demo!cityVars
  <2>2. ASSUME NEW p, NEW s, s.at = "request_insurance_quote"
        PROVE  OrderAnswer(City, p, s, Demo!Ok(1000))
    <3>1. PICK n : n = 1000
      OBVIOUS
    <3>2. n \in Int
      BY <3>1
    <3>3. Success(Demo!Ok(n)) /\ Demo!Ok(n).of \in Int
      BY <3>2, OkIs, Zenon
    <3>4. OrderAnswer(City, p, s, Demo!Ok(n))
      BY <2>2, <3>3 DEF OrderAnswer
    <3> QED
      BY <3>1, <3>4
  <2>3. "insurer" \in DemoEntities
    BY DEF DemoEntities
  <2> QED
    BY <2>1, <2>2, <2>3, OrderResponds DEF Link
<1>2. CASE Demo!SitlSimulate
  <2>1. /\ inbox["sitl"] # <<>> /\ Demo!Request("sitl").action = "sitl_simulate"
        /\ Demo!Respond("sitl", Demo!Ok("simulated")) /\ Demo!cityVars' = Demo!cityVars
    BY <1>2 DEF Demo!SitlSimulate, Demo!Leaf, Demo!Asked, Demo!cityVars
  <2>2. ASSUME NEW p, NEW s, s.at = "sitl_simulate"
        PROVE  OrderAnswer(City, p, s, Demo!Ok("simulated"))
    BY <2>2 DEF OrderAnswer
  <2>3. "sitl" \in DemoEntities
    BY DEF DemoEntities
  <2> QED
    BY <2>1, <2>2, <2>3, OrderResponds DEF Link
<1> QED
  BY <1>1, <1>2

LEMMA MissionPlanningKeeps ==
    ASSUME LaunchInv("order"), saved' = saved, Demo!MissionPlanning
    PROVE  LaunchInv("order")'
<1>1. PICK q : q = Demo!Request("gcs")
  OBVIOUS
<1> DEFINE m == [mission |-> <<q.from, q.id>>, uas |-> q.args.uas, port |-> q.args.port,
                 return_port |-> Demo!TargetPort]
<1>2. /\ inbox["gcs"] # <<>> /\ q.action = "mission_planning"
      /\ Demo!Respond("gcs", Demo!Ok(m)) /\ Demo!cityVars' = Demo!cityVars
  BY <1>1 DEF Demo!MissionPlanning, Demo!Asked, Demo!cityVars
<1>3. "gcs" \in DemoEntities
  BY DEF DemoEntities
<1>4. Sent(q) /\ OrderCall(City, q.from, "gcs", "mission_planning", q.args)
  BY <1>1, <1>2, <1>3, OrderRequest
<1>5. /\ q.from \in Demo!Operators /\ Covers(q.from) /\ Candidates(City) # <<>>
      /\ q.args = Selected(City) /\ q.id \in Nat
  BY <1>4 DEF OrderCall, Called, Sent
<1>6. IsPlan(City, m)
  <2>1. m.mission = <<q.from, q.id>> /\ <<q.from, q.id>>[1] = q.from
    OBVIOUS
  <2>2. m.mission \in Demo!Operators \X Nat
    BY <1>5
  <2> QED
    BY <1>5, <2>1, <2>2 DEF IsPlan
<1> HIDE DEF m
<1>7. ASSUME NEW s, s.at = "mission_planning"
      PROVE  OrderAnswer(City, q.from, s, Demo!Ok(m))
  BY <1>6, <1>7, OkIs DEF OrderAnswer
<1> QED
  BY <1>1, <1>2, <1>3, <1>7, OrderResponds DEF Link

\* A step that grows the city, while the parks stay.
LEMMA OrderGrows ==
    ASSUME LaunchInv("order"), NEW e \in DemoEntities, inbox[e] # <<>>,
           NEW q, q = Demo!Request(e), q.action # "__stop__", NEW v, Demo!Respond(e, v),
           park' = park, approved \subseteq approved', landed \subseteq landed',
           DOMAIN dispatched' = Demo!Droneports,
           \A p \in Demo!Droneports : \A k :
               <<k, Selected(City).uas>> \in dispatched[p] =>
                   <<k, Selected(City).uas>> \in dispatched'[p],
           saved' = saved,
           \A s : Link(s, e, q.action, q.args) => OrderAnswer(City', q.from, s, v)
    PROVE  LaunchInv("order")'
<1>1. Grown("order", City, City')
  <2>1. /\ City'.park = park' /\ City'.approved = approved' /\ City'.dispatched = dispatched'
        /\ City'.landed = landed'
    BY DEF City
  <2> QED
    BY <2>1, CityIs DEF Grown
<1>2. ParkOK(park')
  BY DEF LaunchInv, TypesInv
<1>3. q # Demo!Stop
  BY DEF Demo!Stop
<1>4. \A s : Link(s, e, q.action, q.args) => Answer("order", City', q.from, s, v)
  BY DEF Answer
<1>5. "order" \in Scenarios
  BY DEF Scenarios
<1> QED
  BY <1>1, <1>2, <1>3, <1>4, <1>5, RespondKeeps

LEMMA AtmKeeps ==
    ASSUME LaunchInv("order"), saved' = saved,
           Demo!ValidateMission \/ Demo!TakeoffPermission
    PROVE  LaunchInv("order")'
<1>1. PICK q : q = Demo!Request("atm")
  OBVIOUS
<1>2. "atm" \in DemoEntities
  BY DEF DemoEntities
<1>3. CASE Demo!ValidateMission
  <2>1. /\ inbox["atm"] # <<>> /\ q.action = "validate_mission"
        /\ Demo!Respond("atm", Demo!Ok("approved"))
        /\ approved' = approved \cup {q.args.mission}
        /\ park' = park /\ dispatched' = dispatched /\ landed' = landed
    BY <1>1, <1>3 DEF Demo!ValidateMission, Demo!Leaf, Demo!Asked
  <2>2. ASSUME NEW s, s.at = "validate_mission"
        PROVE  OrderAnswer(City', q.from, s, Demo!Ok("approved"))
    BY <2>2 DEF OrderAnswer
  <2>3. DOMAIN dispatched' = Demo!Droneports
    BY <2>1 DEF LaunchInv, TypesInv
  <2>4. \A s : Link(s, "atm", q.action, q.args) =>
                   OrderAnswer(City', q.from, s, Demo!Ok("approved"))
    BY <2>1, <2>2 DEF Link
  <2> QED
    BY <1>1, <1>2, <2>1, <2>3, <2>4, OrderGrows
<1>4. CASE Demo!TakeoffPermission
  <2> DEFINE v == Demo!Ok(q.args.mission \in approved)
  <2>1. /\ inbox["atm"] # <<>> /\ q.action = "request_takeoff_permission"
        /\ Demo!Respond("atm", v) /\ Demo!cityVars' = Demo!cityVars
    BY <1>1, <1>4 DEF Demo!TakeoffPermission, Demo!Leaf, Demo!Asked, Demo!cityVars
  <2>2. v = Demo!Ok(FALSE) \/ q.args.mission \in City.approved
    <3>1. CASE q.args.mission \in approved
      BY <3>1, CityIs
    <3>2. CASE q.args.mission \notin approved
      <4>1. (q.args.mission \in approved) = FALSE
        BY <3>2
      <4> QED
        BY <4>1
    <3> QED
      BY <3>1, <3>2
  <2> HIDE DEF v
  <2>3. ASSUME NEW s, s.at = "request_takeoff_permission", q.args = s.request.args
        PROVE  OrderAnswer(City, q.from, s, v)
    BY <2>2, <2>3 DEF OrderAnswer
  <2>4. \A s : Link(s, "atm", q.action, q.args) => OrderAnswer(City, q.from, s, v)
    BY <2>1, <2>3 DEF Link, FlightCalls
  <2> QED
    BY <1>1, <1>2, <2>1, <2>4, OrderResponds
<1> QED
  BY <1>3, <1>4

LEMMA PortKeeps ==
    ASSUME LaunchInv("order"), saved' = saved, NEW p \in Demo!Droneports,
           \/ Demo!GetAvailableUas(p)
           \/ Demo!PrepareDispatch(p)
           \/ Demo!CheckReady(p)
           \/ Demo!LandingPermission(p)
    PROVE  LaunchInv("order")'
<1>1. PICK q : q = Demo!Request(p)
  OBVIOUS
<1>2. p \in DemoEntities
  BY DEF DemoEntities, Demo!Droneports
<1>3. CASE Demo!GetAvailableUas(p)
  <2>1. /\ inbox[p] # <<>> /\ q.action = "get_available_uas"
        /\ Demo!Respond(p, Demo!Ok(park[p])) /\ Demo!cityVars' = Demo!cityVars
    BY <1>1, <1>3 DEF Demo!GetAvailableUas, Demo!Leaf, Demo!Asked, Demo!cityVars
  <2>2. ASSUME NEW s, s.at = "get_available_uas", p = Demo!Ports[s.locals.asked]
        PROVE  OrderAnswer(City, q.from, s, Demo!Ok(park[p]))
    BY <2>2, CityIs DEF OrderAnswer
  <2>3. \A s : Link(s, p, q.action, q.args) => OrderAnswer(City, q.from, s, Demo!Ok(park[p]))
    BY <2>1, <2>2 DEF Link
  <2> QED
    BY <1>1, <1>2, <2>1, <2>3, OrderResponds
<1>4. CASE Demo!PrepareDispatch(p)
  <2>1. /\ inbox[p] # <<>> /\ q.action = "prepare_dispatch"
        /\ Demo!Respond(p, Demo!Ok("dispatch_ready"))
        /\ dispatched' = [dispatched EXCEPT ![p] = {d \in @ : d[1] # q.args.mission}
                                                      \cup {<<q.args.mission, q.args.uas>>}]
        /\ park' = park /\ approved' = approved /\ landed' = landed
    BY <1>1, <1>4 DEF Demo!PrepareDispatch, Demo!Leaf, Demo!Asked
  <2>2. ASSUME NEW s, s.at = "prepare_dispatch"
        PROVE  OrderAnswer(City', q.from, s, Demo!Ok("dispatch_ready"))
    BY <2>2 DEF OrderAnswer
  <2>3. DOMAIN dispatched = Demo!Droneports /\ DOMAIN dispatched' = Demo!Droneports
    BY <2>1 DEF LaunchInv, TypesInv
  <2>4. q.args.uas = Selected(City).uas
    <3>1. OrderCall(City, q.from, p, "prepare_dispatch", q.args)
      BY <1>1, <1>2, <2>1, OrderRequest
    <3>2. IsPlan(City, q.args)
      BY <3>1 DEF OrderCall, Called
    <3>3. q.args = [mission |-> q.args.mission, uas |-> Selected(City).uas,
                    port |-> Selected(City).port, return_port |-> Demo!TargetPort]
      BY <3>2 DEF IsPlan
    <3> QED
      BY <3>3
  <2>5. ASSUME NEW r \in Demo!Droneports, NEW k, <<k, q.args.uas>> \in dispatched[r]
        PROVE  <<k, q.args.uas>> \in dispatched'[r]
    <3>1. CASE r # p
      BY <2>1, <2>3, <2>5, <3>1
    <3>2. CASE r = p
      <4>1. dispatched'[p] = {d \in dispatched[p] : d[1] # q.args.mission}
                                 \cup {<<q.args.mission, q.args.uas>>}
        BY <2>1, <2>3
      <4>2. <<k, q.args.uas>>[1] = k
        OBVIOUS
      <4> QED
        BY <2>5, <3>2, <4>1, <4>2
    <3> QED
      BY <3>1, <3>2
  <2>6. \A s : Link(s, p, q.action, q.args) =>
                   OrderAnswer(City', q.from, s, Demo!Ok("dispatch_ready"))
    BY <2>1, <2>2 DEF Link
  <2>7. \A r \in Demo!Droneports : \A k :
            <<k, Selected(City).uas>> \in dispatched[r] =>
                <<k, Selected(City).uas>> \in dispatched'[r]
    BY <2>4, <2>5
  <2> QED
    BY <1>1, <1>2, <2>1, <2>3, <2>6, <2>7, OrderGrows
<1>5. CASE Demo!CheckReady(p)
  <2> DEFINE v == Demo!Ok(<<q.args.mission, q.args.uas>> \in dispatched[p])
  <2>1. /\ inbox[p] # <<>> /\ q.action = "check_droneport_ready"
        /\ Demo!Respond(p, v) /\ Demo!cityVars' = Demo!cityVars
    BY <1>1, <1>5 DEF Demo!CheckReady, Demo!Leaf, Demo!Asked, Demo!cityVars
  <2>2. OrderCall(City, q.from, p, "check_droneport_ready", q.args)
    BY <1>1, <1>2, <2>1, OrderRequest
  <2>3. p = q.args.port
    BY <2>2 DEF OrderCall, Called
  <2>4. v = Demo!Ok(FALSE) \/ Dispatched(City, q.args)
    <3>1. CASE <<q.args.mission, q.args.uas>> \in dispatched[p]
      BY <2>3, <3>1, CityIs DEF Dispatched
    <3>2. CASE <<q.args.mission, q.args.uas>> \notin dispatched[p]
      <4>1. (<<q.args.mission, q.args.uas>> \in dispatched[p]) = FALSE
        BY <3>2
      <4> QED
        BY <4>1
    <3> QED
      BY <3>1, <3>2
  <2> HIDE DEF v
  <2>5. ASSUME NEW s, s.at = "check_droneport_ready", q.args = s.request.args
        PROVE  OrderAnswer(City, q.from, s, v)
    BY <2>4, <2>5 DEF OrderAnswer
  <2>6. \A s : Link(s, p, q.action, q.args) => OrderAnswer(City, q.from, s, v)
    BY <2>1, <2>5 DEF Link, FlightCalls
  <2> QED
    BY <1>1, <1>2, <2>1, <2>6, OrderResponds
<1>6. CASE Demo!LandingPermission(p)
  <2>1. /\ inbox[p] # <<>> /\ q.action = "request_landing_permission"
        /\ Demo!Respond(p, Demo!Ok("landing_allowed"))
        /\ landed' = landed \cup {q.args}
        /\ park' = park /\ dispatched' = dispatched /\ approved' = approved
    BY <1>1, <1>6 DEF Demo!LandingPermission, Demo!Leaf, Demo!Asked
  <2>2. ASSUME NEW s, s.at = "request_landing_permission", q.args = s.request.args
        PROVE  OrderAnswer(City', q.from, s, Demo!Ok("landing_allowed"))
    <3>1. s.request.args \in City'.landed
      BY <2>1, <2>2 DEF City
    <3> QED
      BY <2>2, <3>1 DEF OrderAnswer
  <2>3. DOMAIN dispatched' = Demo!Droneports
    BY <2>1 DEF LaunchInv, TypesInv
  <2>4. \A s : Link(s, p, q.action, q.args) =>
                   OrderAnswer(City', q.from, s, Demo!Ok("landing_allowed"))
    BY <2>1, <2>2 DEF Link, FlightCalls
  <2> QED
    BY <1>1, <1>2, <2>1, <2>3, <2>4, OrderGrows
<1> QED
  BY <1>3, <1>4, <1>5, <1>6
-----------------------------------------------------------------------------
(* The order: handlers that call others.                                     *)

LEMMA OrderCalls ==
    ASSUME LaunchInv("order"), NEW p \in Procs, NEW to \in DemoEntities, NEW a, NEW x, NEW l,
           p # Main => inbox[p] # <<>>, a \notin Idles,
           Demo!Call(p, to, a, x, l), Demo!cityVars' = Demo!cityVars, saved' = saved,
           OrderCall(City, p, to, a, x),
           \A s : s.at = a /\ s.locals = l /\ s.request = Handled(p) =>
                      Link(s, to, a, x) /\ OrderBusy(City, p, s)
    PROVE  LaunchInv("order")'
<1> DEFINE s == [at |-> a, locals |-> l, request |-> Handled(p)]
<1>1. s.at = a /\ s.locals = l /\ s.request = Handled(p)
  OBVIOUS
<1>2. Link(s, to, a, x) /\ OrderBusy(City, p, s)
  BY <1>1
<1>3. Fits("order", City, p, to, a, x) /\ Busy("order", City, p, s)
  BY <1>2 DEF Fits, Busy
<1> QED
  BY <1>2, <1>3, CallKeeps DEF Scenarios

\* What an entity at work knows when the answer it waits for is there.
LEMMA OrderWaiter ==
    ASSUME LaunchInv("order"), NEW p \in DemoEntities, NEW b, NEW a, Demo!Answered(p, b, a),
           a \notin Idles, b # "__stop__"
    PROVE  /\ inbox[p] # <<>> /\ Demo!Request(p).action = b /\ State(p).at = a
           /\ State(p).locals = locals[p] /\ State(p).request = Demo!Request(p)
           /\ Handled(p) = Demo!Request(p)
           /\ OrderBusy(City, p, State(p)) /\ OrderAnswer(City, p, State(p), reply[p])
           /\ OrderCall(City, Demo!Request(p).from, p, b, Demo!Request(p).args)
<1>1. at[p] = a /\ reply[p] # None /\ Demo!Request(p).action = b
  BY DEF Demo!Answered
<1>2. p \in Procs /\ p # Main /\ "order" \in Scenarios
  BY ProcsAre DEF Scenarios
<1>3. /\ inbox[p] # <<>> /\ Busy("order", City, p, State(p))
      /\ Answer("order", City, p, State(p), reply[p])
  BY <1>1, <1>2, WaiterIs
<1>4. OrderCall(City, Demo!Request(p).from, p, b, Demo!Request(p).args)
  BY <1>1, <1>3, OrderRequest
<1> QED
  BY <1>1, <1>2, <1>3, <1>4, StateIs DEF Busy, Answer, Handled

LEMMA PlaceOrderKeeps ==
    ASSUME LaunchInv("order"), saved' = saved, Demo!PlaceOrder
    PROVE  LaunchInv("order")'
<1>1. Demo!cityVars' = Demo!cityVars
  BY DEF Demo!PlaceOrder, Demo!cityVars
<1>2. /\ "customer" \in DemoEntities /\ "customer" \in Procs /\ "customer" # Main
      /\ "aggregator" \in DemoEntities
  BY ProcsAre DEF DemoEntities, Main
<1>3. CASE /\ Demo!Asked("customer", "place_order")
           /\ Demo!Call("customer", "aggregator", "receive_order", Demo!Request("customer").args, None)
  <2>1. inbox["customer"] # <<>> /\ Demo!Request("customer").action = "place_order"
    BY <1>3 DEF Demo!Asked
  <2>2. OrderCall(City, Demo!Request("customer").from, "customer", "place_order",
                  Demo!Request("customer").args)
    BY <1>2, <2>1, OrderRequest
  <2>3. Demo!Request("customer").args = Demo!OrderGoals
    BY <2>2 DEF OrderCall, Called
  <2>4. OrderCall(City, "customer", "aggregator", "receive_order", Demo!Request("customer").args)
    BY <2>3 DEF OrderCall, Called
  <2>5. ASSUME NEW s, s.at = "receive_order", s.request = Handled("customer")
        PROVE  /\ Link(s, "aggregator", "receive_order", Demo!Request("customer").args)
               /\ OrderBusy(City, "customer", s)
    BY <1>2, <2>1, <2>5 DEF Link, FlightCalls, OrderBusy, Handled
  <2> QED
    BY <1>1, <1>2, <1>3, <2>1, <2>4, <2>5, OrderCalls DEF Idles
<1>4. CASE /\ Demo!Answered("customer", "place_order", "receive_order")
           /\ Demo!Respond("customer", reply["customer"])
  <2>1. /\ inbox["customer"] # <<>> /\ Demo!Request("customer").action = "place_order"
        /\ State("customer").at = "receive_order"
        /\ OrderAnswer(City, "customer", State("customer"), reply["customer"])
    BY <1>2, <1>4, OrderWaiter DEF Idles
  <2>2. Reported(City, reply["customer"])
    BY <2>1 DEF OrderAnswer
  <2>3. ASSUME NEW p, NEW s, s.at = "place_order"
        PROVE  OrderAnswer(City, p, s, reply["customer"])
    BY <2>2, <2>3 DEF OrderAnswer
  <2> QED
    BY <1>1, <1>2, <1>4, <2>1, <2>3, OrderResponds DEF Link
<1> QED
  BY <1>3, <1>4 DEF Demo!PlaceOrder

LEMMA AsksOperator ==
    ASSUME LaunchInv("order"), saved' = saved, Demo!cityVars' = Demo!cityVars,
           inbox["aggregator"] # <<>>, Demo!Request("aggregator").action = "receive_order",
           NEW n \in 1 .. 2, NEW proposed, IsSeq(proposed),
           \A i \in DOMAIN proposed : IsProposal(City, proposed[i]),
           Demo!AskOperator(n, proposed)
    PROVE  LaunchInv("order")'
<1>1. /\ "aggregator" \in DemoEntities /\ "aggregator" \in Procs /\ "aggregator" # Main
      /\ Demo!OperatorIds[n] \in Demo!Operators /\ Demo!OperatorIds[n] \in DemoEntities
  BY ProcsAre DEF DemoEntities, Main, Demo!OperatorIds, Demo!Operators
<1> DEFINE l == [asked |-> n, proposals |-> proposed]
<1>2. Demo!Call("aggregator", Demo!OperatorIds[n], "proposal_request",
                Demo!Request("aggregator").args, l)
  BY DEF Demo!AskOperator
<1>3. OrderCall(City, Demo!Request("aggregator").from, "aggregator", "receive_order",
                Demo!Request("aggregator").args)
  BY <1>1, OrderRequest
<1>4. Demo!Request("aggregator").args = Demo!OrderGoals
  BY <1>3 DEF OrderCall, Called
<1>5. OrderCall(City, "aggregator", Demo!OperatorIds[n], "proposal_request",
                Demo!Request("aggregator").args)
  BY <1>1, <1>4 DEF OrderCall
<1>6. l.asked \in 1 .. 2 /\ l.proposals = proposed
  OBVIOUS
<1> HIDE DEF l
<1>7. ASSUME NEW s, s.at = "proposal_request", s.locals = l, s.request = Handled("aggregator")
      PROVE  /\ Link(s, Demo!OperatorIds[n], "proposal_request", Demo!Request("aggregator").args)
             /\ OrderBusy(City, "aggregator", s)
  <2>1. Link(s, Demo!OperatorIds[n], "proposal_request", Demo!Request("aggregator").args)
    BY <1>7 DEF Link, FlightCalls
  <2>2. s.request.action = "receive_order"
    BY <1>1, <1>7 DEF Handled
  <2>3. s.locals.asked \in 1 .. 2 /\ s.locals.proposals = proposed
    BY <1>6, <1>7
  <2> QED
    BY <1>7, <2>1, <2>2, <2>3 DEF OrderBusy
<1> QED
  BY <1>1, <1>2, <1>5, <1>7, OrderCalls DEF Idles

LEMMA ReceiveOrderKeeps ==
    ASSUME LaunchInv("order"), saved' = saved, Demo!ReceiveOrder
    PROVE  LaunchInv("order")'
<1> DEFINE e == "aggregator"
<1>1. Demo!cityVars' = Demo!cityVars
  BY DEF Demo!ReceiveOrder, Demo!cityVars
<1>2. e \in DemoEntities /\ e \in Procs /\ e # Main
  BY ProcsAre DEF DemoEntities, Main
<1>3. CASE Demo!Asked(e, "receive_order") /\ Demo!AskOperator(1, <<>>)
  <2>1. inbox[e] # <<>> /\ Demo!Request(e).action = "receive_order"
    BY <1>3 DEF Demo!Asked
  <2>2. IsSeq(<<>>) /\ \A i \in DOMAIN <<>> : IsProposal(City, <<>>[i])
    BY EmptyIsSeq
  <2> QED
    BY <1>1, <1>3, <2>1, <2>2, AsksOperator
<1>4. CASE /\ Demo!Answered(e, "receive_order", "assign_order")
           /\ Demo!Respond(e, Demo!Ok(IF reply[e].ok THEN reply[e].of ELSE Demo!Failed))
  <2>1. /\ inbox[e] # <<>> /\ Demo!Request(e).action = "receive_order"
        /\ State(e).at = "assign_order" /\ OrderAnswer(City, e, State(e), reply[e])
    BY <1>2, <1>4, OrderWaiter DEF Idles
  <2>2. Reported(City, reply[e])
    BY <2>1 DEF OrderAnswer
  <2> DEFINE f == IF reply[e].ok THEN reply[e].of ELSE Demo!Failed
  <2>3. Flown(City, f)
    <3>1. CASE reply[e] = Demo!Failed
      BY <3>1 DEF Flown, Demo!Failed
    <3>2. CASE Success(reply[e]) /\ Flown(City, reply[e].of)
      BY <3>2, OkIs DEF Success
    <3> QED
      BY <2>2, <3>1, <3>2 DEF Reported
  <2>4. Demo!Respond(e, Demo!Ok(f))
    BY <1>4
  <2> HIDE DEF f
  <2>5. Reported(City, Demo!Ok(f))
    BY <2>3, OkIs DEF Reported
  <2>6. ASSUME NEW p, NEW s, s.at = "receive_order"
        PROVE  OrderAnswer(City, p, s, Demo!Ok(f))
    BY <2>5, <2>6 DEF OrderAnswer
  <2> QED
    BY <1>1, <1>2, <2>1, <2>4, <2>6, OrderResponds DEF Link
<1>5. ASSUME Demo!Answered(e, "receive_order", "proposal_request")
      PROVE  /\ inbox[e] # <<>> /\ Demo!Request(e).action = "receive_order"
             /\ locals[e].asked \in 1 .. 2 /\ IsSeq(locals[e].proposals)
             /\ \A i \in DOMAIN locals[e].proposals : IsProposal(City, locals[e].proposals[i])
             /\ \/ reply[e] = Demo!Failed
                \/ Success(reply[e]) /\ IsProposal(City, reply[e].of)
  <2>1. /\ inbox[e] # <<>> /\ Demo!Request(e).action = "receive_order"
        /\ State(e).at = "proposal_request" /\ State(e).locals = locals[e]
        /\ OrderBusy(City, e, State(e)) /\ OrderAnswer(City, e, State(e), reply[e])
    BY <1>2, <1>5, OrderWaiter DEF Idles
  <2>2. /\ locals[e].asked \in 1 .. 2 /\ IsSeq(locals[e].proposals)
        /\ \A i \in DOMAIN locals[e].proposals : IsProposal(City, locals[e].proposals[i])
    BY <1>2, <2>1 DEF OrderBusy, Demo!Operators
  <2>3. \/ reply[e] = Demo!Failed
        \/ Success(reply[e]) /\ IsProposal(City, reply[e].of)
    BY <2>1 DEF OrderAnswer
  <2> QED
    BY <2>1, <2>2, <2>3
<1> DEFINE got == IF reply[e].ok THEN Append(locals[e].proposals, reply[e].of)
                                 ELSE locals[e].proposals
           offers == [i \in {k \in DOMAIN got : got[k].cost <= MaxPrice} |-> got[i]]
           chosen == Demo!Cheapest(offers)
<1>6. ASSUME Demo!Answered(e, "receive_order", "proposal_request")
      PROVE  IsSeq(got) /\ \A i \in DOMAIN got : IsProposal(City, got[i])
  <2>1. CASE reply[e] = Demo!Failed
    BY <1>5, <1>6, <2>1 DEF Demo!Failed
  <2>2. CASE Success(reply[e]) /\ IsProposal(City, reply[e].of)
    <3>1. reply[e].ok = TRUE
      BY <2>2, OkIs DEF Success
    <3>2. got = Append(locals[e].proposals, reply[e].of)
      BY <3>1
    <3> QED
      BY <1>5, <1>6, <2>2, <3>2, AppendFacts
  <2> QED
    BY <1>5, <1>6, <2>1, <2>2
<1> HIDE DEF got
<1>7. CASE /\ Demo!Answered(e, "receive_order", "proposal_request")
           /\ locals[e].asked < Len(Demo!OperatorIds)
           /\ Demo!AskOperator(locals[e].asked + 1, got)
  <2>1. locals[e].asked + 1 \in 1 .. 2
    <3>1. Len(Demo!OperatorIds) = 2
      BY DEF Demo!OperatorIds
    <3> QED
      BY <1>5, <1>7, <3>1
  <2> QED
    BY <1>1, <1>5, <1>6, <1>7, <2>1, AsksOperator
<1>8. CASE /\ Demo!Answered(e, "receive_order", "proposal_request")
           /\ Demo!Respond(e, Demo!Failed)
  <2>1. ASSUME NEW p, NEW s, s.at = "receive_order"
        PROVE  OrderAnswer(City, p, s, Demo!Failed)
    BY <2>1 DEF OrderAnswer, Reported
  <2> QED
    BY <1>1, <1>2, <1>5, <1>8, <2>1, OrderResponds DEF Link
<1>9. CASE /\ Demo!Answered(e, "receive_order", "proposal_request")
           /\ DOMAIN offers # {}
           /\ Demo!Call(e, chosen.operator, "assign_order", chosen.selected, chosen)
  <2>1. /\ DOMAIN offers \subseteq DOMAIN got
        /\ \A i \in DOMAIN offers : offers[i] = got[i]
    OBVIOUS
  <2>2. DOMAIN got = 1 .. Len(got) /\ Len(got) \in Nat
    BY <1>6, <1>9, SeqFacts
  <2>3. IsFiniteSet(DOMAIN got) /\ DOMAIN got \subseteq Nat
    BY <2>2, FS_Interval
  <2>4. IsFiniteSet(DOMAIN offers) /\ DOMAIN offers \subseteq Nat /\ DOMAIN offers # {}
    BY <1>9, <2>1, <2>3, FS_Subset
  <2>5. \A i \in DOMAIN offers : IsProposal(City, offers[i])
    BY <1>6, <1>9, <2>1
  <2> HIDE DEF offers
  <2>6. \A i \in DOMAIN offers : offers[i].cost \in Int
    BY <2>5 DEF IsProposal
  <2>7. IsProposal(City, chosen)
    BY <2>4, <2>5, <2>6, CheapestIs
  <2> HIDE DEF chosen
  <2>8. /\ chosen.operator \in Demo!Operators /\ Covers(chosen.operator)
        /\ Candidates(City) # <<>> /\ chosen.selected = Selected(City)
    BY <2>7 DEF IsProposal
  <2>9. chosen.operator \in DemoEntities
    BY <2>8 DEF Demo!Operators, DemoEntities
  <2>10. OrderCall(City, e, chosen.operator, "assign_order", chosen.selected)
    BY <2>8 DEF OrderCall
  <2>11. ASSUME NEW s, s.at = "assign_order", s.request = Handled(e)
         PROVE  /\ Link(s, chosen.operator, "assign_order", chosen.selected)
                /\ OrderBusy(City, e, s)
    BY <1>2, <1>5, <1>9, <2>11 DEF Link, FlightCalls, OrderBusy, Handled
  <2> QED
    BY <1>1, <1>2, <1>5, <1>9, <2>9, <2>10, <2>11, OrderCalls DEF Idles
<1> QED
  BY <1>3, <1>4, <1>7, <1>8, <1>9 DEF Demo!ReceiveOrder, got
-----------------------------------------------------------------------------
(* The order: an operator, and the drone.                                    *)

LEMMA OperatorIs ==
    ASSUME NEW e \in Demo!Operators
    PROVE  e \in DemoEntities /\ e \in Procs /\ e # Main /\ e # "agro_drone"
           /\ e # "aggregator" /\ e # "customer" /\ e # "vendor_uas"
  BY ProcsAre DEF Demo!Operators, DemoEntities, Main

LEMMA PortIs ==
    ASSUME NEW p \in Demo!Droneports
    PROVE  p \in DemoEntities
  BY DEF Demo!Droneports, DemoEntities

\* No caller of the order takes an error for more than that.
LEMMA OrderFails ==
    ASSUME LaunchInv("order"), NEW e \in DemoEntities, inbox[e] # <<>>,
           Demo!Request(e).action \in {"proposal_request", "assign_order", "agro_mission_received"},
           Demo!Respond(e, Demo!Failed), Demo!cityVars' = Demo!cityVars, saved' = saved
    PROVE  LaunchInv("order")'
<1>1. PICK a : a = Demo!Request(e).action
  OBVIOUS
<1>2. ASSUME NEW p, NEW s, s.at = a
      PROVE  OrderAnswer(City, p, s, Demo!Failed)
  BY <1>1, <1>2 DEF OrderAnswer, Reported, Flown
<1> QED
  BY <1>1, <1>2, OrderResponds DEF Link

LEMMA AsksPort ==
    ASSUME LaunchInv("order"), saved' = saved, Demo!cityVars' = Demo!cityVars,
           NEW e \in Demo!Operators, Covers(e), inbox[e] # <<>>,
           Demo!Request(e).action = "proposal_request",
           NEW n \in 1 .. 2, NEW cands,
           (n = 1 /\ cands = <<>>) \/ (n = 2 /\ cands = Here(City, 1)),
           Demo!AskPort(e, n, cands)
    PROVE  LaunchInv("order")'
<1>1. /\ e \in DemoEntities /\ e \in Procs /\ e # Main
      /\ Demo!Ports[n] \in Demo!Droneports /\ Demo!Ports[n] \in DemoEntities
  BY OperatorIs DEF Demo!Ports, Demo!Droneports, DemoEntities
<1> DEFINE l == [asked |-> n, candidates |-> cands]
<1>2. Demo!Call(e, Demo!Ports[n], "get_available_uas", None, l)
  BY DEF Demo!AskPort
<1>3. OrderCall(City, e, Demo!Ports[n], "get_available_uas", None)
  BY <1>1 DEF OrderCall
<1>4. /\ l.asked = n
      /\ \/ l = [asked |-> 1, candidates |-> <<>>]
         \/ l = [asked |-> 2, candidates |-> Here(City, 1)]
  BY Zenon
<1> HIDE DEF l
<1>5. ASSUME NEW s, s.at = "get_available_uas", s.locals = l, s.request = Handled(e)
      PROVE  Link(s, Demo!Ports[n], "get_available_uas", None) /\ OrderBusy(City, e, s)
  <2>1. Link(s, Demo!Ports[n], "get_available_uas", None)
    BY <1>4, <1>5 DEF Link, FlightCalls
  <2>2. s.request.action = "proposal_request"
    BY <1>1, <1>5 DEF Handled
  <2>3. \/ s.locals = [asked |-> 1, candidates |-> <<>>]
        \/ s.locals = [asked |-> 2, candidates |-> Here(City, 1)]
    BY <1>4, <1>5, Zenon
  <2> QED
    BY <1>5, <2>1, <2>2, <2>3, Zenon DEF OrderBusy
<1> QED
  BY <1>1, <1>2, <1>3, <1>5, OrderCalls DEF Idles

LEMMA ProposalKeeps ==
    ASSUME LaunchInv("order"), saved' = saved, NEW e \in Demo!Operators, Demo!ProposalRequest(e)
    PROVE  LaunchInv("order")'
<1>1. Demo!cityVars' = Demo!cityVars
  BY DEF Demo!ProposalRequest, Demo!cityVars
<1>2. /\ e \in DemoEntities /\ e \in Procs /\ e # Main /\ e # "agro_drone"
      /\ e # "aggregator" /\ e # "customer"
  BY OperatorIs
<1>3. ParkOK(City.park)
  BY CityPark DEF LaunchInv, TypesInv
<1>4. CASE /\ Demo!Asked(e, "proposal_request")
           /\ Demo!Request(e).args \subseteq Demo!Goals(e)
           /\ Demo!AskPort(e, 1, <<>>)
  <2>1. inbox[e] # <<>> /\ Demo!Request(e).action = "proposal_request"
    BY <1>4 DEF Demo!Asked
  <2>2. OrderCall(City, Demo!Request(e).from, e, "proposal_request", Demo!Request(e).args)
    BY <1>2, <2>1, OrderRequest
  <2>3. Demo!Request(e).args = Demo!OrderGoals
    BY <2>2 DEF OrderCall, Called
  <2>4. Covers(e)
    BY <1>4, <2>3 DEF Covers
  <2>5. PICK cands : cands = <<>>
    OBVIOUS
  <2>6. PICK k \in 1 .. 2 : k = 1
    OBVIOUS
  <2>7. Demo!AskPort(e, k, cands)
    BY <1>4, <2>5, <2>6
  <2>8. (k = 1 /\ cands = <<>>) \/ (k = 2 /\ cands = Here(City, 1))
    BY <2>5, <2>6
  <2> QED
    BY <1>1, <2>1, <2>4, <2>7, <2>8, AsksPort
<1>5. CASE Demo!Asked(e, "proposal_request") /\ Demo!Respond(e, Demo!Failed)
  <2>1. inbox[e] # <<>> /\ Demo!Request(e).action = "proposal_request"
    BY <1>5 DEF Demo!Asked
  <2> QED
    BY <1>1, <1>2, <1>5, <2>1, OrderFails
<1> DEFINE n == locals[e].asked
           here == [i \in DOMAIN reply[e].of |->
                      [port |-> Demo!Ports[n], uas |-> reply[e].of[i], cost |-> reply[e].of[i].cost]]
           all == locals[e].candidates \o here
<1> HIDE DEF n, all
<1>6. CASE /\ Demo!Answered(e, "proposal_request", "get_available_uas")
           /\ IF n < Len(Demo!Ports) THEN Demo!AskPort(e, n + 1, all)
              ELSE IF all = <<>> THEN Demo!Respond(e, Demo!Failed)
              ELSE Demo!Call(e, "insurer", "request_insurance_quote", None, Demo!Cheapest(all))
  <2>1. /\ inbox[e] # <<>> /\ Demo!Request(e).action = "proposal_request"
        /\ State(e).at = "get_available_uas" /\ State(e).locals = locals[e]
        /\ Handled(e) = Demo!Request(e)
        /\ OrderBusy(City, e, State(e)) /\ OrderAnswer(City, e, State(e), reply[e])
    BY <1>2, <1>6, OrderWaiter DEF Idles
  <2>2. /\ Covers(e)
        /\ \/ locals[e] = [asked |-> 1, candidates |-> <<>>]
           \/ locals[e] = [asked |-> 2, candidates |-> Here(City, 1)]
    BY <1>2, <2>1 DEF OrderBusy, FlightCalls, Main
  <2>3. n = 1 \/ n = 2
    BY <2>2 DEF n
  <2>4. reply[e].of = City.park[Demo!Ports[n]]
    <3>1. reply[e] = Demo!Ok(City.park[Demo!Ports[n]])
      BY <2>1, Zenon DEF OrderAnswer, n
    <3> QED
      BY <3>1, OkIs
  <2>5. here = Here(City, n)
    BY <2>4 DEF Here
  <2>6. Len(Demo!Ports) = 2
    BY DEF Demo!Ports
  <2>7. IsSeq(Here(City, 1)) /\ IsSeq(Here(City, 2))
    BY <1>3, HereIs
  <2>8. CASE n = 1
    <3>1. locals[e].candidates = <<>>
      BY <2>2, <2>8 DEF n
    <3>2. <<>> \o Here(City, 1) = Here(City, 1)
      BY <2>7, EmptyIsSeq, ConcatFacts
    <3>3. all = Here(City, 1)
      BY <2>5, <2>8, <3>1, <3>2 DEF all
    <3>4. n < Len(Demo!Ports) /\ n + 1 = 2
      BY <2>6, <2>8
    <3>5. Demo!AskPort(e, 2, Here(City, 1))
      BY <1>6, <3>3, <3>4
    <3> QED
      BY <1>1, <2>1, <2>2, <3>5, AsksPort
  <2>9. CASE n = 2
    <3>1. locals[e].candidates = Here(City, 1)
      BY <2>2, <2>9 DEF n
    <3>2. all = Candidates(City)
      BY <2>5, <2>9, <3>1 DEF Candidates, all
    <3>3. ~(n < Len(Demo!Ports))
      BY <2>6, <2>9
    <3>4. CASE all = <<>>
      BY <1>1, <1>2, <1>6, <2>1, <3>3, <3>4, OrderFails
    <3>5. CASE all # <<>>
      <4> DEFINE l == Selected(City)
      <4>1. Demo!Call(e, "insurer", "request_insurance_quote", None, l)
        BY <1>6, <3>2, <3>3, <3>5 DEF Selected
      <4>2. Candidates(City) # <<>>
        BY <3>2, <3>5
      <4> HIDE DEF l
      <4>3. "insurer" \in DemoEntities
        BY DEF DemoEntities
      <4>4. OrderCall(City, e, "insurer", "request_insurance_quote", None)
        BY DEF OrderCall
      <4>5. ASSUME NEW s, s.at = "request_insurance_quote", s.locals = l, s.request = Handled(e)
            PROVE  Link(s, "insurer", "request_insurance_quote", None) /\ OrderBusy(City, e, s)
        <5>1. Link(s, "insurer", "request_insurance_quote", None)
          BY <4>5 DEF Link, FlightCalls
        <5>2. s.request.action = "proposal_request" /\ s.locals = Selected(City)
          BY <2>1, <4>5 DEF l
        <5> QED
          BY <2>2, <4>2, <4>5, <5>1, <5>2 DEF OrderBusy
      <4> QED
        BY <1>1, <1>2, <2>1, <4>1, <4>3, <4>4, <4>5, OrderCalls DEF Idles
    <3> QED
      BY <3>4, <3>5
  <2> QED
    BY <2>3, <2>8, <2>9
<1> DEFINE premium == IF reply[e].ok THEN reply[e].of ELSE 0
           price == ((locals[e].cost + premium) * 11) \div 10
<1>7. CASE /\ Demo!Answered(e, "proposal_request", "request_insurance_quote")
           /\ IF price > MaxPrice THEN Demo!Respond(e, Demo!Failed)
              ELSE Demo!Respond(e, Demo!Ok([operator |-> e, selected |-> locals[e], cost |-> price]))
  <2>1. /\ inbox[e] # <<>> /\ Demo!Request(e).action = "proposal_request"
        /\ State(e).at = "request_insurance_quote" /\ State(e).locals = locals[e]
        /\ OrderBusy(City, e, State(e)) /\ OrderAnswer(City, e, State(e), reply[e])
    BY <1>2, <1>7, OrderWaiter DEF Idles
  <2>2. Covers(e) /\ Candidates(City) # <<>> /\ locals[e] = Selected(City)
    BY <1>2, <2>1 DEF OrderBusy, FlightCalls, Main
  <2>3. locals[e].cost \in Int
    BY <1>3, <2>2, SelectedIs
  <2>4. premium \in Int
    <3>1. reply[e] = Demo!Failed \/ (Success(reply[e]) /\ reply[e].of \in Int)
      BY <2>1 DEF OrderAnswer
    <3>2. CASE reply[e] = Demo!Failed
      <4>1. ~reply[e].ok
        BY <3>2 DEF Demo!Failed
      <4> QED
        BY <4>1
    <3>3. CASE reply[e].of \in Int
      BY <3>3
    <3> QED
      BY <3>1, <3>2, <3>3
  <2> HIDE DEF premium
  <2>5. price \in Int
    BY <2>3, <2>4
  <2> HIDE DEF price
  <2> DEFINE x == [operator |-> e, selected |-> locals[e], cost |-> price]
  <2>6. x.operator = e /\ x.selected = locals[e] /\ x.cost = price
    OBVIOUS
  <2>7. CASE Demo!Respond(e, Demo!Failed)
    BY <1>1, <1>2, <2>1, <2>7, OrderFails
  <2>8. CASE Demo!Respond(e, Demo!Ok(x))
    <3> HIDE DEF x
    <3>1. IsProposal(City, x)
      BY <2>2, <2>5, <2>6 DEF IsProposal
    <3>2. ASSUME NEW p, NEW s, s.at = "proposal_request"
          PROVE  OrderAnswer(City, p, s, Demo!Ok(x))
      BY <3>1, <3>2, OkIs DEF OrderAnswer
    <3> QED
      BY <1>1, <1>2, <2>1, <2>8, <3>2, OrderResponds DEF Link
  <2> QED
    BY <1>7, <2>7, <2>8
<1> QED
  BY <1>4, <1>5, <1>6, <1>7 DEF Demo!ProposalRequest, n, all, price, premium

\* The goals, the plan and the drone of one order, from its operator on.
LEMMA AssignOrderKeeps ==
    ASSUME LaunchInv("order"), saved' = saved, NEW e \in Demo!Operators, Demo!AssignOrder(e)
    PROVE  LaunchInv("order")'
<1>1. Demo!cityVars' = Demo!cityVars
  BY DEF Demo!AssignOrder, Demo!cityVars
<1>2. /\ e \in DemoEntities /\ e \in Procs /\ e # Main /\ e # "agro_drone"
      /\ e # "aggregator" /\ e # "customer"
  BY OperatorIs
<1>3. ParkOK(City.park)
  BY CityPark DEF LaunchInv, TypesInv
<1>4. PICK q : q = Demo!Request(e)
  OBVIOUS
<1>5. ASSUME inbox[e] # <<>>, q.action = "assign_order"
      PROVE  Covers(e) /\ Candidates(City) # <<>> /\ q.args = Selected(City)
  <2>1. OrderCall(City, q.from, e, "assign_order", q.args)
    BY <1>2, <1>4, <1>5, OrderRequest
  <2> QED
    BY <2>1 DEF OrderCall, Called
<1>6. CASE Demo!Asked(e, "assign_order") /\ Demo!Call(e, "gcs", "mission_planning", q.args, None)
  <2>1. inbox[e] # <<>> /\ q.action = "assign_order"
    BY <1>4, <1>6 DEF Demo!Asked
  <2>2. "gcs" \in DemoEntities
    BY DEF DemoEntities
  <2>3. OrderCall(City, e, "gcs", "mission_planning", q.args)
    BY <1>5, <2>1 DEF OrderCall
  <2>4. ASSUME NEW s, s.at = "mission_planning", s.request = Handled(e)
        PROVE  Link(s, "gcs", "mission_planning", q.args) /\ OrderBusy(City, e, s)
    BY <1>2, <1>4, <2>1, <2>4 DEF Link, FlightCalls, OrderBusy, Handled
  <2> QED
    BY <1>1, <1>2, <1>6, <2>1, <2>2, <2>3, <2>4, OrderCalls DEF Idles
<1>7. ASSUME NEW a, a \notin Idles, Demo!Answered(e, "assign_order", a)
      PROVE  /\ inbox[e] # <<>> /\ q.action = "assign_order" /\ Handled(e) = q
             /\ State(e).at = a /\ State(e).locals = locals[e]
             /\ OrderBusy(City, e, State(e)) /\ OrderAnswer(City, e, State(e), reply[e])
  BY <1>2, <1>4, <1>7, OrderWaiter
<1>8. CASE /\ Demo!Answered(e, "assign_order", "mission_planning") /\ reply[e].ok
           /\ Demo!Call(e, "atm", "validate_mission", reply[e].of, reply[e].of)
  <2>1. PICK m : m = reply[e].of
    OBVIOUS
  <2>2. /\ inbox[e] # <<>> /\ q.action = "assign_order" /\ Handled(e) = q
        /\ State(e).at = "mission_planning" /\ OrderAnswer(City, e, State(e), reply[e])
    BY <1>7, <1>8 DEF Idles
  <2>3. IsPlan(City, m)
    <3>1. reply[e] = Demo!Failed \/ (Success(reply[e]) /\ IsPlan(City, reply[e].of))
      BY <2>2 DEF OrderAnswer
    <3> QED
      BY <1>8, <2>1, <3>1 DEF Demo!Failed
  <2>4. OrderCall(City, e, "atm", "validate_mission", m)
    BY <2>3 DEF OrderCall
  <2>5. "atm" \in DemoEntities /\ Demo!Call(e, "atm", "validate_mission", m, m)
    BY <1>8, <2>1 DEF DemoEntities
  <2>6. ASSUME NEW s, s.at = "validate_mission", s.locals = m, s.request = Handled(e)
        PROVE  Link(s, "atm", "validate_mission", m) /\ OrderBusy(City, e, s)
    BY <2>2, <2>3, <2>6 DEF Link, FlightCalls, OrderBusy
  <2> QED
    BY <1>1, <1>2, <2>2, <2>4, <2>5, <2>6, OrderCalls DEF Idles
<1>9. CASE /\ Demo!Answered(e, "assign_order", "validate_mission")
           /\ Demo!Call(e, q.args.port, "prepare_dispatch", locals[e], locals[e])
  <2>1. /\ inbox[e] # <<>> /\ q.action = "assign_order" /\ Handled(e) = q
        /\ State(e).at = "validate_mission" /\ State(e).locals = locals[e]
        /\ OrderBusy(City, e, State(e))
    BY <1>7, <1>9 DEF Idles
  <2>2. IsPlan(City, locals[e])
    BY <1>2, <2>1 DEF OrderBusy, FlightCalls, Main
  <2>3. q.args.port \in Demo!Droneports
    BY <1>3, <1>5, <2>1, SelectedIs
  <2>4. OrderCall(City, e, q.args.port, "prepare_dispatch", locals[e])
    BY <2>2, <2>3 DEF OrderCall
  <2>5. ASSUME NEW s, s.at = "prepare_dispatch", s.locals = locals[e], s.request = Handled(e)
        PROVE  Link(s, q.args.port, "prepare_dispatch", locals[e]) /\ OrderBusy(City, e, s)
    BY <2>1, <2>2, <2>5 DEF Link, FlightCalls, OrderBusy
  <2> QED
    BY <1>1, <1>2, <1>9, <2>1, <2>3, <2>4, <2>5, PortIs, OrderCalls DEF Idles
<1>10. CASE /\ Demo!Answered(e, "assign_order", "prepare_dispatch")
            /\ Demo!Call(e, "agro_drone", "agro_mission_received", locals[e], None)
  <2>1. /\ inbox[e] # <<>> /\ q.action = "assign_order" /\ Handled(e) = q
        /\ State(e).at = "prepare_dispatch" /\ State(e).locals = locals[e]
        /\ OrderBusy(City, e, State(e))
    BY <1>7, <1>10 DEF Idles
  <2>2. IsPlan(City, locals[e])
    BY <1>2, <2>1 DEF OrderBusy, FlightCalls, Main
  <2>3. OrderCall(City, e, "agro_drone", "agro_mission_received", locals[e])
    BY <2>2 DEF OrderCall
  <2>4. ASSUME NEW s, s.at = "agro_mission_received", s.request = Handled(e)
        PROVE  Link(s, "agro_drone", "agro_mission_received", locals[e]) /\ OrderBusy(City, e, s)
    BY <2>1, <2>4 DEF Link, FlightCalls, OrderBusy
  <2>5. "agro_drone" \in DemoEntities
    BY DEF DemoEntities
  <2> QED
    BY <1>1, <1>2, <1>10, <2>1, <2>3, <2>4, <2>5, OrderCalls DEF Idles
<1>11. CASE /\ Demo!Answered(e, "assign_order", "agro_mission_received")
            /\ Demo!Respond(e, Demo!Ok(reply[e]))
  <2>1. /\ inbox[e] # <<>> /\ q.action = "assign_order"
        /\ State(e).at = "agro_mission_received" /\ OrderAnswer(City, e, State(e), reply[e])
    BY <1>7, <1>11 DEF Idles
  <2>2. Flown(City, reply[e])
    BY <2>1 DEF OrderAnswer
  <2>3. Reported(City, Demo!Ok(reply[e]))
    BY <2>2, OkIs DEF Reported
  <2>4. ASSUME NEW p, NEW s, s.at = "assign_order"
        PROVE  OrderAnswer(City, p, s, Demo!Ok(reply[e]))
    BY <2>3, <2>4 DEF OrderAnswer
  <2> QED
    BY <1>1, <1>2, <1>4, <1>11, <2>1, <2>4, OrderResponds DEF Link
<1>12. CASE /\ \/ Demo!Answered(e, "assign_order", "mission_planning")
               \/ Demo!Answered(e, "assign_order", "validate_mission")
            /\ Demo!Respond(e, Demo!Failed)
  <2>1. inbox[e] # <<>> /\ q.action = "assign_order"
    BY <1>7, <1>12 DEF Idles
  <2> QED
    BY <1>1, <1>2, <1>4, <1>12, <2>1, OrderFails
<1> QED
  BY <1>4, <1>6, <1>8, <1>9, <1>10, <1>11, <1>12 DEF Demo!AssignOrder

LEMMA AgroMissionKeeps ==
    ASSUME LaunchInv("order"), saved' = saved, Demo!AgroMission
    PROVE  LaunchInv("order")'
<1> DEFINE e == "agro_drone"
<1>1. Demo!cityVars' = Demo!cityVars
  BY DEF Demo!AgroMission, Demo!cityVars
<1>2. e \in DemoEntities /\ e \in Procs /\ e # Main /\ e \notin Demo!Operators
  BY ProcsAre DEF DemoEntities, Main, Demo!Operators
<1>3. ParkOK(City.park)
  BY CityPark DEF LaunchInv, TypesInv
<1>4. PICK q : q = Demo!Request(e)
  OBVIOUS
<1>5. ASSUME inbox[e] # <<>>, q.action = "agro_mission_received"
      PROVE  /\ IsPlan(City, q.args) /\ q.args.port \in Demo!Droneports
             /\ q.args.return_port \in Demo!Droneports
  <2>1. OrderCall(City, q.from, e, "agro_mission_received", q.args)
    BY <1>2, <1>4, <1>5, OrderRequest
  <2>2. IsPlan(City, q.args)
    BY <2>1 DEF OrderCall, Called
  <2>3. PICK m : m = q.args
    OBVIOUS
  <2>4. /\ Candidates(City) # <<>>
        /\ m = [mission |-> m.mission, uas |-> Selected(City).uas, port |-> Selected(City).port,
                return_port |-> Demo!TargetPort]
    BY <2>2, <2>3 DEF IsPlan
  <2>5. m.port = Selected(City).port /\ m.return_port = Demo!TargetPort
    BY <2>4
  <2> QED
    BY <1>3, <2>2, <2>3, <2>4, <2>5, SelectedIs DEF Demo!TargetPort, Demo!Droneports
<1>6. ASSUME inbox[e] # <<>>, q.action = "agro_mission_received",
             NEW to \in DemoEntities, NEW a \in FlightCalls,
             Demo!Call(e, to, a, q.args, None),
             OrderCall(City, e, to, a, q.args),
             a # "request_takeoff_permission" => q.args.mission \in approved,
             a \in {"sitl_simulate", "request_landing_permission"} => Dispatched(City, q.args)
      PROVE  LaunchInv("order")'
  <2>1. ASSUME NEW s, s.at = a, s.request = Handled(e)
        PROVE  Link(s, to, a, q.args) /\ OrderBusy(City, e, s)
    <3>1. s.request = q
      BY <1>2, <1>4, <2>1 DEF Handled
    <3>2. Link(s, to, a, q.args)
      BY <2>1, <3>1, <1>6 DEF Link, FlightCalls
    <3>3. OrderBusy(City, e, s)
      BY <1>5, <1>6, <2>1, <3>1, CityIs DEF OrderBusy
    <3> QED
      BY <3>2, <3>3
  <2>2. a \notin Idles
    BY <1>6 DEF FlightCalls, Idles
  <2> QED
    BY <1>1, <1>2, <1>6, <2>1, <2>2, OrderCalls
<1>7. ASSUME NEW a \in FlightCalls, Demo!Answered(e, "agro_mission_received", a)
      PROVE  /\ inbox[e] # <<>> /\ q.action = "agro_mission_received"
             /\ State(e).at = a /\ State(e).request = q
             /\ a # "request_takeoff_permission" => q.args.mission \in approved
             /\ a \in {"sitl_simulate", "request_landing_permission"} => Dispatched(City, q.args)
             /\ OrderAnswer(City, e, State(e), reply[e])
  <2>1. a \notin Idles
    BY <1>7 DEF FlightCalls, Idles
  <2>2. /\ inbox[e] # <<>> /\ q.action = "agro_mission_received"
        /\ State(e).at = a /\ State(e).request = q
        /\ OrderBusy(City, e, State(e)) /\ OrderAnswer(City, e, State(e), reply[e])
    BY <1>2, <1>4, <1>7, <2>1, OrderWaiter
  <2>3. /\ a # "request_takeoff_permission" => q.args.mission \in City.approved
        /\ a \in {"sitl_simulate", "request_landing_permission"} => Dispatched(City, q.args)
    BY <1>2, <1>7, <2>2 DEF OrderBusy, Main, FlightCalls
  <2> QED
    BY <2>2, <2>3, CityIs
<1>8. CASE /\ Demo!Asked(e, "agro_mission_received")
           /\ Demo!Call(e, "atm", "request_takeoff_permission", q.args, None)
  <2>1. inbox[e] # <<>> /\ q.action = "agro_mission_received"
    BY <1>4, <1>8 DEF Demo!Asked
  <2>2. "atm" \in DemoEntities /\ "request_takeoff_permission" \in FlightCalls
    BY DEF DemoEntities, FlightCalls
  <2>3. OrderCall(City, e, "atm", "request_takeoff_permission", q.args)
    BY DEF OrderCall, Called
  <2> QED
    BY <1>6, <1>8, <2>1, <2>2, <2>3
<1>9. CASE /\ Demo!Answered(e, "agro_mission_received", "request_takeoff_permission")
           /\ reply[e].ok /\ reply[e].of
           /\ Demo!Call(e, q.args.port, "check_droneport_ready", q.args, None)
  <2>1. "request_takeoff_permission" \in FlightCalls /\ "check_droneport_ready" \in FlightCalls
    BY DEF FlightCalls
  <2>2. /\ inbox[e] # <<>> /\ q.action = "agro_mission_received"
        /\ State(e).at = "request_takeoff_permission" /\ State(e).request = q
        /\ OrderAnswer(City, e, State(e), reply[e])
    BY <1>7, <1>9, <2>1
  <2>3. reply[e] # Demo!Ok(FALSE)
    BY <1>9, OkIs, Zenon
  <2>4. q.args.mission \in approved
    BY <2>2, <2>3, CityIs DEF OrderAnswer
  <2>5. q.args.port \in DemoEntities
    BY <1>5, <2>2, PortIs
  <2>6. OrderCall(City, e, q.args.port, "check_droneport_ready", q.args)
    BY <1>5, <2>2 DEF OrderCall
  <2> QED
    BY <1>6, <1>9, <2>1, <2>2, <2>4, <2>5, <2>6
<1>10. CASE /\ Demo!Answered(e, "agro_mission_received", "check_droneport_ready")
            /\ reply[e].ok /\ reply[e].of
            /\ Demo!Call(e, "sitl", "sitl_simulate", q.args, None)
  <2>1. "check_droneport_ready" \in FlightCalls /\ "sitl_simulate" \in FlightCalls
    BY DEF FlightCalls
  <2>2. /\ inbox[e] # <<>> /\ q.action = "agro_mission_received"
        /\ State(e).at = "check_droneport_ready" /\ State(e).request = q
        /\ q.args.mission \in approved /\ OrderAnswer(City, e, State(e), reply[e])
    BY <1>7, <1>10, <2>1
  <2>3. reply[e] # Demo!Ok(FALSE)
    BY <1>10, OkIs, Zenon
  <2>4. Dispatched(City, q.args)
    BY <2>2, <2>3 DEF OrderAnswer
  <2>5. "sitl" \in DemoEntities
    BY DEF DemoEntities
  <2>6. OrderCall(City, e, "sitl", "sitl_simulate", q.args)
    BY DEF OrderCall, Called
  <2> QED
    BY <1>6, <1>10, <2>1, <2>2, <2>4, <2>5, <2>6
<1>11. CASE /\ Demo!Answered(e, "agro_mission_received", "sitl_simulate")
            /\ Demo!Call(e, q.args.return_port, "request_landing_permission", q.args, None)
  <2>1. "sitl_simulate" \in FlightCalls /\ "request_landing_permission" \in FlightCalls
    BY DEF FlightCalls
  <2>2. /\ inbox[e] # <<>> /\ q.action = "agro_mission_received"
        /\ q.args.mission \in approved /\ Dispatched(City, q.args)
    BY <1>7, <1>11, <2>1
  <2>3. q.args.return_port \in DemoEntities
    BY <1>5, <2>2, PortIs
  <2>4. OrderCall(City, e, q.args.return_port, "request_landing_permission", q.args)
    BY <1>5, <2>2 DEF OrderCall
  <2> QED
    BY <1>6, <1>11, <2>1, <2>2, <2>3, <2>4
<1>12. CASE /\ Demo!Answered(e, "agro_mission_received", "request_landing_permission")
            /\ Demo!Respond(e, Demo!Ok(q.args))
  <2>1. "request_landing_permission" \in FlightCalls
    BY DEF FlightCalls
  <2>2. /\ inbox[e] # <<>> /\ q.action = "agro_mission_received"
        /\ State(e).at = "request_landing_permission" /\ State(e).request = q
        /\ OrderAnswer(City, e, State(e), reply[e])
    BY <1>7, <1>12, <2>1
  <2>3. q.args \in City.landed
    BY <2>2 DEF OrderAnswer
  <2>4. Flown(City, Demo!Ok(q.args))
    BY <2>3, OkIs DEF Flown
  <2>5. ASSUME NEW p, NEW s, s.at = "agro_mission_received"
        PROVE  OrderAnswer(City, p, s, Demo!Ok(q.args))
    BY <2>4, <2>5 DEF OrderAnswer
  <2> QED
    BY <1>1, <1>2, <1>4, <1>12, <2>2, <2>5, OrderResponds DEF Link
<1>13. CASE /\ \/ Demo!Answered(e, "agro_mission_received", "request_takeoff_permission")
               \/ Demo!Answered(e, "agro_mission_received", "check_droneport_ready")
            /\ Demo!Respond(e, Demo!Failed)
  <2>1. inbox[e] # <<>> /\ q.action = "agro_mission_received"
    BY <1>7, <1>13 DEF FlightCalls
  <2> QED
    BY <1>1, <1>2, <1>4, <1>13, <2>1, OrderFails
<1> QED
  BY <1>4, <1>8, <1>9, <1>10, <1>11, <1>12, <1>13 DEF Demo!AgroMission
-----------------------------------------------------------------------------
(* The onboarding: handlers that answer at once.                             *)

LEMMA OnboardingRequest ==
    ASSUME LaunchInv("onboarding"), NEW e \in DemoEntities, inbox[e] # <<>>,
           NEW a, Demo!Request(e).action = a, a # "__stop__"
    PROVE  OnboardingCall(City, Demo!Request(e).from, e, a, Demo!Request(e).args)
<1>1. "onboarding" \in Scenarios /\ "onboarding" # "order"
  BY DEF Scenarios
<1> QED
  BY <1>1, RequestIs DEF Fits

LEMMA OnboardingGrows ==
    ASSUME LaunchInv("onboarding"), NEW e \in DemoEntities, inbox[e] # <<>>,
           NEW q, q = Demo!Request(e), q.action # "__stop__", NEW v, Demo!Respond(e, v),
           registry \subseteq registry', ParkOK(park'), dispatched' = dispatched,
           \A i \in DOMAIN park[Demo!TargetPort] : \E j \in DOMAIN park'[Demo!TargetPort] :
               park'[Demo!TargetPort][j] = park[Demo!TargetPort][i],
           saved' = saved,
           \A s : Link(s, e, q.action, q.args) => OnboardingAnswer(City', q.from, s, v)
    PROVE  LaunchInv("onboarding")'
<1>0. "onboarding" \in Scenarios /\ "onboarding" # "order"
  BY DEF Scenarios
<1>1. Grown("onboarding", City, City')
  <2>1. City'.park = park' /\ City'.registry = registry'
    BY DEF City
  <2> QED
    BY <1>0, <2>1, CityIs, Zenon DEF Grown
<1>2. DOMAIN dispatched' = Demo!Droneports
  BY DEF LaunchInv, TypesInv
<1>3. q # Demo!Stop
  BY DEF Demo!Stop
<1>4. \A s : Link(s, e, q.action, q.args) => Answer("onboarding", City', q.from, s, v)
  BY <1>0 DEF Answer
<1> QED
  BY <1>0, <1>1, <1>2, <1>3, <1>4, RespondKeeps

LEMMA OnboardingResponds ==
    ASSUME LaunchInv("onboarding"), NEW e \in DemoEntities, inbox[e] # <<>>,
           NEW a, Demo!Request(e).action = a, a # "__stop__", NEW v, Demo!Respond(e, v),
           Demo!cityVars' = Demo!cityVars, saved' = saved,
           \A s : Link(s, e, a, Demo!Request(e).args) =>
                      OnboardingAnswer(City, Demo!Request(e).from, s, v)
    PROVE  LaunchInv("onboarding")'
<1>1. "onboarding" \in Scenarios /\ "onboarding" # "order"
  BY DEF Scenarios
<1> QED
  BY <1>1, RespondsInPlace DEF Answer

LEMMA RegulatorKeeps ==
    ASSUME LaunchInv("onboarding"), saved' = saved,
           Demo!FirmwareCert \/ Demo!UasRegistration
    PROVE  LaunchInv("onboarding")'
<1>1. PICK q : q = Demo!Request("regulator")
  OBVIOUS
<1>2. "regulator" \in DemoEntities
  BY DEF DemoEntities
<1>3. CASE Demo!FirmwareCert
  <2>1. /\ inbox["regulator"] # <<>> /\ q.action = "request_firmware_certification"
        /\ Demo!Respond("regulator", Demo!Ok("approved")) /\ Demo!cityVars' = Demo!cityVars
    BY <1>1, <1>3 DEF Demo!FirmwareCert, Demo!Leaf, Demo!Asked, Demo!cityVars
  <2>2. ASSUME NEW s, s.at = "request_firmware_certification"
        PROVE  OnboardingAnswer(City, q.from, s, Demo!Ok("approved"))
    BY <2>2 DEF OnboardingAnswer
  <2> QED
    BY <1>1, <1>2, <2>1, <2>2, OnboardingResponds DEF Link
<1>4. CASE Demo!UasRegistration
  <2>1. PICK n : n = counter + 1
    OBVIOUS
  <2>2. /\ inbox["regulator"] # <<>> /\ q.action = "request_uas_registration"
        /\ Demo!Respond("regulator", Demo!Ok(n)) /\ registry' = registry \cup {n}
        /\ park' = park /\ dispatched' = dispatched
    BY <1>1, <1>4, <2>1 DEF Demo!UasRegistration, Demo!Leaf, Demo!Asked
  <2>3. n \in City'.registry
    BY <2>2 DEF City
  <2>4. ASSUME NEW s, s.at = "request_uas_registration"
        PROVE  OnboardingAnswer(City', q.from, s, Demo!Ok(n))
    BY <2>3, <2>4, OkIs DEF OnboardingAnswer
  <2>5. \A s : Link(s, "regulator", q.action, q.args) =>
                   OnboardingAnswer(City', q.from, s, Demo!Ok(n))
    BY <2>2, <2>4 DEF Link
  <2>6. ParkOK(park') /\ registry \subseteq registry'
    BY <2>2 DEF LaunchInv, TypesInv
  <2>7. \A i \in DOMAIN park[Demo!TargetPort] : \E j \in DOMAIN park'[Demo!TargetPort] :
            park'[Demo!TargetPort][j] = park[Demo!TargetPort][i]
    BY <2>2, Zenon
  <2> QED
    BY <1>1, <1>2, <2>2, <2>5, <2>6, <2>7, OnboardingGrows
<1> QED
  BY <1>3, <1>4

LEMMA AssignUasKeeps ==
    ASSUME LaunchInv("onboarding"), saved' = saved, NEW p \in Demo!Droneports, Demo!AssignUas(p)
    PROVE  LaunchInv("onboarding")'
<1>1. PICK q : q = Demo!Request(p)
  OBVIOUS
<1>2. p \in DemoEntities /\ p \notin Demo!Operators /\ p # "vendor_uas" /\ p # "regulator"
  BY PortIs DEF Demo!Droneports, Demo!Operators
<1>3. PICK v : v = Demo!Ok(Len(q.args))
  OBVIOUS
<1>4. /\ inbox[p] # <<>> /\ q.action = "assign_uas_to_droneport" /\ Demo!Respond(p, v)
      /\ park' = [park EXCEPT ![p] = @ \o q.args]
      /\ registry' = registry /\ dispatched' = dispatched
  BY <1>1, <1>3 DEF Demo!AssignUas, Demo!Leaf, Demo!Asked
<1>5. OnboardingCall(City, q.from, p, "assign_uas_to_droneport", q.args)
  BY <1>1, <1>2, <1>4, OnboardingRequest
<1>6. p = Demo!TargetPort /\ AreItems(City, q.args)
  BY <1>5 DEF OnboardingCall, Called
<1>7. PICK x : x = q.args
  OBVIOUS
<1>8. IsSeq(x) /\ \A i \in DOMAIN x : x[i].cost \in Int
  BY <1>6, <1>7 DEF AreItems
<1>9. ParkOK(park)
  BY DEF LaunchInv, TypesInv
<1> DEFINE old == park[p]
           new == park[p] \o x
<1>10. IsSeq(old) /\ \A i \in DOMAIN old : old[i].cost \in Int
  BY <1>9 DEF ParkOK
<1>11. DOMAIN park = Demo!Droneports
  BY <1>9 DEF ParkOK
<1>12. /\ DOMAIN park' = Demo!Droneports /\ park'[p] = new
       /\ \A r \in Demo!Droneports \ {p} : park'[r] = park[r]
  BY <1>4, <1>7, <1>11
<1> HIDE DEF old
<1>13. /\ IsSeq(old \o x)
       /\ old = <<>> => old \o x = x
       /\ \A i \in DOMAIN old : i \in DOMAIN (old \o x) /\ (old \o x)[i] = old[i]
       /\ \A i \in DOMAIN x : Len(old) + i \in DOMAIN (old \o x) /\ (old \o x)[Len(old) + i] = x[i]
       /\ \A i \in DOMAIN (old \o x) :
             \/ i \in DOMAIN old /\ (old \o x)[i] = old[i]
             \/ i - Len(old) \in DOMAIN x /\ (old \o x)[i] = x[i - Len(old)]
  <2> HIDE DEF IsSeq
  <2> QED
    BY <1>8, <1>10, ConcatFacts, Zenon
<1>14. new = old \o x
  BY DEF old
<1> HIDE DEF new
<1>15. IsSeq(new) /\ \A i \in DOMAIN new : new[i].cost \in Int
  BY <1>8, <1>10, <1>13, <1>14
<1>16. ParkOK(park')
  <2>1. ASSUME NEW r \in Demo!Droneports
        PROVE  IsSeq(park'[r]) /\ \A i \in DOMAIN park'[r] : park'[r][i].cost \in Int
    <3>1. CASE r = p
      BY <1>12, <1>15, <3>1
    <3>2. CASE r # p
      BY <1>9, <1>12, <3>2 DEF ParkOK
    <3> QED
      BY <3>1, <3>2
  <2> QED
    BY <1>12, <2>1 DEF ParkOK
<1>17. \A i \in DOMAIN park[Demo!TargetPort] : \E j \in DOMAIN park'[Demo!TargetPort] :
           park'[Demo!TargetPort][j] = park[Demo!TargetPort][i]
  BY <1>6, <1>12, <1>13, <1>14 DEF old
<1>18. InPark(City', x)
  <2>1. City'.park = park'
    BY DEF City
  <2>2. \A i \in DOMAIN x : \E j \in DOMAIN new : new[j] = x[i]
    BY <1>13, <1>14
  <2> QED
    BY <1>6, <1>12, <2>1, <2>2 DEF InPark
<1>19. ASSUME NEW s, s.at = "assign_uas_to_droneport", x = s.locals
       PROVE  OnboardingAnswer(City', q.from, s, v)
  BY <1>18, <1>19 DEF OnboardingAnswer
<1>20. \A s : Link(s, p, q.action, q.args) => OnboardingAnswer(City', q.from, s, v)
  BY <1>4, <1>7, <1>19 DEF Link
<1>21. registry \subseteq registry'
  BY <1>4
<1> QED
  BY <1>1, <1>2, <1>4, <1>16, <1>17, <1>20, <1>21, OnboardingGrows
-----------------------------------------------------------------------------
(* The onboarding: handlers that call others.                                *)

LEMMA OnboardingCalls ==
    ASSUME LaunchInv("onboarding"), NEW p \in Procs, NEW to \in DemoEntities, NEW a, NEW x, NEW l,
           p # Main => inbox[p] # <<>>, a \notin Idles,
           Demo!Call(p, to, a, x, l), Demo!cityVars' = Demo!cityVars, saved' = saved,
           OnboardingCall(City, p, to, a, x),
           \A s : s.at = a /\ s.locals = l /\ s.request = Handled(p) =>
                      Link(s, to, a, x) /\ OnboardingBusy(City, p, s)
    PROVE  LaunchInv("onboarding")'
<1> DEFINE s == [at |-> a, locals |-> l, request |-> Handled(p)]
<1>0. "onboarding" \in Scenarios /\ "onboarding" # "order"
  BY DEF Scenarios
<1>1. s.at = a /\ s.locals = l /\ s.request = Handled(p)
  OBVIOUS
<1>2. Link(s, to, a, x) /\ OnboardingBusy(City, p, s)
  BY <1>1
<1>3. Fits("onboarding", City, p, to, a, x) /\ Busy("onboarding", City, p, s)
  BY <1>0, <1>2 DEF Fits, Busy
<1> QED
  BY <1>0, <1>2, <1>3, CallKeeps

LEMMA OnboardingWaiter ==
    ASSUME LaunchInv("onboarding"), NEW p \in DemoEntities, NEW b, NEW a, Demo!Answered(p, b, a),
           a \notin Idles, b # "__stop__"
    PROVE  /\ inbox[p] # <<>> /\ Demo!Request(p).action = b /\ State(p).at = a
           /\ State(p).locals = locals[p] /\ State(p).request = Demo!Request(p)
           /\ Handled(p) = Demo!Request(p)
           /\ OnboardingBusy(City, p, State(p)) /\ OnboardingAnswer(City, p, State(p), reply[p])
           /\ OnboardingCall(City, Demo!Request(p).from, p, b, Demo!Request(p).args)
<1>1. at[p] = a /\ reply[p] # None /\ Demo!Request(p).action = b
  BY DEF Demo!Answered
<1>2. p \in Procs /\ p # Main /\ "onboarding" \in Scenarios /\ "onboarding" # "order"
  BY ProcsAre DEF Scenarios
<1>3. /\ inbox[p] # <<>> /\ Busy("onboarding", City, p, State(p))
      /\ Answer("onboarding", City, p, State(p), reply[p])
  BY <1>1, <1>2, WaiterIs
<1>4. OnboardingCall(City, Demo!Request(p).from, p, b, Demo!Request(p).args)
  BY <1>1, <1>3, OnboardingRequest
<1> QED
  BY <1>1, <1>2, <1>3, <1>4, StateIs DEF Busy, Answer, Handled

LEMMA ForwardsKeeps ==
    ASSUME LaunchInv("onboarding"), saved' = saved,
           NEW a \in {"request_firmware_certification", "request_uas_registration"},
           Demo!VendorForwards(a)
    PROVE  LaunchInv("onboarding")'
<1> DEFINE e == "vendor_uas"
<1>1. Demo!cityVars' = Demo!cityVars
  BY DEF Demo!VendorForwards, Demo!cityVars
<1>2. e \in DemoEntities /\ e \in Procs /\ e # Main /\ "regulator" \in DemoEntities
  BY ProcsAre DEF DemoEntities, Main
<1>3. a \notin Idles /\ a # "__stop__"
  BY DEF Idles
<1>4. CASE Demo!Asked(e, a) /\ Demo!Call(e, "regulator", a, None, None)
  <2>1. inbox[e] # <<>> /\ Demo!Request(e).action = a
    BY <1>4 DEF Demo!Asked
  <2>2. OnboardingCall(City, e, "regulator", a, None)
    BY DEF OnboardingCall, Called
  <2>3. ASSUME NEW s, s.at = a, s.request = Handled(e)
        PROVE  Link(s, "regulator", a, None) /\ OnboardingBusy(City, e, s)
    BY <1>2, <2>1, <2>3 DEF Link, FlightCalls, OnboardingBusy, Handled
  <2> QED
    BY <1>1, <1>2, <1>3, <1>4, <2>1, <2>2, <2>3, OnboardingCalls
<1>5. CASE Demo!Answered(e, a, a) /\ Demo!Respond(e, reply[e])
  <2>1. /\ inbox[e] # <<>> /\ Demo!Request(e).action = a /\ State(e).at = a
        /\ OnboardingAnswer(City, e, State(e), reply[e])
    BY <1>2, <1>3, <1>5, OnboardingWaiter
  <2>2. ASSUME NEW p, NEW s, s.at = a
        PROVE  OnboardingAnswer(City, p, s, reply[e])
    BY <2>1, <2>2 DEF OnboardingAnswer
  <2> QED
    BY <1>1, <1>2, <1>3, <1>5, <2>1, <2>2, OnboardingResponds DEF Link
<1> QED
  BY <1>4, <1>5 DEF Demo!VendorForwards

\* No caller of the onboarding takes an error for more than that.
LEMMA PurchaseFails ==
    ASSUME LaunchInv("onboarding"), NEW e \in DemoEntities, inbox[e] # <<>>,
           Demo!Request(e).action = "request_uas_purchase",
           Demo!Respond(e, Demo!Failed), Demo!cityVars' = Demo!cityVars, saved' = saved
    PROVE  LaunchInv("onboarding")'
<1>1. ASSUME NEW p, NEW s, s.at = "request_uas_purchase"
      PROVE  OnboardingAnswer(City, p, s, Demo!Failed)
  BY <1>1 DEF OnboardingAnswer
<1> QED
  BY <1>1, OnboardingResponds DEF Link

LEMMA Registers ==
    ASSUME LaunchInv("onboarding"), saved' = saved, Demo!cityVars' = Demo!cityVars,
           inbox["vendor_uas"] # <<>>, Demo!Request("vendor_uas").action = "request_uas_purchase",
           NEW numbers, AreNumbers(City, numbers),
           Demo!Call("vendor_uas", "regulator", "request_uas_registration", None, numbers)
    PROVE  LaunchInv("onboarding")'
<1> DEFINE e == "vendor_uas"
<1>1. e \in DemoEntities /\ e \in Procs /\ e # Main /\ "regulator" \in DemoEntities
  BY ProcsAre DEF DemoEntities, Main
<1>2. OnboardingCall(City, e, "regulator", "request_uas_registration", None)
  BY DEF OnboardingCall, Called
<1>3. ASSUME NEW s, s.at = "request_uas_registration", s.locals = numbers, s.request = Handled(e)
      PROVE  Link(s, "regulator", "request_uas_registration", None) /\ OnboardingBusy(City, e, s)
  BY <1>1, <1>3 DEF Link, FlightCalls, OnboardingBusy, Handled
<1> QED
  BY <1>1, <1>2, <1>3, OnboardingCalls DEF Idles

LEMMA VendorPurchaseKeeps ==
    ASSUME LaunchInv("onboarding"), saved' = saved, Demo!VendorPurchase
    PROVE  LaunchInv("onboarding")'
<1> DEFINE e == "vendor_uas"
           Register(numbers) == Demo!Call(e, "regulator", "request_uas_registration", None, numbers)
<1>1. Demo!cityVars' = Demo!cityVars
  BY DEF Demo!VendorPurchase, Demo!cityVars
<1>2. e \in DemoEntities /\ e \in Procs /\ e # Main /\ e \notin Demo!Operators
  BY ProcsAre DEF DemoEntities, Main, Demo!Operators
<1>3. CASE Demo!Asked(e, "request_uas_purchase") /\ Register(<<>>)
  <2>1. inbox[e] # <<>> /\ Demo!Request(e).action = "request_uas_purchase"
    BY <1>3 DEF Demo!Asked
  <2>2. PICK none : none = <<>>
    OBVIOUS
  <2>3. AreNumbers(City, none)
    BY <2>2, EmptyIsSeq DEF AreNumbers
  <2>4. Register(none)
    BY <1>3, <2>2
  <2> QED
    BY <1>1, <2>1, <2>3, <2>4, Registers
<1>4. PICK numbers : numbers = Append(locals[e], reply[e].of)
  OBVIOUS
<1>5. CASE /\ Demo!Answered(e, "request_uas_purchase", "request_uas_registration")
           /\ \/ ~reply[e].ok /\ Demo!Respond(e, Demo!Failed)
              \/ reply[e].ok /\ (Register(numbers) \/ Demo!Respond(e, Demo!Ok(numbers)))
  <2>1. /\ inbox[e] # <<>> /\ Demo!Request(e).action = "request_uas_purchase"
        /\ State(e).at = "request_uas_registration" /\ State(e).locals = locals[e]
        /\ State(e).request = Demo!Request(e)
        /\ OnboardingBusy(City, e, State(e)) /\ OnboardingAnswer(City, e, State(e), reply[e])
        /\ OnboardingCall(City, Demo!Request(e).from, e, "request_uas_purchase",
                          Demo!Request(e).args)
    BY <1>2, <1>5, OnboardingWaiter DEF Idles
  <2>2. AreNumbers(City, locals[e])
    BY <1>2, <2>1 DEF OnboardingBusy, Main
  <2>3. CASE ~reply[e].ok
    BY <1>1, <1>2, <1>5, <2>1, <2>3, PurchaseFails
  <2>4. CASE reply[e].ok
    <3>1. reply[e].of \in City.registry
      BY <2>1, <2>4 DEF OnboardingAnswer, Demo!Failed
    <3>2. AreNumbers(City, numbers)
      <4>1. IsSeq(locals[e]) /\ \A i \in DOMAIN locals[e] : locals[e][i] \in City.registry
        BY <2>2 DEF AreNumbers
      <4>2. IsSeq(numbers) /\ \A i \in DOMAIN numbers : numbers[i] \in City.registry
        BY <1>4, <3>1, <4>1, AppendFacts
      <4> QED
        BY <4>2 DEF AreNumbers
    <3>3. CASE Register(numbers)
      BY <1>1, <2>1, <3>2, <3>3, Registers
    <3>4. CASE Demo!Respond(e, Demo!Ok(numbers))
      <4>1. Demo!Request(e).from # Main
        BY <1>2, <2>1 DEF OnboardingCall, Called, Main, Demo!Operators
      <4>2. ASSUME NEW s, s.at = "request_uas_purchase"
            PROVE  OnboardingAnswer(City, Demo!Request(e).from, s, Demo!Ok(numbers))
        BY <3>2, <4>1, <4>2, OkIs DEF OnboardingAnswer
      <4> QED
        BY <1>1, <1>2, <2>1, <3>4, <4>2, OnboardingResponds DEF Link
    <3> QED
      BY <1>5, <2>4, <3>3, <3>4
  <2> QED
    BY <2>3, <2>4
<1> QED
  BY <1>3, <1>4, <1>5 DEF Demo!VendorPurchase

LEMMA OperatorPurchaseKeeps ==
    ASSUME LaunchInv("onboarding"), saved' = saved, NEW e \in Demo!Operators,
           Demo!OperatorPurchase(e)
    PROVE  LaunchInv("onboarding")'
<1>1. Demo!cityVars' = Demo!cityVars
  BY DEF Demo!OperatorPurchase, Demo!cityVars
<1>2. /\ e \in DemoEntities /\ e \in Procs /\ e # Main /\ e # "vendor_uas" /\ e # "regulator"
      /\ e # Demo!TargetPort
  BY OperatorIs DEF Demo!Operators, Demo!TargetPort
<1>3. CASE /\ Demo!Asked(e, "request_uas_purchase")
           /\ Demo!Call(e, "vendor_uas", "request_uas_purchase", None, None)
  <2>1. inbox[e] # <<>> /\ Demo!Request(e).action = "request_uas_purchase"
    BY <1>3 DEF Demo!Asked
  <2>2. "vendor_uas" \in DemoEntities
    BY DEF DemoEntities
  <2>3. OnboardingCall(City, e, "vendor_uas", "request_uas_purchase", None)
    BY DEF OnboardingCall
  <2>4. ASSUME NEW s, s.at = "request_uas_purchase", s.request = Handled(e)
        PROVE  Link(s, "vendor_uas", "request_uas_purchase", None) /\ OnboardingBusy(City, e, s)
    BY <1>2, <2>1, <2>4 DEF Link, FlightCalls, OnboardingBusy, Handled
  <2> QED
    BY <1>1, <1>2, <1>3, <2>1, <2>2, <2>3, <2>4, OnboardingCalls DEF Idles
<1>4. ASSUME NEW a \in {"request_uas_purchase", "assign_uas_to_droneport"},
             Demo!Answered(e, "request_uas_purchase", a)
      PROVE  /\ inbox[e] # <<>> /\ Demo!Request(e).action = "request_uas_purchase"
             /\ State(e).at = a /\ State(e).locals = locals[e]
             /\ Handled(e) = Demo!Request(e) /\ State(e).request = Demo!Request(e)
             /\ OnboardingBusy(City, e, State(e)) /\ OnboardingAnswer(City, e, State(e), reply[e])
             /\ Demo!Request(e).from = Main
  <2>1. a \notin Idles
    BY <1>4 DEF Idles
  <2>2. OnboardingCall(City, Demo!Request(e).from, e, "request_uas_purchase",
                       Demo!Request(e).args)
    BY <1>2, <1>4, <2>1, OnboardingWaiter
  <2>3. Demo!Request(e).from = Main
    BY <1>2, <2>2 DEF OnboardingCall, Called
  <2> QED
    BY <1>2, <1>4, <2>1, <2>3, OnboardingWaiter
<1> DEFINE items == [i \in DOMAIN reply[e].of |-> Demo!Uas("agro-model-new", reply[e].of[i], 9800)]
<1>5. CASE /\ Demo!Answered(e, "request_uas_purchase", "request_uas_purchase") /\ reply[e].ok
           /\ Demo!Call(e, Demo!TargetPort, "assign_uas_to_droneport", items, items)
  <2>1. PICK numbers : numbers = reply[e].of
    OBVIOUS
  <2>2. /\ inbox[e] # <<>> /\ Demo!Request(e).action = "request_uas_purchase"
        /\ State(e).at = "request_uas_purchase" /\ Handled(e) = Demo!Request(e)
        /\ OnboardingAnswer(City, e, State(e), reply[e])
    BY <1>4, <1>5
  <2>3. AreNumbers(City, numbers)
    BY <1>2, <1>5, <2>1, <2>2 DEF OnboardingAnswer, Demo!Failed
  <2>4. AreItems(City, items)
    <3>1. /\ IsSeq(numbers) /\ Len(numbers) \in Nat /\ DOMAIN numbers = 1 .. Len(numbers)
          /\ \A i \in DOMAIN numbers : numbers[i] \in City.registry
      BY <2>3, SeqFacts DEF AreNumbers
    <3>2. /\ DOMAIN items = 1 .. Len(numbers)
          /\ \A i \in 1 .. Len(numbers) : items[i].number = numbers[i] /\ items[i].cost = 9800
      BY <2>1, <3>1 DEF Demo!Uas
    <3> DEFINE T == {items[i] : i \in 1 .. Len(numbers)}
    <3>3. items \in [1 .. Len(numbers) -> T]
      BY <3>1, <2>1
    <3> HIDE DEF items
    <3>4. items \in Seq(T)
      <4> HIDE DEF T
      <4> QED
        BY <3>1, <3>3, SeqDef
    <3>5. IsSeq(items)
      BY <3>4, SeqOfAny
    <3> QED
      BY <3>1, <3>2, <3>5 DEF AreItems
  <2> HIDE DEF items
  <2>5. PICK x : x = items
    OBVIOUS
  <2>6. Demo!TargetPort \in DemoEntities
    BY PortIs DEF Demo!TargetPort, Demo!Droneports
  <2>7. OnboardingCall(City, e, Demo!TargetPort, "assign_uas_to_droneport", x)
    BY <2>4, <2>5 DEF OnboardingCall
  <2>8. ASSUME NEW s, s.at = "assign_uas_to_droneport", s.locals = x, s.request = Handled(e)
        PROVE  /\ Link(s, Demo!TargetPort, "assign_uas_to_droneport", x)
               /\ OnboardingBusy(City, e, s)
    BY <2>2, <2>4, <2>5, <2>8 DEF Link, FlightCalls, OnboardingBusy
  <2>9. Demo!Call(e, Demo!TargetPort, "assign_uas_to_droneport", x, x)
    BY <1>5, <2>5
  <2> QED
    BY <1>1, <1>2, <2>2, <2>6, <2>7, <2>8, <2>9, OnboardingCalls DEF Idles
<1>6. CASE /\ Demo!Answered(e, "request_uas_purchase", "request_uas_purchase")
           /\ Demo!Respond(e, Demo!Failed)
  <2>1. inbox[e] # <<>> /\ Demo!Request(e).action = "request_uas_purchase"
    BY <1>4, <1>6
  <2> QED
    BY <1>1, <1>2, <1>6, <2>1, PurchaseFails
<1>7. CASE /\ Demo!Answered(e, "request_uas_purchase", "assign_uas_to_droneport")
           /\ Demo!Respond(e, Demo!Ok(locals[e]))
  <2>1. /\ inbox[e] # <<>> /\ Demo!Request(e).action = "request_uas_purchase"
        /\ State(e).at = "assign_uas_to_droneport" /\ State(e).locals = locals[e]
        /\ OnboardingBusy(City, e, State(e)) /\ OnboardingAnswer(City, e, State(e), reply[e])
        /\ Demo!Request(e).from = Main
    BY <1>4, <1>7
  <2>2. AreItems(City, locals[e]) /\ InPark(City, locals[e])
    BY <1>2, <2>1 DEF OnboardingBusy, OnboardingAnswer
  <2>3. ASSUME NEW s, s.at = "request_uas_purchase"
        PROVE  OnboardingAnswer(City, Main, s, Demo!Ok(locals[e]))
    BY <2>2, <2>3, OkIs DEF OnboardingAnswer
  <2> QED
    BY <1>1, <1>2, <1>7, <2>1, <2>3, OnboardingResponds DEF Link
<1> QED
  BY <1>3, <1>5, <1>6, <1>7 DEF Demo!OperatorPurchase
-----------------------------------------------------------------------------
(* A step of an entity.                                                      *)

PurchaseActions == {"request_firmware_certification", "request_uas_registration",
                    "request_uas_purchase", "assign_uas_to_droneport"}

OrderActions == {"request_insurance_quote", "mission_planning", "sitl_simulate",
                 "validate_mission", "request_takeoff_permission", "get_available_uas",
                 "prepare_dispatch", "check_droneport_ready", "request_landing_permission",
                 "place_order", "receive_order", "proposal_request", "assign_order",
                 "agro_mission_received"}

\* Nobody is at work on an order during the onboarding, and the other way round.
LEMMA NoPurchase ==
    ASSUME LaunchInv("order"), NEW e \in DemoEntities, NEW a \in PurchaseActions
    PROVE  ~Demo!Asked(e, a) /\ \A b \in PurchaseActions : ~Demo!Answered(e, a, b)
<1>1. a # "__stop__" /\ \A b \in PurchaseActions : b \notin Idles
  BY DEF PurchaseActions, Idles
<1>2. \A c, p, x : ~OrderCall(c, p, e, a, x)
  BY DEF OrderCall, Called, PurchaseActions
<1>3. ~Demo!Asked(e, a)
  BY <1>1, <1>2, OrderRequest DEF Demo!Asked
<1>4. \A b \in PurchaseActions : ~Demo!Answered(e, a, b)
  BY <1>1, <1>2, OrderWaiter
<1> QED
  BY <1>3, <1>4

LEMMA NoOrder ==
    ASSUME LaunchInv("onboarding"), NEW e \in DemoEntities, NEW a \in OrderActions
    PROVE  ~Demo!Asked(e, a) /\ \A b \in OrderActions : ~Demo!Answered(e, a, b)
<1>1. a # "__stop__" /\ \A b \in OrderActions : b \notin Idles
  BY DEF OrderActions, Idles
<1>2. \A c, p, x : ~OnboardingCall(c, p, e, a, x)
  BY DEF OnboardingCall, Called, OrderActions
<1>3. ~Demo!Asked(e, a)
  BY <1>1, <1>2, OnboardingRequest DEF Demo!Asked
<1>4. \A b \in OrderActions : ~Demo!Answered(e, a, b)
  BY <1>1, <1>2, OnboardingWaiter
<1> QED
  BY <1>3, <1>4

LEMMA OrderHandles ==
    ASSUME LaunchInv("order"), saved' = saved, NEW e \in DemoEntities, Demo!Handles(e)
    PROVE  LaunchInv("order")'
<1>1. /\ {"vendor_uas", "regulator"} \subseteq DemoEntities
      /\ \A a \in PurchaseActions : \A f \in DemoEntities :
            ~Demo!Asked(f, a) /\ \A b \in PurchaseActions : ~Demo!Answered(f, a, b)
  BY NoPurchase DEF DemoEntities
<1>2. ~Demo!FirmwareCert /\ ~Demo!UasRegistration
  BY <1>1 DEF Demo!FirmwareCert, Demo!UasRegistration, Demo!Leaf, PurchaseActions
<1>3. ~Demo!AssignUas(e)
  BY <1>1 DEF Demo!AssignUas, Demo!Leaf, PurchaseActions
<1>4. /\ ~Demo!VendorForwards("request_firmware_certification")
      /\ ~Demo!VendorForwards("request_uas_registration")
  BY <1>1 DEF Demo!VendorForwards, PurchaseActions
<1>5. ~Demo!VendorPurchase
  BY <1>1 DEF Demo!VendorPurchase, PurchaseActions
<1>6. ~Demo!OperatorPurchase(e)
  BY <1>1 DEF Demo!OperatorPurchase, PurchaseActions
<1>7. CASE Demo!InsuranceQuote \/ Demo!SitlSimulate
  BY <1>7, OrderLeaves
<1>8. CASE Demo!MissionPlanning
  BY <1>8, MissionPlanningKeeps
<1>9. CASE Demo!ValidateMission \/ Demo!TakeoffPermission
  BY <1>9, AtmKeeps
<1>10. CASE /\ e \in Demo!Droneports
            /\ \/ Demo!GetAvailableUas(e) \/ Demo!PrepareDispatch(e) \/ Demo!CheckReady(e)
               \/ Demo!LandingPermission(e)
  BY <1>10, PortKeeps
<1>11. CASE Demo!PlaceOrder
  BY <1>11, PlaceOrderKeeps
<1>12. CASE Demo!ReceiveOrder
  BY <1>12, ReceiveOrderKeeps
<1>13. CASE e \in Demo!Operators /\ Demo!ProposalRequest(e)
  BY <1>13, ProposalKeeps
<1>14. CASE e \in Demo!Operators /\ Demo!AssignOrder(e)
  BY <1>14, AssignOrderKeeps
<1>15. CASE Demo!AgroMission
  BY <1>15, AgroMissionKeeps
<1> QED
  BY <1>2, <1>3, <1>4, <1>5, <1>6, <1>7, <1>8, <1>9, <1>10, <1>11, <1>12, <1>13, <1>14, <1>15
     DEF Demo!Handles

LEMMA OnboardingHandles ==
    ASSUME LaunchInv("onboarding"), saved' = saved, NEW e \in DemoEntities, Demo!Handles(e)
    PROVE  LaunchInv("onboarding")'
<1>1. /\ {"insurer", "gcs", "sitl", "atm", "customer", "aggregator", "agro_drone"}
            \subseteq DemoEntities
      /\ \A a \in OrderActions : \A f \in DemoEntities :
            ~Demo!Asked(f, a) /\ \A b \in OrderActions : ~Demo!Answered(f, a, b)
  BY NoOrder DEF DemoEntities
<1>2. /\ ~Demo!InsuranceQuote /\ ~Demo!SitlSimulate /\ ~Demo!MissionPlanning
      /\ ~Demo!ValidateMission /\ ~Demo!TakeoffPermission
  BY <1>1 DEF Demo!InsuranceQuote, Demo!SitlSimulate, Demo!MissionPlanning,
              Demo!ValidateMission, Demo!TakeoffPermission, Demo!Leaf, OrderActions
<1>3. /\ ~Demo!GetAvailableUas(e) /\ ~Demo!PrepareDispatch(e) /\ ~Demo!CheckReady(e)
      /\ ~Demo!LandingPermission(e)
  BY <1>1 DEF Demo!GetAvailableUas, Demo!PrepareDispatch, Demo!CheckReady,
              Demo!LandingPermission, Demo!Leaf, OrderActions
<1>4. ~Demo!PlaceOrder
  BY <1>1 DEF Demo!PlaceOrder, OrderActions
<1>5. ~Demo!ReceiveOrder
  BY <1>1 DEF Demo!ReceiveOrder, OrderActions
<1>6. ~Demo!ProposalRequest(e)
  BY <1>1 DEF Demo!ProposalRequest, OrderActions
<1>7. ~Demo!AssignOrder(e)
  BY <1>1 DEF Demo!AssignOrder, OrderActions
<1>8. ~Demo!AgroMission
  BY <1>1 DEF Demo!AgroMission, OrderActions
<1>9. CASE Demo!FirmwareCert \/ Demo!UasRegistration
  BY <1>9, RegulatorKeeps
<1>10. CASE e \in Demo!Droneports /\ Demo!AssignUas(e)
  BY <1>10, AssignUasKeeps
<1>11. CASE \/ Demo!VendorForwards("request_firmware_certification")
            \/ Demo!VendorForwards("request_uas_registration")
  BY <1>11, ForwardsKeeps
<1>12. CASE Demo!VendorPurchase
  BY <1>12, VendorPurchaseKeeps
<1>13. CASE e \in Demo!Operators /\ Demo!OperatorPurchase(e)
  BY <1>13, OperatorPurchaseKeeps
<1> QED
  BY <1>2, <1>3, <1>4, <1>5, <1>6, <1>7, <1>8, <1>9, <1>10, <1>11, <1>12, <1>13
     DEF Demo!Handles

LEMMA EntityKeeps ==
    ASSUME NEW sc \in Scenarios, LaunchInv(sc), NEW e \in DemoEntities, Demo!EntityStep(e)
    PROVE  LaunchInv(sc)'
<1>1. saved' = saved
  BY DEF Demo!EntityStep
<1>2. CASE Demo!Handles(e)
  BY <1>1, <1>2, OrderHandles, OnboardingHandles DEF Scenarios
<1>3. CASE (Demo!GiveUp(e) \/ Demo!TakeStop(e)) /\ Demo!cityVars' = Demo!cityVars
  BY <1>1, <1>3, GiveUpKeeps, TakeStopKeeps
<1> QED
  BY <1>2, <1>3 DEF Demo!EntityStep
-----------------------------------------------------------------------------
(* A step of the orchestrator.                                               *)

\* What the orchestrator waits for tells which scenario it runs.
LEMMA MainWaits ==
    ASSUME NEW sc \in Scenarios, LaunchInv(sc), NEW a, Demo!MainAnswered(a), a \notin Idles
    PROVE  /\ State(Main).at = a /\ State(Main).locals = locals[Main]
           /\ sc = "order" =>
                 a = "place_order" /\ OrderAnswer(City, Main, State(Main), reply[Main])
           /\ sc = "onboarding" =>
                 /\ a # "place_order"
                 /\ OnboardingAnswer(City, Main, State(Main), reply[Main])
                 /\ a = "request_uas_purchase" => locals[Main].registered \in registry
<1>1. at[Main] = a /\ reply[Main] # None
  BY DEF Demo!MainAnswered, Demo!Main, Main
<1>2. Main \in Procs
  BY ProcsAre
<1>3. Busy(sc, City, Main, State(Main)) /\ Answer(sc, City, Main, State(Main), reply[Main])
  BY <1>1, <1>2, WaiterIs
<1>4. State(Main).at = a /\ State(Main).locals = locals[Main]
  BY <1>1, StateIs
<1>5. Main \notin Demo!Operators /\ Main \notin {"customer", "aggregator", "agro_drone", "vendor_uas"}
  BY DEF Main, Demo!Operators
<1>6. CASE sc = "order"
  <2>1. OrderBusy(City, Main, State(Main)) /\ OrderAnswer(City, Main, State(Main), reply[Main])
    BY <1>3, <1>6 DEF Busy, Answer
  <2>2. a = "place_order"
    BY <1>4, <1>5, <2>1 DEF OrderBusy
  <2> QED
    BY <1>4, <1>6, <2>1, <2>2
<1>7. CASE sc = "onboarding"
  <2>1. /\ OnboardingBusy(City, Main, State(Main))
        /\ OnboardingAnswer(City, Main, State(Main), reply[Main])
    BY <1>3, <1>7 DEF Busy, Answer
  <2>2. /\ a # "place_order"
        /\ a = "request_uas_purchase" => locals[Main].registered \in City.registry
    BY <1>4, <1>5, <2>1 DEF OnboardingBusy
  <2> QED
    BY <1>4, <1>7, <2>1, <2>2, CityIs
<1> QED
  BY <1>6, <1>7 DEF Scenarios

LEMMA OrderMainKeeps ==
    ASSUME NEW sc \in Scenarios, LaunchInv(sc), Demo!MainAnswered("place_order"),
           IF Demo!Accepted(reply[Main])
           THEN Demo!StopAll([flown |-> reply[Main].of.of]) ELSE Demo!StopAll(None),
           Demo!cityVars' = Demo!cityVars, saved' = saved
    PROVE  LaunchInv(sc)'
<1>1. /\ sc = "order" /\ State(Main).at = "place_order"
      /\ OrderAnswer(City, Main, State(Main), reply[Main])
  BY MainWaits DEF Scenarios, Idles
<1>2. CASE Demo!Accepted(reply[Main]) /\ Demo!StopAll([flown |-> reply[Main].of.of])
  <2>1. Reported(City, reply[Main])
    BY <1>1 DEF OrderAnswer
  <2>2. reply[Main].ok /\ reply[Main].of.ok
    BY <1>2 DEF Demo!Accepted
  <2>3. Flown(City, reply[Main].of)
    BY <2>1, <2>2 DEF Reported, Demo!Failed
  <2>4. reply[Main].of.of \in City.landed
    BY <2>2, <2>3 DEF Flown, Demo!Failed
  <2>5. PICK m : m = reply[Main].of.of
    OBVIOUS
  <2>6. PICK result : result = [flown |-> m]
    OBVIOUS
  <2>7. "bought" \notin DOMAIN result /\ result.flown = m
    BY <2>6
  <2>8. Done(sc, City, result)
    BY <1>1, <2>4, <2>5, <2>7 DEF Done
  <2> QED
    BY <1>2, <2>5, <2>6, <2>8, StopAllKeeps
<1>3. CASE Demo!StopAll(None)
  BY <1>3, StopAllKeeps
<1> QED
  BY <1>2, <1>3

\* A call of the orchestrator during the onboarding.
LEMMA OnboardingMainCalls ==
    ASSUME LaunchInv("onboarding"), NEW to \in DemoEntities, NEW a, a \notin Idles, NEW l,
           Demo!Call(Main, to, a, None, l), Demo!cityVars' = Demo!cityVars, saved' = saved,
           \/ to = "vendor_uas" /\ a = "request_uas_registration"
           \/ /\ to = "operator_1" /\ a = "request_uas_purchase"
              /\ l.registered \in City.registry
    PROVE  LaunchInv("onboarding")'
<1>1. Main \in Procs
  BY ProcsAre
<1>2. OnboardingCall(City, Main, to, a, None)
  BY DEF OnboardingCall, Called
<1>3. ASSUME NEW s, s.at = a, s.locals = l
      PROVE  Link(s, to, a, None) /\ OnboardingBusy(City, Main, s)
  BY <1>3 DEF Link, FlightCalls, OnboardingBusy
<1> QED
  BY <1>1, <1>2, <1>3, OnboardingCalls

LEMMA OnboardingMainKeeps ==
    ASSUME NEW sc \in Scenarios, LaunchInv(sc),
           NEW a \in {"request_firmware_certification", "request_uas_registration",
                      "request_uas_purchase"}, Demo!MainAnswered(a),
           \/ Demo!StopAll(None)
           \/ /\ a = "request_firmware_certification"
              /\ Demo!Call(Main, "vendor_uas", "request_uas_registration", None, None)
           \/ /\ a = "request_uas_registration" /\ reply[Main].ok
              /\ Demo!Call(Main, "operator_1", "request_uas_purchase", None,
                           [registered |-> reply[Main].of])
           \/ /\ a = "request_uas_purchase" /\ reply[Main].ok /\ Len(reply[Main].of) = 2
              /\ Demo!StopAll([registered |-> locals[Main].registered, bought |-> reply[Main].of]),
           Demo!cityVars' = Demo!cityVars, saved' = saved
    PROVE  LaunchInv(sc)'
<1>1. a \notin Idles /\ a # "place_order"
  BY DEF Idles
<1>2. /\ sc = "onboarding" /\ State(Main).at = a
      /\ OnboardingAnswer(City, Main, State(Main), reply[Main])
      /\ a = "request_uas_purchase" => locals[Main].registered \in registry
  BY <1>1, MainWaits DEF Scenarios
<1>3. CASE Demo!StopAll(None)
  BY <1>3, StopAllKeeps
<1>4. CASE Demo!Call(Main, "vendor_uas", "request_uas_registration", None, None)
  <2>1. "vendor_uas" \in DemoEntities
    BY DEF DemoEntities
  <2> QED
    BY <1>2, <1>4, <2>1, OnboardingMainCalls DEF Idles
<1>5. CASE /\ a = "request_uas_registration" /\ reply[Main].ok
           /\ Demo!Call(Main, "operator_1", "request_uas_purchase", None,
                        [registered |-> reply[Main].of])
  <2>1. "operator_1" \in DemoEntities
    BY DEF DemoEntities
  <2>2. reply[Main].of \in City.registry
    BY <1>2, <1>5 DEF OnboardingAnswer, Demo!Failed
  <2>3. PICK l : l = [registered |-> reply[Main].of]
    OBVIOUS
  <2>4. l.registered \in City.registry
    BY <2>2, <2>3
  <2> QED
    BY <1>2, <1>5, <2>1, <2>3, <2>4, OnboardingMainCalls DEF Idles
<1>6. CASE /\ a = "request_uas_purchase" /\ reply[Main].ok /\ Len(reply[Main].of) = 2
           /\ Demo!StopAll([registered |-> locals[Main].registered, bought |-> reply[Main].of])
  <2>1. AreItems(City, reply[Main].of) /\ InPark(City, reply[Main].of)
    BY <1>2, <1>6 DEF OnboardingAnswer, Demo!Failed
  <2>2. PICK result : result = [registered |-> locals[Main].registered, bought |-> reply[Main].of]
    OBVIOUS
  <2>3. /\ result.registered = locals[Main].registered /\ result.bought = reply[Main].of
        /\ "bought" \in DOMAIN result
    BY <2>2
  <2>4. result.registered \in City.registry /\ sc # "order"
    BY <1>2, <1>6, <2>3, CityIs
  <2>5. Done(sc, City, result)
    BY <1>6, <2>1, <2>3, <2>4 DEF Done
  <2> QED
    BY <1>6, <2>2, <2>5, StopAllKeeps
<1> QED
  BY <1>3, <1>4, <1>5, <1>6
-----------------------------------------------------------------------------
(* The saved world.                                                          *)

\* The two UAS bought are put into a park, and it stays a list of UAS with a cost.
LEMMA WithNewIs ==
    ASSUME NEW list, IsSeq(list), \A i \in DOMAIN list : list[i].cost \in Int,
           NEW items, Len(items) = 2, items[1].cost \in Int, items[2].cost \in Int
    PROVE  /\ IsSeq(Demo!WithNew(list, items))
           /\ \A i \in DOMAIN Demo!WithNew(list, items) : Demo!WithNew(list, items)[i].cost \in Int
<1> DEFINE Good(s) == IsSeq(s) /\ \A i \in DOMAIN s : s[i].cost \in Int
           Known(s, u) == \E i \in DOMAIN s : s[i].model = u.model /\ s[i].number = u.number
           More(s, u) == IF Known(s, u) THEN s ELSE Append(s, u)
           Body(f) == [n \in 0 .. Len(items) |->
                         IF n = 0 THEN list
                         ELSE IF Known(f[n - 1], items[n]) THEN f[n - 1]
                         ELSE Append(f[n - 1], items[n])]
           with == CHOOSE f : f = Body(f)
<1>1. Demo!WithNew(list, items) = with[Len(items)]
  BY DEF Demo!WithNew
<1>2. ASSUME NEW s, Good(s), NEW u, u.cost \in Int
      PROVE  Good(More(s, u))
  BY <1>2, AppendFacts
<1> HIDE DEF with
<1>3. \A f : Body(f) = [n \in 0 .. 2 |-> IF n = 0 THEN list ELSE More(f[n - 1], items[n])]
  OBVIOUS
<1> HIDE DEF Body, More, Known
<1>4. \A f : /\ Body(f)[0] = list
             /\ Body(f)[1] = More(f[0], items[1])
             /\ Body(f)[2] = More(f[1], items[2])
  <2> SUFFICES ASSUME NEW f, NEW h, h = Body(f)
               PROVE  h[0] = list /\ h[1] = More(f[0], items[1]) /\ h[2] = More(f[1], items[2])
    OBVIOUS
  <2>1. h = [n \in 0 .. 2 |-> IF n = 0 THEN list ELSE More(f[n - 1], items[n])]
    BY <1>3
  <2> QED
    BY <2>1
<1>5. with = Body(with)
  <2>1. PICK one : one = More(list, items[1])
    OBVIOUS
  <2>2. PICK two : two = More(one, items[2])
    OBVIOUS
  <2>3. PICK g : g = [n \in 0 .. 2 |-> IF n = 0 THEN list ELSE IF n = 1 THEN one ELSE two]
    OBVIOUS
  <2>4. g[0] = list /\ g[1] = one /\ g[2] = two
    BY <2>3
  <2>5. ASSUME NEW n \in 0 .. 2
        PROVE  g[n] = IF n = 0 THEN list ELSE More(g[n - 1], items[n])
    <3>1. n = 0 \/ n = 1 \/ n = 2
      OBVIOUS
    <3> QED
      BY <2>1, <2>2, <2>4, <3>1
  <2>6. g = [n \in 0 .. 2 |-> g[n]]
    BY <2>3
  <2>7. g = [n \in 0 .. 2 |-> IF n = 0 THEN list ELSE More(g[n - 1], items[n])]
    BY <2>5, <2>6
  <2>8. g = Body(g)
    BY <1>3, <2>7
  <2> QED
    BY <2>8 DEF with
<1>6. with[0] = list /\ with[1] = More(with[0], items[1]) /\ with[2] = More(with[1], items[2])
  BY <1>4, <1>5
<1>7. Good(with[2])
  BY <1>2, <1>6
<1> QED
  BY <1>1, <1>7

LEMMA MergedIs ==
    ASSUME NEW world, ParkOK(world.park), NEW result, AreItems(City, result.bought),
           Len(result.bought) = 2
    PROVE  ParkOK(Demo!Merged(world, result).park)
<1>1. PICK list : list = world.park[Demo!TargetPort]
  OBVIOUS
<1>2. PICK items : items = result.bought
  OBVIOUS
<1>3. Demo!TargetPort \in Demo!Droneports
  BY DEF Demo!TargetPort, Demo!Droneports
<1>4. IsSeq(list) /\ \A i \in DOMAIN list : list[i].cost \in Int
  BY <1>1, <1>3 DEF ParkOK
<1>5. Len(items) = 2 /\ items[1].cost \in Int /\ items[2].cost \in Int
  <2>1. IsSeq(items) /\ Len(items) = 2 /\ \A i \in DOMAIN items : items[i].cost \in Int
    BY <1>2 DEF AreItems
  <2>2. DOMAIN items = 1 .. 2
    BY <2>1, SeqFacts
  <2> QED
    BY <2>1, <2>2
<1>6. PICK new : new = Demo!WithNew(list, items)
  OBVIOUS
<1>7. IsSeq(new) /\ \A i \in DOMAIN new : new[i].cost \in Int
  BY <1>4, <1>5, <1>6, WithNewIs
<1>8. Demo!Merged(world, result).park = [world.park EXCEPT ![Demo!TargetPort] = new]
  BY <1>1, <1>2, <1>6 DEF Demo!Merged
<1> QED
  BY <1>3, <1>7, <1>8 DEF ParkOK

\* Nothing changes but the saved world.
LEMMA SavedKeeps ==
    ASSUME NEW sc \in Scenarios, LaunchInv(sc), Demo!rpcVars' = Demo!rpcVars,
           Demo!cityVars' = Demo!cityVars, ParkOK(saved'.park)
    PROVE  LaunchInv(sc)'
<1>1. /\ inbox' = inbox /\ at' = at /\ locals' = locals /\ reply' = reply /\ calls' = calls
  BY DEF Demo!rpcVars
<1>2. City' = City /\ park' = park /\ dispatched' = dispatched
  BY SameCityVars
<1>3. TypesInv'
  BY <1>1, <1>2 DEF LaunchInv, TypesInv
<1>4. \A p : State(p)' = State(p) /\ (Demo!Waiting(p)' <=> Demo!Waiting(p))
  BY <1>1 DEF State, Handled, Demo!Request, Demo!Stop, Demo!Waiting
<1>5. ASSUME NEW f \in DemoEntities, NEW k \in Queued(f)'
      PROVE  MessageOK(sc, f, k)'
  <2>1. k \in Queued(f)
    BY <1>1, <1>5 DEF Queued
  <2>2. MessageOK(sc, f, k)
    BY <2>1 DEF LaunchInv, MessagesInv
  <2>3. Sent(k)' <=> Sent(k)
    BY <1>1 DEF Sent
  <2>4. Awaited(k)' <=> Awaited(k)
    BY <1>1, <1>4 DEF Awaited
  <2>5. State(k.from)' = State(k.from)
    BY <1>4
  <2> QED
    BY <1>2, <2>2, <2>3, <2>4, <2>5 DEF MessageOK, Demo!Stop
<1>6. ASSUME NEW p \in Procs, Demo!Waiting(p)'
      PROVE  WaitOK(sc, p)'
  <2>1. WaitOK(sc, p)
    BY <1>4, <1>6 DEF LaunchInv, WaitsInv
  <2>2. State(p)' = State(p)
    BY <1>4
  <2> QED
    BY <1>1, <1>2, <2>1, <2>2 DEF WaitOK
<1>7. ResultInv(sc)'
  BY <1>1, <1>2 DEF LaunchInv, ResultInv
<1> QED
  BY <1>3, <1>5, <1>6, <1>7 DEF LaunchInv, MessagesInv, WaitsInv

LEMMA SaveKeeps ==
    ASSUME NEW sc \in Scenarios, LaunchInv(sc), Demo!Save
    PROVE  LaunchInv(sc)'
<1>1. /\ at[Main] = "closing" /\ at' = [at EXCEPT ![Main] = "ready"]
      /\ locals' = [locals EXCEPT ![Main] = None]
      /\ inbox' = inbox /\ reply' = reply /\ calls' = calls /\ Demo!cityVars' = Demo!cityVars
  BY DEF Demo!Save, Demo!Main, Main, Demo!cityVars
<1>2. TypesInv /\ ResultInv(sc)
  BY DEF LaunchInv
<1>3. /\ DOMAIN locals' = Procs /\ \A r \in DemoEntities : locals'[r] = locals[r]
      /\ at'[Main] = "ready"
  BY <1>1, <1>2, ProcsAre DEF TypesInv
<1>4. ParkOK(saved'.park)
  <2>1. CASE saved' = saved
    BY <1>2, <2>1 DEF TypesInv
  <2>2. CASE /\ locals[Main] # None /\ "bought" \in DOMAIN locals[Main]
             /\ saved' = Demo!Merged(saved, locals[Main])
    <3>1. Done(sc, City, locals[Main])
      BY <1>1, <1>2, <2>2 DEF ResultInv
    <3>2. AreItems(City, locals[Main].bought) /\ Len(locals[Main].bought) = 2
      BY <2>2, <3>1 DEF Done
    <3>3. PICK w : w = Demo!Merged(saved, locals[Main])
      OBVIOUS
    <3>4. ParkOK(w.park)
      BY <1>2, <3>2, <3>3, MergedIs DEF TypesInv
    <3> QED
      BY <2>2, <3>3, <3>4
  <2> QED
    BY <2>1, <2>2 DEF Demo!Save, Demo!Main, Main
<1>5. ResultInv(sc)'
  BY <1>3 DEF ResultInv
<1> QED
  BY <1>1, <1>3, <1>4, <1>5, MainKeeps DEF Idles

LEMMA ShutdownKeeps ==
    ASSUME NEW sc \in Scenarios, LaunchInv(sc), Demo!Shutdown
    PROVE  LaunchInv(sc)'
<1>1. /\ at[Main] = "stopping" /\ at' = [at EXCEPT ![Main] = "closing"]
      /\ locals' = locals /\ inbox' = inbox /\ reply' = reply /\ calls' = calls
      /\ Demo!cityVars' = Demo!cityVars /\ saved' = saved
  BY DEF Demo!Shutdown, Demo!StopBroker, Main, Demo!cityVars
<1>2. TypesInv /\ ResultInv(sc) /\ City' = City
  BY <1>1, SameCityVars DEF LaunchInv
<1>3. DOMAIN locals' = Procs /\ ParkOK(saved'.park)
  BY <1>1, <1>2 DEF TypesInv
<1>4. ResultInv(sc)'
  BY <1>1, <1>2 DEF ResultInv
<1> QED
  BY <1>1, <1>3, <1>4, MainKeeps DEF Idles
-----------------------------------------------------------------------------
(* Every step keeps the invariant.                                           *)

LEMMA LaunchKeeps ==
    ASSUME DemoInv,
           \/ Demo!Launch("vendor_uas", "request_firmware_certification", None)
           \/ Demo!Launch("customer", "place_order", Demo!OrderGoals)
    PROVE  DemoInv'
<1>1. TypesInv
  BY DEF DemoInv, LaunchInv
<1>2. "order" \in Scenarios /\ "onboarding" \in Scenarios /\ "onboarding" # "order"
  BY DEF Scenarios
<1>3. CASE Demo!Launch("vendor_uas", "request_firmware_certification", None)
  <2> DEFINE a == "request_firmware_certification"
  <2>1. "vendor_uas" \in DemoEntities /\ a \notin Idles
    BY DEF DemoEntities, Idles
  <2>2. \A c : Fits("onboarding", c, Main, "vendor_uas", a, None)
    BY <1>2 DEF Fits, OnboardingCall, Called
  <2>3. \A c, s : s.at = a => Busy("onboarding", c, Main, s) /\ Link(s, "vendor_uas", a, None)
    BY <1>2 DEF Busy, OnboardingBusy, Link, FlightCalls
  <2>4. LaunchInv("onboarding")'
    BY <1>1, <1>2, <1>3, <2>1, <2>2, <2>3, LaunchStarts
  <2> QED
    BY <1>2, <2>4 DEF DemoInv
<1>4. CASE Demo!Launch("customer", "place_order", Demo!OrderGoals)
  <2> DEFINE a == "place_order"
             x == Demo!OrderGoals
  <2>1. "customer" \in DemoEntities /\ a \notin Idles
    BY DEF DemoEntities, Idles
  <2>2. \A c : Fits("order", c, Main, "customer", a, x)
    BY DEF Fits, OrderCall, Called
  <2>3. \A c, s : s.at = a => Busy("order", c, Main, s) /\ Link(s, "customer", a, x)
    BY DEF Busy, OrderBusy, Link, FlightCalls
  <2>4. LaunchInv("order")'
    BY <1>1, <1>2, <1>4, <2>1, <2>2, <2>3, LaunchStarts
  <2> QED
    BY <1>2, <2>4 DEF DemoInv
<1> QED
  BY <1>3, <1>4

LEMMA DemoStep == DemoInv /\ [Demo!Next]_(Demo!vars) => DemoInv'
<1> SUFFICES ASSUME DemoInv, [Demo!Next]_(Demo!vars)
             PROVE  DemoInv'
  OBVIOUS
<1>1. PICK sc \in Scenarios : LaunchInv(sc)
  BY DEF DemoInv
<1>2. Demo!Main = Main
  BY DEF Demo!Main, Main
<1>3. CASE Demo!vars' = Demo!vars
  <2>1. Demo!rpcVars' = Demo!rpcVars /\ Demo!cityVars' = Demo!cityVars /\ saved' = saved
    BY <1>3 DEF Demo!vars
  <2>2. ParkOK(saved'.park)
    BY <1>1, <2>1 DEF LaunchInv, TypesInv
  <2>3. LaunchInv(sc)'
    BY <1>1, <2>1, <2>2, SavedKeeps
  <2> QED
    BY <2>3 DEF DemoInv
<1>4. CASE Demo!EntitySteps
  <2>1. PICK e \in DemoEntities : Demo!EntityStep(e)
    BY <1>4 DEF Demo!EntitySteps
  <2>2. LaunchInv(sc)'
    BY <1>1, <2>1, EntityKeeps
  <2> QED
    BY <2>2 DEF DemoInv
<1>5. CASE \/ Demo!Launch("vendor_uas", "request_firmware_certification", None)
           \/ Demo!Launch("customer", "place_order", Demo!OrderGoals)
  BY <1>5, LaunchKeeps
<1>6. CASE Demo!Onboarding /\ ~Demo!Launch("vendor_uas", "request_firmware_certification", None)
  <2>1. Demo!cityVars' = Demo!cityVars /\ saved' = saved
    BY <1>6 DEF Demo!Onboarding, Demo!cityVars
  <2>2. CASE /\ Demo!MainAnswered("request_firmware_certification")
             /\ \/ Demo!StopAll(None)
                \/ Demo!Call(Main, "vendor_uas", "request_uas_registration", None, None)
    <3>1. LaunchInv(sc)'
      BY <1>1, <2>1, <2>2, OnboardingMainKeeps
    <3> QED
      BY <3>1 DEF DemoInv
  <2>3. CASE /\ Demo!MainAnswered("request_uas_registration")
             /\ \/ Demo!StopAll(None)
                \/ /\ reply[Main].ok
                   /\ Demo!Call(Main, "operator_1", "request_uas_purchase", None,
                                [registered |-> reply[Main].of])
    <3>1. LaunchInv(sc)'
      BY <1>1, <2>1, <2>3, OnboardingMainKeeps
    <3> QED
      BY <3>1 DEF DemoInv
  <2>4. CASE /\ Demo!MainAnswered("request_uas_purchase")
             /\ \/ Demo!StopAll(None)
                \/ /\ reply[Main].ok /\ Len(reply[Main].of) = 2
                   /\ Demo!StopAll([registered |-> locals[Main].registered,
                                    bought |-> reply[Main].of])
    <3>1. LaunchInv(sc)'
      BY <1>1, <2>1, <2>4, OnboardingMainKeeps
    <3> QED
      BY <3>1 DEF DemoInv
  <2> QED
    BY <1>2, <1>6, <2>2, <2>3, <2>4 DEF Demo!Onboarding
<1>7. CASE Demo!Order /\ ~Demo!Launch("customer", "place_order", Demo!OrderGoals)
  <2>1. /\ Demo!MainAnswered("place_order")
        /\ IF Demo!Accepted(reply[Main])
           THEN Demo!StopAll([flown |-> reply[Main].of.of]) ELSE Demo!StopAll(None)
        /\ Demo!cityVars' = Demo!cityVars /\ saved' = saved
    BY <1>2, <1>7 DEF Demo!Order, Demo!cityVars
  <2>2. LaunchInv(sc)'
    BY <1>1, <2>1, OrderMainKeeps
  <2> QED
    BY <2>2 DEF DemoInv
<1>8. CASE Demo!MainGivesUp
  <2>1. Demo!StopAll(None) /\ Demo!cityVars' = Demo!cityVars /\ saved' = saved
    BY <1>8 DEF Demo!MainGivesUp, Demo!cityVars
  <2>2. LaunchInv(sc)'
    BY <1>1, <2>1, StopAllKeeps
  <2> QED
    BY <2>2 DEF DemoInv
<1>9. CASE Demo!Shutdown
  <2>1. LaunchInv(sc)'
    BY <1>1, <1>9, ShutdownKeeps
  <2> QED
    BY <2>1 DEF DemoInv
<1>10. CASE Demo!Save
  <2>1. LaunchInv(sc)'
    BY <1>1, <1>10, SaveKeeps
  <2> QED
    BY <2>1 DEF DemoInv
<1>11. CASE Demo!ResetContext
  <2>1. /\ Demo!rpcVars' = Demo!rpcVars /\ Demo!cityVars' = Demo!cityVars
        /\ saved' = Demo!BuildWorld
    BY <1>11 DEF Demo!ResetContext, Demo!rpcVars, Demo!cityVars
  <2>2. ParkOK(saved'.park)
    BY <2>1, BuiltParkIs
  <2>3. LaunchInv(sc)'
    BY <1>1, <2>1, <2>2, SavedKeeps
  <2> QED
    BY <2>3 DEF DemoInv
<1> QED
  BY <1>3, <1>4, <1>5, <1>6, <1>7, <1>8, <1>9, <1>10, <1>11
     DEF Demo!Next, Demo!MainStep
-----------------------------------------------------------------------------
(* What the invariant means.                                                 *)

LEMMA FlightIs == DemoInv => FlownAsAgreed
<1> DEFINE e == "agro_drone"
<1> SUFFICES ASSUME DemoInv, at[e] \in {"sitl_simulate", "request_landing_permission"},
                    NEW m, m = Demo!Request(e).args
             PROVE  /\ m.mission \in approved
                    /\ Demo!OrderGoals \subseteq Demo!Goals(m.mission[1])
                    /\ <<m.mission, m.uas>> \in dispatched[m.port]
                    /\ \E i \in DOMAIN park[m.port] : park[m.port][i] = m.uas
                    /\ \A p \in Demo!Droneports : \A i \in DOMAIN park[p] :
                          m.uas.cost <= park[p][i].cost
  BY DEF FlownAsAgreed, Demo!FlownAsAgreed
<1>1. PICK sc \in Scenarios : LaunchInv(sc)
  BY DEF DemoInv
<1>2. e \in Procs /\ e # Main /\ e \notin Demo!Operators /\ at[e] \notin Idles
  BY ProcsAre DEF DemoEntities, Main, Demo!Operators, Idles
<1>3. Busy(sc, City, e, State(e)) /\ State(e).at = at[e] /\ State(e).request = Demo!Request(e)
  BY <1>1, <1>2, WaiterIs, StateIs
<1>4. ~OnboardingBusy(City, e, State(e))
  BY <1>2, <1>3 DEF OnboardingBusy
<1>5. OrderBusy(City, e, State(e))
  BY <1>3, <1>4 DEF Busy
<1>6. IsPlan(City, m) /\ m.mission \in City.approved /\ Dispatched(City, m)
  BY <1>2, <1>3, <1>5 DEF OrderBusy, Main
<1>7. /\ Candidates(City) # <<>> /\ Covers(m.mission[1])
      /\ m.uas = Selected(City).uas /\ m.port = Selected(City).port
  <2>1. /\ Candidates(City) # <<>> /\ Covers(m.mission[1])
        /\ m = [mission |-> m.mission, uas |-> Selected(City).uas, port |-> Selected(City).port,
                return_port |-> Demo!TargetPort]
    BY <1>6 DEF IsPlan
  <2> QED
    BY <2>1
<1>8. ParkOK(City.park)
  BY <1>1, CityPark DEF LaunchInv, TypesInv
<1>9. /\ \E i \in DOMAIN park[m.port] : park[m.port][i] = m.uas
      /\ \A p \in Demo!Droneports : \A i \in DOMAIN park[p] : m.uas.cost <= park[p][i].cost
  BY <1>7, <1>8, SelectedIs, CityIs
<1> QED
  BY <1>6, <1>7, <1>9, CityIs DEF Dispatched, Covers

LEMMA ResultIs == DemoInv => AcceptedIsDone
<1> SUFFICES ASSUME DemoInv, at[Main] \in {"stopping", "closing"}, locals[Main] # None
             PROVE  IF "bought" \in DOMAIN locals[Main]
                    THEN /\ locals[Main].registered \in registry
                         /\ \A i \in DOMAIN locals[Main].bought :
                               /\ locals[Main].bought[i].number \in registry
                               /\ \E j \in DOMAIN park[Demo!TargetPort] :
                                     park[Demo!TargetPort][j] = locals[Main].bought[i]
                    ELSE locals[Main].flown \in landed
  BY DEF AcceptedIsDone, Demo!AcceptedIsDone, Demo!Main, Main
<1>1. PICK sc \in Scenarios : LaunchInv(sc)
  BY DEF DemoInv
<1>2. Done(sc, City, locals[Main])
  BY <1>1 DEF LaunchInv, ResultInv
<1> QED
  BY <1>2, CityIs DEF Done, AreItems, InPark

\* FlownAsAgreed: whatever the processes do meanwhile, and whatever is given up or
\* answered too late, a mission that flies is approved by the ATM, planned for an
\* operator that covers the goals of the order, prepared at the port it starts from,
\* and flown by a UAS of that port than which none is cheaper.
THEOREM OrderIsFlownAsAgreed == Demo!Spec => []FlownAsAgreed
<1>1. Demo!Init => DemoInv
  BY DemoInit
<1>2. DemoInv /\ [Demo!Next]_(Demo!vars) => DemoInv'
  BY DemoStep
<1>3. DemoInv => FlownAsAgreed
  BY FlightIs
<1> QED
  BY <1>1, <1>2, <1>3, PTL DEF Demo!Spec

\* AcceptedIsDone: a scenario that the orchestrator takes for done is done: the plan
\* of the order has landed, or the UAS bought are registered and in the park.
THEOREM AcceptedIsReallyDone == Demo!Spec => []AcceptedIsDone
<1>1. Demo!Init => DemoInv
  BY DemoInit
<1>2. DemoInv /\ [Demo!Next]_(Demo!vars) => DemoInv'
  BY DemoStep
<1>3. DemoInv => AcceptedIsDone
  BY ResultIs
<1> QED
  BY <1>1, <1>2, <1>3, PTL DEF Demo!Spec
=============================================================================
