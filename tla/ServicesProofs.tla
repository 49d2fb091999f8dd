--------------------------- MODULE ServicesProofs ---------------------------
(* Theorems of the parts of MCServices, each for every value of its          *)
(* constants: the operator's prices, a bus's subscriptions (Bus there), a    *)
(* component on the bus (Component) and the ledger (Fabric).  Those of the   *)
(* model demo are in DemoProofs.                                             *)
EXTENDS MCServices, FiniteSetTheorems, SequenceTheorems, TLAPS
-----------------------------------------------------------------------------
(* OperatorBusiness: SoldWithMargin and SuggestedIsAccepted for all costs.   *)
(* The roundings of calculate_min_price, of the price and of the tax are     *)
(* bounds, and from them the rest is linear arithmetic; then an invariant of *)
(* the store.                                                                *)
(* What the roundings do.                                                    *)

LEMMA LeastPrice ==
    ASSUME NEW cost \in Int
    PROVE  /\ CalculateMinPrice(cost) \in Int
           /\ 18 * CalculateMinPrice(cost) <= 20 * cost + 9
           /\ 18 * CalculateMinPrice(cost) >= 20 * cost - 8
  BY SMTT(30) DEF CalculateMinPrice

LEMMA RoundedBounds ==
    ASSUME NEW x \in Int, NEW price \in Rounded(x)
    PROVE  /\ price \in Int
           /\ 20 * price <= x + 10
           /\ 20 * price >= x - 10
  BY SMTT(30) DEF Rounded

LEMMA Tax ==
    ASSUME NEW price \in Int
    PROVE  /\ CalculateTax(price) \in Int
           /\ 10 * CalculateTax(price) >= 12 * price - 4
  BY SMTT(30) DEF CalculateTax
-----------------------------------------------------------------------------
(* The arithmetic of an offer: the least price of the cost, 5 % on it, and   *)
(* the rounding to kopecks, once the unrounded price has passed the check.   *)

Offered(cost, price) ==
    /\ cost \in Int /\ cost > 0
    /\ ValidateMargin(Proposed(cost), cost)
    /\ price \in Rounded(Proposed(cost))

LEMMA OfferBounds ==
    ASSUME NEW cost, NEW price, Offered(cost, price)
    PROVE  /\ price \in Int
           /\ 20 * price <= 21 * CalculateMinPrice(cost) + 10
           /\ 20 * price >= 21 * CalculateMinPrice(cost) - 10
           /\ 21 * CalculateMinPrice(cost) >= 22 * cost
<1>1. CalculateMinPrice(cost) \in Int
  BY LeastPrice DEF Offered
<1>2. Proposed(cost) \in Int
  BY <1>1 DEF Proposed
<1>3. /\ price \in Int
      /\ 20 * price <= Proposed(cost) + 10
      /\ 20 * price >= Proposed(cost) - 10
  BY <1>2, RoundedBounds DEF Offered
<1>4. 100 * (Proposed(cost) - 20 * cost) >= 200 * cost
  BY <1>2 DEF Offered, ValidateMargin, MinMargin
<1> QED
  BY <1>1, <1>3, <1>4 DEF Offered, Proposed

LEMMA OfferMargin ==
    ASSUME NEW cost, NEW price, Offered(cost, price)
    PROVE  /\ 10 * price >= 11 * cost
           /\ 100 * CalculateTax(price) >= 132 * cost
<1>1. cost \in Int /\ cost > 0
  BY DEF Offered
<1>2. /\ CalculateMinPrice(cost) \in Int
      /\ 18 * CalculateMinPrice(cost) <= 20 * cost + 9
      /\ 18 * CalculateMinPrice(cost) >= 20 * cost - 8
  BY <1>1, LeastPrice
<1>3. /\ price \in Int
      /\ 20 * price <= 21 * CalculateMinPrice(cost) + 10
      /\ 20 * price >= 21 * CalculateMinPrice(cost) - 10
      /\ 21 * CalculateMinPrice(cost) >= 22 * cost
  BY OfferBounds
<1>4. /\ CalculateTax(price) \in Int
      /\ 10 * CalculateTax(price) >= 12 * price - 4
  BY <1>3, Tax
<1>5. 10 * price >= 11 * cost
  BY <1>1, <1>2, <1>3, SMTT(30)
<1>6. 100 * CalculateTax(price) >= 132 * cost
  BY <1>1, <1>2, <1>3, <1>4, SMTT(30)
<1> QED
  BY <1>5, <1>6

LEMMA OfferBargain ==
    ASSUME NEW cost, NEW price, Offered(cost, price), cost >= 200
    PROVE  /\ ValidateOrderEconomics(CalculateMinPrice(cost), cost, CalculateMinPrice(cost), FALSE)
           /\ ValidateOrderEconomics(CalculateMinPrice(cost), cost, price, TRUE)
<1> DEFINE least == CalculateMinPrice(cost)
<1>1. cost \in Int /\ cost > 0
  BY DEF Offered
<1>2. least \in Int /\ 18 * least >= 20 * cost - 8
  BY <1>1, LeastPrice
<1>3. price \in Int /\ 20 * price <= 21 * least + 10 /\ 20 * price >= 21 * least - 10
  BY OfferBounds
<1> HIDE DEF least
<1>4. ValidateMargin(20 * least, cost)
  BY <1>1, <1>2 DEF ValidateMargin, MinMargin
<1>5. ValidateDiscount(price, least)
  BY <1>1, <1>2, <1>3 DEF ValidateDiscount, MaxDiscount
<1> QED
  BY <1>4, <1>5 DEF ValidateOrderEconomics, least
-----------------------------------------------------------------------------
(* The invariant: what is in the store was offered so, and what was paid     *)
(* was a proposal of the store while it was valid.  Both stay, because a     *)
(* proposal that is made is never written again.                             *)

Proposals == [price : Int, cost : Int, order : Orders \cup {"none"}, until : Int]

BusinessType ==
    /\ clock \in Int
    /\ proposals \in [ProposalIds -> Proposals]

StoreInv == \A p \in Made : Offered(proposals[p].cost, proposals[p].price)

PaidInv == \A paid \in payments :
    /\ paid.proposal \in Made
    /\ paid.amount = CalculateTax(proposals[paid.proposal].price)
    /\ paid.at <= proposals[paid.proposal].until

BusinessInv == BusinessType /\ StoreInv /\ PaidInv

LEMMA BusinessInit == Init => BusinessInv
  BY DEF Init, BusinessInv, BusinessType, Proposals, NoProposal, StoreInv, PaidInv, Made

LEMMA CostIsInt ==
    ASSUME NEW mission \in Missions
    PROVE  CalculateMissionCost(mission) \in Int
<1>1. mission.distance \in Int /\ mission.duration \in Int /\ mission.cargo \in Int
  BY MissionsAssumption
<1> QED
  BY <1>1 DEF CalculateMissionCost, Premium

LEMMA CreateKeeps ==
    ASSUME BusinessInv, NEW p \in ProposalIds, NEW order \in Orders, NEW mission \in Missions,
           CreateProposal(p, order, mission)
    PROVE  BusinessInv'
<1> DEFINE cost == CalculateMissionCost(mission)
<1>1. PICK price \in Rounded(Proposed(cost)) :
        proposals' = [proposals EXCEPT ![p] =
            [price |-> price, cost |-> cost, order |-> order, until |-> clock + Validity]]
  BY DEF CreateProposal
<1>2. cost \in Int
  BY CostIsInt
<1>3. Offered(cost, price)
  BY <1>2 DEF CreateProposal, Offered, ValidateMargin
<1>4. price \in Int
  BY <1>3, OfferBounds
<1>5. clock' = clock /\ payments' = payments /\ proposals[p] = NoProposal
  BY DEF CreateProposal
<1> HIDE DEF cost
<1>6. BusinessType'
  <2>1. clock + Validity \in Int
    BY TimeAssumption DEF BusinessInv, BusinessType
  <2>2. [price |-> price, cost |-> cost, order |-> order, until |-> clock + Validity] \in Proposals
    BY <1>2, <1>4, <2>1 DEF Proposals
  <2> QED
    BY <1>1, <1>5, <2>2 DEF BusinessInv, BusinessType
<1>7. \A q \in ProposalIds : q # p => proposals'[q] = proposals[q]
  BY <1>1 DEF BusinessInv, BusinessType
<1>8. proposals'[p].cost = cost /\ proposals'[p].price = price
  BY <1>1 DEF BusinessInv, BusinessType
<1>9. StoreInv'
  <2> SUFFICES ASSUME NEW q \in Made'
               PROVE  Offered(proposals'[q].cost, proposals'[q].price)
    BY DEF StoreInv
  <2>1. CASE q = p
    BY <1>3, <1>8, <2>1
  <2>2. CASE q # p
    BY <1>7, <2>2 DEF Made, BusinessInv, StoreInv
  <2> QED
    BY <2>1, <2>2
<1>10. \A q \in Made : q \in Made' /\ proposals'[q] = proposals[q]
  BY <1>5, <1>7 DEF Made
<1>11. PaidInv'
  BY <1>5, <1>10 DEF BusinessInv, PaidInv
<1> QED
  BY <1>6, <1>9, <1>11 DEF BusinessInv

LEMMA ProcessKeeps ==
    ASSUME BusinessInv, NEW p \in ProposalIds, NEW order \in Orders, ProcessOrder(p, order)
    PROVE  BusinessInv'
<1>1. proposals' = proposals /\ clock' = clock
  BY DEF ProcessOrder
<1>2. Made' = Made
  BY <1>1 DEF Made
<1>3. BusinessType' /\ StoreInv'
  BY <1>1, <1>2 DEF BusinessInv, BusinessType, StoreInv
<1>4. PaidInv'
  BY <1>1, <1>2 DEF ProcessOrder, BusinessInv, PaidInv
<1> QED
  BY <1>3, <1>4 DEF BusinessInv

LEMMA BusinessStep == BusinessInv /\ [Next]_businessVars => BusinessInv'
<1> SUFFICES ASSUME BusinessInv, [Next]_businessVars
             PROVE  BusinessInv'
  OBVIOUS
<1>1. CASE Tick
  <2>1. Made' = Made
    BY <1>1 DEF Tick, Made
  <2> QED
    BY <1>1, <2>1 DEF Tick, BusinessInv, BusinessType, StoreInv, PaidInv
<1>2. CASE UNCHANGED businessVars
  <2>1. Made' = Made
    BY <1>2 DEF businessVars, Made
  <2> QED
    BY <1>2, <2>1 DEF businessVars, BusinessInv, BusinessType, StoreInv, PaidInv
<1> QED
  BY <1>1, <1>2, CreateKeeps, ProcessKeeps DEF Next

LEMMA BusinessInvariant == Spec => []BusinessInv
  BY BusinessInit, BusinessStep, PTL DEF Spec
-----------------------------------------------------------------------------
\* Whatever the missions cost, a stored price is at least 10 % above the cost and the
\* bank is told to take no less than that with the tax, from a valid proposal.
THEOREM MarginIsKept == Spec => []SoldWithMargin
<1>1. BusinessInv => SoldWithMargin
  <2> SUFFICES ASSUME BusinessInv PROVE SoldWithMargin
    OBVIOUS
  <2>1. \A p \in Made : /\ 10 * proposals[p].price >= 11 * proposals[p].cost
                        /\ 100 * CalculateTax(proposals[p].price) >= 132 * proposals[p].cost
    BY OfferMargin DEF BusinessInv, StoreInv
  <2> QED
    BY <2>1 DEF BusinessInv, PaidInv, SoldWithMargin
<1> QED
  BY <1>1, BusinessInvariant, PTL

\* From 2 roubles of cost on, the suggested price of any proposal passes the checks of
\* an order, without a discount and as a discount of the proposal.
THEOREM SuggestionsAreAccepted == Spec => []SuggestedIsAccepted
<1>1. BusinessInv => SuggestedIsAccepted
  BY OfferBargain DEF BusinessInv, StoreInv, SuggestedIsAccepted
<1> QED
  BY <1>1, BusinessInvariant, PTL
-----------------------------------------------------------------------------
(* BusSubscriptions, for any set of topics.                                  *)
KnownSteps == {"idle", "joining", "stopping", "connecting", "sending", "dropping"}

\* The calling thread is in one call at a time, and a topic goes with it.
BusCallOK ==
    /\ op \in KnownSteps \X (Topics \cup {None})
    /\ DOMAIN loop = Topics
    /\ callbacks \subseteq Topics

\* Kafka: a topic with a consumer is read until unsubscribe() or stop() is at it.
ServedInv ==
    kind = "kafka" /\ op[1] # "stopping" =>
        \A t \in callbacks \ deaf :
            op # <<"joining", t>> => loop[t] # "none" /\ t \in running

\* MQTT: a session is there only with a client, and stop() leaves neither.
SessionInv ==
    /\ link => client
    /\ connected => client \/ op[1] = "stopping"
    /\ op[1] = "stopping" => ~client /\ ~greeted
    /\ greeted => connected
    /\ op[1] # "joining"

\* Nothing is subscribed outside of a connection ...
EmptyUnconnected == ~link \/ ~connected => subscribed = {}

\* ... in it, no topic but what has a callback or is about to be dropped ...
NoStrangers ==
    /\ \A t \in subscribed : t \in callbacks \/ op = <<"dropping", t>>
    /\ op[1] = "sending" => op[2] \in callbacks
    /\ op[1] = "dropping" => op[2] \notin callbacks

\* ... and once _on_connect is through, all of them but the one being sent.
NoneMissing ==
    link /\ connected /\ ~greeted =>
        \A t \in callbacks : t \in subscribed \/ op = <<"sending", t>>

MqttInv ==
    kind = "mqtt" => SessionInv /\ EmptyUnconnected /\ NoStrangers /\ NoneMissing

BusInv == BusCallOK /\ ServedInv /\ MqttInv

ReplyIsTopic == Reply \in Topics
-----------------------------------------------------------------------------
LEMMA BusInit == Bus!Init => BusInv
  BY DEF Bus!Init, BusInv, BusCallOK, KnownSteps, ServedInv, MqttInv, SessionInv,
         EmptyUnconnected, NoStrangers, NoneMissing

LEMMA OpPair ==
    ASSUME BusCallOK
    PROVE  op = <<op[1], op[2]>>
  BY DEF BusCallOK

LEMMA KafkaKeepsCall ==
    ASSUME BusInv, ReplyIsTopic, kind = "kafka", Bus!Kafka
    PROVE  BusCallOK'
  BY DEF BusInv, BusCallOK, ReplyIsTopic, Bus!Kafka, Bus!KafkaStart, Bus!KafkaJoined,
         Bus!KafkaStop, Bus!KafkaStopped,
         Bus!KafkaSubscribe, Bus!KafkaUnsubscribe, Bus!WarmUp, Bus!LoopEnds, Bus!Consume,
         Bus!KafkaLeave, Bus!Idle, Bus!Go,
         Bus!Return, KnownSteps, Bus!callVars, Bus!kafkaVars, Bus!mqttVars

LEMMA KafkaKeepsServed ==
    ASSUME BusInv, ReplyIsTopic, kind = "kafka", Bus!Kafka
    PROVE  ServedInv'
<1> USE DEF BusInv, BusCallOK, ServedInv, Bus!Idle, Bus!Go, Bus!Return, Bus!callVars,
         Bus!mqttVars
<1>1. CASE Bus!KafkaStart
  BY <1>1 DEF Bus!KafkaStart, Bus!Consume, ReplyIsTopic
<1>2. CASE Bus!KafkaJoined
  BY <1>2 DEF Bus!KafkaJoined, Bus!KafkaLeave
<1>3. CASE Bus!KafkaStop
  BY <1>3 DEF Bus!KafkaStop
<1>4. CASE Bus!KafkaStopped
  BY <1>4 DEF Bus!KafkaStopped
<1>5. ASSUME NEW t \in Topics, Bus!KafkaSubscribe(t)
      PROVE  ServedInv'
  BY <1>5 DEF Bus!KafkaSubscribe, Bus!Consume
<1>6. ASSUME NEW t \in Topics, Bus!KafkaUnsubscribe(t)
      PROVE  ServedInv'
  BY <1>6 DEF Bus!KafkaUnsubscribe
<1>7. ASSUME NEW t \in Topics, Bus!WarmUp(t)
      PROVE  ServedInv'
  BY <1>7 DEF Bus!WarmUp
<1>8. ASSUME NEW t \in Topics, Bus!LoopEnds(t)
      PROVE  ServedInv'
  BY <1>8 DEF Bus!LoopEnds
<1> QED
  BY <1>1, <1>2, <1>3, <1>4, <1>5, <1>6, <1>7, <1>8 DEF Bus!Kafka

LEMMA MqttKeepsCall ==
    ASSUME BusInv, ReplyIsTopic, kind = "mqtt", Bus!Mqtt
    PROVE  BusCallOK'
  BY DEF BusInv, BusCallOK, ReplyIsTopic, Bus!Mqtt, Bus!MqttStart, Bus!MqttConnected,
         Bus!MqttSent, Bus!MqttDropped,
         Bus!MqttStop, Bus!MqttStopped, Bus!MqttSubscribe, Bus!MqttUnsubscribe, Bus!Break,
         Bus!OnDisconnect,
         Bus!Reconnect, Bus!OnConnect, Bus!Resubscribe, Bus!Store, Bus!Idle, Bus!Go,
         Bus!Return, KnownSteps,
         Bus!callVars, Bus!kafkaVars, Bus!mqttVars

LEMMA MqttKeepsSession ==
    ASSUME BusInv, kind = "mqtt", Bus!Mqtt
    PROVE  SessionInv' /\ EmptyUnconnected' /\ NoStrangers' /\ NoneMissing'
<1> USE DEF BusInv, BusCallOK, MqttInv, SessionInv, EmptyUnconnected, NoStrangers,
         NoneMissing,
            Bus!Idle, Bus!Go, Bus!Return, Bus!Store, Bus!callVars, Bus!kafkaVars
<1>1. CASE Bus!MqttStart
  BY <1>1 DEF Bus!MqttStart
<1>2. CASE Bus!MqttConnected
  BY <1>2 DEF Bus!MqttConnected, Bus!mqttVars
<1>3. CASE Bus!MqttSent
  BY <1>3, OpPair DEF Bus!MqttSent
<1>4. CASE Bus!MqttDropped
  BY <1>4, OpPair DEF Bus!MqttDropped
<1>5. CASE Bus!MqttStop
  BY <1>5 DEF Bus!MqttStop
<1>6. CASE Bus!MqttStopped
  BY <1>6 DEF Bus!MqttStopped
<1>7. ASSUME NEW t \in Topics, Bus!MqttSubscribe(t)
      PROVE  SessionInv' /\ EmptyUnconnected' /\ NoStrangers' /\ NoneMissing'
  BY <1>7 DEF Bus!MqttSubscribe, Bus!mqttVars
<1>8. ASSUME NEW t \in Topics, Bus!MqttUnsubscribe(t)
      PROVE  SessionInv' /\ EmptyUnconnected' /\ NoStrangers' /\ NoneMissing'
  BY <1>8 DEF Bus!MqttUnsubscribe, Bus!mqttVars
<1>9. CASE Bus!Break
  BY <1>9 DEF Bus!Break
<1>10. CASE Bus!OnDisconnect
  BY <1>10 DEF Bus!OnDisconnect
<1>11. CASE Bus!Reconnect
  BY <1>11 DEF Bus!Reconnect
<1>12. CASE Bus!OnConnect
  BY <1>12 DEF Bus!OnConnect
<1>13. CASE Bus!Resubscribe
  BY <1>13, OpPair DEF Bus!Resubscribe
<1> QED
  BY <1>1, <1>2, <1>3, <1>4, <1>5, <1>6, <1>7, <1>8, <1>9, <1>10, <1>11, <1>12,
           <1>13 DEF Bus!Mqtt

LEMMA KindStays ==
    ASSUME Bus!Kafka \/ Bus!Mqtt
    PROVE  kind' = kind
  BY DEF Bus!Kafka, Bus!KafkaStart, Bus!KafkaJoined, Bus!KafkaStop, Bus!KafkaStopped,
         Bus!KafkaSubscribe,
         Bus!KafkaUnsubscribe, Bus!WarmUp, Bus!LoopEnds, Bus!Mqtt, Bus!MqttStart,
         Bus!MqttConnected, Bus!MqttSent,
         Bus!MqttDropped, Bus!MqttStop, Bus!MqttStopped, Bus!MqttSubscribe,
         Bus!MqttUnsubscribe, Bus!Break,
         Bus!OnDisconnect, Bus!Reconnect, Bus!OnConnect, Bus!Resubscribe

LEMMA BusStep ==
    ASSUME ReplyIsTopic
    PROVE  BusInv /\ [Bus!Next]_(Bus!vars) => BusInv'
<1> SUFFICES ASSUME BusInv, [Bus!Next]_(Bus!vars)
             PROVE  BusInv'
  OBVIOUS
<1>1. CASE kind = "kafka" /\ Bus!Kafka
  <2>1. kind' = "kafka"
    BY <1>1, KindStays
  <2> QED
    BY <1>1, <2>1, KafkaKeepsCall, KafkaKeepsServed DEF BusInv, MqttInv
<1>2. CASE kind = "mqtt" /\ Bus!Mqtt
  <2>1. kind' = "mqtt"
    BY <1>2, KindStays
  <2> QED
    BY <1>2, <2>1, MqttKeepsCall, MqttKeepsSession DEF BusInv, MqttInv, ServedInv
<1>3. CASE UNCHANGED Bus!vars
  BY <1>3 DEF Bus!vars, Bus!callVars, Bus!kafkaVars, Bus!mqttVars, BusInv, BusCallOK,
           ServedInv, MqttInv,
              SessionInv, EmptyUnconnected, NoStrangers, NoneMissing
<1> QED
  BY <1>1, <1>2, <1>3 DEF Bus!Next

\* The inductive invariant is one.
THEOREM BusInvariance ==
    ASSUME ReplyIsTopic
    PROVE  Bus!Spec => []BusInv
  BY BusInit, BusStep, PTL DEF Bus!Spec

\* With Kafka, what counts as subscribed is read by its own consumer, for any number
\* of topics, through any sequence of start(), stop(), subscribe() and unsubscribe().
THEOREM SubscribedTopicsAreServed ==
    ASSUME ReplyIsTopic
    PROVE  Bus!Spec => []SubscribedIsServed
<1>1. BusInv => SubscribedIsServed
  BY DEF BusInv, BusCallOK, ServedInv, SubscribedIsServed, Bus!SubscribedIsServed, Bus!Idle
<1> QED
  BY <1>1, BusInvariance, PTL

\* With MQTT, the broker's session has the topics with a callback and no others
\* whenever the bus is connected and not in a call, however often the connection
\* broke and wherever in a call.
THEOREM SessionMatchesCallbacks ==
    ASSUME ReplyIsTopic
    PROVE  Bus!Spec => []ResubscribedOnConnect
<1>1. BusInv => ResubscribedOnConnect
  <2> SUFFICES ASSUME BusInv, kind = "mqtt", Bus!Idle, link, connected, ~greeted
               PROVE  subscribed = callbacks
    BY DEF ResubscribedOnConnect, Bus!ResubscribedOnConnect
  <2>1. \A t \in subscribed : t \in callbacks
    BY DEF BusInv, MqttInv, NoStrangers, Bus!Idle
  <2>2. \A t \in callbacks : t \in subscribed
    BY DEF BusInv, MqttInv, NoneMissing, Bus!Idle
  <2> QED
    BY <2>1, <2>2
<1> QED
  BY <1>1, BusInvariance, PTL
-----------------------------------------------------------------------------
(* BusComponent, for any messages: what a handler sends is one answer or     *)
(* one dead letter, and one event for the journal.                           *)

NoneOf(s, S) == \A i \in 1..Len(s) : s[i] \notin S
OneOf(s, S) == \A i, j \in 1..Len(s) : s[i] \in S /\ s[j] \in S => i = j

LEMMA AppendedNone ==
    ASSUME NEW V, NEW s \in Seq(V), NEW x \in V, NEW S, NoneOf(s, S), x \notin S
    PROVE  NoneOf(Append(s, x), S)
  BY DEF NoneOf

LEMMA AppendedOne ==
    ASSUME NEW V, NEW s \in Seq(V), NEW x \in V, NEW S, OneOf(s, S), x \in S => NoneOf(s, S)
    PROVE  OneOf(Append(s, x), S)
  BY DEF NoneOf, OneOf

LEMMA TailNone ==
    ASSUME NEW V, NEW s \in Seq(V), s # <<>>, NEW S, NoneOf(s, S)
    PROVE  NoneOf(Tail(s), S) /\ Head(s) \notin S
  BY DEF NoneOf

LEMMA TailOne ==
    ASSUME NEW V, NEW s \in Seq(V), s # <<>>, NEW S, OneOf(s, S)
    PROVE  OneOf(Tail(s), S) /\ (Head(s) \in S => NoneOf(Tail(s), S))
<1>1. OneOf(Tail(s), S)
  BY DEF OneOf
<1>2. ASSUME Head(s) \in S PROVE NoneOf(Tail(s), S)
  <2> SUFFICES ASSUME NEW i \in 1..Len(Tail(s)), Tail(s)[i] \in S PROVE FALSE
    BY DEF NoneOf
  <2>1. 1 \in 1..Len(s) /\ i + 1 \in 1..Len(s) /\ s[1] = Head(s) /\ s[i + 1] = Tail(s)[i]
    OBVIOUS
  <2> QED
    BY <1>2, <2>1 DEF OneOf
<1> QED
  BY <1>1, <1>2
LEMMA JoinedNone ==
    ASSUME NEW V, NEW s \in Seq(V), NEW t \in Seq(V), NEW S, NoneOf(s, S), NoneOf(t, S)
    PROVE  NoneOf(s \o t, S)
  BY ConcatProperties DEF NoneOf

LEMMA JoinedOne ==
    ASSUME NEW V, NEW s \in Seq(V), NEW t \in Seq(V), NEW S, OneOf(s, S), OneOf(t, S),
           NoneOf(s, S) \/ NoneOf(t, S)
    PROVE  OneOf(s \o t, S)
<1> SUFFICES ASSUME NEW i \in 1..Len(s \o t), NEW j \in 1..Len(s \o t),
                    (s \o t)[i] \in S, (s \o t)[j] \in S
             PROVE  i = j
  BY DEF OneOf
<1>1. Len(s \o t) = Len(s) + Len(t) /\ Len(s) \in Nat /\ Len(t) \in Nat
  BY ConcatProperties
<1>2. \A k \in 1..Len(s \o t) : (s \o t)[k] = IF k <= Len(s) THEN s[k] ELSE t[k - Len(s)]
  BY <1>1, ConcatProperties
<1>3. CASE i <= Len(s) /\ j <= Len(s)
  <2>1. i \in 1..Len(s) /\ j \in 1..Len(s) /\ s[i] \in S /\ s[j] \in S
    BY <1>1, <1>2, <1>3
  <2> QED
    BY <2>1 DEF OneOf
<1>4. CASE i > Len(s) /\ j > Len(s)
  <2>1. i - Len(s) \in 1..Len(t) /\ j - Len(s) \in 1..Len(t)
    BY <1>1, <1>4
  <2>2. t[i - Len(s)] \in S /\ t[j - Len(s)] \in S
    BY <1>1, <1>2, <1>4
  <2>3. i - Len(s) = j - Len(s)
    BY <2>1, <2>2 DEF OneOf
  <2> QED
    BY <1>1, <2>3
<1>5. CASE (i <= Len(s)) # (j <= Len(s))
  <2> DEFINE lo == IF i <= Len(s) THEN i ELSE j
             hi == IF i <= Len(s) THEN j ELSE i
  <2>1. lo \in 1..Len(s) /\ hi - Len(s) \in 1..Len(t)
    BY <1>1, <1>5
  <2>2. s[lo] \in S /\ t[hi - Len(s)] \in S
    BY <1>1, <1>2, <1>5
  <2> QED
    BY <2>1, <2>2 DEF NoneOf
<1> QED
  BY <1>1, <1>3, <1>4, <1>5
-----------------------------------------------------------------------------
Places == {"inbox", "handling", "asked", "approved", "denied", "done"}
OnBus == Component!Sends \cup {"security_blocked"}

MessageType ==
    /\ place \in [Messages -> Places]
    /\ outbox \in [Messages -> Seq(OnBus)]
    /\ sent \in [Messages -> Seq(OnBus)]
    /\ wants \in [Messages -> BOOLEAN]

\* What a handler may end with: to a sender that asked an answer, else a dead letter.
EndsOf(m) == {s \in Component!Ends : (s = "dead_letter") = ~wants[m]}

\* What goes out for a message: at most one end, of its kind, and one event.
Fits(m, s) ==
    /\ OneOf(s, Component!Ends)
    /\ OneOf(s, {"log_event"})
    /\ NoneOf(s, Component!Ends \ EndsOf(m))

LEMMA OneSend ==
    ASSUME NEW p \in BOOLEAN, NEW s \in OnBus
    PROVE  /\ Component!When(p, s) \in Seq(OnBus)
           /\ ~p => Component!When(p, s) = <<>>
           /\ Len(Component!When(p, s)) \in {0, 1}
           /\ \A i \in 1..Len(Component!When(p, s)) : Component!When(p, s)[i] = s
  BY DEF Component!When

LEMMA HandledFits ==
    ASSUME MessageType, NEW m \in Messages, class \in Component!Classes,
           NEW res \in Component!Results
    PROVE  /\ Component!Handled(m, res) \in Seq(OnBus) /\ Fits(m, Component!Handled(m, res))
           /\ Component!Unknown(m) \in Seq(OnBus) /\ Fits(m, Component!Unknown(m))
<1> DEFINE Plain(s) == s \in Seq(OnBus) /\ Fits(m, s) /\ NoneOf(s, {"log_event"})
<1>0. wants[m] \in BOOLEAN /\ (~wants[m] /\ Component!DeadLetters) \in BOOLEAN
  BY DEF MessageType
<1>1. <<>> \in Seq(OnBus) /\ Plain(<<>>)
  BY DEF Fits, OneOf, NoneOf
<1>2. \A a \in {"error", "failure", "response"} :
        /\ a \in OnBus
        /\ Plain(Component!When(wants[m], a))
        /\ Plain(Component!When(wants[m], a) \o
                 Component!When(~wants[m] /\ Component!DeadLetters, "dead_letter"))
  <2> SUFFICES ASSUME NEW a \in {"error", "failure", "response"}
               PROVE  /\ a \in OnBus
                      /\ Plain(Component!When(wants[m], a))
                      /\ Plain(Component!When(wants[m], a) \o
                              Component!When(~wants[m] /\ Component!DeadLetters, "dead_letter"))
    OBVIOUS
  <2> DEFINE x == Component!When(wants[m], a)
             y == Component!When(~wants[m] /\ Component!DeadLetters, "dead_letter")
  <2>1. a \in OnBus /\ "dead_letter" \in OnBus
    BY DEF OnBus, Component!Sends
  <2>2. /\ x \in Seq(OnBus) /\ (~wants[m] => x = <<>>) /\ Len(x) \in {0, 1}
        /\ \A i \in 1..Len(x) : x[i] = a
    BY <1>0, <2>1, OneSend
  <2>3. /\ y \in Seq(OnBus) /\ (wants[m] => y = <<>>) /\ Len(y) \in {0, 1}
        /\ \A i \in 1..Len(y) : y[i] = "dead_letter"
    BY <1>0, <2>1, OneSend
  <2> HIDE DEF x, y
  <2>4. Plain(x)
    BY <1>0, <2>2 DEF Fits, OneOf, NoneOf, EndsOf, Component!Ends
  <2>5. Plain(y)
    BY <1>0, <2>3 DEF Fits, OneOf, NoneOf, EndsOf, Component!Ends
  <2>6. x \o y = IF wants[m] THEN x ELSE y
    BY <1>0, <2>2, <2>3
  <2> QED
    BY <2>1, <2>4, <2>5, <2>6 DEF x, y
<1>3. Plain(Component!Answered(m)) /\ Plain(Component!Failed(m)) /\ Plain(Component!Unknown(m))
  BY <1>2 DEF Component!Answered, Component!Failed, Component!Unknown
<1> HIDE DEF Plain
<1>4. \A r \in Component!Results : Plain(Component!Replied(m, r))
  BY <1>1, <1>3 DEF Component!Replied, Component!Results
<1>5. /\ <<"log_event">> \in Seq(OnBus) /\ Fits(m, <<"log_event">>)
      /\ NoneOf(<<"log_event">>, Component!Ends)
  BY DEF Fits, OneOf, NoneOf, EndsOf, OnBus, Component!Ends, Component!Sends
<1>6. /\ <<"proxied">> \in Seq(OnBus) /\ Fits(m, <<"proxied">>)
      /\ NoneOf(<<"proxied">>, Component!Ends) /\ NoneOf(<<"proxied">>, {"log_event"})
  BY DEF Fits, OneOf, NoneOf, EndsOf, OnBus, Component!Ends, Component!Sends
<1>7. ASSUME NEW s \in Seq(OnBus), Plain(s)
      PROVE  s \o <<"log_event">> \in Seq(OnBus) /\ Fits(m, s \o <<"log_event">>)
  <2>1. s \o <<"log_event">> \in Seq(OnBus)
    BY <1>5
  <2>2. /\ OneOf(s \o <<"log_event">>, Component!Ends)
        /\ OneOf(s \o <<"log_event">>, {"log_event"})
    BY <1>5, <1>7, JoinedOne DEF Fits, Plain
  <2>3. NoneOf(s \o <<"log_event">>, Component!Ends \ EndsOf(m))
    BY <1>5, <1>7, JoinedNone DEF Fits, Plain
  <2> QED
    BY <2>1, <2>2, <2>3 DEF Fits
<1>8. ASSUME NEW s \in Seq(OnBus), Fits(m, s)
      PROVE  <<"proxied">> \o s \in Seq(OnBus) /\ Fits(m, <<"proxied">> \o s)
  <2>1. <<"proxied">> \o s \in Seq(OnBus)
    BY <1>6
  <2>2. /\ OneOf(<<"proxied">> \o s, Component!Ends)
        /\ OneOf(<<"proxied">> \o s, {"log_event"})
    BY <1>6, <1>8, JoinedOne DEF Fits
  <2>3. NoneOf(<<"proxied">> \o s, Component!Ends \ EndsOf(m))
    BY <1>6, <1>8, JoinedNone DEF Fits
  <2> QED
    BY <2>1, <2>2, <2>3 DEF Fits
<1>10. \A r \in Component!Results :
         /\ Component!Replied(m, r) \in Seq(OnBus) /\ Fits(m, Component!Replied(m, r))
         /\ Component!SystemSends(m, r) \in Seq(OnBus) /\ Fits(m, Component!SystemSends(m, r))
         /\ Component!GatewaySends(m, r) \in Seq(OnBus) /\ Fits(m, Component!GatewaySends(m, r))
  <2> TAKE r \in Component!Results
  <2>1. Component!Replied(m, r) \in Seq(OnBus) /\ Fits(m, Component!Replied(m, r))
    BY <1>4 DEF Plain
  <2>2. Component!SystemSends(m, r) \in Seq(OnBus) /\ Fits(m, Component!SystemSends(m, r))
    BY <1>4, <1>7, <2>1 DEF Component!SystemSends, Component!Journalled
  <2>3. Component!GatewaySends(m, r) \in Seq(OnBus) /\ Fits(m, Component!GatewaySends(m, r))
    BY <1>8, <2>2 DEF Component!GatewaySends
  <2> QED
    BY <2>1, <2>2, <2>3
<1>11. Component!ComponentSends(m, res) = Component!SystemSends(m, res)
  BY DEF Component!ComponentSends, Component!SystemSends
<1>12. Component!Handled(m, res) \in Seq(OnBus) /\ Fits(m, Component!Handled(m, res))
  BY <1>10, <1>11 DEF Component!Handled, Component!SharedSends, Component!AsyncSends,
    Component!Classes
<1> QED
  BY <1>3, <1>12 DEF Plain
-----------------------------------------------------------------------------
(* What a step does to its message: nothing to the others but to ask.        *)

Underway == {"handling", "asked", "approved", "denied"}

ChannelType ==
    /\ MessageType
    /\ class \in Component!Classes /\ safe \in BOOLEAN
    /\ policy \in SUBSET OnBus
    /\ allowed \in [Messages -> SUBSET OnBus]
    /\ \A m \in Messages : place[m] \in Underway => outbox[m] # <<>>

\* _handle_message of an unread message.
Begun(m) ==
    /\ place[m] = "inbox"
    /\ \E sends \in Seq(OnBus) : Fits(m, sends) /\ Component!Left(m, sends)
    /\ UNCHANGED <<class, safe, wants, sent, allowed, policy>>

\* The first send of a message is done with, and may have gone out.
Progressed(m) ==
    /\ place[m] \in Underway
    /\ \/ sent' = sent
       \/ /\ sent' = [sent EXCEPT ![m] = Append(@, Component!Item(m))]
          /\ \/ ~safe \/ Component!Item(m) \in Component!Skipped
             \/ place[m] = "approved"
       \/ sent' = [sent EXCEPT ![m] = Append(@, "security_blocked")]
    /\ Component!Dequeue(m)
    /\ UNCHANGED <<class, safe, wants, allowed, policy>>

\* A question to the monitor, its answer, or a change of what it would answer.
Checked ==
    /\ UNCHANGED <<class, safe, wants, outbox, sent>>
    /\ \/ \E m \in Messages :
            Component!Ask(m) \/ Component!SecurityCheck(m) \/ Component!CheckTimeout(m)
       \/ Component!ChangePolicy

Still == UNCHANGED <<class, safe, wants, place, outbox, sent, allowed, policy>>

LEMMA ComponentSteps ==
    ASSUME ChannelType, [Component!Next]_(Component!vars)
    PROVE  Still \/ Checked \/ \E m \in Messages : Begun(m) \/ Progressed(m)
<1>1. CASE UNCHANGED Component!vars
  BY <1>1 DEF Still, Component!vars, Component!componentVars, Component!messageVars
<1>2. ASSUME NEW m \in Messages, Component!Handle(m)
      PROVE  Begun(m)
  <2>1. <<>> \in Seq(OnBus) /\ Fits(m, <<>>)
    BY DEF Fits, OneOf, NoneOf
  <2>2. PICK sends \in Seq(OnBus) : Fits(m, sends) /\ Component!Left(m, sends)
    <3>1. CASE action[m] = "none" /\ Component!Left(m, <<>>)
      BY <2>1, <3>1
    <3>2. CASE action[m] = "unknown" /\ Component!Left(m, Component!Unknown(m))
      <4>1. "value" \in Component!Results
        BY DEF Component!Results
      <4> QED
        BY <3>2, <4>1, HandledFits DEF ChannelType
    <3>3. CASE \E res \in Component!Results : Component!Left(m, Component!Handled(m, res))
      BY <3>3, HandledFits DEF ChannelType
    <3> QED
      BY <1>2, <3>1, <3>2, <3>3 DEF Component!Handle
  <2> QED
    BY <1>2, <2>2 DEF Component!Handle, Begun, Component!componentVars
<1>3. ASSUME NEW m \in Messages, Component!Publish(m)
      PROVE  Progressed(m)
  BY <1>3 DEF Component!Publish, Component!GoesOut, Progressed, Underway, Component!componentVars
<1>4. ASSUME NEW m \in Messages, Component!Approved(m)
      PROVE  Progressed(m)
  BY <1>4 DEF Component!Approved, Component!GoesOut, Progressed, Underway, Component!componentVars
<1>5. ASSUME NEW m \in Messages, Component!Denied(m)
      PROVE  Progressed(m)
  BY <1>5 DEF Component!Denied, Progressed, Underway, Component!componentVars
<1>6. ASSUME NEW m \in Messages,
             Component!Ask(m) \/ Component!SecurityCheck(m) \/ Component!CheckTimeout(m)
      PROVE  Checked
  BY <1>6 DEF Component!Ask, Component!SecurityCheck, Component!CheckTimeout, Checked,
    Component!componentVars
<1>7. CASE Component!ChangePolicy
  BY <1>7 DEF Component!ChangePolicy, Checked, Component!componentVars
<1>8. CASE Component!Logging
  BY <1>8 DEF Component!Logging, Still, Component!componentVars, Component!messageVars
<1> QED
  BY <1>1, <1>2, <1>3, <1>4, <1>5, <1>6, <1>7, <1>8 DEF Component!Next, Component!Outgoing
-----------------------------------------------------------------------------
LEMMA ItemOnBus ==
    ASSUME ChannelType, NEW m \in Messages, place[m] \in Underway
    PROVE  /\ Component!Item(m) \in OnBus
           /\ Tail(outbox[m]) \in Seq(OnBus)
<1>1. outbox[m] \in Seq(OnBus) /\ outbox[m] # <<>>
  BY DEF ChannelType, MessageType
<1> QED
  BY <1>1 DEF Component!Item

LEMMA LeftKeepsType ==
    ASSUME ChannelType, NEW m \in Messages, NEW sends \in Seq(OnBus), Component!Left(m, sends)
    PROVE  /\ place' \in [Messages -> Places]
           /\ outbox' \in [Messages -> Seq(OnBus)]
           /\ \A n \in Messages : place'[n] \in Underway => outbox'[n] # <<>>
           /\ outbox'[m] = sends
           /\ place'[m] \in {"done", "handling"}
           /\ \A n \in Messages \ {m} : place'[n] = place[n] /\ outbox'[n] = outbox[n]
  BY DEF ChannelType, MessageType, Component!Left, Places, Underway

LEMMA ProgressedSent ==
    ASSUME ChannelType, NEW m \in Messages, Progressed(m)
    PROVE  /\ sent' \in [Messages -> Seq(OnBus)]
           /\ \A n \in Messages \ {m} : sent'[n] = sent[n]
           /\ \/ sent'[m] = sent[m]
              \/ /\ sent'[m] = Append(sent[m], Component!Item(m))
                 /\ \/ ~safe \/ Component!Item(m) \in Component!Skipped
                    \/ place[m] = "approved"
              \/ sent'[m] = Append(sent[m], "security_blocked")
<1>1. Component!Item(m) \in OnBus /\ "security_blocked" \in OnBus
  BY ItemOnBus DEF Progressed, OnBus
<1>2. sent \in [Messages -> Seq(OnBus)]
  BY DEF ChannelType, MessageType
<1>3. Append(sent[m], Component!Item(m)) \in Seq(OnBus)
      /\ Append(sent[m], "security_blocked") \in Seq(OnBus)
  BY <1>1, <1>2
<1> QED
  BY <1>2, <1>3 DEF Progressed

LEMMA ChannelTypeStep ==
    ASSUME ChannelType, [Component!Next]_(Component!vars)
    PROVE  ChannelType'
<1>1. CASE Still
  BY <1>1 DEF Still, ChannelType, MessageType
<1>2. CASE Checked
  <2>1. ASSUME NEW m \in Messages, Component!Ask(m)
        PROVE  ChannelType'
    BY <1>2, <2>1 DEF Component!Ask, Checked, ChannelType, MessageType, Places, Underway
  <2>2. ASSUME NEW m \in Messages, Component!SecurityCheck(m)
        PROVE  ChannelType'
    BY <1>2, <2>2 DEF Component!SecurityCheck, Checked, ChannelType, MessageType, Places, Underway
  <2>3. ASSUME NEW m \in Messages, Component!CheckTimeout(m)
        PROVE  ChannelType'
    BY <1>2, <2>3 DEF Component!CheckTimeout, Checked, ChannelType, MessageType, Places, Underway
  <2>4. CASE Component!ChangePolicy
    <3>1. policy' \in SUBSET OnBus
      BY <2>4 DEF Component!ChangePolicy, Component!Policies, OnBus
    <3>2. allowed' \in [Messages -> SUBSET OnBus]
      BY <2>4 DEF Component!ChangePolicy, ChannelType, Component!Policies, OnBus
    <3> QED
      BY <1>2, <2>4, <3>1, <3>2 DEF Checked, Component!ChangePolicy, ChannelType, MessageType
  <2> QED
    BY <1>2, <2>1, <2>2, <2>3, <2>4 DEF Checked
<1>3. ASSUME NEW m \in Messages, Begun(m)
      PROVE  ChannelType'
  BY <1>3, LeftKeepsType DEF Begun, ChannelType, MessageType
<1>4. ASSUME NEW m \in Messages, Progressed(m)
      PROVE  ChannelType'
  <2>1. Tail(outbox[m]) \in Seq(OnBus)
    BY <1>4, ItemOnBus DEF Progressed
  <2>2. Component!Left(m, Tail(outbox[m]))
    BY <1>4 DEF Progressed, Component!Dequeue
  <2> QED
    BY <1>4, <2>1, <2>2, LeftKeepsType, ProgressedSent DEF Progressed, ChannelType, MessageType
<1> QED
  BY <1>1, <1>2, <1>3, <1>4, ComponentSteps
-----------------------------------------------------------------------------
(* One answer: over what went out and what is left to send there is one end  *)
(* and one event.                                                            *)

AnswerInv == \A m \in Messages :
    /\ place[m] = "inbox" => sent[m] = <<>>
    /\ Fits(m, sent[m]) /\ Fits(m, outbox[m])
    /\ \A S \in {Component!Ends, {"log_event"}} : NoneOf(sent[m], S) \/ NoneOf(outbox[m], S)

LEMMA AnswerStep ==
    ASSUME ChannelType, ChannelType', AnswerInv, [Component!Next]_(Component!vars)
    PROVE  AnswerInv'
<1>1. CASE Still
  BY <1>1 DEF Still, AnswerInv, Fits, EndsOf
<1>2. CASE Checked
  BY <1>2 DEF Checked, AnswerInv, Fits, EndsOf, Component!Ask, Component!SecurityCheck,
    Component!CheckTimeout, Component!ChangePolicy, ChannelType, MessageType
<1>3. ASSUME NEW m \in Messages, Begun(m)
      PROVE  AnswerInv'
  <2>1. PICK sends \in Seq(OnBus) : Fits(m, sends) /\ Component!Left(m, sends)
    BY <1>3 DEF Begun
  <2>2. sent[m] = <<>> /\ sent' = sent /\ wants' = wants
    BY <1>3 DEF Begun, AnswerInv
  <2>3. \A S : NoneOf(<<>>, S)
    BY DEF NoneOf
  <2> SUFFICES ASSUME NEW n \in Messages
               PROVE  /\ place'[n] = "inbox" => sent[n] = <<>>
                      /\ Fits(n, sent[n]) /\ Fits(n, outbox'[n])
                      /\ \A S \in {Component!Ends, {"log_event"}} :
                            NoneOf(sent[n], S) \/ NoneOf(outbox'[n], S)
    BY <2>2 DEF AnswerInv, Fits, EndsOf
  <2>4. CASE n = m
    BY <2>1, <2>2, <2>3, <2>4, LeftKeepsType DEF AnswerInv
  <2>5. CASE n # m
    BY <2>1, <2>5, LeftKeepsType DEF AnswerInv
  <2> QED
    BY <2>4, <2>5
<1>4. ASSUME NEW m \in Messages, Progressed(m)
      PROVE  AnswerInv'
  <2>1. wants' = wants /\ place[m] # "inbox" /\ place[m] \in Underway
    BY <1>4 DEF Progressed, Underway
  <2> SUFFICES ASSUME NEW n \in Messages
               PROVE  /\ place'[n] = "inbox" => sent'[n] = <<>>
                      /\ Fits(n, sent'[n]) /\ Fits(n, outbox'[n])
                      /\ \A S \in {Component!Ends, {"log_event"}} :
                            NoneOf(sent'[n], S) \/ NoneOf(outbox'[n], S)
    BY <2>1 DEF AnswerInv, Fits, EndsOf
  <2>2. Tail(outbox[m]) \in Seq(OnBus) /\ Component!Item(m) \in OnBus
    BY <2>1, ItemOnBus
  <2>3. Component!Left(m, Tail(outbox[m]))
    BY <1>4 DEF Progressed, Component!Dequeue
  <2>4. CASE n # m
    <3>1. sent'[n] = sent[n]
      BY <1>4, <2>4, ProgressedSent
    <3>2. outbox'[n] = outbox[n] /\ place'[n] = place[n]
      BY <2>2, <2>3, <2>4, LeftKeepsType
    <3> QED
      BY <3>1, <3>2 DEF AnswerInv
  <2>5. CASE n = m
    <3>1. outbox'[m] = Tail(outbox[m]) /\ place'[m] # "inbox"
      BY <2>2, <2>3, LeftKeepsType
    <3>2. outbox[m] \in Seq(OnBus) /\ outbox[m] # <<>> /\ sent[m] \in Seq(OnBus)
      BY <2>1 DEF ChannelType, MessageType
    <3> DEFINE Wrong == Component!Ends \ EndsOf(m)
               blocked == "security_blocked"
    <3>3. /\ Fits(m, Tail(outbox[m])) /\ Component!Item(m) \notin Wrong
          /\ \A S \in {Component!Ends, {"log_event"}} :
               Component!Item(m) \in S => NoneOf(Tail(outbox[m]), S) /\ NoneOf(sent[m], S)
      BY <3>2, TailOne, TailNone DEF AnswerInv, Fits, Component!Item
    <3>4. \A S : NoneOf(outbox[m], S) => NoneOf(Tail(outbox[m]), S) /\ Component!Item(m) \notin S
      BY <3>2, TailNone DEF Component!Item
    <3>5. CASE sent'[m] = sent[m]
      BY <2>5, <3>1, <3>3, <3>4, <3>5 DEF AnswerInv
    <3>6. ASSUME NEW x \in OnBus, sent'[m] = Append(sent[m], x), x \notin Wrong,
                 \A S \in {Component!Ends, {"log_event"}} :
                    x \in S => NoneOf(Tail(outbox[m]), S) /\ NoneOf(sent[m], S)
          PROVE  /\ Fits(m, sent'[m])
                 /\ \A S \in {Component!Ends, {"log_event"}} :
                       NoneOf(sent'[m], S) \/ NoneOf(outbox'[m], S)
      <4>0. /\ OneOf(sent[m], Component!Ends) /\ OneOf(sent[m], {"log_event"})
            /\ NoneOf(sent[m], Wrong)
        BY DEF AnswerInv, Fits
      <4>1. \A S \in {Component!Ends, {"log_event"}} : OneOf(Append(sent[m], x), S)
        BY <3>2, <3>6, <4>0, AppendedOne
      <4>2. NoneOf(Append(sent[m], x), Wrong)
        BY <3>2, <3>6, <4>0, AppendedNone
      <4>3. ASSUME NEW S \in {Component!Ends, {"log_event"}}
            PROVE  NoneOf(sent'[m], S) \/ NoneOf(outbox'[m], S)
        <5>1. CASE x \in S
          BY <3>1, <3>6, <5>1
        <5>2. CASE x \notin S /\ NoneOf(sent[m], S)
          BY <3>2, <3>6, <5>2, AppendedNone
        <5>3. CASE NoneOf(outbox[m], S)
          BY <3>1, <3>4, <5>3
        <5> QED
          BY <5>1, <5>2, <5>3 DEF AnswerInv
      <4> QED
        BY <3>6, <4>1, <4>2, <4>3 DEF Fits
    <3>7. CASE sent'[m] = Append(sent[m], Component!Item(m))
      BY <2>2, <2>5, <3>1, <3>3, <3>6, <3>7
    <3>8. CASE sent'[m] = Append(sent[m], blocked)
      <4>1. blocked \in OnBus /\ blocked \notin Component!Ends /\ blocked \notin {"log_event"}
        BY DEF OnBus, Component!Ends
      <4> QED
        BY <2>5, <3>1, <3>3, <3>6, <3>8, <4>1
    <3> QED
      BY <1>4, <3>5, <3>7, <3>8, ProgressedSent
  <2> QED
    BY <2>4, <2>5
<1> QED
  BY <1>1, <1>2, <1>3, <1>4, ComponentSteps
-----------------------------------------------------------------------------
(* Nothing unchecked: what the monitor's policy allows or allowed to a       *)
(* message that asked is among what it was allowed while it asked.           *)

CheckInv == \A m \in Messages :
    /\ place[m] = "asked" /\ Component!Item(m) \in policy => Component!Item(m) \in allowed[m]
    /\ place[m] = "approved" => Component!Item(m) \in allowed[m]
    /\ safe => NoneOf(sent[m], OnBus \ (Component!Skipped \cup allowed[m]))

LEMMA CheckStep ==
    ASSUME ChannelType, CheckInv, [Component!Next]_(Component!vars)
    PROVE  CheckInv'
<1>1. CASE Still
  BY <1>1 DEF Still, CheckInv, Component!Item
<1>2. CASE Checked
  <2>1. sent' = sent /\ outbox' = outbox /\ safe' = safe
    BY <1>2 DEF Checked
  <2>2. \A m \in Messages : Component!Item(m)' = Component!Item(m)
    BY <2>1 DEF Component!Item
  <2>3. ASSUME \A m \in Messages :
                 /\ allowed[m] \subseteq allowed'[m]
                 /\ place'[m] = "asked" /\ Component!Item(m) \in policy'
                        => Component!Item(m) \in allowed'[m]
                 /\ place'[m] = "approved" => Component!Item(m) \in allowed'[m]
        PROVE  CheckInv'
    <3>1. \A m \in Messages :
            safe => NoneOf(sent[m], OnBus \ (Component!Skipped \cup allowed'[m]))
      BY <2>3 DEF CheckInv, NoneOf
    <3> QED
      BY <2>1, <2>2, <2>3, <3>1 DEF CheckInv, Component!Skipped
  <2>4. ASSUME NEW m \in Messages, Component!Ask(m)
        PROVE  CheckInv'
    <3>1. /\ policy' = policy
          /\ place' = [place EXCEPT ![m] = "asked"]
          /\ allowed' = [allowed EXCEPT ![m] = @ \cup ({Component!Item(m)} \cap policy)]
      BY <2>4 DEF Component!Ask
    <3>2. allowed'[m] = allowed[m] \cup ({Component!Item(m)} \cap policy)
      BY <3>1 DEF ChannelType
    <3>3. \A n \in Messages \ {m} : allowed'[n] = allowed[n] /\ place'[n] = place[n]
      BY <3>1 DEF ChannelType, MessageType
    <3>4. place'[m] = "asked"
      BY <3>1 DEF ChannelType, MessageType
    <3>5. ASSUME NEW n \in Messages
          PROVE  /\ allowed[n] \subseteq allowed'[n]
                 /\ place'[n] = "asked" /\ Component!Item(n) \in policy'
                        => Component!Item(n) \in allowed'[n]
                 /\ place'[n] = "approved" => Component!Item(n) \in allowed'[n]
      <4>1. CASE n = m
        BY <3>1, <3>2, <3>4, <4>1
      <4>2. CASE n # m
        BY <3>1, <3>3, <4>2 DEF CheckInv
      <4> QED
        BY <4>1, <4>2
    <3> QED
      BY <2>3, <3>5
  <2>5. ASSUME NEW m \in Messages, Component!SecurityCheck(m)
        PROVE  CheckInv'
    <3>1. /\ policy' = policy /\ allowed' = allowed /\ place[m] = "asked"
          /\ place' = [place EXCEPT ![m] =
                IF Component!Item(m) \in policy THEN "approved" ELSE "denied"]
      BY <2>5 DEF Component!SecurityCheck
    <3>2. place'[m] = IF Component!Item(m) \in policy THEN "approved" ELSE "denied"
      BY <3>1 DEF ChannelType, MessageType
    <3>3. \A n \in Messages \ {m} : place'[n] = place[n]
      BY <3>1 DEF ChannelType, MessageType
    <3>4. ASSUME NEW n \in Messages
          PROVE  /\ allowed[n] \subseteq allowed'[n]
                 /\ place'[n] = "asked" /\ Component!Item(n) \in policy'
                        => Component!Item(n) \in allowed'[n]
                 /\ place'[n] = "approved" => Component!Item(n) \in allowed'[n]
      <4>1. CASE n = m
        <5>1. Component!Item(m) \in policy => Component!Item(m) \in allowed[m]
          BY <3>1 DEF CheckInv
        <5>2. place'[m] # "asked" /\ (place'[m] = "approved" => Component!Item(m) \in policy)
          BY <3>2
        <5> QED
          BY <3>1, <4>1, <5>1, <5>2
      <4>2. CASE n # m
        BY <3>1, <3>3, <4>2 DEF CheckInv
      <4> QED
        BY <4>1, <4>2
    <3> QED
      BY <2>3, <3>4
  <2>6. ASSUME NEW m \in Messages, Component!CheckTimeout(m)
        PROVE  CheckInv'
    <3>1. /\ policy' = policy /\ allowed' = allowed
          /\ place' = [place EXCEPT ![m] = "denied"]
      BY <2>6 DEF Component!CheckTimeout
    <3>2. place'[m] = "denied" /\ \A n \in Messages \ {m} : place'[n] = place[n]
      BY <3>1 DEF ChannelType, MessageType
    <3>3. ASSUME NEW n \in Messages
          PROVE  /\ place'[n] = "asked" /\ Component!Item(n) \in policy'
                        => Component!Item(n) \in allowed'[n]
                 /\ place'[n] = "approved" => Component!Item(n) \in allowed'[n]
      <4>1. CASE n = m
        BY <3>2, <4>1
      <4>2. CASE n # m
        BY <3>1, <3>2, <4>2 DEF CheckInv
      <4> QED
        BY <4>1, <4>2
    <3> QED
      BY <2>3, <3>1, <3>3
  <2>7. CASE Component!ChangePolicy
    <3>1. /\ place' = place
          /\ allowed' = [m \in Messages |->
                IF place[m] = "asked" THEN allowed[m] \cup ({Component!Item(m)} \cap policy')
                                      ELSE allowed[m]]
      BY <2>7 DEF Component!ChangePolicy
    <3>2. \A m \in Messages : allowed'[m] =
                IF place[m] = "asked" THEN allowed[m] \cup ({Component!Item(m)} \cap policy')
                                      ELSE allowed[m]
      BY <3>1
    <3> QED
      BY <2>3, <3>1, <3>2 DEF CheckInv
  <2> QED
    BY <1>2, <2>4, <2>5, <2>6, <2>7 DEF Checked
<1>3. ASSUME NEW m \in Messages, Begun(m)
      PROVE  CheckInv'
  <2>1. PICK sends \in Seq(OnBus) : Component!Left(m, sends)
    BY <1>3 DEF Begun
  <2>2. /\ place'[m] \in {"done", "handling"}
        /\ \A n \in Messages \ {m} : place'[n] = place[n] /\ outbox'[n] = outbox[n]
    BY <2>1, LeftKeepsType
  <2>3. sent' = sent /\ safe' = safe /\ allowed' = allowed /\ policy' = policy
    BY <1>3 DEF Begun
  <2>4. \A n \in Messages \ {m} : Component!Item(n)' = Component!Item(n)
    BY <2>2 DEF Component!Item
  <2> QED
    BY <2>2, <2>3, <2>4 DEF CheckInv, Component!Skipped
<1>4. ASSUME NEW m \in Messages, Progressed(m)
      PROVE  CheckInv'
  <2>1. /\ Tail(outbox[m]) \in Seq(OnBus) /\ Component!Item(m) \in OnBus
        /\ Component!Left(m, Tail(outbox[m]))
    BY <1>4, ItemOnBus DEF Progressed, Component!Dequeue
  <2>2. /\ place'[m] \in {"done", "handling"}
        /\ \A n \in Messages \ {m} : place'[n] = place[n] /\ outbox'[n] = outbox[n]
    BY <2>1, LeftKeepsType
  <2>3. safe' = safe /\ allowed' = allowed /\ policy' = policy
    BY <1>4 DEF Progressed
  <2>4. \A n \in Messages \ {m} : Component!Item(n)' = Component!Item(n)
    BY <2>2 DEF Component!Item
  <2>5. \A n \in Messages \ {m} : sent'[n] = sent[n]
    BY <1>4, ProgressedSent
  <2>6. ASSUME safe
        PROVE  NoneOf(sent'[m], OnBus \ (Component!Skipped \cup allowed[m]))
    <3> DEFINE Unchecked == OnBus \ (Component!Skipped \cup allowed[m])
    <3>1. sent[m] \in Seq(OnBus) /\ NoneOf(sent[m], Unchecked)
      BY <2>6 DEF ChannelType, MessageType, CheckInv
    <3>2. "security_blocked" \in OnBus /\ "security_blocked" \notin Unchecked
      BY DEF OnBus, Component!Skipped
    <3>3. CASE sent'[m] = sent[m]
      BY <3>1, <3>3
    <3>4. CASE sent'[m] = Append(sent[m], "security_blocked")
      BY <3>1, <3>2, <3>4, AppendedNone
    <3>5. CASE /\ sent'[m] = Append(sent[m], Component!Item(m))
               /\ Component!Item(m) \in Component!Skipped \/ place[m] = "approved"
      <4>1. Component!Item(m) \notin Unchecked
        BY <3>5 DEF CheckInv
      <4> QED
        BY <2>1, <3>1, <3>5, <4>1, AppendedNone
    <3> QED
      BY <1>4, <2>6, <3>3, <3>4, <3>5, ProgressedSent
  <2> QED
    BY <2>2, <2>3, <2>4, <2>5, <2>6 DEF CheckInv, Component!Skipped
<1> QED
  BY <1>1, <1>2, <1>3, <1>4, ComponentSteps
-----------------------------------------------------------------------------
ChannelInv == ChannelType /\ AnswerInv /\ CheckInv

LEMMA ChannelInit == Component!Init => ChannelInv
<1> SUFFICES ASSUME Component!Init PROVE ChannelInv
  OBVIOUS
<1>1. /\ \A S : NoneOf(<<>>, S) /\ OneOf(<<>>, S)
      /\ <<>> \in Seq(OnBus)
  BY DEF NoneOf, OneOf
<1>2. ChannelType
  BY <1>1 DEF Component!Init, ChannelType, MessageType, Places, Underway, OnBus,
    Component!Policies
<1>3. AnswerInv
  BY <1>1 DEF Component!Init, AnswerInv, Fits
<1>4. CheckInv
  BY <1>1 DEF Component!Init, CheckInv
<1> QED
  BY <1>2, <1>3, <1>4 DEF ChannelInv

LEMMA ChannelStep == ChannelInv /\ [Component!Next]_(Component!vars) => ChannelInv'
  BY ChannelTypeStep, AnswerStep, CheckStep DEF ChannelInv

LEMMA ChannelInvariant == Component!Spec => []ChannelInv
  BY ChannelInit, ChannelStep, PTL DEF Component!Spec

\* Whatever a component's handlers return, raise and send, and whatever the monitor and
\* the journal do, a message is answered once, or leaves one dead letter if nobody asked.
THEOREM AnswersOnce == Component!Spec => []AnsweredOnce
<1>1. ChannelInv => AnsweredOnce
  <2> SUFFICES ASSUME ChannelInv, NEW m \in Messages,
                      NEW i \in Component!EndsAt(m), NEW j \in Component!EndsAt(m)
               PROVE  i = j /\ (sent[m][i] = "dead_letter") = ~wants[m]
    BY DEF AnsweredOnce, Component!AnsweredOnce
  <2>1. /\ OneOf(sent[m], Component!Ends)
        /\ NoneOf(sent[m], Component!Ends \ EndsOf(m))
    BY DEF ChannelInv, AnswerInv, Fits
  <2>2. /\ i \in 1..Len(sent[m]) /\ sent[m][i] \in Component!Ends
        /\ j \in 1..Len(sent[m]) /\ sent[m][j] \in Component!Ends
    BY DEF Component!EndsAt
  <2>3. i = j
    BY <2>1, <2>2 DEF OneOf
  <2>4. sent[m][i] \in EndsOf(m)
    BY <2>1, <2>2 DEF NoneOf
  <2> QED
    BY <2>3, <2>4 DEF EndsOf
<1> QED
  BY <1>1, ChannelInvariant, PTL

\* A SafeBus lets out only answers, dead letters, and what the monitor's policy allowed
\* at some time between the question and the answer.
THEOREM AllIsChecked == Component!Spec => []NothingUnchecked
<1>1. ChannelInv => NothingUnchecked
  <2> SUFFICES ASSUME ChannelInv, safe, NEW m \in Messages, NEW i \in 1..Len(sent[m])
               PROVE  sent[m][i] \in Component!Skipped \cup allowed[m]
    BY DEF NothingUnchecked, Component!NothingUnchecked
  <2>1. sent[m][i] \in OnBus
    BY DEF ChannelInv, ChannelType, MessageType
  <2> QED
    BY <2>1 DEF ChannelInv, CheckInv, NoneOf
<1> QED
  BY <1>1, ChannelInvariant, PTL
-----------------------------------------------------------------------------
(* The journal: an event is in one place.                                    *)

Journalled(e) == \E i \in 1..Len(sent[e]) : sent[e][i] = "log_event"
Threads == Component!Journal!Threads

JournalType ==
    /\ arrived \in SUBSET Messages /\ buffer \in SUBSET Messages /\ lost \in SUBSET Messages
    /\ inHand \in [Threads -> SUBSET Messages]
    /\ posted \in [Messages -> {0, 1}]

\* Where an event may be besides the hands of a thread ...
Outside(e) == e \in arrived \cup buffer \cup lost \/ posted[e] = 1

\* ... and there in one place only.
OnePlace(e) ==
    /\ e \in arrived => e \notin buffer \cup lost /\ posted[e] = 0
    /\ e \in buffer => e \notin lost /\ posted[e] = 0
    /\ e \in lost => posted[e] = 0

InHands(e) == \E t \in Threads : e \in inHand[t]

\* A handler holds a batch only while its own event is in it, so that the next batch it
\* takes overwrites nothing; nor does that of stop(), which takes one batch.
JournalInv ==
    /\ JournalType
    /\ \A e \in Messages :
        /\ OnePlace(e)
        /\ \A t, u \in Threads : e \in inHand[t] /\ e \in inHand[u] => t = u
        /\ InHands(e) => ~Outside(e)
        /\ InHands(e) \/ Outside(e) => Journalled(e)
        /\ journal = "running" /\ Journalled(e) => InHands(e) \/ Outside(e)
        /\ inHand[e] # {} => e \in inHand[e]
    /\ journal = "running" => inHand["stop"] = {}

LEMMA ThreadsAre ==
    /\ Messages \subseteq Threads /\ "flush" \in Threads /\ "stop" \in Threads
    /\ "flush" \notin Messages /\ "stop" \notin Messages
  BY MessagesAssumption DEF Threads, Component!Journal!Threads
-----------------------------------------------------------------------------
(* A batch that is taken, and the steps of the journal.                      *)

\* From the buffer, or from the hand that brings the last event, to a free hand.
Taken(t, entries) ==
    /\ entries \in SUBSET Messages /\ buffer \subseteq entries
    /\ inHand[t] = {}
    /\ \A e \in entries : ~InHands(e) /\ e \notin lost /\ posted[e] = 0
    /\ Component!Journal!TakeBatch(t, entries)
    /\ arrived' = arrived \ entries
    /\ \A e \in arrived \ entries : e \notin buffer
    /\ lost' = lost /\ posted' = posted

LEMMA TakenKeeps ==
    ASSUME JournalInv, NEW t \in Threads, NEW entries, Taken(t, entries),
           \A e \in entries : e \in buffer \/ e \in arrived,
           t \in Messages => t \in entries,
           t = "stop" => journal' # "running",
           journal' = "running" => journal = "running",
           sent' = sent
    PROVE  JournalInv'
<1>1. /\ inHand' = [inHand EXCEPT ![t] = entries] /\ buffer' = {}
      /\ lost' = lost /\ posted' = posted /\ arrived' = arrived \ entries
      /\ entries \in SUBSET Messages /\ inHand[t] = {}
  BY DEF Taken, Component!Journal!TakeBatch
<1>2. inHand'[t] = entries /\ \A u \in Threads \ {t} : inHand'[u] = inHand[u]
  BY <1>1 DEF JournalInv, JournalType
<1>3. JournalType'
  BY <1>1 DEF JournalInv, JournalType
<1>4. ASSUME NEW e \in Messages
      PROVE  /\ OnePlace(e)'
             /\ \A v, u \in Threads : e \in inHand'[v] /\ e \in inHand'[u] => v = u
             /\ InHands(e)' => ~Outside(e)'
             /\ InHands(e)' \/ Outside(e)' => Journalled(e)'
             /\ journal' = "running" /\ Journalled(e)' => InHands(e)' \/ Outside(e)'
             /\ inHand'[e] # {} => e \in inHand'[e]
  <2>1. Journalled(e)' = Journalled(e)
    BY DEF Journalled
  <2>2. CASE e \in entries
    <3>1. ~InHands(e) /\ e \notin lost /\ posted[e] = 0
      BY <2>2 DEF Taken
    <3>2. InHands(e)' /\ ~Outside(e)' /\ OnePlace(e)'
      BY <1>1, <1>2, <2>2, <3>1 DEF InHands, Outside, OnePlace
    <3>3. \A v, u \in Threads : e \in inHand'[v] /\ e \in inHand'[u] => v = u
      BY <1>1, <1>2, <3>1 DEF InHands
    <3>4. Outside(e) /\ Journalled(e)
      BY <2>2 DEF Outside, JournalInv
    <3>5. inHand'[e] # {} => e \in inHand'[e]
      BY <1>2, <2>2, ThreadsAre DEF JournalInv
    <3> QED
      BY <2>1, <3>2, <3>3, <3>4, <3>5
  <2>3. CASE e \notin entries
    <3>1. InHands(e)' = InHands(e)
      BY <1>1, <1>2, <2>3 DEF InHands
    <3>2. e \notin buffer
      BY <2>3 DEF Taken
    <3>3. Outside(e)' = Outside(e) /\ (OnePlace(e) => OnePlace(e)')
      BY <1>1, <2>3, <3>2 DEF Outside, OnePlace
    <3>4. \A v, u \in Threads : e \in inHand'[v] /\ e \in inHand'[u] => v = u
      BY <1>1, <1>2, <2>3 DEF JournalInv
    <3>5. inHand'[e] # {} => e \in inHand'[e]
      BY <1>2, <2>3, ThreadsAre DEF JournalInv
    <3> QED
      BY <2>1, <3>1, <3>3, <3>4, <3>5 DEF JournalInv
  <2> QED
    BY <2>2, <2>3
<1>5. journal' = "running" => inHand'["stop"] = {}
  BY <1>2, ThreadsAre DEF JournalInv
<1> QED
  BY <1>3, <1>4, <1>5 DEF JournalInv

LEMMA PutKeeps ==
    ASSUME JournalInv, NEW e \in arrived,
           buffer' = buffer \cup {e}, arrived' = arrived \ {e},
           UNCHANGED <<inHand, posted, lost, journal, sent>>
    PROVE  JournalInv'
<1>1. JournalType'
  BY DEF JournalInv, JournalType
<1>2. ASSUME NEW d \in Messages
      PROVE  /\ OnePlace(d)' /\ Outside(d)' = Outside(d)
             /\ InHands(d)' = InHands(d) /\ Journalled(d)' = Journalled(d)
  BY DEF JournalInv, OnePlace, Outside, InHands, Journalled
<1> QED
  BY <1>1, <1>2 DEF JournalInv

LEMMA SendKeeps ==
    ASSUME JournalInv, NEW t \in Threads, Component!Journal!SendBatch(t), sent' = sent
    PROVE  JournalInv'
<1>1. /\ inHand' = [inHand EXCEPT ![t] = {}]
      /\ arrived' = arrived /\ buffer' = buffer /\ journal' = journal
  BY DEF Component!Journal!SendBatch
<1>2. inHand'[t] = {} /\ \A u \in Threads \ {t} : inHand'[u] = inHand[u]
  BY <1>1 DEF JournalInv, JournalType
<1>3. ASSUME NEW e \in inHand[t]
      PROVE  e \in Messages /\ ~Outside(e) /\ \A u \in Threads \ {t} : e \notin inHand[u]
  BY DEF JournalInv, JournalType, InHands
<1>4. \/ /\ \A e \in Messages : posted'[e] = IF e \in inHand[t] THEN 1 ELSE posted[e]
         /\ posted' \in [Messages -> {0, 1}]
         /\ lost' = lost
      \/ lost' = lost \cup inHand[t] /\ posted' = posted
  <2>1. CASE /\ posted' = [e \in Messages |-> IF e \in inHand[t] THEN posted[e] + 1 ELSE posted[e]]
             /\ lost' = lost
    <3>1. \A e \in inHand[t] : posted[e] = 0
      BY <1>3 DEF Outside, JournalInv, JournalType
    <3> QED
      BY <2>1, <3>1 DEF JournalInv, JournalType
  <2> QED
    BY <2>1 DEF Component!Journal!SendBatch
<1>5. JournalType'
  BY <1>1, <1>4 DEF JournalInv, JournalType
<1>6. ASSUME NEW e \in Messages
      PROVE  /\ OnePlace(e)'
             /\ \A v, u \in Threads : e \in inHand'[v] /\ e \in inHand'[u] => v = u
             /\ InHands(e)' => ~Outside(e)'
             /\ (InHands(e)' \/ Outside(e)') = (InHands(e) \/ Outside(e))
             /\ inHand'[e] # {} => e \in inHand'[e]
  <2>1. CASE e \in inHand[t]
    <3>1. ~InHands(e)' /\ Outside(e)' /\ InHands(e)
      BY <1>1, <1>2, <1>3, <1>4, <2>1 DEF InHands, Outside
    <3>2. OnePlace(e)'
      BY <1>1, <1>3, <1>4, <2>1 DEF OnePlace, Outside, JournalInv, JournalType
    <3> QED
      BY <1>1, <1>2, <3>1, <3>2, ThreadsAre DEF InHands, JournalInv
  <2>2. CASE e \notin inHand[t]
    <3>1. InHands(e)' = InHands(e)
      BY <1>1, <1>2, <2>2 DEF InHands
    <3>2. Outside(e)' = Outside(e) /\ OnePlace(e)' = OnePlace(e)
      BY <1>1, <1>4, <2>2 DEF Outside, OnePlace
    <3> QED
      BY <1>2, <3>1, <3>2, ThreadsAre DEF JournalInv
  <2> QED
    BY <2>1, <2>2
<1>7. \A e \in Messages : Journalled(e)' = Journalled(e)
  BY DEF Journalled
<1> QED
  BY <1>1, <1>2, <1>5, <1>6, <1>7, ThreadsAre DEF JournalInv

LEMMA JournalStepKeeps ==
    ASSUME JournalInv, Component!Journal!JournalStep, sent' = sent
    PROVE  JournalInv'
<1>0. ASSUME NEW t \in {"flush", "stop"}, inHand[t] = {},
             Component!Journal!TakeBatch(t, buffer),
             arrived' = arrived /\ lost' = lost /\ posted' = posted,
             t = "stop" => journal' # "running",
             journal' = "running" => journal = "running"
      PROVE  JournalInv'
  <2>1. t \in Threads /\ t \notin Messages
    BY ThreadsAre
  <2>2. Taken(t, buffer)
    <3>1. \A e \in buffer : ~InHands(e) /\ e \notin lost /\ posted[e] = 0 /\ e \notin arrived
      BY DEF JournalInv, JournalType, OnePlace, Outside
    <3>2. buffer \in SUBSET Messages /\ arrived \subseteq Messages
      BY DEF JournalInv, JournalType
    <3> QED
      BY <1>0, <3>1, <3>2 DEF Taken
  <2> QED
    BY <1>0, <2>1, <2>2, TakenKeeps
<1>1. CASE Component!Journal!Flush
  BY <1>0, <1>1 DEF Component!Journal!Flush
<1>2. ASSUME journal # "running", journal' # "running",
             UNCHANGED <<arrived, buffer, inHand, posted, lost>>
      PROVE  JournalInv'
  <2>1. \A e \in Messages : /\ OnePlace(e)' = OnePlace(e) /\ Outside(e)' = Outside(e)
                            /\ InHands(e)' = InHands(e) /\ Journalled(e)' = Journalled(e)
    BY <1>2 DEF OnePlace, Outside, InHands, Journalled
  <2>2. JournalType'
    BY <1>2 DEF JournalInv, JournalType
  <2> QED
    BY <1>2, <2>1, <2>2 DEF JournalInv
<1>3. CASE Component!Journal!LastFlush
  BY <1>0, <1>2, <1>3 DEF Component!Journal!LastFlush
<1>4. CASE Component!Journal!StopFlushes
  <2>1. CASE buffer = {} /\ UNCHANGED <<buffer, inHand>>
    <3>1. \A e \in Messages : /\ OnePlace(e)' = OnePlace(e) /\ Outside(e)' = Outside(e)
                              /\ InHands(e)' = InHands(e) /\ Journalled(e)' = Journalled(e)
      BY <1>4, <2>1 DEF Component!Journal!StopFlushes, OnePlace, Outside, InHands, Journalled
    <3>2. JournalType' /\ inHand' = inHand /\ journal' # "running"
      BY <1>4, <2>1 DEF Component!Journal!StopFlushes, JournalInv, JournalType
    <3> QED
      BY <3>1, <3>2 DEF JournalInv
  <2>2. CASE Component!Journal!TakeBatch("stop", buffer)
    BY <1>0, <1>4, <2>2 DEF Component!Journal!StopFlushes, JournalInv
  <2> QED
    BY <1>4, <2>1, <2>2 DEF Component!Journal!StopFlushes
<1>5. CASE Component!Journal!StopJournal
  BY <1>2, <1>5 DEF Component!Journal!StopJournal
<1>6. ASSUME NEW e \in Messages, Component!Journal!HandleLogEvent(e)
      PROVE  JournalInv'
  <2>1. /\ e \in arrived /\ arrived' = arrived \ {e}
        /\ UNCHANGED <<posted, lost, journal>>
    BY <1>6 DEF Component!Journal!HandleLogEvent
  <2>2. CASE buffer' = buffer \cup {e} /\ UNCHANGED inHand
    BY <2>1, <2>2, PutKeeps
  <2>3. CASE Component!Journal!TakeBatch(e, buffer \cup {e})
    <3> DEFINE entries == buffer \cup {e}
    <3>1. e \in Threads /\ e \in entries /\ e # "stop"
      BY ThreadsAre
    <3>2. ~InHands(e) /\ inHand[e] = {} /\ e \notin buffer
      BY <2>1, <3>1 DEF JournalInv, Outside, OnePlace, InHands
    <3>3. \A d \in entries : ~InHands(d) /\ d \notin lost /\ posted[d] = 0
                             /\ (d \in buffer \/ d \in arrived)
      BY <2>1 DEF JournalInv, JournalType, OnePlace, Outside
    <3>4. /\ entries \in SUBSET Messages /\ buffer \subseteq entries
          /\ \A d \in arrived \ entries : d \notin buffer
          /\ arrived \ {e} = arrived \ entries
      BY DEF JournalInv, JournalType, OnePlace
    <3>5. Taken(e, entries)
      BY <2>1, <2>3, <3>2, <3>3, <3>4 DEF Taken
    <3> HIDE DEF entries
    <3> QED
      BY <2>1, <3>1, <3>3, <3>5, TakenKeeps
  <2> QED
    BY <1>6, <2>2, <2>3 DEF Component!Journal!HandleLogEvent
<1>7. ASSUME NEW t \in Threads, Component!Journal!SendBatch(t)
      PROVE  JournalInv'
  BY <1>7, SendKeeps
<1> QED
  BY <1>1, <1>3, <1>4, <1>5, <1>6, <1>7 DEF Component!Journal!JournalStep, Threads
-----------------------------------------------------------------------------
(* What the component does to the journal: it tells it of an event, once.    *)

LEMMA ArriveKeeps ==
    ASSUME JournalInv, NEW m \in Messages, Component!Journal!Arrive(m),
           ~Journalled(m), Journalled(m)',
           \A e \in Messages \ {m} : Journalled(e)' = Journalled(e)
    PROVE  JournalInv'
<1>1. arrived' = arrived \cup {m} /\ UNCHANGED <<buffer, inHand, posted, lost, journal>>
  BY DEF Component!Journal!Arrive
<1>2. JournalType'
  BY <1>1 DEF JournalInv, JournalType
<1>3. ~InHands(m) /\ ~Outside(m)
  BY DEF JournalInv
<1>4. InHands(m)' = InHands(m) /\ Outside(m)' /\ OnePlace(m)'
  <2>1. m \notin buffer \cup lost /\ posted[m] = 0
    BY <1>3 DEF Outside, JournalInv, JournalType
  <2> QED
    BY <1>1, <2>1 DEF InHands, Outside, OnePlace
<1>5. \A e \in Messages \ {m} :
        OnePlace(e)' = OnePlace(e) /\ Outside(e)' = Outside(e) /\ InHands(e)' = InHands(e)
  BY <1>1 DEF OnePlace, Outside, InHands
<1>6. ASSUME NEW e \in Messages
      PROVE  /\ OnePlace(e)'
             /\ InHands(e)' => ~Outside(e)'
             /\ InHands(e)' \/ Outside(e)' => Journalled(e)'
             /\ journal = "running" /\ Journalled(e)' => InHands(e)' \/ Outside(e)'
  <2>1. CASE e = m
    BY <1>3, <1>4, <2>1
  <2>2. CASE e # m
    BY <1>5, <2>2 DEF JournalInv
  <2> QED
    BY <2>1, <2>2
<1> QED
  BY <1>1, <1>2, <1>6 DEF JournalInv

LEMMA QuietKeeps ==
    ASSUME JournalInv, UNCHANGED Component!journalVars,
           \A e \in Messages : /\ Journalled(e) => Journalled(e)'
                               /\ Journalled(e)' => Journalled(e) \/ journal # "running"
    PROVE  JournalInv'
<1>1. UNCHANGED <<arrived, buffer, inHand, posted, lost, journal>>
  BY DEF Component!journalVars
<1>2. \A e \in Messages :
        OnePlace(e)' = OnePlace(e) /\ Outside(e)' = Outside(e) /\ InHands(e)' = InHands(e)
  BY <1>1 DEF OnePlace, Outside, InHands
<1>3. JournalType'
  BY <1>1 DEF JournalInv, JournalType
<1> QED
  BY <1>1, <1>2, <1>3 DEF JournalInv

LEMMA JournalledIffSent ==
    ASSUME NEW e \in Messages
    PROVE  Journalled(e) <=> ~NoneOf(sent[e], {"log_event"})
  BY DEF Journalled, NoneOf

\* A send is an event or none, and an event is sent when none was.
LEMMA SendsJournal ==
    ASSUME ChannelInv, NEW m \in Messages, place[m] \in Underway, NEW x \in OnBus,
           sent' = [sent EXCEPT ![m] = Append(@, x)]
    PROVE  /\ \A e \in Messages \ {m} : Journalled(e)' = Journalled(e)
           /\ x = "log_event" => Journalled(m)'
           /\ x # "log_event" => Journalled(m)' = Journalled(m)
           /\ x = Component!Item(m) /\ x = "log_event" => ~Journalled(m)
<1>1. sent \in [Messages -> Seq(OnBus)]
  BY DEF ChannelInv, ChannelType, MessageType
<1>2. sent'[m] = Append(sent[m], x) /\ \A e \in Messages \ {m} : sent'[e] = sent[e]
  BY <1>1
<1>3. \A e \in Messages \ {m} : Journalled(e)' = Journalled(e)
  BY <1>2 DEF Journalled
<1>4. /\ Len(Append(sent[m], x)) = Len(sent[m]) + 1 /\ Len(sent[m]) \in Nat
      /\ Append(sent[m], x)[Len(sent[m]) + 1] = x
      /\ \A i \in 1..Len(sent[m]) : Append(sent[m], x)[i] = sent[m][i]
  BY <1>1
<1>5. x = "log_event" => Journalled(m)'
  <2>1. Len(sent[m]) + 1 \in 1 .. Len(sent'[m])
    BY <1>2, <1>4
  <2> QED
    BY <1>2, <1>4, <2>1 DEF Journalled
<1>6. ASSUME x # "log_event" PROVE Journalled(m)' = Journalled(m)
  <2>1. \A i \in 1..Len(sent'[m]) : i \in 1..Len(sent[m]) \/ sent'[m][i] = x
    BY <1>2, <1>4
  <2>2. 1..Len(sent[m]) \subseteq 1..Len(sent'[m])
    BY <1>2, <1>4
  <2> QED
    BY <1>2, <1>4, <1>6, <2>1, <2>2 DEF Journalled
<1>7. ASSUME x = Component!Item(m), x = "log_event" PROVE ~Journalled(m)
  <2>1. outbox[m] \in Seq(OnBus) /\ outbox[m] # <<>>
    BY DEF ChannelInv, ChannelType, MessageType
  <2>2. ~NoneOf(outbox[m], {"log_event"})
    BY <1>7, <2>1, TailNone DEF Component!Item
  <2>3. NoneOf(sent[m], {"log_event"})
    BY <2>2 DEF ChannelInv, AnswerInv
  <2> QED
    BY <2>3, JournalledIffSent
<1> QED
  BY <1>3, <1>5, <1>6, <1>7

LEMMA GoesOutKeeps ==
    ASSUME ChannelInv, JournalInv, NEW m \in Messages, place[m] \in Underway,
           Component!GoesOut(m)
    PROVE  JournalInv'
<1>1. Component!Item(m) \in OnBus
  BY ItemOnBus DEF ChannelInv
<1>2. CASE UNCHANGED <<sent, Component!journalVars>>
  BY <1>2, QuietKeeps DEF Journalled
<1>3. ASSUME sent' = [sent EXCEPT ![m] = Append(@, Component!Item(m))],
             Component!Item(m) = "log_event", Component!Journal!Arrive(m)
      PROVE  JournalInv'
  BY <1>1, <1>3, SendsJournal, ArriveKeeps
<1>4. ASSUME sent' = [sent EXCEPT ![m] = Append(@, Component!Item(m))],
             Component!Item(m) # "log_event" \/ journal \in {"stopped", "over"},
             UNCHANGED Component!journalVars
      PROVE  JournalInv'
  BY <1>1, <1>4, SendsJournal, QuietKeeps
<1> QED
  BY <1>2, <1>3, <1>4 DEF Component!GoesOut

LEMMA JournalInvStep ==
    ASSUME ChannelInv, JournalInv, [Component!Next]_(Component!vars)
    PROVE  JournalInv'
<1>1. ASSUME sent' = sent, UNCHANGED Component!journalVars
      PROVE  JournalInv'
  BY <1>1, QuietKeeps DEF Journalled
<1>2. CASE UNCHANGED Component!vars
  BY <1>1, <1>2 DEF Component!vars, Component!messageVars
<1>3. ASSUME NEW m \in Messages,
             \/ Component!Handle(m) \/ Component!SecurityCheck(m)
             \/ Component!Ask(m) \/ Component!CheckTimeout(m)
      PROVE  JournalInv'
  BY <1>1, <1>3 DEF Component!Handle, Component!SecurityCheck, Component!Ask,
    Component!CheckTimeout
<1>4. CASE Component!ChangePolicy
  BY <1>1, <1>4 DEF Component!ChangePolicy
<1>5. ASSUME NEW m \in Messages, Component!Publish(m) \/ Component!Approved(m)
      PROVE  JournalInv'
  BY <1>5, GoesOutKeeps DEF Component!Publish, Component!Approved, Underway
<1>6. ASSUME NEW m \in Messages, Component!Denied(m)
      PROVE  JournalInv'
  <2>1. UNCHANGED Component!journalVars /\ place[m] \in Underway
    BY <1>6 DEF Component!Denied, Underway
  <2>2. CASE sent' = sent
    BY <1>1, <2>1, <2>2
  <2>3. CASE sent' = [sent EXCEPT ![m] = Append(@, "security_blocked")]
    <3>1. "security_blocked" \in OnBus
      BY DEF OnBus
    <3>2. \A e \in Messages : Journalled(e)' = Journalled(e)
      BY <2>1, <2>3, <3>1, SendsJournal
    <3> QED
      BY <2>1, <3>2, QuietKeeps
  <2> QED
    BY <1>6, <2>2, <2>3 DEF Component!Denied
<1>7. CASE Component!Logging
  BY <1>7, JournalStepKeeps DEF Component!Logging, Component!messageVars
<1> QED
  BY <1>2, <1>3, <1>4, <1>5, <1>6, <1>7 DEF Component!Next, Component!Outgoing
-----------------------------------------------------------------------------
LEMMA JournalStarts == Component!Init => JournalInv
<1> SUFFICES ASSUME Component!Init PROVE JournalInv
  OBVIOUS
<1>1. /\ arrived = {} /\ buffer = {} /\ lost = {}
      /\ inHand = [t \in Threads |-> {}] /\ posted = [e \in Messages |-> 0]
      /\ sent = [m \in Messages |-> <<>>]
  BY DEF Component!Init, Component!Journal!JournalInit, Threads
<1>2. \A e \in Messages : ~InHands(e) /\ ~Outside(e) /\ OnePlace(e) /\ ~Journalled(e)
  BY <1>1 DEF InHands, Outside, OnePlace, Journalled
<1>3. JournalType
  BY <1>1 DEF JournalType
<1> QED
  BY <1>1, <1>2, <1>3, ThreadsAre DEF JournalInv

LEMMA JournalInvariant == Component!Spec => [](ChannelInv /\ JournalInv)
<1>1. Component!Init => ChannelInv /\ JournalInv
  BY ChannelInit, JournalStarts
<1>2. ChannelInv /\ JournalInv /\ [Component!Next]_(Component!vars) => (ChannelInv /\ JournalInv)'
  BY ChannelStep, JournalInvStep
<1> QED
  BY <1>1, <1>2, PTL DEF Component!Spec

\* Cardinality as the instance has it.
LEMMA SameCardinality ==
    ASSUME NEW S
    PROVE  Component!Cardinality(S) = Cardinality(S)
  BY DEF Component!Cardinality, Cardinality

\* An event a component sent to the running journal is in one place, with any number of
\* events and threads: none is lost but by a post that fails, none is posted twice.
THEOREM EventsInOnePlace == Component!Spec => []EventsKept
<1>1. JournalInv => EventsKept
  <2> SUFFICES ASSUME JournalInv PROVE EventsKept
    OBVIOUS
  <2> SUFFICES ASSUME NEW e \in Messages
               PROVE  LET holders == {t \in Threads : e \in inHand[t]}
                          In(S) == IF e \in S THEN 1 ELSE 0
                          places == Cardinality(holders) + posted[e]
                                        + In(arrived) + In(buffer) + In(lost)
                      IN  IF journal = "running"
                          THEN places = IF Journalled(e) THEN 1 ELSE 0
                          ELSE places \in {0, 1}
    BY SameCardinality DEF EventsKept, Component!EventsKept, Threads, Journalled
  <2> DEFINE holders == {t \in Threads : e \in inHand[t]}
             In(S) == IF e \in S THEN 1 ELSE 0
             elsewhere == posted[e] + In(arrived) + In(buffer) + In(lost)
  <2>1. posted[e] \in {0, 1} /\ OnePlace(e)
    BY DEF JournalInv, JournalType
  <2>2. elsewhere = IF Outside(e) THEN 1 ELSE 0
    BY <2>1 DEF OnePlace, Outside
  <2>3. Cardinality(holders) = IF InHands(e) THEN 1 ELSE 0
    <3>1. CASE ~InHands(e)
      <4>1. holders = {}
        BY <3>1 DEF InHands
      <4> QED
        BY <3>1, <4>1, FS_EmptySet
    <3>2. CASE InHands(e)
      <4>1. PICK t \in Threads : e \in inHand[t]
        BY <3>2 DEF InHands
      <4>2. holders = {t}
        BY <4>1 DEF JournalInv
      <4> QED
        BY <3>2, <4>2, FS_Singleton
    <3> QED
      BY <3>1, <3>2
  <2>4. Cardinality(holders) + posted[e] + In(arrived) + In(buffer) + In(lost)
            = Cardinality(holders) + elsewhere
    BY <2>1, <2>3
  <2>5. Cardinality(holders) + elsewhere = IF InHands(e) \/ Outside(e) THEN 1 ELSE 0
    BY <2>2, <2>3 DEF JournalInv
  <2>6. /\ InHands(e) \/ Outside(e) => Journalled(e)
        /\ journal = "running" /\ Journalled(e) => InHands(e) \/ Outside(e)
    BY DEF JournalInv
  <2> HIDE DEF elsewhere
  <2> QED
    BY <2>4, <2>5, <2>6
<1> QED
  BY <1>1, JournalInvariant, PTL
-----------------------------------------------------------------------------
(* Ledger, for any requests and any number of restarts.                      *)

ConstantsOK == MaxRestarts \in Nat /\ None \notin Requests

CallerStates == {"idle", "waiting", "ok", "failed", "gone"}
ProxyStates == {"none", "endorsing", "committing", "ok", "error"}

TypesInv ==
    /\ method \in [Requests -> Methods]
    /\ route \in [Requests -> {"gateway", "component"}]
    /\ caller \in [Requests -> CallerStates]
    /\ log \in Seq(Requests) /\ position \in Nat \ {0} /\ offset \in Nat \ {0}
    /\ busy \in Requests \cup {None}
    /\ restarts \in Nat /\ restarts <= MaxRestarts
    /\ tries \in [Requests -> Nat]
    /\ proxy \in [Fabric!Calls -> ProxyStates]
    /\ onLedger \in [Fabric!Calls -> {"no", "sent", "yes"}]

\* A request is in the log once, since its caller sends it once.
LogInv ==
    /\ \A i, j \in 1..Len(log) : log[i] = log[j] => i = j
    /\ \A i \in 1..Len(log) :
         caller[log[i]] # "idle" /\ route[log[i]] = "gateway"

\* A component calls the proxy once, the gateway once and again after a restart; so
\* each call has a place of its own in Calls.
TriesInv ==
    /\ \A r \in Requests : tries[r] <= restarts + 1
    /\ \A r \in Requests : caller[r] = "idle" => tries[r] = 0
    /\ \A r \in Requests : caller[r] # "idle" /\ route[r] = "component" => tries[r] >= 1
    /\ \A i \in 1..Len(log) : i >= position => tries[log[i]] <= restarts
    /\ busy # None => tries[busy] >= 1

\* Nothing is sent for a call before it is endorsed ...
FreshInv ==
    /\ \A c \in Fabric!Calls : c[2] > tries[c[1]] => proxy[c] = "none"
    /\ \A c \in Fabric!Calls : proxy[c] \in {"none", "endorsing"} => onLedger[c] = "no"

\* ... and one that writes is a success once its transaction is there.
CommitInv ==
    \A c \in Fabric!Calls : proxy[c] = "ok" /\ method[c[1]] \in Fabric!Invokes => onLedger[c] = "yes"

IInv == TypesInv /\ LogInv /\ TriesInv /\ FreshInv /\ CommitInv /\ SuccessIsCommitted
-----------------------------------------------------------------------------
LEMMA CallPair ==
    ASSUME NEW c \in Fabric!Calls
    PROVE  /\ c[1] \in Requests /\ c[2] \in 1..(MaxRestarts + 1)
           /\ c = <<c[1], c[2]>>
  BY DEF Fabric!Calls

LEMMA MakeCall ==
    ASSUME NEW r \in Requests, NEW k \in 1..(MaxRestarts + 1)
    PROVE  <<r, k>> \in Fabric!Calls /\ <<r, k>>[1] = r /\ <<r, k>>[2] = k
  BY DEF Fabric!Calls

LEMMA WritesOrReads ==
    ASSUME NEW m, m \in Fabric!Queries
    PROVE  m \notin Fabric!Invokes
  BY DEF Fabric!Queries, Fabric!Invokes, Fabric!CertCenter, Fabric!CertCenterQueries,
         Fabric!Aggregator, Fabric!AggregatorQueries,
         Fabric!Insurer, Fabric!InsurerQueries, Fabric!Operator, Fabric!Orvd

\* The numbers of the invariant.
LEMMA Numbers ==
    ASSUME IInv
    PROVE  /\ busy \in Requests \cup {None}
           /\ restarts \in Nat /\ position \in Nat /\ Len(log) \in Nat
           /\ \A q \in Requests : tries[q] \in Nat /\ tries[q] <= restarts + 1
           /\ \A i \in 1..Len(log) : log[i] \in Requests
  BY DEF IInv, TypesInv, TriesInv

LEMMA InitIInv ==
    ASSUME ConstantsOK
    PROVE  Fabric!Init => IInv
<1> SUFFICES ASSUME Fabric!Init PROVE IInv
  OBVIOUS
<1>1. TypesInv
  BY DEF ConstantsOK, Fabric!Init, TypesInv, CallerStates, ProxyStates
<1>2. LogInv /\ TriesInv
  BY <1>1 DEF Fabric!Init, LogInv, TriesInv
<1>3. FreshInv /\ CommitInv /\ SuccessIsCommitted
  BY <1>1 DEF Fabric!Init, FreshInv, CommitInv, SuccessIsCommitted,
           Fabric!SuccessIsCommitted
<1> QED
  BY <1>1, <1>2, <1>3 DEF IInv

\* The call a request is at is one of Calls once there is one.
LEMMA LastIsCall ==
    ASSUME ConstantsOK, IInv, NEW r \in Requests, tries[r] >= 1
    PROVE  Fabric!LastCall(r) \in Fabric!Calls /\ Fabric!LastCall(r)[1] = r
<1>1. tries[r] \in 1..(MaxRestarts + 1)
  BY DEF ConstantsOK, IInv, TypesInv, TriesInv
<1> QED
  BY <1>1, MakeCall DEF Fabric!LastCall
-----------------------------------------------------------------------------
(* Steps that only give a caller its answer.                                 *)

\* Whatever is answered with "ok" has been a success at the proxy.
LEMMA AnswerKeeps ==
    ASSUME ConstantsOK, IInv, NEW r \in Requests, NEW answer \in {"ok", "failed"},
           tries[r] >= 1,
           answer = "ok" => proxy[Fabric!LastCall(r)] = "ok",
           Fabric!Answered(r, answer),
           UNCHANGED <<Fabric!requestVars, log, position, offset, restarts, Fabric!proxyVars>>,
           busy' \in {busy, None}
    PROVE  IInv'
<1> USE DEF Fabric!requestVars, Fabric!proxyVars
<1>1. TypesInv'
  BY DEF IInv, TypesInv, Fabric!Answered, CallerStates
<1>2. \A q \in Requests : caller'[q] = "idle" <=> caller[q] = "idle"
  BY DEF IInv, TypesInv, Fabric!Answered
<1>3. LogInv'
  BY <1>2 DEF IInv, TypesInv, LogInv
<1>4. TriesInv'
  BY <1>2 DEF IInv, TypesInv, TriesInv
<1>5. FreshInv' /\ CommitInv'
  BY DEF IInv, FreshInv, CommitInv
<1>6. SuccessIsCommitted'
  <2> SUFFICES ASSUME NEW q \in Requests, caller'[q] = "ok", method[q] \in Fabric!Invokes
               PROVE  \E c \in Fabric!Calls : c[1] = q /\ onLedger[c] = "yes"
    BY DEF SuccessIsCommitted, Fabric!SuccessIsCommitted
  <2>1. CASE caller[q] = "ok"
    BY <2>1 DEF IInv, SuccessIsCommitted, Fabric!SuccessIsCommitted
  <2>2. CASE caller[q] # "ok"
    <3>1. q = r /\ answer = "ok"
      BY <2>2 DEF IInv, TypesInv, Fabric!Answered
    <3>2. Fabric!LastCall(r) \in Fabric!Calls /\ Fabric!LastCall(r)[1] = r
      BY LastIsCall
    <3> QED
      BY <3>1, <3>2 DEF IInv, CommitInv
  <2> QED
    BY <2>1, <2>2
<1> QED
  BY <1>1, <1>3, <1>4, <1>5, <1>6 DEF IInv

LEMMA GiveUpKeeps ==
    ASSUME IInv, NEW r \in Requests, Fabric!GiveUp(r)
    PROVE  IInv'
<1> USE DEF Fabric!requestVars, Fabric!gatewayVars, Fabric!proxyVars
<1>1. TypesInv'
  BY DEF IInv, TypesInv, Fabric!GiveUp, CallerStates
<1>2. \A q \in Requests : /\ caller'[q] = "idle" <=> caller[q] = "idle"
                          /\ caller'[q] = "ok" => caller[q] = "ok"
  BY DEF IInv, TypesInv, Fabric!GiveUp
<1>3. LogInv' /\ TriesInv'
  BY <1>2 DEF IInv, TypesInv, LogInv, TriesInv, Fabric!GiveUp
<1>4. FreshInv' /\ CommitInv' /\ SuccessIsCommitted'
  BY <1>2 DEF IInv, FreshInv, CommitInv, SuccessIsCommitted, Fabric!SuccessIsCommitted,
           Fabric!GiveUp
<1> QED
  BY <1>1, <1>3, <1>4 DEF IInv
-----------------------------------------------------------------------------
(* Calls of the proxy.                                                       *)

\* A new call at the proxy finds its place untouched.
LEMMA NewCall ==
    ASSUME ConstantsOK, IInv, NEW r \in Requests, tries[r] <= restarts,
           Fabric!CallFabricProxy(r), UNCHANGED method
    PROVE  /\ tries' \in [Requests -> Nat]
           /\ proxy' \in [Fabric!Calls -> ProxyStates]
           /\ onLedger' = onLedger
           /\ \A q \in Requests : tries'[q] = IF q = r THEN tries[r] + 1 ELSE tries[q]
           /\ FreshInv' /\ CommitInv'
<1> DEFINE new == <<r, tries[r] + 1>>
<1>1. tries[r] \in Nat /\ new \in Fabric!Calls /\ new[1] = r /\ new[2] = tries[r] + 1
  BY MakeCall DEF ConstantsOK, IInv, TypesInv
<1>2. /\ tries' = [tries EXCEPT ![r] = tries[r] + 1]
      /\ proxy' = [proxy EXCEPT ![new] = "endorsing"]
      /\ onLedger' = onLedger
  BY DEF Fabric!CallFabricProxy
<1>3. /\ tries' \in [Requests -> Nat]
      /\ \A q \in Requests : tries'[q] = IF q = r THEN tries[r] + 1 ELSE tries[q]
  BY <1>1, <1>2 DEF IInv, TypesInv
<1>4. proxy' \in [Fabric!Calls -> ProxyStates]
  BY <1>1, <1>2 DEF IInv, TypesInv, ProxyStates
<1>5. \A c \in Fabric!Calls : IF c = new THEN proxy'[c] = "endorsing" ELSE proxy'[c] = proxy[c]
  BY <1>2 DEF IInv, TypesInv
<1>6. proxy[new] = "none" /\ onLedger[new] = "no"
  BY <1>1 DEF IInv, FreshInv
<1>7. \A c \in Fabric!Calls : c[2] > tries'[c[1]] => proxy'[c] = "none"
  <2> SUFFICES ASSUME NEW c \in Fabric!Calls, c[2] > tries'[c[1]]
               PROVE  proxy'[c] = "none"
    OBVIOUS
  <2>1. c[1] \in Requests /\ c[2] \in Nat
    BY CallPair DEF ConstantsOK
  <2>2. c[2] > tries[c[1]]
    <3>1. tries[c[1]] \in Nat /\ tries'[c[1]] \in {tries[c[1]], tries[c[1]] + 1}
      BY <1>3, <2>1, Numbers
    <3> QED
      BY <2>1, <3>1
  <2>3. c # new
    BY <1>1, <1>3, <2>1
  <2> QED
    BY <1>5, <2>2, <2>3 DEF IInv, FreshInv
<1>8. FreshInv'
  BY <1>2, <1>5, <1>6, <1>7 DEF IInv, FreshInv
<1>9. CommitInv'
  BY <1>2, <1>5 DEF IInv, CommitInv
<1> QED
  BY <1>2, <1>3, <1>4, <1>8, <1>9

LEMMA TakeKeeps ==
    ASSUME ConstantsOK, IInv, Fabric!Take
    PROVE  IInv'
<1> USE DEF Fabric!requestVars
<1> DEFINE r == log[position]
<1>1. /\ r \in Requests /\ position \in 1..Len(log) /\ tries[r] <= restarts
  BY DEF IInv, TypesInv, TriesInv, Fabric!Take
<1>2. /\ tries' \in [Requests -> Nat]
      /\ proxy' \in [Fabric!Calls -> ProxyStates]
      /\ onLedger' = onLedger
      /\ \A q \in Requests : tries'[q] = IF q = r THEN tries[r] + 1 ELSE tries[q]
      /\ FreshInv' /\ CommitInv'
  BY <1>1, NewCall DEF Fabric!Take
<1>3. TypesInv'
  BY <1>1, <1>2 DEF IInv, TypesInv, Fabric!Take
<1>4. LogInv'
  BY DEF IInv, LogInv, Fabric!Take
<1>5. TriesInv'
  <2>1. \A i \in 1..Len(log) : i # position => log[i] \in Requests \ {r}
    BY <1>1 DEF IInv, TypesInv, LogInv
  <2>2. caller[r] # "idle"
    BY <1>1 DEF IInv, LogInv
  <2>3. \A q \in Requests : tries'[q] <= restarts + 1
    BY <1>1, <1>2, Numbers
  <2>4. \A q \in Requests : caller[q] = "idle" => tries'[q] = 0
    BY <1>2, <2>2 DEF IInv, TriesInv
  <2>5. \A q \in Requests : caller[q] # "idle" /\ route[q] = "component" => tries'[q] >= 1
    BY <1>2, Numbers DEF IInv, TriesInv
  <2>6. \A i \in 1..Len(log) : i >= position + 1 => tries'[log[i]] <= restarts
    BY <1>2, <2>1, Numbers DEF IInv, TriesInv
  <2>7. tries'[r] >= 1
    BY <1>1, <1>2, Numbers
  <2> QED
    BY <2>3, <2>4, <2>5, <2>6, <2>7 DEF TriesInv, Fabric!Take
<1>6. SuccessIsCommitted'
  BY <1>2 DEF IInv, SuccessIsCommitted, Fabric!SuccessIsCommitted, Fabric!Take
<1> QED
  BY <1>2, <1>3, <1>4, <1>5, <1>6 DEF IInv

LEMMA RequestKeeps ==
    ASSUME ConstantsOK, IInv, NEW r \in Requests, Fabric!Request(r)
    PROVE  IInv'
<1> USE DEF Fabric!requestVars
<1>1. /\ caller[r] = "idle" /\ tries[r] = 0
      /\ caller' = [caller EXCEPT ![r] = "waiting"]
      /\ UNCHANGED <<method, route, broker>>
  BY DEF Fabric!Request, IInv, TriesInv
<1>2. /\ caller' \in [Requests -> CallerStates]
      /\ \A q \in Requests : caller'[q] = IF q = r THEN "waiting" ELSE caller[q]
  BY <1>1 DEF IInv, TypesInv, CallerStates
<1>3. \A i \in 1..Len(log) : log[i] \in Requests \ {r}
  BY <1>1 DEF IInv, TypesInv, LogInv
<1>4. CASE /\ route[r] = "gateway"
           /\ log' = Append(log, r)
           /\ UNCHANGED <<position, offset, busy, restarts, Fabric!proxyVars>>
  <2> USE DEF Fabric!proxyVars
  <2>1. /\ log' \in Seq(Requests) /\ Len(log') = Len(log) + 1
        /\ log'[Len(log) + 1] = r
        /\ \A i \in 1..Len(log) : log'[i] = log[i]
        /\ Len(log) \in Nat
    BY <1>4 DEF IInv, TypesInv
  <2>2. TypesInv'
    BY <1>1, <1>2, <1>4, <2>1 DEF IInv, TypesInv
  <2>3. \A i \in 1..Len(log') : i \in 1..Len(log) \/ i = Len(log) + 1
    BY <2>1
  <2>4. LogInv'
    <3>1. \A i \in 1..Len(log') : caller'[log'[i]] # "idle" /\ route'[log'[i]] = "gateway"
      BY <1>1, <1>2, <1>3, <1>4, <2>1, <2>3 DEF IInv, LogInv
    <3>2. \A i, j \in 1..Len(log') : log'[i] = log'[j] => i = j
      BY <1>3, <2>1, <2>3 DEF IInv, LogInv
    <3> QED
      BY <3>1, <3>2 DEF LogInv
  <2>5. TriesInv'
    <3>1. \A i \in 1..Len(log') : i >= position => tries[log'[i]] <= restarts
      BY <1>1, <2>1, <2>3, Numbers DEF IInv, TriesInv
    <3>2. \A q \in Requests : caller'[q] # "idle" /\ route[q] = "component" => tries[q] >= 1
      BY <1>2, <1>4 DEF IInv, TriesInv
    <3> QED
      BY <1>1, <1>2, <1>4, <3>1, <3>2 DEF IInv, TriesInv
  <2>6. FreshInv' /\ CommitInv' /\ SuccessIsCommitted'
    BY <1>1, <1>2, <1>4 DEF IInv, FreshInv, CommitInv, SuccessIsCommitted,
             Fabric!SuccessIsCommitted
  <2> QED
    BY <2>2, <2>4, <2>5, <2>6 DEF IInv
<1>5. CASE route[r] = "gateway" /\ UNCHANGED <<Fabric!gatewayVars, Fabric!proxyVars>>
  <2> USE DEF Fabric!gatewayVars, Fabric!proxyVars
  <2>1. TypesInv'
    BY <1>1, <1>2, <1>5 DEF IInv, TypesInv
  <2>2. LogInv'
    BY <1>1, <1>2, <1>3, <1>5 DEF IInv, LogInv
  <2>3. TriesInv'
    BY <1>1, <1>2, <1>5 DEF IInv, TriesInv
  <2>4. FreshInv' /\ CommitInv' /\ SuccessIsCommitted'
    BY <1>1, <1>2, <1>5 DEF IInv, FreshInv, CommitInv, SuccessIsCommitted,
             Fabric!SuccessIsCommitted
  <2> QED
    BY <2>1, <2>2, <2>3, <2>4 DEF IInv
<1>6. CASE Fabric!CallFabricProxy(r) /\ UNCHANGED Fabric!gatewayVars
  <2> USE DEF Fabric!gatewayVars
  <2>1. tries[r] <= restarts
    BY <1>1 DEF IInv, TypesInv
  <2>2. /\ tries' \in [Requests -> Nat]
        /\ proxy' \in [Fabric!Calls -> ProxyStates]
        /\ onLedger' = onLedger
        /\ \A q \in Requests : tries'[q] = IF q = r THEN tries[r] + 1 ELSE tries[q]
        /\ FreshInv' /\ CommitInv'
    BY <1>1, <1>6, <2>1, NewCall
  <2>3. TypesInv'
    BY <1>1, <1>2, <1>6, <2>2 DEF IInv, TypesInv
  <2>4. LogInv'
    BY <1>1, <1>2, <1>3, <1>6 DEF IInv, LogInv
  <2>5. TriesInv'
    <3>1. \A q \in Requests :
            /\ tries'[q] <= restarts + 1
            /\ caller'[q] = "idle" => tries'[q] = 0
            /\ caller'[q] # "idle" /\ route[q] = "component" => tries'[q] >= 1
      BY <1>1, <1>2, <2>2, Numbers DEF IInv, TriesInv
    <3>2. \A i \in 1..Len(log) : i >= position => tries'[log[i]] <= restarts
      BY <1>3, <2>2 DEF IInv, TriesInv
    <3>3. busy # None => tries'[busy] >= 1
      BY <1>1, <2>2, Numbers DEF IInv, TriesInv
    <3> QED
      BY <1>1, <1>6, <3>1, <3>2, <3>3 DEF TriesInv
  <2>6. SuccessIsCommitted'
    BY <1>1, <1>2, <2>2 DEF IInv, SuccessIsCommitted, Fabric!SuccessIsCommitted
  <2> QED
    BY <2>2, <2>3, <2>4, <2>5, <2>6 DEF IInv
<1> QED
  BY <1>4, <1>5, <1>6 DEF Fabric!Request
-----------------------------------------------------------------------------
(* Steps of the gateway's process alone.                                     *)

LEMMA CommitOffsetKeeps ==
    ASSUME IInv, Fabric!CommitOffset
    PROVE  IInv'
<1> USE DEF Fabric!CommitOffset, Fabric!requestVars, Fabric!proxyVars
<1>1. TypesInv'
  BY DEF IInv, TypesInv
<1>2. LogInv' /\ TriesInv'
  BY DEF IInv, LogInv, TriesInv
<1>3. FreshInv' /\ CommitInv' /\ SuccessIsCommitted'
  BY DEF IInv, FreshInv, CommitInv, SuccessIsCommitted, Fabric!SuccessIsCommitted
<1> QED
  BY <1>1, <1>2, <1>3 DEF IInv

LEMMA RestartKeeps ==
    ASSUME ConstantsOK, IInv, Fabric!Restart
    PROVE  IInv'
<1> USE DEF Fabric!Restart, Fabric!requestVars, Fabric!proxyVars
<1>1. TypesInv'
  <2>1. position' \in Nat \ {0}
    BY DEF IInv, TypesInv
  <2>2. restarts' \in Nat /\ restarts' <= MaxRestarts
    BY DEF ConstantsOK, IInv, TypesInv
  <2> QED
    BY <2>1, <2>2 DEF IInv, TypesInv
<1>2. LogInv'
  BY DEF IInv, LogInv
<1>3. TriesInv'
  <2>1. \A q \in Requests : tries[q] <= (restarts + 1) + 1
    BY Numbers
  <2>2. \A i \in 1..Len(log) : tries[log[i]] <= restarts + 1
    BY Numbers
  <2> QED
    BY <2>1, <2>2 DEF IInv, TriesInv
<1>4. FreshInv' /\ CommitInv' /\ SuccessIsCommitted'
  BY DEF IInv, FreshInv, CommitInv, SuccessIsCommitted, Fabric!SuccessIsCommitted
<1> QED
  BY <1>1, <1>2, <1>3, <1>4 DEF IInv
-----------------------------------------------------------------------------
(* Steps of the proxy and of the peers.                                      *)

\* One call goes on, and its transaction with it; none that is on the ledger is lost.
LEMMA ProxyKeeps ==
    ASSUME IInv, NEW c \in Fabric!Calls,
           proxy' \in [Fabric!Calls -> ProxyStates],
           onLedger' \in [Fabric!Calls -> {"no", "sent", "yes"}],
           \A d \in Fabric!Calls \ {c} : proxy'[d] = proxy[d] /\ onLedger'[d] = onLedger[d],
           proxy[c] # "none" \/ onLedger[c] = "sent",
           proxy'[c] \in {"none", "endorsing"} => onLedger'[c] = "no",
           proxy'[c] = "ok" /\ method[c[1]] \in Fabric!Invokes => onLedger'[c] = "yes",
           onLedger[c] = "yes" => onLedger'[c] = "yes",
           UNCHANGED <<Fabric!requestVars, caller, Fabric!gatewayVars, tries>>
    PROVE  IInv'
<1> USE DEF Fabric!requestVars, Fabric!gatewayVars
<1>1. TypesInv'
  BY DEF IInv, TypesInv
<1>2. LogInv' /\ TriesInv'
  BY DEF IInv, LogInv, TriesInv
<1>3. FreshInv'
  <2>1. proxy[c] # "none"
    BY DEF IInv, FreshInv
  <2>2. ~(c[2] > tries[c[1]])
    BY <2>1 DEF IInv, FreshInv
  <2> QED
    BY <2>2 DEF IInv, FreshInv
<1>4. CommitInv'
  BY DEF IInv, CommitInv
<1>5. SuccessIsCommitted'
  BY DEF IInv, SuccessIsCommitted, Fabric!SuccessIsCommitted
<1> QED
  BY <1>1, <1>2, <1>3, <1>4, <1>5 DEF IInv

LEMMA HandleQueryKeeps ==
    ASSUME IInv, NEW c \in Fabric!Calls, Fabric!HandleQuery(c)
    PROVE  IInv'
<1>1. method[c[1]] \notin Fabric!Invokes
  BY WritesOrReads DEF Fabric!HandleQuery
<1>2. PICK answer \in {"ok", "error"} : proxy' = [proxy EXCEPT ![c] = answer]
  BY DEF Fabric!HandleQuery, Fabric!Proxied
<1>3. /\ proxy' \in [Fabric!Calls -> ProxyStates]
      /\ proxy'[c] = answer
      /\ \A d \in Fabric!Calls \ {c} : proxy'[d] = proxy[d]
  BY <1>2 DEF IInv, TypesInv, ProxyStates
<1>4. onLedger' = onLedger /\ onLedger \in [Fabric!Calls -> {"no", "sent", "yes"}]
  BY DEF Fabric!HandleQuery, IInv, TypesInv
<1>5. proxy[c] # "none" /\ UNCHANGED <<Fabric!requestVars, caller, Fabric!gatewayVars, tries>>
  BY DEF Fabric!HandleQuery
<1> QED
  BY <1>1, <1>3, <1>4, <1>5, ProxyKeeps

LEMMA SubmitKeeps ==
    ASSUME IInv, NEW c \in Fabric!Calls, Fabric!Submit(c)
    PROVE  IInv'
<1>1. onLedger[c] = "no"
  BY DEF Fabric!Submit, IInv, FreshInv
<1>2. /\ \E to \in {"committing", "error"} : proxy' = [proxy EXCEPT ![c] = to]
      /\ onLedger' \in {onLedger, [onLedger EXCEPT ![c] = "sent"]}
  BY DEF Fabric!Submit, Fabric!Proxied
<1>3. /\ proxy' \in [Fabric!Calls -> ProxyStates]
      /\ proxy'[c] \in {"committing", "error"}
      /\ \A d \in Fabric!Calls \ {c} : proxy'[d] = proxy[d]
  BY <1>2 DEF IInv, TypesInv, ProxyStates
<1>4. /\ onLedger' \in [Fabric!Calls -> {"no", "sent", "yes"}]
      /\ \A d \in Fabric!Calls \ {c} : onLedger'[d] = onLedger[d]
  BY <1>2 DEF IInv, TypesInv
<1>5. proxy[c] # "none" /\ UNCHANGED <<Fabric!requestVars, caller, Fabric!gatewayVars, tries>>
  BY DEF Fabric!Submit
<1> QED
  BY <1>1, <1>3, <1>4, <1>5, ProxyKeeps

LEMMA CommitKeeps ==
    ASSUME IInv, NEW c \in Fabric!Calls, Fabric!Commit(c)
    PROVE  IInv'
<1>1. /\ onLedger[c] = "sent" /\ proxy' = proxy
      /\ \E as \in {"yes", "no"} : onLedger' = [onLedger EXCEPT ![c] = as]
      /\ UNCHANGED <<Fabric!requestVars, caller, Fabric!gatewayVars, tries>>
  BY DEF Fabric!Commit
<1>2. /\ onLedger' \in [Fabric!Calls -> {"no", "sent", "yes"}]
      /\ \A d \in Fabric!Calls \ {c} : onLedger'[d] = onLedger[d]
      /\ proxy \in [Fabric!Calls -> ProxyStates]
  BY <1>1 DEF IInv, TypesInv
<1>3. /\ proxy[c] \notin {"none", "endorsing"}
      /\ ~(proxy[c] = "ok" /\ method[c[1]] \in Fabric!Invokes)
  BY <1>1 DEF IInv, FreshInv, CommitInv
<1> QED
  BY <1>1, <1>2, <1>3, ProxyKeeps

LEMMA CommitStatusKeeps ==
    ASSUME IInv, NEW c \in Fabric!Calls, Fabric!CommitStatus(c)
    PROVE  IInv'
<1>1. \/ onLedger[c] = "yes" /\ proxy' = [proxy EXCEPT ![c] = "ok"]
      \/ proxy' = [proxy EXCEPT ![c] = "error"]
  BY DEF Fabric!CommitStatus, Fabric!Proxied
<1>2. /\ proxy' \in [Fabric!Calls -> ProxyStates]
      /\ proxy'[c] \in {"ok", "error"}
      /\ proxy'[c] = "ok" => onLedger[c] = "yes"
      /\ \A d \in Fabric!Calls \ {c} : proxy'[d] = proxy[d]
  BY <1>1 DEF IInv, TypesInv, ProxyStates
<1>3. onLedger' = onLedger /\ onLedger \in [Fabric!Calls -> {"no", "sent", "yes"}]
  BY DEF Fabric!CommitStatus, IInv, TypesInv
<1>4. proxy[c] # "none" /\ UNCHANGED <<Fabric!requestVars, caller, Fabric!gatewayVars, tries>>
  BY DEF Fabric!CommitStatus
<1> QED
  BY <1>2, <1>3, <1>4, ProxyKeeps
-----------------------------------------------------------------------------
LEMMA GatewayKeeps ==
    ASSUME ConstantsOK, IInv, Fabric!Gateway
    PROVE  IInv'
<1>1. CASE Fabric!Take
  BY <1>1, TakeKeeps
<1>2. CASE Fabric!GatewayAnswers \/ Fabric!HttpTimeout
  <2>1. busy \in Requests /\ tries[busy] >= 1
    BY <1>2, Numbers DEF Fabric!GatewayAnswers, Fabric!HttpTimeout, IInv, TriesInv
  <2>2. \E answer \in {"ok", "failed"} :
            (answer = "ok" => proxy[Fabric!LastCall(busy)] = "ok") /\ Fabric!Respond(answer)
    BY <1>2 DEF Fabric!GatewayAnswers, Fabric!HttpTimeout
  <2> QED
    BY <2>1, <2>2, AnswerKeeps DEF Fabric!Respond
<1> QED
  BY <1>1, <1>2 DEF Fabric!Gateway

LEMMA ComponentKeeps ==
    ASSUME ConstantsOK, IInv, NEW r \in Requests, Fabric!ComponentAnswers(r)
    PROVE  IInv'
<1>1. tries[r] >= 1
  BY DEF Fabric!ComponentAnswers, IInv, TriesInv
<1>2. \E answer \in {"ok", "failed"} :
          (answer = "ok" => proxy[Fabric!LastCall(r)] = "ok") /\ Fabric!Answered(r, answer)
  BY DEF Fabric!ComponentAnswers
<1>3. UNCHANGED <<Fabric!requestVars, log, position, offset, busy, restarts, Fabric!proxyVars>>
  BY DEF Fabric!ComponentAnswers, Fabric!gatewayVars
<1> QED
  BY <1>1, <1>2, <1>3, AnswerKeeps

LEMMA StutterKeeps ==
    ASSUME IInv, UNCHANGED Fabric!ledgerVars
    PROVE  IInv'
<1> USE DEF Fabric!ledgerVars, Fabric!requestVars, Fabric!gatewayVars, Fabric!proxyVars
<1>1. TypesInv'
  BY DEF IInv, TypesInv
<1>2. LogInv' /\ TriesInv'
  BY DEF IInv, LogInv, TriesInv
<1>3. FreshInv' /\ CommitInv' /\ SuccessIsCommitted'
  BY DEF IInv, FreshInv, CommitInv, SuccessIsCommitted, Fabric!SuccessIsCommitted
<1> QED
  BY <1>1, <1>2, <1>3 DEF IInv

LEMMA NextIInv ==
    ASSUME ConstantsOK
    PROVE  IInv /\ [Fabric!Next]_(Fabric!ledgerVars) => IInv'
<1> SUFFICES ASSUME IInv, [Fabric!Next]_(Fabric!ledgerVars)
             PROVE  IInv'
  OBVIOUS
<1>1. ASSUME NEW r \in Requests, Fabric!Request(r) \/ Fabric!GiveUp(r) \/ Fabric!ComponentAnswers(r)
      PROVE  IInv'
  BY <1>1, RequestKeeps, GiveUpKeeps, ComponentKeeps
<1>2. ASSUME NEW c \in Fabric!Calls, Fabric!HandleQuery(c) \/ Fabric!Submit(c) \/ Fabric!Commit(c) \/ Fabric!CommitStatus(c)
      PROVE  IInv'
  BY <1>2, HandleQueryKeeps, SubmitKeeps, CommitKeeps, CommitStatusKeeps
<1> QED
  BY <1>1, <1>2, GatewayKeeps, CommitOffsetKeeps, RestartKeeps, StutterKeeps DEF Fabric!Next

\* A caller that is told of the success of a call that writes has its transaction on
\* the ledger, for any number of requests, through either way, with any number of
\* restarts, timeouts and lost answers.
THEOREM SuccessMeansCommitted ==
    ASSUME ConstantsOK
    PROVE  Fabric!Spec => []SuccessIsCommitted
<1>1. IInv => SuccessIsCommitted
  BY DEF IInv
<1> QED
  BY <1>1, InitIInv, NextIInv, PTL DEF Fabric!Spec
-----------------------------------------------------------------------------
(* What is handled stays handled.                                            *)

\* The gateway starts again from a place it has been at.
OffsetInv == offset <= position /\ position <= Len(log) + 1

\* A step in which a request is called for anew: its sender's first, or its turn.
Called(q) ==
    \/ caller[q] = "idle"
    \/ position <= Len(log) /\ q = log[position]

LEMMA OffsetNext ==
    ASSUME IInv, OffsetInv, [Fabric!Next]_(Fabric!ledgerVars)
    PROVE  OffsetInv'
<1> USE DEF Fabric!ledgerVars, Fabric!requestVars, Fabric!gatewayVars, Fabric!proxyVars
<1>0. /\ log \in Seq(Requests) /\ Len(log) \in Nat
      /\ position \in Nat /\ offset \in Nat
  BY DEF IInv, TypesInv
<1>1. ASSUME UNCHANGED <<log, position, offset>> PROVE OffsetInv'
  BY <1>1 DEF OffsetInv
<1>2. ASSUME NEW r \in Requests, Fabric!Request(r) PROVE OffsetInv'
  <2>1. CASE log' = Append(log, r) /\ UNCHANGED <<position, offset>>
    <3>1. Len(log') = Len(log) + 1
      BY <1>0, <2>1
    <3> QED
      BY <1>0, <2>1, <3>1 DEF OffsetInv
  <2>2. CASE UNCHANGED <<log, position, offset>>
    BY <1>1, <2>2
  <2> QED
    BY <1>2, <2>1, <2>2 DEF Fabric!Request
<1>3. ASSUME NEW r \in Requests, Fabric!GiveUp(r) \/ Fabric!ComponentAnswers(r)
      PROVE  OffsetInv'
  BY <1>1, <1>3 DEF Fabric!GiveUp, Fabric!ComponentAnswers
<1>4. ASSUME NEW c \in Fabric!Calls, Fabric!HandleQuery(c) \/ Fabric!Submit(c) \/ Fabric!Commit(c) \/ Fabric!CommitStatus(c)
      PROVE  OffsetInv'
  BY <1>1, <1>4 DEF Fabric!HandleQuery, Fabric!Submit, Fabric!Commit, Fabric!CommitStatus
<1>5. ASSUME Fabric!Take PROVE OffsetInv'
  BY <1>0, <1>5 DEF Fabric!Take, OffsetInv
<1>6. ASSUME Fabric!GatewayAnswers \/ Fabric!HttpTimeout PROVE OffsetInv'
  BY <1>1, <1>6 DEF Fabric!GatewayAnswers, Fabric!HttpTimeout, Fabric!Respond
<1>7. ASSUME Fabric!CommitOffset PROVE OffsetInv'
  BY <1>0, <1>7 DEF Fabric!CommitOffset, OffsetInv
<1>8. ASSUME Fabric!Restart PROVE OffsetInv'
  BY <1>0, <1>8 DEF Fabric!Restart, OffsetInv
<1>9. ASSUME UNCHANGED Fabric!ledgerVars PROVE OffsetInv'
  BY <1>1, <1>9
<1> QED
  BY <1>2, <1>3, <1>4, <1>5, <1>6, <1>7, <1>8, <1>9 DEF Fabric!Next, Fabric!Gateway

\* The proxy is called for a request that its sender sends, or whose turn it is.
LEMMA CalledInTurn ==
    ASSUME IInv, [Fabric!Next]_(Fabric!ledgerVars), NEW q \in Requests, tries'[q] # tries[q]
    PROVE  Called(q)
<1> USE DEF Fabric!ledgerVars, Fabric!requestVars, Fabric!gatewayVars, Fabric!proxyVars
<1>0. tries \in [Requests -> Nat]
  BY DEF IInv, TypesInv
<1>1. ASSUME NEW r, Fabric!CallFabricProxy(r) PROVE q = r
  BY <1>0, <1>1 DEF Fabric!CallFabricProxy
<1>2. ASSUME NEW r \in Requests, Fabric!Request(r) PROVE Called(q)
  BY <1>1, <1>2 DEF Fabric!Request, Called
<1>3. ASSUME NEW r \in Requests, Fabric!GiveUp(r) \/ Fabric!ComponentAnswers(r)
      PROVE  FALSE
  BY <1>3 DEF Fabric!GiveUp, Fabric!ComponentAnswers
<1>4. ASSUME NEW c \in Fabric!Calls, Fabric!HandleQuery(c) \/ Fabric!Submit(c) \/ Fabric!Commit(c) \/ Fabric!CommitStatus(c)
      PROVE  FALSE
  BY <1>4 DEF Fabric!HandleQuery, Fabric!Submit, Fabric!Commit, Fabric!CommitStatus
<1>5. ASSUME Fabric!Take PROVE Called(q)
  BY <1>1, <1>5 DEF Fabric!Take, Called
<1>6. ASSUME Fabric!GatewayAnswers \/ Fabric!HttpTimeout \/ Fabric!CommitOffset \/ Fabric!Restart
      PROVE  FALSE
  BY <1>6 DEF Fabric!GatewayAnswers, Fabric!HttpTimeout, Fabric!Respond, Fabric!CommitOffset,
     Fabric!Restart
<1>7. ASSUME UNCHANGED Fabric!ledgerVars PROVE FALSE
  BY <1>7
<1> QED
  BY <1>2, <1>3, <1>4, <1>5, <1>6, <1>7 DEF Fabric!Next, Fabric!Gateway

\* What the gateway has committed is behind it for good: a request has one message, the
\* gateway goes on from its position, and no restart takes that back behind the offset.
THEOREM CommittedIsBehind ==
    ASSUME ConstantsOK
    PROVE  Fabric!Spec => HandledForGood
<1> DEFINE A == \A i \in 1 .. offset - 1 : tries'[log[i]] = tries[log[i]]
<1>1. Fabric!Init => OffsetInv
  BY DEF Fabric!Init, OffsetInv
<1>2. IInv /\ OffsetInv /\ [Fabric!Next]_(Fabric!ledgerVars) => OffsetInv'
  BY OffsetNext
<1>3. IInv /\ OffsetInv /\ [Fabric!Next]_(Fabric!ledgerVars) => [A]_(Fabric!ledgerVars)
  <2> SUFFICES ASSUME IInv, OffsetInv, [Fabric!Next]_(Fabric!ledgerVars),
                      NEW i \in 1 .. offset - 1, tries'[log[i]] # tries[log[i]]
               PROVE  FALSE
    OBVIOUS
  <2>1. /\ log \in Seq(Requests) /\ Len(log) \in Nat
        /\ position \in Nat \ {0} /\ offset \in Nat
    BY DEF IInv, TypesInv
  <2>2. i \in 1 .. Len(log) /\ i < position
    BY <2>1 DEF OffsetInv
  <2>3. log[i] \in Requests
    BY <2>1, <2>2
  <2>4. Called(log[i])
    BY <2>3, CalledInTurn
  <2>5. caller[log[i]] # "idle"
    BY <2>2 DEF IInv, LogInv
  <2>6. position <= Len(log) /\ log[i] = log[position]
    BY <2>4, <2>5 DEF Called
  <2>7. position \in 1 .. Len(log)
    BY <2>1, <2>6
  <2>8. i = position
    BY <2>2, <2>6, <2>7 DEF IInv, LogInv
  <2> QED
    BY <2>1, <2>2, <2>8
<1> QED
  BY <1>1, <1>2, <1>3, InitIInv, NextIInv, PTL DEF Fabric!Spec, HandledForGood, Fabric!HandledForGood
=============================================================================
