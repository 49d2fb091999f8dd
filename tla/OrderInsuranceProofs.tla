------------------------ MODULE OrderInsuranceProofs ------------------------
(* Theorems about OrderInsurance, for any calls and requests, any number of  *)
(* policies and wherever the two timeouts fall.  The argument follows an     *)
(* answer back to what it reports: a policy is stored in the step in which   *)
(* its call is served, and what a handler reported stays reported, so that   *)
(* an answer that came late, or to nobody, is about a policy all the same.   *)
EXTENDS OrderInsurance, TLAPS

Entry == [drone : Drones, record : Calls]

(* How far the three processes are with a call, and what is there by then.   *)
StageInv ==
  \A c \in Calls :
    /\ op[c] = "idle" => asked[c] = None /\ answer[c] = None
    /\ asked[c] = None => gw[c] = "idle"
    /\ gw[c] = "idle" => serving[c] = "idle"
    /\ gw[c] = "done" => gwAnswer[c] \in Response
    /\ serving[c] = "done" => served[c] \in Response
    /\ serving[c] # "done" => served[c] = None
    /\ op[c] = "selecting" => chosen[c] \in Entry
    /\ op[c] = "offering" => offers[c] < AGREGATOR_OFFER_RETRIES
    /\ op[c] \in {"idle", "selecting", "waiting"} => offers[c] = 0

(* TypeOK says less of some variables than the steps need.                   *)
ShapeInv ==
  /\ DOMAIN request = Calls /\ DOMAIN asked = Calls /\ DOMAIN served = Calls
  /\ DOMAIN cursor = Calls
  /\ registry \in Seq(Entry)
  /\ policies \in Seq([call : Calls, status : {"active", "terminated"}])

TypeInv == TypeOK /\ ShapeInv /\ StageInv

(* A policy is stored when its call is served, once, and ended by a request  *)
(* for its order; a call that was served one has it.                         *)
PoliciesServed ==
  \A i \in 1..Len(policies) :
    /\ serving[policies[i].call] = "done"
    /\ policies[i].status = "active" \/ Terminated(policies[i].call)

OnePolicyEach ==
  \A i, j \in 1..Len(policies) : policies[i].call = policies[j].call => i = j

ServedIsStored ==
  \A c \in Calls : serving[c] = "done" /\ served[c].payload = "policy" => HasPolicy(c)

PolicyInv == PoliciesServed /\ OnePolicyEach /\ ServedIsStored

(* What the loop of a terminate_policy has behind it.                        *)
LoopOf(t) ==
  /\ serving[t] = "terminating" => asked[t].action = "terminate_policy"
  /\ serving[t] \in {"terminating", "done"} /\ asked[t].action = "terminate_policy" =>
       /\ cursor[t] \in [size : Nat, next : Nat \ {0}, found : BOOLEAN]
       /\ cursor[t].size <= Len(policies)
       /\ \A i \in 1..cursor[t].size :
            /\ asked[policies[i].call].order = asked[t].order
            /\ i < cursor[t].next \/ (serving[t] = "done" /\ served[t].success = "true")
            => policies[i].status = "terminated"

LoopInv == \A t \in Calls : LoopOf(t)

(* A policy that is shown or priced was served.                              *)
ShownInv ==
  \A c \in Calls :
    /\ gwAnswer[c] # None /\ gwAnswer[c].payload = "policy" =>
         serving[c] = "done" /\ served[c].payload = "policy"
    /\ premium[c] => serving[c] = "done" /\ served[c].payload = "policy"
    /\ answer[c] # None /\ answer[c].payload = "policy" =>
         serving[c] = "done" /\ served[c].payload = "policy"

(* Whoever answered "assigned" has its registration for good.                *)
AssignedInv ==
  \A c \in Calls :
    answer[c] # None /\ answer[c].status = "assigned" =>
      /\ op[c] = "done"
      /\ chosen[c] \in Entry
      /\ assigned[chosen[c].record] = c

IInv == TypeInv /\ PolicyInv /\ LoopInv /\ ShownInv /\ AssignedInv
-----------------------------------------------------------------------------
LEMMA InitIInv ==
  Init => IInv
  <1> SUFFICES ASSUME Init PROVE IInv
    OBVIOUS
  <1> USE DEF Init, ServiceInit
  <1>1. TypeOK
    BY RetriesAssumption DEF TypeOK
  <1>2. ShapeInv
    BY DEF ShapeInv
  <1>3. StageInv
    BY DEF StageInv
  <1>4. PolicyInv /\ LoopInv /\ ShownInv /\ AssignedInv
    BY DEF PolicyInv, PoliciesServed, OnePolicyEach, ServedIsStored, LoopInv, LoopOf,
       ShownInv, AssignedInv
  <1> QED BY <1>1, <1>2, <1>3, <1>4 DEF IInv, TypeInv

(* What the registry holds after a registration.                             *)
LEMMA StoredType ==
  ASSUME TypeInv, NEW c \in Calls, NEW d \in Drones
  PROVE  Stored(d, c) \in Seq(Entry)
  <1> DEFINE new == [drone |-> d, record |-> c]
  <1>1. new \in Entry
    BY DEF Entry
  <1>2. registry \in Seq(Entry)
    BY DEF TypeInv, ShapeInv
  <1>3. CASE Entries(d) = {}
    BY <1>1, <1>2, <1>3 DEF Stored
  <1>4. CASE Entries(d) # {}
    <2>1. \A i \in 1..Len(registry) :
            (IF registry[i].drone = d THEN new ELSE registry[i]) \in Entry
      BY <1>1, <1>2
    <2> QED BY <1>2, <1>4, <2>1 DEF Stored
  <1> QED BY <1>3, <1>4

(* A terminated policy is a policy still.                                    *)
LEMMA StatusType ==
  ASSUME NEW P, NEW s \in Seq(P), NEW i \in 1..Len(s),
         \A row \in P : /\ [row EXCEPT !.status = "terminated"] \in P
                        /\ [row EXCEPT !.status = "terminated"].call = row.call
                        /\ [row EXCEPT !.status = "terminated"].status = "terminated"
  PROVE  /\ [s EXCEPT ![i].status = "terminated"] \in Seq(P)
         /\ Len([s EXCEPT ![i].status = "terminated"]) = Len(s)
         /\ \A j \in 1..Len(s) :
              /\ [s EXCEPT ![i].status = "terminated"][j].call = s[j].call
              /\ [s EXCEPT ![i].status = "terminated"][j].status =
                   IF j = i THEN "terminated" ELSE s[j].status
  <1> DEFINE row == [s[i] EXCEPT !.status = "terminated"]
  <1>1. s[i] \in P
    OBVIOUS
  <1>2. row \in P /\ row.call = s[i].call /\ row.status = "terminated"
    BY <1>1
  <1>3. [s EXCEPT ![i].status = "terminated"] = [s EXCEPT ![i] = row]
    OBVIOUS
  <1> HIDE DEF row
  <1>4. [s EXCEPT ![i] = row] = [j \in 1..Len(s) |-> IF j = i THEN row ELSE s[j]]
    OBVIOUS
  <1>5. /\ [s EXCEPT ![i] = row] \in Seq(P)
        /\ Len([s EXCEPT ![i] = row]) = Len(s)
    BY <1>2, <1>4
  <1> QED BY <1>2, <1>3, <1>4, <1>5

-----------------------------------------------------------------------------
(* Every step keeps the types and the stages.                                *)
AnswerTypes ==
  /\ op \in [Calls -> {"idle", "selecting", "waiting", "offering", "done"}]
  /\ answer \in [Calls -> [status : Statuses, payload : Payloads \cup {None}] \cup {None}]

(* What an operator's handler returns is of its type.                        *)
LEMMA ReturnTypes ==
  ASSUME TypeOK, NEW c \in Calls, NEW status \in Statuses,
         NEW payload \in Payloads \cup {None}, Return(c, status, payload)
  PROVE  AnswerTypes'
  <1> DEFINE P == Payloads \cup {None}
  <1>1. payload \in P
    OBVIOUS
  <1>2. answer \in [Calls -> [status : Statuses, payload : P] \cup {None}]
    BY DEF TypeOK
  <1> HIDE DEF P
  <1>3. answer' \in [Calls -> [status : Statuses, payload : P] \cup {None}]
    BY <1>1, <1>2 DEF Return
  <1> QED BY <1>3 DEF TypeOK, Return, P, AnswerTypes

LEMMA AskTypes ==
  ASSUME TypeOK, NEW c \in Calls, op' = [op EXCEPT ![c] = "waiting"], UNCHANGED answer
  PROVE  AnswerTypes'
  BY DEF TypeOK, AnswerTypes

LEMMA RegisterDroneTypes ==
  ASSUME TypeInv, NEW c \in Calls, NEW q \in Requests[c], RegisterDrone(c, q)
  PROVE  TypeInv'
  <1>1. q.drone \in Drones
    BY RequestsAssumption
  <1>2. registry' \in Seq(Entry)
    BY <1>1, StoredType DEF RegisterDrone, TypeInv, ShapeInv
  <1>3. AnswerTypes'
    BY ReturnTypes DEF RegisterDrone, Statuses, TypeInv
  <1>4. ShapeInv'
    BY <1>2 DEF TypeInv, ShapeInv, RegisterDrone, Receives, serviceVars
  <1>5. \A i \in 1..Len(registry') : registry'[i] \in [drone : Drones, record : Calls]
    <2>1. \A i \in 1..Len(registry') : registry'[i] \in Entry
      BY <1>2
    <2> QED BY <2>1 DEF Entry
  <1>6. TypeOK'
    BY <1>3, <1>5 DEF TypeInv, TypeOK, AnswerTypes, RegisterDrone, Receives, serviceVars
  <1>7. StageInv'
    BY DEF TypeInv, TypeOK, StageInv, RegisterDrone, Receives, Return, serviceVars
  <1> QED BY <1>4, <1>6, <1>7 DEF TypeInv

LEMMA LookUpTypes ==
  ASSUME TypeInv, NEW c \in Calls, NEW q \in Requests[c], LookUp(c, q)
  PROVE  TypeInv'
  <1>1. \A e \in Entries(q.drone) : e \in Entry
    BY DEF Entries, TypeInv, ShapeInv
  <1>2. ShapeInv'
    BY DEF TypeInv, ShapeInv, LookUp, Receives, serviceVars
  <1>3. AnswerTypes'
    <2>1. CASE Return(c, "failed", None)
      BY <2>1, ReturnTypes DEF Statuses, TypeInv
    <2>2. CASE op' = [op EXCEPT ![c] = "selecting"] /\ UNCHANGED answer
      BY <2>2 DEF TypeInv, TypeOK, AnswerTypes
    <2> QED BY <2>1, <2>2 DEF LookUp
  <1>4. chosen' \in [Calls -> [drone : Drones, record : Calls] \cup {None}]
    <2>1. chosen \in [Calls -> Entry \cup {None}]
      BY DEF TypeInv, TypeOK, Entry
    <2>2. chosen' \in [Calls -> Entry \cup {None}]
      BY <1>1, <2>1 DEF LookUp
    <2> QED BY <2>2 DEF Entry
  <1>5. TypeOK'
    BY <1>3, <1>4 DEF TypeInv, TypeOK, AnswerTypes, LookUp, Receives, serviceVars
  <1>6. StageInv'
    BY <1>1 DEF TypeInv, TypeOK, StageInv, LookUp, Receives, Return, serviceVars
  <1> QED BY <1>2, <1>5, <1>6 DEF TypeInv

LEMMA BuyInsuranceTypes ==
  ASSUME TypeInv, NEW c \in Calls, NEW q \in Requests[c], BuyInsurance(c, q)
  PROVE  TypeInv'
  <1>1. ShapeInv'
    BY DEF TypeInv, ShapeInv, BuyInsurance, Receives, Ask, serviceVars
  <1>2. AnswerTypes'
    BY AskTypes DEF BuyInsurance, Ask, TypeInv
  <1>3. TypeOK'
    BY <1>2 DEF TypeInv, TypeOK, AnswerTypes, BuyInsurance, Receives, serviceVars
  <1>4. StageInv'
    BY DEF TypeInv, TypeOK, ShapeInv, StageInv, BuyInsurance, Receives, Ask, serviceVars
  <1> QED BY <1>1, <1>3, <1>4 DEF TypeInv

LEMMA CreateOrderTypes ==
  ASSUME TypeInv, NEW c \in Calls, NEW q \in Requests[c], CreateOrder(c, q)
  PROVE  TypeInv'
  <1>1. \A i \in 1..Len(registry) : registry[i] \in Entry
    BY DEF TypeInv, ShapeInv
  <1>2. ShapeInv'
    BY DEF TypeInv, ShapeInv, CreateOrder, Receives, Ask, serviceVars
  <1>3. AnswerTypes'
    <2>1. CASE Return(c, "failed", None) \/ Return(c, "nothing", None)
      BY <2>1, ReturnTypes DEF Statuses, TypeInv
    <2>2. CASE op' = [op EXCEPT ![c] = "waiting"] /\ UNCHANGED answer
      BY <2>2, AskTypes DEF TypeInv
    <2> QED BY <2>1, <2>2 DEF CreateOrder, Ask
  <1>4. chosen' \in [Calls -> [drone : Drones, record : Calls] \cup {None}]
    BY <1>1 DEF TypeInv, TypeOK, CreateOrder, Entry
  <1>5. TypeOK'
    BY <1>3, <1>4 DEF TypeInv, TypeOK, AnswerTypes, CreateOrder, Receives, serviceVars
  <1>6. StageInv'
    BY <1>1 DEF TypeInv, TypeOK, ShapeInv, StageInv, CreateOrder, Receives, Return, Ask,
       serviceVars
  <1> QED BY <1>2, <1>5, <1>6 DEF TypeInv

LEMMA AssignTypes ==
  ASSUME TypeInv, NEW c \in Calls, Assign(c)
  PROVE  TypeInv'
  <1>1. ShapeInv'
    BY DEF TypeInv, ShapeInv, Assign, serviceVars
  <1>2. AnswerTypes'
    BY ReturnTypes DEF Assign, Statuses, TypeInv
  <1>3. assigned' = [assigned EXCEPT ![chosen[c].record] = c] \/ assigned' = assigned
    BY DEF Assign
  <1>4. assigned' \in [Calls -> Calls \cup {None}]
    BY <1>3 DEF TypeInv, TypeOK
  <1>5. TypeOK'
    BY <1>2, <1>4 DEF TypeInv, TypeOK, AnswerTypes, Assign, serviceVars
  <1>6. StageInv'
    BY DEF TypeInv, TypeOK, StageInv, Assign, Return, serviceVars
  <1> QED BY <1>1, <1>5, <1>6 DEF TypeInv

LEMMA ConcludeTypes ==
  ASSUME TypeInv, NEW c \in Calls, NEW r \in Response \cup {None}, Conclude(c, r)
  PROVE  TypeInv'
  <1>1. ShapeInv'
    BY DEF TypeInv, ShapeInv, Conclude, serviceVars
  <1>2. AnswerTypes'
    <2>1. CASE Return(c, "failed", None)
      BY <2>1, ReturnTypes DEF Statuses, TypeInv
    <2>2. CASE /\ r \in Response
               /\ \/ Return(c, "incident_processed", r.payload)
                  \/ Return(c, "insured", r.payload)
      <3>1. r.payload \in Payloads
        BY <2>2 DEF Response
      <3> QED BY <2>2, <3>1, ReturnTypes DEF Statuses, TypeInv
    <2>3. CASE op' = [op EXCEPT ![c] = "offering"] /\ UNCHANGED answer
      BY <2>3 DEF TypeInv, TypeOK, AnswerTypes
    <2> QED BY <2>1, <2>2, <2>3 DEF Conclude
  <1>3. premium' \in [Calls -> BOOLEAN]
    BY DEF TypeInv, TypeOK, Conclude
  <1>4. TypeOK'
    BY <1>2, <1>3 DEF TypeInv, TypeOK, AnswerTypes, Conclude, serviceVars
  <1>5. StageInv'
    BY RetriesAssumption DEF TypeInv, TypeOK, StageInv, Conclude, Return, serviceVars
  <1> QED BY <1>1, <1>4, <1>5 DEF TypeInv

LEMMA PublishOfferTypes ==
  ASSUME TypeInv, NEW c \in Calls, PublishOffer(c)
  PROVE  TypeInv'
  <1>1. ShapeInv'
    BY DEF TypeInv, ShapeInv, PublishOffer, serviceVars
  <1>2. AnswerTypes'
    <2>1. CASE Return(c, "offer_sent", None)
      BY <2>1, ReturnTypes DEF Statuses, TypeInv
    <2>2. CASE UNCHANGED <<op, answer>>
      BY <2>2 DEF TypeInv, TypeOK, AnswerTypes
    <2> QED BY <2>1, <2>2 DEF PublishOffer
  <1>3. /\ offers[c] \in Nat /\ offers[c] < AGREGATOR_OFFER_RETRIES
        /\ offers[c] + 1 # AGREGATOR_OFFER_RETRIES => offers[c] + 1 < AGREGATOR_OFFER_RETRIES
    BY RetriesAssumption DEF TypeInv, TypeOK, StageInv, PublishOffer
  <1>4. offers' \in [Calls -> 0..AGREGATOR_OFFER_RETRIES]
    BY <1>3, RetriesAssumption DEF TypeInv, TypeOK, PublishOffer
  <1>5. TypeOK'
    BY <1>2, <1>4 DEF TypeInv, TypeOK, AnswerTypes, PublishOffer, serviceVars
  <1>6. \A d \in Calls : /\ op'[d] = "offering" => offers'[d] < AGREGATOR_OFFER_RETRIES
                         /\ op'[d] \in {"idle", "selecting", "waiting"} => offers'[d] = 0
    BY <1>3 DEF TypeInv, TypeOK, StageInv, PublishOffer, Return
  <1>7. StageInv'
    BY <1>6 DEF TypeInv, TypeOK, StageInv, PublishOffer, Return, serviceVars
  <1> QED BY <1>1, <1>5, <1>7 DEF TypeInv

LEMMA OperatorTypes ==
  ASSUME TypeInv, NEW c \in Calls,
         Arrive(c) \/ Assign(c) \/ OpWakes(c) \/ PublishOffer(c)
  PROVE  TypeInv'
  <1>1. OpWakes(c) => \E r \in Response \cup {None} : Conclude(c, r)
    BY DEF OpWakes, OpReceive, OpTimeout, TypeInv, StageInv
  <1> QED BY <1>1, RegisterDroneTypes, LookUpTypes, BuyInsuranceTypes, CreateOrderTypes,
          AssignTypes, ConcludeTypes, PublishOfferTypes DEF Arrive

LEMMA GatewayTypes ==
  ASSUME TypeInv, NEW c \in Calls, GwReceive(c) \/ GwWakes(c)
  PROVE  TypeInv'
  <1>1. ASSUME GwReceive(c)
        PROVE  TypeInv'
    <2>1. Answer("missing", "error") \in Response
      BY DEF Answer, Response, Payloads
    <2>2. ShapeInv'
      BY <1>1 DEF TypeInv, ShapeInv, GwReceive, operatorVars
    <2>3. /\ gw' \in [Calls -> {"idle", "waiting", "done"}]
          /\ gwAnswer' \in [Calls -> Response \cup {None}]
      BY SMTT(30), <1>1, <2>1 DEF TypeInv, TypeOK, GwReceive, GwReturn
    <2>6. serving' \in [Calls -> {"idle", "sent", "handling", "terminating", "done"}]
      BY <1>1 DEF TypeInv, TypeOK, GwReceive
    <2>4. TypeOK'
      BY <1>1, <2>3, <2>6 DEF TypeInv, TypeOK, GwReceive, operatorVars
    <2>5. StageInv'
      BY <1>1, <2>1 DEF TypeInv, TypeOK, StageInv, GwReceive, GwReturn, operatorVars
    <2> QED BY <2>2, <2>4, <2>5 DEF TypeInv
  <1>2. ASSUME NEW r \in Response, GwReturn(c, r), gw[c] = "waiting",
               UNCHANGED <<operatorVars, asked, serviceVars>>
        PROVE  TypeInv'
    <2>2. ShapeInv'
      BY <1>2 DEF TypeInv, ShapeInv, operatorVars, serviceVars
    <2>3. TypeOK'
      BY <1>2 DEF TypeInv, TypeOK, GwReturn, operatorVars, serviceVars
    <2>4. StageInv'
      BY <1>2 DEF TypeInv, TypeOK, StageInv, GwReturn, operatorVars, serviceVars
    <2> QED BY <2>2, <2>3, <2>4 DEF TypeInv
  <1>3. GwReply(c) => served[c] \in Response
    BY DEF GwReply, TypeInv, StageInv
  <1>4. GwWakes(c) => \E r \in Response :
                        /\ GwReturn(c, r) /\ gw[c] = "waiting"
                        /\ UNCHANGED <<operatorVars, asked, serviceVars>>
    BY <1>3 DEF GwWakes, GwReply, GwTimeout, Answer, Response, Payloads
  <1> QED BY <1>1, <1>2, <1>4

(* What a handler of the insurer's component may do to its own call.         *)
Handles(c) ==
  /\ serving[c] \in {"sent", "handling", "terminating"}
  /\ \E at \in {"handling", "terminating", "done"} :
       /\ serving' = [serving EXCEPT ![c] = at]
       /\ at = "handling" => serving[c] = "sent"
  /\ serving'[c] = "done" =>
       \E r \in Response : served' = [served EXCEPT ![c] = r]
  /\ serving'[c] # "done" => served' = served
  /\ UNCHANGED <<operatorVars, gw, gwAnswer, asked>>

LEMMA ServeHandles ==
  ASSUME TypeInv, NEW c \in Calls, ServeCall(c)
  PROVE  Handles(c)
  <1> USE DEF ServeCall, Handles, TypeInv, TypeOK
  <1>1. BeginServe(c) => Handles(c)
    BY DEF BeginServe
  <1>2. HandlePolicy(c) => Handles(c)
    BY DEF HandlePolicy, Finish, Raise, Answer, Response, Payloads
  <1>3. HandleReport(c) => Handles(c)
    BY DEF HandleReport, Finish, Raise, Answer, Response, Payloads
  <1>4. BeginTerminate(c) => Handles(c)
    BY DEF BeginTerminate
  <1>5. TerminateNext(c) => Handles(c)
    BY DEF TerminateNext, Iterating
  <1>6. TerminateRaises(c) => Handles(c)
    BY DEF TerminateRaises, Finish, Raise, Answer, Response, Payloads
  <1>7. EndTerminate(c) => Handles(c)
    BY DEF EndTerminate, Iterating, Finish, Answer, Response, Payloads
  <1> QED BY <1>1, <1>2, <1>3, <1>4, <1>5, <1>6, <1>7 DEF Serve

LEMMA ServiceTypes ==
  ASSUME TypeInv, LoopInv, NEW c \in Calls, ServeCall(c)
  PROVE  TypeInv'
  <1> DEFINE Policy == [call : Calls, status : {"active", "terminated"}]
  <1>1. Handles(c)
    BY ServeHandles
  <1>2. policies' \in Seq(Policy)
    <2>1. policies \in Seq(Policy)
      BY DEF TypeInv, ShapeInv
    <2>2. CASE HandlePolicy(c)
      <3>1. [call |-> c, status |-> "active"] \in Policy
        OBVIOUS
      <3> HIDE DEF Policy
      <3> QED BY <2>1, <2>2, <3>1 DEF HandlePolicy
    <2>3. CASE TerminateNext(c)
      <3>1. policies' \in {policies, [policies EXCEPT ![cursor[c].next].status = "terminated"]}
        BY <2>3 DEF TerminateNext
      <3>2. cursor[c].next \in 1..Len(policies)
        BY <2>3 DEF TerminateNext, Iterating, LoopInv, LoopOf
      <3>3. \A row \in Policy : /\ [row EXCEPT !.status = "terminated"] \in Policy
                                /\ [row EXCEPT !.status = "terminated"].call = row.call
                                /\ [row EXCEPT !.status = "terminated"].status = "terminated"
        OBVIOUS
      <3> HIDE DEF Policy
      <3> QED BY <2>1, <3>1, <3>2, <3>3, StatusType
    <2>4. CASE UNCHANGED policies
      BY <2>1, <2>4
    <2> QED BY <2>2, <2>3, <2>4 DEF ServeCall, Serve, BeginServe, HandleReport,
            BeginTerminate, TerminateRaises, EndTerminate
  <1>3. DOMAIN cursor' = Calls
    BY DEF TypeInv, ShapeInv, ServeCall, Serve, BeginServe, HandlePolicy, HandleReport,
       BeginTerminate, TerminateNext, TerminateRaises, EndTerminate
  <1>4. ShapeInv'
    BY <1>1, <1>2, <1>3 DEF TypeInv, ShapeInv, Handles, operatorVars
  <1>5. /\ serving' \in [Calls -> {"idle", "sent", "handling", "terminating", "done"}]
        /\ \A d \in Calls : served'[d] \in Response \cup {None}
    <2>1. serving' \in [Calls -> {"idle", "sent", "handling", "terminating", "done"}]
      BY <1>1 DEF TypeInv, TypeOK, Handles
    <2>2. CASE served' = served
      BY <2>1, <2>2 DEF TypeInv, TypeOK
    <2>3. CASE \E r \in Response : served' = [served EXCEPT ![c] = r]
      BY <2>1, <2>3 DEF TypeInv, TypeOK, ShapeInv
    <2> QED BY <1>1, <2>2, <2>3 DEF Handles
  <1>8. \A i \in 1..Len(policies') : policies'[i] \in Policy
    <2> HIDE DEF Policy
    <2> QED BY <1>2
  <1>7. TypeOK'
    BY <1>1, <1>5, <1>8 DEF TypeInv, TypeOK, Handles, operatorVars
  <1>6. StageInv'
    BY <1>1 DEF TypeInv, TypeOK, ShapeInv, StageInv, Handles, operatorVars
  <1> QED BY <1>4, <1>6, <1>7 DEF TypeInv

-----------------------------------------------------------------------------
(* The insurer's policies and loops do not see what the other two do.        *)
ServiceFrame ==
  /\ UNCHANGED <<policies, cursor, served>>
  /\ \A t \in Calls : serving'[t] = serving[t] \/ (serving[t] = "idle" /\ serving'[t] = "sent")
  /\ \A t \in Calls : serving[t] # "idle" => asked'[t] = asked[t]

LEMMA OthersFrame ==
  ASSUME TypeInv, NEW c \in Calls,
         \/ Arrive(c) \/ Assign(c) \/ OpWakes(c) \/ PublishOffer(c)
         \/ GwReceive(c) \/ GwWakes(c)
  PROVE  ServiceFrame
  <1>1. ASSUME NEW q \in Requests[c], BuyInsurance(c, q) \/ CreateOrder(c, q)
        PROVE  ServiceFrame
    <2>1. serving[c] = "idle"
      BY <1>1 DEF BuyInsurance, CreateOrder, Receives, TypeInv, StageInv
    <2> QED BY <1>1, <2>1 DEF ServiceFrame, BuyInsurance, CreateOrder, Ask, serviceVars,
            TypeInv, ShapeInv
  <1>2. ASSUME NEW q \in Requests[c], RegisterDrone(c, q) \/ LookUp(c, q)
        PROVE  ServiceFrame
    BY <1>2 DEF ServiceFrame, RegisterDrone, LookUp, serviceVars
  <1>3. Assign(c) \/ OpWakes(c) \/ PublishOffer(c) => ServiceFrame
    BY DEF ServiceFrame, Assign, OpWakes, OpReceive, OpTimeout, Conclude, PublishOffer,
       serviceVars
  <1>4. GwReceive(c) => ServiceFrame
    <2>1. gw[c] = "idle" => serving[c] = "idle"
      BY DEF TypeInv, StageInv
    <2> QED BY <2>1 DEF ServiceFrame, GwReceive, TypeInv, TypeOK
  <1>5. GwWakes(c) => ServiceFrame
    BY DEF ServiceFrame, GwWakes, GwReply, GwTimeout, serviceVars
  <1> QED BY <1>1, <1>2, <1>3, <1>4, <1>5 DEF Arrive

LEMMA FrameKeeps ==
  ASSUME TypeInv, PolicyInv, LoopInv, ServiceFrame
  PROVE  PolicyInv' /\ LoopInv'
  <1>1. \A i \in 1..Len(policies) : policies[i].call \in Calls
    BY DEF TypeInv, TypeOK
  <1>2. \A t \in Calls : serving[t] \in {"terminating", "done"} =>
          serving'[t] = serving[t] /\ asked'[t] = asked[t]
    BY DEF ServiceFrame
  <1>3. \A t \in Calls : serving'[t] \in {"terminating", "done"} =>
          serving'[t] = serving[t] /\ asked'[t] = asked[t]
    BY DEF ServiceFrame
  <1>4. \A i \in 1..Len(policies) : Terminated(policies[i].call) => Terminated(policies[i].call)'
    BY <1>1, <1>2 DEF Terminated, PolicyInv, PoliciesServed, ServiceFrame
  <1>5. PolicyInv'
    BY <1>1, <1>2, <1>4 DEF PolicyInv, PoliciesServed, OnePolicyEach, ServedIsStored,
       ServiceFrame, HasPolicy, Terminated
  <1>6. LoopInv'
    BY <1>1, <1>2, <1>3 DEF LoopInv, LoopOf, PolicyInv, PoliciesServed, ServiceFrame
  <1> QED BY <1>5, <1>6

-----------------------------------------------------------------------------
(* Policies are stored and ended, and never taken away.                      *)
Grows ==
  /\ Len(policies') >= Len(policies)
  /\ \A i \in 1..Len(policies) :
       /\ policies'[i].call = policies[i].call
       /\ policies[i].status = "terminated" => policies'[i].status = "terminated"

LEMMA PolicyFacts ==
  ASSUME TypeInv
  PROVE  /\ Len(policies) \in Nat
         /\ \A i \in 1..Len(policies) :
              policies[i].call \in Calls /\ policies[i].status \in {"active", "terminated"}
  BY DEF TypeInv, TypeOK, ShapeInv

(* The step of one handler says nothing of the loop of another.              *)
LEMMA OtherLoops ==
  ASSUME TypeInv, LoopInv, NEW c \in Calls, Handles(c), Grows, Len(policies') \in Nat,
         NEW t \in Calls, t # c, cursor'[t] = cursor[t]
  PROVE  LoopOf(t)'
  <1>1. serving'[t] = serving[t] /\ served'[t] = served[t] /\ asked' = asked
    BY DEF Handles, TypeInv, TypeOK, ShapeInv
  <1>2. LoopOf(t)
    BY DEF LoopInv
  <1>3. ASSUME serving[t] \in {"terminating", "done"}, asked[t].action = "terminate_policy"
        PROVE  /\ cursor[t] \in [size : Nat, next : Nat \ {0}, found : BOOLEAN]
               /\ cursor[t].size <= Len(policies')
               /\ \A i \in 1..cursor[t].size : i \in 1..Len(policies)
    BY <1>2, <1>3, PolicyFacts DEF LoopOf, Grows
  <1> QED BY <1>1, <1>2, <1>3 DEF LoopOf, Grows

(* A handler works on its own call.                                          *)
LEMMA HandlesOne ==
  ASSUME TypeInv, NEW c \in Calls, Handles(c)
  PROVE  /\ serving[c] # "done"
         /\ \A d \in Calls : d # c => served'[d] = served[d] /\ serving'[d] = serving[d]
  <1>1. \A d \in Calls : d # c => serving'[d] = serving[d]
    BY DEF Handles, TypeInv, TypeOK
  <1>2. \A d \in Calls : d # c => served'[d] = served[d]
    <2>1. CASE served' = served
      BY <2>1
    <2>2. CASE \E r \in Response : served' = [served EXCEPT ![c] = r]
      BY <2>2
    <2> QED BY <2>1, <2>2 DEF Handles
  <1> QED BY <1>1, <1>2 DEF Handles

(* What every step of a handler keeps of the policies, and what is left.     *)
LEMMA PoliciesKept ==
  ASSUME TypeInv, PolicyInv, LoopInv, NEW c \in Calls, Handles(c)
  PROVE  /\ \A d \in Calls : Terminated(d) => Terminated(d)'
         /\ \A i \in 1..Len(policies) :
              /\ policies[i].call # c
              /\ serving'[policies[i].call] = "done"
         /\ \A d \in Calls : d # c => served'[d] = served[d] /\ serving'[d] = serving[d]
  <1>1. \A t \in Calls : serving[t] \in {"terminating", "done"} =>
          serving'[t] \in {"terminating", "done"}
    <2>1. serving[c] = "terminating" => asked[c].action = "terminate_policy"
      BY DEF LoopInv, LoopOf
    <2> QED BY <2>1 DEF Handles, TypeInv, TypeOK
  <1>2. \A d \in Calls : Terminated(d) => Terminated(d)'
    BY <1>1 DEF Terminated, Handles
  <1>3. \A i \in 1..Len(policies) :
          policies[i].call # c /\ serving'[policies[i].call] = "done"
    BY PolicyFacts, HandlesOne DEF PolicyInv, PoliciesServed
  <1> QED BY <1>2, <1>3, HandlesOne

(* HandlePolicy stores one policy, of a call that had none, or raises.       *)
LEMMA StoreKeeps ==
  ASSUME TypeInv, PolicyInv, LoopInv, NEW c \in Calls, ServeCall(c), HandlePolicy(c)
  PROVE  PolicyInv' /\ LoopInv'
  <1>1. Handles(c)
    BY ServeHandles
  <1>2. /\ serving[c] = "handling" /\ asked[c].action \in PolicyActions /\ asked' = asked
        /\ cursor' = cursor /\ serving'[c] = "done"
    BY <1>1 DEF HandlePolicy, Handles, Finish, Raise, TypeInv, TypeOK
  <1>3. LoopOf(c)'
    BY <1>2 DEF LoopOf, PolicyActions
  <1>4. CASE UNCHANGED policies /\ Raise(c)
    <2>1. served'[c] = Answer("false", "error")
      BY <1>4 DEF Raise, Finish, TypeInv, ShapeInv
    <2>2. PolicyInv'
      BY <1>1, <1>4, <2>1, PoliciesKept, PolicyFacts DEF PolicyInv, PoliciesServed, OnePolicyEach,
         ServedIsStored, HasPolicy, Answer, Terminated
    <2>3. Grows
      BY <1>4, PolicyFacts DEF Grows
    <2> QED BY <1>1, <1>2, <1>3, <1>4, <2>2, <2>3, OtherLoops, PolicyFacts DEF LoopInv
  <1>5. CASE /\ policies' = Append(policies, [call |-> c, status |-> "active"])
             /\ Finish(c, Answer("true", "policy"))
    <2>1. /\ Len(policies') = Len(policies) + 1 /\ Len(policies) \in Nat
          /\ \A i \in 1..Len(policies) : policies'[i] = policies[i]
          /\ policies'[Len(policies) + 1] = [call |-> c, status |-> "active"]
      BY <1>5 DEF TypeInv, ShapeInv
    <2>2. /\ \A i \in 1..Len(policies') : i \in 1..Len(policies) \/ i = Len(policies) + 1
          /\ \A i \in 1..Len(policies) : i \in 1..Len(policies')
          /\ Len(policies) + 1 \in 1..Len(policies')
          /\ Len(policies') >= Len(policies) /\ Len(policies') \in Nat
      BY <2>1
    <2>3. PoliciesServed'
      BY <1>1, <1>2, <2>1, <2>2, PoliciesKept, PolicyFacts DEF PolicyInv, PoliciesServed, Terminated
    <2>4. OnePolicyEach'
      BY <1>1, <2>1, <2>2, PoliciesKept DEF PolicyInv, OnePolicyEach
    <2>5. ServedIsStored'
      <3>1. HasPolicy(c)'
        BY <2>1, <2>2 DEF HasPolicy
      <3>2. \A d \in Calls : HasPolicy(d) => HasPolicy(d)'
        BY <2>1, <2>2 DEF HasPolicy
      <3> QED BY <1>1, <3>1, <3>2, PoliciesKept DEF PolicyInv, ServedIsStored
    <2>6. Grows
      BY <2>1, <2>2 DEF Grows
    <2> QED BY <1>1, <1>2, <1>3, <2>2, <2>3, <2>4, <2>5, <2>6, OtherLoops DEF PolicyInv, LoopInv
  <1> QED BY <1>4, <1>5 DEF HandlePolicy

(* A step that stores nothing and reports no policy.                         *)
LEMMA NoneStored ==
  ASSUME TypeInv, PolicyInv, LoopInv, NEW c \in Calls, Handles(c), Grows,
         Len(policies') = Len(policies),
         \A i \in 1..Len(policies) :
           policies'[i].status # "active" => policies[i].status # "active" \/ Terminated(policies[i].call)',
         serving'[c] # "done" \/ served'[c].payload # "policy"
  PROVE  PolicyInv'
  BY SMTT(30), PoliciesKept, PolicyFacts DEF PolicyInv, PoliciesServed, OnePolicyEach, ServedIsStored,
     HasPolicy, Grows, Terminated

LEMMA ReportKeeps ==
  ASSUME TypeInv, PolicyInv, LoopInv, NEW c \in Calls, ServeCall(c),
         BeginServe(c) \/ HandleReport(c)
  PROVE  PolicyInv' /\ LoopInv'
  <1>1. Handles(c) /\ UNCHANGED <<policies, cursor, asked>>
    BY ServeHandles DEF BeginServe, HandleReport, Handles
  <1>2. Grows /\ Len(policies') \in Nat
    BY <1>1, PolicyFacts DEF Grows
  <1>3. serving'[c] # "done" \/ served'[c].payload # "policy"
    BY DEF BeginServe, HandleReport, Finish, Raise, Answer, TypeInv, TypeOK, ShapeInv
  <1>4. PolicyInv'
    BY <1>1, <1>2, <1>3, NoneStored
  <1>5. LoopOf(c)'
    BY <1>1 DEF BeginServe, HandleReport, Finish, Raise, LoopOf, TypeInv, TypeOK
  <1> QED BY <1>1, <1>2, <1>4, <1>5, OtherLoops DEF LoopInv

(* The loop begins before the first policy ...                               *)
LEMMA BeginTerminateKeeps ==
  ASSUME TypeInv, PolicyInv, LoopInv, NEW c \in Calls, ServeCall(c), BeginTerminate(c)
  PROVE  PolicyInv' /\ LoopInv'
  <1>1. Handles(c) /\ UNCHANGED <<policies, served, asked>>
    BY ServeHandles DEF BeginTerminate, Handles
  <1>2. Grows /\ Len(policies') \in Nat
    BY <1>1, PolicyFacts DEF Grows
  <1>3. PolicyInv'
    BY <1>1, <1>2, NoneStored DEF BeginTerminate, TypeInv, StageInv
  <1>4. /\ serving'[c] = "terminating" /\ asked'[c].action = "terminate_policy"
        /\ cursor'[c] = [size |-> Len(policies), next |-> 1, found |-> FALSE]
        /\ \A t \in Calls : t # c => cursor'[t] = cursor[t]
    BY <1>1 DEF BeginTerminate, TypeInv, TypeOK, ShapeInv
  <1>5. LoopOf(c)'
    BY <1>1, <1>4, PolicyFacts DEF LoopOf
  <1> QED BY <1>1, <1>2, <1>3, <1>4, <1>5, OtherLoops DEF LoopInv

(* ... ends one policy of the order at a time ...                            *)
LEMMA TerminateNextKeeps ==
  ASSUME TypeInv, PolicyInv, LoopInv, NEW c \in Calls, ServeCall(c), TerminateNext(c)
  PROVE  PolicyInv' /\ LoopInv'
  <1> DEFINE i == cursor[c].next
  <1>1. Handles(c) /\ UNCHANGED <<serving, served, asked>>
    BY ServeHandles DEF TerminateNext, Handles
  <1>2. /\ serving[c] = "terminating" /\ asked[c].action = "terminate_policy"
        /\ cursor[c] \in [size : Nat, next : Nat \ {0}, found : BOOLEAN]
        /\ cursor[c].size = Len(policies) /\ i <= cursor[c].size
        /\ \A j \in 1..Len(policies) :
             asked[policies[j].call].order = asked[c].order /\ j < i =>
               policies[j].status = "terminated"
    BY DEF TerminateNext, Iterating, LoopInv, LoopOf
  <1>3. i \in 1..Len(policies) /\ i + 1 \in Nat \ {0} /\ \A j \in 1..Len(policies) : j < i + 1 => j < i \/ j = i
    BY <1>2, PolicyFacts
  <1>4. /\ cursor'[c] \in [size : Nat, next : Nat \ {0}, found : BOOLEAN]
        /\ cursor'[c].size = Len(policies) /\ cursor'[c].next = i + 1
        /\ \A t \in Calls : t # c => cursor'[t] = cursor[t]
    <2>1. cursor'[c] = [cursor[c] EXCEPT !.next = i + 1, !.found = @ \/ Hit(c, i)]
      BY DEF TerminateNext, TypeInv, ShapeInv
    <2>2. (cursor[c].found \/ Hit(c, i)) \in BOOLEAN
      BY DEF Hit
    <2>3. \A t \in Calls : t # c => cursor'[t] = cursor[t]
      BY Zenon DEF TerminateNext, TypeInv, ShapeInv
    <2> QED BY <1>2, <1>3, <2>1, <2>2, <2>3
  <1>5. /\ Len(policies') = Len(policies)
        /\ \A j \in 1..Len(policies) :
             /\ policies'[j].call = policies[j].call
             /\ policies'[j].status = IF Hit(c, i) /\ j = i THEN "terminated" ELSE policies[j].status
    <2>1. CASE Hit(c, i)
      <3>1. policies' = [policies EXCEPT ![i].status = "terminated"]
        BY <2>1 DEF TerminateNext
      <3> DEFINE Policy == [call : Calls, status : {"active", "terminated"}]
      <3>2. policies \in Seq(Policy)
        BY DEF TypeInv, ShapeInv
      <3>3. \A row \in Policy : /\ [row EXCEPT !.status = "terminated"] \in Policy
                                /\ [row EXCEPT !.status = "terminated"].call = row.call
                                /\ [row EXCEPT !.status = "terminated"].status = "terminated"
        OBVIOUS
      <3> HIDE DEF Policy, i
      <3> QED BY <1>3, <2>1, <3>1, <3>2, <3>3, StatusType
    <2>2. CASE ~ Hit(c, i)
      BY <2>2 DEF TerminateNext
    <2> QED BY <2>1, <2>2
  <1>6. Grows /\ Len(policies') \in Nat
    BY <1>5, PolicyFacts DEF Grows
  <1>7. \A j \in 1..Len(policies) : j = i /\ Hit(c, i) => Terminated(policies[j].call)'
    BY <1>1, <1>2, <1>3, <1>5 DEF Hit, Terminated
  <1>8. PolicyInv'
    <2>1. serving'[c] # "done"
      BY <1>1, <1>2
    <2>2. \A j \in 1..Len(policies) :
            policies'[j].status # "active" =>
              policies[j].status # "active" \/ Terminated(policies[j].call)'
      BY <1>5, <1>7 DEF Terminated
    <2> QED BY <1>1, <1>5, <1>6, <2>1, <2>2, NoneStored
  <1>9. policies'[i].status = "terminated" \/ asked[policies[i].call].order # asked[c].order
    BY <1>3, <1>5, PolicyFacts DEF Hit
  <1>10. \A j \in 1..Len(policies) :
           asked[policies'[j].call].order = asked[c].order /\ j < i + 1 =>
             policies'[j].status = "terminated"
    BY <1>2, <1>3, <1>5, <1>9
  <1>11. LoopOf(c)'
    BY <1>1, <1>2, <1>4, <1>5, <1>10, PolicyFacts DEF LoopOf
  <1> QED BY <1>1, <1>4, <1>6, <1>8, <1>11, OtherLoops DEF LoopInv

(* ... and says so when it is through, or raises when a policy is new.       *)
LEMMA EndTerminateKeeps ==
  ASSUME TypeInv, PolicyInv, LoopInv, NEW c \in Calls, ServeCall(c),
         TerminateRaises(c) \/ EndTerminate(c)
  PROVE  PolicyInv' /\ LoopInv'
  <1>1. Handles(c) /\ UNCHANGED <<policies, cursor, asked>>
    BY ServeHandles DEF TerminateRaises, EndTerminate, Handles
  <1>2. Grows /\ Len(policies') \in Nat
    BY <1>1, PolicyFacts DEF Grows
  <1>3. /\ served'[c].payload # "policy" /\ serving'[c] = "done" /\ serving[c] = "terminating"
        /\ served'[c].success = "true" => cursor[c].next > cursor[c].size
    BY DEF TerminateRaises, EndTerminate, Iterating, Finish, Raise, Answer, TypeInv, TypeOK, ShapeInv
  <1>4. PolicyInv'
    BY <1>1, <1>2, <1>3, NoneStored
  <1>5. LoopOf(c)
    BY DEF LoopInv
  <1>6. LoopOf(c)'
    BY <1>1, <1>3, <1>5 DEF LoopOf
  <1> QED BY <1>1, <1>2, <1>4, <1>6, OtherLoops DEF LoopInv

LEMMA ServeKeeps ==
  ASSUME TypeInv, PolicyInv, LoopInv, NEW c \in Calls, ServeCall(c)
  PROVE  PolicyInv' /\ LoopInv'
  BY StoreKeeps, ReportKeeps, BeginTerminateKeeps, TerminateNextKeeps, EndTerminateKeeps
     DEF ServeCall, Serve

-----------------------------------------------------------------------------
(* What is shown was served, by each of the three processes.                 *)
LEMMA ServeShows ==
  ASSUME TypeInv, ShownInv, AssignedInv, NEW c \in Calls, Handles(c)
  PROVE  ShownInv' /\ AssignedInv'
  <1>1. /\ serving[c] # "done"
        /\ \A d \in Calls : d # c => served'[d] = served[d] /\ serving'[d] = serving[d]
    BY HandlesOne
  <1>2. UNCHANGED <<gwAnswer, premium, answer, op, chosen, assigned>>
    BY DEF Handles, operatorVars
  <1>3. ShownInv'
    BY <1>1, <1>2 DEF ShownInv
  <1>4. AssignedInv'
    BY <1>2 DEF AssignedInv
  <1> QED BY <1>3, <1>4

LEMMA GatewayShows ==
  ASSUME TypeInv, ShownInv, AssignedInv, NEW c \in Calls, GwReceive(c) \/ GwWakes(c)
  PROVE  ShownInv' /\ AssignedInv'
  <1>1. /\ UNCHANGED <<premium, answer, op, chosen, assigned, served>>
        /\ \A d \in Calls : serving[d] = "done" => serving'[d] = "done"
    BY OthersFrame DEF GwReceive, GwWakes, GwReply, GwTimeout, operatorVars, ServiceFrame
  <1>2. \A d \in Calls : d # c => gwAnswer'[d] = gwAnswer[d]
    BY DEF GwReceive, GwWakes, GwReply, GwTimeout, GwReturn, TypeInv, TypeOK
  <1>3. gwAnswer'[c] # None /\ gwAnswer'[c].payload = "policy" =>
          serving[c] = "done" /\ served[c].payload = "policy"
    <2>1. CASE GwReceive(c)
      BY <2>1 DEF GwReceive, GwReturn, Answer, TypeInv, TypeOK, ShownInv
    <2>2. CASE GwReply(c)
      <3>1. served[c] \in Response /\ serving[c] = "done"
        BY <2>2 DEF GwReply, TypeInv, StageInv, Response
      <3> QED BY <2>2, <3>1 DEF GwReply, GwReturn, Answer, TypeInv, TypeOK
    <2>3. CASE GwTimeout(c)
      BY <2>3 DEF GwTimeout, GwReturn, Answer, TypeInv, TypeOK
    <2> QED BY <2>1, <2>2, <2>3 DEF GwWakes
  <1>4. ShownInv'
    BY <1>1, <1>2, <1>3 DEF ShownInv
  <1>5. AssignedInv'
    BY <1>1 DEF AssignedInv
  <1> QED BY <1>4, <1>5

(* The operator keeps what it answered, and answers what it was told.        *)
OperatorFrame(c) ==
  /\ UNCHANGED <<gwAnswer, served>>
  /\ \A d \in Calls : serving[d] = "done" => serving'[d] = "done"
  /\ \A d \in Calls : d # c =>
       /\ op'[d] = op[d] /\ answer'[d] = answer[d]
       /\ chosen'[d] = chosen[d] /\ premium'[d] = premium[d]
  /\ \A k \in Calls : assigned[k] # None => assigned'[k] = assigned[k]

LEMMA OperatorFrames ==
  ASSUME TypeInv, NEW c \in Calls,
         Arrive(c) \/ Assign(c) \/ OpWakes(c) \/ PublishOffer(c)
  PROVE  OperatorFrame(c)
  <1>1. UNCHANGED gwAnswer
    BY DEF Arrive, RegisterDrone, LookUp, BuyInsurance, CreateOrder, Assign, OpWakes,
       OpReceive, OpTimeout, Conclude, PublishOffer
  <1>2. UNCHANGED served /\ \A d \in Calls : serving[d] = "done" => serving'[d] = "done"
    BY OthersFrame DEF ServiceFrame
  <1>3. \A d \in Calls : d # c => op'[d] = op[d] /\ answer'[d] = answer[d]
    BY DEF Arrive, RegisterDrone, LookUp, BuyInsurance, CreateOrder, Assign, OpWakes,
       OpReceive, OpTimeout, Conclude, PublishOffer, Return, Ask, TypeInv, TypeOK
  <1>4. \A d \in Calls : d # c => chosen'[d] = chosen[d] /\ premium'[d] = premium[d]
    BY ZenonT(30) DEF Arrive, RegisterDrone, LookUp, BuyInsurance, CreateOrder, Assign, OpWakes,
       OpReceive, OpTimeout, Conclude, PublishOffer, TypeInv, TypeOK
  <1>5. \A k \in Calls : assigned[k] # None => assigned'[k] = assigned[k]
    BY DEF Arrive, RegisterDrone, LookUp, BuyInsurance, CreateOrder, Assign, OpWakes,
       OpReceive, OpTimeout, Conclude, PublishOffer, TypeInv, TypeOK
  <1> QED BY <1>1, <1>2, <1>3, <1>4, <1>5 DEF OperatorFrame

(* The call a handler answered in this step.                                 *)
ShownAt(c) ==
  /\ premium[c] => serving[c] = "done" /\ served[c].payload = "policy"
  /\ answer[c] # None /\ answer[c].payload = "policy" =>
       serving[c] = "done" /\ served[c].payload = "policy"

AssignedAt(c) ==
  answer[c] # None /\ answer[c].status = "assigned" =>
    /\ op[c] = "done" /\ chosen[c] \in Entry
    /\ assigned[chosen[c].record] = c

LEMMA FrameShows ==
  ASSUME TypeInv, ShownInv, AssignedInv, NEW c \in Calls, OperatorFrame(c),
         ShownAt(c)', AssignedAt(c)'
  PROVE  ShownInv' /\ AssignedInv'
  <1>1. ShownInv'
    BY DEF ShownInv, OperatorFrame, ShownAt
  <1>2. ASSUME NEW d \in Calls, d # c, answer'[d] # None /\ answer'[d].status = "assigned"
        PROVE  /\ op'[d] = "done" /\ chosen'[d] \in Entry
               /\ assigned'[chosen'[d].record] = d
    <2>1. /\ op[d] = "done" /\ chosen[d] \in Entry /\ assigned[chosen[d].record] = d
          /\ chosen'[d] = chosen[d] /\ op'[d] = op[d]
      BY <1>2 DEF AssignedInv, OperatorFrame
    <2>2. chosen[d].record \in Calls /\ d # None
      BY <2>1, RequestsAssumption DEF Entry
    <2> QED BY <2>1, <2>2 DEF OperatorFrame
  <1>3. AssignedInv'
    BY <1>2 DEF AssignedInv, AssignedAt
  <1> QED BY <1>1, <1>3

(* A handler that returns no policy and assigns nothing.                     *)
LEMMA ReturnShows ==
  ASSUME TypeInv, ShownInv, NEW c \in Calls, OperatorFrame(c),
         NEW status \in Statuses \ {"assigned"}, Return(c, status, None), UNCHANGED premium
  PROVE  ShownAt(c)' /\ AssignedAt(c)'
  <1>1. answer'[c] = [status |-> status, payload |-> None]
    BY DEF Return, TypeInv, TypeOK
  <1>2. answer'[c].payload # "policy" /\ answer'[c].status # "assigned"
    BY <1>1, RequestsAssumption DEF Payloads
  <1> QED BY <1>2 DEF ShownAt, AssignedAt, ShownInv, OperatorFrame

(* A handler that does not return yet.                                       *)
LEMMA GoesOnShows ==
  ASSUME TypeInv, ShownInv, AssignedInv, NEW c \in Calls, OperatorFrame(c),
         UNCHANGED <<answer, premium>>, op[c] # "done"
  PROVE  ShownAt(c)' /\ AssignedAt(c)'
  BY DEF ShownAt, AssignedAt, ShownInv, AssignedInv, OperatorFrame

LEMMA OperatorShows ==
  ASSUME TypeInv, ShownInv, AssignedInv, NEW c \in Calls,
         Arrive(c) \/ Assign(c) \/ OpWakes(c) \/ PublishOffer(c)
  PROVE  ShownInv' /\ AssignedInv'
  <1>1. OperatorFrame(c)
    BY OperatorFrames
  <1>2. CASE Arrive(c)
    <2>1. UNCHANGED premium /\ op[c] = "idle"
      BY <1>2 DEF Arrive, RegisterDrone, LookUp, BuyInsurance, CreateOrder, Receives
    <2>2. \/ UNCHANGED answer
          \/ \E status \in {"registered", "failed", "nothing"} : Return(c, status, None)
      BY <1>2 DEF Arrive, RegisterDrone, LookUp, BuyInsurance, CreateOrder
    <2>3. ShownAt(c)' /\ AssignedAt(c)'
      BY <1>1, <2>1, <2>2, ReturnShows, GoesOnShows DEF Statuses
    <2> QED BY <1>1, <2>3, FrameShows
  <1>3. CASE Assign(c)
    <2>1. CASE Return(c, "failed", None)
      <3>1. UNCHANGED premium
        BY <1>3 DEF Assign
      <3>2. ShownAt(c)' /\ AssignedAt(c)'
        BY <1>1, <2>1, <3>1, ReturnShows DEF Statuses
      <3> QED BY <1>1, <3>2, FrameShows
    <2>2. CASE /\ Return(c, "assigned", None)
               /\ assigned' = [assigned EXCEPT ![chosen[c].record] = c]
      <3>1. chosen[c] \in Entry /\ chosen' = chosen /\ premium' = premium
        BY <1>3 DEF Assign, TypeInv, StageInv
      <3>2. chosen[c].record \in Calls
        BY <3>1 DEF Entry
      <3>3. /\ answer'[c] = [status |-> "assigned", payload |-> None] /\ op'[c] = "done"
            /\ assigned'[chosen'[c].record] = c
        BY <2>2, <3>1, <3>2 DEF Return, TypeInv, TypeOK
      <3>4. answer'[c].payload # "policy"
        BY <3>3, RequestsAssumption DEF Payloads
      <3>5. AssignedAt(c)'
        BY <3>1, <3>3 DEF AssignedAt
      <3>6. ShownAt(c)'
        BY <1>1, <3>1, <3>4 DEF ShownAt, ShownInv, OperatorFrame
      <3> QED BY <1>1, <3>5, <3>6, FrameShows
    <2> QED BY <1>3, <2>1, <2>2 DEF Assign
  <1>4. ASSUME NEW r, Conclude(c, r),
               r # None /\ r.payload = "policy" =>
                 serving[c] = "done" /\ served[c].payload = "policy"
        PROVE  ShownAt(c)' /\ AssignedAt(c)'
    <2>1. CASE /\ UNCHANGED answer
               /\ premium' = [premium EXCEPT ![c] = r # None /\ r.success = "true"
                                                    /\ r.payload = "policy"]
      <3>1. premium'[c] => r # None /\ r.payload = "policy"
        BY <2>1, Zenon DEF TypeInv, TypeOK
      <3>2. op[c] # "done"
        BY <1>4 DEF Conclude
      <3> QED BY <1>1, <1>4, <2>1, <3>1, <3>2 DEF ShownAt, AssignedAt, ShownInv, AssignedInv,
              OperatorFrame
    <2>2. CASE /\ UNCHANGED premium /\ r # None
               /\ \/ Return(c, "incident_processed", r.payload)
                  \/ Return(c, "insured", r.payload)
      <3>1. answer'[c].payload = r.payload /\ answer'[c].status # "assigned"
        BY <2>2 DEF Return, TypeInv, TypeOK
      <3> QED BY <1>1, <1>4, <2>2, <3>1 DEF ShownAt, AssignedAt, ShownInv, OperatorFrame
    <2>3. CASE UNCHANGED premium /\ Return(c, "failed", None)
      BY <1>1, <2>3, ReturnShows DEF Statuses
    <2> QED BY <1>4, <2>1, <2>2, <2>3 DEF Conclude
  <1>5. CASE OpWakes(c)
    <2>1. gwAnswer[c] # None /\ gwAnswer[c].payload = "policy" =>
            serving[c] = "done" /\ served[c].payload = "policy"
      BY DEF ShownInv
    <2>2. ShownAt(c)' /\ AssignedAt(c)'
      BY <1>4, <1>5, <2>1 DEF OpWakes, OpReceive, OpTimeout
    <2> QED BY <1>1, <2>2, FrameShows
  <1>6. CASE PublishOffer(c)
    <2>1. UNCHANGED premium /\ op[c] # "done" /\ (UNCHANGED answer \/ Return(c, "offer_sent", None))
      BY <1>6 DEF PublishOffer
    <2>2. ShownAt(c)' /\ AssignedAt(c)'
      BY <1>1, <2>1, ReturnShows, GoesOnShows DEF Statuses
    <2> QED BY <1>1, <2>2, FrameShows
  <1> QED BY <1>2, <1>3, <1>5, <1>6

-----------------------------------------------------------------------------
LEMMA StepIInv ==
  IInv /\ [Next]_vars => IInv'
  <1> SUFFICES ASSUME IInv, [Next]_vars PROVE IInv'
    OBVIOUS
  <1> USE DEF IInv
  <1>1. CASE UNCHANGED vars
    <2>1. UNCHANGED <<request, op, answer, registry, assigned, chosen, offers, premium,
                      gw, gwAnswer, asked, policies, serving, cursor, served>>
      BY <1>1 DEF vars, operatorVars, serviceVars
    <2>2. TypeInv'
      BY <2>1 DEF TypeInv, TypeOK, ShapeInv, StageInv
    <2>3. PolicyInv'
      BY <2>1 DEF PolicyInv, PoliciesServed, OnePolicyEach, ServedIsStored, HasPolicy, Terminated
    <2>4. LoopInv' /\ ShownInv' /\ AssignedInv'
      BY <2>1 DEF LoopInv, LoopOf, ShownInv, AssignedInv
    <2> QED BY <2>2, <2>3, <2>4
  <1>2. ASSUME NEW c \in Calls, Arrive(c) \/ Assign(c) \/ OpWakes(c) \/ PublishOffer(c)
        PROVE  IInv'
    BY <1>2, OperatorTypes, OthersFrame, FrameKeeps, OperatorShows
  <1>3. ASSUME NEW c \in Calls, GwReceive(c) \/ GwWakes(c)
        PROVE  IInv'
    BY <1>3, GatewayTypes, OthersFrame, FrameKeeps, GatewayShows
  <1>4. ASSUME NEW c \in Calls, ServeCall(c)
        PROVE  IInv'
    BY <1>4, ServiceTypes, ServeKeeps, ServeHandles, ServeShows
  <1> QED BY <1>1, <1>2, <1>3, <1>4 DEF Next

(* The three processes keep their variables in their types, for any calls    *)
(* and whatever each of them is a request for.                               *)
THEOREM TypeCorrect ==
  Spec => []TypeOK
  <1>1. IInv => TypeOK
    BY DEF IInv, TypeInv
  <1> QED BY <1>1, InitIInv, StepIInv, PTL DEF Spec

(* Whatever price or policy the operator shows for a call, the insurer keeps *)
(* exactly one policy for it, active unless policies of its order are ended: *)
(* neither timeout, nor an answer to nobody, comes between the two.          *)
THEOREM PolicyIsBehindAnswer ==
  Spec => []PolicyBehindAnswer
  <1>1. IInv => PolicyBehindAnswer
    <2> SUFFICES ASSUME IInv, NEW c \in Calls,
                        premium[c] \/ (answer[c] # None /\ answer[c].payload = "policy")
                 PROVE  \E i \in 1..Len(policies) :
                          /\ policies[i].call = c
                          /\ \A j \in 1..Len(policies) : policies[j].call = c => j = i
                          /\ policies[i].status = "active" \/ Terminated(c)
      BY DEF PolicyBehindAnswer
    <2>1. serving[c] = "done" /\ served[c].payload = "policy"
      BY DEF IInv, ShownInv
    <2>2. PICK i \in 1..Len(policies) : policies[i].call = c
      BY <2>1 DEF IInv, PolicyInv, ServedIsStored, HasPolicy
    <2>3. policies[i].status = "active" \/ Terminated(c)
      BY <2>2 DEF IInv, PolicyInv, PoliciesServed
    <2>4. \A j \in 1..Len(policies) : policies[j].call = c => j = i
      BY <2>2 DEF IInv, PolicyInv, OnePolicyEach
    <2> QED BY <2>2, <2>3, <2>4
  <1> QED BY <1>1, InitIInv, StepIInv, PTL DEF Spec

(* A terminate_policy that reports success has ended every policy of its     *)
(* order that was there when its loop began, for any number of handlers that *)
(* store and end policies meanwhile.                                         *)
THEOREM TerminationIsComplete ==
  Spec => []TerminateComplete
  <1>1. IInv => TerminateComplete
    <2> SUFFICES ASSUME IInv, NEW t \in Calls, asked[t].action = "terminate_policy",
                        served[t] # None, served[t].success = "true",
                        NEW i \in 1..cursor[t].size,
                        asked[policies[i].call].order = asked[t].order
                 PROVE  policies[i].status = "terminated"
      BY DEF TerminateComplete
    <2>1. serving[t] = "done"
      BY DEF IInv, TypeInv, StageInv
    <2> QED BY <2>1 DEF IInv, LoopInv, LoopOf
  <1> QED BY <1>1, InitIInv, StepIInv, PTL DEF Spec

(* One registration of a drone is assigned once, however many handlers hold  *)
(* it at the same time.                                                      *)
THEOREM RegistrationIsAssignedOnce ==
  Spec => []AssignedOncePerRegistration
  <1>1. IInv => AssignedOncePerRegistration
    BY DEF IInv, AssignedInv, AssignedOncePerRegistration
  <1> QED BY <1>1, InitIInv, StepIInv, PTL DEF Spec
=============================================================================
