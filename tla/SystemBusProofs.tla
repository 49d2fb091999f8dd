--------------------------- MODULE SystemBusProofs ---------------------------
(***************************************************************************)
(* Theorems about SystemBus, for any set of calls, any pool size and any   *)
(* number of redelivered replies, and for both buses.                      *)
(*                                                                         *)
(* None of the properties is inductive.  FutureInv ties an entry of        *)
(* _pending_requests to the phase of its call and to its Future;           *)
(* MessageInv says that a message that is somewhere was sent by somebody.  *)
(***************************************************************************)
EXTENDS SystemBus, FiniteSetTheorems, TLAPS

\* The phases before the Future of a call exists.
Outside == {"idle", "queued", "handling", "cancelled"}

\* An entry means an unfinished call, or one that MQTT's publish() ended with an
\* exception, and a Future that is not complete; a call that is about to wait,
\* or waits, has an entry or a completed Future; what raised was never sent.
FutureInv ==
    \A c \in Calls :
        /\ resolved[c] \in {0, 1}
        /\ c \in pending => /\ phase[c] \in InRequest \/ (outcome[c] = "raised" /\ ~ReplyViaPool)
                            /\ phase[c] \notin Outside
                            /\ resolved[c] = 0
        /\ outcome[c] = "raised" => phase[c] \in {"returned", "finished"} /\ c \notin published
        /\ phase[c] \in Outside => resolved[c] = 0
        /\ phase[c] \in {"registered", "waiting"} => c \in pending \/ resolved[c] = 1

\* A reply in flight or in the queue, and a completed Future, come from a
\* reply that was sent, which answers a request that was published.
MessageInv ==
    \A c \in Calls :
        /\ replies[c] > 0 => sent[c] > 0
        /\ resolved[c] > 0 => sent[c] > 0
        /\ sent[c] > 0 => c \in published
        /\ c \in published => phase[c] \notin Outside \cup {"registered"}

\* A reply in the queue was sent; an inbound message there belongs to a call
\* that is still queued, and no message is queued twice, so no worker enters
\* the handler of a call again.
QueueInv ==
    \A i \in DOMAIN jobs :
        /\ jobs[i].kind = "reply" => sent[jobs[i].call] > 0
        /\ jobs[i].kind = "handle" => phase[jobs[i].call] = "queued"
        /\ jobs[i].kind = "handle" => \A k \in DOMAIN jobs : jobs[k] = jobs[i] => k = i

IInv == TypeOK /\ FutureInv /\ MessageInv /\ QueueInv

-----------------------------------------------------------------------------
\* What the queue holds after a job is appended or taken.
LEMMA AppendJob ==
  ASSUME NEW q \in Seq(Job), NEW j \in Job
  PROVE  /\ Append(q, j) \in Seq(Job)
         /\ \A i \in DOMAIN Append(q, j) :
               \/ i = Len(q) + 1 /\ Append(q, j)[i] = j
               \/ i \in DOMAIN q /\ Append(q, j)[i] = q[i]
  OBVIOUS

LEMMA TakeJob ==
  ASSUME NEW q \in Seq(Job), q # <<>>
  PROVE  /\ Tail(q) \in Seq(Job)
         /\ 1 \in DOMAIN q
         /\ Head(q) = q[1]
         /\ \A i \in DOMAIN Tail(q) :
               i \in Nat \ {0} /\ i + 1 \in DOMAIN q /\ Tail(q)[i] = q[i + 1]
  OBVIOUS

\* The jobs the code submits are jobs.
LEMMA JobKinds ==
  ASSUME NEW c \in Calls
  PROVE  /\ HandleJob(c) \in Job /\ HandleJob(c).kind = "handle" /\ HandleJob(c).call = c
         /\ ReplyJob(c) \in Job /\ ReplyJob(c).kind = "reply" /\ ReplyJob(c).call = c
  BY DEF HandleJob, ReplyJob, Job

-----------------------------------------------------------------------------
\* Every step of the bus keeps the variables in their types.
LEMMA TypeStep == ASSUME TypeOK, [Next]_vars PROVE TypeOK'
  <1> USE DEF TypeOK, Phases
  <1>0. ASSUME Started \/ MayStart PROVE bus' \in BusStates
    BY <1>0 DEF Started, MayStart, BusStates
  <1>1. CASE Stop \/ StopEnds
    <2>1. bus' \in BusStates
      BY <1>1 DEF Stop, StopEnds, BusStates
    <2>2. <<>> \in Seq(Job)
      OBVIOUS
    <2> QED BY <1>1, <2>1, <2>2 DEF Stop, StopEnds
  <1>2. ASSUME NEW c \in Calls, CallStep(c) PROVE TypeOK'
    <2>1. CASE DeliverInbound(c)
      <3>1. Append(jobs, HandleJob(c)) \in Seq(Job)
        BY JobKinds, AppendJob, Zenon
      <3> QED BY <2>1, <3>1 DEF DeliverInbound
    <2>2. CASE StartHandler(c)
      BY <2>2, TakeJob DEF StartHandler
    <2>3. CASE RunReplyJob(c)
      <3>1. jobs' \in Seq(Job)
        BY <2>3, TakeJob DEF RunReplyJob
      <3> QED BY <2>3, <3>1 DEF RunReplyJob, CompleteFuture
    <2>4. CASE DeliverReply(c)
      <3>1. jobs' \in Seq(Job)
        <4>1. jobs' = Append(jobs, ReplyJob(c)) \/ UNCHANGED jobs
          BY <2>4, Zenon DEF DeliverReply
        <4>2. Append(jobs, ReplyJob(c)) \in Seq(Job)
          BY JobKinds, AppendJob, Zenon
        <4> QED BY <4>1, <4>2, Zenon
      <3>2. replies' \in [Calls -> Nat]
        BY <2>4 DEF DeliverReply
      <3>3. UNCHANGED <<pending, resolved>> \/ CompleteFuture(c)
        BY <2>4, Zenon DEF DeliverReply
      <3>4. ASSUME CompleteFuture(c)
            PROVE  pending' \in SUBSET Calls /\ resolved' \in [Calls -> Nat]
        <4>1. pending' \in SUBSET Calls
          BY <3>4 DEF CompleteFuture
        <4>2. resolved' \in [Calls -> Nat]
          BY <3>4 DEF CompleteFuture
        <4> QED BY <4>1, <4>2
      <3>5. pending' \in SUBSET Calls /\ resolved' \in [Calls -> Nat]
        BY <3>3, <3>4
      <3> QED BY <2>4, <3>1, <3>2, <3>5 DEF DeliverReply
    <2>5. CASE Register(c)
      BY <2>5, <1>0 DEF Register
    <2>6. CASE PublishOk(c)
      BY <2>6, <1>0 DEF PublishOk
    <2>7. CASE PublishFail(c)
      BY <2>7, <1>0 DEF PublishFail
    <2>8. CASE ReturnReply(c)
      BY <2>8, <1>0 DEF ReturnReply
    <2>9. CASE Timeout(c)
      BY <2>9 DEF Timeout
    <2>10. CASE PopPending(c)
      BY <2>10, <1>0 DEF PopPending
    <2>11. CASE FinishHandler(c)
      BY <2>11 DEF FinishHandler
    <2>12. CASE CalleeReply(c)
      BY <2>12 DEF CalleeReply
    <2>13. CASE LoseReply(c)
      BY <2>13 DEF LoseReply
    <2>14. CASE StartFails(c)
      BY <2>14 DEF StartFails
    <2>15. CASE PublishRaises(c)
      BY <2>15, <1>0 DEF PublishRaises
    <2> QED BY <1>2, <2>1, <2>2, <2>3, <2>4, <2>5, <2>6, <2>7, <2>8, <2>9,
               <2>10, <2>11, <2>12, <2>13, <2>14, <2>15 DEF CallStep
  <1>3. CASE UNCHANGED vars
    BY <1>3 DEF vars
  <1> QED BY <1>1, <1>2, <1>3 DEF Next

-----------------------------------------------------------------------------
\* A worker that takes an inbound message enters a call that was queued.
LEMMA TakeQueued ==
  ASSUME IInv, NEW c \in Calls, StartHandler(c) PROVE phase[c] = "queued"
  <1>1. 1 \in DOMAIN jobs /\ jobs[1] = HandleJob(c)
    BY TakeJob DEF IInv, TypeOK, StartHandler
  <1>2. jobs[1].kind = "handle" /\ jobs[1].call = c
    BY <1>1 DEF HandleJob
  <1> QED BY <1>1, <1>2 DEF IInv, QueueInv

\* Every step keeps the entries, the Futures and the phases consistent.
LEMMA FutureStep == ASSUME IInv, [Next]_vars PROVE FutureInv'
  <1> USE DEF IInv, TypeOK, FutureInv, MessageInv, AtEntry, InRequest, Outside
  <1>1. CASE Stop \/ StopEnds
    BY <1>1 DEF Stop, StopEnds
  <1>2. ASSUME NEW c \in Calls, CallStep(c) PROVE FutureInv'
    <2>1. CASE DeliverInbound(c)
      BY <2>1 DEF DeliverInbound
    <2>2. CASE StartHandler(c)
      BY <2>2, TakeQueued DEF StartHandler
    <2>3. ASSUME CompleteFuture(c), UNCHANGED <<phase, outcome, published>> PROVE FutureInv'
      BY <2>3 DEF CompleteFuture
    <2>4. CASE RunReplyJob(c)
      BY <2>4, <2>3 DEF RunReplyJob
    <2>5. CASE DeliverReply(c)
      <3>1. /\ UNCHANGED <<phase, outcome, published>>
            /\ UNCHANGED <<pending, resolved>> \/ CompleteFuture(c)
        BY <2>5, Zenon DEF DeliverReply
      <3> QED BY <2>3, <3>1
    <2>6. CASE Register(c)
      BY <2>6 DEF Register
    <2>7. CASE PublishOk(c)
      BY <2>7 DEF PublishOk
    <2>8. CASE PublishFail(c)
      BY <2>8 DEF PublishFail
    <2>9. CASE ReturnReply(c)
      BY <2>9 DEF ReturnReply
    <2>10. CASE Timeout(c)
      BY <2>10 DEF Timeout
    <2>11. CASE PopPending(c)
      BY <2>11 DEF PopPending
    <2>12. CASE FinishHandler(c)
      BY <2>12 DEF FinishHandler
    <2>13. CASE CalleeReply(c)
      BY <2>13 DEF CalleeReply
    <2>14. CASE LoseReply(c)
      BY <2>14 DEF LoseReply
    <2>15. CASE StartFails(c)
      BY <2>15 DEF StartFails
    <2>16. CASE PublishRaises(c)
      BY <2>16 DEF PublishRaises
    <2> QED BY <1>2, <2>1, <2>2, <2>4, <2>5, <2>6, <2>7, <2>8, <2>9,
               <2>10, <2>11, <2>12, <2>13, <2>14, <2>15, <2>16 DEF CallStep
  <1>3. CASE UNCHANGED vars
    BY <1>3 DEF vars
  <1> QED BY <1>1, <1>2, <1>3 DEF Next

\* A worker that takes a reply takes one that was sent.
LEMMA TakeReply ==
  ASSUME IInv, NEW c \in Calls, RunReplyJob(c) PROVE sent[c] > 0
  <1>1. 1 \in DOMAIN jobs /\ jobs[1] = ReplyJob(c)
    BY TakeJob DEF IInv, TypeOK, RunReplyJob
  <1>2. jobs[1].kind = "reply" /\ jobs[1].call = c
    BY <1>1 DEF ReplyJob
  <1> QED BY <1>1, <1>2 DEF IInv, QueueInv

\* Every step keeps the messages accounted for.
LEMMA MessageStep == ASSUME IInv, [Next]_vars PROVE MessageInv'
  <1> USE DEF IInv, TypeOK, FutureInv, MessageInv, AtEntry, Outside
  <1>1. CASE Stop \/ StopEnds
    BY <1>1 DEF Stop, StopEnds
  <1>2. ASSUME NEW c \in Calls, CallStep(c) PROVE MessageInv'
    <2>1. CASE DeliverInbound(c)
      BY <2>1 DEF DeliverInbound
    <2>2. CASE StartHandler(c)
      BY <2>2, TakeQueued DEF StartHandler
    <2>3. CASE RunReplyJob(c)
      BY <2>3, TakeReply DEF RunReplyJob, CompleteFuture
    <2>4. CASE DeliverReply(c)
      <3>1. /\ replies[c] > 0
            /\ replies' = [replies EXCEPT ![c] = @ - 1]
            /\ UNCHANGED <<phase, published, sent>>
            /\ UNCHANGED resolved \/ CompleteFuture(c)
        BY <2>4, Zenon DEF DeliverReply
      <3> QED BY <3>1 DEF CompleteFuture
    <2>5. CASE Register(c)
      BY <2>5 DEF Register
    <2>6. CASE PublishOk(c)
      BY <2>6 DEF PublishOk
    <2>7. CASE PublishFail(c)
      BY <2>7 DEF PublishFail
    <2>8. CASE ReturnReply(c)
      BY <2>8 DEF ReturnReply
    <2>9. CASE Timeout(c)
      BY <2>9 DEF Timeout
    <2>10. CASE PopPending(c)
      BY <2>10 DEF PopPending
    <2>11. CASE FinishHandler(c)
      BY <2>11 DEF FinishHandler
    <2>12. CASE CalleeReply(c)
      BY <2>12 DEF CalleeReply
    <2>13. CASE LoseReply(c)
      BY <2>13 DEF LoseReply
    <2>14. CASE StartFails(c)
      BY <2>14 DEF StartFails
    <2>15. CASE PublishRaises(c)
      BY <2>15 DEF PublishRaises
    <2> QED BY <1>2, <2>1, <2>2, <2>3, <2>4, <2>5, <2>6, <2>7, <2>8, <2>9,
               <2>10, <2>11, <2>12, <2>13, <2>14, <2>15 DEF CallStep
  <1>3. CASE UNCHANGED vars
    BY <1>3 DEF vars
  <1> QED BY <1>1, <1>2, <1>3 DEF Next

\* Every step keeps the queue in agreement with the phases.
LEMMA QueueStep == ASSUME IInv, [Next]_vars PROVE QueueInv'
  <1> USE DEF IInv, TypeOK, QueueInv
  <1>1. CASE Stop \/ StopEnds
    <2>1. CASE Stop /\ ReplyViaPool
      BY <2>1 DEF Stop
    <2>2. CASE Stop /\ ~ReplyViaPool
      <3>1. phase' = phase
        BY <2>2 DEF Stop
      <3> QED BY <2>2, <3>1 DEF Stop
    <2>3. CASE StopEnds
      BY <2>3 DEF StopEnds
    <2> QED BY <1>1, <2>1, <2>2, <2>3
  <1>2. ASSUME NEW c \in Calls, CallStep(c) PROVE QueueInv'
    <2>0. \A i \in DOMAIN jobs : jobs[i] \in Job /\ jobs[i].call \in Calls
      <3>1. \A i \in DOMAIN jobs : jobs[i] \in Job
        OBVIOUS
      <3>2. \A j \in Job : j.call \in Calls
        BY DEF Job
      <3> QED BY <3>1, <3>2
    <2>1. CASE DeliverInbound(c)
      <3>1. \A i \in DOMAIN jobs : jobs[i] # HandleJob(c)
        <4>1. phase[c] # "queued"
          BY <2>1 DEF DeliverInbound
        <4>2. ASSUME NEW i \in DOMAIN jobs, jobs[i] = HandleJob(c) PROVE FALSE
          <5>1. jobs[i].kind = "handle" /\ jobs[i].call = c
            BY <4>2, JobKinds
          <5> QED BY <4>1, <5>1
        <4> QED BY <4>2
      <3> QED BY <2>1, <2>0, <3>1, AppendJob, JobKinds DEF DeliverInbound, HandleJob
    <2>2. CASE StartHandler(c)
      <3>1. 1 \in DOMAIN jobs /\ jobs[1] = HandleJob(c)
        BY <2>2, TakeJob DEF StartHandler
      <3>2. \A i \in DOMAIN Tail(jobs) :
               i \in Nat \ {0} /\ i + 1 \in DOMAIN jobs /\ Tail(jobs)[i] = jobs[i + 1]
        BY <2>2, TakeJob DEF StartHandler
      <3>3. \A k \in DOMAIN jobs : jobs[k] = HandleJob(c) => k = 1
        <4>1. jobs[1].kind = "handle"
          BY <3>1, JobKinds
        <4> QED BY <3>1, <4>1
      <3>4. \A i \in DOMAIN Tail(jobs) : Tail(jobs)[i] # HandleJob(c)
        <4> SUFFICES ASSUME NEW i \in DOMAIN Tail(jobs), Tail(jobs)[i] = HandleJob(c)
                     PROVE  FALSE
          OBVIOUS
        <4>1. i \in Nat \ {0} /\ i + 1 \in DOMAIN jobs /\ jobs[i + 1] = HandleJob(c)
          BY <3>2
        <4>2. i + 1 = 1
          BY <4>1, <3>3
        <4> QED BY <4>1, <4>2
      <3>5. \A i \in DOMAIN Tail(jobs) :
               Tail(jobs)[i].kind = "handle" => Tail(jobs)[i].call # c
        BY <2>0, <3>2, <3>4 DEF HandleJob, Job
      <3> QED BY <2>2, <2>0, <3>2, <3>5 DEF StartHandler
    <2>3. CASE RunReplyJob(c)
      <3>1. \A i \in DOMAIN Tail(jobs) :
               i \in Nat \ {0} /\ i + 1 \in DOMAIN jobs /\ Tail(jobs)[i] = jobs[i + 1]
        BY <2>3, TakeJob DEF RunReplyJob
      <3> QED BY <2>3, <3>1 DEF RunReplyJob
    <2>4. CASE DeliverReply(c)
      <3>1. UNCHANGED <<phase, sent>> /\ (UNCHANGED jobs \/ jobs' = Append(jobs, ReplyJob(c)))
        BY <2>4, Zenon DEF DeliverReply
      <3>2. CASE UNCHANGED jobs
        BY <3>1, <3>2
      <3>3. CASE jobs' = Append(jobs, ReplyJob(c))
        <4>1. sent[c] > 0
          BY <2>4 DEF DeliverReply, MessageInv
        <4> QED BY <2>0, <3>1, <3>3, <4>1, AppendJob, JobKinds
      <3> QED BY <3>1, <3>2, <3>3
    <2>5. ASSUME UNCHANGED <<jobs, sent>>, phase[c] # "queued",
                 \A d \in Calls \ {c} : phase'[d] = phase[d]
          PROVE  QueueInv'
      BY <2>0, <2>5
    <2>6. CASE CalleeReply(c)
      BY <2>6, <2>0 DEF CalleeReply
    <2>7. CASE LoseReply(c)
      BY <2>7 DEF LoseReply
    <2>8. CASE \/ Register(c) \/ StartFails(c) \/ PublishOk(c) \/ PublishFail(c)
               \/ PublishRaises(c) \/ ReturnReply(c) \/ Timeout(c) \/ PopPending(c)
               \/ FinishHandler(c)
      BY <2>5, <2>8 DEF AtEntry, Register, StartFails, PublishOk, PublishFail, PublishRaises,
                        ReturnReply, Timeout, PopPending, FinishHandler
    <2> QED BY <1>2, <2>1, <2>2, <2>3, <2>4, <2>6, <2>7, <2>8 DEF CallStep
  <1>3. CASE UNCHANGED vars
    BY <1>3 DEF vars
  <1> QED BY <1>1, <1>2, <1>3 DEF Next

-----------------------------------------------------------------------------
\* The inductive invariant holds in every reachable state.
THEOREM Invariance == Spec => []IInv
  <1>1. Init => IInv
    <2> SUFFICES ASSUME Init PROVE IInv
      OBVIOUS
    <2>1. TypeOK
      <3>1. bus \in BusStates
        BY DEF Init, BusStates
      <3>2. jobs \in Seq(Job)
        BY DEF Init
      <3> QED BY <3>1, <3>2 DEF Init, TypeOK, Phases
    <2> QED BY <2>1 DEF Init, IInv, FutureInv, MessageInv, QueueInv, Outside, InRequest
  <1>2. IInv /\ [Next]_vars => IInv'
    BY TypeStep, FutureStep, MessageStep, QueueStep DEF IInv
  <1> QED BY <1>1, <1>2, PTL DEF Spec

\* Type correctness of the bus.
THEOREM TypeCorrect == Spec => []TypeOK
  BY Invariance, PTL DEF IInv

\* The safety of _pending_requests on both buses, for any number of calls, workers
\* and copies: an entry outlives its call only when publish() raised and nothing was
\* sent, no Future is completed twice, and a blocked call without an entry has its reply.
THEOREM FutureSafety == Spec => [](LeaksOnlyUnsent /\ CompletedOnce /\ NoLostWakeup)
  <1>1. IInv => LeaksOnlyUnsent
    BY DEF IInv, TypeOK, FutureInv, LeaksOnlyUnsent
  <1>2. IInv => CompletedOnce
    BY DEF IInv, FutureInv, CompletedOnce
  <1>3. IInv => NoLostWakeup
    BY DEF IInv, FutureInv, NoLostWakeup
  <1> QED BY <1>1, <1>2, <1>3, Invariance, PTL

\* Where publish() turns every exception into False (Kafka), no entry outlives its call.
THEOREM EntriesAreRemoved == ASSUME ReplyViaPool PROVE Spec => []NoLeakedEntry
  <1>1. IInv => NoLeakedEntry
    BY DEF IInv, TypeOK, FutureInv, NoLeakedEntry
  <1> QED BY <1>1, Invariance, PTL

\* The discarded replies are those of calls that no longer want one.
THEOREM DiscardSafety == Spec => NoPrematureDiscard
  <1> DEFINE Discards(c) ==
          /\ RunReplyJob(c) \/ (DeliverReply(c) /\ ~ReplyViaPool)
          /\ resolved'[c] = resolved[c]
          => \/ resolved[c] = 1
             \/ phase[c] \in {"failed", "expired", "returned", "finished"}
  <1>1. ASSUME IInv, NEW c \in Calls PROVE Discards(c)
    <2> SUFFICES ASSUME RunReplyJob(c) \/ (DeliverReply(c) /\ ~ReplyViaPool),
                        resolved'[c] = resolved[c]
                 PROVE  resolved[c] = 1 \/ phase[c] \in {"failed", "expired", "returned", "finished"}
      OBVIOUS
    <2>1. CompleteFuture(c)
      BY Zenon DEF RunReplyJob, DeliverReply
    <2>2. sent[c] > 0
      BY <1>1, TakeReply DEF IInv, MessageInv, DeliverReply
    <2>3. c \notin pending
      BY <1>1, <2>1 DEF CompleteFuture, IInv, TypeOK
    <2>4. phase[c] \in Phases /\ phase[c] \notin Outside \cup {"registered"}
      BY <1>1, <2>2 DEF IInv, TypeOK, MessageInv
    <2> QED BY <1>1, <2>3, <2>4 DEF IInv, FutureInv, Outside, Phases
  <1>2. IInv => [\A c \in Calls : Discards(c)]_vars
    BY <1>1
  <1>3. IInv => [\A c \in Calls :
                   /\ RunReplyJob(c) \/ (DeliverReply(c) /\ ~ReplyViaPool)
                   /\ resolved'[c] = resolved[c]
                   => \/ resolved[c] = 1
                      \/ phase[c] \in {"failed", "expired", "returned", "finished"}]_vars
    BY <1>2
  <1> QED BY <1>3, Invariance, PTL DEF NoPrematureDiscard

-----------------------------------------------------------------------------
\* The abstract state, and how a step that moves one call changes it.
Served == {c \in Calls : sent[c] > 0}

LEMMA StatusFrame ==
  ASSUME NEW c \in Calls, \A d \in Calls \ {c} : phase'[d] = phase[d] /\ outcome'[d] = outcome[d]
  PROVE  RpcStatus' = [RpcStatus EXCEPT ![c] = RpcStatus'[c]]
  BY DEF RpcStatus

\* The bus implements the contract of request(): every call ends once, with a
\* reply only if the callee sent one, with an exception only if nobody was
\* asked (on Kafka, only at its entry), and no outcome is ever revised.
THEOREM BusImplementsRpc == Spec => RpcSpec
  <1> USE DEF InRequest
  <1>1. Init => Rpc!Init
    BY DEF Init, Rpc!Init, RpcStatus
  <1>2. IInv /\ [Next]_vars => [Rpc!Next]_(Rpc!vars)
    <2> SUFFICES ASSUME IInv, [Next]_vars PROVE [Rpc!Next]_(Rpc!vars)
      OBVIOUS
    <2>1. ASSUME RpcStatus' = RpcStatus, Served' = Served PROVE UNCHANGED Rpc!vars
      BY <2>1 DEF Rpc!vars, Served
    <2>2. CASE Stop \/ StopEnds
      BY <2>1, <2>2 DEF Stop, StopEnds, RpcStatus, Served
    <2>3. ASSUME NEW c \in Calls, CallStep(c) PROVE [Rpc!Next]_(Rpc!vars)
      <3>1. CASE \/ DeliverInbound(c) \/ RunReplyJob(c) \/ DeliverReply(c)
                 \/ PublishOk(c) \/ PublishFail(c) \/ Timeout(c) \/ LoseReply(c)
                 \/ FinishHandler(c)
        BY <2>1, <3>1 DEF DeliverInbound, RunReplyJob, DeliverReply, PublishOk,
             PublishFail, Timeout, LoseReply, FinishHandler, RpcStatus, Served, IInv, TypeOK
      <3>2. CASE StartHandler(c)
        BY <2>1, <3>2, TakeQueued DEF StartHandler, RpcStatus, Served, IInv, TypeOK
      <3>3. CASE Register(c)
        <4>1. Rpc!Issue(c)
          BY <3>3, StatusFrame DEF AtEntry, Register, Rpc!Issue, Rpc!Open, RpcStatus, IInv, TypeOK
        <4> QED BY <4>1 DEF Rpc!Next
      <3>4. CASE ReturnReply(c)
        <4>1. Rpc!Reply(c)
          BY <3>4, StatusFrame
             DEF ReturnReply, Rpc!Reply, Rpc!Open, RpcStatus, IInv, TypeOK, MessageInv
        <4> QED BY <4>1 DEF Rpc!Next
      <3>5. CASE PopPending(c)
        <4>1. Rpc!GiveUp(c)
          BY <3>5, StatusFrame DEF PopPending, Rpc!GiveUp, Rpc!Open, RpcStatus, IInv, TypeOK
        <4> QED BY <4>1 DEF Rpc!Next
      <3>6. CASE CalleeReply(c)
        <4>1. Rpc!Serve(c)
          <5>1. phase[c] \in InRequest \cup {"returned", "finished"}
            BY <3>6 DEF CalleeReply, IInv, TypeOK, Phases, MessageInv, Outside
          <5>2. RpcStatus[c] \notin {"idle", "raised"}
            <6>1. outcome[c] # "raised"
              BY <3>6 DEF CalleeReply, IInv, FutureInv
            <6>2. outcome[c] \in {"none", "reply", "null", "raised"}
              BY DEF IInv, TypeOK
            <6> QED BY <5>1, <6>1, <6>2 DEF RpcStatus
          <5>3. {d \in Calls : sent'[d] > 0} = {d \in Calls : sent[d] > 0} \cup {c}
            BY <3>6 DEF CalleeReply, IInv, TypeOK
          <5>4. RpcStatus' = RpcStatus
            BY <3>6 DEF CalleeReply, RpcStatus
          <5> QED BY <5>2, <5>3, <5>4 DEF Rpc!Serve
        <4> QED BY <4>1 DEF Rpc!Next
      <3>7. CASE StartFails(c)
        <4>1. Rpc!Refuse(c)
          BY <3>7, StatusFrame DEF AtEntry, StartFails, Rpc!Refuse, RpcStatus, IInv, TypeOK
        <4> QED BY <4>1 DEF Rpc!Next
      <3>8. CASE PublishRaises(c)
        <4>1. sent[c] = 0
          BY <3>8 DEF PublishRaises, IInv, TypeOK, MessageInv
        <4>2. RpcStatus[c] = Rpc!Open /\ RpcStatus'[c] = "raised"
          BY <3>8 DEF PublishRaises, Rpc!Open, RpcStatus, IInv, TypeOK
        <4>3. RpcStatus' = [RpcStatus EXCEPT ![c] = "raised"]
          BY <3>8, <4>2, StatusFrame DEF PublishRaises, IInv, TypeOK
        <4>4. Served' = Served /\ c \notin Served
          BY <3>8, <4>1 DEF PublishRaises, Served
        <4>5. Rpc!Raise(c)
          BY <3>8, <4>2, <4>3, <4>4 DEF PublishRaises, Rpc!Raise, Served
        <4> QED BY <4>5 DEF Rpc!Next
      <3> QED BY <2>3, <3>1, <3>2, <3>3, <3>4, <3>5, <3>6, <3>7, <3>8 DEF CallStep
    <2>4. CASE UNCHANGED vars
      BY <2>1, <2>4 DEF vars, RpcStatus, Served
    <2> QED BY <2>2, <2>3, <2>4 DEF Next
  <1> QED BY <1>1, <1>2, Invariance, PTL DEF Spec, RpcSpec, Rpc!Spec
=============================================================================
