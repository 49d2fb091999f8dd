------------------------------ MODULE SystemBus ------------------------------
(***************************************************************************)
(* The request/response half of the message bus, as one process sees it:   *)
(* KafkaSystemBus (broker/kafka/kafka_system_bus.py) and MQTTSystemBus     *)
(* (broker/mqtt/mqtt_system_bus.py).                                       *)
(*                                                                         *)
(* A process has one bus object.  Its handlers run in a ThreadPoolExecutor *)
(* and may themselves call request(), which blocks the worker until the    *)
(* reply, the timeout or a publish failure.  The two buses differ in who   *)
(* completes the Future of a call: on Kafka the reply is one more job of   *)
(* the same pool (_handle_reply is a subscribed callback), on MQTT the     *)
(* network thread completes it inside _on_message.  ReplyViaPool selects.  *)
(***************************************************************************)
EXTENDS Naturals, Sequences, FiniteSets

CONSTANTS
    Calls,          \* invocations of request(); each is its own correlation id
    Inbound,        \* the calls made by a handler of the pool (a gateway's
                    \* _handle_proxy); the others are made by other threads
    Workers,        \* max_workers of the executor: 32 on Kafka, 4 on MQTT
    ReplyViaPool,   \* TRUE: KafkaSystemBus, FALSE: MQTTSystemBus
    MaxCopies       \* bound: reply messages sent for one call (redelivery)

ASSUME InboundAssumption   == Inbound \subseteq Calls
ASSUME WorkersAssumption   == Workers \in Nat \ {0}
ASSUME ReplyPoolAssumption == ReplyViaPool \in BOOLEAN
ASSUME CopiesAssumption    == MaxCopies \in Nat

VARIABLES
    phase,      \* where each call stands (see Phases)
    pending,    \* the keys of _pending_requests
    resolved,   \* how often set_result was called on the Future of a call
    outcome,    \* how request() ended: "none" yet, "reply", "null" (None),
                \* or "raised" (an exception went to the caller)
    published,  \* the calls whose request message reached the broker
    sent,       \* how many replies the callee side has sent for a call
    replies,    \* how many of them are still in flight to the reply topic
    jobs,       \* the queue of the executor
    bus         \* the object itself: see BusStates

vars == <<phase, pending, resolved, outcome, published, sent, replies, jobs, bus>>

\* idle: not begun; queued: inbound message submitted to the pool; handling:
\* its handler runs; registered: the Future is in _pending_requests; waiting:
\* blocked in future.result; failed, expired: publish returned False or
\* result() raised TimeoutError, the entry is not yet popped; returned:
\* request() is over; finished: the handler is over too; cancelled: the job
\* was dropped by stop().
Phases == {"idle", "queued", "handling", "registered", "waiting", "failed",
           "expired", "returned", "finished", "cancelled"}

\* up: start() was called; stopping: MQTT's stop() has dropped the client and
\* waits for the pool; stopped: stop() is over; again: a later call found
\* _started FALSE and its start() connected the MQTT client once more, with the
\* reply topic alone (the other callbacks are cleared, the pool is shut).
BusStates == {"up", "stopping", "stopped", "again"}

InRequest == {"registered", "waiting", "failed", "expired"}

Job == [kind : {"handle", "reply"}, call : Calls]

HandleJob(c) == [kind |-> "handle", call |-> c]
ReplyJob(c)  == [kind |-> "reply", call |-> c]

\* The inbound calls whose handler occupies a worker of the pool.
Busy == {c \in Inbound : phase[c] \in InRequest \cup {"handling", "returned"}}

WorkerFree == Cardinality(Busy) < Workers

Init ==
    /\ phase     = [c \in Calls |-> "idle"]
    /\ pending   = {}
    /\ resolved  = [c \in Calls |-> 0]
    /\ outcome   = [c \in Calls |-> "none"]
    /\ published = {}
    /\ sent      = [c \in Calls |-> 0]
    /\ replies   = [c \in Calls |-> 0]
    /\ jobs      = <<>>
    /\ bus       = "up"

-----------------------------------------------------------------------------
(* Messages arriving and the executor.                                      *)

\* A message on a subscribed topic: _consumer_loop / _on_message submits it.
DeliverInbound(c) ==
    /\ bus = "up"
    /\ c \in Inbound
    /\ phase[c] = "idle"
    /\ phase' = [phase EXCEPT ![c] = "queued"]
    /\ jobs' = Append(jobs, HandleJob(c))
    /\ UNCHANGED <<pending, resolved, outcome, published, sent, replies, bus>>

\* A free worker takes the oldest job, an inbound message, and enters its handler.
StartHandler(c) ==
    /\ WorkerFree
    /\ jobs # <<>>
    /\ Head(jobs) = HandleJob(c)
    /\ jobs' = Tail(jobs)
    /\ phase' = [phase EXCEPT ![c] = "handling"]
    /\ UNCHANGED <<pending, resolved, outcome, published, sent, replies, bus>>

\* _handle_reply / the pending branch of _on_message, under _pending_lock.
CompleteFuture(c) ==
    /\ pending' = pending \ {c}
    /\ resolved' = IF c \in pending THEN [resolved EXCEPT ![c] = @ + 1] ELSE resolved

\* Kafka: a free worker takes a reply from the queue.
RunReplyJob(c) ==
    /\ WorkerFree
    /\ jobs # <<>>
    /\ Head(jobs) = ReplyJob(c)
    /\ jobs' = Tail(jobs)
    /\ CompleteFuture(c)
    /\ UNCHANGED <<phase, outcome, published, sent, replies, bus>>

\* A reply reaches the process: queued for the pool, or completed on the spot.
DeliverReply(c) ==
    /\ bus \in {"up", "again"}
    /\ replies[c] > 0
    /\ replies' = [replies EXCEPT ![c] = @ - 1]
    /\ \/ /\ ReplyViaPool
          /\ jobs' = Append(jobs, ReplyJob(c))
          /\ UNCHANGED <<pending, resolved>>
       \/ /\ ~ReplyViaPool
          /\ CompleteFuture(c)
          /\ UNCHANGED jobs
    /\ UNCHANGED <<phase, outcome, published, sent, bus>>

-----------------------------------------------------------------------------
(* request(), step by step.                                                 *)

\* The thread of the call is at the entry of request().
AtEntry(c) == \/ c \in Inbound /\ phase[c] = "handling"
              \/ c \notin Inbound /\ phase[c] = "idle"

\* publish() and request() call start() when _started is FALSE.  It returns with
\* the MQTT client connected; the Kafka bus keeps its pool shut and never
\* delivers again.
Started == bus' = IF bus = "stopped" /\ ~ReplyViaPool THEN "again" ELSE bus

\* A step that publishes a journal entry (emit_event) on the way: a failure of
\* it, of its start() included, is swallowed.
MayStart == bus' = bus \/ Started

\* Mutant of Register: the Future is created but never stored.
RegisterNothing(c) ==
    /\ AtEntry(c)
    /\ phase' = [phase EXCEPT ![c] = "registered"]
    /\ Started
    /\ UNCHANGED <<pending, resolved, outcome, published, sent, replies, jobs>>

\* The entry into request(): the Future is stored before anything is sent.
Register(c) ==
    /\ AtEntry(c)
    /\ phase' = [phase EXCEPT ![c] = "registered"]
    /\ pending' = pending \cup {c}
    /\ Started
    /\ UNCHANGED <<resolved, outcome, published, sent, replies, jobs>>

\* start() at the entry raises (ConnectionError, a closed producer): the call
\* ends before it has a correlation id.
StartFails(c) ==
    /\ AtEntry(c)
    /\ bus = "stopped"
    /\ phase' = [phase EXCEPT ![c] = "returned"]
    /\ outcome' = [outcome EXCEPT ![c] = "raised"]
    /\ UNCHANGED <<pending, resolved, published, sent, replies, jobs, bus>>

\* publish() returned True.  The Kafka producer is closed last in stop(); the
\* MQTT client is gone while stop() waits for the handlers.
PublishOk(c) ==
    /\ phase[c] = "registered"
    /\ bus # "stopping"
    /\ phase' = [phase EXCEPT ![c] = "waiting"]
    /\ published' = published \cup {c}
    /\ Started
    /\ UNCHANGED <<pending, resolved, outcome, sent, replies, jobs>>

\* publish() returned False; the message may have reached the broker all the
\* same (acknowledgement timed out, or paho queued it while disconnected).
PublishFail(c) ==
    /\ phase[c] = "registered"
    /\ phase' = [phase EXCEPT ![c] = "failed"]
    /\ published' \in {published, published \cup {c}}
    /\ Started
    /\ UNCHANGED <<pending, resolved, outcome, sent, replies, jobs>>

\* MQTT: publish() raises before its try block (start() fails, json.dumps does
\* not know a value); request() lets it through, and nothing pops the entry.
\* KafkaSystemBus.publish answers every exception of a send with False.
PublishRaises(c) ==
    /\ ~ReplyViaPool
    /\ phase[c] = "registered"
    /\ phase' = [phase EXCEPT ![c] = "returned"]
    /\ outcome' = [outcome EXCEPT ![c] = "raised"]
    /\ MayStart
    /\ UNCHANGED <<pending, resolved, published, sent, replies, jobs>>

\* Mutant of ReturnReply: the Future is read without waiting for its completion.
ReturnReplyUnresolved(c) ==
    /\ phase[c] = "waiting"
    /\ phase' = [phase EXCEPT ![c] = "returned"]
    /\ outcome' = [outcome EXCEPT ![c] = "reply"]
    /\ MayStart
    /\ UNCHANGED <<pending, resolved, published, sent, replies, jobs>>

\* future.result() returns the message the Future was completed with.
ReturnReply(c) ==
    /\ phase[c] = "waiting"
    /\ resolved[c] > 0
    /\ phase' = [phase EXCEPT ![c] = "returned"]
    /\ outcome' = [outcome EXCEPT ![c] = "reply"]
    /\ MayStart
    /\ UNCHANGED <<pending, resolved, published, sent, replies, jobs>>

\* future.result(timeout) raises TimeoutError: the Future is not complete yet.
Timeout(c) ==
    /\ phase[c] = "waiting"
    /\ resolved[c] = 0
    /\ phase' = [phase EXCEPT ![c] = "expired"]
    /\ UNCHANGED <<pending, resolved, outcome, published, sent, replies, jobs, bus>>

\* Mutant of PopPending: the entry stays.
PopPendingForgets(c) ==
    /\ phase[c] \in {"failed", "expired"}
    /\ phase' = [phase EXCEPT ![c] = "returned"]
    /\ outcome' = [outcome EXCEPT ![c] = "null"]
    /\ MayStart
    /\ UNCHANGED <<pending, resolved, published, sent, replies, jobs>>

\* The cleanup of both error paths: pop the entry under the lock, return None.
PopPending(c) ==
    /\ phase[c] \in {"failed", "expired"}
    /\ phase' = [phase EXCEPT ![c] = "returned"]
    /\ pending' = pending \ {c}
    /\ outcome' = [outcome EXCEPT ![c] = "null"]
    /\ MayStart
    /\ UNCHANGED <<resolved, published, sent, replies, jobs>>

\* The handler that made the call answers its own caller and leaves the worker.
FinishHandler(c) ==
    /\ c \in Inbound
    /\ phase[c] = "returned"
    /\ phase' = [phase EXCEPT ![c] = "finished"]
    /\ UNCHANGED <<pending, resolved, outcome, published, sent, replies, jobs, bus>>

-----------------------------------------------------------------------------
(* stop(), and the environment: the callee and the broker.                  *)

\* Kafka cancels the queued jobs (cancel_futures) and leaves the running ones
\* alone; MQTT first drops the client, then waits for the pool to run empty
\* (shutdown(wait=True)).  Neither touches _pending_requests.
Stop ==
    /\ bus \in {"up", "again"}
    /\ bus' = IF ReplyViaPool THEN "stopped" ELSE "stopping"
    /\ jobs' = IF ReplyViaPool THEN <<>> ELSE jobs
    /\ phase' = [c \in Calls |-> IF ReplyViaPool /\ phase[c] = "queued"
                                    THEN "cancelled" ELSE phase[c]]
    /\ UNCHANGED <<pending, resolved, outcome, published, sent, replies>>

\* MQTT: the pool is empty, stop() clears the callbacks and _started.
StopEnds ==
    /\ bus = "stopping"
    /\ jobs = <<>> /\ Busy = {}
    /\ bus' = "stopped"
    /\ UNCHANGED <<phase, pending, resolved, outcome, published, sent, replies, jobs>>

\* External: the callee answers a request it received; redelivery of the
\* request or of the reply makes several copies.
CalleeReply(c) ==
    /\ c \in published
    /\ sent[c] < MaxCopies
    /\ sent' = [sent EXCEPT ![c] = @ + 1]
    /\ replies' = [replies EXCEPT ![c] = @ + 1]
    /\ UNCHANGED <<phase, pending, resolved, outcome, published, jobs, bus>>

\* External: a reply is lost by the broker (clean MQTT session, lost offset).
LoseReply(c) ==
    /\ replies[c] > 0
    /\ replies' = [replies EXCEPT ![c] = @ - 1]
    /\ UNCHANGED <<phase, pending, resolved, outcome, published, sent, jobs, bus>>

-----------------------------------------------------------------------------
\* One step of the call c, or of a message that belongs to it.
CallStep(c) ==
    \/ DeliverInbound(c) \/ StartHandler(c) \/ RunReplyJob(c) \/ DeliverReply(c)
    \/ Register(c) \/ StartFails(c) \/ PublishOk(c) \/ PublishFail(c)
    \/ PublishRaises(c) \/ ReturnReply(c) \/ Timeout(c) \/ PopPending(c) \/ FinishHandler(c)
    \/ CalleeReply(c) \/ LoseReply(c)

Next == Stop \/ StopEnds \/ \E c \in Calls : CallStep(c)

Spec == Init /\ [][Next]_vars

\* What the thread in request() does next; its phases exclude one another.
CallerStep(c) ==
    \/ (Register(c) \/ StartFails(c)) /\ c \in Inbound
    \/ PublishOk(c) \/ PublishFail(c) \/ PublishRaises(c)
    \/ ReturnReply(c) \/ Timeout(c)
    \/ PopPending(c) \/ FinishHandler(c)

\* The threads of the process keep running and the timeout of a blocked call
\* expires: each caller goes on, and a free worker takes the job at the head of
\* the queue.  Nothing is assumed of the callee, the broker or of stop().
Fairness ==
    /\ \A c \in Calls : WF_vars(CallerStep(c))
    /\ WF_vars(\E c \in Calls : StartHandler(c) \/ RunReplyJob(c))

FairSpec == Spec /\ Fairness

-----------------------------------------------------------------------------
(* Properties.                                                              *)

TypeOK ==
    /\ phase     \in [Calls -> Phases]
    /\ pending   \in SUBSET Calls
    /\ resolved  \in [Calls -> Nat]
    /\ outcome   \in [Calls -> {"none", "reply", "null", "raised"}]
    /\ published \in SUBSET Calls
    /\ sent      \in [Calls -> Nat]
    /\ replies   \in [Calls -> Nat]
    /\ jobs      \in Seq(Job)
    /\ bus       \in BusStates

\* No correlation id outlives its call: whatever way request() ends (reply,
\* publish failure, timeout, a reply racing the timeout), its entry is gone
\* from _pending_requests, so the map does not grow with failed calls.  So it
\* is on Kafka.
NoLeakedEntry == \A c \in pending : phase[c] \in InRequest

\* On both buses: an entry is left behind only by a call that ended with an
\* exception of publish(), whose request never reached the broker, so that no
\* reply can ever complete the forgotten Future.
LeaksOnlyUnsent ==
    \A c \in pending :
        \/ phase[c] \in InRequest
        \/ outcome[c] = "raised" /\ c \notin published

\* However many copies of a reply arrive, the Future of a call is completed
\* at most once (a second set_result raises InvalidStateError in the thread
\* that delivers replies).
CompletedOnce == \A c \in Calls : resolved[c] <= 1

\* No lost wake-up: a caller still blocked in future.result whose entry is no
\* longer in _pending_requests has had its Future completed.
NoLostWakeup ==
    \A c \in Calls : phase[c] = "waiting" /\ c \notin pending => resolved[c] = 1

\* A reply is thrown away only when its call has nothing more to gain: it is
\* already completed, it has expired, or its publish was reported as failed.
\* (The reply of a call that is still blocked always wakes it.)
NoPrematureDiscard ==
    [][\A c \in Calls :
          /\ RunReplyJob(c) \/ (DeliverReply(c) /\ ~ReplyViaPool)
          /\ resolved'[c] = resolved[c]
          => \/ resolved[c] = 1
             \/ phase[c] \in {"failed", "expired", "returned", "finished"}]_vars

\* The comment of _consumer_loop (kafka_system_bus.py) says that callbacks run
\* in the pool so that nested RPC is processed while a handler blocks in
\* request: no reply then sits in the queue while every worker waits for one.
NestedRpcServed ==
    ~ /\ \E i \in DOMAIN jobs : jobs[i].kind = "reply" /\ phase[jobs[i].call] = "waiting"
      /\ Cardinality(Busy) = Workers
      /\ \A c \in Busy : phase[c] = "waiting" /\ resolved[c] = 0

-----------------------------------------------------------------------------
\* The bus implements the contract of request().
RpcStatus ==
    [c \in Calls |-> IF phase[c] \in InRequest THEN "open"
                     ELSE IF phase[c] \in {"returned", "finished"} THEN outcome[c]
                     ELSE "idle"]

Rpc == INSTANCE RpcCall WITH MayRaise <- ~ReplyViaPool,
                             status <- RpcStatus, served <- {c \in Calls : sent[c] > 0}

RpcSpec == Rpc!Spec
RpcFairSpec == Rpc!FairSpec
=============================================================================
