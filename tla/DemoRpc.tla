------------------------------- MODULE DemoRpc -------------------------------
(* The processes of the model demo (base_entity.py) and the broker between   *)
(* them (simple_broker.py).  An entity handles one request at a time, and    *)
(* while it handles one it makes one call at a time and waits for the answer.*)
(* The broker moves messages in the order they were put into its queue, so   *)
(* that only this order counts: a message is with its receiver at once, and  *)
(* is lost if it is put after the broker's own stop message.                 *)
EXTENDS Integers, Sequences

CONSTANTS
    Entities,       \* processes with an inbox
    Orchestrator,   \* the process that starts and stops the others
    None

VARIABLES
    inbox,          \* requests put for an entity; the first one is being handled
    at,             \* "ready", "stopped", or the action whose answer is awaited
    locals,         \* what the handler keeps between its calls
    reply,          \* the awaited answer, once it is in the reply queue
    sent,           \* calls made: the correlation id of the last one
    brokerUp

rpcVars == <<inbox, at, locals, reply, sent, brokerUp>>

Processes == Entities \cup {Orchestrator}
Stop == [from |-> None, id |-> 0, action |-> "__stop__", args |-> None]
Failed == [ok |-> FALSE, of |-> None]       \* status "error"
Ok(value) == [ok |-> TRUE, of |-> value]

RpcInit ==
    /\ inbox = [e \in Entities |-> <<>>]
    /\ at = [p \in Processes |-> IF p = Orchestrator THEN "ready" ELSE "stopped"]
    /\ locals = [p \in Processes |-> None]
    /\ reply = [p \in Processes |-> None]
    /\ sent = [p \in Processes |-> 0]
    /\ brokerUp = FALSE

Waiting(p) == at[p] \notin {"ready", "stopped", "stopping", "closing"}
Request(e) == Head(inbox[e])
Asked(e, action) == at[e] = "ready" /\ inbox[e] # <<>> /\ Request(e).action = action
Answered(e, action, call) == at[e] = call /\ reply[e] # None /\ Request(e).action = action

\* rpc_send_wait, up to the wait; local is what the handler goes on with.
Call(p, to, action, args, local) ==
    /\ inbox' = IF brokerUp /\ at[to] # "stopped"
                THEN [inbox EXCEPT ![to] = Append(@, [from |-> p, id |-> sent[p] + 1,
                                                      action |-> action, args |-> args])]
                ELSE inbox
    /\ sent' = [sent EXCEPT ![p] = @ + 1]
    /\ at' = [at EXCEPT ![p] = action]
    /\ locals' = [locals EXCEPT ![p] = local]
    /\ reply' = [reply EXCEPT ![p] = None]
    /\ UNCHANGED brokerUp

\* send_response ends a handler.  An answer to a call that was given up stays in
\* the reply queue for ever (the stash of wait_for_response): nobody takes it.
Respond(e, payload) ==
    LET q == Request(e)
        taken == brokerUp /\ Waiting(q.from) /\ sent[q.from] = q.id
    IN  /\ inbox' = [inbox EXCEPT ![e] = Tail(@)]
        /\ at' = [at EXCEPT ![e] = "ready"]
        /\ locals' = [locals EXCEPT ![e] = None]
        /\ reply' = [p \in Processes |-> IF p = e THEN None
                                         ELSE IF taken /\ p = q.from THEN payload ELSE reply[p]]
        /\ UNCHANGED <<sent, brokerUp>>

\* A bug to check EveryoneStops against: the wait has no deadline.
GiveUpNever(e) == FALSE /\ UNCHANGED rpcVars

\* wait_for_response raises TimeoutError, and run answers with an error.  So does
\* every handler that catches it, and the work of the called entity goes on.
GiveUp(e) == Waiting(e) /\ reply[e] = None /\ Respond(e, Failed)

\* The stop message is the next one.
TakeStop(e) ==
    /\ Asked(e, "__stop__")
    /\ at' = [at EXCEPT ![e] = "stopped"]
    /\ inbox' = [inbox EXCEPT ![e] = <<>>]
    /\ UNCHANGED <<locals, reply, sent, brokerUp>>
-----------------------------------------------------------------------------
(* The orchestrator: _launch and _shutdown of sbd_demo.py.                   *)

\* Everyone is started with queues of their own.  Processes of an earlier launch
\* may still be stopping then, but they share nothing with the new ones.
StartAll ==
    /\ \A e \in Entities : at[e] = "stopped"
    /\ brokerUp' = TRUE
    /\ reply' = [p \in Processes |-> None]

Idle(e) == at[e] = "ready" /\ inbox[e] = <<>>

\* The stop messages of all entities, put in one loop.  An entity with nothing else
\* to do is stopped by it, whatever the others do meanwhile.
StopAll(result) ==
    /\ at' = [p \in Processes |-> IF p = Orchestrator THEN "stopping"
                                  ELSE IF Idle(p) THEN "stopped" ELSE at[p]]
    /\ inbox' = [e \in Entities |-> IF Idle(e) THEN <<>> ELSE Append(inbox[e], Stop)]
    /\ locals' = [locals EXCEPT ![Orchestrator] = result]
    /\ reply' = [reply EXCEPT ![Orchestrator] = None]
    /\ UNCHANGED <<sent, brokerUp>>

StopBroker ==
    /\ at[Orchestrator] = "stopping"
    /\ at' = [at EXCEPT ![Orchestrator] = "closing"]
    /\ brokerUp' = FALSE
    /\ UNCHANGED <<inbox, locals, reply, sent>>
=============================================================================
