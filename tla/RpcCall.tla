------------------------------- MODULE RpcCall -------------------------------
(***************************************************************************)
(* What SystemBus.request() promises its caller (broker/src/system_bus.py, *)
(* the docstring of request): every call gets one answer, which is the     *)
(* response of the callee, or None when none came in time.  The callee may *)
(* serve a call late, or more than once; a call answered None stays None.  *)
(* The docstring is silent on exceptions: the code lets those of start()   *)
(* through on both buses, and on MQTT those of publish().                  *)
(***************************************************************************)
CONSTANTS Calls,          \* one element per invocation of request()
          MayRaise        \* whether publish() may raise inside request() (MQTT)

VARIABLES status,         \* what the caller knows of each call
          served          \* the calls the callee has answered at least once

vars == <<status, served>>

Open   == "open"

Init == /\ status = [c \in Calls |-> "idle"]
        /\ served = {}

\* The caller enters request(): a correlation id is drawn and registered.
Issue(c) == /\ status[c] = "idle"
            /\ status' = [status EXCEPT ![c] = Open]
            /\ UNCHANGED served

\* The callee answers, possibly after the caller has given up.
Serve(c) == /\ status[c] \notin {"idle", "raised"}
            /\ served' = served \cup {c}
            /\ UNCHANGED status

\* request() returns the response message.
Reply(c) == /\ status[c] = Open
            /\ c \in served
            /\ status' = [status EXCEPT ![c] = "reply"]
            /\ UNCHANGED served

\* request() returns None: publish failed, or the timeout expired.
GiveUp(c) == /\ status[c] = Open
             /\ status' = [status EXCEPT ![c] = "null"]
             /\ UNCHANGED served

\* request() raises before it sends anything: at its entry ...
Refuse(c) == /\ status[c] = "idle"
             /\ status' = [status EXCEPT ![c] = "raised"]
             /\ UNCHANGED served

\* ... or out of publish(), and then nobody was asked.
Raise(c) == /\ MayRaise
            /\ status[c] = Open
            /\ c \notin served
            /\ status' = [status EXCEPT ![c] = "raised"]
            /\ UNCHANGED served

Next == \E c \in Calls :
            Issue(c) \/ Serve(c) \/ Reply(c) \/ GiveUp(c) \/ Refuse(c) \/ Raise(c)

Fairness == \A c \in Calls : WF_vars(Reply(c) \/ GiveUp(c) \/ Raise(c))

Spec == Init /\ [][Next]_vars
FairSpec == Spec /\ Fairness
=============================================================================
