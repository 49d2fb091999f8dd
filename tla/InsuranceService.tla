-------------------------- MODULE InsuranceService --------------------------
(***************************************************************************)
(* The insurer's component                                                 *)
(* (alt_insurer/src/insurance_service/src/insurance_service.py): policies, *)
(* and the handlers that store, terminate and report on them.  A handler   *)
(* runs in a worker of the bus's thread pool; its steps are what it does   *)
(* between two points where CPython may switch threads and another handler *)
(* could see the difference.                                               *)
(*                                                                         *)
(* Premiums, and the flight statistics they are computed from, are left    *)
(* out: nothing else depends on them.  An amount that is not a number      *)
(* makes float() raise, which is why `numeric' is part of a request.       *)
(***************************************************************************)
EXTENDS Integers, Sequences

CONSTANTS
    Calls,      \* requests, each one message through the whole chain
    None

VARIABLES
    asked,      \* the request the caller sent the insurer: action, order,
                \* drone, numeric; None before
    policies,   \* self._policies in insertion order
    serving,    \* how far the handler of each call is
    cursor,     \* of a terminate handler: size of the dict when its loop
                \* began, next policy, whether one was terminated
    served      \* its response once it is published, or None

serviceVars == <<policies, serving, cursor, served>>

\* The table of handlers; purchase_policy is annual_insurance by another name.
PolicyActions == {"annual_insurance", "mission_insurance"}
Actions == PolicyActions \cup {"calculate_policy", "report_incident", "terminate_policy"}

\* What the callers look at: "success" may be missing, and payload is named
\* after what it holds.
Payloads == {"policy", "quote", "claim", "message", "error"}
Response == [success : {"true", "false", "missing"}, payload : Payloads]

Answer(success, payload) == [success |-> success, payload |-> payload]

ServiceInit ==
    /\ policies = <<>>
    /\ serving  = [c \in Calls |-> "idle"]
    /\ cursor   = [c \in Calls |-> None]
    /\ served   = [c \in Calls |-> None]

\* BaseComponent publishes what the handler returned, or a failure if it raised.
Finish(c, response) ==
    /\ serving' = [serving EXCEPT ![c] = "done"]
    /\ served'  = [served EXCEPT ![c] = response]

Raise(c) == Finish(c, Answer("false", "error"))

-----------------------------------------------------------------------------
\* The request is taken from the bus; nothing of the service is read before.
BeginServe(c) ==
    /\ serving[c] = "sent"
    /\ serving' = [serving EXCEPT ![c] = "handling"]
    /\ UNCHANGED <<policies, cursor, served>>

\* _handle_annual and _handle_mission.
HandlePolicy(c) ==
    /\ serving[c] = "handling" /\ asked[c].action \in PolicyActions
    /\ \/ /\ asked[c].numeric
          /\ policies' = Append(policies, [call |-> c, status |-> "active"])
          /\ Finish(c, Answer("true", "policy"))
       \/ ~ asked[c].numeric /\ Raise(c) /\ UNCHANGED policies
    /\ UNCHANGED cursor

\* _handle_calculate and _handle_incident change statistics only.
HandleReport(c) ==
    /\ serving[c] = "handling" /\ asked[c].action \in {"calculate_policy", "report_incident"}
    /\ \/ /\ asked[c].numeric
          /\ Finish(c, Answer("true", IF asked[c].action = "report_incident"
                                      THEN "claim" ELSE "quote"))
       \/ ~ asked[c].numeric /\ Raise(c)
    /\ UNCHANGED <<policies, cursor>>

\* The iterator of the loop over self._policies.values() is made.
BeginTerminate(c) ==
    /\ serving[c] = "handling" /\ asked[c].action = "terminate_policy"
    /\ serving' = [serving EXCEPT ![c] = "terminating"]
    /\ cursor'  = [cursor EXCEPT ![c] = [size |-> Len(policies), next |-> 1, found |-> FALSE]]
    /\ UNCHANGED <<policies, served>>

\* The loop still runs over the dict it began with.
Iterating(c) == serving[c] = "terminating" /\ cursor[c].size = Len(policies)

Hit(c, i) == asked[policies[i].call].order = asked[c].order /\ policies[i].status = "active"

\* Mutant: the loop stops at the first policy of the order.
TerminateNextBreaks(c) ==
    LET i == cursor[c].next IN
    /\ Iterating(c) /\ i <= cursor[c].size
    /\ policies' = IF Hit(c, i) THEN [policies EXCEPT ![i].status = "terminated"] ELSE policies
    /\ cursor'   = [cursor EXCEPT ![c].next = IF Hit(c, i) THEN cursor[c].size + 1 ELSE i + 1,
                                  ![c].found = @ \/ Hit(c, i)]
    /\ UNCHANGED <<serving, served>>

\* One turn of the loop.
TerminateNext(c) ==
    LET i == cursor[c].next IN
    /\ Iterating(c) /\ i <= cursor[c].size
    /\ policies' = IF Hit(c, i) THEN [policies EXCEPT ![i].status = "terminated"] ELSE policies
    /\ cursor'   = [cursor EXCEPT ![c].next = i + 1, ![c].found = @ \/ Hit(c, i)]
    /\ UNCHANGED <<serving, served>>

\* A policy stored by another handler meanwhile changes the size of the dict,
\* and the iterator raises; what was terminated stays so.
TerminateRaises(c) ==
    /\ serving[c] = "terminating" /\ cursor[c].size # Len(policies)
    /\ Raise(c)
    /\ UNCHANGED <<policies, cursor>>

\* That no policy was found is said in the payload of a success.
EndTerminate(c) ==
    /\ Iterating(c) /\ cursor[c].next > cursor[c].size
    /\ Finish(c, Answer("true", IF cursor[c].found THEN "message" ELSE "error"))
    /\ UNCHANGED <<policies, cursor>>

Serve(c) ==
    \/ BeginServe(c) \/ HandlePolicy(c) \/ HandleReport(c)
    \/ BeginTerminate(c) \/ TerminateNext(c) \/ TerminateRaises(c) \/ EndTerminate(c)
=============================================================================
