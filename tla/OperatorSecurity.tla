-------------------------- MODULE OperatorSecurity --------------------------
(* The operator's security monitor: SecurityMonitorService.process_request   *)
(* over SecurityMonitorCore (systems/operator/src/security_monitor).  A      *)
(* request carries its own timestamp.  It is written to the sender's history *)
(* before the limit is looked at, and that history is all the limit knows.   *)
EXTENDS Integers, FiniteSetsExt

CONSTANTS
    Senders,
    Limits,         \* rate_limits: of "default" and of "critical" actions
    Window,         \* the 120 s of check_rate_limit
    Retention,      \* audit_retention_days, in the units of Window
    MaxTime,        \* bound on the clock and on timestamps
    MaxRequests     \* bound on the requests of all senders

Times == 0 .. MaxTime
Roles == {"admin", "operator", "stranger"}      \* sender_role; operator: any role of P1
Targets == {"trusted", "other"}                 \* in trusted_components, or not
Kinds == {"default", "critical"}                \* action in critical_actions, or not
PolicyResult == {"allow", "deny", "audit"}

VARIABLES
    enable_notifications, \* of the service's configuration
    now,            \* the monitor's clock
    received,       \* requests processed so far
    history,        \* request_history: requests of a sender with each timestamp
    audit,          \* audit_log: how many entries of each sender, kind, result and timestamp
    metrics,        \* metrics: total and results
    violations,     \* violations_by_policy, and violations_log of the core
    notices         \* notification_queue: how many notices were put in

securityVars ==
    <<enable_notifications, now, received, history, audit, metrics, violations, notices>>

Entries == Senders \X Kinds \X PolicyResult \X Times

Init ==
    /\ enable_notifications \in BOOLEAN
    /\ now = 0 /\ received = 0
    /\ history = [s \in Senders |-> [t \in Times |-> 0]]
    /\ audit = [e \in Entries |-> 0]
    /\ metrics = [r \in PolicyResult |-> 0]
    /\ violations = [p \in {"P1", "P2", "P3"} |-> 0]
    /\ notices = 0

Total(f, S) == MapThenSumSet(LAMBDA x : f[x], S)
-----------------------------------------------------------------------------
(* The core.                                                                 *)

\* P1, P2 and P3, in this order: the policy a request violates.
CheckSenderAuthorization(role) == role # "stranger"
ValidateCriticalAction(role) == role = "admin"

Violated(role, kind, target) ==
    CASE ~CheckSenderAuthorization(role) -> "P1"
      [] CheckSenderAuthorization(role) /\ kind = "critical" /\ ~ValidateCriticalAction(role) -> "P2"
      [] OTHER -> IF target = "trusted" THEN "none" ELSE "P3"

\* P3 alone is let through.
ValidateRequest(role, kind, target) ==
    CASE Violated(role, kind, target) = "none" -> "allow"
      [] Violated(role, kind, target) = "P3" -> "audit"
      [] OTHER -> "deny"

\* A timestamp that is still to come counts until it is old.
Recent(times) == {t \in Times : now - t < Window}

\* The history holds the request itself by now: the limit is one less than it says.
CheckRateLimit(s, kind, claimed) ==
    Total(history[s], Recent(Times)) + (IF claimed \in Recent(Times) THEN 1 ELSE 0) < Limits[kind]
-----------------------------------------------------------------------------
(* The service.                                                              *)

\* _handle_violation, and the branch for audited requests, put a notification
\* into the queue, if the service is to notify at all.
HandleViolation == notices' = IF enable_notifications THEN notices + 1 ELSE notices

\* A request over its limit is neither in the metrics nor in the audit log: at most
\* a notice tells of it.
Refuse == HandleViolation /\ UNCHANGED <<audit, metrics, violations>>

UpdateMetrics(result, policy) ==
    /\ metrics' = [metrics EXCEPT ![result] = @ + 1]
    /\ violations' = IF policy = "none" THEN violations ELSE [violations EXCEPT ![policy] = @ + 1]

Judge(s, role, kind, target, claimed) ==
    LET result == ValidateRequest(role, kind, target) IN
    /\ UpdateMetrics(result, Violated(role, kind, target))
    /\ audit' = [audit EXCEPT ![<<s, kind, result, claimed>>] = @ + 1]
    /\ IF result = "allow" THEN UNCHANGED notices ELSE HandleViolation

ProcessRequest(s, role, kind, target, claimed) ==
    /\ received < MaxRequests         \* the bound
    /\ received' = received + 1
    /\ history' = [history EXCEPT ![s][claimed] = @ + 1]
    /\ IF CheckRateLimit(s, kind, claimed)
       THEN Judge(s, role, kind, target, claimed)
       ELSE Refuse
    /\ UNCHANGED <<enable_notifications, now>>

\* A bug to check GrantsWithinLimit against: the history is kept for no time at all.
CleanupOldDataWhole ==
    /\ history' = [s \in Senders |-> [t \in Times |-> IF t < now THEN 0 ELSE history[s][t]]]
    /\ audit' = [e \in Entries |-> IF e[4] < now - Retention THEN 0 ELSE audit[e]]
    /\ UNCHANGED <<enable_notifications, now, received, metrics, violations, notices>>

CleanupOldData ==
    /\ history' = [s \in Senders |->
            [t \in Times |-> IF t < now - Retention THEN 0 ELSE history[s][t]]]
    /\ audit' = [e \in Entries |-> IF e[4] < now - Retention THEN 0 ELSE audit[e]]
    /\ UNCHANGED <<enable_notifications, now, received, metrics, violations, notices>>

Tick ==
    /\ now < MaxTime
    /\ now' = now + 1
    /\ UNCHANGED <<enable_notifications, received, history, audit, metrics, violations, notices>>

Next ==
    \/ \E s \in Senders, role \in Roles, kind \in Kinds, target \in Targets, t \in Times :
            ProcessRequest(s, role, kind, target, t)
    \/ CleanupOldData
    \/ Tick

Spec == Init /\ [][Next]_securityVars
-----------------------------------------------------------------------------
TypeOK ==
    /\ enable_notifications \in BOOLEAN /\ now \in Times /\ received \in 0 .. MaxRequests
    /\ \A s \in Senders, t \in Times : history[s][t] \in 0 .. MaxRequests
    /\ \A e \in Entries : audit[e] \in 0 .. MaxRequests

Granted(s, kind) == {e \in Entries : e[1] = s /\ e[2] = kind /\ e[3] # "deny"}
Live(E) == {e \in E : now - e[4] < Window}

\* Of the requests let through, those with a timestamp inside the window never reach
\* the limit of their sender and kind, whatever the timestamps the senders choose, how
\* the clock moves and what is cleaned up meanwhile.
GrantsWithinLimit ==
    \A s \in Senders, kind \in Kinds :
        Total(audit, Live(Granted(s, kind))) < Limits[kind]

\* What is denied or only audited has its violation, also when its entry has left
\* the audit log; and a service that notifies has put in one notice for every request
\* but those it allowed, the ones over their limit included, of which there is no
\* other trace.
DecisionsAccounted ==
    /\ Total(violations, DOMAIN violations) = metrics["deny"] + metrics["audit"]
    /\ notices = IF enable_notifications THEN received - metrics["allow"] ELSE 0
=============================================================================
