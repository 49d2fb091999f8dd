----------------------------- MODULE UasGateway -----------------------------
(* A REST request on its way through the UAS developer: the HTTP handler     *)
(* (gateway/server.py) checks the bearer token and calls the worker, either  *)
(* over the bus and through the security monitor (gateway/bus_backend.py) or *)
(* in its own process (gateway/sqlite_context.py); the worker commits, writes*)
(* the security journal and answers; the handler audits and answers.  Every  *)
(* hop has its own timeout, and none of them recalls the work behind it.  An  *)
(* answer takes no time here: one that is lost or late looks to its reader as *)
(* if its sender were still at work when the timeout comes.                   *)
EXTENDS UasMonitor, UasUsers

CONSTANTS
    Modes,          \* the deployments: "bus", "sqlite" (a database per domain), "monolith"
    Requests,       \* HTTP requests that may be open at once
    Calls           \* what they may ask for: [op, user, role], see UasUsers

VARIABLES
    mode,           \* the deployment
    tokens,         \* roles named by access tokens that have not expired
    call, pc,       \* the request and where its HTTP handler is
    answer,         \* how it was answered
    hop,            \* its proxy_request at the monitor
    job,            \* its work at the worker
    counted,        \* the COUNT the worker read
    changed,        \* the worker committed a change for it (history)
    raced           \* a write relied on a COUNT that was no longer true (history)

userVars == <<roleOf, active>>
workVars == <<counted, changed, userVars, raced>>
httpVars == <<tokens, call, pc, answer>>
vars == <<policies, mode, httpVars, hop, job, workVars>>

\* do_GET, do_PATCH, do_DELETE, do_POST and the classes behind them: the worker
\* and the action each operation goes to.
Route(op) ==
    CASE op = "bootstrap" -> <<"user_management", "bootstrap_admin">>
      [] op = "login"     -> <<"user_management", "authenticate">>
      [] op = "create"    -> <<"user_management", "create_user">>
      [] op = "enable"    -> <<"user_management", "enable_user">>
      [] op = "disable"   -> <<"user_management", "disable_user">>
      [] op = "delete"    -> <<"user_management", "delete_user">>
      [] op = "list_users"-> <<"user_management", "list_users">>
      [] op = "firmware"  -> <<"firmware_ingestion", "submit_firmware">>
      [] op = "certify"   -> <<"certification_service", "certify_firmware">>
      [] op = "list_certificates" -> <<"certification_service", "list_certificates">>
      [] op = "register"  -> <<"drone_registry", "register_drone">>
      [] op = "list_drones" -> <<"drone_registry", "list_registered_drones">>
      [] op = "purchase"  -> <<"purchase_service", "purchase_drone">>

ReadOps == UserReads \cup {"list_certificates", "list_drones"}
OpenOps == {"login", "bootstrap"}       \* need no token

\* ServiceComponent._guard: whom a worker listens to.
Trusted(topic) == {Monitor} \cup IF topic = "audit_log" THEN IpcWorkers \ {topic} ELSE {}

Results == {"ok", "error", "denied", "timeout", "unauthorized"}

\* The account is named in the path or in the body of a request about one.
ASSUME CallsAssumption == \A c \in Calls : c.op \in UserOps \ {"list_users"} => c.user \in Users
ASSUME AnswersAssumption == None \notin Results

NoCall == [op |-> None, actor |-> None, user |-> None, role |-> None]
Direct == mode # "bus"

Init ==
    /\ MonitorInit /\ UsersInit
    /\ mode \in Modes
    /\ tokens = {}
    /\ call = [r \in Requests |-> NoCall]
    /\ pc = [r \in Requests |-> "free"]
    /\ answer = [r \in Requests |-> None]
    /\ hop = [r \in Requests |-> "none"]
    /\ job = [r \in Requests |-> "none"]
    /\ counted = [r \in Requests |-> 0]
    /\ changed = [r \in Requests |-> FALSE]
    /\ raced = FALSE
-----------------------------------------------------------------------------
(* The HTTP handler.                                                         *)

\* list_registered of the gateway checks the role itself; over the bus only.
GatewayRefuses(op, actor) ==
    \/ op \notin OpenOps /\ actor = None
    \/ op = "list_drones" /\ ~Direct /\ actor \notin {"developer", "operator"}

\* A request is refused at once ...
Refuse(r) ==
    /\ pc' = [pc EXCEPT ![r] = "answered"]
    /\ answer' = [answer EXCEPT ![r] = "unauthorized"]
    /\ UNCHANGED <<call, hop, job>>

\* ... or passed on, in the role the token names (_bearer_principal).
PassOn(r, c) ==
    /\ call' = [call EXCEPT ![r] = c]
    /\ pc' = [pc EXCEPT ![r] = "waiting"]
    /\ hop' = [hop EXCEPT ![r] = IF Direct THEN "direct" ELSE "queued"]
    /\ job' = [job EXCEPT ![r] = IF Direct THEN "queued" ELSE "none"]
    /\ UNCHANGED answer

Receive(r) ==
    /\ pc[r] = "free"
    /\ \E c \in Calls, actor \in tokens \cup {None} :
        /\ c.op \in OpenOps => actor = None
        /\ IF GatewayRefuses(c.op, actor)
           THEN Refuse(r)
           ELSE PassOn(r, [op |-> c.op, actor |-> actor, user |-> c.user, role |-> c.role])
    /\ UNCHANGED <<policies, mode, tokens, workVars>>

\* The result reaches the handler.  That of a login is the role the worker read,
\* and is turned into a token.  The audit entry (_audit_ok, _audit_err) is written
\* before the answer goes out, and a failure to write it is swallowed.
Answer(r, result) ==
    /\ pc' = [pc EXCEPT ![r] = "answered"]
    /\ answer' = [answer EXCEPT ![r] = IF result \in Roles THEN "ok" ELSE result]
    /\ tokens' = tokens \cup ({result} \cap Roles)
    /\ UNCHANGED call

\* What the monitor, or the worker in the same process, answers.  Over the bus it
\* finds the handler waiting, or drops.
Deliver(r, result) ==
    /\ hop' = [hop EXCEPT ![r] = "over"]
    /\ IF pc[r] = "waiting" THEN Answer(r, result) ELSE UNCHANGED httpVars

\* bus.request returns None after GATEWAY_MONITOR_REQUEST_TIMEOUT_S.
GatewayTimeout(r) ==
    /\ pc[r] = "waiting" /\ ~Direct
    /\ Answer(r, "timeout")
    /\ UNCHANGED <<policies, mode, hop, job, workVars>>

\* Nothing of the request is left anywhere.
Forget(r) ==
    /\ pc[r] = "answered"
    /\ hop[r] \in {"none", "over"} /\ job[r] \in {"none", "over"}
    /\ pc' = [pc EXCEPT ![r] = "free"]
    /\ call' = [call EXCEPT ![r] = NoCall]
    /\ answer' = [answer EXCEPT ![r] = None]
    /\ hop' = [hop EXCEPT ![r] = "none"]
    /\ job' = [job EXCEPT ![r] = "none"]
    /\ changed' = [changed EXCEPT ![r] = FALSE]
    /\ UNCHANGED <<policies, mode, tokens, counted, userVars, raced>>

\* The last token of a role expires.  A token lives for 24 hours, whatever becomes
\* of its account.
Expire(role) ==
    /\ role \in tokens
    /\ tokens' = tokens \ {role}
    /\ UNCHANGED <<policies, mode, call, pc, answer, hop, job, workVars>>
-----------------------------------------------------------------------------
(* The security monitor: _handle_proxy_request.                              *)

Proxy(r) ==
    /\ hop[r] = "queued"
    /\ LET to == Route(call[r].op) IN
       IF MayForward(Gateway, to[1], to[2]) /\ Monitor \in Trusted(to[1])
       THEN /\ hop' = [hop EXCEPT ![r] = "proxied"]
            /\ job' = [job EXCEPT ![r] = "queued"]
            /\ UNCHANGED httpVars
       ELSE /\ Deliver(r, "denied")
            /\ UNCHANGED job
    /\ UNCHANGED <<policies, mode, workVars>>

\* A bug to check AnswerTruthful against: the missing answer is taken for a refusal.
ProxyTimeoutRefused(r) ==
    /\ hop[r] = "proxied"
    /\ Deliver(r, "error")
    /\ UNCHANGED <<policies, mode, job, workVars>>

\* SECURITY_MONITOR_PROXY_REQUEST_TIMEOUT_S: the worker's job is not recalled.
ProxyTimeout(r) ==
    /\ hop[r] = "proxied"
    /\ Deliver(r, "timeout")
    /\ UNCHANGED <<policies, mode, job, workVars>>

\* A request of the bus is lost, which shows only when its caller has given up.  An
\* answer that is lost is one that comes after the timeout: it is dropped by then.
LoseProxy(r) ==
    /\ hop[r] = "queued" /\ pc[r] = "answered"
    /\ hop' = [hop EXCEPT ![r] = "over"]
    /\ UNCHANGED <<policies, mode, httpVars, job, workVars>>

\* Only the deployment over the bus has a monitor.
Manage ==
    /\ ~Direct
    /\ ManagePolicies
    /\ UNCHANGED <<mode, httpVars, hop, job, workVars>>
-----------------------------------------------------------------------------
(* The worker.                                                               *)

\* The answer reaches the monitor, if it still waits, or the handler itself.
Reply(r, result) ==
    /\ job' = [job EXCEPT ![r] = "over"]
    /\ IF hop[r] \in {"direct", "proxied"} THEN Deliver(r, result) ELSE UNCHANGED <<httpVars, hop>>

\* The handler raises: missing or wrong password, purchase history, a check of
\* the other services.
MayRaise(op) == op \notin {"list_users", "enable", "disable"}

\* The reads and checks.  A read-only operation answers, a login with the role.
WorkerReads(r) ==
    /\ job[r] = "queued"
    /\ \/ /\ call[r].op \in UserOps => Checked(call[r], mode = "monolith")
          /\ IF call[r].op \in ReadOps
             THEN /\ Reply(r, IF call[r].op = "login" THEN roleOf[call[r].user] ELSE "ok")
                  /\ UNCHANGED counted
             ELSE /\ job' = [job EXCEPT ![r] = "write"]
                  /\ counted' = [counted EXCEPT ![r] = Counted(call[r])]
                  /\ UNCHANGED <<httpVars, hop>>
       \/ /\ \/ MayRaise(call[r].op)
             \/ call[r].op \in UserOps /\ ~Checked(call[r], mode = "monolith")
          /\ Reply(r, "error")
          /\ UNCHANGED counted
    /\ UNCHANGED <<policies, mode, changed, userVars, raced>>

\* The transaction commits; what the other services store is not kept here.  The
\* handler then records the event of the change, over the bus for up to 5 s or in
\* its own process, and goes on whether or not it was stored (try_record).
WorkerCommits(r) ==
    /\ job[r] = "write"
    /\ IF call[r].op \in UserOps THEN Write(call[r]) ELSE UNCHANGED userVars
    /\ changed' = [changed EXCEPT ![r] = TRUE]
    /\ raced' = (raced \/ Counted(call[r]) # counted[r])
    /\ counted' = [counted EXCEPT ![r] = 0]
    /\ job' = [job EXCEPT ![r] = "recording"]
    /\ UNCHANGED <<policies, mode, httpVars, hop>>

\* The row exists, or the database stays locked for longer than its timeout.
WorkerRollsBack(r) ==
    /\ job[r] = "write"
    /\ Reply(r, "error")
    /\ counted' = [counted EXCEPT ![r] = 0]
    /\ UNCHANGED <<policies, mode, changed, userVars, raced>>

\* try_record returns.  A purchase has to be told to the registry before that, in
\* a second transaction that may fail (UasLifecycle has the details).
Recorded(r) ==
    /\ job[r] = "recording"
    /\ \/ Reply(r, "ok")
       \/ call[r].op = "purchase" /\ Reply(r, "error")
    /\ UNCHANGED <<policies, mode, counted, changed, userVars, raced>>

\* The request is lost before the worker takes it, and the monitor has given up.
LoseWork(r) ==
    /\ job[r] = "queued" /\ hop[r] = "over"
    /\ job' = [job EXCEPT ![r] = "over"]
    /\ UNCHANGED <<policies, mode, httpVars, hop, workVars>>
-----------------------------------------------------------------------------
Handler(r) == Receive(r) \/ GatewayTimeout(r) \/ Forget(r)
MonitorStep(r) == Proxy(r) \/ ProxyTimeout(r) \/ LoseProxy(r)
Worker(r) == WorkerReads(r) \/ WorkerCommits(r) \/ WorkerRollsBack(r) \/ Recorded(r)

Next ==
    \/ \E r \in Requests : Handler(r) \/ MonitorStep(r) \/ Worker(r) \/ LoseWork(r)
    \/ \E role \in tokens : Expire(role)
    \/ Manage

Spec == Init /\ [][Next]_vars
-----------------------------------------------------------------------------
TypeOK ==
    /\ policies \subseteq CanonicalRules \cup Rules
    /\ mode \in Modes
    /\ tokens \subseteq Roles
    /\ roleOf \in [Users -> Roles \cup {None}]
    /\ active \in [Users -> BOOLEAN]
    /\ pc \in [Requests -> {"free", "waiting", "answered"}]
    /\ answer \in [Requests -> Results \cup {None}]
    /\ hop \in [Requests -> {"none", "direct", "queued", "proxied", "over"}]
    /\ job \in [Requests -> {"none", "queued", "write", "recording", "over"}]
    /\ counted \in [Requests -> Nat]
    /\ changed \in [Requests -> BOOLEAN]
    /\ raced \in BOOLEAN

\* An answer is true of the work it is about, for as long as any of that work is
\* left: success means that the change is committed, and a failure other than a
\* timeout that it is not and never will be, although timeouts leave jobs behind.
\* A purchase is two transactions, and is left out.
AnswerTruthful ==
    \A r \in Requests : call[r].op # "purchase" =>
        /\ answer[r] = "ok" /\ call[r].op \notin ReadOps => changed[r]
        /\ answer[r] \in {"error", "denied", "unauthorized"} => ~changed[r]

\* Accounts change only through bootstrap-admin or on behalf of somebody who acts
\* as an administrator, whatever path the request has taken.
AdminOnly ==
    [][\A u \in Users : (roleOf'[u] # roleOf[u] \/ active'[u] # active[u]) =>
           \E r \in Requests : /\ changed'[r] /\ ~changed[r]
                              /\ \/ call[r].op = "bootstrap"
                                 \/ call[r].actor = Admin]_vars

\* As long as no write has relied on a count that was no longer true, the accounts
\* keep an administrator: an active one where accounts cannot be deleted, since
\* delete_user counts the blocked administrators as well.
AdminRemains ==
    ~raced /\ Accounts # {} => IF mode = "monolith" THEN Admins # {} ELSE ActiveAdmins # {}
=============================================================================
