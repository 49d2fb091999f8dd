-------------------------- MODULE UasGatewayProofs --------------------------
(* Theorems about UasGateway, for any accounts, requests, calls and rules    *)
(* and for the three deployments: what an answer says of the work behind the *)
(* request stays true, accounts change on behalf of administrators only, and *)
(* they keep one.                                                            *)
EXTENDS UasGateway, FiniteSetTheorems, TLAPS

Pcs == {"free", "waiting", "answered"}
Hops == {"none", "direct", "queued", "proxied", "over"}
Jobs == {"none", "queued", "write", "recording", "over"}
Answers == Results \cup {None}

RequestType ==
    /\ call = [r \in Requests |-> call[r]]
    /\ pc \in [Requests -> Pcs]
    /\ answer \in [Requests -> Answers]
    /\ hop \in [Requests -> Hops]
    /\ job \in [Requests -> Jobs]
    /\ counted \in [Requests -> Nat]
    /\ changed \in [Requests -> BOOLEAN]

AccountType ==
    /\ roleOf \in [Users -> Roles \cup {None}]
    /\ active \in [Users -> BOOLEAN]
    /\ tokens \in SUBSET Roles

\* Only a call the handler accepted is at the worker, and it is one of Calls.
IsCall(c) == c.op \in UserOps \ {"list_users"} => c.user \in Users

-----------------------------------------------------------------------------
(* The invariant of one request.                                             *)

\* Where the request is: at the monitor, at the worker, or nowhere.
PlaceInv(r) ==
    /\ pc[r] = "free" => hop[r] = "none" /\ job[r] = "none" /\ answer[r] = None
    /\ pc[r] = "waiting" => answer[r] = None
    /\ hop[r] \in {"none", "queued"} => job[r] = "none"
    /\ hop[r] \in {"direct", "proxied"} => job[r] \in {"queued", "write", "recording"}

\* The change of a request is there from its commit on.
ChangeInv(r) ==
    /\ job[r] \in {"none", "queued", "write"} => changed[r] = FALSE
    /\ job[r] = "recording" => changed[r] = TRUE

\* An answer other than a timeout means that nothing of the request is left to do.
AnswerInv(r) ==
    /\ answer[r] = "ok" =>
        /\ job[r] = "over"
        /\ call[r].op \notin ReadOps \cup {"purchase"} => changed[r] = TRUE
    /\ answer[r] = "error" =>
        /\ job[r] = "over"
        /\ call[r].op # "purchase" => changed[r] = FALSE
    /\ answer[r] = "denied" => hop[r] = "over" /\ job[r] = "none"
    /\ answer[r] = "unauthorized" => hop[r] = "none" /\ job[r] = "none"

\* What the worker found before it writes.
WriteInv(r) ==
    /\ job[r] # "none" => IsCall(call[r])
    /\ hop[r] = "queued" => IsCall(call[r])
    /\ job[r] = "write" =>
        /\ call[r].op \notin ReadOps
        /\ call[r].op \in AdminOps => call[r].actor = Admin
        /\ call[r].op = "create" => call[r].role \in Roles
        /\ call[r].op = "delete" => mode = "monolith"
        /\ call[r].op \in {"disable", "delete"} => counted[r] # 1

RequestInv(r) == PlaceInv(r) /\ ChangeInv(r) /\ AnswerInv(r) /\ WriteInv(r)

RequestsInv == RequestType /\ AccountType /\ \A r \in Requests : RequestInv(r)

\* The others are left alone.
OthersKept(r) ==
    \A s \in Requests \ {r} :
        /\ call'[s] = call[s] /\ pc'[s] = pc[s] /\ answer'[s] = answer[s]
        /\ hop'[s] = hop[s] /\ job'[s] = job[s]
        /\ counted'[s] = counted[s] /\ changed'[s] = changed[s]

LEMMA OthersInv ==
    ASSUME NEW r \in Requests, NEW s \in Requests \ {r}, OthersKept(r), RequestInv(s),
           mode' = mode
    PROVE  RequestInv(s)'
<1> USE DEF OthersKept
<1>1. PlaceInv(s)'
  BY DEF RequestInv, PlaceInv
<1>2. ChangeInv(s)'
  BY DEF RequestInv, ChangeInv
<1>3. AnswerInv(s)'
  BY DEF RequestInv, AnswerInv
<1>4. WriteInv(s)'
  BY DEF RequestInv, WriteInv, IsCall
<1> QED
  BY <1>1, <1>2, <1>3, <1>4 DEF RequestInv
-----------------------------------------------------------------------------
(* Answers on their way to the handler.                                      *)

LEMMA AnswerTypes ==
    ASSUME RequestType, AccountType, NEW r \in Requests, NEW result \in Results \cup Roles,
           Answer(r, result)
    PROVE  /\ pc' \in [Requests -> Pcs] /\ answer' \in [Requests -> Answers]
           /\ tokens' \in SUBSET Roles /\ call' = call
           /\ pc'[r] = "answered"
           /\ answer'[r] = IF result \in Roles THEN "ok" ELSE result
           /\ \A s \in Requests \ {r} : pc'[s] = pc[s] /\ answer'[s] = answer[s]
           /\ tokens' = tokens \cup ({result} \cap Roles)
<1>1. (IF result \in Roles THEN "ok" ELSE result) \in Answers
  BY DEF Answers, Results
<1> QED
  BY <1>1 DEF RequestType, AccountType, Answer, Pcs

LEMMA DeliverTypes ==
    ASSUME RequestType, AccountType, NEW r \in Requests, NEW result \in Results \cup Roles,
           Deliver(r, result)
    PROVE  /\ pc' \in [Requests -> Pcs] /\ answer' \in [Requests -> Answers]
           /\ tokens' \in SUBSET Roles /\ call' = call
           /\ hop' \in [Requests -> Hops] /\ hop'[r] = "over"
           /\ \A s \in Requests \ {r} :
                pc'[s] = pc[s] /\ answer'[s] = answer[s] /\ hop'[s] = hop[s]
           /\ pc[r] = "waiting" =>
                /\ pc'[r] = "answered"
                /\ answer'[r] = IF result \in Roles THEN "ok" ELSE result
           /\ pc[r] # "waiting" => pc'[r] = pc[r] /\ answer'[r] = answer[r]
           /\ tokens' \subseteq tokens \cup ({result} \cap Roles)
<1>1. /\ hop' \in [Requests -> Hops] /\ hop'[r] = "over"
      /\ \A s \in Requests \ {r} : hop'[s] = hop[s]
  BY DEF Deliver, RequestType, Hops
<1>2. CASE pc[r] = "waiting"
  <2>1. Answer(r, result)
    BY <1>2 DEF Deliver
  <2> QED
    BY <1>1, <1>2, <2>1, AnswerTypes
<1>3. CASE pc[r] # "waiting"
  <2>1. UNCHANGED httpVars
    BY <1>3 DEF Deliver
  <2> QED
    BY <1>1, <1>3, <2>1 DEF httpVars, RequestType, AccountType
<1> QED
  BY <1>2, <1>3

LEMMA ReplyTypes ==
    ASSUME RequestType, AccountType, NEW r \in Requests, NEW result \in Results \cup Roles,
           Reply(r, result)
    PROVE  /\ pc' \in [Requests -> Pcs] /\ answer' \in [Requests -> Answers]
           /\ tokens' \in SUBSET Roles /\ call' = call
           /\ hop' \in [Requests -> Hops] /\ job' \in [Requests -> Jobs] /\ job'[r] = "over"
           /\ \A s \in Requests \ {r} :
                /\ pc'[s] = pc[s] /\ answer'[s] = answer[s]
                /\ hop'[s] = hop[s] /\ job'[s] = job[s]
           /\ hop'[r] = IF hop[r] \in {"direct", "proxied"} THEN "over" ELSE hop[r]
           /\ \/ pc'[r] = pc[r] /\ answer'[r] = answer[r]
              \/ /\ pc[r] = "waiting" /\ pc'[r] = "answered"
                 /\ answer'[r] = IF result \in Roles THEN "ok" ELSE result
           /\ tokens' \subseteq tokens \cup ({result} \cap Roles)
<1>1. /\ job' \in [Requests -> Jobs] /\ job'[r] = "over"
      /\ \A s \in Requests \ {r} : job'[s] = job[s]
  BY DEF Reply, RequestType, Jobs
<1>2. CASE hop[r] \in {"direct", "proxied"}
  <2>1. Deliver(r, result)
    BY <1>2 DEF Reply
  <2> QED
    BY <1>1, <1>2, <2>1, DeliverTypes
<1>3. CASE hop[r] \notin {"direct", "proxied"}
  <2>1. UNCHANGED <<httpVars, hop>>
    BY <1>3 DEF Reply
  <2> QED
    BY <1>1, <1>3, <2>1 DEF httpVars, RequestType, AccountType
<1> QED
  BY <1>2, <1>3
-----------------------------------------------------------------------------
(* The steps of one request.                                                 *)

\* What a step of one request has to keep.
Kept(r) ==
    /\ RequestType' /\ AccountType' /\ mode' = mode
    /\ OthersKept(r)
    /\ RequestInv(r)'

LEMMA KeptInv ==
    ASSUME RequestsInv, NEW r \in Requests, Kept(r)
    PROVE  RequestsInv'
<1>1. ASSUME NEW s \in Requests PROVE RequestInv(s)'
  <2>1. CASE s = r
    BY <2>1 DEF Kept
  <2>2. CASE s # r
    <3>1. s \in Requests \ {r}
      BY <2>2
    <3> QED
      BY <3>1, OthersInv DEF Kept, RequestsInv
  <2> QED
    BY <2>1, <2>2
<1> QED
  BY <1>1 DEF RequestsInv, Kept

LEMMA ReceiveInv ==
    ASSUME RequestsInv, NEW r \in Requests, Receive(r)
    PROVE  Kept(r)
<1>0. RequestType /\ AccountType /\ RequestInv(r) /\ pc[r] = "free"
  BY DEF Receive, RequestsInv
<1>1. /\ UNCHANGED <<mode, tokens>> /\ counted' = counted /\ changed' = changed
      /\ roleOf' = roleOf /\ active' = active
  BY DEF Receive, workVars, userVars
<1>2. CASE Refuse(r)
  <2>1. /\ RequestType'
        /\ pc'[r] = "answered" /\ answer'[r] = "unauthorized"
    BY <1>0, <1>1, <1>2 DEF Refuse, RequestType, Pcs, Answers, Results
  <2>2. OthersKept(r) /\ call' = call /\ hop' = hop /\ job' = job
    BY <1>0, <1>1, <1>2 DEF Refuse, RequestType, OthersKept
  <2>3. RequestInv(r)'
    BY <1>0, <1>1, <2>1, <2>2
    DEF RequestInv, PlaceInv, ChangeInv, AnswerInv, WriteInv, Results, IsCall
  <2> QED
    BY <1>0, <1>1, <2>1, <2>2, <2>3 DEF Kept, AccountType
<1>3. ASSUME NEW c \in Calls, NEW actor \in tokens \cup {None},
             PassOn(r, [op |-> c.op, actor |-> actor, user |-> c.user, role |-> c.role])
      PROVE  Kept(r)
  <2> DEFINE new == [op |-> c.op, actor |-> actor, user |-> c.user, role |-> c.role]
  <2>0. IsCall(new)
    BY CallsAssumption DEF IsCall
  <2> HIDE DEF new
  <2>1. /\ RequestType'
        /\ call'[r] = new /\ pc'[r] = "waiting" /\ answer' = answer
        /\ hop'[r] = (IF Direct THEN "direct" ELSE "queued")
        /\ job'[r] = (IF Direct THEN "queued" ELSE "none")
    BY <1>0, <1>1, <1>3 DEF PassOn, RequestType, Pcs, Hops, Jobs, new
  <2>2. OthersKept(r)
    BY <1>0, <1>1, <1>3 DEF PassOn, RequestType, OthersKept
  <2>3. RequestInv(r)'
    BY <1>0, <1>1, <2>0, <2>1, AnswersAssumption
    DEF RequestInv, PlaceInv, ChangeInv, AnswerInv, WriteInv, Results, IsCall
  <2> QED
    BY <1>0, <1>1, <2>1, <2>2, <2>3 DEF Kept, AccountType
<1> QED
  BY <1>2, <1>3 DEF Receive

LEMMA GatewayTimeoutInv ==
    ASSUME RequestsInv, NEW r \in Requests, GatewayTimeout(r)
    PROVE  Kept(r)
<1>0. RequestType /\ AccountType /\ RequestInv(r) /\ pc[r] = "waiting"
  BY DEF GatewayTimeout, RequestsInv
<1>1. /\ mode' = mode /\ hop' = hop /\ job' = job /\ counted' = counted /\ changed' = changed
      /\ roleOf' = roleOf /\ active' = active /\ Answer(r, "timeout")
  BY DEF GatewayTimeout, workVars, userVars
<1>2. "timeout" \in Results \cup Roles /\ "timeout" \notin Roles
  BY DEF Results, Roles, Admin
<1>3. /\ pc' \in [Requests -> Pcs] /\ answer' \in [Requests -> Answers]
      /\ tokens' \in SUBSET Roles /\ call' = call
      /\ pc'[r] = "answered" /\ answer'[r] = "timeout"
      /\ \A s \in Requests \ {r} : pc'[s] = pc[s] /\ answer'[s] = answer[s]
  BY <1>0, <1>1, <1>2, AnswerTypes
<1>4. RequestInv(r)'
  BY <1>0, <1>1, <1>3 DEF RequestInv, PlaceInv, ChangeInv, AnswerInv, WriteInv, IsCall
<1> QED
  BY <1>0, <1>1, <1>3, <1>4 DEF Kept, RequestType, AccountType, OthersKept

LEMMA ForgetInv ==
    ASSUME RequestsInv, NEW r \in Requests, Forget(r)
    PROVE  Kept(r)
<1>0. RequestType /\ AccountType /\ RequestInv(r)
  BY DEF Forget, RequestsInv
<1>1. /\ mode' = mode /\ tokens' = tokens /\ counted' = counted
      /\ roleOf' = roleOf /\ active' = active
  BY DEF Forget, userVars
<1>2. /\ RequestType' /\ OthersKept(r)
      /\ pc'[r] = "free" /\ answer'[r] = None /\ hop'[r] = "none" /\ job'[r] = "none"
      /\ changed'[r] = FALSE /\ call'[r] = NoCall
  BY <1>0, <1>1 DEF Forget, RequestType, OthersKept, Pcs, Answers, Hops, Jobs
<1>3. RequestInv(r)'
  BY <1>2, AnswersAssumption DEF RequestInv, PlaceInv, ChangeInv, AnswerInv, WriteInv, Results
<1> QED
  BY <1>0, <1>1, <1>2, <1>3 DEF Kept, AccountType

LEMMA ProxyInv ==
    ASSUME RequestsInv, NEW r \in Requests, Proxy(r)
    PROVE  Kept(r)
<1>0. RequestType /\ AccountType /\ RequestInv(r) /\ hop[r] = "queued"
  BY DEF Proxy, RequestsInv
<1>1. /\ mode' = mode /\ counted' = counted /\ changed' = changed
      /\ roleOf' = roleOf /\ active' = active
  BY DEF Proxy, workVars, userVars
<1>2. CASE hop' = [hop EXCEPT ![r] = "proxied"] /\ job' = [job EXCEPT ![r] = "queued"]
           /\ UNCHANGED httpVars
  <2>1. /\ RequestType' /\ OthersKept(r)
        /\ pc' = pc /\ answer' = answer /\ call' = call /\ tokens' = tokens
        /\ hop'[r] = "proxied" /\ job'[r] = "queued"
    BY <1>0, <1>1, <1>2 DEF RequestType, OthersKept, httpVars, Hops, Jobs
  <2>2. RequestInv(r)'
    BY <1>0, <1>1, <2>1 DEF RequestInv, PlaceInv, ChangeInv, AnswerInv, WriteInv, IsCall
  <2> QED
    BY <1>0, <1>1, <2>1, <2>2 DEF Kept, AccountType
<1>3. CASE Deliver(r, "denied") /\ job' = job
  <2>1. "denied" \in Results \cup Roles /\ "denied" \notin Roles
    BY DEF Results, Roles, Admin
  <2>2. /\ pc' \in [Requests -> Pcs] /\ answer' \in [Requests -> Answers]
        /\ tokens' \in SUBSET Roles /\ call' = call
        /\ hop' \in [Requests -> Hops] /\ hop'[r] = "over"
        /\ \A s \in Requests \ {r} :
             pc'[s] = pc[s] /\ answer'[s] = answer[s] /\ hop'[s] = hop[s]
        /\ pc[r] = "waiting" => pc'[r] = "answered" /\ answer'[r] = "denied"
        /\ pc[r] # "waiting" => pc'[r] = pc[r] /\ answer'[r] = answer[r]
    BY <1>0, <1>3, <2>1, DeliverTypes
  <2>3. RequestInv(r)'
    BY <1>0, <1>1, <1>3, <2>2, AnswersAssumption
    DEF RequestInv, PlaceInv, ChangeInv, AnswerInv, WriteInv, IsCall, Results
  <2> QED
    BY <1>0, <1>1, <1>3, <2>2, <2>3 DEF Kept, RequestType, AccountType, OthersKept
<1> QED
  BY <1>2, <1>3 DEF Proxy

LEMMA ProxyTimeoutInv ==
    ASSUME RequestsInv, NEW r \in Requests, ProxyTimeout(r)
    PROVE  Kept(r)
<1>0. RequestType /\ AccountType /\ RequestInv(r) /\ hop[r] = "proxied"
  BY DEF ProxyTimeout, RequestsInv
<1>1. /\ mode' = mode /\ job' = job /\ counted' = counted /\ changed' = changed
      /\ roleOf' = roleOf /\ active' = active /\ Deliver(r, "timeout")
  BY DEF ProxyTimeout, workVars, userVars
<1>2. "timeout" \in Results \cup Roles /\ "timeout" \notin Roles
  BY DEF Results, Roles, Admin
<1>3. /\ pc' \in [Requests -> Pcs] /\ answer' \in [Requests -> Answers]
      /\ tokens' \in SUBSET Roles /\ call' = call
      /\ hop' \in [Requests -> Hops] /\ hop'[r] = "over"
      /\ \A s \in Requests \ {r} :
           pc'[s] = pc[s] /\ answer'[s] = answer[s] /\ hop'[s] = hop[s]
      /\ pc[r] = "waiting" => pc'[r] = "answered" /\ answer'[r] = "timeout"
      /\ pc[r] # "waiting" => pc'[r] = pc[r] /\ answer'[r] = answer[r]
  BY <1>0, <1>1, <1>2, DeliverTypes
<1>4. RequestInv(r)'
  BY <1>0, <1>1, <1>3
  DEF RequestInv, PlaceInv, ChangeInv, AnswerInv, WriteInv, IsCall
<1> QED
  BY <1>0, <1>1, <1>3, <1>4 DEF Kept, RequestType, AccountType, OthersKept

LEMMA LoseInv ==
    ASSUME RequestsInv, NEW r \in Requests, LoseProxy(r) \/ LoseWork(r)
    PROVE  Kept(r)
<1>0. RequestType /\ AccountType /\ RequestInv(r)
  BY DEF RequestsInv
<1>1. /\ mode' = mode /\ counted' = counted /\ changed' = changed /\ roleOf' = roleOf
      /\ active' = active /\ tokens' = tokens /\ pc' = pc /\ answer' = answer /\ call' = call
  BY DEF LoseProxy, LoseWork, workVars, userVars, httpVars
<1>2. CASE LoseProxy(r)
  <2>1. /\ RequestType' /\ OthersKept(r) /\ job' = job
        /\ pc[r] = "answered" /\ hop[r] = "queued" /\ hop'[r] = "over"
    BY <1>0, <1>1, <1>2 DEF LoseProxy, RequestType, OthersKept, Hops
  <2>2. RequestInv(r)'
    BY <1>0, <1>1, <2>1 DEF RequestInv, PlaceInv, ChangeInv, AnswerInv, WriteInv, IsCall
  <2> QED
    BY <1>0, <1>1, <2>1, <2>2 DEF Kept, AccountType
<1>3. CASE LoseWork(r)
  <2>1. /\ RequestType' /\ OthersKept(r) /\ hop' = hop
        /\ job[r] = "queued" /\ hop[r] = "over" /\ job'[r] = "over"
    BY <1>0, <1>1, <1>3 DEF LoseWork, RequestType, OthersKept, Jobs
  <2>2. RequestInv(r)'
    BY <1>0, <1>1, <2>1 DEF RequestInv, PlaceInv, ChangeInv, AnswerInv, WriteInv, IsCall
  <2> QED
    BY <1>0, <1>1, <2>1, <2>2 DEF Kept, AccountType
<1> QED
  BY <1>2, <1>3
-----------------------------------------------------------------------------
(* The worker's steps.                                                       *)

\* What the worker found makes the count of the last administrator impossible.
LEMMA CountedRight ==
    ASSUME AccountType, NEW c, IsCall(c)
    PROVE  /\ Counted(c) \in Nat
           /\ Checked(c, mode = "monolith") /\ c.op \in {"disable", "delete"} => Counted(c) # 1
<1>1. IsFiniteSet(Accounts) /\ IsFiniteSet(Admins) /\ IsFiniteSet(ActiveAdmins)
  <2>1. Accounts \subseteq Users /\ Admins \subseteq Users /\ ActiveAdmins \subseteq Users
    BY DEF Accounts, Admins, ActiveAdmins
  <2> QED
    BY <2>1, UsersAssumption, FS_Subset
<1>2. Cardinality(Accounts) \in Nat /\ Cardinality(Admins) \in Nat
      /\ Cardinality(ActiveAdmins) \in Nat
  BY <1>1, FS_CardinalityType
<1>3. Counted(c) \in Nat
  BY <1>2 DEF Counted
<1>4. ASSUME Checked(c, mode = "monolith"), c.op = "disable"
      PROVE  Counted(c) # 1
  BY <1>2, <1>4 DEF Checked, Counted
<1>5. ASSUME Checked(c, mode = "monolith"), c.op = "delete"
      PROVE  Counted(c) # 1
  BY <1>2, <1>5 DEF Checked, Counted
<1> QED
  BY <1>3, <1>4, <1>5

LEMMA WorkerReadsInv ==
    ASSUME RequestsInv, NEW r \in Requests, WorkerReads(r)
    PROVE  Kept(r)
<1>0. RequestType /\ AccountType /\ RequestInv(r) /\ job[r] = "queued" /\ IsCall(call[r])
  <2>1. RequestType /\ AccountType /\ RequestInv(r) /\ job[r] = "queued"
    BY DEF WorkerReads, RequestsInv
  <2> QED
    BY <2>1 DEF RequestInv, WriteInv
<1>1. /\ mode' = mode /\ changed' = changed /\ roleOf' = roleOf /\ active' = active
  BY DEF WorkerReads, userVars
<1>2. ASSUME NEW result \in Results \cup Roles, Reply(r, result), counted' = counted,
             result \in {"ok", "error"} \cup Roles,
             result # "error" => call[r].op \in ReadOps
      PROVE  Kept(r)
  <2>1. /\ pc' \in [Requests -> Pcs] /\ answer' \in [Requests -> Answers]
        /\ tokens' \in SUBSET Roles /\ call' = call
        /\ hop' \in [Requests -> Hops] /\ job' \in [Requests -> Jobs] /\ job'[r] = "over"
        /\ \A s \in Requests \ {r} :
             /\ pc'[s] = pc[s] /\ answer'[s] = answer[s]
             /\ hop'[s] = hop[s] /\ job'[s] = job[s]
        /\ hop'[r] = IF hop[r] \in {"direct", "proxied"} THEN "over" ELSE hop[r]
        /\ \/ pc'[r] = pc[r] /\ answer'[r] = answer[r]
           \/ /\ pc[r] = "waiting" /\ pc'[r] = "answered"
              /\ answer'[r] = IF result \in Roles THEN "ok" ELSE result
    BY <1>0, <1>2, ReplyTypes
  <2>2. (IF result \in Roles THEN "ok" ELSE result) \in {"ok", "error"}
    BY <1>2
  <2>3. (IF result \in Roles THEN "ok" ELSE result) = "ok" => call[r].op \in ReadOps
    BY <1>2 DEF Roles, Admin
  <2>4. RequestInv(r)'
    BY <1>0, <1>1, <1>2, <2>1, <2>2, <2>3, AnswersAssumption
    DEF RequestInv, PlaceInv, ChangeInv, AnswerInv, WriteInv, IsCall, Results
  <2> QED
    BY <1>0, <1>1, <1>2, <2>1, <2>4 DEF Kept, RequestType, AccountType, OthersKept
<1>3. ASSUME call[r].op \in UserOps => Checked(call[r], mode = "monolith"),
             call[r].op \notin ReadOps, job' = [job EXCEPT ![r] = "write"],
             counted' = [counted EXCEPT ![r] = Counted(call[r])], UNCHANGED <<httpVars, hop>>
      PROVE  Kept(r)
  <2>0. /\ Counted(call[r]) \in Nat
        /\ call[r].op \in {"disable", "delete"} => Counted(call[r]) # 1
    BY <1>0, <1>3, CountedRight DEF UserOps, AdminOps
  <2>1. /\ pc' = pc /\ answer' = answer /\ call' = call /\ tokens' = tokens /\ hop' = hop
    BY <1>3 DEF httpVars
  <2>2. /\ RequestType' /\ OthersKept(r)
        /\ job'[r] = "write" /\ counted'[r] = Counted(call[r])
    BY <1>0, <1>1, <1>3, <2>0, <2>1 DEF RequestType, OthersKept, Jobs
  <2>3. /\ call[r].op \in AdminOps => call[r].actor = Admin
        /\ call[r].op = "create" => call[r].role \in Roles
        /\ call[r].op = "delete" => mode = "monolith"
    BY <1>3 DEF Checked, UserOps, AdminOps
  <2>4. RequestInv(r)'
    BY <1>0, <1>1, <1>3, <2>0, <2>1, <2>2, <2>3
    DEF RequestInv, PlaceInv, ChangeInv, AnswerInv, WriteInv, IsCall
  <2> QED
    BY <1>0, <1>1, <2>1, <2>2, <2>4 DEF Kept, AccountType
<1>4. ASSUME call[r].op \in UserOps => Checked(call[r], mode = "monolith"),
             call[r].op = "login"
      PROVE  roleOf[call[r].user] \in Roles
  <2>1. call[r].user \in Users
    BY <1>0, <1>4 DEF IsCall, UserOps, AdminOps
  <2>2. roleOf[call[r].user] # None
    BY <1>4 DEF Checked, Exists, UserOps
  <2> QED
    BY <1>0, <2>1, <2>2 DEF AccountType
<1>5. "ok" \in Results /\ "error" \in Results
  BY DEF Results
<1> QED
  BY <1>2, <1>3, <1>4, <1>5 DEF WorkerReads

LEMMA WriteTypes ==
    ASSUME AccountType, NEW c, IsCall(c), c.op = "create" => c.role \in Roles, Write(c)
    PROVE  roleOf' \in [Users -> Roles \cup {None}] /\ active' \in [Users -> BOOLEAN]
<1>1. CASE c.op = "bootstrap" /\ Insert(c.user, Admin)
  BY <1>1 DEF AccountType, Insert, Roles, IsCall, UserOps
<1>2. CASE c.op = "create" /\ Insert(c.user, c.role)
  BY <1>2 DEF AccountType, Insert, IsCall, UserOps
<1>3. CASE c.op \in {"enable", "disable"} /\ SetActive(c.user, c.op = "enable")
  <2>1. roleOf' = roleOf
    BY <1>3 DEF SetActive
  <2>2. (IF Exists(c.user) THEN c.op = "enable" ELSE active[c.user]) \in BOOLEAN
    <3>1. c.user \in Users
      BY <1>3 DEF IsCall, UserOps, AdminOps
    <3> QED
      BY <3>1 DEF AccountType
  <2>3. active' \in [Users -> BOOLEAN]
    BY <1>3, <2>2, Zenon DEF SetActive, AccountType
  <2> QED
    BY <2>1, <2>3 DEF AccountType
<1>4. CASE c.op = "delete" /\ Delete(c.user)
  BY <1>4 DEF AccountType, Delete
<1> QED
  BY <1>1, <1>2, <1>3, <1>4 DEF Write

LEMMA WorkerCommitsInv ==
    ASSUME RequestsInv, NEW r \in Requests, WorkerCommits(r)
    PROVE  Kept(r)
<1>0. /\ RequestType /\ AccountType /\ RequestInv(r) /\ job[r] = "write" /\ IsCall(call[r])
      /\ call[r].op = "create" => call[r].role \in Roles
  <2>1. RequestType /\ AccountType /\ RequestInv(r) /\ job[r] = "write"
    BY DEF WorkerCommits, RequestsInv
  <2> QED
    BY <2>1 DEF RequestInv, WriteInv
<1>1. /\ mode' = mode /\ pc' = pc /\ answer' = answer /\ call' = call /\ tokens' = tokens
      /\ hop' = hop
  BY DEF WorkerCommits, httpVars
<1>2. /\ RequestType' /\ OthersKept(r)
      /\ job'[r] = "recording" /\ counted'[r] = 0 /\ changed'[r] = TRUE
  BY <1>0, <1>1 DEF WorkerCommits, RequestType, OthersKept, Jobs
<1>3. AccountType'
  <2>1. CASE call[r].op \in UserOps
    <3>1. Write(call[r])
      BY <2>1 DEF WorkerCommits
    <3>2. roleOf' \in [Users -> Roles \cup {None}] /\ active' \in [Users -> BOOLEAN]
      BY <1>0, <3>1, WriteTypes
    <3> QED
      BY <1>0, <1>1, <3>2 DEF AccountType
  <2>2. CASE call[r].op \notin UserOps
    BY <1>0, <1>1, <2>2 DEF WorkerCommits, AccountType, userVars
  <2> QED
    BY <2>1, <2>2
<1>4. RequestInv(r)'
  BY <1>0, <1>1, <1>2
  DEF RequestInv, PlaceInv, ChangeInv, AnswerInv, WriteInv, IsCall
<1> QED
  BY <1>1, <1>2, <1>3, <1>4 DEF Kept

\* The worker's last word on a request, from the roll-back or the record.
LEMMA RepliesInv ==
    ASSUME RequestsInv, NEW r \in Requests, NEW result \in {"ok", "error"}, Reply(r, result),
           mode' = mode, changed' = changed, roleOf' = roleOf, active' = active,
           counted' \in [Requests -> Nat],
           \A s \in Requests \ {r} : counted'[s] = counted[s],
           job[r] \in {"write", "recording"},
           result = "ok" => job[r] = "recording",
           result = "error" => job[r] = "write" \/ call[r].op = "purchase"
    PROVE  Kept(r)
<1>0. RequestType /\ AccountType /\ RequestInv(r)
  BY DEF RequestsInv
<1>1. result \in Results \cup Roles /\ result \notin Roles
  BY DEF Results, Roles, Admin
<1>2. /\ pc' \in [Requests -> Pcs] /\ answer' \in [Requests -> Answers]
      /\ tokens' \in SUBSET Roles /\ call' = call
      /\ hop' \in [Requests -> Hops] /\ job' \in [Requests -> Jobs] /\ job'[r] = "over"
      /\ \A s \in Requests \ {r} :
           /\ pc'[s] = pc[s] /\ answer'[s] = answer[s]
           /\ hop'[s] = hop[s] /\ job'[s] = job[s]
      /\ hop'[r] = IF hop[r] \in {"direct", "proxied"} THEN "over" ELSE hop[r]
      /\ \/ pc'[r] = pc[r] /\ answer'[r] = answer[r]
         \/ pc[r] = "waiting" /\ pc'[r] = "answered" /\ answer'[r] = result
  BY <1>0, <1>1, ReplyTypes
<1>3. RequestInv(r)'
  BY <1>0, <1>1, <1>2, AnswersAssumption
  DEF RequestInv, PlaceInv, ChangeInv, AnswerInv, WriteInv, IsCall, Results
<1> QED
  BY <1>0, <1>2, <1>3 DEF Kept, RequestType, AccountType, OthersKept

LEMMA WorkerAnswersInv ==
    ASSUME RequestsInv, NEW r \in Requests, WorkerRollsBack(r) \/ Recorded(r)
    PROVE  Kept(r)
<1>0. RequestType
  BY DEF RequestsInv
<1>1. mode' = mode /\ changed' = changed /\ roleOf' = roleOf /\ active' = active
  BY DEF WorkerRollsBack, Recorded, userVars
<1>2. CASE WorkerRollsBack(r)
  <2>1. /\ counted' \in [Requests -> Nat]
        /\ \A s \in Requests \ {r} : counted'[s] = counted[s]
        /\ Reply(r, "error") /\ job[r] = "write"
    BY <1>0, <1>2 DEF WorkerRollsBack, RequestType
  <2> QED
    BY <1>1, <2>1, RepliesInv
<1>3. CASE Recorded(r)
  <2>1. /\ counted' \in [Requests -> Nat]
        /\ \A s \in Requests \ {r} : counted'[s] = counted[s]
        /\ job[r] = "recording"
    BY <1>0, <1>3 DEF Recorded, RequestType
  <2>2. CASE Reply(r, "ok")
    BY <1>1, <2>1, <2>2, RepliesInv
  <2>3. CASE call[r].op = "purchase" /\ Reply(r, "error")
    BY <1>1, <2>1, <2>3, RepliesInv
  <2> QED
    BY <1>3, <2>2, <2>3 DEF Recorded
<1> QED
  BY <1>2, <1>3
-----------------------------------------------------------------------------
(* What an answer says stays true.                                           *)

LEMMA RequestsInit ==
    ASSUME Init
    PROVE  RequestsInv
<1>1. RequestType
  BY DEF Init, RequestType, Pcs, Hops, Jobs, Answers
<1>2. AccountType
  BY DEF Init, UsersInit, AccountType
<1>3. ASSUME NEW r \in Requests PROVE RequestInv(r)
  BY AnswersAssumption DEF Init, RequestInv, PlaceInv, ChangeInv, AnswerInv, WriteInv, Results
<1> QED
  BY <1>1, <1>2, <1>3 DEF RequestsInv

LEMMA RequestsSame ==
    ASSUME RequestsInv, UNCHANGED <<call, pc, answer, hop, job, counted, changed, mode>>,
           AccountType'
    PROVE  RequestsInv'
<1>1. RequestType'
  BY DEF RequestsInv, RequestType
<1>2. ASSUME NEW r \in Requests PROVE RequestInv(r)'
  BY DEF RequestsInv, RequestInv, PlaceInv, ChangeInv, AnswerInv, WriteInv, IsCall
<1> QED
  BY <1>1, <1>2 DEF RequestsInv

LEMMA RequestsNext == RequestsInv /\ [Next]_vars => RequestsInv'
<1> SUFFICES ASSUME RequestsInv, [Next]_vars PROVE RequestsInv'
  OBVIOUS
<1>1. ASSUME NEW r \in Requests, Handler(r) \/ MonitorStep(r) \/ Worker(r) \/ LoseWork(r)
      PROVE  RequestsInv'
  <2>1. Kept(r)
    BY <1>1, ReceiveInv, GatewayTimeoutInv, ForgetInv, ProxyInv, ProxyTimeoutInv, LoseInv,
       WorkerReadsInv, WorkerCommitsInv, WorkerAnswersInv
    DEF Handler, MonitorStep, Worker
  <2> QED
    BY <2>1, KeptInv
<1>2. ASSUME NEW role \in tokens, Expire(role) PROVE RequestsInv'
  <2>1. /\ UNCHANGED <<call, pc, answer, hop, job, counted, changed, mode>>
        /\ AccountType'
    BY <1>2 DEF Expire, workVars, userVars, RequestsInv, AccountType
  <2> QED
    BY <2>1, RequestsSame
<1>3. ASSUME Manage PROVE RequestsInv'
  <2>1. /\ UNCHANGED <<call, pc, answer, hop, job, counted, changed, mode>>
        /\ AccountType'
    BY <1>3 DEF Manage, httpVars, workVars, userVars, RequestsInv, AccountType
  <2> QED
    BY <2>1, RequestsSame
<1>4. CASE UNCHANGED vars
  <2>1. /\ UNCHANGED <<call, pc, answer, hop, job, counted, changed, mode>>
        /\ AccountType'
    BY <1>4 DEF vars, httpVars, workVars, userVars, RequestsInv, AccountType
  <2> QED
    BY <2>1, RequestsSame
<1> QED
  BY <1>1, <1>2, <1>3, <1>4 DEF Next

LEMMA RequestsAlways == Spec => []RequestsInv
<1>1. Init => RequestsInv
  BY RequestsInit
<1> QED
  BY <1>1, RequestsNext, PTL DEF Spec

LEMMA PoliciesNext ==
    ASSUME policies \subseteq CanonicalRules \cup Rules, [Next]_vars
    PROVE  policies' \subseteq CanonicalRules \cup Rules
<1>1. ASSUME NEW r \in Requests, Handler(r) \/ MonitorStep(r) PROVE policies' = policies
  BY <1>1 DEF Handler, Receive, GatewayTimeout, Forget, MonitorStep, Proxy, ProxyTimeout,
     LoseProxy
<1>2. ASSUME NEW r \in Requests, Worker(r) \/ LoseWork(r) PROVE policies' = policies
  BY <1>2 DEF Worker, WorkerReads, WorkerCommits, WorkerRollsBack, Recorded, LoseWork
<1>3. ASSUME NEW role \in tokens, Expire(role) PROVE policies' = policies
  BY <1>3 DEF Expire
<1>4. ASSUME Manage PROVE policies' \subseteq CanonicalRules \cup Rules
  BY <1>4 DEF Manage, ManagePolicies, SetPolicy, RemovePolicy, ClearPolicies
<1>5. CASE UNCHANGED vars
  BY <1>5 DEF vars
<1> QED
  BY <1>1, <1>2, <1>3, <1>4, <1>5 DEF Next

\* The deployment stays, and so does a write that came too late.
LEMMA RacedGrows ==
    ASSUME [Next]_vars
    PROVE  mode' = mode /\ (~raced' => ~raced) /\ (raced \in BOOLEAN => raced' \in BOOLEAN)
<1> USE DEF workVars
<1>1. ASSUME NEW r \in Requests, Handler(r) PROVE mode' = mode /\ raced' = raced
  BY <1>1 DEF Handler, Receive, GatewayTimeout, Forget
<1>2. ASSUME NEW r \in Requests, MonitorStep(r) PROVE mode' = mode /\ raced' = raced
  BY <1>2 DEF MonitorStep, Proxy, ProxyTimeout, LoseProxy
<1>3. ASSUME NEW r \in Requests, Worker(r) \/ LoseWork(r), ~WorkerCommits(r)
      PROVE  mode' = mode /\ raced' = raced
  BY <1>3 DEF Worker, WorkerReads, WorkerRollsBack, Recorded, LoseWork
<1>4. ASSUME NEW role \in tokens, Expire(role) PROVE mode' = mode /\ raced' = raced
  BY <1>4 DEF Expire
<1>5. ASSUME Manage PROVE mode' = mode /\ raced' = raced
  BY <1>5 DEF Manage
<1>6. ASSUME UNCHANGED vars PROVE mode' = mode /\ raced' = raced
  BY <1>6 DEF vars
<1>7. (mode' = mode /\ raced' = raced) \/ \E r \in Requests : WorkerCommits(r)
  BY <1>1, <1>2, <1>3, <1>4, <1>5, <1>6 DEF Next
<1>8. CASE \E r \in Requests : WorkerCommits(r)
  <2>1. PICK r \in Requests : WorkerCommits(r)
    BY <1>8
  <2>2. raced' = (raced \/ Counted(call[r]) # counted[r])
    BY <2>1 DEF WorkerCommits
  <2>3. ~raced' => ~raced
    BY <2>2, Zenon
  <2>4. raced' \in BOOLEAN
    BY <2>2, Zenon
  <2> QED
    BY <2>1, <2>3, <2>4 DEF WorkerCommits
<1> QED
  BY <1>7, <1>8

\* Every variable keeps its type: rules are canonical ones or set by an administrator
\* of the policies, tokens name roles, and accounts have a role or are none.
THEOREM TypeCorrect == Spec => []TypeOK
<1> DEFINE I == /\ policies \subseteq CanonicalRules \cup Rules
               /\ mode \in Modes
               /\ raced \in BOOLEAN
<1>1. Init => I
  BY DEF Init, MonitorInit
<1>2. I /\ [Next]_vars => I'
  <2> SUFFICES ASSUME I, [Next]_vars PROVE I'
    OBVIOUS
  <2>1. policies' \subseteq CanonicalRules \cup Rules
    BY PoliciesNext
  <2> QED
    BY <2>1, RacedGrows
<1>3. RequestsInv /\ I => TypeOK
  BY DEF RequestsInv, RequestType, AccountType, TypeOK, Pcs, Hops, Jobs, Answers
<1> QED
  BY <1>1, <1>2, <1>3, RequestsAlways, PTL DEF Spec

\* What the developer answers to a request is true of the work behind it for as long
\* as any of that work is left, in every deployment and whatever times out or is lost
\* on the way: the worker answers last, and a refusal of the monitor comes before
\* there is a job.
THEOREM AnswersStayTrue == Spec => []AnswerTruthful
<1>1. ASSUME RequestsInv PROVE AnswerTruthful
  <2> SUFFICES ASSUME NEW r \in Requests, call[r].op # "purchase"
               PROVE  /\ answer[r] = "ok" /\ call[r].op \notin ReadOps => changed[r]
                      /\ answer[r] \in {"error", "denied", "unauthorized"} => ~changed[r]
    BY DEF AnswerTruthful
  <2>1. AnswerInv(r) /\ ChangeInv(r)
    BY <1>1 DEF RequestsInv, RequestInv
  <2>2. answer[r] = "ok" /\ call[r].op \notin ReadOps => changed[r] = TRUE
    BY <2>1 DEF AnswerInv
  <2>3. answer[r] \in {"error", "denied", "unauthorized"} => changed[r] = FALSE
    BY <2>1 DEF AnswerInv, ChangeInv
  <2> QED
    BY <2>2, <2>3
<1> QED
  BY <1>1, RequestsAlways, PTL
-----------------------------------------------------------------------------
(* Who changes accounts.                                                     *)

\* A step in which the accounts change is the commit of a job of user management.
Written ==
    \E r \in Requests : WorkerCommits(r) /\ call[r].op \in UserOps

LEMMA AccountsChange ==
    ASSUME [Next]_vars, ~Written
    PROVE  roleOf' = roleOf /\ active' = active
<1> USE DEF workVars, userVars
<1>1. ASSUME NEW r \in Requests, Handler(r) \/ MonitorStep(r)
      PROVE  roleOf' = roleOf /\ active' = active
  BY <1>1 DEF Handler, Receive, GatewayTimeout, Forget, MonitorStep, Proxy, ProxyTimeout,
     LoseProxy
<1>2. ASSUME NEW r \in Requests, Worker(r) \/ LoseWork(r)
      PROVE  roleOf' = roleOf /\ active' = active
  BY <1>2 DEF Worker, WorkerReads, WorkerCommits, WorkerRollsBack, Recorded, LoseWork,
     Written
<1>3. ASSUME NEW role \in tokens, Expire(role)
      PROVE  roleOf' = roleOf /\ active' = active
  BY <1>3 DEF Expire
<1>4. ASSUME Manage PROVE roleOf' = roleOf /\ active' = active
  BY <1>4 DEF Manage
<1>5. CASE UNCHANGED vars
  BY <1>5 DEF vars
<1> QED
  BY <1>1, <1>2, <1>3, <1>4, <1>5 DEF Next

\* Accounts change by the commit of a bootstrap or of a request in the role of an
\* administrator, whatever path the request took: the worker requires the role in
\* every deployment, and a job keeps the call it was started for.
THEOREM AdministratorsDecide == Spec => AdminOnly
<1> DEFINE A == \A u \in Users : (roleOf'[u] # roleOf[u] \/ active'[u] # active[u]) =>
                    \E r \in Requests : /\ changed'[r] /\ ~changed[r]
                                       /\ \/ call[r].op = "bootstrap"
                                          \/ call[r].actor = Admin
<1>1. ASSUME RequestsInv, [Next]_vars PROVE A
  <2>1. CASE ~Written
    BY <1>1, <2>1, AccountsChange
  <2>2. CASE Written
    <3>1. PICK r \in Requests : WorkerCommits(r) /\ call[r].op \in UserOps
      BY <2>2 DEF Written
    <3>2. RequestInv(r) /\ job[r] = "write" /\ Write(call[r])
      BY <1>1, <3>1 DEF RequestsInv, WorkerCommits
    <3>3. ~changed[r]
      BY <3>2 DEF RequestInv, ChangeInv
    <3>4. changed'[r]
      <4>1. changed \in [Requests -> BOOLEAN] /\ changed' = [changed EXCEPT ![r] = TRUE]
        BY <1>1, <3>1 DEF RequestsInv, RequestType, WorkerCommits
      <4> QED
        BY <4>1
    <3>5. call[r].op = "bootstrap" \/ call[r].actor = Admin
      BY <3>2 DEF RequestInv, WriteInv, Write, AdminOps
    <3> QED
      BY <3>3, <3>4, <3>5
  <2> QED
    BY <2>1, <2>2
<1>2. RequestsInv /\ [Next]_vars => [A]_vars
  BY <1>1
<1> QED
  BY <1>2, RequestsAlways, PTL DEF Spec, AdminOnly
-----------------------------------------------------------------------------
(* The last administrator.                                                   *)

\* The administrators that the deployment keeps.
Keeps(u) == roleOf[u] = Admin /\ (mode # "monolith" => active[u] = TRUE)

\* Somebody can ask for something that only holders of a token may ask for.
Asked == tokens # {} \/ \E r \in Requests : call[r].actor # None

RemainsInv ==
    ~raced => /\ (\E u \in Users : Exists(u)) => \E u \in Users : Keeps(u)
              /\ Asked => \E u \in Users : Exists(u)

LEMMA RemainsMeans ==
    ASSUME AccountType, RemainsInv
    PROVE  AdminRemains
<1> SUFFICES ASSUME ~raced, Accounts # {}
             PROVE  IF mode = "monolith" THEN Admins # {} ELSE ActiveAdmins # {}
  BY DEF AdminRemains
<1>1. \E u \in Users : Exists(u)
  BY DEF Accounts
<1>2. PICK u \in Users : Keeps(u)
  BY <1>1 DEF RemainsInv
<1>3. u \in Admins
  BY <1>2 DEF Keeps, Admins
<1>4. mode # "monolith" => u \in ActiveAdmins
  BY <1>2, <1>3 DEF Keeps, ActiveAdmins
<1> QED
  BY <1>3, <1>4

LEMMA AnotherOne ==
    ASSUME NEW S, S # {}, Cardinality(S) # 1, NEW u
    PROVE  \E v \in S : v # u
<1> SUFFICES ASSUME \A v \in S : v = u PROVE FALSE
  OBVIOUS
<1>1. S = {u}
  OBVIOUS
<1> QED
  BY <1>1, FS_Singleton

\* A write that relies on a count that is still true leaves an administrator.
LEMMA WriteKeeps ==
    ASSUME AccountType, NEW c, IsCall(c), Write(c), mode' = mode,
           c.op \in AdminOps => \E u \in Users : Keeps(u),
           c.op = "delete" => mode = "monolith",
           c.op \in {"disable", "delete"} => Counted(c) # 1
    PROVE  \E u \in Users : Keeps(u)'
<1>0. c.user \in Users
  BY DEF Write, IsCall, UserOps, AdminOps
<1>1. CASE c.op = "bootstrap" /\ Insert(c.user, Admin)
  <2>1. roleOf'[c.user] = Admin /\ active'[c.user] = TRUE
    BY <1>0, <1>1 DEF Insert, AccountType
  <2> QED
    BY <1>0, <2>1 DEF Keeps
<1>2. CASE c.op = "create" /\ Insert(c.user, c.role)
  <2>1. PICK u \in Users : Keeps(u)
    BY <1>2 DEF AdminOps
  <2>2. u # c.user
    BY <1>2, <2>1, UsersAssumption DEF Keeps, Insert, Exists, Roles
  <2>3. roleOf'[u] = roleOf[u] /\ active'[u] = active[u]
    BY <1>2, <2>2 DEF Insert, AccountType
  <2> QED
    BY <2>1, <2>3 DEF Keeps
<1>3. CASE c.op = "enable" /\ SetActive(c.user, c.op = "enable")
  <2>1. PICK u \in Users : Keeps(u)
    BY <1>3 DEF AdminOps
  <2>2. roleOf' = roleOf
    BY <1>3 DEF SetActive
  <2>3. active[u] = TRUE => active'[u] = TRUE
    <3>1. active' = [active EXCEPT ![c.user] = IF Exists(c.user) THEN TRUE ELSE @]
      BY <1>3 DEF SetActive
    <3> QED
      BY <3>1 DEF AccountType
  <2> QED
    BY <2>1, <2>2, <2>3 DEF Keeps
<1>4. CASE c.op = "disable" /\ SetActive(c.user, c.op = "enable")
  <2>0. roleOf' = roleOf
    BY <1>4 DEF SetActive
  <2>1. PICK w \in Users : Keeps(w)
    BY <1>4 DEF AdminOps
  <2>2. CASE mode = "monolith"
    BY <2>0, <2>1, <2>2 DEF Keeps
  <2>3. CASE mode # "monolith"
    <3>1. w \in ActiveAdmins
      BY <2>1, <2>3 DEF Keeps, ActiveAdmins, Admins
    <3>2. PICK u \in ActiveAdmins : u # c.user
      <4>1. CASE roleOf[c.user] = Admin
        <5>1. Cardinality(ActiveAdmins) # 1
          BY <1>4, <4>1 DEF Counted
        <5> QED
          BY <3>1, <5>1, AnotherOne
      <4>2. CASE roleOf[c.user] # Admin
        BY <2>1, <3>1, <4>2 DEF Keeps
      <4> QED
        BY <4>1, <4>2
    <3>3. u \in Users /\ roleOf[u] = Admin /\ active[u]
      BY <3>2 DEF ActiveAdmins, Admins
    <3>4. active[u] = TRUE
      BY <3>3 DEF AccountType
    <3>5. active'[u] = active[u]
      BY <1>4, <3>2, <3>3 DEF SetActive, AccountType
    <3> QED
      BY <2>0, <3>3, <3>4, <3>5 DEF Keeps
  <2> QED
    BY <2>2, <2>3
<1>5. CASE c.op = "delete" /\ Delete(c.user)
  <2>1. PICK w \in Users : Keeps(w)
    BY <1>5 DEF AdminOps
  <2>2. w \in Admins
    BY <2>1 DEF Keeps, Admins
  <2>3. PICK u \in Admins : u # c.user
    <3>1. CASE roleOf[c.user] = Admin
      <4>1. Cardinality(Admins) # 1
        BY <1>5, <3>1 DEF Counted
      <4> QED
        BY <2>2, <4>1, AnotherOne
    <3>2. CASE roleOf[c.user] # Admin
      BY <2>1, <2>2, <3>2 DEF Keeps
    <3> QED
      BY <3>1, <3>2
  <2>4. u \in Users /\ roleOf[u] = Admin
    BY <2>3 DEF Admins
  <2>5. roleOf'[u] = roleOf[u]
    BY <1>5, <2>3, <2>4 DEF Delete, AccountType
  <2> QED
    BY <1>5, <2>4, <2>5 DEF Keeps
<1> QED
  BY <1>1, <1>2, <1>3, <1>4, <1>5 DEF Write

LEMMA WorkerCommitsRemains ==
    ASSUME RequestsInv, RemainsInv, NEW r \in Requests, WorkerCommits(r),
           call[r].op \in UserOps, ~raced'
    PROVE  \E u \in Users : Keeps(u)'
<1>0. /\ AccountType /\ RequestInv(r) /\ job[r] = "write" /\ Write(call[r]) /\ mode' = mode
      /\ ~raced /\ Counted(call[r]) = counted[r]
  BY DEF WorkerCommits, RequestsInv
<1>1. /\ IsCall(call[r])
      /\ call[r].op \in AdminOps => call[r].actor = Admin
      /\ call[r].op = "delete" => mode = "monolith"
      /\ call[r].op \in {"disable", "delete"} => Counted(call[r]) # 1
  BY <1>0 DEF RequestInv, WriteInv
<1>2. ASSUME call[r].op \in AdminOps PROVE \E u \in Users : Keeps(u)
  <2>1. call[r].actor # None
    BY <1>1, <1>2, UsersAssumption DEF Roles
  <2>2. Asked
    BY <2>1 DEF Asked
  <2> QED
    BY <1>0, <2>2 DEF RemainsInv
<1> QED
  BY <1>0, <1>1, <1>2, WriteKeeps

\* No step but a login makes a token, and a login is of an account that exists.
LEMMA TokensGrow ==
    ASSUME RequestsInv, [Next]_vars
    PROVE  tokens' \subseteq tokens \/ \E u \in Users : Exists(u)
<1>0. RequestType /\ AccountType
  BY DEF RequestsInv
<1>1. "timeout" \in Results \ Roles /\ "denied" \in Results \ Roles
      /\ "ok" \in Results \ Roles /\ "error" \in Results \ Roles
  BY DEF Results, Roles, Admin
<1>2. ASSUME NEW r \in Requests, NEW result \in Results \ Roles,
             Answer(r, result) \/ Deliver(r, result) \/ Reply(r, result)
      PROVE  tokens' \subseteq tokens
  <2>1. CASE Answer(r, result)
    BY <2>1 DEF Answer
  <2>2. tokens' \subseteq tokens \cup ({result} \cap Roles)
    BY <1>0, <1>2, <2>1, DeliverTypes, ReplyTypes
  <2> QED
    BY <2>2
<1>3. ASSUME NEW r \in Requests, Handler(r) \/ MonitorStep(r) \/ LoseWork(r)
      PROVE  tokens' \subseteq tokens
  <2>1. CASE Handler(r)
    BY <1>1, <1>2, <2>1 DEF Handler, Receive, GatewayTimeout, Forget
  <2>2. CASE MonitorStep(r)
    BY <1>1, <1>2, <2>2 DEF MonitorStep, Proxy, ProxyTimeout, LoseProxy, httpVars
  <2>3. CASE LoseWork(r)
    BY <2>3 DEF LoseWork, httpVars
  <2> QED
    BY <1>3, <2>1, <2>2, <2>3
<1>4. ASSUME NEW r \in Requests, Worker(r)
      PROVE  tokens' \subseteq tokens \/ \E u \in Users : Exists(u)
  <2>1. CASE WorkerReads(r)
    <3>1. CASE call[r].op = "login" /\ Checked(call[r], mode = "monolith")
      <4>1. IsCall(call[r])
        BY <2>1 DEF WorkerReads, RequestsInv, RequestInv, WriteInv
      <4>2. call[r].user \in Users
        BY <3>1, <4>1 DEF IsCall, UserOps
      <4> QED
        BY <3>1, <4>2 DEF Checked
    <3>2. CASE ~(call[r].op = "login" /\ Checked(call[r], mode = "monolith"))
      <4>1. Reply(r, "ok") \/ Reply(r, "error") \/ UNCHANGED httpVars
        BY <2>1, <3>2 DEF WorkerReads, UserOps
      <4> QED
        BY <1>1, <1>2, <4>1 DEF httpVars
    <3> QED
      BY <3>1, <3>2
  <2>2. CASE WorkerCommits(r)
    BY <2>2 DEF WorkerCommits, httpVars
  <2>3. CASE WorkerRollsBack(r) \/ Recorded(r)
    <3>1. Reply(r, "ok") \/ Reply(r, "error")
      BY <2>3 DEF WorkerRollsBack, Recorded
    <3> QED
      BY <1>1, <1>2, <3>1
  <2> QED
    BY <1>4, <2>1, <2>2, <2>3 DEF Worker
<1>5. ASSUME NEW role \in tokens, Expire(role) PROVE tokens' \subseteq tokens
  BY <1>5 DEF Expire
<1>6. ASSUME Manage PROVE tokens' \subseteq tokens
  BY <1>6 DEF Manage, httpVars
<1>7. CASE UNCHANGED vars
  BY <1>7 DEF vars, httpVars
<1> QED
  BY <1>3, <1>4, <1>5, <1>6, <1>7 DEF Next

\* The role a request acts in is that of a token there was.
LEMMA ActorsGrow ==
    ASSUME RequestsInv, [Next]_vars, NEW s \in Requests, call'[s] # call[s]
    PROVE  call'[s].actor \in tokens \cup {None}
<1>0. RequestType /\ AccountType
  BY DEF RequestsInv
<1>1. "timeout" \in Results \cup Roles /\ "denied" \in Results \cup Roles
      /\ "ok" \in Results \cup Roles /\ "error" \in Results \cup Roles
  BY DEF Results
<1>2. ASSUME NEW r \in Requests,
             \E result : Answer(r, result) \/ Deliver(r, result) \/ Reply(r, result)
      PROVE  call' = call
  BY <1>2 DEF Answer, Deliver, Reply, httpVars
<1>3. ASSUME NEW r \in Requests, Receive(r) PROVE call'[s].actor \in tokens \cup {None}
  BY <1>0, <1>3 DEF Receive, Refuse, PassOn, RequestType
<1>4. ASSUME NEW r \in Requests, Forget(r) PROVE call'[s].actor \in tokens \cup {None}
  BY <1>0, <1>4 DEF Forget, RequestType, NoCall
<1>5. ASSUME NEW r \in Requests, GatewayTimeout(r) PROVE FALSE
  BY <1>2, <1>5 DEF GatewayTimeout
<1>6. ASSUME NEW r \in Requests, MonitorStep(r) \/ LoseWork(r) PROVE FALSE
  BY <1>2, <1>6 DEF MonitorStep, Proxy, ProxyTimeout, LoseProxy, LoseWork, httpVars
<1>7. ASSUME NEW r \in Requests, Worker(r) PROVE FALSE
  <2>1. (\E result : Reply(r, result)) \/ UNCHANGED httpVars
    BY <1>7 DEF Worker, WorkerReads, WorkerCommits, WorkerRollsBack, Recorded
  <2> QED
    BY <1>2, <2>1 DEF httpVars
<1>8. ASSUME NEW role \in tokens, Expire(role) PROVE FALSE
  BY <1>8 DEF Expire
<1>9. ASSUME Manage PROVE FALSE
  BY <1>9 DEF Manage, httpVars
<1>10. CASE UNCHANGED vars
  BY <1>10 DEF vars, httpVars
<1> QED
  BY <1>3, <1>4, <1>5, <1>6, <1>7, <1>8, <1>9, <1>10 DEF Next, Handler

LEMMA AskedGrows ==
    ASSUME RequestsInv, [Next]_vars, Asked', ~Asked
    PROVE  \E u \in Users : Exists(u)
<1>1. tokens = {} /\ \A r \in Requests : call[r].actor = None
  BY DEF Asked
<1>2. \A r \in Requests : call'[r].actor = None
  BY <1>1, ActorsGrow
<1>3. tokens' # {}
  BY <1>2 DEF Asked
<1> QED
  BY <1>1, <1>3, TokensGrow

LEMMA RemainsNext == RequestsInv /\ RemainsInv /\ [Next]_vars => RemainsInv'
<1> SUFFICES ASSUME RequestsInv, RemainsInv, [Next]_vars, ~raced'
             PROVE  /\ (\E u \in Users : Exists(u)') => \E u \in Users : Keeps(u)'
                    /\ Asked' => \E u \in Users : Exists(u)'
  BY DEF RemainsInv
<1>0. ~raced /\ mode' = mode
  BY RacedGrows
<1>1. CASE Written
  <2>1. \E u \in Users : Keeps(u)'
    BY <1>1, WorkerCommitsRemains DEF Written
  <2>2. \E u \in Users : Exists(u)'
    BY <2>1, UsersAssumption DEF Keeps, Exists, Roles
  <2> QED
    BY <2>1, <2>2
<1>2. CASE ~Written
  <2>1. roleOf' = roleOf /\ active' = active
    BY <1>2, AccountsChange
  <2>2. Asked' => \E u \in Users : Exists(u)
    BY <1>0, AskedGrows DEF RemainsInv
  <2> QED
    BY <1>0, <2>1, <2>2 DEF RemainsInv, Keeps, Exists
<1> QED
  BY <1>1, <1>2

\* As long as no write has relied on a count that was no longer true, the accounts
\* keep an administrator, an active one where accounts cannot be deleted: once there
\* are accounts only an administrator changes them, and the count that forbids the
\* last one to be blocked or deleted is then the count of the moment of the commit.
THEOREM AnAdministratorRemains == Spec => []AdminRemains
<1>1. Init => RemainsInv
  BY DEF Init, UsersInit, RemainsInv, Asked, Exists, NoCall
<1>2. RequestsInv /\ RemainsInv => AdminRemains
  BY RemainsMeans DEF RequestsInv
<1> QED
  BY <1>1, <1>2, RequestsAlways, RemainsNext, PTL DEF Spec
=============================================================================
