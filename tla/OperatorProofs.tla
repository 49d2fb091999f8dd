----------------------------- MODULE OperatorProofs -----------------------------
(***************************************************************************)
(* Theorems about the parts of MCOperator: the fleet manager, the client   *)
(* of the developers, the security monitor and the flight registration,    *)
(* for any number of threads, units, missions, handlers and requests.      *)
(*                                                                         *)
(* Exclusive reservation does not follow from the check in reserve_uas     *)
(* alone: add_uas stores over an id without looking again.  The theorems   *)
(* about it therefore assume that purchases do not overlap one another     *)
(* (OneBuyer); everything else overlaps everything.                        *)
(***************************************************************************)
EXTENDS MCOperator, WellFoundedInduction, FiniteSetTheorems, TLAPS

\* Where a handler may be with each kind of request, and what it carries.
RequestInv ==
    \A t \in Threads :
        /\ pc[t] \in {"authorize", "expiry"} => arg[t].op \in {"reserve", "release"}
        /\ pc[t] \in {"reserve", "cache"} => arg[t].op = "reserve"
        /\ arg[t].op = "reserve" => arg[t].who \in Missions

\* A handler that has seen its unit in the core finds it there again.
PresentInv ==
    \A t \in Threads :
        pc[t] \in {"expiry", "reserve", "cache", "release", "free", "fields"}
            => status[arg[t].uas] # "absent"

\* With one buyer at a time, a handler about to store a bought unit stores it
\* under an id that is not in use.
BuyerInv ==
    \A t \in Threads :
        /\ pc[t] \in {"add", "store", "extend"} => arg[t].op = "purchase"
        /\ OneBuyer /\ pc[t] = "store" => status[arg[t].uas] = "absent"
        /\ OneBuyer /\ arg[t].op = "purchase"
             => \A s \in Threads \ {t} : arg[s].op # "purchase"

\* A unit that some mission holds cannot be reserved.
HeldInv == \A u \in Ids : grants[u] # {} => status[u] \notin {"available", "absent"}

IInv == TypeOK /\ RequestInv /\ PresentInv /\ BuyerInv /\ (OneBuyer => HeldInv /\ OneHolder)

-----------------------------------------------------------------------------
\* Counting one more entry of _purchase_history.
LEMMA CountStep ==
  ASSUME NEW f \in [Ids -> Nat], NEW u \in Ids
  PROVE  [f EXCEPT ![u] = @ + 1] \in [Ids -> Nat]
  OBVIOUS

\* Every step keeps the variables in their types.
LEMMA TypeStep == ASSUME TypeOK, RequestInv, [Next]_vars PROVE TypeOK'
  <1> USE DEF TypeOK, Locations, core, service, hindsight
  <1>0. /\ NoRequest \in Requests
        /\ Ids \subseteq 0 .. MaxUAS
    BY BoundsAssumption DEF NoRequest, Requests, Ids
  <1>1. ASSUME NEW t \in Threads, NEW where \in Locations \ {"idle"},
               NEW req \in Requests, req.uas \in Ids, Begin(t, where, req)
        PROVE  TypeOK'
    BY <1>1 DEF Begin
  <1>2. ASSUME NEW t \in Threads, Request(t) PROVE TypeOK'
    <2>1. ASSUME NEW u \in Ids, NEW m \in Missions, Reserve(t, u, m) PROVE TypeOK'
      <3>1. [op |-> "reserve", uas |-> u, who |-> m] \in Requests
        BY <1>0 DEF Requests
      <3> QED BY <1>1, <2>1, <3>1 DEF Reserve
    <2>2. ASSUME NEW u \in Ids, NEW s \in Senders, Release(t, u, s) PROVE TypeOK'
      <3>1. [op |-> "release", uas |-> u, who |-> s] \in Requests
        BY <1>0 DEF Requests
      <3> QED BY <1>1, <2>2, <3>1 DEF Release
    <2>3. ASSUME NEW u \in Ids, NEW upd \in UpdateRequests, Update(t, u, upd) PROVE TypeOK'
      <3>1. [op |-> "update", uas |-> u, who |-> upd] \in Requests
        BY <1>0 DEF Requests
      <3> QED BY <1>1, <2>3, <3>1 DEF Update
    <2>4. CASE Purchase(t)
      <3>1. PICK u \in Ids : arg' = [arg EXCEPT ![t] = [op |-> "purchase", uas |-> u, who |-> None]]
        BY <2>4 DEF Purchase
      <3>2. [op |-> "purchase", uas |-> u, who |-> None] \in Requests
        BY <1>0 DEF Requests
      <3> QED BY <2>4, <3>1, <3>2, BoundsAssumption DEF Purchase
    <2> QED BY <1>2, <2>1, <2>2, <2>3, <2>4 DEF Request
  <1>3. ASSUME NEW t \in Threads, Step(t) PROVE TypeOK'
    <2> USE <1>0
    <2>0. pc[t] # "idle" /\ arg[t].uas \in Ids
      BY <1>3 DEF Step, CheckCertificate, CheckExpiry, CommitReserve, ReserveIf, CacheReservation,
           CheckReleaser, CommitRelease, ReleaseUas, UpdateStatus, UpdateFields, AddCheck, AddStore, AddExtended
    <2>a. ASSUME NEW u, NEW points, Withdraw(u, points) PROVE withdrawn' \in SUBSET Threads
      BY <2>a DEF Withdraw, Reserving
    <2>1. ASSUME NEW where \in Locations, Goto(t, where)
          PROVE  pc' \in [Threads -> Locations] /\ arg' \in [Threads -> Requests]
                 /\ \A s \in Threads : pc'[s] # "idle" => arg'[s].uas \in Ids
      BY <2>0, <2>1 DEF Goto
    <2>2. ASSUME Answer(t)
          PROVE  pc' \in [Threads -> Locations] /\ arg' \in [Threads -> Requests]
                 /\ \A s \in Threads : pc'[s] # "idle" => arg'[s].uas \in Ids
      BY <2>2 DEF Answer
    <2>3. CASE CheckCertificate(t)
      BY <2>1, <2>2, <2>3 DEF CheckCertificate
    <2>4. CASE CheckExpiry(t)
      <3>1. arg[t].op \in Locations
        BY <2>4 DEF CheckExpiry, RequestInv
      <3> QED BY <2>1, <2>2, <2>4, <3>1 DEF CheckExpiry
    <2>5. CASE CommitReserve(t)
      <3>1. arg[t].who \in Missions
        BY <2>5 DEF CommitReserve, ReserveIf, RequestInv
      <3>2. overtaken' \in SUBSET Ids /\ withdrawn' \in SUBSET Threads
        BY <2>0, <2>5 DEF CommitReserve, ReserveIf
      <3> QED BY <2>0, <2>1, <2>2, <2>5, <3>1, <3>2 DEF CommitReserve, ReserveIf, UASStatus
    <2>6. CASE CacheReservation(t)
      <3>1. arg[t].who \in Missions
        BY <2>6 DEF CacheReservation, RequestInv
      <3> QED BY <2>0, <2>2, <2>6, <3>1 DEF CacheReservation
    <2>7. CASE CheckReleaser(t)
      BY <2>1, <2>2, <2>7 DEF CheckReleaser
    <2>8. CASE CommitRelease(t)
      <3>1. overtaken' \in SUBSET Ids
        BY <2>0, <2>8 DEF CommitRelease, ReleaseUas
      <3> QED BY <2>0, <2>2, <2>8, <3>1 DEF CommitRelease, ReleaseUas, UASStatus
    <2>9. CASE UpdateStatus(t)
      BY <2>0, <2>1, <2>2, <2>9 DEF UpdateStatus
    <2>10. CASE UpdateFields(t)
      <3> DEFINE u == arg[t].uas
                 upd == arg[t].who
                 bat == IF upd.battery = "keep" THEN charged[u] ELSE upd.battery = "ok"
                 val == (certValid[u] /\ upd.cert # "revoked") \/ upd.cert = "valid"
                 exp == expired[u] /\ upd.cert # "renewed"
      <3>1. /\ UNCHANGED <<status, reservedBy, service, grants, overtaken>> /\ Answer(t)
            /\ UNCHANGED withdrawn \/ Withdraw(u, {"expiry", "reserve"})
        BY <2>10, Zenon DEF UpdateFields
      <3>2. \/ UNCHANGED <<certValid, expired, charged>>
            \/ /\ charged' = [charged EXCEPT ![u] = bat]
               /\ certValid' = [certValid EXCEPT ![u] = val]
               /\ expired' = [expired EXCEPT ![u] = exp]
        BY <2>0, <2>10, Zenon DEF UpdateFields
      <3>3. bat \in BOOLEAN /\ val \in BOOLEAN /\ exp \in BOOLEAN
        BY <2>0, Zenon
      <3> HIDE DEF bat, val, exp
      <3>4. /\ charged' \in [Ids -> BOOLEAN]
            /\ certValid' \in [Ids -> BOOLEAN]
            /\ expired' \in [Ids -> BOOLEAN]
        BY <2>0, <3>2, <3>3
      <3> QED BY <2>2, <2>a, <3>1, <3>4
    <2>11. CASE AddCheck(t)
      BY <2>1, <2>2, <2>11 DEF AddCheck
    <2>12. CASE AddStore(t)
      <3>1. PICK cert \in BOOLEAN : certValid' = [certValid EXCEPT ![arg[t].uas] = cert]
        BY <2>12 DEF AddStore
      <3>2. certValid' \in [Ids -> BOOLEAN]
        BY <2>0, <3>1
      <3>3. UNCHANGED withdrawn \/ Withdraw(arg[t].uas, {"expiry", "reserve"})
        BY <2>12, Zenon DEF AddStore
      <3>4. overtaken' \in SUBSET Ids
        BY <2>0, <2>12 DEF AddStore
      <3> QED BY <2>0, <2>1, <2>a, <2>12, <3>2, <3>3, <3>4 DEF AddStore, UASStatus
    <2>13. CASE AddExtended(t)
      <3>1. extended' \in SUBSET Ids
        BY <2>0, <2>13 DEF AddExtended
      <3>2. bought' = [bought EXCEPT ![arg[t].uas] = @ + 1]
        BY <2>13 DEF AddExtended
      <3>3. bought' \in [Ids -> Nat]
        BY <2>0, <3>2, CountStep
      <3> QED BY <2>2, <2>13, <3>1, <3>3 DEF AddExtended
    <2> QED BY <1>3, <2>3, <2>4, <2>5, <2>6, <2>7, <2>8, <2>9, <2>10, <2>11, <2>12, <2>13 DEF Step
  <1>4. ASSUME NEW u \in Ids, CertificateExpires(u) PROVE TypeOK'
    BY <1>4 DEF CertificateExpires, Withdraw, Reserving
  <1>5. CASE UNCHANGED vars
    BY <1>5 DEF vars
  <1> QED BY <1>2, <1>3, <1>4, <1>5 DEF Next

-----------------------------------------------------------------------------
\* Every step keeps requests and program counters in agreement.
LEMMA RequestStep == ASSUME IInv, [Next]_vars PROVE RequestInv'
  <1> USE DEF IInv, TypeOK, RequestInv
  <1>1. ASSUME NEW t \in Threads, Request(t) PROVE RequestInv'
    BY <1>1, NamesAssumption DEF Request, Reserve, Release, Update, Begin, Purchase
  <1>2. ASSUME NEW t \in Threads, NEW where, Goto(t, where),
               where \in {"reserve", "cache"} => arg[t].op = "reserve",
               where \notin {"authorize", "expiry"} \/ pc[t] = "authorize"
        PROVE  RequestInv'
    BY <1>2 DEF Goto
  <1>3. ASSUME NEW t \in Threads, Answer(t) PROVE RequestInv'
    BY <1>3 DEF Answer, NoRequest
  <1>4. ASSUME NEW t \in Threads, Step(t) PROVE RequestInv'
    <2>1. CASE CheckCertificate(t)
      BY <1>2, <1>3, <2>1 DEF CheckCertificate
    <2>2. CASE CheckExpiry(t)
      BY <1>2, <1>3, <2>2 DEF CheckExpiry
    <2>3. CASE CommitReserve(t)
      BY <1>2, <1>3, <2>3 DEF CommitReserve, ReserveIf
    <2>4. CASE CacheReservation(t) \/ CommitRelease(t) \/ UpdateFields(t) \/ AddExtended(t)
      BY <1>3, <2>4 DEF CacheReservation, CommitRelease, ReleaseUas, UpdateFields, AddExtended
    <2>5. CASE CheckReleaser(t)
      BY <1>2, <1>3, <2>5 DEF CheckReleaser
    <2>6. CASE UpdateStatus(t)
      BY <1>2, <1>3, <2>6 DEF UpdateStatus
    <2>7. CASE AddCheck(t)
      BY <1>2, <1>3, <2>7 DEF AddCheck
    <2>8. CASE AddStore(t)
      BY <1>2, <2>8 DEF AddStore
    <2> QED BY <1>4, <2>1, <2>2, <2>3, <2>4, <2>5, <2>6, <2>7, <2>8 DEF Step
  <1>5. ASSUME NEW u \in Ids, CertificateExpires(u) PROVE RequestInv'
    BY <1>5 DEF CertificateExpires
  <1>6. CASE UNCHANGED vars
    BY <1>6 DEF vars
  <1> QED BY <1>1, <1>4, <1>5, <1>6 DEF Next

\* No step takes a unit out of the core under a handler that has seen it there.
LEMMA PresentStep == ASSUME IInv, [Next]_vars PROVE PresentInv'
  <1> USE DEF IInv, TypeOK, PresentInv, core
  <1>1. ASSUME NEW t \in Threads, Request(t) PROVE PresentInv'
    BY <1>1 DEF Request, Reserve, Release, Update, Begin, Purchase
  <1>2. ASSUME NEW t \in Threads, Step(t) PROVE PresentInv'
    <2>0. pc[t] # "idle" /\ arg[t].uas \in Ids
      BY <1>2 DEF Step, CheckCertificate, CheckExpiry, CommitReserve, ReserveIf, CacheReservation,
           CheckReleaser, CommitRelease, ReleaseUas, UpdateStatus, UpdateFields, AddCheck, AddStore,
           AddExtended
    <2>1. /\ \A u \in Ids : status[u] # "absent" => status'[u] # "absent"
          /\ \A s \in Threads \ {t} : pc'[s] = pc[s] /\ arg'[s] = arg[s]
      BY <1>2, <2>0 DEF Step, CheckCertificate, CheckExpiry, CommitReserve, ReserveIf,
           CacheReservation, CheckReleaser, CommitRelease, ReleaseUas, UpdateStatus, UpdateFields,
           AddCheck, AddStore, AddExtended, Goto, Answer, UASStatus
    <2>2. \/ pc'[t] \in {"idle", "store", "extend"}
          \/ arg'[t] = arg[t] /\ status[arg[t].uas] # "absent"
      BY <1>2, <2>0 DEF Step, CheckCertificate, CheckExpiry, CommitReserve, ReserveIf,
           CacheReservation, CheckReleaser, CommitRelease, ReleaseUas, UpdateStatus, UpdateFields,
           AddCheck, AddStore, AddExtended, Goto, Answer
    <2> QED BY <2>0, <2>1, <2>2
  <1>3. ASSUME NEW u \in Ids, CertificateExpires(u) PROVE PresentInv'
    BY <1>3 DEF CertificateExpires
  <1>4. CASE UNCHANGED vars
    BY <1>4 DEF vars
  <1> QED BY <1>1, <1>2, <1>3, <1>4 DEF Next

\* No step lets a purchase overwrite a unit when they do not overlap.
LEMMA BuyerStep == ASSUME IInv, [Next]_vars PROVE BuyerInv'
  <1> USE DEF IInv, TypeOK, BuyerInv, core
  <1>1. ASSUME NEW t \in Threads, Request(t) PROVE BuyerInv'
    <2>1. CASE Purchase(t)
      <3>1. /\ status' = status
            /\ pc'[t] = "add" /\ arg'[t].op = "purchase"
            /\ OneBuyer => \A s \in Threads : arg[s].op # "purchase"
            /\ \A s \in Threads \ {t} : pc'[s] = pc[s] /\ arg'[s] = arg[s]
        BY <2>1 DEF Purchase
      <3> QED BY <3>1
    <2>2. ASSUME NEW where \in {"authorize", "update"}, NEW req, req.op # "purchase",
                 Begin(t, where, req)
          PROVE  BuyerInv'
      BY <2>2 DEF Begin
    <2> QED BY <1>1, <2>1, <2>2 DEF Request, Reserve, Release, Update
  <1>2. ASSUME NEW t \in Threads, Step(t) PROVE BuyerInv'
    <2>1. /\ pc[t] # "idle" /\ arg[t].uas \in Ids
          /\ arg'[t] = arg[t] \/ (arg'[t].op = "none" /\ pc'[t] = "idle")
          /\ \A s \in Threads \ {t} : pc'[s] = pc[s] /\ arg'[s] = arg[s]
      BY <1>2 DEF Step, CheckCertificate, CheckExpiry, CommitReserve, ReserveIf, CacheReservation,
           CheckReleaser, CommitRelease, ReleaseUas, UpdateStatus, UpdateFields, AddCheck, AddStore,
           AddExtended, Goto, Answer, NoRequest
    <2>2. CASE AddCheck(t)
      BY <2>1, <2>2 DEF AddCheck, Goto, Answer
    <2>3. CASE AddStore(t)
      <3>1. /\ pc[t] = "store" /\ pc'[t] = "extend"
            /\ arg[t].op = "purchase" /\ arg' = arg
        BY <2>3 DEF AddStore, Goto
      <3>2. OneBuyer => \A s \in Threads \ {t} : pc[s] # "store"
        BY <3>1
      <3> QED BY <2>1, <3>1, <3>2
    <2>4. CASE \/ CheckCertificate(t) \/ CheckExpiry(t) \/ CommitReserve(t) \/ CacheReservation(t)
               \/ CheckReleaser(t) \/ CommitRelease(t) \/ UpdateStatus(t) \/ UpdateFields(t)
               \/ AddExtended(t)
      <3>1. pc'[t] \notin {"add", "store", "extend"}
        BY <2>4 DEF CheckCertificate, CheckExpiry, CommitReserve, ReserveIf, CacheReservation,
             CheckReleaser, CommitRelease, ReleaseUas, UpdateStatus, UpdateFields, AddExtended,
             Goto, Answer, RequestInv
      <3>2. \A u \in Ids : status[u] = "absent" => status'[u] = "absent"
        BY <2>1, <2>4 DEF CheckCertificate, CheckExpiry, CommitReserve, ReserveIf, CacheReservation,
             CheckReleaser, CommitRelease, ReleaseUas, UpdateStatus, UpdateFields, AddExtended,
             PresentInv
      <3> QED BY <2>1, <3>1, <3>2
    <2> QED BY <1>2, <2>2, <2>3, <2>4 DEF Step
  <1>3. ASSUME NEW u \in Ids, CertificateExpires(u) PROVE BuyerInv'
    BY <1>3 DEF CertificateExpires
  <1>4. CASE UNCHANGED vars
    BY <1>4 DEF vars
  <1> QED BY <1>1, <1>2, <1>3, <1>4 DEF Next

\* Every step keeps a held unit out of reach of the other missions.
LEMMA HeldStep ==
  ASSUME OneBuyer, IInv, [Next]_vars
  PROVE  HeldInv' /\ OneHolder'
  <1> USE DEF IInv, TypeOK, HeldInv, OneHolder, core, service, hindsight
  <1>1. ASSUME UNCHANGED <<status, grants>> PROVE HeldInv' /\ OneHolder'
    BY <1>1
  <1>2. ASSUME NEW t \in Threads, Request(t) PROVE HeldInv' /\ OneHolder'
    BY <1>1, <1>2 DEF Request, Reserve, Release, Update, Begin, Purchase
  <1>3. ASSUME NEW t \in Threads, Step(t) PROVE HeldInv' /\ OneHolder'
    <2>0. ASSUME pc[t] # "idle" PROVE arg[t].uas \in Ids
      BY <2>0
    <2>1. CASE CommitReserve(t)
      BY <1>1, <2>0, <2>1 DEF CommitReserve, ReserveIf
    <2>2. CASE CommitRelease(t)
      BY <2>0, <2>2 DEF CommitRelease, ReleaseUas
    <2>3. CASE UpdateStatus(t)
      BY <1>1, <2>0, <2>3 DEF UpdateStatus, UASStatus
    <2>4. CASE AddStore(t)
      <3>1. arg[t].uas \in Ids /\ status[arg[t].uas] = "absent"
        BY <2>0, <2>4 DEF AddStore, BuyerInv
      <3>2. grants[arg[t].uas] = {}
        BY <3>1
      <3> QED BY <2>4, <3>1, <3>2 DEF AddStore
    <2>5. CASE \/ CheckCertificate(t) \/ CheckExpiry(t) \/ CacheReservation(t)
               \/ CheckReleaser(t) \/ UpdateFields(t) \/ AddCheck(t) \/ AddExtended(t)
      BY <1>1, <2>5 DEF CheckCertificate, CheckExpiry, CacheReservation, CheckReleaser,
           UpdateFields, AddCheck, AddExtended
    <2> QED BY <1>3, <2>1, <2>2, <2>3, <2>4, <2>5 DEF Step
  <1>4. ASSUME NEW u \in Ids, CertificateExpires(u) PROVE HeldInv' /\ OneHolder'
    BY <1>1, <1>4 DEF CertificateExpires
  <1>5. CASE UNCHANGED vars
    BY <1>1, <1>5 DEF vars
  <1> QED BY <1>2, <1>3, <1>4, <1>5 DEF Next

-----------------------------------------------------------------------------
\* The default fleet, or an empty one, is held by nobody.
LEMMA FleetInit == ASSUME Init PROVE IInv
  <1> SUFFICES ASSUME NEW fleet \in {{}, DefaultFleet},
                      status       = [u \in Ids |-> IF u \in fleet THEN "available" ELSE "absent"],
                      certValid    = [u \in Ids |-> TRUE],
                      expired      = [u \in Ids |-> FALSE],
                      charged      = [u \in Ids |-> TRUE],
                      reservedBy   = [u \in Ids |-> None],
                      extended     = fleet,
                      reservations = [u \in Ids |-> None],
                      bought       = [u \in Ids |-> 0],
                      units        = 0,
                      grants       = [u \in Ids |-> {}],
                      withdrawn    = {},
                      overtaken    = {},
                      pc           = [t \in Threads |-> "idle"],
                      arg          = [t \in Threads |-> NoRequest]
               PROVE  IInv
    BY DEF Init
  <1>1. NoRequest \in Requests
    BY BoundsAssumption DEF NoRequest, Requests
  <1>2. /\ certValid \in [Ids -> BOOLEAN]
        /\ expired \in [Ids -> BOOLEAN]
        /\ charged \in [Ids -> BOOLEAN]
    <2>1. certValid \in [Ids -> BOOLEAN]
      OBVIOUS
    <2>2. expired \in [Ids -> BOOLEAN]
      OBVIOUS
    <2>3. charged \in [Ids -> BOOLEAN]
      OBVIOUS
    <2> QED BY <2>1, <2>2, <2>3
  <1>3. TypeOK
    BY <1>1, <1>2, FleetAssumption DEF TypeOK, UASStatus, Locations
  <1> QED BY <1>3 DEF IInv, RequestInv, PresentInv, BuyerInv, HeldInv, OneHolder, NoRequest

\* The inductive invariant of the fleet manager.
THEOREM Invariance == Spec => []IInv
  <1>1. Init => IInv
    BY FleetInit
  <1>2. IInv /\ [Next]_vars => IInv'
    BY TypeStep, RequestStep, PresentStep, BuyerStep, HeldStep DEF IInv
  <1> QED BY <1>1, <1>2, PTL DEF Spec

\* No two missions hold one unit, whatever the number of threads and the
\* interleaving of requests, as long as purchases do not overlap one another.
THEOREM ExclusiveReservation == ASSUME OneBuyer PROVE Spec => []OneHolder
  <1>1. IInv => OneHolder
    BY DEF IInv
  <1> QED BY <1>1, Invariance, PTL

\* Then the search offers only units that nobody holds.
THEOREM OffersAreFree == ASSUME OneBuyer PROVE Spec => []OfferedIsFree
  <1>1. IInv => OfferedIsFree
    BY DEF IInv, HeldInv, OfferedIsFree, Suitable
  <1> QED BY <1>1, Invariance, PTL

-----------------------------------------------------------------------------
(* The cache of the service and the certificate, in any interleaving.        *)

\* A unit that is not in the core is reserved for nobody.  Of the others that
\* were not overtaken, at most one handler has an entry of _reservations to
\* write, which is for the holder in the core; without one the two agree.
CacheInv ==
    /\ \A u \in Ids : status[u] = "absent" => reservedBy[u] = None /\ reservations[u] = None
    /\ \A u \in Ids \ overtaken :
         /\ \A t \in Reserving(u, {"cache"}) :
               /\ reservedBy[u] = arg[t].who
               /\ \A s \in Reserving(u, {"cache"}) : s = t
         /\ Reserving(u, {"cache"}) = {} => reservations[u] = reservedBy[u]

\* What a handler has seen of the certificate still holds, or was withdrawn.
CertInv ==
    \A t \in Threads \ withdrawn :
        /\ pc[t] \in {"expiry", "reserve"} /\ arg[t].op = "reserve"
             => certValid[arg[t].uas] = TRUE
        /\ pc[t] = "reserve" => expired[arg[t].uas] = FALSE

\* Every step keeps the cache behind the core by the handlers that are to write it.
LEMMA CacheStep == ASSUME IInv, CacheInv, [Next]_vars PROVE CacheInv'
  <1> USE DEF CacheInv, Reserving
  <1>0. /\ reservedBy \in [Ids -> Missions \cup {None}]
        /\ reservations \in [Ids -> Missions \cup {None}]
        /\ status \in [Ids -> UASStatus \cup {"absent"}]
        /\ overtaken \in SUBSET Ids
        /\ pc \in [Threads -> Locations] /\ arg \in [Threads -> Requests]
        /\ \A t \in Threads : pc[t] # "idle" => arg[t].uas \in Ids
        /\ \A t \in Threads : pc[t] = "cache" => arg[t].op = "reserve"
    BY DEF IInv, TypeOK, RequestInv
  <1>1. ASSUME UNCHANGED <<status, reservedBy, reservations, overtaken>>, NEW t \in Threads,
               pc[t] # "cache", pc'[t] # "cache",
               \A s \in Threads \ {t} : pc'[s] = pc[s] /\ arg'[s] = arg[s]
        PROVE  CacheInv'
    <2>1. \A u \in Ids : Reserving(u, {"cache"})' = Reserving(u, {"cache"})
      BY <1>1
    <2>2. \A u \in Ids : \A s \in Reserving(u, {"cache"}) : arg'[s] = arg[s]
      BY <1>1
    <2> QED BY <1>1, <2>1, <2>2 DEF CacheInv
  <1>2. ASSUME NEW t \in Threads, Request(t) PROVE CacheInv'
    <2>1. /\ UNCHANGED <<status, reservedBy, reservations, overtaken>>
          /\ pc[t] = "idle" /\ pc'[t] # "cache"
          /\ \A s \in Threads \ {t} : pc'[s] = pc[s] /\ arg'[s] = arg[s]
      BY <1>0, <1>2 DEF Request, Reserve, Release, Update, Begin, Purchase, Idle, core, service, hindsight
    <2> QED BY <1>1, <2>1
  <1>3. ASSUME NEW t \in Threads, Step(t) PROVE CacheInv'
    <2>a. PICK u : u = arg[t].uas
      OBVIOUS
    <2> USE <2>a
    <2>0. /\ pc[t] # "idle" /\ u \in Ids
          /\ \A s \in Threads \ {t} : pc'[s] = pc[s] /\ arg'[s] = arg[s]
      BY SMTT(30), <1>0, <1>3 DEF Step, CheckCertificate, CheckExpiry, CommitReserve, ReserveIf,
           CacheReservation, CheckReleaser, CommitRelease, ReleaseUas, UpdateStatus, UpdateFields,
           AddCheck, AddStore, AddExtended, Goto, Answer
    <2>1. CASE CommitReserve(t)
      <3>1. CASE status[u] = "available"
        <4>1. /\ status' = [status EXCEPT ![u] = "reserved"]
              /\ reservedBy' = [reservedBy EXCEPT ![u] = arg[t].who]
              /\ pc'[t] = "cache" /\ arg' = arg /\ reservations' = reservations
              /\ pc[t] = "reserve"
              /\ overtaken' = IF Reserving(u, {"cache"}) = {} THEN overtaken ELSE overtaken \cup {u}
          BY <1>0, <2>1, <3>1 DEF CommitReserve, ReserveIf, Goto, service
        <4>2. \A v \in Ids \ {u} : Reserving(v, {"cache"})' = Reserving(v, {"cache"})
          BY <2>0, <4>1
        <4>3. CASE Reserving(u, {"cache"}) # {}
          BY <1>0, <2>0, <4>1, <4>2, <4>3
        <4>4. CASE Reserving(u, {"cache"}) = {}
          <5>1. Reserving(u, {"cache"})' = {t}
            BY <1>0, <2>0, <4>1, <4>4 DEF IInv, RequestInv
          <5>2. overtaken' = overtaken
            BY <4>1, <4>4
          <5>3. status'[u] = "reserved" /\ reservedBy'[u] = arg[t].who
            BY <1>0, <2>0, <4>1
          <5>4. \A v \in Ids \ {u} :
                  /\ status'[v] = status[v] /\ reservedBy'[v] = reservedBy[v]
                  /\ reservations'[v] = reservations[v]
            BY <1>0, <2>0, <4>1
          <5> HIDE DEF Reserving, CacheInv
          <5>5. ASSUME NEW v \in Ids \ {u}, v \notin overtaken'
                PROVE  /\ \A r \in Reserving(v, {"cache"})' :
                             /\ reservedBy'[v] = arg'[r].who
                             /\ \A s \in Reserving(v, {"cache"})' : s = r
                       /\ Reserving(v, {"cache"})' = {} => reservations'[v] = reservedBy'[v]
            BY <4>1, <4>2, <5>2, <5>4, <5>5 DEF CacheInv
          <5>6. \A v \in Ids : status'[v] = "absent" => reservedBy'[v] = None /\ reservations'[v] = None
            BY <5>3, <5>4 DEF CacheInv
          <5>7. /\ \A r \in Reserving(u, {"cache"})' :
                      /\ reservedBy'[u] = arg'[r].who
                      /\ \A s \in Reserving(u, {"cache"})' : s = r
                /\ Reserving(u, {"cache"})' # {}
            BY <4>1, <5>1, <5>3
          <5>8. ASSUME NEW v \in Ids, v \notin overtaken'
                PROVE  /\ \A r \in Reserving(v, {"cache"})' :
                             /\ reservedBy'[v] = arg'[r].who
                             /\ \A s \in Reserving(v, {"cache"})' : s = r
                       /\ Reserving(v, {"cache"})' = {} => reservations'[v] = reservedBy'[v]
            <6>1. CASE v = u
              BY <5>7, <6>1
            <6>2. CASE v # u
              BY <5>5, <5>8, <6>2
            <6> QED BY <6>1, <6>2
          <5> QED BY <5>6, <5>8 DEF CacheInv
        <4> QED BY <4>3, <4>4
      <3>2. CASE status[u] # "available"
        <4>1. /\ UNCHANGED <<status, reservedBy, reservations, overtaken>>
              /\ pc[t] = "reserve" /\ pc'[t] = "idle"
          BY <1>0, <2>1, <3>2 DEF CommitReserve, ReserveIf, Answer, service
        <4> QED BY <1>1, <2>0, <4>1
      <3> QED BY <3>1, <3>2
    <2>2. CASE CacheReservation(t)
      <3>1. /\ reservations' = [reservations EXCEPT ![u] = arg[t].who]
            /\ pc[t] = "cache" /\ pc'[t] = "idle"
            /\ UNCHANGED <<status, reservedBy, overtaken>>
        BY <1>0, <2>2 DEF CacheReservation, Answer, core, hindsight
      <3>2. t \in Reserving(u, {"cache"}) /\ status[u] # "absent"
        BY <1>0, <3>1 DEF IInv, PresentInv
      <3>3. \A v \in Ids : Reserving(v, {"cache"})' = Reserving(v, {"cache"}) \ {t}
        BY <2>0, <3>1
      <3>4. \A v \in Ids \ {u} : t \notin Reserving(v, {"cache"})
        OBVIOUS
      <3>5. \A v \in Ids : \A s \in Reserving(v, {"cache"})' : arg'[s] = arg[s]
        BY <2>0, <3>1
      <3>6. u \notin overtaken => Reserving(u, {"cache"})' = {} /\ reservedBy[u] = arg[t].who
        BY <2>0, <3>2, <3>3
      <3>7. /\ reservations'[u] = arg[t].who
            /\ \A v \in Ids \ {u} : reservations'[v] = reservations[v]
        BY <1>0, <2>0, <3>1
      <3>8. \A v \in Ids \ {u} : Reserving(v, {"cache"})' = Reserving(v, {"cache"})
        BY <3>3, <3>4
      <3> HIDE DEF Reserving, CacheInv
      <3>9. \A v \in Ids : status'[v] = "absent" => reservedBy'[v] = None /\ reservations'[v] = None
        BY <3>1, <3>2, <3>7 DEF CacheInv
      <3>10. ASSUME NEW v \in Ids \ {u}, v \notin overtaken'
             PROVE  /\ \A r \in Reserving(v, {"cache"})' :
                          /\ reservedBy'[v] = arg'[r].who
                          /\ \A s \in Reserving(v, {"cache"})' : s = r
                    /\ Reserving(v, {"cache"})' = {} => reservations'[v] = reservedBy'[v]
        <4>1. Reserving(v, {"cache"})' = Reserving(v, {"cache"}) /\ v \notin overtaken
          BY <3>1, <3>8, <3>10
        <4>2. \A r \in Reserving(v, {"cache"}) : arg'[r] = arg[r]
          BY <3>5, <4>1
        <4> QED BY <3>1, <3>7, <3>10, <4>1, <4>2 DEF CacheInv
      <3>11. u \notin overtaken'
               => Reserving(u, {"cache"})' = {} /\ reservations'[u] = reservedBy'[u]
        BY <3>1, <3>6, <3>7
      <3>12. ASSUME NEW v \in Ids, v \notin overtaken'
             PROVE  /\ \A r \in Reserving(v, {"cache"})' :
                          /\ reservedBy'[v] = arg'[r].who
                          /\ \A s \in Reserving(v, {"cache"})' : s = r
                    /\ Reserving(v, {"cache"})' = {} => reservations'[v] = reservedBy'[v]
        <4>1. CASE v = u
          BY <3>11, <3>12, <4>1
        <4>2. CASE v # u
          BY <3>10, <3>12, <4>2
        <4> QED BY <4>1, <4>2
      <3> QED BY <3>9, <3>12 DEF CacheInv
    <2>3. CASE CommitRelease(t)
      <3>1. /\ reservations' = [reservations EXCEPT ![u] = None]
            /\ reservedBy' = [reservedBy EXCEPT ![u] = None]
            /\ status' = [status EXCEPT ![u] = "available"]
            /\ pc[t] = "free" /\ pc'[t] = "idle"
            /\ overtaken' = IF Reserving(u, {"cache"}) = {} THEN overtaken \ {u} ELSE overtaken \cup {u}
        BY <1>0, <2>3 DEF CommitRelease, ReleaseUas, Answer
      <3>2. \A v \in Ids : Reserving(v, {"cache"})' = Reserving(v, {"cache"})
        BY <2>0, <3>1
      <3>3. \A v \in Ids : \A s \in Reserving(v, {"cache"}) : arg'[s] = arg[s]
        BY <2>0, <3>1
      <3> HIDE DEF Reserving
      <3> QED BY <1>0, <2>0, <3>1, <3>2, <3>3 DEF CacheInv
    <2>4. CASE AddStore(t)
      <3>1. /\ reservedBy' = [reservedBy EXCEPT ![u] = None]
            /\ status' = [status EXCEPT ![u] = "available"]
            /\ pc[t] = "store" /\ pc'[t] = "extend" /\ reservations' = reservations
            /\ overtaken' = IF status[u] = "absent" THEN overtaken ELSE overtaken \cup {u}
        BY <1>0, <2>4 DEF AddStore, Goto, service
      <3>2. \A v \in Ids : Reserving(v, {"cache"})' = Reserving(v, {"cache"})
        BY <2>0, <3>1
      <3>3. \A v \in Ids : \A s \in Reserving(v, {"cache"}) : arg'[s] = arg[s]
        BY <2>0, <3>1
      <3>4. status[u] = "absent" => Reserving(u, {"cache"}) = {}
        BY DEF IInv, PresentInv
      <3> HIDE DEF Reserving
      <3> QED BY <1>0, <2>0, <3>1, <3>2, <3>3, <3>4 DEF CacheInv
    <2>5. CASE UpdateStatus(t)
      <3>1. /\ pc[t] = "update" /\ pc'[t] \in {"idle", "fields"}
            /\ UNCHANGED <<reservedBy, reservations, overtaken>>
        BY <1>0, <2>5 DEF UpdateStatus, Goto, Answer, service
      <3>2. \A v \in Ids : status'[v] = "absent" => status[v] = "absent"
        BY <1>0, <2>0, <2>5 DEF UpdateStatus, UASStatus
      <3>3. \A v \in Ids : Reserving(v, {"cache"})' = Reserving(v, {"cache"})
        BY <2>0, <3>1
      <3>4. \A v \in Ids : \A s \in Reserving(v, {"cache"}) : arg'[s] = arg[s]
        BY <2>0, <3>1
      <3> HIDE DEF Reserving
      <3> QED BY <1>0, <2>0, <3>1, <3>2, <3>3, <3>4 DEF CacheInv
    <2>6. CASE \/ CheckCertificate(t) \/ CheckExpiry(t) \/ CheckReleaser(t)
               \/ UpdateFields(t) \/ AddCheck(t) \/ AddExtended(t)
      <3>1. UNCHANGED <<status, reservedBy, reservations, overtaken>> /\ pc[t] # "cache"
        BY <2>6 DEF CheckCertificate, CheckExpiry, CheckReleaser, UpdateFields, AddCheck,
             AddExtended, core, service, hindsight
      <3>2. pc'[t] # "cache"
        BY <1>0, <2>6 DEF CheckCertificate, CheckExpiry, CheckReleaser, UpdateFields, AddCheck,
             AddExtended, Goto, Answer, IInv, RequestInv
      <3> QED BY <1>1, <2>0, <3>1, <3>2
    <2> QED BY <1>3, <2>1, <2>2, <2>3, <2>4, <2>5, <2>6 DEF Step
  <1>4. ASSUME NEW u \in Ids, CertificateExpires(u) PROVE CacheInv'
    BY <1>4 DEF CertificateExpires, service
  <1>5. CASE UNCHANGED vars
    BY <1>5 DEF vars, core, service, hindsight
  <1> QED BY <1>2, <1>3, <1>4, <1>5 DEF Next

\* Every step keeps the verdicts on a certificate, or notes that they are stale.
LEMMA CertStep == ASSUME IInv, CertInv, [Next]_vars PROVE CertInv'
  <1> USE DEF CertInv, core, service, hindsight
  <1>0. /\ pc \in [Threads -> Locations] /\ arg \in [Threads -> Requests]
        /\ certValid \in [Ids -> BOOLEAN] /\ expired \in [Ids -> BOOLEAN]
        /\ withdrawn \in SUBSET Threads
        /\ \A t \in Threads : pc[t] # "idle" => arg[t].uas \in Ids
        /\ \A t \in Threads : pc[t] = "reserve" => arg[t].op = "reserve"
    BY DEF IInv, TypeOK, RequestInv
  <1>1. ASSUME NEW t \in Threads, pc'[t] \notin {"expiry", "reserve"},
               UNCHANGED <<certValid, expired>>, withdrawn \ {t} \subseteq withdrawn',
               \A s \in Threads \ {t} : pc'[s] = pc[s] /\ arg'[s] = arg[s]
        PROVE  CertInv'
    BY <1>1
  <1>2. ASSUME NEW t \in Threads, Request(t) PROVE CertInv'
    <2>1. /\ pc'[t] \notin {"expiry", "reserve"} /\ UNCHANGED <<certValid, expired, withdrawn>>
          /\ \A s \in Threads \ {t} : pc'[s] = pc[s] /\ arg'[s] = arg[s]
      BY <1>0, <1>2 DEF Request, Reserve, Release, Update, Begin, Purchase
    <2> QED BY <1>1, <2>1
  <1>3. ASSUME NEW t \in Threads, Step(t) PROVE CertInv'
    <2> DEFINE u == arg[t].uas
    <2>0. /\ pc[t] # "idle" /\ u \in Ids
          /\ \A s \in Threads \ {t} : pc'[s] = pc[s] /\ arg'[s] = arg[s]
      BY <1>0, <1>3 DEF Step, CheckCertificate, CheckExpiry, CommitReserve, ReserveIf,
           CacheReservation, CheckReleaser, CommitRelease, ReleaseUas, UpdateStatus, UpdateFields,
           AddCheck, AddStore, AddExtended, Goto, Answer
    <2>1. CASE CheckCertificate(t)
      <3>1. CASE status[u] = "absent" \/ ~certValid[u]
        <4>1. pc'[t] = "idle" /\ UNCHANGED <<certValid, expired, withdrawn>>
          BY <1>0, <2>1, <3>1 DEF CheckCertificate, Answer
        <4> QED BY <1>1, <2>0, <4>1
      <3>2. CASE certValid[u] /\ status[u] # "absent"
        <4>1. arg' = arg /\ pc'[t] = "expiry" /\ UNCHANGED <<certValid, expired, withdrawn>>
          BY <1>0, <2>1, <3>2 DEF CheckCertificate, Goto
        <4>2. certValid[u] = TRUE
          BY <1>0, <2>0, <3>2, Zenon
        <4> QED BY <2>0, <4>1, <4>2
      <3> QED BY <3>1, <3>2
    <2>2. CASE CheckExpiry(t)
      <3>1. CASE expired[u]
        <4>1. pc'[t] = "idle" /\ UNCHANGED <<certValid, expired>> /\ withdrawn' = withdrawn \ {t}
          BY <1>0, <2>2, <3>1 DEF CheckExpiry, Answer
        <4> QED BY <1>1, <2>0, <4>1
      <3>2. CASE ~expired[u]
        <4>1. /\ pc[t] = "expiry" /\ pc'[t] = arg[t].op /\ arg' = arg
              /\ UNCHANGED <<certValid, expired, withdrawn>>
          BY <1>0, <2>2, <3>2 DEF CheckExpiry, Goto
        <4>2. expired[u] = FALSE
          BY <1>0, <2>0, <3>2, Zenon
        <4>3. arg[t].op \in {"reserve", "release"}
          BY <4>1 DEF IInv, RequestInv
        <4> QED BY <2>0, <4>1, <4>2, <4>3
      <3> QED BY <3>1, <3>2
    <2>3. CASE CommitReserve(t)
      <3>1. /\ pc'[t] \in {"cache", "idle"} /\ UNCHANGED <<certValid, expired>>
            /\ withdrawn' = withdrawn \ {t}
        BY <1>0, <2>3 DEF CommitReserve, ReserveIf, Goto, Answer
      <3> QED BY <1>1, <2>0, <3>1
    <2>4. CASE \/ CacheReservation(t) \/ CheckReleaser(t) \/ CommitRelease(t)
               \/ UpdateStatus(t) \/ AddCheck(t) \/ AddExtended(t)
      <3>1. pc'[t] \notin {"expiry", "reserve"} /\ UNCHANGED <<certValid, expired, withdrawn>>
        BY <1>0, <2>4 DEF CacheReservation, CheckReleaser, CommitRelease, ReleaseUas,
             UpdateStatus, AddCheck, AddExtended, Goto, Answer
      <3> QED BY <1>1, <2>0, <3>1
    <2>5. CASE UpdateFields(t)
      <3>1. pc[t] = "fields" /\ pc'[t] = "idle"
        BY <1>0, <2>5 DEF UpdateFields, Answer
      <3>2. CASE UNCHANGED <<certValid, expired, withdrawn>>
        BY <1>1, <2>0, <3>1, <3>2
      <3>3. CASE ~UNCHANGED <<certValid, expired, withdrawn>>
        <4>1. /\ \A v \in Ids \ {u} : certValid'[v] = certValid[v] /\ expired'[v] = expired[v]
              /\ expired[u] = FALSE => expired'[u] = FALSE
          BY <1>0, <2>0, <2>5, <3>3 DEF UpdateFields
        <4>2. /\ arg[t].who.cert = "revoked" => Withdraw(u, {"expiry", "reserve"})
              /\ arg[t].who.cert # "revoked" => UNCHANGED withdrawn
          BY <2>5, <3>3 DEF UpdateFields
        <4>3. arg[t].who.cert # "revoked" => (certValid[u] = TRUE => certValid'[u] = TRUE)
          BY <1>0, <2>0, <2>5, <3>3, Zenon DEF UpdateFields
        <4>4. CASE arg[t].who.cert = "revoked"
          <5>1. withdrawn' = withdrawn \cup Reserving(u, {"expiry", "reserve"})
            BY <4>2, <4>4 DEF Withdraw
          <5> QED BY <1>0, <2>0, <3>1, <4>1, <5>1 DEF Reserving
        <4>5. CASE arg[t].who.cert # "revoked"
          BY <1>0, <2>0, <3>1, <4>1, <4>2, <4>3, <4>5
        <4> QED BY <4>4, <4>5
      <3> QED BY <3>2, <3>3
    <2>6. CASE AddStore(t)
      <3>1. PICK cert \in BOOLEAN :
              /\ certValid' = [certValid EXCEPT ![u] = cert]
              /\ IF cert THEN UNCHANGED withdrawn ELSE Withdraw(u, {"expiry", "reserve"})
        BY <2>6 DEF AddStore
      <3>2. expired' = [expired EXCEPT ![u] = FALSE] /\ pc'[t] = "extend"
        BY <1>0, <2>6 DEF AddStore, Goto
      <3>3. CASE cert = TRUE
        BY <1>0, <2>0, <3>1, <3>2, <3>3
      <3>4. CASE cert = FALSE
        <4>1. withdrawn' = withdrawn \cup Reserving(u, {"expiry", "reserve"})
          BY <3>1, <3>4 DEF Withdraw
        <4> QED BY <1>0, <2>0, <3>1, <3>2, <4>1 DEF Reserving
      <3> QED BY <3>1, <3>3, <3>4
    <2> QED BY <1>3, <2>1, <2>2, <2>3, <2>4, <2>5, <2>6 DEF Step
  <1>4. ASSUME NEW u \in Ids, CertificateExpires(u) PROVE CertInv'
    <2>1. /\ UNCHANGED <<certValid, pc, arg>> /\ expired' = [expired EXCEPT ![u] = TRUE]
          /\ withdrawn' = withdrawn \cup Reserving(u, {"reserve"})
      BY <1>4 DEF CertificateExpires, Withdraw
    <2> QED BY <1>0, <2>1 DEF Reserving
  <1>5. CASE UNCHANGED vars
    BY <1>5 DEF vars
  <1> QED BY <1>2, <1>3, <1>4, <1>5 DEF Next

\* In every interleaving, of every unit that was not overtaken the cache says
\* what the core says once no handler is about to write it.
THEOREM CacheIsExplained == Spec => []CacheFollowsCore
  <1>1. Init => CacheInv
    BY DEF Init, CacheInv, Reserving
  <1>2. IInv /\ CacheInv /\ [Next]_vars => CacheInv'
    BY CacheStep
  <1>3. CacheInv => CacheFollowsCore
    BY DEF CacheInv, CacheFollowsCore
  <1> QED BY <1>1, <1>2, <1>3, Invariance, PTL DEF Spec

\* In every interleaving, a handler reserves only what had a valid certificate
\* in date when it looked, and has one still unless it was withdrawn meanwhile.
THEOREM ReservedIsCertified == Spec => StaleOnlyIfWithdrawn
  <1>1. Init => CertInv
    BY DEF Init, CertInv
  <1>2. IInv /\ CertInv /\ [Next]_vars => CertInv'
    BY CertStep
  <1>3. IInv /\ CertInv =>
          \A t \in Threads :
              CommitReserve(t) /\ pc'[t] = "cache"
                => t \in withdrawn \/ (certValid[arg[t].uas] /\ ~expired[arg[t].uas])
    BY DEF IInv, RequestInv, CertInv, CommitReserve, ReserveIf
  <1> QED BY <1>1, <1>2, <1>3, Invariance, PTL DEF Spec, StaleOnlyIfWithdrawn

-----------------------------------------------------------------------------
(* FlightRegistration.                                                       *)

\* A verdict "valid" is about a certificate the regulator has, and the answer
\* that an authorization waits for has been given, and the home sent.
FlightInv ==
    /\ check \in [Drones -> {"idle", "asked", "proxied", "valid", "invalid"}]
    /\ \A d \in Drones : check[d] = "valid" => d \in certified
    /\ vouched \subseteq certified
    /\ flight \in [Uploads -> {"new", "got", "registering", "authorizing", "done"}]
    /\ answer \in [Uploads -> {"none", "registered", "refused"}]
    /\ \A u \in Uploads : answer[u] = "registered" => mission[u] \in registered
    /\ \A u \in Uploads : flight[u] \in {"registering", "authorizing"} =>
            drone[u] \in home \/ u \in unsent
    /\ authorized \subseteq Uploads
    /\ Flight!CheckedBeforeUse

\* A certificate, once registered, stays: every verdict still stands when the
\* drone is stored.
LEMMA CertificateStep == ASSUME FlightInv, Flight!NextCertificate PROVE FlightInv'
  <1> USE DEF FlightInv, Flight!CheckedBeforeUse, Flight!flightVars
  <1> SUFFICES ASSUME NEW d \in Drones,
                      \/ Flight!RegisterDroneCert(d) \/ Flight!RegisterDrone(d)
                      \/ Flight!RegulatorProxy(d) \/ Flight!VerifyDroneCert(d)
                      \/ Flight!StoreVerified(d) \/ Flight!RejectDrone(d)
               PROVE  FlightInv'
    BY DEF Flight!NextCertificate
  <1>1. CASE Flight!RegisterDroneCert(d)
    BY <1>1 DEF Flight!RegisterDroneCert
  <1>2. CASE Flight!RegisterDrone(d)
    BY <1>2 DEF Flight!RegisterDrone
  <1>3. CASE Flight!RegulatorProxy(d)
    BY <1>3 DEF Flight!RegulatorProxy
  <1>4. CASE Flight!VerifyDroneCert(d)
    BY <1>4 DEF Flight!VerifyDroneCert
  <1>5. CASE Flight!StoreVerified(d)
    BY <1>5 DEF Flight!StoreVerified
  <1>6. CASE Flight!RejectDrone(d)
    BY <1>6 DEF Flight!RejectDrone
  <1> QED BY <1>1, <1>2, <1>3, <1>4, <1>5, <1>6

\* No step of an upload, or of ORVD, takes back what an authorization rests on.
LEMMA UploadStep == ASSUME FlightInv, Flight!NextFlight PROVE FlightInv'
  <1> USE DEF FlightInv, Flight!CheckedBeforeUse, Flight!certificateVars
  <1> SUFFICES ASSUME NEW u \in Uploads,
                      \/ Flight!MissionUpload(u) \/ Flight!PublishHome(u) \/ Flight!OrvdRegisters(u)
                      \/ Flight!TakeAnswer(u) \/ Flight!EndUpload(u)
               PROVE  FlightInv'
    BY DEF Flight!NextFlight
  <1>1. CASE Flight!MissionUpload(u)
    BY <1>1 DEF Flight!MissionUpload
  <1>2. CASE Flight!PublishHome(u)
    BY <1>2 DEF Flight!PublishHome
  <1>3. CASE Flight!OrvdRegisters(u)
    BY <1>3 DEF Flight!OrvdRegisters
  <1>4. CASE Flight!TakeAnswer(u)
    BY <1>4 DEF Flight!TakeAnswer, Flight!Authorize
  <1>5. CASE Flight!EndUpload(u)
    BY <1>5 DEF Flight!EndUpload
  <1> QED BY <1>1, <1>2, <1>3, <1>4, <1>5

\* For any number of drones, uploads and missions, no drone is stored on a
\* certificate that the regulator does not have, and ORVD is asked to authorize
\* only what it registered, after the home of the drone was sent, or refused by
\* publish().
THEOREM AskedBeforeUse == MCSpec => []CheckedBeforeUse
  <1>1. MCInit => FlightInv
    BY ZenonT(30) DEF MCInit, FlightInit, Flight!Init, FlightInv, Flight!CheckedBeforeUse
  <1>2. FlightInv /\ [MCNext]_operatorVars => FlightInv'
    <2> SUFFICES ASSUME FlightInv, [MCNext]_operatorVars PROVE FlightInv'
      OBVIOUS
    <2>1. ASSUME UNCHANGED flightPart PROVE FlightInv'
      BY <2>1 DEF FlightInv, flightPart, Flight!CheckedBeforeUse
    <2> QED BY <2>1, CertificateStep, UploadStep DEF MCNext, operatorVars
  <1>3. FlightInv => CheckedBeforeUse
    BY DEF FlightInv, CheckedBeforeUse
  <1> QED BY <1>1, <1>2, <1>3, PTL DEF MCSpec

-----------------------------------------------------------------------------
(* Totals.  Total of OperatorSecurity folds + over a finite set; nothing is  *)
(* assumed of the order in which it takes the terms.                         *)

\* sum gives, for every subset of S, the total of d over it.
IsSum(sum, d, S) ==
    /\ sum \in [SUBSET S -> Int]
    /\ sum[{}] = 0
    /\ \A B \in SUBSET S : \A b \in S \ B : sum[B \cup {b}] = sum[B] + d[b]

\* A set of subsets of a finite set, if not empty, has a smallest member.
LEMMA SmallestSubset ==
  ASSUME NEW S, IsFiniteSet(S), NEW T, T \subseteq SUBSET S, T # {}
  PROVE  \E B \in T : \A b \in B : B \ {b} \notin T
  <1> DEFINE F == FiniteSubsetsOf(S)
             R == StrictSubsetOrdering(S)
  <1>1. T \subseteq F
    BY FS_Subset DEF FiniteSubsetsOf
  <1>2. IsWellFoundedOn(R, F)
    BY FS_StrictSubsetOrderingWellFounded
  <1> HIDE DEF F, R
  <1>3. PICK B \in T : \A C \in T : ~ (<<C, B>> \in R)
    BY <1>1, <1>2, WFMin
  <1>4. ASSUME NEW b \in B PROVE <<B \ {b}, B>> \in R
    BY <1>3 DEF R, StrictSubsetOrdering
  <1> QED BY <1>3, <1>4

\* What a total is when its last term is taken out.
LEMMA SumWithout ==
  ASSUME NEW S, NEW d, NEW sum, IsSum(sum, d, S), NEW B \in SUBSET S, NEW b \in B
  PROVE  /\ sum[B] \in Int /\ sum[B \ {b}] \in Int
         /\ sum[B] = sum[B \ {b}] + d[b]
  <1> DEFINE C == B \ {b}
  <1>1. C \in SUBSET S /\ b \in S \ C /\ C \cup {b} = B
    OBVIOUS
  <1> HIDE DEF C
  <1>2. sum[C \cup {b}] = sum[C] + d[b] /\ sum[C] \in Int /\ sum[C \cup {b}] \in Int
    BY <1>1 DEF IsSum
  <1> QED BY <1>1, <1>2 DEF C

\* The totals of a finite set exist: the order of the terms is of no account.
LEMMA SumExists ==
  ASSUME NEW S, IsFiniteSet(S), NEW d, \A x \in S : d[x] \in Int
  PROVE  \E sum : IsSum(sum, d, S)
  <1> DEFINE T == {B \in SUBSET S : ~ \E sum : IsSum(sum, d, B)}
  <1>1. ASSUME T # {} PROVE FALSE
    <2>1. PICK B \in T : \A b \in B : B \ {b} \notin T
      <3> HIDE DEF T
      <3>1. T \subseteq SUBSET S
        BY DEF T
      <3> QED BY <1>1, <3>1, SmallestSubset
    <2>2. B # {}
      <3>1. ASSUME B = {} PROVE FALSE
        <4> DEFINE zero == [C \in SUBSET B |-> 0]
        <4>1. IsSum(zero, d, B)
          BY <3>1 DEF IsSum
        <4> QED BY <2>1, <4>1
      <3> QED BY <3>1
    <2>3. PICK b : b \in B
      BY <2>2
    <2>4. PICK sum : IsSum(sum, d, B \ {b})
      BY <2>1, <2>3
    <2> DEFINE A == B \ {b}
               new == [C \in SUBSET B |-> IF b \in C THEN sum[C \ {b}] + d[b] ELSE sum[C]]
    <2>5. /\ sum \in [SUBSET A -> Int] /\ sum[{}] = 0 /\ d[b] \in Int
          /\ \A C \in SUBSET A : \A c \in A \ C : sum[C \cup {c}] = sum[C] + d[c]
      BY <2>1, <2>3, <2>4 DEF IsSum
    <2>6. new \in [SUBSET B -> Int]
      <3>1. ASSUME NEW C \in SUBSET B PROVE new[C] \in Int
        <4>1. CASE b \in C
          <5>1. C \ {b} \in SUBSET A
            OBVIOUS
          <5> HIDE DEF A
          <5> QED BY <2>5, <4>1, <5>1
        <4>2. CASE b \notin C
          <5>1. C \in SUBSET A
            BY <4>2
          <5> HIDE DEF A
          <5> QED BY <2>5, <4>2, <5>1
        <4> QED BY <4>1, <4>2
      <3> QED BY <3>1
    <2>7. new[{}] = 0
      BY <2>5
    <2>8. ASSUME NEW C \in SUBSET B, NEW c \in B \ C PROVE new[C \cup {c}] = new[C] + d[c]
      <3> DEFINE X == C \ {b}
      <3>0. C \cup {c} \in SUBSET B
        OBVIOUS
      <3>1. CASE c = b
        <4>1. C \in SUBSET A /\ b \in C \cup {c} /\ b \notin C /\ (C \cup {c}) \ {b} = C
          BY <3>1
        <4> QED BY <3>0, <3>1, <4>1
      <3>2. CASE c # b
        <4>1. X \in SUBSET A /\ c \in A \ X /\ X \cup {c} \in SUBSET A
          BY <3>2
        <4>2. sum[X \cup {c}] = sum[X] + d[c] /\ sum[X] \in Int
          <5> HIDE DEF A, X
          <5> QED BY <2>5, <4>1
        <4>3. CASE b \in C
          <5>1. (C \cup {c}) \ {b} = X \cup {c} /\ b \in C \cup {c}
            BY <3>2, <4>3
          <5>2. new[C \cup {c}] = sum[X \cup {c}] + d[b] /\ new[C] = sum[X] + d[b]
            BY <3>0, <4>3, <5>1
          <5>3. d[c] \in Int
            <6>1. c \in S
              BY <2>1
            <6> QED BY <6>1
          <5> HIDE DEF new, X
          <5> QED BY <2>5, <4>2, <5>2, <5>3
        <4>4. CASE b \notin C
          <5>1. b \notin C \cup {c} /\ X = C
            BY <3>2, <4>4
          <5> QED BY <3>0, <4>2, <4>4, <5>1
        <4> QED BY <4>3, <4>4
      <3> QED BY <3>1, <3>2
    <2>9. IsSum(new, d, B)
      <3> HIDE DEF new
      <3> QED BY <2>6, <2>7, <2>8 DEF IsSum
    <2> QED BY <2>1, <2>9
  <1> QED BY <1>1, FS_Subset

\* MapThenSumSet takes the terms one by one, in an order of its own, and comes
\* to the same total.
LEMMA TotalIsSum ==
  ASSUME NEW S, IsFiniteSet(S), NEW d, \A x \in S : d[x] \in Int,
         NEW sum, IsSum(sum, d, S)
  PROVE  Monitor!Total(d, S) = sum[S]
  <1> DEFINE Pick(B) == CHOOSE x \in B : TRUE
             Def(g) == g = [B \in SUBSET S |-> IF B = {} THEN 0 ELSE d[Pick(B)] + g[B \ {Pick(B)}]]
             iter == CHOOSE g : Def(g)
             T == {B \in SUBSET S : iter[B] # sum[B]}
  <1>1. Monitor!Total(d, S) = iter[S]
    BY DEF Monitor!Total, Monitor!MapThenSumSet, Monitor!MapThenFoldSet
  <1>2. ASSUME NEW B \in SUBSET S, B # {}
        PROVE  Pick(B) \in B /\ sum[B] = d[Pick(B)] + sum[B \ {Pick(B)}]
    <2>1. Pick(B) \in B
      BY <1>2
    <2> DEFINE x == Pick(B)
    <2>2. x \in B
      BY <2>1
    <2> HIDE DEF x
    <2>3. /\ sum[B \ {x}] \in Int /\ d[x] \in Int
          /\ sum[B] = sum[B \ {x}] + d[x]
      BY <2>2, SumWithout
    <2>4. sum[B] = d[x] + sum[B \ {x}]
      BY <2>3
    <2> QED BY <2>2, <2>4 DEF x
  <1>3. sum = [B \in SUBSET S |-> IF B = {} THEN 0 ELSE d[Pick(B)] + sum[B \ {Pick(B)}]]
    <2>1. sum \in [SUBSET S -> Int] /\ sum[{}] = 0
      BY DEF IsSum
    <2> HIDE DEF Pick
    <2> QED BY <1>2, <2>1
  <1>4. Def(iter)
    <2>1. Def(sum)
      BY <1>3
    <2> HIDE DEF Def
    <2> QED BY <2>1
  <1>5. \A B \in SUBSET S : iter[B] = IF B = {} THEN 0 ELSE d[Pick(B)] + iter[B \ {Pick(B)}]
    <2> HIDE DEF iter, Pick
    <2> QED BY <1>4
  <1> HIDE DEF iter, Def
  <1>6. ASSUME T # {} PROVE FALSE
    <2>1. PICK B \in T : \A b \in B : B \ {b} \notin T
      <3>1. T \subseteq SUBSET S
        OBVIOUS
      <3> HIDE DEF T
      <3> QED BY <1>6, <3>1, SmallestSubset
    <2> HIDE DEF Pick
    <2>2. B # {}
      BY <1>5, <2>1 DEF IsSum
    <2>3. Pick(B) \in B /\ sum[B] = d[Pick(B)] + sum[B \ {Pick(B)}]
      BY <1>2, <2>1, <2>2
    <2>4. iter[B \ {Pick(B)}] = sum[B \ {Pick(B)}]
      BY <2>1, <2>3
    <2> QED BY <1>5, <2>1, <2>2, <2>3, <2>4
  <1> QED BY <1>1, <1>6

\* The totals of the subsets of a finite set are one function.
LEMMA TotalOfSubset ==
  ASSUME NEW S, IsFiniteSet(S), NEW d, \A x \in S : d[x] \in Int,
         NEW sum, IsSum(sum, d, S), NEW B \in SUBSET S
  PROVE  Monitor!Total(d, B) = sum[B]
  <1> DEFINE below == [C \in SUBSET B |-> sum[C]]
  <1>1. IsSum(below, d, B)
    <2>1. below \in [SUBSET B -> Int] /\ below[{}] = 0
      BY DEF IsSum
    <2>2. ASSUME NEW C \in SUBSET B, NEW b \in B \ C PROVE below[C \cup {b}] = below[C] + d[b]
      <3>1. C \cup {b} \in SUBSET B /\ C \in SUBSET S /\ b \in S \ C
        OBVIOUS
      <3>2. sum[C \cup {b}] = sum[C] + d[b]
        BY <3>1 DEF IsSum
      <3> QED BY <3>1, <3>2
    <2> HIDE DEF below
    <2> QED BY <2>1, <2>2 DEF IsSum
  <1>2. IsFiniteSet(B) /\ below[B] = sum[B]
    BY FS_Subset
  <1> HIDE DEF below
  <1> QED BY <1>1, <1>2, TotalIsSum

LEMMA TotalNone == ASSUME NEW d PROVE Monitor!Total(d, {}) = 0
  <1>1. IsFiniteSet({})
    BY FS_EmptySet
  <1>2. PICK sum : IsSum(sum, d, {})
    BY <1>1, SumExists
  <1>3. Monitor!Total(d, {}) = sum[{}]
    BY <1>1, <1>2, TotalIsSum
  <1> QED BY <1>2, <1>3 DEF IsSum

\* One more term.
LEMMA TotalAdd ==
  ASSUME NEW S, IsFiniteSet(S), NEW d, NEW b, b \notin S, \A x \in S \cup {b} : d[x] \in Int
  PROVE  /\ Monitor!Total(d, S) \in Int
         /\ Monitor!Total(d, S \cup {b}) = Monitor!Total(d, S) + d[b]
  <1> DEFINE U == S \cup {b}
  <1>1. IsFiniteSet(U) /\ S \in SUBSET U /\ U \in SUBSET U /\ b \in U \ S /\ \A x \in U : d[x] \in Int
    BY FS_AddElement
  <1> HIDE DEF U
  <1>2. PICK sum : IsSum(sum, d, U)
    BY <1>1, SumExists
  <1>3. Monitor!Total(d, S) = sum[S] /\ Monitor!Total(d, U) = sum[U]
    BY <1>1, <1>2, TotalOfSubset
  <1>4. sum[S] \in Int /\ sum[S \cup {b}] = sum[S] + d[b]
    BY <1>1, <1>2 DEF IsSum
  <1> QED BY <1>3, <1>4 DEF U

\* A total does not grow when terms shrink or are left out.
LEMMA TotalLess ==
  ASSUME NEW S, IsFiniteSet(S), NEW A \in SUBSET S, NEW d, NEW e,
         \A x \in S : d[x] \in Nat /\ e[x] \in Nat /\ d[x] <= e[x]
  PROVE  /\ Monitor!Total(d, A) \in Nat /\ Monitor!Total(e, S) \in Nat
         /\ Monitor!Total(d, A) <= Monitor!Total(e, S)
  <1> DEFINE Good(B) == /\ Monitor!Total(d, A \cap B) \in Nat /\ Monitor!Total(e, B) \in Nat
                        /\ Monitor!Total(d, A \cap B) <= Monitor!Total(e, B)
             T == {B \in SUBSET S : ~Good(B)}
  <1>1. ASSUME T # {} PROVE FALSE
    <2>1. PICK B \in T : \A b \in B : B \ {b} \notin T
      <3>1. T \subseteq SUBSET S
        OBVIOUS
      <3> HIDE DEF T
      <3> QED BY <1>1, <3>1, SmallestSubset
    <2>2. CASE B = {}
      <3>1. A \cap B = {}
        BY <2>2
      <3> HIDE DEF T
      <3>2. Good(B)
        BY <2>2, <3>1, TotalNone
      <3> QED BY <2>1, <3>2 DEF T
    <2>3. CASE B # {}
      <3>1. PICK b : b \in B
        BY <2>3
      <3> DEFINE C == B \ {b}
                 AC == A \cap C
      <3>2. /\ C \in SUBSET S /\ C \cup {b} = B /\ b \notin C /\ b \in S
            /\ AC \in SUBSET S /\ b \notin AC
            /\ A \cap B = IF b \in A THEN AC \cup {b} ELSE AC
        BY <2>1, <3>1
      <3>3. Good(C)
        BY <2>1, <3>1, <3>2
      <3>4. IsFiniteSet(C) /\ IsFiniteSet(AC)
        <4> HIDE DEF C, AC, T
        <4> QED BY <3>2, FS_Subset
      <3>5. d[b] \in Nat /\ e[b] \in Nat /\ d[b] <= e[b]
        BY <3>2
      <3>6. Monitor!Total(e, C \cup {b}) = Monitor!Total(e, C) + e[b]
        <4>1. \A x \in C \cup {b} : e[x] \in Int
          BY <3>2
        <4> HIDE DEF C, AC, T, Good
        <4> QED BY <3>2, <3>4, <4>1, TotalAdd
      <3>7. Monitor!Total(d, AC \cup {b}) = Monitor!Total(d, AC) + d[b]
        <4>1. \A x \in AC \cup {b} : d[x] \in Int
          BY <3>2
        <4> HIDE DEF C, AC, T, Good
        <4> QED BY <3>2, <3>4, <4>1, TotalAdd
      <3>8. Good(B)
        <4>1. /\ Monitor!Total(d, AC) \in Nat /\ Monitor!Total(e, C) \in Nat
              /\ Monitor!Total(d, AC) <= Monitor!Total(e, C)
          BY <3>3
        <4> HIDE DEF C, AC, T
        <4>2. Monitor!Total(e, B) = Monitor!Total(e, C) + e[b]
          BY <3>2, <3>6
        <4>3. CASE b \in A
          <5>1. Monitor!Total(d, A \cap B) = Monitor!Total(d, AC) + d[b]
            BY <3>2, <3>7, <4>3
          <5> QED BY <3>5, <4>1, <4>2, <5>1
        <4>4. CASE b \notin A
          <5>1. Monitor!Total(d, A \cap B) = Monitor!Total(d, AC)
            BY <3>2, <4>4
          <5> QED BY <3>5, <4>1, <4>2, <5>1
        <4> QED BY <4>3, <4>4
      <3> QED BY <2>1, <3>8
    <2> QED BY <2>2, <2>3
  <1>2. Good(S)
    BY <1>1
  <1>3. A \cap S = A
    OBVIOUS
  <1> QED BY <1>2, <1>3

\* Only the terms count.
LEMMA TotalSame ==
  ASSUME NEW S, IsFiniteSet(S), NEW d, NEW e, \A x \in S : d[x] \in Nat /\ e[x] = d[x]
  PROVE  Monitor!Total(e, S) = Monitor!Total(d, S) /\ Monitor!Total(d, S) \in Nat
  <1>1. /\ Monitor!Total(d, S) \in Nat /\ Monitor!Total(e, S) \in Nat
        /\ Monitor!Total(d, S) <= Monitor!Total(e, S) /\ Monitor!Total(e, S) <= Monitor!Total(d, S)
    <2>1. S \in SUBSET S
      OBVIOUS
    <2>2. \A x \in S : d[x] \in Nat /\ e[x] \in Nat /\ d[x] <= e[x] /\ e[x] <= d[x]
      OBVIOUS
    <2> QED BY <2>1, <2>2, TotalLess
  <1> QED BY <1>1

\* A total of nothing is nothing.
LEMMA TotalZero ==
  ASSUME NEW S, IsFiniteSet(S), NEW d, \A x \in S : d[x] = 0
  PROVE  Monitor!Total(d, S) = 0
  <1> DEFINE T == {B \in SUBSET S : Monitor!Total(d, B) # 0}
  <1>1. ASSUME T # {} PROVE FALSE
    <2> HIDE DEF T
    <2>1. PICK B \in T : \A b \in B : B \ {b} \notin T
      <3>1. T \subseteq SUBSET S
        BY DEF T
      <3> QED BY <1>1, <3>1, SmallestSubset
    <2>2. PICK b : b \in B
      BY <2>1, TotalNone DEF T
    <2> DEFINE C == B \ {b}
    <2>3. C \in SUBSET S /\ b \notin C /\ C \cup {b} = B /\ b \in S /\ C \notin T
      BY <2>1, <2>2 DEF T
    <2> HIDE DEF C
    <2>4. \A x \in C \cup {b} : d[x] \in Int
      BY <2>3
    <2>5. Monitor!Total(d, C) = 0 /\ IsFiniteSet(C)
      BY <2>3, FS_Subset DEF T
    <2>6. Monitor!Total(d, C \cup {b}) = Monitor!Total(d, C) + d[b]
      <3>1. b \notin C /\ IsFiniteSet(C)
        BY <2>3, <2>5
      <3> QED BY <2>4, <3>1, TotalAdd
    <2>7. d[b] = 0
      BY <2>3
    <2> QED BY <2>1, <2>3, <2>5, <2>6, <2>7 DEF T
  <1> QED BY <1>1

\* A total moves by as much as one of its terms.
LEMMA TotalChange ==
  ASSUME NEW S, IsFiniteSet(S), NEW b \in S, NEW d, NEW e,
         \A x \in S : d[x] \in Nat /\ e[x] \in Nat /\ (x # b => e[x] = d[x])
  PROVE  /\ Monitor!Total(d, S) \in Nat /\ Monitor!Total(e, S) \in Nat
         /\ Monitor!Total(e, S) = Monitor!Total(d, S) + e[b] - d[b]
  <1> DEFINE C == S \ {b}
  <1>1. IsFiniteSet(C) /\ b \notin C /\ C \cup {b} = S
    BY FS_RemoveElement
  <1>2. \A x \in C : d[x] \in Nat /\ e[x] = d[x]
    OBVIOUS
  <1>3. \A x \in C \cup {b} : d[x] \in Int /\ e[x] \in Int
    OBVIOUS
  <1>4. d[b] \in Nat /\ e[b] \in Nat
    OBVIOUS
  <1>5. Monitor!Total(d, S) \in Nat /\ Monitor!Total(e, S) \in Nat
    <2>1. \A x \in S : d[x] \in Nat /\ d[x] = d[x] /\ e[x] \in Nat /\ e[x] = e[x]
      OBVIOUS
    <2> QED BY <2>1, TotalSame
  <1> HIDE DEF C
  <1>6. Monitor!Total(e, C) = Monitor!Total(d, C) /\ Monitor!Total(d, C) \in Nat
    BY <1>1, <1>2, TotalSame
  <1>7. /\ Monitor!Total(d, C \cup {b}) = Monitor!Total(d, C) + d[b]
        /\ Monitor!Total(e, C \cup {b}) = Monitor!Total(e, C) + e[b]
    <2>1. IsFiniteSet(C) /\ b \notin C
      BY <1>1
    <2>2. \A x \in C \cup {b} : d[x] \in Int
      BY <1>3
    <2>3. \A x \in C \cup {b} : e[x] \in Int
      BY <1>3
    <2>4. Monitor!Total(d, C \cup {b}) = Monitor!Total(d, C) + d[b]
      BY ZenonT(30), <2>1, <2>2, TotalAdd
    <2>5. Monitor!Total(e, C \cup {b}) = Monitor!Total(e, C) + e[b]
      BY <2>1, <2>3, TotalAdd
    <2> QED BY <2>4, <2>5
  <1>8. Monitor!Total(d, S) = Monitor!Total(d, C) + d[b] /\ Monitor!Total(e, S) = Monitor!Total(d, C) + e[b]
    BY <1>1, <1>6, <1>7
  <1> QED BY <1>4, <1>5, <1>6, <1>8

-----------------------------------------------------------------------------
(* DeveloperClient.                                                          *)

Steps == {"idle", "look", "create", "fill", "read", "find", "sell", "add", "draw", "check", "store"}

\* Units that are sold and for which no id is drawn yet.
Due == [b \in Buyers |->
            IF step[b] = "add" THEN want[b]
            ELSE IF step[b] \in {"draw", "check", "store"} THEN left[b] ELSE 0]

ClientTypeInv ==
    /\ source \in {"yaml", "bus"}
    /\ cache \in 0 .. MaxLoads /\ loads \in 0 .. MaxLoads
    /\ stock \in [Developer!Catalogs -> Nat]
    /\ sold \in [Developer!Catalogs -> Nat]
    /\ step \in [Buyers -> Steps]
    /\ want \in [Buyers -> Nat]
    /\ held \in [Buyers -> 0 .. MaxLoads]
    /\ left \in [Buyers -> Nat] /\ drawn \in [Buyers -> Nat]
    /\ paid \in Nat /\ clashes \in Nat

\* The bus never fills the cache, and a load from the file never empties it:
\* the catalog is there from Find to AddToFleet.
CatalogInv ==
    /\ source = "bus" => cache = 0 /\ \A b \in Buyers : step[b] \notin {"create", "fill", "read"}
    /\ \A b \in Buyers : step[b] \in {"sell", "add"} => cache # 0
    /\ \A b \in Buyers : step[b] = "sell" => held[b] # 0

\* Nothing is sold that does not leave the stock of the same catalog.
StockInv == \A c \in Developer!Catalogs : sold[c] + stock[c] = Stock

\* An id is in the fleet or drawn for it; every paid unit has one of its own,
\* has lost it to another, or is still to get one.
Taken == delivered \cup Developer!Drawn
PaidInv ==
    /\ IsFiniteSet(delivered) /\ IsFiniteSet(Developer!Drawn)
    /\ paid = Cardinality(Taken) + clashes + Monitor!Total(Due, Buyers)

ClientInv == ClientTypeInv /\ CatalogInv /\ StockInv /\ PaidInv

\* Cardinality as the instance has it.
LEMMA SameCardinality == ASSUME NEW S PROVE Developer!Cardinality(S) = Cardinality(S)
  BY DEF Developer!Cardinality, Cardinality

\* The total due, when one handler's part of it changes.
LEMMA DueChange ==
  ASSUME NEW d \in [Buyers -> Nat], NEW b \in Buyers, NEW k \in Nat
  PROVE  /\ Monitor!Total(d, Buyers) \in Nat
         /\ Monitor!Total([d EXCEPT ![b] = k], Buyers) \in Nat
         /\ Monitor!Total([d EXCEPT ![b] = k], Buyers) = Monitor!Total(d, Buyers) + k - d[b]
  <1> DEFINE e == [d EXCEPT ![b] = k]
  <1>1. e[b] = k /\ \A x \in Buyers : d[x] \in Nat /\ e[x] \in Nat /\ (x # b => e[x] = d[x])
    OBVIOUS
  <1> HIDE DEF e
  <1>2. /\ Monitor!Total(d, Buyers) \in Nat /\ Monitor!Total(e, Buyers) \in Nat
        /\ Monitor!Total(e, Buyers) = Monitor!Total(d, Buyers) + e[b] - d[b]
    BY <1>1, BuyersAssumption, TotalChange
  <1> QED BY <1>1, <1>2 DEF e

\* Every step of a handler keeps stock, cache and payments in agreement.
LEMMA ClientStep == ASSUME ClientInv, Developer!Next PROVE ClientInv'
  <1> USE DEF Developer!Catalogs, Developer!catalogVars, Developer!fleetVars, Developer!Go, Steps
  <1>0. /\ source \in {"yaml", "bus"}
        /\ cache \in 0 .. MaxLoads /\ loads \in 0 .. MaxLoads
        /\ stock \in [1 .. MaxLoads -> Nat] /\ sold \in [1 .. MaxLoads -> Nat]
        /\ step \in [Buyers -> Steps]
        /\ want \in [Buyers -> Nat] /\ held \in [Buyers -> 0 .. MaxLoads]
        /\ left \in [Buyers -> Nat] /\ drawn \in [Buyers -> Nat]
        /\ paid \in Nat /\ clashes \in Nat
    BY DEF ClientInv, ClientTypeInv
  <1> DEFINE sum == Monitor!Total(Due, Buyers)
             D == Developer!Drawn
             N == Cardinality(Taken)
  <1>1. /\ paid = N + clashes + sum
        /\ IsFiniteSet(delivered) /\ IsFiniteSet(D) /\ N \in Nat
    <2>1. IsFiniteSet(delivered) /\ IsFiniteSet(D) /\ paid = N + clashes + sum
      BY DEF ClientInv, PaidInv
    <2>2. IsFiniteSet(Taken)
      <3> HIDE DEF D
      <3> QED BY <2>1, FS_Union DEF Taken, D
    <2> HIDE DEF N, sum
    <2> QED BY <2>1, <2>2, FS_CardinalityType DEF N
  <1>2. Due \in [Buyers -> Nat]
    BY <1>0 DEF Due
  <1> HIDE DEF sum, D, N
  <1>2a. sum \in Nat
    <2>1. \A b \in Buyers : Due[b] \in Nat /\ Due[b] = Due[b]
      BY <1>2
    <2> QED BY <2>1, BuyersAssumption, TotalSame DEF sum
  <1>3. ASSUME Due' = Due, Taken' = Taken, Developer!Drawn' \subseteq D, IsFiniteSet(delivered'),
               UNCHANGED <<paid, clashes>>
        PROVE  PaidInv'
    <2>1. Monitor!Total(Due', Buyers) = sum
      BY <1>3 DEF sum
    <2>2. Cardinality(Taken') = N
      BY <1>3 DEF N
    <2>3. IsFiniteSet(Developer!Drawn')
      BY <1>1, <1>3, FS_Subset
    <2> QED BY <1>1, <1>3, <2>1, <2>2, <2>3 DEF PaidInv
  <1> SUFFICES ASSUME NEW b \in Buyers,
                      \/ Developer!GetAllCatalogs(b) \/ Developer!RequestCatalog(b)
                      \/ Developer!LookForFile(b) \/ Developer!CreateExampleYaml(b)
                      \/ Developer!LoadCatalogsFromYaml(b)
                      \/ Developer!Purchase(b) \/ Developer!Find(b) \/ Developer!Sell(b)
                      \/ Developer!AddToFleet(b) \/ Developer!NextUasId(b) \/ Developer!CheckId(b)
                      \/ Developer!StoreUnit(b) \/ Developer!EndPurchase(b)
               PROVE  ClientInv'
    BY DEF Developer!Next
  <1> USE StockAssumption DEF ClientTypeInv, CatalogInv, StockInv
  <1>4. CatalogInv /\ StockInv
    BY DEF ClientInv
  <1>4a. ASSUME UNCHANGED <<delivered, drawn>>,
                step[b] \in {"check", "store"} <=> step'[b] \in {"check", "store"},
                \A c \in Buyers \ {b} : step'[c] = step[c]
         PROVE  Developer!Drawn' = D /\ Taken' = Taken
    <2>1. Developer!Drawn' = D
      BY <1>4a DEF D, Developer!Drawn
    <2> QED BY <1>4a, <2>1 DEF Taken, D
  <1>5. ASSUME UNCHANGED <<stock, sold, paid, delivered, left, drawn, clashes>>,
               step[b] \notin {"add", "draw", "check", "store"},
               step'[b] \notin {"add", "draw", "check", "store"},
               \A c \in Buyers \ {b} : step'[c] = step[c] /\ want'[c] = want[c],
               ClientTypeInv', CatalogInv'
        PROVE  ClientInv'
    <2>1. Due' = Due
      BY <1>5 DEF Due
    <2>2. PaidInv'
      BY <1>1, <1>3, <1>4a, <1>5, <2>1
    <2> QED BY <1>4, <1>5, <2>2 DEF ClientInv
  <1>6. CASE Developer!GetAllCatalogs(b)
    <2>1. ClientTypeInv' /\ CatalogInv'
      BY <1>0, <1>4, <1>6 DEF Developer!GetAllCatalogs
    <2> QED BY <1>0, <1>5, <1>6, <2>1 DEF Developer!GetAllCatalogs
  <1>7. CASE Developer!RequestCatalog(b)
    <2>1. ClientTypeInv' /\ CatalogInv'
      BY <1>0, <1>4, <1>7 DEF Developer!RequestCatalog, Developer!Loaded
    <2> QED BY <1>0, <1>5, <1>7, <2>1 DEF Developer!RequestCatalog, Developer!Loaded
  <1>8. CASE Developer!LookForFile(b)
    <2>1. ClientTypeInv' /\ CatalogInv'
      BY <1>0, <1>4, <1>8 DEF Developer!LookForFile
    <2> QED BY <1>0, <1>5, <1>8, <2>1 DEF Developer!LookForFile
  <1>9. CASE Developer!CreateExampleYaml(b)
    <2>1. ClientTypeInv' /\ CatalogInv'
      BY <1>0, <1>4, <1>9 DEF Developer!CreateExampleYaml
    <2> QED BY <1>0, <1>5, <1>9, <2>1 DEF Developer!CreateExampleYaml
  <1>10. CASE Developer!LoadCatalogsFromYaml(b)
    <2>0. /\ step[b] = "read" /\ source # "bus"
          /\ step' = [step EXCEPT ![b] = IF want[b] = 0 THEN "idle" ELSE "find"]
          /\ \/ UNCHANGED <<cache, loads>>
             \/ loads < MaxLoads /\ loads' = loads + 1 /\ cache' = loads + 1
          /\ UNCHANGED <<source, stock, sold, want, held, paid, left, drawn, delivered, clashes>>
      BY <1>4, <1>10 DEF Developer!LoadCatalogsFromYaml, Developer!ParseCatalog, Developer!Loaded
    <2>1a. cache' \in 0 .. MaxLoads /\ loads' \in 0 .. MaxLoads /\ (cache # 0 => cache' # 0)
      <3>1. CASE UNCHANGED <<cache, loads>>
        BY <1>0, <3>1
      <3>2. CASE loads < MaxLoads /\ loads' = loads + 1 /\ cache' = loads + 1
        <4>1. loads \in Nat /\ MaxLoads \in Nat /\ loads + 1 <= MaxLoads
          BY <1>0, <3>2
        <4> QED BY <3>2, <4>1
      <3> QED BY <2>0, <3>1, <3>2
    <2>1b. step' \in [Buyers -> Steps]
      BY <1>0, <2>0
    <2>1. ClientTypeInv' /\ CatalogInv'
      BY <1>0, <1>4, <2>0, <2>1a, <2>1b
    <2> QED BY <1>0, <1>5, <1>10, <2>1 DEF Developer!LoadCatalogsFromYaml, Developer!Loaded
  <1>11. CASE Developer!Purchase(b)
    <2>0. /\ step[b] = "idle"
          /\ step' = [step EXCEPT ![b] = IF cache = 0 THEN "look" ELSE "find"]
          /\ \E q \in Nat : want' = [want EXCEPT ![b] = q]
          /\ UNCHANGED <<source, file, cache, loads, stock, sold, held, paid, left, drawn, delivered,
                        clashes>>
      BY <1>11 DEF Developer!Purchase
    <2>1a. want' \in [Buyers -> Nat] /\ step' \in [Buyers -> Steps]
      BY <1>0, <2>0
    <2>1. ClientTypeInv' /\ CatalogInv'
      BY <1>0, <1>4, <2>0, <2>1a
    <2> QED BY <1>0, <1>5, <2>0, <2>1
  <1>12. CASE Developer!Find(b)
    <2>1. ClientTypeInv' /\ CatalogInv'
      BY <1>0, <1>4, <1>12 DEF Developer!Find
    <2> QED BY <1>0, <1>5, <1>12, <2>1 DEF Developer!Find
  <1>13. CASE Developer!Sell(b)
    <2> USE DEF Developer!Sell, Developer!SellFrom
    <2>1. CASE stock[held[b]] < want[b]
      <3>1. ClientTypeInv' /\ CatalogInv'
        BY <1>0, <1>4, <1>13, <2>1
      <3> QED BY <1>0, <1>5, <1>13, <2>1, <3>1
    <2>2. CASE ~(stock[held[b]] < want[b])
      <3>1. /\ step[b] = "sell" /\ step' = [step EXCEPT ![b] = "add"]
            /\ stock' = [stock EXCEPT ![held[b]] = @ - want[b]]
            /\ sold' = [sold EXCEPT ![held[b]] = @ + want[b]]
            /\ paid' = paid + want[b]
            /\ UNCHANGED <<source, file, cache, loads, want, held, left, drawn, delivered, clashes>>
        BY <1>13, <2>2
      <3>2. held[b] \in 1 .. MaxLoads /\ want[b] \in Nat /\ stock[held[b]] >= want[b]
        BY SMTT(30), <1>0, <1>4, <2>2, <3>1
      <3>3. ClientTypeInv'
        <4>1. stock' \in [1 .. MaxLoads -> Nat]
          BY SMTT(30), <1>0, <3>1, <3>2
        <4>2. sold' \in [1 .. MaxLoads -> Nat]
          BY SMTT(30), <1>0, <3>1, <3>2
        <4>3. step' \in [Buyers -> Steps]
          BY <1>0, <3>1
        <4>4. paid' \in Nat
          BY SMTT(30), <1>0, <3>1, <3>2
        <4> QED BY <1>0, <3>1, <4>1, <4>2, <4>3, <4>4
      <3>4. CatalogInv' /\ StockInv'
        BY SMTT(30), <1>0, <1>4, <3>1, <3>2
      <3>5. PaidInv'
        <4>1. Due' = [Due EXCEPT ![b] = want[b]] /\ Due[b] = 0
          BY <1>0, <3>1 DEF Due
        <4>2. Monitor!Total(Due', Buyers) = sum + want[b]
          <5>1. Monitor!Total(Due', Buyers) = sum + want[b] - Due[b]
            BY <1>2, <3>2, <4>1, DueChange DEF sum
          <5> QED BY <1>2a, <3>2, <4>1, <5>1
        <4>3. Developer!Drawn' = D /\ Taken' = Taken
          BY <1>0, <1>4a, <3>1
        <4>4. Cardinality(Taken') = N
          BY <4>3 DEF N
        <4>5. paid' = Cardinality(Taken') + clashes' + Monitor!Total(Due', Buyers)
          BY <1>0, <1>1, <1>2a, <3>1, <3>2, <4>2, <4>4
        <4> QED BY <1>1, <3>1, <4>3, <4>5 DEF PaidInv
      <3> QED BY <3>3, <3>4, <3>5 DEF ClientInv
    <2> QED BY <2>1, <2>2
  <1>14. CASE Developer!AddToFleet(b)
    <2>1. /\ step[b] = "add" /\ step' = [step EXCEPT ![b] = "draw"] /\ cache # 0
          /\ left' = [left EXCEPT ![b] = want[b]]
          /\ UNCHANGED <<source, file, cache, loads, stock, sold, want, held, paid, drawn, delivered, clashes>>
      BY <1>4, <1>14 DEF Developer!AddToFleet
    <2>2. ClientTypeInv' /\ CatalogInv' /\ StockInv'
      BY <1>0, <1>4, <2>1
    <2>3. Due' = Due
      BY <1>0, <2>1 DEF Due
    <2>4. Developer!Drawn' = D /\ Taken' = Taken
      BY <1>0, <1>4a, <2>1
    <2>5. PaidInv'
      BY <1>1, <1>3, <2>1, <2>3, <2>4
    <2> QED BY <2>2, <2>5 DEF ClientInv
  <1>15. CASE Developer!NextUasId(b)
    <2>0. Developer!Cardinality(delivered) \in Nat
      BY <1>1, SameCardinality, FS_CardinalityType
    <2>1. PICK id \in Nat :
            /\ id \notin delivered
            /\ drawn' = [drawn EXCEPT ![b] = id]
            /\ clashes' = IF id \in D THEN clashes + 1 ELSE clashes
      <3>1. PICK id \in 1 .. Developer!Cardinality(delivered) + 1 :
              /\ id \notin delivered
              /\ drawn' = [drawn EXCEPT ![b] = id]
              /\ clashes' = IF id \in D THEN clashes + 1 ELSE clashes
        BY <1>15, Zenon DEF Developer!NextUasId, D
      <3>2. id \in Nat
        BY <2>0, <3>1
      <3> QED BY <3>1, <3>2
    <2>2. /\ step[b] = "draw" /\ step' = [step EXCEPT ![b] = "check"]
          /\ left[b] # 0 /\ left' = [left EXCEPT ![b] = @ - 1]
          /\ UNCHANGED <<source, file, cache, loads, stock, sold, want, held, paid, delivered>>
      BY <1>15 DEF Developer!NextUasId
    <2>3. left[b] \in Nat /\ left[b] - 1 \in Nat
      BY <1>0, <2>2
    <2>4. ClientTypeInv' /\ CatalogInv' /\ StockInv'
      <3>1. left' \in [Buyers -> Nat] /\ drawn' \in [Buyers -> Nat] /\ step' \in [Buyers -> Steps]
        BY <1>0, <2>1, <2>2, <2>3
      <3>2. clashes' \in Nat
        BY <1>0, <2>1
      <3> QED BY <1>0, <1>4, <2>2, <3>1, <3>2
    <2>5. Monitor!Total(Due', Buyers) = sum - 1 /\ Monitor!Total(Due', Buyers) \in Nat
      <3>1. Due' = [Due EXCEPT ![b] = left[b] - 1] /\ Due[b] = left[b]
        BY <1>0, <2>2 DEF Due
      <3> DEFINE k == left[b] - 1
      <3>2. k \in Nat /\ left[b] = k + 1 /\ Due' = [Due EXCEPT ![b] = k]
        BY <2>3, <3>1
      <3> HIDE DEF k
      <3>3. /\ Monitor!Total(Due', Buyers) = sum + k - Due[b]
            /\ Monitor!Total(Due', Buyers) \in Nat
        BY <1>2, <3>2, DueChange DEF sum
      <3> QED BY <1>2a, <3>1, <3>2, <3>3
    <2>6. Developer!Drawn' = D \cup {id}
      <3>1. \A c \in Buyers \ {b} : step'[c] = step[c] /\ drawn'[c] = drawn[c]
        BY <1>0, <2>1, <2>2
      <3>2. step'[b] = "check" /\ drawn'[b] = id /\ step[b] = "draw"
        BY <1>0, <2>1, <2>2
      <3> QED BY <3>1, <3>2 DEF Developer!Drawn, D
    <2>7. Taken' = Taken \cup {id} /\ Taken = delivered \cup D
      BY <2>2, <2>6 DEF Taken, D
    <2>8. IsFiniteSet(Developer!Drawn') /\ IsFiniteSet(Taken)
      BY <1>1, <2>6, <2>7, FS_AddElement, FS_Union
    <2>9. Cardinality(Taken') = IF id \in D THEN N ELSE N + 1
      <3>1. Cardinality(Taken \cup {id}) = IF id \in Taken THEN Cardinality(Taken) ELSE Cardinality(Taken) + 1
        BY <2>8, FS_AddElement
      <3>2. id \in Taken <=> id \in D
        BY <2>1, <2>7
      <3> QED BY <2>7, <3>1, <3>2 DEF N
    <2>10. paid' = Cardinality(Taken') + clashes' + Monitor!Total(Due', Buyers)
      <3>1. CASE id \in D
        BY <1>0, <1>1, <1>2a, <2>1, <2>2, <2>5, <2>9, <3>1
      <3>2. CASE id \notin D
        BY <1>0, <1>1, <1>2a, <2>1, <2>2, <2>5, <2>9, <3>2
      <3> QED BY <3>1, <3>2
    <2>11. PaidInv'
      BY <1>1, <2>2, <2>8, <2>10 DEF PaidInv
    <2> QED BY <2>4, <2>11 DEF ClientInv
  <1>16. CASE Developer!CheckId(b)
    <2>1. /\ step[b] = "check"
          /\ step' = [step EXCEPT ![b] = IF drawn[b] \in delivered THEN "draw" ELSE "store"]
          /\ UNCHANGED <<source, file, cache, loads, stock, sold, want, held, paid, left, drawn,
                        delivered, clashes>>
      BY <1>16 DEF Developer!CheckId
    <2>2. step' \in [Buyers -> Steps] /\ step'[b] \in {"draw", "store"}
      BY <1>0, <2>1
    <2>3. ClientTypeInv' /\ CatalogInv' /\ StockInv'
      BY <1>0, <1>4, <2>1, <2>2
    <2>4. Due' = Due
      BY <1>0, <2>1 DEF Due
    <2>5. /\ Developer!Drawn' \subseteq D
          /\ \A x \in D : x \in Developer!Drawn' \/ x \in delivered
      BY <1>0, <2>1 DEF Developer!Drawn, D
    <2>6. Taken' = Taken
      BY <2>1, <2>5 DEF Taken, D
    <2>7. PaidInv'
      BY <1>1, <1>3, <2>1, <2>4, <2>5, <2>6
    <2> QED BY <2>3, <2>7 DEF ClientInv
  <1>17. CASE Developer!StoreUnit(b)
    <2>1. /\ step[b] = "store" /\ step' = [step EXCEPT ![b] = "draw"]
          /\ delivered' = delivered \cup {drawn[b]}
          /\ UNCHANGED <<source, file, cache, loads, stock, sold, want, held, paid, left, drawn, clashes>>
      BY <1>17 DEF Developer!StoreUnit
    <2>2. ClientTypeInv' /\ CatalogInv' /\ StockInv'
      BY <1>0, <1>4, <2>1
    <2>3. Due' = Due
      BY <1>0, <2>1 DEF Due
    <2>4. /\ Developer!Drawn' \subseteq D /\ drawn[b] \in D
          /\ \A x \in D : x \in Developer!Drawn' \/ x = drawn[b]
      BY <1>0, <2>1 DEF Developer!Drawn, D
    <2>5. Taken' = Taken
      BY <2>1, <2>4 DEF Taken, D
    <2>6. IsFiniteSet(delivered')
      BY <1>1, <2>1, FS_AddElement
    <2>7. PaidInv'
      BY <1>3, <2>1, <2>3, <2>4, <2>5, <2>6
    <2> QED BY <2>2, <2>7 DEF ClientInv
  <1>18. CASE Developer!EndPurchase(b)
    <2>1. /\ step[b] = "draw" /\ left[b] = 0 /\ step' = [step EXCEPT ![b] = "idle"]
          /\ UNCHANGED <<source, file, cache, loads, stock, sold, want, held, paid, left, drawn,
                        delivered, clashes>>
      BY <1>18 DEF Developer!EndPurchase
    <2>2. ClientTypeInv' /\ CatalogInv' /\ StockInv'
      BY <1>0, <1>4, <2>1
    <2>3. Due' = Due
      BY <1>0, <2>1 DEF Due
    <2>4. Developer!Drawn' = D /\ Taken' = Taken
      BY <1>0, <1>4a, <2>1
    <2>5. PaidInv'
      BY <1>1, <1>3, <2>1, <2>3, <2>4
    <2> QED BY <2>2, <2>5 DEF ClientInv
  <1> QED BY <1>6, <1>7, <1>8, <1>9, <1>10, <1>11, <1>12, <1>13, <1>14, <1>15, <1>16, <1>17, <1>18

\* For any number of handlers, loads and quantities, no catalog sells more
\* than the developer has, and when the handlers are done every paid unit is
\* in the fleet, but for one for every time two purchases drew one id.
THEOREM PaidIsDelivered == MCSpec => []StockHonoured
  <1>1. MCInit => ClientInv
    <2> SUFFICES ASSUME Developer!Init PROVE ClientInv
      BY DEF MCInit, DeveloperInit
    <2>1. ClientTypeInv /\ CatalogInv /\ StockInv
      BY StockAssumption DEF Developer!Init, Developer!Catalogs, ClientTypeInv, CatalogInv, StockInv, Steps
    <2>2. PaidInv
      <3>1. \A b \in Buyers : Due[b] = 0
        BY DEF Developer!Init, Due
      <3>2. Monitor!Total(Due, Buyers) = 0
        BY <3>1, TotalZero, BuyersAssumption
      <3>3. Developer!Drawn = {} /\ Taken = {} /\ delivered = {}
        BY DEF Developer!Init, Developer!Drawn, Taken
      <3> QED BY <3>2, <3>3, FS_EmptySet DEF PaidInv, Developer!Init
    <2> QED BY <2>1, <2>2 DEF ClientInv
  <1>2. ClientInv /\ [MCNext]_operatorVars => ClientInv'
    <2> SUFFICES ASSUME ClientInv, [MCNext]_operatorVars PROVE ClientInv'
      OBVIOUS
    <2>1. ASSUME UNCHANGED developerPart PROVE ClientInv'
      <3>1. Due' = Due /\ Developer!Drawn' = Developer!Drawn /\ UNCHANGED <<delivered, paid, clashes>>
        BY <2>1 DEF Due, Developer!Drawn, developerPart
      <3>2. Taken' = Taken
        BY <3>1 DEF Taken
      <3>3. PaidInv'
        <4>1. Monitor!Total(Due', Buyers) = Monitor!Total(Due, Buyers)
          BY <3>1
        <4>2. Cardinality(Taken') = Cardinality(Taken)
          BY <3>2
        <4> QED BY <3>1, <4>1, <4>2 DEF ClientInv, PaidInv
      <3> QED BY <2>1, <3>3 DEF ClientInv, ClientTypeInv, CatalogInv, StockInv, developerPart
    <2> QED BY <2>1, ClientStep DEF MCNext, operatorVars
  <1>3. ClientInv => StockHonoured
    <2> SUFFICES ASSUME ClientInv PROVE Developer!StockHonoured
      BY DEF StockHonoured
    <2>1. \A c \in Developer!Catalogs : sold[c] <= Stock
      BY StockAssumption DEF ClientInv, ClientTypeInv, StockInv
    <2>2. ASSUME \A b \in Buyers : step[b] = "idle"
          PROVE  paid = Developer!Cardinality(delivered) + clashes
      <3>1. paid = Cardinality(Taken) + clashes + Monitor!Total(Due, Buyers) /\ IsFiniteSet(delivered)
        BY DEF ClientInv, PaidInv
      <3>2. Monitor!Total(Due, Buyers) = 0
        <4>1. \A b \in Buyers : Due[b] = 0
          BY <2>2 DEF Due
        <4> QED BY <4>1, TotalZero, BuyersAssumption
      <3>3. Taken = delivered
        BY <2>2 DEF Taken, Developer!Drawn
      <3>4. Cardinality(delivered) \in Nat /\ clashes \in Nat
        BY <3>1, FS_CardinalityType DEF ClientInv, ClientTypeInv
      <3>5. paid = Cardinality(delivered) + clashes
        BY <3>1, <3>2, <3>3, <3>4
      <3> QED BY <3>5, SameCardinality
    <2> QED BY <2>1, <2>2 DEF Developer!StockHonoured
  <1> QED BY <1>1, <1>2, <1>3, PTL DEF MCSpec

-----------------------------------------------------------------------------
(* OperatorSecurity.                                                         *)

\* What was let through with a timestamp is in the history of its sender: the
\* cleanup forgets both at the same age.
HistoryInv ==
    \A s \in Clients, kind \in Monitor!Kinds, t \in Monitor!Times :
        audit[<<s, kind, "allow", t>>] + audit[<<s, kind, "audit", t>>] <= history[s][t]

MonitorTypeInv ==
    /\ enable_notifications \in BOOLEAN
    /\ now \in Nat /\ received \in Nat
    /\ history \in [Clients -> [Monitor!Times -> Nat]]
    /\ audit \in [Monitor!Entries -> Nat]
    /\ metrics \in [Monitor!PolicyResult -> Nat]
    /\ violations \in [{"P1", "P2", "P3"} -> Nat]
    /\ notices \in Nat

MonitorInv == MonitorTypeInv /\ HistoryInv /\ Monitor!GrantsWithinLimit /\ Monitor!DecisionsAccounted

\* What is let through of one sender and kind with a timestamp in B.
Through(s, kind, B) ==
    {e \in Monitor!Entries : e[1] = s /\ e[2] = kind /\ e[3] # "deny" /\ e[4] \in B}

LEMMA TimesFinite == IsFiniteSet(Monitor!Times)
  <1>1. 0 \in Int /\ MaxTime \in Int
    BY TimesAssumption
  <1> QED BY <1>1, FS_Interval DEF Monitor!Times

\* One more timestamp brings two more entries.
LEMMA ThroughAdd ==
  ASSUME NEW s \in Clients, NEW kind \in Monitor!Kinds,
         NEW B \in SUBSET Monitor!Times, NEW t \in Monitor!Times, t \notin B
  PROVE  /\ Through(s, kind, B \cup {t}) =
                (Through(s, kind, B) \cup {<<s, kind, "allow", t>>}) \cup {<<s, kind, "audit", t>>}
         /\ <<s, kind, "allow", t>> \notin Through(s, kind, B)
         /\ <<s, kind, "audit", t>> \notin Through(s, kind, B) \cup {<<s, kind, "allow", t>>}
         /\ <<s, kind, "allow", t>> \in Monitor!Entries /\ <<s, kind, "audit", t>> \in Monitor!Entries
  <1> USE DEF Monitor!Entries, Monitor!PolicyResult, Through
  <1>1. <<s, kind, "allow", t>> \in Monitor!Entries /\ <<s, kind, "audit", t>> \in Monitor!Entries
    OBVIOUS
  <1>2. ASSUME NEW e \in Through(s, kind, B \cup {t})
        PROVE  e \in (Through(s, kind, B) \cup {<<s, kind, "allow", t>>}) \cup {<<s, kind, "audit", t>>}
    <2>1. CASE e[4] \in B
      BY <1>2, <2>1
    <2>2. CASE e[4] = t
      <3>1. e = <<s, kind, "allow", t>> \/ e = <<s, kind, "audit", t>>
        BY <1>2, <2>2
      <3> QED BY <3>1
    <2> QED BY <1>2, <2>1, <2>2
  <1>3. (Through(s, kind, B) \cup {<<s, kind, "allow", t>>}) \cup {<<s, kind, "audit", t>>}
            \subseteq Through(s, kind, B \cup {t})
    BY <1>1
  <1>4. <<s, kind, "allow", t>> \notin Through(s, kind, B)
    OBVIOUS
  <1>5. <<s, kind, "audit", t>> \notin Through(s, kind, B) \cup {<<s, kind, "allow", t>>}
    OBVIOUS
  <1> QED BY <1>1, <1>2, <1>3, <1>4, <1>5

\* The entries let through are no more than the history has, over any set of
\* timestamps.
LEMMA ThroughBounded ==
  ASSUME MonitorTypeInv, HistoryInv,
         NEW s \in Clients, NEW kind \in Monitor!Kinds, NEW W \in SUBSET Monitor!Times
  PROVE  /\ IsFiniteSet(Through(s, kind, W)) /\ IsFiniteSet(W)
         /\ Monitor!Total(audit, Through(s, kind, W)) \in Nat
         /\ Monitor!Total(history[s], W) \in Nat
         /\ Monitor!Total(audit, Through(s, kind, W)) <= Monitor!Total(history[s], W)
  <1> DEFINE A(B) == Monitor!Total(audit, Through(s, kind, B))
             H(B) == Monitor!Total(history[s], B)
             Good(B) == /\ IsFiniteSet(Through(s, kind, B)) /\ IsFiniteSet(B)
                        /\ A(B) \in Nat /\ H(B) \in Nat /\ A(B) <= H(B)
             T == {B \in SUBSET Monitor!Times : ~Good(B)}
  <1>1. ASSUME T # {} PROVE FALSE
    <2>1. PICK B \in T : \A b \in B : B \ {b} \notin T
      <3>1. T \subseteq SUBSET Monitor!Times
        OBVIOUS
      <3> HIDE DEF T
      <3> QED BY <1>1, <3>1, SmallestSubset, TimesFinite
    <2>2. CASE B = {}
      <3>1. Through(s, kind, B) = {}
        BY <2>2 DEF Through
      <3>2. A(B) = 0 /\ H(B) = 0
        BY <2>2, <3>1, TotalNone
      <3>3. Good(B)
        BY <2>2, <3>1, <3>2, FS_EmptySet
      <3> QED BY <2>1, <3>3
    <2>3. CASE B # {}
      <3>1. PICK t : t \in B
        BY <2>3
      <3> DEFINE C == B \ {t}
                 a == <<s, kind, "allow", t>>
                 b == <<s, kind, "audit", t>>
                 E == Through(s, kind, C)
      <3>2. C \in SUBSET Monitor!Times /\ C \cup {t} = B /\ t \notin C /\ t \in Monitor!Times
        BY <2>1, <3>1
      <3>3. Good(C)
        BY <2>1, <3>1, <3>2
      <3>4. /\ Through(s, kind, C \cup {t}) = (E \cup {a}) \cup {b}
            /\ a \notin E /\ b \notin E \cup {a} /\ a \in Monitor!Entries /\ b \in Monitor!Entries
        <4> HIDE DEF C
        <4> QED BY <3>2, ThroughAdd
      <3>5. /\ audit[a] \in Nat /\ audit[b] \in Nat /\ history[s][t] \in Nat
            /\ audit[a] + audit[b] <= history[s][t]
        <4>1. /\ audit \in [Monitor!Entries -> Nat]
              /\ history \in [Clients -> [Monitor!Times -> Nat]]
          BY DEF MonitorTypeInv
        <4>2. audit[a] + audit[b] <= history[s][t]
          BY <3>2 DEF HistoryInv
        <4> HIDE DEF a, b
        <4> QED BY <3>2, <3>4, <4>1, <4>2
      <3>6. E \subseteq Monitor!Entries
        BY DEF Through
      <3> HIDE DEF a, b, E, C
      <3>7. \A x \in (E \cup {a}) \cup {b} : audit[x] \in Int
        BY <3>4, <3>5, <3>6 DEF MonitorTypeInv
      <3>8. IsFiniteSet(E) /\ IsFiniteSet(E \cup {a}) /\ IsFiniteSet((E \cup {a}) \cup {b}) /\ IsFiniteSet(C)
        BY <3>3, FS_AddElement DEF E
      <3>9. /\ Monitor!Total(audit, E) \in Int
            /\ Monitor!Total(audit, E \cup {a}) = Monitor!Total(audit, E) + audit[a]
        BY <3>4, <3>7, <3>8, TotalAdd
      <3>10. Monitor!Total(audit, (E \cup {a}) \cup {b}) = Monitor!Total(audit, E \cup {a}) + audit[b]
        BY <3>4, <3>7, <3>8, TotalAdd
      <3>11. Monitor!Total(history[s], C \cup {t}) = Monitor!Total(history[s], C) + history[s][t]
        <4>1. \A x \in C \cup {t} : history[s][x] \in Int
          BY <3>2 DEF MonitorTypeInv
        <4> QED BY <3>2, <3>8, <4>1, TotalAdd
      <3>12. /\ A(B) = Monitor!Total(audit, E) + audit[a] + audit[b]
             /\ H(B) = Monitor!Total(history[s], C) + history[s][t]
        BY <3>2, <3>4, <3>9, <3>10, <3>11
      <3>13. /\ Monitor!Total(audit, E) \in Nat /\ Monitor!Total(history[s], C) \in Nat
             /\ Monitor!Total(audit, E) <= Monitor!Total(history[s], C)
        BY <3>3 DEF E
      <3>14. A(B) \in Nat /\ H(B) \in Nat /\ A(B) <= H(B)
        <4> HIDE DEF A, H
        <4> QED BY <3>5, <3>12, <3>13
      <3>15. IsFiniteSet(Through(s, kind, B)) /\ IsFiniteSet(B)
        BY <3>2, <3>4, <3>8, FS_AddElement
      <3> QED BY <2>1, <3>14, <3>15
    <2> QED BY <2>2, <2>3
  <1> QED BY <1>1

\* The entries GrantsWithinLimit counts.
LEMMA LiveIsThrough ==
  ASSUME NEW s \in Clients, NEW kind \in Monitor!Kinds
  PROVE  /\ Monitor!Live(Monitor!Granted(s, kind)) = Through(s, kind, Monitor!Recent(Monitor!Times))
         /\ Monitor!Recent(Monitor!Times) \in SUBSET Monitor!Times
  BY DEF Monitor!Live, Monitor!Granted, Monitor!Recent, Through, Monitor!Entries

\* The limit survives whatever lets nothing through and counts no older entry.
LEMMA LimitKept ==
  ASSUME MonitorInv, audit' \in [Monitor!Entries -> Nat],
         \A e \in Monitor!Entries : audit'[e] <= audit[e],
         now \in Nat, now' \in Nat, now <= now'
  PROVE  Monitor!GrantsWithinLimit'
  <1> SUFFICES ASSUME NEW s \in Clients, NEW kind \in Monitor!Kinds
               PROVE  Monitor!Total(audit', Monitor!Live(Monitor!Granted(s, kind))') < Limits[kind]
    BY DEF Monitor!GrantsWithinLimit
  <1> DEFINE old == Monitor!Live(Monitor!Granted(s, kind))
             new == old'
  <1>1. new \in SUBSET old /\ old \subseteq Monitor!Entries
    BY TimesAssumption DEF Monitor!Live, Monitor!Granted, Monitor!Entries, Monitor!Times
  <1>2. IsFiniteSet(old)
    BY LiveIsThrough, ThroughBounded DEF MonitorInv
  <1>3. Monitor!Total(audit, old) < Limits[kind]
    BY DEF MonitorInv, Monitor!GrantsWithinLimit
  <1>4. audit \in [Monitor!Entries -> Nat] /\ Limits[kind] \in Nat
    BY LimitsAssumption DEF MonitorInv, MonitorTypeInv, Monitor!Kinds
  <1> HIDE DEF new, old
  <1>5. \A x \in old : audit'[x] \in Nat /\ audit[x] \in Nat /\ audit'[x] <= audit[x]
    BY <1>1, <1>4
  <1>6. /\ Monitor!Total(audit', new) \in Nat /\ Monitor!Total(audit, old) \in Nat
        /\ Monitor!Total(audit', new) <= Monitor!Total(audit, old)
    BY <1>1, <1>2, <1>5, TotalLess
  <1>7. Monitor!Total(audit', new) < Limits[kind]
    BY <1>3, <1>4, <1>6
  <1> QED BY <1>7 DEF new, old

\* A request that is let through leaves room below the limit.
LEMMA RequestStepSecurity ==
  ASSUME MonitorInv, NEW s \in Clients, NEW role \in Monitor!Roles, NEW kind \in Monitor!Kinds,
         NEW target \in Monitor!Targets, NEW t \in Monitor!Times,
         Monitor!ProcessRequest(s, role, kind, target, t)
  PROVE  MonitorInv'
  <1> DEFINE result == Monitor!ValidateRequest(role, kind, target)
             policy == Monitor!Violated(role, kind, target)
             x == <<s, kind, result, t>>
  <1>0. /\ now \in Nat /\ now' = now
        /\ history \in [Clients -> [Monitor!Times -> Nat]] /\ audit \in [Monitor!Entries -> Nat]
        /\ metrics \in [Monitor!PolicyResult -> Nat] /\ violations \in [{"P1", "P2", "P3"} -> Nat]
        /\ notices \in Nat /\ received \in Nat /\ received' = received + 1
        /\ enable_notifications \in BOOLEAN /\ enable_notifications' = enable_notifications
        /\ history' = [history EXCEPT ![s][t] = @ + 1]
    BY DEF MonitorInv, MonitorTypeInv, Monitor!ProcessRequest
  <1>1. /\ result \in Monitor!PolicyResult
        /\ policy \in {"none", "P1", "P2", "P3"} /\ (result = "allow" <=> policy = "none")
    BY DEF Monitor!ValidateRequest, Monitor!Violated, Monitor!PolicyResult
  <1>2. x \in Monitor!Entries
    BY <1>1 DEF Monitor!Entries
  <1>3. history' \in [Clients -> [Monitor!Times -> Nat]]
    BY <1>0
  <1>4. \A c \in Clients, u \in Monitor!Times :
            /\ history[c][u] \in Nat
            /\ history'[c][u] = IF c = s /\ u = t THEN history[c][u] + 1 ELSE history[c][u]
    BY <1>0
  <1>5. HistoryInv /\ Monitor!GrantsWithinLimit /\ Monitor!DecisionsAccounted
    BY DEF MonitorInv
  <1>6. CASE Monitor!Refuse /\ ~Monitor!CheckRateLimit(s, kind, t)
    <2>1. /\ UNCHANGED <<audit, metrics, violations>>
          /\ notices' = IF enable_notifications THEN notices + 1 ELSE notices
      BY <1>6 DEF Monitor!Refuse, Monitor!HandleViolation
    <2>2. MonitorTypeInv'
      BY <1>0, <1>3, <2>1 DEF MonitorTypeInv
    <2>3. HistoryInv'
      <3> SUFFICES ASSUME NEW c \in Clients, NEW k \in Monitor!Kinds, NEW u \in Monitor!Times
                   PROVE  audit'[<<c, k, "allow", u>>] + audit'[<<c, k, "audit", u>>] <= history'[c][u]
        BY DEF HistoryInv
      <3>1. <<c, k, "allow", u>> \in Monitor!Entries /\ <<c, k, "audit", u>> \in Monitor!Entries
        BY DEF Monitor!Entries, Monitor!PolicyResult
      <3>2. audit[<<c, k, "allow", u>>] \in Nat /\ audit[<<c, k, "audit", u>>] \in Nat
        BY <1>0, <3>1
      <3>3. audit[<<c, k, "allow", u>>] + audit[<<c, k, "audit", u>>] <= history[c][u]
        BY <1>5 DEF HistoryInv
      <3> QED BY <1>4, <2>1, <3>2, <3>3
    <2>4. Monitor!GrantsWithinLimit'
      BY <1>0, <2>1, LimitKept
    <2>5. Monitor!DecisionsAccounted'
      <3>1. metrics["allow"] \in Nat
        BY <1>0 DEF Monitor!PolicyResult
      <3>2. notices = IF enable_notifications THEN received - metrics["allow"] ELSE 0
        BY <1>5 DEF Monitor!DecisionsAccounted
      <3>3. notices' = IF enable_notifications' THEN received' - metrics'["allow"] ELSE 0
        <4>1. CASE enable_notifications
          BY <1>0, <2>1, <3>1, <3>2, <4>1
        <4>2. CASE ~enable_notifications
          BY <1>0, <2>1, <3>1, <3>2, <4>2
        <4> QED BY <4>1, <4>2
      <3> QED BY <1>5, <2>1, <3>3 DEF Monitor!DecisionsAccounted
    <2> QED BY <2>2, <2>3, <2>4, <2>5 DEF MonitorInv
  <1>7. CASE Monitor!Judge(s, role, kind, target, t) /\ Monitor!CheckRateLimit(s, kind, t)
    <2>1. /\ audit' = [audit EXCEPT ![x] = @ + 1]
          /\ metrics' = [metrics EXCEPT ![result] = @ + 1]
          /\ violations' = IF policy = "none" THEN violations ELSE [violations EXCEPT ![policy] = @ + 1]
          /\ notices' = IF result # "allow" /\ enable_notifications THEN notices + 1 ELSE notices
      BY <1>7 DEF Monitor!Judge, Monitor!UpdateMetrics, Monitor!HandleViolation
    <2> HIDE DEF result, policy, x
    <2>2. MonitorTypeInv'
      <3>1. audit' \in [Monitor!Entries -> Nat]
        BY <1>0, <1>2, <2>1
      <3>2. metrics' \in [Monitor!PolicyResult -> Nat]
        BY <1>0, <1>1, <2>1
      <3>3. violations' \in [{"P1", "P2", "P3"} -> Nat] /\ notices' \in Nat
        BY <1>0, <1>1, <2>1
      <3> QED BY <1>0, <1>3, <3>1, <3>2, <3>3 DEF MonitorTypeInv
    <2>3. \A e \in Monitor!Entries :
              /\ audit[e] \in Nat /\ audit'[e] \in Nat
              /\ audit'[e] = IF e = x THEN audit[e] + 1 ELSE audit[e]
      BY <1>0, <1>2, <2>1
    <2>4. HistoryInv'
      <3> SUFFICES ASSUME NEW c \in Clients, NEW k \in Monitor!Kinds, NEW u \in Monitor!Times
                   PROVE  audit'[<<c, k, "allow", u>>] + audit'[<<c, k, "audit", u>>] <= history'[c][u]
        BY DEF HistoryInv
      <3> DEFINE a == <<c, k, "allow", u>>
                 b == <<c, k, "audit", u>>
      <3>1. a \in Monitor!Entries /\ b \in Monitor!Entries /\ a # b
        BY DEF Monitor!Entries, Monitor!PolicyResult
      <3>2. audit[a] + audit[b] <= history[c][u]
        BY <1>5 DEF HistoryInv
      <3>3. a = x \/ b = x => c = s /\ u = t
        BY DEF x
      <3> HIDE DEF a, b
      <3>4. audit'[a] + audit'[b] <= history'[c][u]
        BY <1>4, <2>3, <3>1, <3>2, <3>3
      <3> QED BY <3>4 DEF a, b
    <2>5. Monitor!GrantsWithinLimit'
      <3> SUFFICES ASSUME NEW c \in Clients, NEW k \in Monitor!Kinds
                   PROVE  Monitor!Total(audit', Monitor!Live(Monitor!Granted(c, k))') < Limits[k]
        BY DEF Monitor!GrantsWithinLimit
      <3> DEFINE W == Monitor!Recent(Monitor!Times)
                 L == Through(c, k, W)
      <3>1. Monitor!Live(Monitor!Granted(c, k))' = L /\ Monitor!Live(Monitor!Granted(c, k)) = L
        <4>1. Monitor!Live(Monitor!Granted(c, k))' = Monitor!Live(Monitor!Granted(c, k))
          BY <1>0 DEF Monitor!Live, Monitor!Granted
        <4> QED BY <4>1, LiveIsThrough
      <3>2. /\ IsFiniteSet(L) /\ L \subseteq Monitor!Entries
            /\ Monitor!Total(audit, L) \in Nat /\ Monitor!Total(history[c], W) \in Nat
            /\ Monitor!Total(audit, L) <= Monitor!Total(history[c], W)
        <4>1. W \in SUBSET Monitor!Times
          BY LiveIsThrough
        <4>2. L \subseteq Monitor!Entries
          BY DEF Through
        <4> HIDE DEF W
        <4> QED BY <4>1, <4>2, ThroughBounded DEF MonitorInv
      <3>3. x \in L => c = s /\ k = kind /\ t \in W
        BY DEF Through, x
      <3>4. Monitor!Total(history[s], W) + (IF t \in W THEN 1 ELSE 0) < Limits[kind]
        BY <1>7 DEF Monitor!CheckRateLimit
      <3>5. Monitor!Total(audit, L) < Limits[k]
        BY <1>5, <3>1 DEF Monitor!GrantsWithinLimit
      <3>6. Limits[k] \in Nat
        BY LimitsAssumption DEF Monitor!Kinds
      <3> HIDE DEF L, W
      <3>7. Monitor!Total(audit', L) < Limits[k]
        <4>1. CASE x \in L
          <5>1. \A e \in L : audit[e] \in Nat /\ audit'[e] \in Nat /\ (e # x => audit'[e] = audit[e])
            BY <2>3, <3>2
          <5>2. Monitor!Total(audit', L) = Monitor!Total(audit, L) + audit'[x] - audit[x]
            BY <3>2, <4>1, <5>1, TotalChange
          <5>3. Monitor!Total(audit', L) = Monitor!Total(audit, L) + 1
            BY <1>2, <2>3, <3>2, <5>2
          <5>4. Monitor!Total(history[c], W) + 1 < Limits[k]
            BY <3>3, <3>4, <4>1
          <5> QED BY <3>2, <3>6, <5>3, <5>4
        <4>2. CASE x \notin L
          <5>1. \A e \in L : audit[e] \in Nat /\ audit'[e] = audit[e]
            BY <2>3, <3>2, <4>2
          <5>2. Monitor!Total(audit', L) = Monitor!Total(audit, L)
            BY <3>2, <5>1, TotalSame
          <5> QED BY <3>5, <5>2
        <4> QED BY <4>1, <4>2
      <3> QED BY <3>1, <3>7
    <2>6. Monitor!DecisionsAccounted'
      <3> DEFINE D == {"P1", "P2", "P3"}
      <3>1. IsFiniteSet(D)
        <4>1. D = {"P1"} \cup {"P2"} \cup {"P3"}
          OBVIOUS
        <4> HIDE DEF D
        <4> QED BY <4>1, FS_Singleton, FS_Union
      <3>2. DOMAIN violations = D /\ DOMAIN violations' = D
        BY <1>0, <2>2 DEF MonitorTypeInv
      <3>3. \A p \in D : /\ violations[p] \in Nat /\ violations'[p] \in Nat
                         /\ violations'[p] = IF p = policy THEN violations[p] + 1 ELSE violations[p]
        BY <1>0, <1>1, <2>1
      <3>4. Monitor!Total(violations, D) = metrics["deny"] + metrics["audit"]
        BY <1>5, <3>2 DEF Monitor!DecisionsAccounted
      <3>5. /\ metrics["deny"] \in Nat /\ metrics["audit"] \in Nat
            /\ metrics["allow"] \in Nat
            /\ metrics'["allow"] = metrics["allow"] + (IF result = "allow" THEN 1 ELSE 0)
            /\ metrics'["deny"] + metrics'["audit"] =
                   metrics["deny"] + metrics["audit"] + (IF result = "allow" THEN 0 ELSE 1)
        BY <1>0, <1>1, <2>1 DEF Monitor!PolicyResult
      <3>6. policy \in D \/ policy = "none"
        BY <1>1
      <3>6a. "none" \notin D
        OBVIOUS
      <3> HIDE DEF D
      <3>7. Monitor!Total(violations', D) =
                Monitor!Total(violations, D) + (IF result = "allow" THEN 0 ELSE 1)
        <4>1. CASE policy \in D
          <5>1. \A p \in D : /\ violations[p] \in Nat /\ violations'[p] \in Nat
                             /\ (p # policy => violations'[p] = violations[p])
            BY <3>3
          <5>2. /\ Monitor!Total(violations, D) \in Nat
                /\ Monitor!Total(violations', D) =
                    Monitor!Total(violations, D) + violations'[policy] - violations[policy]
            BY <3>1, <4>1, <5>1, TotalChange
          <5>3. violations'[policy] = violations[policy] + 1 /\ violations[policy] \in Nat
            BY <3>3, <4>1
          <5>4. result # "allow"
            BY <1>1, <3>6a, <4>1
          <5> QED BY <5>2, <5>3, <5>4
        <4>2. CASE policy = "none"
          <5>1. violations' = violations /\ result = "allow"
            BY <1>1, <2>1, <4>2
          <5>2. Monitor!Total(violations, D) \in Nat
            <6>1. \A p \in D : violations[p] \in Nat /\ violations[p] = violations[p]
              BY <3>3
            <6> QED BY <3>1, <6>1, TotalSame
          <5> QED BY <5>1, <5>2
        <4> QED BY <3>6, <4>1, <4>2
      <3>9. notices = IF enable_notifications THEN received - metrics["allow"] ELSE 0
        BY <1>5 DEF Monitor!DecisionsAccounted
      <3>10. Monitor!Total(violations', DOMAIN violations') = metrics'["deny"] + metrics'["audit"]
        BY <3>2, <3>4, <3>5, <3>7
      <3>11. notices' = IF enable_notifications' THEN received' - metrics'["allow"] ELSE 0
        <4>1. CASE enable_notifications
          <5>1. /\ notices = received - metrics["allow"]
                /\ notices' = IF result # "allow" THEN notices + 1 ELSE notices
                /\ enable_notifications' = enable_notifications /\ received' = received + 1
            BY <1>0, <2>1, <3>9, <4>1, Zenon
          <5>2. /\ metrics'["allow"] = metrics["allow"] + (IF result = "allow" THEN 1 ELSE 0)
                /\ metrics["allow"] \in Nat /\ received \in Nat /\ notices \in Nat
            BY <1>0, <3>5
          <5>3. notices' = received' - metrics'["allow"]
            <6>1. CASE result = "allow"
              BY <5>1, <5>2, <6>1
            <6>2. CASE result # "allow"
              BY <5>1, <5>2, <6>2
            <6> QED BY <6>1, <6>2
          <5> QED BY <4>1, <5>1, <5>3, Zenon
        <4>2. CASE ~enable_notifications
          BY SMTT(30), <1>0, <2>1, <3>9, <4>2
        <4> QED BY <4>1, <4>2
      <3> QED BY <3>10, <3>11 DEF Monitor!DecisionsAccounted
    <2> QED BY <2>2, <2>4, <2>5, <2>6 DEF MonitorInv
  <1> QED BY <1>6, <1>7 DEF Monitor!ProcessRequest

\* However requests, the clock and the cleanup come, no window lets through as
\* much as the limit of a sender and kind; what was denied or audited has its
\* violation, and, if the service notifies, every request but those it allowed
\* has one notice.
THEOREM LimitIsKept == MCSpec => []GrantsWithinLimit
  <1>1. MCInit => MonitorInv
    <2> SUFFICES ASSUME Monitor!Init PROVE MonitorInv
      BY DEF MCInit
    <2>1. MonitorTypeInv
      BY DEF Monitor!Init, MonitorTypeInv
    <2>2. HistoryInv
      BY DEF Monitor!Init, HistoryInv, Monitor!Entries, Monitor!PolicyResult
    <2>3. Monitor!GrantsWithinLimit
      <3> SUFFICES ASSUME NEW s \in Clients, NEW kind \in Monitor!Kinds
                   PROVE  Monitor!Total(audit, Monitor!Live(Monitor!Granted(s, kind))) < Limits[kind]
        BY DEF Monitor!GrantsWithinLimit
      <3> DEFINE L == Monitor!Live(Monitor!Granted(s, kind))
      <3>1. IsFiniteSet(L) /\ L \subseteq Monitor!Entries
        <4>1. L \subseteq Monitor!Entries
          BY DEF Monitor!Live, Monitor!Granted
        <4>2. IsFiniteSet(L)
          BY <2>1, <2>2, LiveIsThrough, ThroughBounded
        <4> QED BY <4>1, <4>2
      <3> HIDE DEF L
      <3>2. \A e \in L : audit[e] = 0
        BY <3>1 DEF Monitor!Init
      <3>3. Monitor!Total(audit, L) = 0
        BY <3>1, <3>2, TotalZero
      <3> QED BY <3>3, LimitsAssumption DEF L, Monitor!Kinds
    <2>4. Monitor!DecisionsAccounted
      <3> DEFINE D == {"P1", "P2", "P3"}
      <3>1. IsFiniteSet(D)
        <4>1. D = {"P1"} \cup {"P2"} \cup {"P3"}
          OBVIOUS
        <4> HIDE DEF D
        <4> QED BY <4>1, FS_Singleton, FS_Union
      <3>2. DOMAIN violations = D /\ \A p \in D : violations[p] = 0
        BY DEF Monitor!Init
      <3> HIDE DEF D
      <3>3. Monitor!Total(violations, D) = 0
        BY <3>1, <3>2, TotalZero
      <3> QED BY <3>2, <3>3 DEF Monitor!Init, Monitor!DecisionsAccounted, Monitor!PolicyResult
    <2> QED BY <2>1, <2>2, <2>3, <2>4 DEF MonitorInv
  <1>2. MonitorInv /\ [MCNext]_operatorVars => MonitorInv'
    <2> SUFFICES ASSUME MonitorInv, [MCNext]_operatorVars PROVE MonitorInv'
      OBVIOUS
    <2>0. /\ now \in Nat /\ audit \in [Monitor!Entries -> Nat]
          /\ history \in [Clients -> [Monitor!Times -> Nat]]
      BY DEF MonitorInv, MonitorTypeInv
    <2>1. ASSUME UNCHANGED <<enable_notifications, received, history, audit, metrics, violations, notices>>,
                 now' \in Nat, now <= now'
          PROVE  MonitorInv'
      <3>1. Monitor!GrantsWithinLimit'
        BY <2>0, <2>1, LimitKept
      <3>2. Monitor!DecisionsAccounted'
        BY <2>1 DEF MonitorInv, Monitor!DecisionsAccounted
      <3> QED BY <2>1, <3>1, <3>2 DEF MonitorInv, MonitorTypeInv, HistoryInv
    <2>2. CASE Monitor!CleanupOldData
      <3>1. /\ history' = [s \in Clients |->
                    [t \in Monitor!Times |-> IF t < now - Retention THEN 0 ELSE history[s][t]]]
            /\ audit' = [e \in Monitor!Entries |-> IF e[4] < now - Retention THEN 0 ELSE audit[e]]
            /\ UNCHANGED <<enable_notifications, now, received, metrics, violations, notices>>
        BY <2>2 DEF Monitor!CleanupOldData
      <3>2. /\ history' \in [Clients -> [Monitor!Times -> Nat]]
            /\ audit' \in [Monitor!Entries -> Nat]
        BY <2>0, <3>1
      <3>3. MonitorTypeInv'
        BY <3>1, <3>2 DEF MonitorInv, MonitorTypeInv
      <3>4. HistoryInv'
        <4> SUFFICES ASSUME NEW s \in Clients, NEW kind \in Monitor!Kinds, NEW t \in Monitor!Times
                     PROVE  audit'[<<s, kind, "allow", t>>] + audit'[<<s, kind, "audit", t>>] <= history'[s][t]
          BY DEF HistoryInv
        <4>1. <<s, kind, "allow", t>> \in Monitor!Entries /\ <<s, kind, "audit", t>> \in Monitor!Entries
          BY DEF Monitor!Entries, Monitor!PolicyResult
        <4>2. audit[<<s, kind, "allow", t>>] + audit[<<s, kind, "audit", t>>] <= history[s][t]
          BY DEF MonitorInv, HistoryInv
        <4>3. CASE t < now - Retention
          BY <3>1, <4>1, <4>3
        <4>4. CASE ~(t < now - Retention)
          BY <3>1, <4>1, <4>2, <4>4
        <4> QED BY <4>3, <4>4
      <3>5. Monitor!GrantsWithinLimit'
        <4>1. \A e \in Monitor!Entries : audit'[e] <= audit[e]
          BY <2>0, <3>1
        <4> QED BY <2>0, <3>1, <3>2, <4>1, LimitKept
      <3>6. Monitor!DecisionsAccounted'
        BY <3>1 DEF MonitorInv, Monitor!DecisionsAccounted
      <3> QED BY <3>3, <3>4, <3>5, <3>6 DEF MonitorInv
    <2>3. CASE Monitor!Tick
      BY <2>0, <2>1, <2>3 DEF Monitor!Tick
    <2>4. CASE UNCHANGED monitorPart
      BY <2>0, <2>1, <2>4 DEF monitorPart
    <2>5. CASE Monitor!Next
      BY <2>2, <2>3, <2>5, RequestStepSecurity DEF Monitor!Next
    <2> QED BY <2>4, <2>5 DEF MCNext, operatorVars
  <1>3. MonitorInv => GrantsWithinLimit
    BY DEF MonitorInv, GrantsWithinLimit
  <1> QED BY <1>1, <1>2, <1>3, PTL DEF MCSpec
=============================================================================
