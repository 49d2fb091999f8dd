---------------------------- MODULE FleetManager ----------------------------
(***************************************************************************)
(* The operator's fleet manager: FleetManagerCore, FleetManagerService and *)
(* the handlers of FleetManagerComponent (systems/operator/src/            *)
(* fleet_manager/src).  The message bus runs the handlers in a thread      *)
(* pool and none of the three classes takes a lock, so handlers interleave *)
(* at every point where CPython 3.12 (the image of the component) may      *)
(* switch threads: function calls and loop jumps.  Statements without a    *)
(* call between them are one step.                                         *)
(***************************************************************************)
EXTENDS Naturals, FiniteSets

CONSTANTS
    Threads,        \* workers of the bus that run handlers
    OneBuyer,       \* TRUE: purchases do not overlap one another; FALSE: they may
    MaxUAS,         \* bound: UAS-001 .. UAS-00<MaxUAS>
    DefaultFleet,   \* the ids _init_default_fleet adds
    Missions,       \* values of mission_id
    OperatorLike,   \* those that start with "operator_"
    Senders,        \* who sends release_uas
    UpdateRequests, \* the updates update_uas_status may be sent
    MaxBuys,        \* bound: units bought
    None            \* Python's None

Ids == 1 .. MaxUAS

UASStatus == {"available", "reserved", "in_mission", "maintenance", "charging", "error"}

\* An update may name the status, the battery and the certificate; "keep" is a
\* field it does not name, "bad" an invalid value.
Updates == [status : UASStatus \cup {"keep", "bad"},
            battery : {"keep", "bad", "low", "ok"},
            cert : {"keep", "valid", "revoked", "renewed"}]

ASSUME BuyerAssumption   == OneBuyer \in BOOLEAN
ASSUME BoundsAssumption  == MaxUAS \in Nat /\ MaxBuys \in Nat
ASSUME FleetAssumption   == DefaultFleet \subseteq Ids
ASSUME NamesAssumption   == None \notin Missions /\ OperatorLike \subseteq Missions

ASSUME UpdatesAssumption == UpdateRequests \subseteq Updates

VARIABLES
    status,       \* core: status of each id, "absent" when it is not in _fleet_state
    certValid,    \* core: certificate_valid
    expired,      \* core: certificate_expiry is in the past
    charged,      \* core: battery_level >= 0.3
    reservedBy,   \* core: reserved_by
    extended,     \* service: the keys of _fleet_extended
    reservations, \* service: mission_id of each entry of _reservations
    bought,       \* service: entries of _purchase_history per id
    units,        \* units paid for so far
    grants,       \* history: missions told "success" for an id, not released since
    withdrawn,    \* history: threads on their way to a reservation of a unit that
                  \* has lost its certificate since they looked at it
    overtaken,    \* history: ids whose holder has changed, or whose state was
                  \* stored anew, under a handler that has yet to cache it
    pc, arg       \* per thread: where its handler is, and the request it serves

core    == <<status, certValid, expired, charged, reservedBy>>
service == <<extended, reservations, bought, units>>
hindsight == <<grants, withdrawn, overtaken>>
vars    == <<core, service, hindsight, pc, arg>>

\* A request: op, the id it names, and who (mission, sender) or what (updates).
Requests == [op  : {"none", "reserve", "release", "update", "purchase"},
             uas : 0 .. MaxUAS,
             who : Missions \cup Senders \cup UpdateRequests \cup {None}]
NoRequest == [op |-> "none", uas |-> 0, who |-> None]

Idle(t) == pc[t] = "idle"

Begin(t, where, request) ==
    /\ Idle(t)
    /\ pc' = [pc EXCEPT ![t] = where]
    /\ arg' = [arg EXCEPT ![t] = request]
    /\ UNCHANGED <<core, service, hindsight>>

Goto(t, where) == pc' = [pc EXCEPT ![t] = where] /\ UNCHANGED arg
Answer(t) == pc' = [pc EXCEPT ![t] = "idle"] /\ arg' = [arg EXCEPT ![t] = NoRequest]

\* Handlers that serve a reservation of u and have come to one of these points.
Reserving(u, points) ==
    {t \in Threads : pc[t] \in points /\ arg[t].op = "reserve" /\ arg[t].uas = u}

\* u has lost its certificate: the handlers that have checked it do not know.
Withdraw(u, checked) == withdrawn' = withdrawn \cup Reserving(u, checked)

\* initialize_fleet: the default fleet, or none when developer catalogs exist.
Init ==
    \E fleet \in {{}, DefaultFleet} :
        /\ status       = [u \in Ids |-> IF u \in fleet THEN "available" ELSE "absent"]
        /\ certValid    = [u \in Ids |-> TRUE]
        /\ expired      = [u \in Ids |-> FALSE]
        /\ charged      = [u \in Ids |-> TRUE]
        /\ reservedBy   = [u \in Ids |-> None]
        /\ extended     = fleet
        /\ reservations = [u \in Ids |-> None]
        /\ bought       = [u \in Ids |-> 0]
        /\ units        = 0
        /\ grants       = [u \in Ids |-> {}]
        /\ withdrawn    = {}
        /\ overtaken    = {}
        /\ pc           = [t \in Threads |-> "idle"]
        /\ arg          = [t \in Threads |-> NoRequest]

-----------------------------------------------------------------------------
(* reserve_uas and release_uas: _handle_* -> service -> core.               *)

Reserve(t, u, m) == Begin(t, "authorize", [op |-> "reserve", uas |-> u, who |-> m])
Release(t, u, s) == Begin(t, "authorize", [op |-> "release", uas |-> u, who |-> s])

\* Mutant of CheckCertificate: certificate_valid is not looked at.
CheckCertificateExists(t) ==
    /\ pc[t] = "authorize"
    /\ IF status[arg[t].uas] = "absent" THEN Answer(t) ELSE Goto(t, "expiry")
    /\ UNCHANGED <<core, service, hindsight>>

\* authorize_uas_operation, up to its call of _is_certificate_valid.
CheckCertificate(t) ==
    LET u == arg[t].uas IN
    /\ pc[t] = "authorize"
    /\ IF status[u] = "absent" \/ ~certValid[u]
         THEN Answer(t)
         ELSE Goto(t, "expiry")
    /\ UNCHANGED <<core, service, hindsight>>

\* _is_certificate_valid: the expiry date against the clock.
CheckExpiry(t) ==
    /\ pc[t] = "expiry"
    /\ \/ expired[arg[t].uas] /\ Answer(t) /\ withdrawn' = withdrawn \ {t}
       \/ ~expired[arg[t].uas] /\ Goto(t, arg[t].op) /\ UNCHANGED withdrawn
    /\ UNCHANGED <<core, service, grants, overtaken>>

\* The rest of authorize_uas_operation and of reserve_uas: there is no call
\* between the check of the status and the two assignments.
ReserveIf(t, free, new) ==
    LET u == arg[t].uas
        m == arg[t].who
    IN
    /\ pc[t] = "reserve"
    /\ withdrawn' = withdrawn \ {t}
    /\ \/ /\ status[u] \in free
          /\ status' = [status EXCEPT ![u] = new]
          /\ reservedBy' = [reservedBy EXCEPT ![u] = m]
          /\ grants' = [grants EXCEPT ![u] = @ \cup {m}]
          /\ overtaken' = IF Reserving(u, {"cache"}) = {} THEN overtaken ELSE overtaken \cup {u}
          /\ Goto(t, "cache")
       \/ /\ status[u] \notin free
          /\ Answer(t)
          /\ UNCHANGED <<status, reservedBy, grants, overtaken>>
    /\ UNCHANGED <<certValid, expired, charged, service>>

\* Mutants of CommitReserve: only the status check of authorize_uas_operation;
\* reserved_by is written, the status is not.
CommitReserveAuthorized(t) == ReserveIf(t, {"available", "reserved"}, "reserved")
CommitReserveKeepsStatus(t) == ReserveIf(t, {"available"}, "available")

CommitReserve(t) == ReserveIf(t, {"available"}, "reserved")

\* reserve_uas_with_validation stores the reservation and answers success.
CacheReservation(t) ==
    /\ pc[t] = "cache"
    /\ reservations' = [reservations EXCEPT ![arg[t].uas] = arg[t].who]
    /\ Answer(t)
    /\ UNCHANGED <<core, extended, bought, units, hindsight>>

\* The check of the release branch of authorize_uas_operation.
CheckReleaser(t) ==
    LET u == arg[t].uas IN
    /\ pc[t] = "release"
    /\ IF reservedBy[u] \in OperatorLike /\ reservedBy[u] # arg[t].who
         THEN Answer(t)
         ELSE Goto(t, "free")
    /\ UNCHANGED <<core, service, hindsight>>

\* release_uas of the core, once its caller is authorised ...
ReleaseUas(u) ==
    /\ status' = [status EXCEPT ![u] = "available"]
    /\ reservedBy' = [reservedBy EXCEPT ![u] = None]
    /\ grants' = [grants EXCEPT ![u] = {}]
    /\ overtaken' = IF Reserving(u, {"cache"}) = {} THEN overtaken \ {u} ELSE overtaken \cup {u}

\* Mutant of CommitRelease: the entry of _reservations stays.
CommitReleaseKeepsCache(t) ==
    LET u == arg[t].uas IN
    /\ pc[t] = "free"
    /\ ReleaseUas(u)
    /\ Answer(t)
    /\ UNCHANGED <<certValid, expired, charged, service, withdrawn>>

\* ... and the cleanup of release_uas_with_cleanup.
CommitRelease(t) ==
    LET u == arg[t].uas IN
    /\ pc[t] = "free"
    /\ ReleaseUas(u)
    /\ reservations' = [reservations EXCEPT ![u] = None]
    /\ Answer(t)
    /\ UNCHANGED <<certValid, expired, charged, extended, bought, units, withdrawn>>

-----------------------------------------------------------------------------
(* update_uas_status.                                                       *)

Update(t, u, upd) == Begin(t, "update", [op |-> "update", uas |-> u, who |-> upd])

\* update_uas_state writes the status at once.  Making a unit available is the
\* operator's own decision to take it from whoever holds it.
UpdateStatus(t) ==
    LET u   == arg[t].uas
        new == arg[t].who.status
    IN
    /\ pc[t] = "update"
    /\ \/ /\ status[u] = "absent" \/ new = "bad"
          /\ Answer(t)
          /\ UNCHANGED <<status, grants>>
       \/ /\ status[u] # "absent" /\ new = "keep"
          /\ Goto(t, "fields")
          /\ UNCHANGED <<status, grants>>
       \/ /\ status[u] # "absent" /\ new \in UASStatus
          /\ status' = [status EXCEPT ![u] = new]
          /\ grants' = IF new = "available" THEN [grants EXCEPT ![u] = {}] ELSE grants
          /\ Goto(t, "fields")
    /\ UNCHANGED <<certValid, expired, charged, reservedBy, service, withdrawn, overtaken>>

\* An invalid battery level ends the update, with the status already written.
UpdateFields(t) ==
    LET u   == arg[t].uas
        upd == arg[t].who
    IN
    /\ pc[t] = "fields"
    /\ \/ /\ upd.battery = "bad"
          /\ UNCHANGED <<certValid, expired, charged, withdrawn>>
       \/ /\ upd.battery # "bad"
          /\ charged' = [charged EXCEPT ![u] = IF upd.battery = "keep" THEN @ ELSE upd.battery = "ok"]
          /\ certValid' = [certValid EXCEPT ![u] = (@ /\ upd.cert # "revoked") \/ upd.cert = "valid"]
          /\ expired' = [expired EXCEPT ![u] = @ /\ upd.cert # "renewed"]
          /\ IF upd.cert = "revoked" THEN Withdraw(u, {"expiry", "reserve"}) ELSE UNCHANGED withdrawn
    /\ Answer(t)
    /\ UNCHANGED <<status, reservedBy, service, grants, overtaken>>

-----------------------------------------------------------------------------
(* purchase_uas, one unit: the developer confirmed the sale (external).     *)

\* The ids _next_uas_id would return: not in the core, not in _fleet_extended.
FreeIds == {u \in Ids \ extended : status[u] = "absent"}
IsNextId(u) == u \in FreeIds /\ \A v \in FreeIds : u <= v

\* _handle_purchase_uas up to the return of _next_uas_id.
Purchase(t) ==
    /\ units < MaxBuys
    /\ Idle(t)
    /\ OneBuyer => \A s \in Threads : arg[s].op # "purchase"
    /\ units' = units + 1
    /\ pc' = [pc EXCEPT ![t] = "add"]
    /\ \E u \in Ids :
         /\ IsNextId(u)
         /\ arg' = [arg EXCEPT ![t] = [op |-> "purchase", uas |-> u, who |-> None]]
    /\ UNCHANGED <<core, extended, reservations, bought, hindsight>>

\* add_uas refuses an id that is in the core by now: the unit is dropped.
AddCheck(t) ==
    /\ pc[t] = "add"
    /\ IF status[arg[t].uas] = "absent" THEN Goto(t, "store") ELSE Answer(t)
    /\ UNCHANGED <<core, service, hindsight>>

\* add_uas stores a fresh UASState, over whatever the id holds.
AddStore(t) ==
    LET u == arg[t].uas IN
    /\ pc[t] = "store"
    /\ status' = [status EXCEPT ![u] = "available"]
    /\ \E certified \in BOOLEAN :
         /\ certValid' = [certValid EXCEPT ![u] = certified]
         /\ IF certified THEN UNCHANGED withdrawn ELSE Withdraw(u, {"expiry", "reserve"})
    /\ expired' = [expired EXCEPT ![u] = FALSE]
    /\ charged' = [charged EXCEPT ![u] = TRUE]
    /\ reservedBy' = [reservedBy EXCEPT ![u] = None]
    /\ overtaken' = IF status[u] = "absent" THEN overtaken ELSE overtaken \cup {u}
    /\ Goto(t, "extend")
    /\ UNCHANGED <<service, grants>>

\* _fleet_extended and _purchase_history.
AddExtended(t) ==
    LET u == arg[t].uas IN
    /\ pc[t] = "extend"
    /\ extended' = extended \cup {u}
    /\ bought' = [bought EXCEPT ![u] = @ + 1]
    /\ Answer(t)
    /\ UNCHANGED <<core, reservations, units, hindsight>>

\* External: time passes a certificate's expiry date.
CertificateExpires(u) ==
    /\ status[u] # "absent" /\ ~expired[u]
    /\ expired' = [expired EXCEPT ![u] = TRUE]
    /\ Withdraw(u, {"reserve"})
    /\ UNCHANGED <<status, certValid, charged, reservedBy, service, grants, overtaken, pc, arg>>

-----------------------------------------------------------------------------
Step(t) ==
    \/ CheckCertificate(t) \/ CheckExpiry(t) \/ CommitReserve(t) \/ CacheReservation(t)
    \/ CheckReleaser(t) \/ CommitRelease(t) \/ UpdateStatus(t) \/ UpdateFields(t)
    \/ AddCheck(t) \/ AddStore(t) \/ AddExtended(t)

Request(t) ==
    \/ \E u \in Ids :
         \/ \E m \in Missions : Reserve(t, u, m)
         \/ \E s \in Senders : Release(t, u, s)
         \/ \E upd \in UpdateRequests : Update(t, u, upd)
    \/ Purchase(t)

Next == \/ \E t \in Threads : Request(t) \/ Step(t)
        \/ \E u \in Ids : CertificateExpires(u)

Spec == Init /\ [][Next]_vars

-----------------------------------------------------------------------------
(* Properties.                                                              *)

Locations == {"idle", "authorize", "expiry", "reserve", "cache", "release", "free",
              "update", "fields", "add", "store", "extend"}

TypeOK ==
    /\ status       \in [Ids -> UASStatus \cup {"absent"}]
    /\ certValid    \in [Ids -> BOOLEAN]
    /\ expired      \in [Ids -> BOOLEAN]
    /\ charged      \in [Ids -> BOOLEAN]
    /\ reservedBy   \in [Ids -> Missions \cup {None}]
    /\ extended     \in SUBSET Ids
    /\ reservations \in [Ids -> Missions \cup {None}]
    /\ bought       \in [Ids -> Nat]
    /\ units        \in Nat
    /\ grants       \in [Ids -> SUBSET Missions]
    /\ withdrawn    \in SUBSET Threads
    /\ overtaken    \in SUBSET Ids
    /\ pc           \in [Threads -> Locations]
    /\ arg          \in [Threads -> Requests]
    /\ \A t \in Threads : pc[t] # "idle" => arg[t].uas \in Ids

\* find_suitable_uas offers these ids.
Suitable(u) == u \in extended /\ status[u] = "available" /\ certValid[u] /\ charged[u]

\* No two missions hold one unit: reserve_uas answers success to a second
\* mission only after the unit was released or made available again, in
\* whatever way the handlers interleave ("atomic reservation").
OneHolder == \A u \in Ids : \A m, n \in grants[u] : m = n

\* The search never offers a unit that some mission still holds.
OfferedIsFree == \A u \in Ids : Suitable(u) => grants[u] = {}

\* While handlers overlap, the reservation cache of the service goes wrong in
\* one way only: the holder of a unit changed, or its state was stored anew,
\* under a handler that had yet to write its entry.  For every other unit, and
\* again from a release on that overtakes nobody, the cache says what the core
\* says as soon as no handler is between the two updates.
CacheFollowsCore ==
    \A u \in Ids \ overtaken :
        Reserving(u, {"cache"}) = {} => reservations[u] = reservedBy[u]

\* _next_uas_id "generates the next unique id": no id is bought twice.
UniquePurchaseIds == \A u \in Ids : bought[u] <= 1

\* A reservation without a valid certificate in date is one whose certificate was
\* good when this very handler looked at it, and was withdrawn, or ran out,
\* between that look and the reservation; no handler reserves on less.
StaleOnlyIfWithdrawn ==
    [][\A t \in Threads :
          CommitReserve(t) /\ pc'[t] = "cache"
            => t \in withdrawn \/ (certValid[arg[t].uas] /\ ~expired[arg[t].uas])]_vars
=============================================================================
