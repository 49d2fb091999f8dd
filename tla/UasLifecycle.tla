---------------------------- MODULE UasLifecycle ----------------------------
(* The drone developer's services (systems/uas_dev_company): a firmware is   *)
(* submitted and certified, drones with it are registered and sold, and a    *)
(* vulnerability takes its certificate back.  Firmware, certificates, drones *)
(* and purchases are four SQLite databases of four processes, without a      *)
(* transaction over two of them: an operation is a chain of commits and of   *)
(* calls to the other services and to the regulator, each with a timeout.    *)
EXTENDS Naturals, FiniteSets

CONSTANTS
  Calls,          \* the requests that reach the services
  Request,        \* what each asks for, with the sets of goals it may name
  Firmwares, CertIds, Serials, Operators, Goals,
  LocalCert,      \* the certificate id of a firmware without a regulator
  RegulatorGoals, \* the sets of goals the regulator may answer with
  MaxOpen,        \* bound: how many handlers are at work at once
  MaxGone,        \* bound: how many calls may break off
  None            \* an absent row, or an answer without goals

Kinds == {"submit", "certify", "report", "register", "purchase"}

Certificate == [firmware: Firmwares, status: {"active", "revoked"},
                goals: SUBSET Goals]

DroneRow == [firmware: Firmwares, certificate: CertIds, goals: SUBSET Goals,
             certificate_status: {"active", "revoked"},
             registration_status: {"registered_by_regulator", "revoked"},
             status: {"available", "sold", "sold_reregistered"},
             owner: Operators \cup {None}]

ASSUME RequestAssumption ==
  /\ Request \in [Calls -> [kind: Kinds, firmware: Firmwares, cert: CertIds,
                            serial: Serials, operator: Operators,
                            goals: SUBSET ({None} \cup SUBSET Goals)]]
  /\ \A c \in Calls : IF Request[c].kind \in {"submit", "register"}
                     THEN None \notin Request[c].goals
                     ELSE Request[c].goals = {None}
  /\ LocalCert \in [Firmwares -> CertIds]
  /\ RegulatorGoals \subseteq SUBSET Goals
  /\ \A G \in SUBSET Goals : G # None
  /\ None \notin Operators \cup Certificate \cup DroneRow

Kind(c) == Request[c].kind
FirmwareOf(c) == Request[c].firmware
SerialOf(c) == Request[c].serial
OperatorOf(c) == Request[c].operator

(* Where a handler is: on its way to the call or the commit of that name.    *)
Places ==
  {"idle", "done", "refused", "unheard", "insert_firmware",
   "load_firmware", "certify", "store_certificate",
   "assess", "decide", "apply", "narrow", "tell_fleet",
   "snapshot", "enrol", "insert_drone",
   "read_drone", "transfer", "insert_order", "update_drone", "import"}

Decisions == {"none", "revoke_certificate", "update_security_goals"}

VARIABLES
  integrated,    \* UAS_EXTERNAL_SYSTEMS_TRANSPORT is "bus": there is a regulator
  firmware,      \* firmware_versions: the goals of each, {} if there is none
  certs,         \* certificates, by id
  drones,        \* drones, by serial number
  orders,        \* purchases: the calls that inserted their order
  reregistered,  \* the purchases the regulator has re-registered the drone for
  imported,      \* those whose drone the operator's fleet has imported
  pc,            \* where the handler of each call is
  goals,         \* the goals it was sent or told, until it uses them
  certId,        \* the certificate it was given
  decision,      \* the regulator's decision it has to carry out
  rows,          \* the goals of drones its decision has read
  gone,          \* the calls that ended with an exception or in a crash
  seen           \* history: the calls that were done when a call arrived, but
                 \* for submissions, whose rows never change

(* The tables of the four databases whose rows decide about something.       *)
db == <<firmware, certs, drones, orders>>
outside == <<reregistered, imported>>
held == <<goals, certId, decision, rows>>
vars == <<integrated, db, outside, pc, held, gone, seen>>

Init ==
  /\ integrated \in BOOLEAN
  /\ firmware = [f \in Firmwares |-> {}]
  /\ certs = [k \in CertIds |-> None]
  /\ drones = [s \in Serials |-> None]
  /\ orders = {} /\ reregistered = {} /\ imported = {} /\ gone = {}
  /\ pc = [c \in Calls |-> "idle"]
  /\ goals = [c \in Calls |-> None]
  /\ certId = [c \in Calls |-> LocalCert[FirmwareOf(c)]]
  /\ decision = [c \in Calls |-> "none"]
  /\ rows = [c \in Calls |-> [s \in Serials |-> None]]
  /\ seen = [c \in Calls |-> {}]

(* A handler goes on only while it lives; a message it has sent is acted     *)
(* upon in any case, so that the steps of the services it calls ask only     *)
(* where it is, and nobody may be there to hear their answer.                *)
Live(c, at) == pc[c] = at /\ c \notin gone
Go(c, to) == pc' = [pc EXCEPT ![c] = to]
Heard(c, to) == IF c \in gone THEN "unheard" ELSE to
Ended(c) == pc[c] \in {"done", "refused"}
Open == {c \in Calls \ gone : pc[c] # "idle" /\ ~Ended(c)}

(* A request reaches its handler.  Without a regulator a report stores its   *)
(* incident, a row nothing here reads, and that is all.                      *)
Arrive(c) ==
  /\ pc[c] = "idle"
  /\ Cardinality(Open) < MaxOpen
  /\ Go(c, CASE Kind(c) = "submit" -> "insert_firmware"
             [] Kind(c) = "certify" -> "load_firmware"
             [] Kind(c) = "report" -> IF integrated THEN "assess" ELSE "done"
             [] Kind(c) = "register" -> "snapshot"
             [] Kind(c) = "purchase" -> "read_drone")
  /\ \E G \in Request[c].goals : goals' = [goals EXCEPT ![c] = G]
  /\ seen' = [seen EXCEPT ![c] = {d \in Calls : pc[d] = "done" /\ Kind(d) # "submit"}]
  /\ UNCHANGED <<integrated, db, outside, certId, decision, rows, gone>>

(* FirmwareService.submit: INSERT, with the id as primary key and at least   *)
(* one goal.                                                                 *)
Submit(c) ==
  /\ Live(c, "insert_firmware")
  /\ IF firmware[FirmwareOf(c)] = {} /\ goals[c] # {}
     THEN /\ firmware' = [firmware EXCEPT ![FirmwareOf(c)] = goals[c]]
          /\ Go(c, "done")
     ELSE Go(c, "refused") /\ UNCHANGED firmware
  /\ UNCHANGED <<integrated, certs, drones, orders, outside, held, gone, seen>>

----------------------------------------------------------------------------
(* CertificationService.certify: the row of the firmware, then the           *)
(* regulator's answer or a certificate made here, then one commit, which     *)
(* replaces a certificate of that id.                                        *)
LoadFirmware(c) ==
  /\ Live(c, "load_firmware")
  /\ IF firmware[FirmwareOf(c)] = {}
     THEN Go(c, "refused") /\ UNCHANGED goals
     ELSE /\ goals' = [goals EXCEPT ![c] = firmware[FirmwareOf(c)]]
          /\ Go(c, IF integrated THEN "certify" ELSE "store_certificate")
  /\ UNCHANGED <<integrated, db, outside, certId, decision, rows, gone, seen>>

RegulatorCertifies(c) ==
  /\ Live(c, "certify")
  /\ \/ Go(c, "refused") /\ UNCHANGED <<goals, certId>>
     \/ \E k \in CertIds, G \in (RegulatorGoals \ {{}}) \cup {goals[c]} :
          /\ goals' = [goals EXCEPT ![c] = G]
          /\ certId' = [certId EXCEPT ![c] = k]
          /\ Go(c, "store_certificate")
  /\ UNCHANGED <<integrated, db, outside, decision, rows, gone, seen>>

StoreCertificate(c) ==
  /\ Live(c, "store_certificate")
  /\ certs' = [certs EXCEPT ![certId[c]] =
       [firmware |-> FirmwareOf(c), status |-> "active",
        goals |-> goals[c]]]
  /\ Go(c, "done")
  /\ UNCHANGED <<integrated, firmware, drones, orders, outside, held, gone, seen>>

----------------------------------------------------------------------------
(* CriticalVulnerabilityService.report: the regulator decides, the decision  *)
(* is committed to the certificates of the firmware, then sent to the        *)
(* registry for its drones, then to the operator's fleet.                    *)
RegulatorAssesses(c) ==
  /\ Live(c, "assess")
  /\ \E d \in Decisions : decision' = [decision EXCEPT ![c] = d]
  /\ \E G \in RegulatorGoals : goals' = [goals EXCEPT ![c] = G]
  /\ Go(c, "decide")
  /\ UNCHANGED <<integrated, db, outside, certId, rows, gone, seen>>

Revokes(c) == decision[c] = "revoke_certificate"
Narrows(c) == decision[c] = "update_security_goals" /\ goals[c] # {}

DecideCertificates(c) ==
  /\ Live(c, "decide")
  /\ certs' = [k \in CertIds |->
       IF certs[k] = None THEN None
       ELSE IF certs[k].firmware # FirmwareOf(c) THEN certs[k]
       ELSE IF Revokes(c) THEN [certs[k] EXCEPT !.status = "revoked"]
       ELSE IF Narrows(c) THEN [certs[k] EXCEPT !.goals = goals[c]]
       ELSE certs[k]]
  /\ Go(c, "apply")
  /\ UNCHANGED <<integrated, firmware, drones, orders, outside, held, gone, seen>>

(* DroneRegistryService.apply_firmware_cert_decision, in the registry.  The  *)
(* goals are read by a SELECT that opens no transaction and written later.   *)
OfFirmware(c) == {s \in Serials : drones[s] # None
                                  /\ drones[s].firmware = FirmwareOf(c)}

RevokedRow(row) == [row EXCEPT !.registration_status = "revoked",
                               !.certificate_status = "revoked"]
NarrowedRow(row, G) == [row EXCEPT !.goals = G]

ApplyToDrones(c) ==
  /\ pc[c] = "apply"
  /\ drones' = [s \in Serials |->
       IF Revokes(c) /\ s \in OfFirmware(c)
       THEN RevokedRow(drones[s]) ELSE drones[s]]
  /\ rows' = [rows EXCEPT ![c] =
       [s \in Serials |-> IF Narrows(c) /\ s \in OfFirmware(c)
                          THEN drones[s].goals ELSE None]]
  /\ Go(c, IF Narrows(c) THEN "narrow" ELSE Heard(c, "tell_fleet"))
  /\ UNCHANGED <<integrated, firmware, certs, orders, outside, goals, certId,
                 decision, gone, seen>>

NarrowDrones(c) ==
  /\ pc[c] = "narrow"
  /\ drones' = [s \in Serials |->
       IF rows[c][s] = None THEN drones[s]
       ELSE NarrowedRow(drones[s], rows[c][s] \cap goals[c])]
  /\ Go(c, Heard(c, "tell_fleet"))
  /\ UNCHANGED <<integrated, firmware, certs, orders, outside, held, gone, seen>>

(* The operator's fleet is told last; what it does with it is its own.       *)
TellFleet(c) ==
  /\ pc[c] = "tell_fleet"
  /\ Go(c, "done")
  /\ UNCHANGED <<integrated, db, outside, held, gone, seen>>

----------------------------------------------------------------------------
(* DroneRegistryService.register.  The certificate is a snapshot taken by a  *)
(* call.  The row of the firmware is fetched next; nothing changes or        *)
(* deletes such rows, and a certificate has one, so that this is one step.   *)
TakeSnapshot(c) ==
  LET certificate == certs[Request[c].cert]
      Valid == /\ certificate # None
               /\ certificate.firmware = FirmwareOf(c)
               /\ certificate.status # "revoked"
               /\ integrated \/ goals[c] \subseteq certificate.goals
  IN /\ Live(c, "snapshot")
     /\ Go(c, IF ~Valid THEN "refused"
              ELSE IF integrated THEN "enrol" ELSE "insert_drone")
     /\ UNCHANGED <<integrated, db, outside, held, gone, seen>>

RegulatorRegisters(c) ==
  /\ Live(c, "enrol")
  /\ \E to \in {"insert_drone", "refused"} : Go(c, to)
  /\ UNCHANGED <<integrated, db, outside, held, gone, seen>>

(* The row repeats the status of the snapshot, which was not "revoked".      *)
NewRow(c) ==
  [firmware |-> FirmwareOf(c), certificate |-> Request[c].cert,
   goals |-> goals[c], certificate_status |-> "active",
   registration_status |-> "registered_by_regulator",
   status |-> "available", owner |-> None]

InsertDrone(c) ==
  /\ Live(c, "insert_drone")
  /\ IF drones[SerialOf(c)] = None
     THEN /\ drones' = [drones EXCEPT ![SerialOf(c)] = NewRow(c)]
          /\ Go(c, "done")
     ELSE Go(c, "refused") /\ UNCHANGED drones
  /\ UNCHANGED <<integrated, firmware, certs, orders, outside, held, gone, seen>>

----------------------------------------------------------------------------
(* PurchaseService.purchase: the drone's row, the regulator's                *)
(* re-registration, the order, the registry's row, the operator's fleet.     *)
(* Mutant: the status of a purchase with re-registration is forgotten.       *)
PurchasableUnlessSold(s) ==
  /\ drones[s] # None
  /\ drones[s].certificate_status # "revoked"
  /\ drones[s].status # "sold"
  /\ integrated => drones[s].registration_status = "registered_by_regulator"

(* Mutant: only the status of the drone counts.                              *)
PurchasableAvailable(s) ==
  /\ drones[s] # None
  /\ drones[s].status = "available"

Purchasable(s) ==
  /\ drones[s] # None
  /\ drones[s].certificate_status # "revoked"
  /\ drones[s].status = "available"
  /\ integrated => drones[s].registration_status = "registered_by_regulator"

ReadDrone(c) ==
  /\ Live(c, "read_drone")
  /\ Go(c, IF ~Purchasable(SerialOf(c)) THEN "refused"
           ELSE IF integrated THEN "transfer" ELSE "insert_order")
  /\ UNCHANGED <<integrated, db, outside, held, gone, seen>>

RegulatorReregisters(c) ==
  /\ pc[c] = "transfer"
  /\ \E G \in RegulatorGoals \cup {None} : goals' = [goals EXCEPT ![c] = G]
  /\ reregistered' = reregistered \cup {c}
  /\ Go(c, "insert_order")
  /\ UNCHANGED <<integrated, db, imported, certId, decision, rows, gone, seen>>

(* Mutant: the status in the regulator's answer is not looked at.            *)
RegulatorRejectsUnseen(c) ==
  /\ Live(c, "transfer")
  /\ Go(c, "insert_order")
  /\ UNCHANGED <<integrated, db, outside, held, gone, seen>>

RegulatorRejects(c) ==
  /\ Live(c, "transfer")
  /\ Go(c, "refused")
  /\ UNCHANGED <<integrated, db, outside, held, gone, seen>>

(* Mutant: the connection is closed without a commit.                        *)
InsertOrderUncommitted(c) ==
  /\ Live(c, "insert_order")
  /\ Go(c, "update_drone")
  /\ UNCHANGED <<integrated, db, outside, held, gone, seen>>

InsertOrder(c) ==
  /\ Live(c, "insert_order")
  /\ orders' = orders \cup {c}
  /\ Go(c, "update_drone")
  /\ UNCHANGED <<integrated, firmware, certs, drones, outside, held, gone, seen>>

(* DroneRegistryService.update_drone_after_purchase asks nothing of the row. *)
SoldRow(row, c) ==
  [row EXCEPT !.status = IF integrated THEN "sold_reregistered" ELSE "sold",
              !.owner = OperatorOf(c),
              !.goals = IF goals[c] = None THEN row.goals ELSE goals[c]]

UpdateDrone(c) ==
  /\ pc[c] = "update_drone"
  /\ drones' = [drones EXCEPT ![SerialOf(c)] = SoldRow(@, c)]
  /\ Go(c, Heard(c, IF integrated THEN "import" ELSE "done"))
  /\ UNCHANGED <<integrated, firmware, certs, orders, outside, held, gone, seen>>

ImportDrone(c) ==
  /\ pc[c] = "import"
  /\ imported' = imported \cup {c}
  /\ Go(c, "done")
  /\ UNCHANGED <<integrated, db, reregistered, held, gone, seen>>

(* A handler ends before its work does: a call it waits for times out or     *)
(* answers with an error, its database is locked, or its process dies.       *)
BreakOff(c) ==
  /\ c \in Open
  /\ Cardinality(gone) < MaxGone
  /\ gone' = gone \cup {c}
  /\ UNCHANGED <<integrated, db, outside, pc, held, seen>>

Certification(c) == LoadFirmware(c) \/ RegulatorCertifies(c) \/ StoreCertificate(c)
Reporting(c) == \/ RegulatorAssesses(c) \/ DecideCertificates(c)
                \/ ApplyToDrones(c) \/ NarrowDrones(c) \/ TellFleet(c)
Registration(c) == TakeSnapshot(c) \/ RegulatorRegisters(c) \/ InsertDrone(c)
Purchase(c) == \/ ReadDrone(c) \/ RegulatorReregisters(c) \/ RegulatorRejects(c)
               \/ InsertOrder(c) \/ UpdateDrone(c) \/ ImportDrone(c)

Next == \E c \in Calls :
          \/ Arrive(c) \/ Submit(c) \/ Certification(c) \/ Reporting(c)
          \/ Registration(c) \/ Purchase(c) \/ BreakOff(c)

Spec == Init /\ [][Next]_vars

----------------------------------------------------------------------------
(* Every table holds rows of its schema, and every answer is of its type.    *)
TypeOK ==
  /\ integrated \in BOOLEAN
  /\ firmware \in [Firmwares -> SUBSET Goals]
  /\ certs \in [CertIds -> {None} \cup Certificate]
  /\ drones \in [Serials -> {None} \cup DroneRow]
  /\ orders \subseteq Calls
  /\ reregistered \subseteq Calls
  /\ imported \subseteq Calls
  /\ gone \subseteq Calls
  /\ pc \in [Calls -> Places]
  /\ goals \in [Calls -> {None} \cup SUBSET Goals]
  /\ certId \in [Calls -> CertIds]
  /\ decision \in [Calls -> Decisions]
  /\ rows \in [Calls -> [Serials -> {None} \cup SUBSET Goals]]
  /\ seen \in [Calls -> SUBSET Calls]

(* A drone that has an owner has an order of that owner: the purchases are   *)
(* committed before the registry hears of them, and nobody else sells.       *)
OwnerHasOrder ==
  \A s \in Serials : drones[s] # None /\ drones[s].status # "available" =>
    \E c \in orders : SerialOf(c) = s /\ OperatorOf(c) = drones[s].owner

(* A drone whose purchase is done is not sold to a purchase that arrives     *)
(* later, whatever else runs, fails or answers late (TB-1 of docs/README.md  *)
(* for purchases that do not overlap).                                       *)
SoldOnceInOrder ==
  \A c, d \in orders : SerialOf(c) = SerialOf(d) => c \notin seen[d]

(* A drone that was registered when a vulnerability was reported, and whose  *)
(* certificate was revoked for it, is not sold to a purchase that arrives    *)
(* after the report is done.                                                 *)
RevokedNotSold ==
  \A d \in orders : \A r \in seen[d] : \A g \in seen[r] :
    (/\ Kind(r) = "report" /\ Revokes(r)
     /\ Kind(g) = "register" /\ SerialOf(g) = SerialOf(d)) =>
       FirmwareOf(g) # FirmwareOf(r)

(* An operator's fleet has a drone only after the regulator has re-registered *)
(* it for that operator, with an order of his and the registry's row sold    *)
(* (TB-3 of docs/README.md).                                                 *)
ReregisteredBeforeUse ==
  \A c \in imported : /\ c \in reregistered \cap orders
                      /\ drones[SerialOf(c)].status = "sold_reregistered"

(* A row of the registry keeps its drone, is never offered again once it is  *)
(* sold, and never comes back from a revocation.                             *)
RegistryOnlyAdvances ==
  [][\A s \in Serials : drones[s] # None =>
       /\ drones'[s] # None
       /\ drones'[s].firmware = drones[s].firmware
       /\ drones[s].status # "available" => drones'[s].status # "available"
       /\ drones[s].certificate_status = "revoked" =>
            drones'[s].certificate_status = "revoked"]_vars

(* What docs/README.md says of TB-1: a drone is not sold again.              *)
SoldOnce == \A c, d \in orders : SerialOf(c) = SerialOf(d) => c = d
=============================================================================
