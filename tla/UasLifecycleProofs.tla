------------------------- MODULE UasLifecycleProofs -------------------------
(* Theorems about UasLifecycle, for any requests about any firmware,         *)
(* certificates and drones, any number of handlers at work and of broken     *)
(* calls, with a regulator and without.  What is proved is the order of      *)
(* things between calls of which one was done when the other came: each      *)
(* service checks a row that another call left, and rows only advance.       *)
EXTENDS UasLifecycle, TLAPS

(* Each place belongs to the handler of one kind of request.                 *)
KindInv ==
  \A c \in Calls :
    /\ pc[c] = "insert_firmware" => Kind(c) = "submit"
    /\ pc[c] \in {"load_firmware", "certify", "store_certificate"} => Kind(c) = "certify"
    /\ pc[c] \in {"assess", "decide", "apply", "narrow", "tell_fleet"} => Kind(c) = "report"
    /\ pc[c] \in {"snapshot", "enrol", "insert_drone"} => Kind(c) = "register"
    /\ pc[c] \in {"read_drone", "transfer", "insert_order", "update_drone", "import"} =>
         Kind(c) = "purchase"

(* What a handler stores of goals is there when it stores it.                *)
GoalsInv ==
  \A c \in Calls :
    pc[c] \in {"insert_firmware", "certify", "store_certificate",
               "decide", "apply", "narrow", "snapshot", "enrol", "insert_drone"} =>
      goals[c] \in SUBSET Goals

(* A decision is there from the regulator's answer on.                       *)
DecisionInv ==
  \A c \in Calls :
    /\ pc[c] \in {"idle", "assess"} => decision[c] = "none"
    /\ pc[c] = "narrow" => decision[c] = "update_security_goals"

(* A registration that is done has its row, a purchase on its way its drone. *)
RowInv ==
  \A c \in Calls :
    /\ Kind(c) = "register" /\ pc[c] = "done" =>
         /\ drones[SerialOf(c)] # None
         /\ drones[SerialOf(c)].firmware = FirmwareOf(c)
    /\ Kind(c) = "purchase" /\ pc[c] \notin {"idle", "read_drone", "refused"} =>
         drones[SerialOf(c)] # None
    /\ \A s \in Serials : rows[c][s] # None => drones[s] # None

TypeInv == TypeOK /\ KindInv /\ GoalsInv /\ DecisionInv /\ RowInv

-----------------------------------------------------------------------------
(* Changing columns leaves a row, with its other columns.                    *)
LEMMA RowRevoked ==
  ASSUME NEW row \in DroneRow
  PROVE  /\ RevokedRow(row) \in DroneRow /\ RevokedRow(row) # None
         /\ RevokedRow(row).firmware = row.firmware
         /\ RevokedRow(row).status = row.status
         /\ RevokedRow(row).owner = row.owner
         /\ RevokedRow(row).certificate_status = "revoked"
  <1>1. RevokedRow(row) \in DroneRow
    BY DEF DroneRow, RevokedRow
  <1> QED BY <1>1, RequestAssumption DEF DroneRow, RevokedRow

LEMMA RowNarrowed ==
  ASSUME NEW row \in DroneRow, NEW G \in SUBSET Goals
  PROVE  /\ NarrowedRow(row, G) \in DroneRow /\ NarrowedRow(row, G) # None
         /\ NarrowedRow(row, G).firmware = row.firmware
         /\ NarrowedRow(row, G).status = row.status
         /\ NarrowedRow(row, G).owner = row.owner
         /\ NarrowedRow(row, G).certificate_status = row.certificate_status
  <1>1. NarrowedRow(row, G) \in DroneRow
    BY DEF DroneRow, NarrowedRow
  <1> QED BY <1>1, RequestAssumption DEF DroneRow, NarrowedRow

LEMMA RowSold ==
  ASSUME NEW row \in DroneRow, NEW c \in Calls, TypeOK
  PROVE  /\ SoldRow(row, c) \in DroneRow /\ SoldRow(row, c) # None
         /\ SoldRow(row, c).firmware = row.firmware
         /\ SoldRow(row, c).status
              = (IF integrated THEN "sold_reregistered" ELSE "sold")
         /\ SoldRow(row, c).owner = OperatorOf(c)
         /\ SoldRow(row, c).certificate_status = row.certificate_status
  <1>1. OperatorOf(c) \in Operators
    BY RequestAssumption DEF OperatorOf
  <1>2. (IF goals[c] = None THEN row.goals ELSE goals[c]) \in SUBSET Goals
    BY DEF TypeOK, DroneRow
  <1>3. SoldRow(row, c) \in DroneRow
    BY <1>1, <1>2 DEF DroneRow, SoldRow
  <1> QED BY ZenonT(30), <1>3, RequestAssumption DEF DroneRow, SoldRow

(* The parts of a request.                                                   *)
LEMMA RequestParts ==
  \A c \in Calls : /\ Kind(c) \in Kinds /\ FirmwareOf(c) \in Firmwares
                   /\ SerialOf(c) \in Serials /\ OperatorOf(c) \in Operators
  BY RequestAssumption DEF Kind, FirmwareOf, SerialOf, OperatorOf

(* A new row is a row.                                                       *)
LEMMA NewRowType ==
  ASSUME NEW c \in Calls, goals[c] \in SUBSET Goals
  PROVE  NewRow(c) \in DroneRow
  BY RequestAssumption DEF NewRow, DroneRow, FirmwareOf
-----------------------------------------------------------------------------
(* What no step undoes of a drone's row.                                     *)
Advances ==
  \A s \in Serials : drones[s] # None =>
    /\ drones'[s] # None
    /\ drones'[s].firmware = drones[s].firmware
    /\ drones[s].status # "available" => drones'[s].status # "available"
    /\ drones[s].certificate_status = "revoked" =>
         drones'[s].certificate_status = "revoked"

LEMMA ApplyAdvances ==
  ASSUME TypeInv, NEW c \in Calls, ApplyToDrones(c)
  PROVE  Advances /\ drones' \in [Serials -> {None} \cup DroneRow]
  <1>1. ASSUME NEW s \in Serials
        PROVE  /\ drones'[s] \in {None} \cup DroneRow
               /\ drones[s] # None =>
                    /\ drones'[s] # None
                    /\ drones'[s].firmware = drones[s].firmware
                    /\ drones'[s].status = drones[s].status
                    /\ drones[s].certificate_status = "revoked" =>
                         drones'[s].certificate_status = "revoked"
    <2>1. drones[s] \in {None} \cup DroneRow
      BY DEF TypeInv, TypeOK
    <2>2. CASE Revokes(c) /\ s \in OfFirmware(c)
      <3>1. drones'[s] = RevokedRow(drones[s])
        BY <2>2 DEF ApplyToDrones
      <3> QED BY <2>1, <2>2, <3>1, RowRevoked DEF OfFirmware
    <2>3. CASE ~(Revokes(c) /\ s \in OfFirmware(c))
      <3>1. drones'[s] = drones[s]
        BY <2>3 DEF ApplyToDrones
      <3> QED BY <2>1, <3>1
    <2> QED BY <2>2, <2>3
  <1>2. drones' \in [Serials -> {None} \cup DroneRow]
    BY <1>1 DEF ApplyToDrones
  <1> QED BY <1>1, <1>2 DEF Advances

LEMMA NarrowAdvances ==
  ASSUME TypeInv, NEW c \in Calls, NarrowDrones(c)
  PROVE  Advances /\ drones' \in [Serials -> {None} \cup DroneRow]
  <1>1. ASSUME NEW s \in Serials
        PROVE  /\ drones'[s] \in {None} \cup DroneRow
               /\ drones[s] # None =>
                    /\ drones'[s] # None
                    /\ drones'[s].firmware = drones[s].firmware
                    /\ drones'[s].status = drones[s].status
                    /\ drones'[s].certificate_status = drones[s].certificate_status
    <2>1. drones[s] \in {None} \cup DroneRow
      BY DEF TypeInv, TypeOK
    <2>2. CASE rows[c][s] # None
      <3>1. /\ drones'[s] = NarrowedRow(drones[s], rows[c][s] \cap goals[c])
            /\ drones[s] # None
        BY <2>2 DEF NarrowDrones, TypeInv, RowInv
      <3>2. goals[c] \in SUBSET Goals
        BY DEF NarrowDrones, TypeInv, GoalsInv
      <3>3. rows[c][s] \cap goals[c] \in SUBSET Goals
        BY <3>2
      <3> QED BY <2>1, <3>1, <3>3, RowNarrowed
    <2>3. CASE rows[c][s] = None
      BY <2>1, <2>3 DEF NarrowDrones
    <2> QED BY <2>2, <2>3
  <1>2. drones' \in [Serials -> {None} \cup DroneRow]
    BY <1>1 DEF NarrowDrones
  <1> QED BY <1>1, <1>2 DEF Advances

LEMMA SaleAdvances ==
  ASSUME TypeInv, NEW c \in Calls, UpdateDrone(c)
  PROVE  /\ Advances /\ drones' \in [Serials -> {None} \cup DroneRow]
         /\ drones'[SerialOf(c)].owner = OperatorOf(c)
         /\ drones'[SerialOf(c)].status
              = (IF integrated THEN "sold_reregistered" ELSE "sold")
         /\ \A s \in Serials \ {SerialOf(c)} : drones'[s] = drones[s]
  <1> DEFINE row == drones[SerialOf(c)]
  <1>1. SerialOf(c) \in Serials
    BY RequestParts
  <1>2. row # None /\ row \in DroneRow
    BY <1>1 DEF UpdateDrone, TypeInv, TypeOK, KindInv, RowInv
  <1>3. drones' = [drones EXCEPT ![SerialOf(c)] = SoldRow(row, c)]
    BY DEF UpdateDrone
  <1>4. /\ drones'[SerialOf(c)] = SoldRow(row, c)
        /\ \A s \in Serials \ {SerialOf(c)} : drones'[s] = drones[s]
    BY <1>1, <1>3 DEF TypeInv, TypeOK
  <1>5. /\ drones'[SerialOf(c)] \in DroneRow /\ drones'[SerialOf(c)] # None
        /\ drones'[SerialOf(c)].firmware = row.firmware
        /\ drones'[SerialOf(c)].status
             = (IF integrated THEN "sold_reregistered" ELSE "sold")
        /\ drones'[SerialOf(c)].owner = OperatorOf(c)
        /\ drones'[SerialOf(c)].certificate_status = row.certificate_status
    BY <1>2, <1>4, RowSold DEF TypeInv
  <1>6. drones' \in [Serials -> {None} \cup DroneRow]
    BY <1>3, <1>4, <1>5 DEF TypeInv, TypeOK
  <1> QED BY <1>1, <1>4, <1>5, <1>6 DEF Advances

LEMMA InsertAdvances ==
  ASSUME TypeInv, NEW c \in Calls, InsertDrone(c)
  PROVE  /\ Advances /\ drones' \in [Serials -> {None} \cup DroneRow]
         /\ \/ pc' = [pc EXCEPT ![c] = "refused"] /\ drones' = drones
            \/ /\ pc' = [pc EXCEPT ![c] = "done"]
               /\ drones[SerialOf(c)] = None
               /\ drones' = [drones EXCEPT ![SerialOf(c)] = NewRow(c)]
               /\ NewRow(c) # None /\ NewRow(c).firmware = FirmwareOf(c)
               /\ NewRow(c).status = "available"
  <1>1. SerialOf(c) \in Serials
    BY RequestAssumption DEF SerialOf
  <1>2. goals[c] \in SUBSET Goals
    BY DEF InsertDrone, Live, TypeInv, GoalsInv
  <1>3. /\ NewRow(c) \in DroneRow /\ NewRow(c) # None
        /\ NewRow(c).firmware = FirmwareOf(c)
        /\ NewRow(c).status = "available"
    BY <1>2, NewRowType, RequestAssumption DEF NewRow
  <1> QED BY <1>1, <1>3 DEF InsertDrone, Go, TypeInv, TypeOK, Advances

(* The rows other calls rely on stay where they are.                         *)
LEMMA RowInvStep ==
  ASSUME TypeInv, Advances, NEW c \in Calls, NEW to,
         pc' = [pc EXCEPT ![c] = to],
         Kind(c) = "register" /\ to = "done" =>
           drones'[SerialOf(c)] # None /\ drones'[SerialOf(c)].firmware = FirmwareOf(c),
         Kind(c) = "purchase" => pc[c] \notin {"idle", "read_drone", "refused"},
         \A d \in Calls, s \in Serials : rows'[d][s] # None => drones[s] # None
  PROVE  RowInv'
  <1>1. ASSUME NEW d \in Calls, Kind(d) = "register", pc'[d] = "done"
        PROVE  drones'[SerialOf(d)] # None /\ drones'[SerialOf(d)].firmware = FirmwareOf(d)
    <2>1. CASE d = c
      BY <1>1, <2>1 DEF TypeInv, TypeOK
    <2>2. CASE d # c
      BY <1>1, <2>2, RequestParts DEF TypeInv, TypeOK, RowInv, Advances
    <2> QED BY <2>1, <2>2
  <1>2. ASSUME NEW d \in Calls, Kind(d) = "purchase",
               pc'[d] \notin {"idle", "read_drone", "refused"}
        PROVE  drones'[SerialOf(d)] # None
    BY <1>2, RequestParts DEF TypeInv, TypeOK, RowInv, Advances
  <1>3. \A d \in Calls, s \in Serials : rows'[d][s] # None => drones'[s] # None
    BY DEF Advances
  <1> QED BY <1>1, <1>2, <1>3 DEF RowInv

-----------------------------------------------------------------------------
(* Type correctness, one lemma per group of actions.                         *)
LEMMA ArriveTypes ==
  ASSUME TypeInv, NEW c \in Calls, Arrive(c)
  PROVE  TypeInv'
  <1> USE DEF TypeInv, Arrive, Go, db, outside
  <1>1. PICK G \in Request[c].goals : goals' = [goals EXCEPT ![c] = G]
    OBVIOUS
  <1>2. /\ G \in {None} \cup SUBSET Goals /\ Kind(c) \in Kinds
        /\ Kind(c) \in {"submit", "register"} => G \in SUBSET Goals
    BY RequestAssumption DEF Kind
  <1>3. TypeOK'
    BY <1>1, <1>2 DEF TypeOK, Places, Kinds
  <1>4. KindInv' /\ DecisionInv' /\ RowInv'
    BY <1>2 DEF TypeOK, KindInv, DecisionInv, RowInv, Kinds
  <1>5. GoalsInv'
    BY <1>1, <1>2 DEF TypeOK, GoalsInv, Kinds
  <1> QED BY <1>3, <1>4, <1>5

LEMMA CertificateTypes ==
  ASSUME TypeInv, NEW c \in Calls, Submit(c) \/ Certification(c)
  PROVE  TypeInv'
  <1> USE DEF TypeInv, Live, Go, Heard, db, outside, held
  <1>0. FirmwareOf(c) \in Firmwares
    BY RequestAssumption DEF FirmwareOf
  <1>1. CASE Submit(c)
    <2>1. TypeOK'
      BY <1>0, <1>1 DEF Submit, TypeOK, Places, GoalsInv
    <2>2. KindInv' /\ GoalsInv' /\ DecisionInv' /\ RowInv'
      BY <1>1 DEF Submit, TypeOK, KindInv, GoalsInv, DecisionInv, RowInv
    <2> QED BY <2>1, <2>2
  <1>2. CASE LoadFirmware(c)
    <2>1. firmware[FirmwareOf(c)] \in SUBSET Goals
      BY <1>0 DEF TypeOK
    <2>2. PICK to \in {"refused", "certify", "store_certificate"} :
            /\ pc' = [pc EXCEPT ![c] = to]
            /\ goals' = goals \/ goals' = [goals EXCEPT ![c] = firmware[FirmwareOf(c)]]
            /\ to # "refused" => goals' = [goals EXCEPT ![c] = firmware[FirmwareOf(c)]]
            /\ pc[c] = "load_firmware"
            /\ UNCHANGED <<integrated, firmware, certs, drones, orders, reregistered,
                           imported, certId, decision, rows, gone, seen>>
      BY <1>2 DEF LoadFirmware
    <2>3. TypeOK' /\ GoalsInv'
      BY <2>1, <2>2 DEF TypeOK, Places, GoalsInv
    <2>4. KindInv' /\ DecisionInv' /\ RowInv'
      BY <2>2 DEF TypeOK, KindInv, DecisionInv, RowInv
    <2> QED BY <2>3, <2>4
  <1>3. CASE RegulatorCertifies(c)
    <2>1. \A G \in (RegulatorGoals \ {{}}) \cup {goals[c]} : G \in SUBSET Goals
      BY <1>3, RequestAssumption DEF RegulatorCertifies, GoalsInv
    <2>2. CASE Go(c, "refused") /\ UNCHANGED <<goals, certId>>
      BY <1>3, <2>2 DEF RegulatorCertifies, TypeOK, Places, KindInv, GoalsInv, DecisionInv, RowInv
    <2>3. ASSUME NEW k \in CertIds, NEW G \in (RegulatorGoals \ {{}}) \cup {goals[c]},
                 goals' = [goals EXCEPT ![c] = G], certId' = [certId EXCEPT ![c] = k],
                 Go(c, "store_certificate")
          PROVE  TypeInv'
      <3>1. G \in SUBSET Goals
        BY <2>1
      <3>2. TypeOK' /\ GoalsInv'
        BY <1>3, <2>3, <3>1 DEF RegulatorCertifies, TypeOK, Places, GoalsInv
      <3>3. KindInv' /\ DecisionInv' /\ RowInv'
        BY <1>3, <2>3 DEF RegulatorCertifies, TypeOK, KindInv, DecisionInv, RowInv
      <3> QED BY <3>2, <3>3
    <2> QED BY <1>3, <2>2, <2>3 DEF RegulatorCertifies
  <1>4. CASE StoreCertificate(c)
    <2>1. [firmware |-> FirmwareOf(c), status |-> "active", goals |-> goals[c]]
            \in Certificate
      BY <1>0, <1>4 DEF StoreCertificate, GoalsInv, Certificate
    <2>2. TypeOK'
      BY <1>4, <2>1 DEF StoreCertificate, TypeOK, Places
    <2>3. KindInv' /\ GoalsInv' /\ DecisionInv' /\ RowInv'
      BY <1>4 DEF StoreCertificate, TypeOK, KindInv, GoalsInv, DecisionInv, RowInv
    <2> QED BY <2>2, <2>3
  <1> QED BY <1>1, <1>2, <1>3, <1>4 DEF Certification

LEMMA ReportTypes ==
  ASSUME TypeInv, NEW c \in Calls, Reporting(c)
  PROVE  TypeInv'
  <1> USE DEF TypeInv, Live, Go, Heard, db, outside, held
  <1>1. CASE RegulatorAssesses(c)
    <2>1. PICK d \in Decisions, G \in RegulatorGoals :
            decision' = [decision EXCEPT ![c] = d] /\ goals' = [goals EXCEPT ![c] = G]
      BY <1>1 DEF RegulatorAssesses
    <2>2. G \in SUBSET Goals
      BY RequestAssumption
    <2>3. TypeOK' /\ GoalsInv'
      BY <1>1, <2>1, <2>2 DEF RegulatorAssesses, TypeOK, Places, GoalsInv
    <2>4. KindInv' /\ DecisionInv' /\ RowInv'
      BY <1>1, <2>1 DEF RegulatorAssesses, TypeOK, KindInv, DecisionInv, RowInv
    <2> QED BY <2>3, <2>4
  <1>2. CASE DecideCertificates(c)
    <2>1. goals[c] \in SUBSET Goals
      BY <1>2 DEF DecideCertificates, GoalsInv
    <2>2. \A row \in Certificate :
            /\ [row EXCEPT !.status = "revoked"] \in Certificate
            /\ [row EXCEPT !.goals = goals[c]] \in Certificate
      BY <2>1 DEF Certificate
    <2>3. certs' \in [CertIds -> {None} \cup Certificate]
      BY <1>2, <2>2 DEF DecideCertificates, TypeOK
    <2>4. TypeOK'
      BY <1>2, <2>3 DEF DecideCertificates, TypeOK, Places
    <2>5. KindInv' /\ GoalsInv' /\ DecisionInv' /\ RowInv'
      BY <1>2 DEF DecideCertificates, TypeOK, KindInv, GoalsInv, DecisionInv, RowInv
    <2> QED BY <2>4, <2>5
  <1>3. CASE ApplyToDrones(c)
    <2> DEFINE new == [s \in Serials |-> IF Narrows(c) /\ s \in OfFirmware(c)
                                        THEN drones[s].goals ELSE None]
    <2>1. rows' = [rows EXCEPT ![c] = new]
      BY <1>3 DEF ApplyToDrones
    <2>2. new \in [Serials -> {None} \cup SUBSET Goals]
      BY DEF OfFirmware, TypeOK, DroneRow
    <2>3. \A s \in Serials : new[s] # None => drones[s] # None
      BY DEF OfFirmware
    <2> HIDE DEF new
    <2>4. TypeOK'
      BY ZenonT(30), <1>3, <2>1, <2>2, ApplyAdvances DEF ApplyToDrones, TypeOK, Places
    <2>5. KindInv' /\ GoalsInv' /\ DecisionInv'
      BY <1>3 DEF ApplyToDrones, TypeOK, KindInv, GoalsInv, DecisionInv, Narrows
    <2>6. Advances
      BY <1>3, ApplyAdvances
    <2>7. RowInv'
      <3>1. \A d \in Calls, s \in Serials : rows'[d][s] # None => drones[s] # None
        BY <2>1, <2>3 DEF TypeOK, RowInv
      <3>2. pc' = [pc EXCEPT ![c] = IF Narrows(c) THEN "narrow" ELSE Heard(c, "tell_fleet")]
            /\ Kind(c) = "report"
        BY <1>3 DEF ApplyToDrones, KindInv
      <3> QED BY <2>6, <3>1, <3>2, RowInvStep
    <2> QED BY <2>4, <2>5, <2>7
  <1>4. CASE NarrowDrones(c)
    <2>1. Advances /\ drones' \in [Serials -> {None} \cup DroneRow]
      BY <1>4, NarrowAdvances
    <2>2. TypeOK' /\ KindInv' /\ GoalsInv' /\ DecisionInv'
      BY <1>4, <2>1 DEF NarrowDrones, TypeOK, Places, KindInv, GoalsInv, DecisionInv
    <2>3. RowInv'
      <3>1. pc' = [pc EXCEPT ![c] = Heard(c, "tell_fleet")] /\ rows' = rows /\ Kind(c) = "report"
        BY <1>4 DEF NarrowDrones, KindInv
      <3> QED BY <2>1, <3>1, RowInvStep DEF RowInv
    <2> QED BY <2>2, <2>3
  <1>5. CASE TellFleet(c)
    BY <1>5 DEF TellFleet, TypeOK, Places, KindInv, GoalsInv, DecisionInv, RowInv
  <1> QED BY <1>1, <1>2, <1>3, <1>4, <1>5 DEF Reporting

LEMMA RegisterTypes ==
  ASSUME TypeInv, NEW c \in Calls, Registration(c)
  PROVE  TypeInv'
  <1> USE DEF TypeInv, Live, Go, Heard, db, outside, held
  <1>1. CASE TakeSnapshot(c) \/ RegulatorRegisters(c)
    <2>1. PICK to \in {"refused", "enrol", "insert_drone"} :
            /\ pc' = [pc EXCEPT ![c] = to]
            /\ pc[c] \in {"snapshot", "enrol"}
            /\ UNCHANGED <<integrated, firmware, certs, drones, orders, reregistered,
                           imported, goals, certId, decision, rows, gone, seen>>
      BY <1>1 DEF TakeSnapshot, RegulatorRegisters
    <2>2. TypeOK' /\ KindInv' /\ GoalsInv'
      BY <2>1 DEF TypeOK, Places, KindInv, GoalsInv
    <2>3. DecisionInv' /\ RowInv'
      BY <2>1 DEF TypeOK, KindInv, DecisionInv, RowInv
    <2> QED BY <2>2, <2>3
  <1>2. CASE InsertDrone(c)
    <2>1. /\ Advances /\ drones' \in [Serials -> {None} \cup DroneRow]
          /\ \/ pc' = [pc EXCEPT ![c] = "refused"]
             \/ /\ pc' = [pc EXCEPT ![c] = "done"]
                /\ drones' = [drones EXCEPT ![SerialOf(c)] = NewRow(c)]
                /\ NewRow(c) # None /\ NewRow(c).firmware = FirmwareOf(c)
      BY <1>2, InsertAdvances
    <2>2. /\ pc[c] = "insert_drone" /\ Kind(c) = "register" /\ SerialOf(c) \in Serials
          /\ UNCHANGED <<integrated, firmware, certs, orders, reregistered,
                         imported, goals, certId, decision, rows, gone, seen>>
      BY <1>2, RequestParts DEF InsertDrone, KindInv
    <2>3. PICK to \in {"refused", "done"} : pc' = [pc EXCEPT ![c] = to]
      BY <2>1
    <2>4. TypeOK' /\ KindInv' /\ GoalsInv' /\ DecisionInv'
      BY <2>1, <2>2, <2>3 DEF TypeOK, Places, KindInv, GoalsInv, DecisionInv
    <2>5. to = "done" =>
            drones'[SerialOf(c)] # None /\ drones'[SerialOf(c)].firmware = FirmwareOf(c)
      BY <2>1, <2>2, <2>3 DEF TypeOK
    <2>6. \A d \in Calls, s \in Serials : rows'[d][s] # None => drones[s] # None
      BY <2>2 DEF RowInv
    <2>7. Advances /\ pc' = [pc EXCEPT ![c] = to] /\ Kind(c) # "purchase"
      BY <2>1, <2>2, <2>3
    <2>8. RowInv'
      BY <2>5, <2>6, <2>7, RowInvStep
    <2> QED BY <2>4, <2>8
  <1> QED BY <1>1, <1>2 DEF Registration

LEMMA PurchaseTypes ==
  ASSUME TypeInv, NEW c \in Calls, Purchase(c)
  PROVE  TypeInv'
  <1> USE DEF TypeInv, Live, Go, Heard, db, outside, held
  <1>1. CASE ReadDrone(c) \/ RegulatorRejects(c) \/ InsertOrder(c)
    <2>1. PICK to \in {"refused", "transfer", "insert_order", "update_drone"} :
            /\ pc' = [pc EXCEPT ![c] = to]
            /\ pc[c] \in {"read_drone", "transfer", "insert_order"}
            /\ to # "refused" /\ pc[c] = "read_drone" => drones[SerialOf(c)] # None
            /\ orders' \in {orders, orders \cup {c}}
            /\ UNCHANGED <<integrated, firmware, certs, drones, reregistered,
                           imported, goals, certId, decision, rows, gone, seen>>
      BY <1>1 DEF ReadDrone, Purchasable, RegulatorRejects, InsertOrder
    <2>2. TypeOK' /\ KindInv' /\ GoalsInv'
      BY <2>1 DEF TypeOK, Places, KindInv, GoalsInv
    <2>3. DecisionInv' /\ RowInv'
      BY <2>1 DEF TypeOK, KindInv, DecisionInv, RowInv
    <2> QED BY <2>2, <2>3
  <1>2. CASE RegulatorReregisters(c)
    <2>1. PICK G \in RegulatorGoals \cup {None} : goals' = [goals EXCEPT ![c] = G]
      BY <1>2 DEF RegulatorReregisters
    <2>2. G \in {None} \cup SUBSET Goals
      BY RequestAssumption
    <2>3. TypeOK' /\ KindInv' /\ GoalsInv'
      BY <1>2, <2>1, <2>2 DEF RegulatorReregisters, TypeOK, Places, KindInv, GoalsInv
    <2>4. DecisionInv' /\ RowInv'
      BY <1>2 DEF RegulatorReregisters, TypeOK, KindInv, DecisionInv, RowInv
    <2> QED BY <2>3, <2>4
  <1>3. CASE UpdateDrone(c)
    <2>1. Advances /\ drones' \in [Serials -> {None} \cup DroneRow]
      BY <1>3, SaleAdvances
    <2>2. TypeOK' /\ KindInv' /\ GoalsInv' /\ DecisionInv'
      BY <1>3, <2>1 DEF UpdateDrone, TypeOK, Places, KindInv, GoalsInv, DecisionInv
    <2>3. RowInv'
      <3>1. PICK to \in {"import", "unheard", "done"} : pc' = [pc EXCEPT ![c] = to]
        BY <1>3 DEF UpdateDrone
      <3>2. rows' = rows /\ Kind(c) = "purchase" /\ pc[c] = "update_drone"
        BY <1>3 DEF UpdateDrone, KindInv
      <3> QED BY <2>1, <3>1, <3>2, RowInvStep DEF RowInv
    <2> QED BY <2>2, <2>3
  <1>4. CASE ImportDrone(c)
    BY <1>4 DEF ImportDrone, TypeOK, Places, KindInv, GoalsInv, DecisionInv, RowInv
  <1> QED BY <1>1, <1>2, <1>3, <1>4 DEF Purchase

-----------------------------------------------------------------------------
(* What only the end of a purchase changes of a row: whether it is sold, and *)
(* to whom.                                                                  *)
SaleKept ==
  \A s \in Serials :
    IF drones[s] # None
    THEN drones'[s].status = drones[s].status /\ drones'[s].owner = drones[s].owner
    ELSE drones'[s] = None \/ drones'[s].status = "available"

LEMMA ApplyKeepsSale ==
  ASSUME TypeInv, NEW c \in Calls, ApplyToDrones(c)
  PROVE  SaleKept
  <1> SUFFICES ASSUME NEW s \in Serials
               PROVE  IF drones[s] # None
                      THEN /\ drones'[s].status = drones[s].status
                           /\ drones'[s].owner = drones[s].owner
                      ELSE drones'[s] = None
    BY DEF SaleKept
  <1>1. drones[s] \in {None} \cup DroneRow
    BY DEF TypeInv, TypeOK
  <1>2. (drones'[s] = RevokedRow(drones[s]) /\ drones[s] # None) \/ drones'[s] = drones[s]
    BY DEF ApplyToDrones, OfFirmware
  <1> QED BY <1>1, <1>2, RowRevoked

LEMMA NarrowKeepsSale ==
  ASSUME TypeInv, NEW c \in Calls, NarrowDrones(c)
  PROVE  SaleKept
  <1> SUFFICES ASSUME NEW s \in Serials
               PROVE  IF drones[s] # None
                      THEN /\ drones'[s].status = drones[s].status
                           /\ drones'[s].owner = drones[s].owner
                      ELSE drones'[s] = None
    BY DEF SaleKept
  <1> DEFINE G == rows[c][s] \cap goals[c]
  <1>1. drones[s] \in {None} \cup DroneRow /\ G \in SUBSET Goals
    BY DEF NarrowDrones, TypeInv, TypeOK, GoalsInv
  <1>2. \/ drones'[s] = NarrowedRow(drones[s], G) /\ drones[s] # None
        \/ drones'[s] = drones[s]
    BY DEF NarrowDrones, TypeInv, RowInv
  <1> HIDE DEF G
  <1> QED BY <1>1, <1>2, RowNarrowed

(* Type correctness is inductive, and rows only advance.                     *)
LEMMA StepTypes ==
  TypeInv /\ [Next]_vars => TypeInv'
  <1> SUFFICES ASSUME TypeInv, [Next]_vars PROVE TypeInv'
    OBVIOUS
  <1>1. ASSUME NEW c \in Calls, BreakOff(c)
        PROVE  TypeInv'
    BY <1>1 DEF BreakOff, Open, db, outside, held, TypeInv, TypeOK, KindInv,
                GoalsInv, DecisionInv, RowInv
  <1>2. CASE UNCHANGED vars
    BY <1>2 DEF vars, db, outside, held, TypeInv, TypeOK, KindInv, GoalsInv,
                DecisionInv, RowInv
  <1> QED BY <1>1, <1>2, ArriveTypes, CertificateTypes, ReportTypes, RegisterTypes,
             PurchaseTypes DEF Next

LEMMA InitTypes ==
  Init => TypeInv
  BY RequestAssumption DEF Init, TypeInv, TypeOK, KindInv, GoalsInv, DecisionInv, RowInv,
     Places, Decisions, FirmwareOf

(* The steps that leave the registry alone.                                  *)
LEMMA SameRows ==
  ASSUME drones' = drones
  PROVE  Advances /\ SaleKept
  BY DEF Advances, SaleKept

LEMMA StepAdvances ==
  ASSUME TypeInv, [Next]_vars
  PROVE  Advances
  <1>1. CASE UNCHANGED drones
    BY <1>1, SameRows
  <1>2. UNCHANGED drones \/ \E c \in Calls :
          ApplyToDrones(c) \/ NarrowDrones(c) \/ InsertDrone(c) \/ UpdateDrone(c)
    BY DEF Next, vars, db, Arrive, Submit, Certification, LoadFirmware, RegulatorCertifies,
       StoreCertificate, Reporting, RegulatorAssesses, DecideCertificates, TellFleet,
       Registration, TakeSnapshot, RegulatorRegisters, Purchase, ReadDrone,
       RegulatorReregisters, RegulatorRejects, InsertOrder, ImportDrone, BreakOff
  <1> QED BY <1>1, <1>2, ApplyAdvances, NarrowAdvances, InsertAdvances, SaleAdvances

(* Whatever the databases of the services hold is a row of their schemas,    *)
(* for any interleaving and wherever handlers break off.                     *)
THEOREM TypeCorrect == Spec => []TypeOK
  <1>1. TypeInv => TypeOK
    BY DEF TypeInv
  <1> QED BY <1>1, InitTypes, StepTypes, PTL DEF Spec

(* No operation of the registry takes a drone's row back: it stays, with its *)
(* firmware; a sold drone is never on offer, and a revoked one never valid.  *)
THEOREM RegistryAdvances == Spec => RegistryOnlyAdvances
  <1>1. TypeInv /\ [Next]_vars => [Advances]_vars
    BY StepAdvances
  <1> QED BY <1>1, InitTypes, StepTypes, PTL DEF Spec, RegistryOnlyAdvances, Advances

-----------------------------------------------------------------------------
(* A purchase that has read its drone and found it on offer.                 *)
Selling(c) == Kind(c) = "purchase" /\ pc[c] \notin {"idle", "read_drone", "refused"}

(* What a purchase has done when it is where it is.                          *)
PurchaseInv ==
  \A c \in Calls :
    /\ c \in orders =>
         Kind(c) = "purchase" /\ pc[c] \in {"update_drone", "import", "unheard", "done"}
    /\ Kind(c) = "purchase" /\ pc[c] \in {"update_drone", "import", "unheard", "done"} =>
         c \in orders
    /\ pc[c] \in {"transfer", "import"} => integrated
    /\ integrated /\ pc[c] \in {"insert_order", "update_drone", "import"} =>
         c \in reregistered
    /\ Kind(c) = "purchase" /\ pc[c] \in {"import", "unheard", "done"} =>
         drones[SerialOf(c)].status = (IF integrated THEN "sold_reregistered" ELSE "sold")
    /\ c \in imported => /\ c \in reregistered /\ integrated
                         /\ Kind(c) = "purchase" /\ pc[c] = "done"

(* A call saw only calls that were done, and are.                            *)
SeenInv ==
  \A c \in Calls : /\ pc[c] = "idle" => seen[c] = {}
                   /\ \A d \in seen[c] : pc[d] = "done"

(* A report that has reached the registry has revoked the drones that were   *)
(* registered when it came.                                                  *)
RevokedInv ==
  \A r \in Calls : Kind(r) = "report" /\ pc[r] \in {"tell_fleet", "done"} /\ Revokes(r) =>
    \A g \in seen[r] : Kind(g) = "register" /\ FirmwareOf(g) = FirmwareOf(r) =>
      drones[SerialOf(g)].certificate_status = "revoked"

(* A drone that was found on offer was not sold and not revoked before.      *)
OfferInv ==
  \A d \in Calls : Selling(d) =>
    /\ \A c \in seen[d] : Kind(c) = "purchase" => SerialOf(c) # SerialOf(d)
    /\ \A r \in seen[d] : Kind(r) = "report" /\ Revokes(r) =>
         \A g \in seen[r] : Kind(g) = "register" /\ SerialOf(g) = SerialOf(d) =>
           FirmwareOf(g) # FirmwareOf(r)

SaleInv == TypeInv /\ PurchaseInv /\ OwnerHasOrder /\ SeenInv /\ RevokedInv /\ OfferInv

(* A step of a handler that sells nothing.                                   *)
LEMMA OtherStep ==
  ASSUME SaleInv, Advances, SaleKept, NEW c \in Calls, NEW to,
         Kind(c) # "purchase", pc[c] # "done", to \notin {"idle", "transfer", "import"},
         pc' = [pc EXCEPT ![c] = to],
         to \notin {"insert_order", "update_drone"},
         UNCHANGED <<integrated, orders, reregistered, imported>>,
         \A d \in Calls \ {c} : seen'[d] = seen[d] /\ decision'[d] = decision[d],
         \A d \in seen'[c] : d \in Calls /\ pc[d] = "done",
         Kind(c) = "report" /\ to \in {"tell_fleet", "done"}
           /\ decision'[c] = "revoke_certificate" =>
             \A g \in seen'[c] : Kind(g) = "register" /\ FirmwareOf(g) = FirmwareOf(c) =>
               drones'[SerialOf(g)].certificate_status = "revoked"
  PROVE  PurchaseInv' /\ OwnerHasOrder' /\ SeenInv' /\ RevokedInv' /\ OfferInv'
  <1> USE DEF SaleInv
  <1>0. /\ \A d \in Calls \ {c} : pc'[d] = pc[d]
        /\ pc'[c] = to
        /\ \A d \in Calls : SerialOf(d) \in Serials
        /\ \A d \in Calls : pc[d] = "done" => d # c /\ pc'[d] = "done"
    BY RequestParts DEF TypeInv, TypeOK
  <1>1. PurchaseInv'
    <2>1. ASSUME NEW d \in Calls, Kind(d) = "purchase", pc[d] \in {"import", "unheard", "done"}
          PROVE  drones'[SerialOf(d)].status = drones[SerialOf(d)].status
      BY <1>0, <2>1 DEF SaleKept, TypeInv, RowInv
    <2>2. c \notin orders /\ c \notin imported
      BY DEF PurchaseInv
    <2> QED BY <1>0, <2>1, <2>2 DEF PurchaseInv
  <1>2. OwnerHasOrder'
    BY DEF OwnerHasOrder, SaleKept
  <1>3. SeenInv'
    BY <1>0 DEF SeenInv, TypeInv, TypeOK
  <1>4. RevokedInv'
    <2>1. ASSUME NEW r \in Calls, r # c, Kind(r) = "report",
                 pc[r] \in {"tell_fleet", "done"}, Revokes(r),
                 NEW g \in seen[r], Kind(g) = "register", FirmwareOf(g) = FirmwareOf(r)
          PROVE  drones'[SerialOf(g)].certificate_status = "revoked"
      <3>1. g \in Calls /\ pc[g] = "done"
        BY DEF SeenInv, TypeInv, TypeOK
      <3>2. drones[SerialOf(g)] # None
        BY <2>1, <3>1 DEF TypeInv, RowInv
      <3> QED BY <1>0, <2>1, <3>1, <3>2 DEF RevokedInv, Advances
    <2>2. \A r \in Calls \ {c} : Revokes(r)' <=> Revokes(r)
      BY DEF Revokes
    <2>3. ASSUME NEW r \in Calls, Kind(r) = "report", pc'[r] \in {"tell_fleet", "done"},
                 Revokes(r)', NEW g \in seen'[r], Kind(g) = "register",
                 FirmwareOf(g) = FirmwareOf(r)
          PROVE  drones'[SerialOf(g)].certificate_status = "revoked"
      <3>1. CASE r = c
        BY <1>0, <2>3, <3>1 DEF Revokes
      <3>2. CASE r # c
        BY <1>0, <2>1, <2>2, <2>3, <3>2
      <3> QED BY <3>1, <3>2
    <2> QED BY <2>3 DEF RevokedInv
  <1>5. OfferInv'
    <2>1. \A d \in Calls : Selling(d)' => Selling(d) /\ seen'[d] = seen[d]
      BY <1>0 DEF Selling
    <2>2. \A d \in Calls : \A r \in seen[d] :
            Selling(d) => r \in Calls /\ seen'[r] = seen[r] /\ (Revokes(r)' <=> Revokes(r))
      <3>1. \A d \in Calls : \A r \in seen[d] : r \in Calls /\ r # c
        BY <1>0 DEF SeenInv, TypeInv, TypeOK
      <3> QED BY <3>1 DEF Revokes
    <2> QED BY <2>1, <2>2 DEF OfferInv
  <1> QED BY <1>1, <1>2, <1>3, <1>4, <1>5

(* A step of a purchase.                                                     *)
LEMMA PurchaseStep ==
  ASSUME SaleInv, Advances, NEW c \in Calls, NEW to,
         Kind(c) = "purchase", pc[c] # "done", to # "idle",
         pc' = [pc EXCEPT ![c] = to],
         UNCHANGED <<integrated, decision>>,
         \A d \in Calls \ {c} : seen'[d] = seen[d],
         \A d \in seen'[c] : d \in Calls /\ pc[d] = "done",
         Selling(c)' =>
           /\ seen'[c] = seen[c]
           /\ Selling(c) \/ Purchasable(SerialOf(c))
  PROVE  SeenInv' /\ RevokedInv' /\ OfferInv'
  <1> USE DEF SaleInv
  <1>0. /\ \A d \in Calls \ {c} : pc'[d] = pc[d]
        /\ pc'[c] = to
        /\ \A d \in Calls : SerialOf(d) \in Serials
        /\ \A d \in Calls : pc[d] = "done" => d # c /\ pc'[d] = "done"
        /\ \A d \in Calls : Revokes(d)' <=> Revokes(d)
    BY RequestParts DEF TypeInv, TypeOK, Revokes
  <1>1. SeenInv'
    BY <1>0 DEF SeenInv, TypeInv, TypeOK
  <1>2. RevokedInv'
    <2>1. ASSUME NEW r \in Calls, r # c, Kind(r) = "report",
                 pc[r] \in {"tell_fleet", "done"}, Revokes(r),
                 NEW g \in seen[r], Kind(g) = "register", FirmwareOf(g) = FirmwareOf(r)
          PROVE  drones'[SerialOf(g)].certificate_status = "revoked"
      <3>1. g \in Calls /\ pc[g] = "done"
        BY DEF SeenInv, TypeInv, TypeOK
      <3>2. drones[SerialOf(g)] # None
        BY <2>1, <3>1 DEF TypeInv, RowInv
      <3> QED BY <1>0, <2>1, <3>1, <3>2 DEF RevokedInv, Advances
    <2> QED BY <1>0, <2>1 DEF RevokedInv
  <1>3. OfferInv'
    <2>1. \A d \in Calls : \A r \in seen[d] : r \in Calls /\ r # c /\ pc[r] = "done"
      BY <1>0 DEF SeenInv, TypeInv, TypeOK
    <2>2. ASSUME Purchasable(SerialOf(c))
          PROVE  /\ \A p \in seen[c] : Kind(p) = "purchase" => SerialOf(p) # SerialOf(c)
                 /\ \A r \in seen[c] : Kind(r) = "report" /\ Revokes(r) =>
                      \A g \in seen[r] : Kind(g) = "register" /\ SerialOf(g) = SerialOf(c) =>
                        FirmwareOf(g) # FirmwareOf(r)
      BY <2>1, <2>2 DEF Purchasable, PurchaseInv, RevokedInv
    <2>3. ASSUME NEW d \in Calls, Selling(d)'
          PROVE  /\ \A p \in seen[d] : Kind(p) = "purchase" => SerialOf(p) # SerialOf(d)
                 /\ \A r \in seen[d] : Kind(r) = "report" /\ Revokes(r) =>
                      \A g \in seen[r] : Kind(g) = "register" /\ SerialOf(g) = SerialOf(d) =>
                        FirmwareOf(g) # FirmwareOf(r)
      <3>1. CASE Selling(d)
        BY <3>1 DEF OfferInv
      <3>2. CASE ~Selling(d)
        BY <1>0, <2>2, <2>3, <3>2 DEF Selling
      <3> QED BY <3>1, <3>2
    <2>4. \A d \in Calls : Selling(d)' => seen'[d] = seen[d]
      OBVIOUS
    <2>5. \A d \in Calls : \A r \in seen[d] : seen'[r] = seen[r]
      BY <2>1
    <2> QED BY <1>0, <2>1, <2>3, <2>4, <2>5 DEF OfferInv
  <1> QED BY <1>1, <1>2, <1>3

(* A step that changes no more than a place, and no row.                     *)
LEMMA ArriveSale ==
  ASSUME SaleInv, NEW c \in Calls, Arrive(c)
  PROVE  PurchaseInv' /\ OwnerHasOrder' /\ SeenInv' /\ RevokedInv' /\ OfferInv'
  <1>1. PICK to \in {"insert_firmware", "load_firmware", "assess", "done", "snapshot",
                     "read_drone"} :
          /\ pc' = [pc EXCEPT ![c] = to]
          /\ Kind(c) = "purchase" <=> to = "read_drone"
    BY RequestParts DEF Arrive, Go, Kinds
  <1>2. /\ pc[c] = "idle" /\ decision[c] = "none"
        /\ seen'[c] = {d \in Calls : pc[d] = "done" /\ Kind(d) # "submit"}
        /\ \A d \in Calls \ {c} : seen'[d] = seen[d]
        /\ UNCHANGED <<integrated, drones, orders, reregistered, imported, decision>>
    BY DEF Arrive, db, outside, SaleInv, TypeInv, TypeOK, DecisionInv
  <1>3. Advances /\ SaleKept
    BY <1>2, SameRows
  <1>4. CASE Kind(c) # "purchase"
    BY <1>1, <1>2, <1>3, <1>4, OtherStep
  <1>5. CASE Kind(c) = "purchase"
    <2>1. ~Selling(c)'
      BY <1>1, <1>5 DEF Selling, SaleInv, TypeInv, TypeOK
    <2>2. SeenInv' /\ RevokedInv' /\ OfferInv'
      BY <1>1, <1>2, <1>3, <1>5, <2>1, PurchaseStep
    <2>3. PurchaseInv' /\ OwnerHasOrder'
      BY <1>1, <1>2, <1>5 DEF SaleInv, TypeInv, TypeOK, PurchaseInv, OwnerHasOrder
    <2> QED BY <2>2, <2>3
  <1> QED BY <1>4, <1>5

LEMMA CertificateSale ==
  ASSUME SaleInv, NEW c \in Calls, Submit(c) \/ Certification(c)
  PROVE  PurchaseInv' /\ OwnerHasOrder' /\ SeenInv' /\ RevokedInv' /\ OfferInv'
  <1>1. PICK to \in {"done", "refused", "certify", "store_certificate"} :
          pc' = [pc EXCEPT ![c] = to]
    BY DEF Submit, Certification, LoadFirmware, RegulatorCertifies, StoreCertificate, Go
  <1>2. /\ pc[c] \in {"insert_firmware", "load_firmware", "certify", "store_certificate"}
        /\ UNCHANGED <<integrated, drones, orders, reregistered, imported, decision, seen>>
    BY DEF Submit, Certification, LoadFirmware, RegulatorCertifies, StoreCertificate, Live,
           db, outside, held
  <1>3. Kind(c) \in {"submit", "certify"}
    BY <1>2 DEF SaleInv, TypeInv, KindInv
  <1>4. \A d \in seen[c] : d \in Calls /\ pc[d] = "done"
    BY DEF SaleInv, SeenInv, TypeInv, TypeOK
  <1> QED BY <1>1, <1>2, <1>3, <1>4, SameRows, OtherStep

LEMMA ReportSale ==
  ASSUME SaleInv, NEW c \in Calls, Reporting(c)
  PROVE  PurchaseInv' /\ OwnerHasOrder' /\ SeenInv' /\ RevokedInv' /\ OfferInv'
  <1>1. PICK to \in {"decide", "apply", "narrow", "tell_fleet", "unheard", "done"} :
          pc' = [pc EXCEPT ![c] = to]
    BY DEF Reporting, RegulatorAssesses, DecideCertificates, ApplyToDrones, NarrowDrones,
           TellFleet, Go, Heard
  <1>2. /\ pc[c] \in {"assess", "decide", "apply", "narrow", "tell_fleet"}
        /\ UNCHANGED <<integrated, orders, reregistered, imported, seen>>
    BY DEF Reporting, RegulatorAssesses, DecideCertificates, ApplyToDrones, NarrowDrones,
           TellFleet, Live, db, outside, held
  <1>3. Kind(c) = "report"
    BY <1>2 DEF SaleInv, TypeInv, KindInv
  <1>4. \A d \in seen[c] : d \in Calls /\ pc[d] = "done"
    BY DEF SaleInv, SeenInv, TypeInv, TypeOK
  <1>5. Advances /\ SaleKept
    <2>1. CASE UNCHANGED drones
      BY <2>1, SameRows
    <2>2. UNCHANGED drones \/ ApplyToDrones(c) \/ NarrowDrones(c)
      BY DEF Reporting, RegulatorAssesses, DecideCertificates, TellFleet, db
    <2> QED BY <2>1, <2>2, ApplyAdvances, NarrowAdvances, ApplyKeepsSale, NarrowKeepsSale
            DEF SaleInv
  <1>6. \A d \in Calls \ {c} : decision'[d] = decision[d]
    BY DEF Reporting, RegulatorAssesses, DecideCertificates, ApplyToDrones, NarrowDrones,
           TellFleet, held, SaleInv, TypeInv, TypeOK
  <1>7. ASSUME to \in {"tell_fleet", "done"}, decision'[c] = "revoke_certificate",
               NEW g \in seen[c], Kind(g) = "register", FirmwareOf(g) = FirmwareOf(c)
        PROVE  drones'[SerialOf(g)].certificate_status = "revoked"
    <2>1. g \in Calls /\ pc[g] = "done" /\ SerialOf(g) \in Serials
      BY <1>4, RequestParts
    <2>2. drones[SerialOf(g)] # None /\ drones[SerialOf(g)].firmware = FirmwareOf(c)
      BY <1>7, <2>1 DEF SaleInv, TypeInv, RowInv
    <2>3. pc[c] \in {"apply", "narrow", "tell_fleet"} /\ decision' = decision
      BY <1>1, <1>7 DEF Reporting, RegulatorAssesses, DecideCertificates, ApplyToDrones,
                        NarrowDrones, TellFleet, Go, Heard, Live, held, SaleInv, TypeInv, TypeOK
    <2>4. CASE pc[c] = "apply"
      <3>1. ApplyToDrones(c) /\ Revokes(c)
        BY <1>7, <2>3, <2>4 DEF Reporting, RegulatorAssesses, DecideCertificates,
                                NarrowDrones, TellFleet, Live, Revokes
      <3>2. drones'[SerialOf(g)] = RevokedRow(drones[SerialOf(g)])
        BY <2>1, <2>2, <3>1 DEF ApplyToDrones, OfFirmware
      <3>3. drones[SerialOf(g)] \in DroneRow
        BY <2>1, <2>2 DEF SaleInv, TypeInv, TypeOK
      <3> QED BY <3>2, <3>3, RowRevoked
    <2>5. CASE pc[c] = "narrow"
      BY <1>7, <2>3, <2>5 DEF SaleInv, TypeInv, DecisionInv
    <2>6. CASE pc[c] = "tell_fleet"
      BY <1>3, <1>5, <1>7, <2>1, <2>2, <2>3, <2>6
      DEF SaleInv, RevokedInv, Revokes, Advances
    <2> QED BY <2>3, <2>4, <2>5, <2>6
  <1> QED BY <1>1, <1>2, <1>3, <1>4, <1>5, <1>6, <1>7, OtherStep

LEMMA RegisterSale ==
  ASSUME SaleInv, NEW c \in Calls, Registration(c)
  PROVE  PurchaseInv' /\ OwnerHasOrder' /\ SeenInv' /\ RevokedInv' /\ OfferInv'
  <1>1. PICK to \in {"enrol", "insert_drone", "done", "refused"} :
          pc' = [pc EXCEPT ![c] = to]
    BY DEF Registration, TakeSnapshot, RegulatorRegisters, InsertDrone, Go
  <1>2. /\ pc[c] \in {"snapshot", "enrol", "insert_drone"}
        /\ UNCHANGED <<integrated, orders, reregistered, imported, decision, seen>>
    BY DEF Registration, TakeSnapshot, RegulatorRegisters, InsertDrone, Live,
           db, outside, held
  <1>3. Kind(c) = "register"
    BY <1>2 DEF SaleInv, TypeInv, KindInv
  <1>4. \A d \in seen[c] : d \in Calls /\ pc[d] = "done"
    BY DEF SaleInv, SeenInv, TypeInv, TypeOK
  <1>5. Advances /\ SaleKept
    <2>1. CASE UNCHANGED drones
      BY <2>1, SameRows
    <2>2. CASE InsertDrone(c) /\ ~UNCHANGED drones
      <3>1. /\ drones[SerialOf(c)] = None /\ SerialOf(c) \in Serials
            /\ drones' = [drones EXCEPT ![SerialOf(c)] = NewRow(c)]
            /\ NewRow(c).status = "available"
        BY <2>2, InsertAdvances, RequestParts DEF SaleInv
      <3>2. SaleKept
        BY <3>1 DEF SaleKept, SaleInv, TypeInv, TypeOK
      <3> QED BY <2>2, <3>2, InsertAdvances DEF SaleInv
    <2> QED BY <2>1, <2>2 DEF Registration, TakeSnapshot, RegulatorRegisters, db
  <1> QED BY <1>1, <1>2, <1>3, <1>4, <1>5, OtherStep

LEMMA PurchaseSale ==
  ASSUME SaleInv, NEW c \in Calls, Purchase(c)
  PROVE  PurchaseInv' /\ OwnerHasOrder' /\ SeenInv' /\ RevokedInv' /\ OfferInv'
  <1> USE DEF Live, Go, Heard, db, outside, held
  <1>1. PICK to \in {"refused", "transfer", "insert_order", "update_drone", "import", "unheard",
                      "done"} :
          pc' = [pc EXCEPT ![c] = to]
    BY DEF Purchase, ReadDrone, RegulatorReregisters, RegulatorRejects, InsertOrder,
           UpdateDrone, ImportDrone
  <1>2. /\ pc[c] \in {"read_drone", "transfer", "insert_order", "update_drone", "import"}
        /\ UNCHANGED <<integrated, decision, seen>>
    BY DEF Purchase, ReadDrone, RegulatorReregisters, RegulatorRejects, InsertOrder,
           UpdateDrone, ImportDrone
  <1>3. Kind(c) = "purchase" /\ SerialOf(c) \in Serials /\ OperatorOf(c) \in Operators
    BY <1>2, RequestParts DEF SaleInv, TypeInv, KindInv
  <1>4. \A d \in seen[c] : d \in Calls /\ pc[d] = "done"
    BY DEF SaleInv, SeenInv, TypeInv, TypeOK
  <1>5. Advances
    BY SameRows, SaleAdvances DEF SaleInv, Purchase, ReadDrone, RegulatorReregisters,
       RegulatorRejects, InsertOrder, ImportDrone
  <1>6. Selling(c)' => Selling(c) \/ Purchasable(SerialOf(c))
    BY <1>2, <1>3 DEF Selling, Purchase, ReadDrone, RegulatorReregisters, RegulatorRejects,
       InsertOrder, UpdateDrone, ImportDrone, SaleInv, TypeInv, TypeOK
  <1>7. SeenInv' /\ RevokedInv' /\ OfferInv'
    BY <1>1, <1>2, <1>3, <1>4, <1>5, <1>6, PurchaseStep
  <1>8. PurchaseInv' /\ OwnerHasOrder'
    <2>1. CASE ReadDrone(c) \/ RegulatorRejects(c)
      <3>1. UNCHANGED <<drones, orders, reregistered, imported>>
        BY <2>1 DEF ReadDrone, RegulatorRejects
      <3>2. /\ to \in {"refused", "transfer", "insert_order"} /\ pc[c] \in {"read_drone", "transfer"}
            /\ to = "transfer" => integrated
            /\ to = "insert_order" => ~integrated
        BY <1>1, <2>1 DEF ReadDrone, RegulatorRejects, SaleInv, TypeInv, TypeOK
      <3>3. PurchaseInv'
        BY <1>1, <1>2, <3>1, <3>2 DEF PurchaseInv, SaleInv, TypeInv, TypeOK
      <3> QED BY <3>1, <3>3 DEF SaleInv, OwnerHasOrder
    <2>2. CASE RegulatorReregisters(c)
      <3>1. PurchaseInv'
        BY <1>1, <1>2, <2>2 DEF RegulatorReregisters, PurchaseInv, SaleInv, TypeInv, TypeOK
      <3> QED BY <2>2, <3>1 DEF RegulatorReregisters, SaleInv, OwnerHasOrder
    <2>3. CASE InsertOrder(c)
      <3>1. PurchaseInv'
        BY <1>1, <1>2, <1>3, <2>3 DEF InsertOrder, PurchaseInv, SaleInv, TypeInv, TypeOK
      <3> QED BY <2>3, <3>1 DEF InsertOrder, SaleInv, OwnerHasOrder
    <2>4. CASE UpdateDrone(c)
      <3>1. /\ drones'[SerialOf(c)].owner = OperatorOf(c)
            /\ drones'[SerialOf(c)].status
                 = (IF integrated THEN "sold_reregistered" ELSE "sold")
            /\ \A s \in Serials \ {SerialOf(c)} : drones'[s] = drones[s]
        BY <2>4, SaleAdvances DEF SaleInv
      <3>2. /\ UNCHANGED <<integrated, orders, reregistered, imported>>
            /\ pc[c] = "update_drone" /\ to = Heard(c, IF integrated THEN "import" ELSE "done")
        BY <1>1, <2>4 DEF UpdateDrone, SaleInv, TypeInv, TypeOK
      <3>3. c \in orders
        BY <1>3, <3>2 DEF SaleInv, PurchaseInv
      <3>4. OwnerHasOrder'
        BY <3>1, <3>2, <3>3 DEF SaleInv, OwnerHasOrder
      <3>5. ASSUME NEW d \in Calls, Kind(d) = "purchase", pc'[d] \in {"import", "unheard", "done"}
            PROVE  drones'[SerialOf(d)].status
                     = (IF integrated THEN "sold_reregistered" ELSE "sold")
        <4>1. d # c => pc[d] \in {"import", "unheard", "done"}
          BY <1>1, <3>5 DEF SaleInv, TypeInv, TypeOK
        <4>2. SerialOf(d) \in Serials
          BY RequestParts
        <4> QED BY <3>1, <3>5, <4>1, <4>2 DEF SaleInv, PurchaseInv
      <3>6. PurchaseInv'
        BY <1>1, <1>3, <3>2, <3>3, <3>5 DEF SaleInv, PurchaseInv, TypeInv, TypeOK
      <3> QED BY <3>4, <3>6
    <2>5. CASE ImportDrone(c)
      <3>1. PurchaseInv'
        BY <1>1, <1>2, <1>3, <2>5 DEF ImportDrone, PurchaseInv, SaleInv, TypeInv, TypeOK
      <3> QED BY <2>5, <3>1 DEF ImportDrone, SaleInv, OwnerHasOrder
    <2> QED BY <2>1, <2>2, <2>3, <2>4, <2>5 DEF Purchase
  <1> QED BY <1>7, <1>8

-----------------------------------------------------------------------------
LEMMA InitSale ==
  Init => SaleInv
  BY InitTypes DEF Init, SaleInv, PurchaseInv, OwnerHasOrder, SeenInv, RevokedInv, OfferInv,
     Selling

LEMMA StepSale ==
  SaleInv /\ [Next]_vars => SaleInv'
  <1> SUFFICES ASSUME SaleInv, [Next]_vars PROVE SaleInv'
    OBVIOUS
  <1>1. TypeInv'
    BY StepTypes DEF SaleInv
  <1>2. ASSUME UNCHANGED <<integrated, drones, orders, reregistered, imported, pc,
                           decision, seen>>
        PROVE  PurchaseInv' /\ OwnerHasOrder' /\ SeenInv' /\ RevokedInv' /\ OfferInv'
    BY <1>2 DEF SaleInv, PurchaseInv, OwnerHasOrder, SeenInv, RevokedInv, OfferInv,
                Selling, Revokes
  <1>3. ASSUME NEW c \in Calls, BreakOff(c)
        PROVE  UNCHANGED <<integrated, drones, orders, reregistered, imported, pc,
                           decision, seen>>
    BY <1>3 DEF BreakOff, db, outside, held
  <1>4. UNCHANGED vars => UNCHANGED <<integrated, drones, orders, reregistered, imported,
                                      pc, decision, seen>>
    BY DEF vars, db, outside, held
  <1>5. PurchaseInv' /\ OwnerHasOrder' /\ SeenInv' /\ RevokedInv' /\ OfferInv'
    BY <1>2, <1>3, <1>4, ArriveSale, CertificateSale, ReportSale, RegisterSale,
       PurchaseSale DEF Next
  <1> QED BY <1>1, <1>5 DEF SaleInv

(* Whoever owns a drone has an order for it, in spite of the gap between the *)
(* commit of the order and the registry's, and of overlapping purchases.     *)
THEOREM OwnersHaveOrders == Spec => []OwnerHasOrder
  <1>1. SaleInv => OwnerHasOrder
    BY DEF SaleInv
  <1> QED BY <1>1, InitSale, StepSale, PTL DEF Spec

(* Purchases of a drone one after the other: the second is refused.          *)
THEOREM SoldOnceOneByOne == Spec => []SoldOnceInOrder
  <1>1. SaleInv => SoldOnceInOrder
    <2> SUFFICES ASSUME SaleInv, NEW c \in orders, NEW d \in orders,
                        SerialOf(c) = SerialOf(d), c \in seen[d]
                 PROVE  FALSE
      BY DEF SoldOnceInOrder
    <2>1. c \in Calls /\ d \in Calls
      BY DEF SaleInv, TypeInv, TypeOK
    <2>2. Selling(d) /\ Kind(c) = "purchase"
      BY <2>1 DEF SaleInv, PurchaseInv, Selling
    <2> QED BY <2>1, <2>2 DEF SaleInv, OfferInv
  <1> QED BY <1>1, InitSale, StepSale, PTL DEF Spec

(* A drone registered before a report that revokes its firmware's            *)
(* certificates is not sold after it.                                        *)
THEOREM RevokedStaysUnsold == Spec => []RevokedNotSold
  <1>1. SaleInv => RevokedNotSold
    <2> SUFFICES ASSUME SaleInv, NEW d \in orders
                 PROVE  \A r \in seen[d] : \A g \in seen[r] :
                          (/\ Kind(r) = "report" /\ Revokes(r)
                           /\ Kind(g) = "register" /\ SerialOf(g) = SerialOf(d)) =>
                             FirmwareOf(g) # FirmwareOf(r)
      BY DEF RevokedNotSold
    <2>1. d \in Calls /\ Selling(d)
      BY DEF SaleInv, TypeInv, TypeOK, PurchaseInv, Selling
    <2> QED BY <2>1 DEF SaleInv, OfferInv
  <1> QED BY <1>1, InitSale, StepSale, PTL DEF Spec

(* An operator flies only what the regulator has re-registered for him and   *)
(* the registry holds as sold.                                               *)
THEOREM ImportsAreReregistered == Spec => []ReregisteredBeforeUse
  <1>1. SaleInv => ReregisteredBeforeUse
    BY DEF SaleInv, TypeInv, TypeOK, PurchaseInv, ReregisteredBeforeUse
  <1> QED BY <1>1, InitSale, StepSale, PTL DEF Spec
=============================================================================
