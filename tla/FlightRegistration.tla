------------------------- MODULE FlightRegistration -------------------------
(* What the operator component asks of others about drones and flights: the  *)
(* regulator whether a drone's certificate is valid, before it stores the    *)
(* drone, and ORVD to register and to authorize the mission that the ground  *)
(* station uploads (operator_component.py, regulator_component.py and the    *)
(* regulator's gateway).  ORVD is not in the repository: here it registers   *)
(* or refuses as it likes.  Handlers run at a time, and each of their waits  *)
(* (EXTERNAL_REQUEST_TIMEOUT, PROXY_TIMEOUT) may end before the answer.      *)
EXTENDS FiniteSets

CONSTANTS
    Drones,
    Missions,
    Uploads,        \* events on the ground station's topic
    None

Certificates == Drones      \* cert-drone-<id>, by the id in it

VARIABLES
    certified,      \* _drone_certs of the regulator
    check,          \* of each drone's register_drone: idle, asked, proxied, valid, invalid
    shown,          \* the certificate_id it came with
    drones,         \* _drones of the operator
    vouched,        \* drones that were stored with a certificate (history)
    flight,         \* of each upload: new, got, registering, authorizing or done
    mission, drone, \* what it names, None when it is missing or the route is empty
    answer,         \* ORVD's answer to its register_mission, "none" before it
    home,           \* drones whose home went out
    unsent,         \* uploads whose home publish() did not take (history)
    registered,     \* missions that ORVD has registered
    authorized      \* uploads ORVD was asked to authorize

certificateVars == <<certified, check, shown, drones, vouched>>
flightVars == <<flight, mission, drone, answer, home, unsent, registered, authorized>>

Init ==
    /\ certified = {} /\ drones = {} /\ vouched = {}
    /\ check = [d \in Drones |-> "idle"] /\ shown = [d \in Drones |-> None]
    /\ flight = [u \in Uploads |-> "new"] /\ answer = [u \in Uploads |-> "none"]
    /\ mission \in [Uploads -> Missions \cup {None}]
    /\ drone \in [Uploads -> Drones]
    /\ home = {} /\ unsent = {} /\ registered = {} /\ authorized = {}
-----------------------------------------------------------------------------
(* Certificates.                                                             *)

RegisterDroneCert(d) ==
    /\ certified' = certified \cup {d}
    /\ UNCHANGED <<check, shown, drones, vouched, flightVars>>

\* Without a certificate_id the drone is stored at once.
RegisterDrone(d) ==
    /\ check[d] = "idle"
    /\ \/ /\ drones' = drones \cup {d}
          /\ UNCHANGED <<check, shown>>
       \/ /\ \E c \in Certificates : shown' = [shown EXCEPT ![d] = c]
          /\ check' = [check EXCEPT ![d] = "asked"]
          /\ UNCHANGED drones
    /\ UNCHANGED <<certified, vouched, flightVars>>

\* The gateway of the regulator passes the question on; when its component is
\* late, or raises, the gateway answers {"error": ...}, which has no "valid".
RegulatorProxy(d) ==
    /\ \/ check[d] = "asked" /\ check' = [check EXCEPT ![d] = "proxied"]
       \/ check[d] = "proxied" /\ check' = [check EXCEPT ![d] = "invalid"]
    /\ UNCHANGED <<certified, shown, drones, vouched, flightVars>>

\* The regulator knows the certificate; whose it is, is not looked at.
VerifyDroneCertExists(d) ==
    /\ check[d] = "proxied"
    /\ check' = [check EXCEPT ![d] =
        IF shown[d] \in certified THEN "valid" ELSE "invalid"]
    /\ UNCHANGED <<certified, shown, drones, vouched, flightVars>>

VerifyDroneCert(d) ==
    /\ check[d] = "proxied"
    /\ check' = [check EXCEPT ![d] =
        IF shown[d] \in certified /\ shown[d] = d THEN "valid" ELSE "invalid"]
    /\ UNCHANGED <<certified, shown, drones, vouched, flightVars>>

StoreVerified(d) ==
    /\ check[d] = "valid"
    /\ drones' = drones \cup {d} /\ vouched' = vouched \cup {d}
    /\ check' = [check EXCEPT ![d] = "idle"]
    /\ UNCHANGED <<certified, shown, flightVars>>

\* No answer in time, or no "valid" in it.  An answer that comes later finds
\* nobody waiting (SystemBus).
RejectDrone(d) ==
    /\ check[d] # "idle"
    /\ check' = [check EXCEPT ![d] = "idle"]
    /\ UNCHANGED <<certified, shown, drones, vouched, flightVars>>
-----------------------------------------------------------------------------
(* Flights.                                                                  *)

MissionUpload(u) ==
    /\ flight[u] = "new"
    /\ flight' = [flight EXCEPT ![u] = IF mission[u] = None THEN "done" ELSE "got"]
    /\ UNCHANGED <<certificateVars, mission, drone, answer, home, unsent, registered, authorized>>

\* Nothing looks at what publish() returns.
PublishHome(u) ==
    /\ flight[u] = "got"
    /\ \/ home' = home \cup {drone[u]} /\ UNCHANGED unsent
       \/ unsent' = unsent \cup {u} /\ UNCHANGED home
    /\ flight' = [flight EXCEPT ![u] = "registering"]
    /\ UNCHANGED <<certificateVars, mission, drone, answer, registered, authorized>>

\* ORVD takes the request, while the operator waits or after it gave up.
OrvdRegisters(u) ==
    /\ flight[u] \in {"registering", "done"} /\ answer[u] = "none"
    /\ mission[u] # None
    /\ \/ /\ registered' = registered \cup {mission[u]}
          /\ answer' = [answer EXCEPT ![u] = "registered"]
       \/ /\ answer' = [answer EXCEPT ![u] = "refused"]
          /\ UNCHANGED registered
    /\ UNCHANGED <<certificateVars, flight, mission, drone, home, unsent, authorized>>

Authorize(u) ==
    /\ flight' = [flight EXCEPT ![u] = "authorizing"]
    /\ authorized' = authorized \cup {u}
    /\ UNCHANGED <<certificateVars, mission, drone, answer, home, unsent, registered>>

TakeAnswer(u) ==
    /\ flight[u] = "registering" /\ answer[u] = "registered"
    /\ Authorize(u)

\* Refused or too late: the upload is logged and forgotten, also when ORVD
\* registers its mission after that.  Nothing looks at what authorize answers.
EndUpload(u) ==
    /\ flight[u] \in {"registering", "authorizing"}
    /\ flight' = [flight EXCEPT ![u] = "done"]
    /\ UNCHANGED <<certificateVars, mission, drone, answer, home, unsent, registered, authorized>>

NextCertificate ==
    \E d \in Drones :
        \/ RegisterDroneCert(d) \/ RegisterDrone(d)
        \/ RegulatorProxy(d) \/ VerifyDroneCert(d)
        \/ StoreVerified(d) \/ RejectDrone(d)

NextFlight ==
    \E u \in Uploads :
        \/ MissionUpload(u) \/ PublishHome(u) \/ OrvdRegisters(u)
        \/ TakeAnswer(u) \/ EndUpload(u)

Next == NextCertificate \/ NextFlight

Spec == Init /\ [][Next]_<<certificateVars, flightVars>>
-----------------------------------------------------------------------------
(* Properties.                                                               *)

TypeOK ==
    /\ certified \subseteq Drones /\ drones \subseteq Drones /\ vouched \subseteq drones
    /\ check \in [Drones -> {"idle", "asked", "proxied", "valid", "invalid"}]
    /\ shown \in [Drones -> Certificates \cup {None}]
    /\ flight \in [Uploads -> {"new", "got", "registering", "authorizing", "done"}]
    /\ answer \in [Uploads -> {"none", "registered", "refused"}]
    /\ home \subseteq Drones /\ unsent \subseteq Uploads
    /\ registered \subseteq Missions /\ authorized \subseteq Uploads

\* A drone that register_drone stored with a certificate has one from the
\* regulator, of its own, however its gateway and the two waits end; and ORVD
\* is asked to authorize only a mission that it has registered, and whose home
\* was sent to its drone first, unless publish() refused that (the order
\* _register_and_authorize_flight_mission keeps, since the autopilot waits for
\* the home).
CheckedBeforeUse ==
    /\ vouched \subseteq certified
    /\ \A u \in authorized : 
        mission[u] \in registered /\ (drone[u] \in home \/ u \in unsent)
=============================================================================
