---------------------------- MODULE MCOperator -----------------------------
(* The operator's side for TLC in one run: the fleet manager, whose requests *)
(* overlap, and next to it the client of the developers, the security        *)
(* monitor and the flight registration.  These do not interact: "part" says  *)
(* which of them a behaviour is about, and the others stay in one of their   *)
(* initial states.                                                           *)
EXTENDS MCFleetManager

CONSTANTS
    Clients, Limits, Window, Retention, MaxTime, MaxRequests, \* OperatorSecurity
    Buyers, Stock, Quantities, MaxLoads,                      \* DeveloperClient
    Drones, Flights, Uploads                                  \* FlightRegistration

\* OperatorSecurity: a window lets at least one request through.
ASSUME LimitsAssumption == Limits \in [{"default", "critical"} -> Nat \ {0}]
ASSUME TimesAssumption == Window \in Nat /\ Retention \in Nat /\ MaxTime \in Nat
\* DeveloperClient: a purchase asks for a number of units, which nothing validates.
ASSUME StockAssumption == Stock \in Nat /\ Quantities \subseteq Nat /\ MaxLoads \in Nat
\* The handlers are the workers of the bus.
ASSUME BuyersAssumption == IsFiniteSet(Buyers)

VARIABLES
    part,
    source, file, cache, loads, stock, sold, step, want, held, left, drawn, paid, delivered, clashes,
    enable_notifications, now, received, history, audit, metrics, violations, notices,
    certified, check, shown, drones, vouched,
    flight, mission, drone, answer, home, unsent, registered, authorized

\* At the real rates, 100 and 10 a window, only the numbers are larger.
MCLimits == [k \in {"default", "critical"} |-> IF k = "default" THEN 2 ELSE 1]

Developer == INSTANCE DeveloperClient
Monitor == INSTANCE OperatorSecurity WITH Senders <- Clients
Flight == INSTANCE FlightRegistration WITH Missions <- Flights

fleetPart ==
    <<status, certValid, expired, charged, reservedBy, extended, reservations, bought,
      units, hindsight, pc, arg>>
developerPart ==
    <<source, file, cache, loads, stock, sold, step, want, held, left, drawn, paid, delivered, clashes>>
monitorPart ==
    <<enable_notifications, now, received, history, audit, metrics, violations, notices>>
flightPart ==
    <<certified, check, shown, drones, vouched,
      flight, mission, drone, answer, home, unsent, registered, authorized>>
-----------------------------------------------------------------------------
\* A part that is not looked at stands still in one initial state.
DeveloperInit ==
    /\ Developer!Init
    /\ part # "developer" => source = "yaml" /\ file = "full"

FlightInit ==
    /\ Flight!Init
    /\ part # "flights" =>
        /\ mission = [u \in Uploads |-> None]
        /\ drone = [u \in Uploads |-> CHOOSE d \in Drones : TRUE]

MCInit ==
    /\ part \in {"fleet", "developer", "monitor", "certificates", "flights"}
    /\ Init
    /\ DeveloperInit
    /\ Monitor!Init
    /\ part # "monitor" => enable_notifications
    /\ FlightInit

MCNext ==
    /\ UNCHANGED part
    /\ \/ /\ part = "fleet" /\ Next
          /\ UNCHANGED <<developerPart, monitorPart, flightPart>>
       \/ /\ part = "developer" /\ Developer!Next
          /\ UNCHANGED <<fleetPart, monitorPart, flightPart>>
       \/ /\ part = "monitor" /\ Monitor!Next
          /\ UNCHANGED <<fleetPart, developerPart, flightPart>>
       \/ /\ \/ part = "certificates" /\ Flight!NextCertificate
             \/ part = "flights" /\ Flight!NextFlight
          /\ UNCHANGED <<fleetPart, developerPart, monitorPart>>

operatorVars == <<part, fleetPart, developerPart, monitorPart, flightPart>>

MCSpec == MCInit /\ [][MCNext]_operatorVars
-----------------------------------------------------------------------------
\* OperatorSecurity: the limit of requests in a window holds, and what was not
\* granted is accounted for.
GrantsWithinLimit == Monitor!GrantsWithinLimit /\ Monitor!DecisionsAccounted

\* DeveloperClient: no more is sold than there is, and what is paid
\* arrives, ids drawn twice apart.
StockHonoured == Developer!StockHonoured

\* FlightRegistration: certificates and registrations are asked for before use.
CheckedBeforeUse == Flight!CheckedBeforeUse
=============================================================================
