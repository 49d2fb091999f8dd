------------------------- MODULE MissionPlannerCore -------------------------
(***************************************************************************)
(* The trusted core of the mission planner                                 *)
(* (mission_planner/src/mission_planner_core.py): what is wrong with a     *)
(* flight plan, given the plans of the missions in the air.  The core's    *)
(* only state, active_missions, belongs to MissionPlanner; here are the    *)
(* pure checks.                                                            *)
(*                                                                         *)
(* Positions are abstract: the haversine distance, the length of a leg     *)
(* with its climb and the collinearity test are parameters, so what is     *)
(* proved holds for every geometry with a symmetric distance.  Metres and  *)
(* seconds are whole numbers, the time of a leg is rounded down.           *)
(***************************************************************************)
EXTENDS Integers, Sequences

CONSTANTS
    Position,           \* latitude and longitude
    Distance(_, _),     \* _calculate_distance, metres along the ground
    LegLength(_, _),    \* the same with the difference in altitude
    Collinear(_, _, _), \* _are_collinear: triangle area below the tolerance
    NoFlyZones          \* records: center, radius

\* action "none" is no action, hold its duration (0 when there is none).
Waypoint == [at : Position, altitude : Int, speed : Nat,
             action : {"none", "photo", "takeoff", "land"}, hold : Nat]

\* SafetyConstraints and the numbers written into the checks.
MaxAltitude   == 120
MinAltitude   == 10
MaxSpeed      == 20
MaxRange      == 10000
MaxDuration   == 1800
MaxToLanding  == 500
MinSeparation == 50
MinVertical   == 10

\* A list of waypoints: the points as the client sent them, and the indices
\* that route optimisation left in the list.
Route == {r \in [points : Seq(Waypoint), kept : SUBSET Nat] :
             r.kept \subseteq 1 .. Len(r.points)}

WholeRoute(ws) == [points |-> ws, kept |-> 1 .. Len(ws)]

\* The kept waypoint before n; n is not the first one.
Previous(r, n) == CHOOSE i \in r.kept : i < n /\ \A j \in r.kept : j < n => j <= i

ASSUME DistanceSymmetric ==
    \A p, q \in Position : Distance(p, q) = Distance(q, p)

AltitudeExceeded(wp) == wp.altitude > MaxAltitude
AltitudeTooLow(wp)   == 0 < wp.altitude /\ wp.altitude < MinAltitude
SpeedExceeded(wp)    == wp.speed > MaxSpeed

\* Points where the drone takes off or lands are not held against a zone.
InNoFlyZone(wp) ==
    /\ wp.action \notin {"takeoff", "land"}
    /\ \E z \in NoFlyZones : Distance(wp.at, z.center) < z.radius

\* The sum of Leg(a, b) over the successive waypoints a, b of a route.
SumOfLegs(r, Leg(_, _)) ==
    LET sum[n \in 0 .. Len(r.points)] ==
            IF n = 0 THEN 0
            ELSE sum[n - 1] +
                 IF n \in r.kept /\ \E i \in r.kept : i < n
                 THEN Leg(r.points[Previous(r, n)], r.points[n])
                 ELSE 0
    IN  sum[Len(r.points)]

TotalDistance(r) == SumOfLegs(r, LegLength)

\* Seconds from waypoint a to the end of the action at b, at the mean speed;
\* a leg whose speeds are both zero is flown in no time.
LegTime(a, b) ==
    b.hold + IF a.speed + b.speed > 0
             THEN (2 * Distance(a.at, b.at)) \div (a.speed + b.speed)
             ELSE 0

EstimateFlightDuration(r) == SumOfLegs(r, LegTime)

RangeExceeded(r)    == TotalDistance(r) > MaxRange
DurationExceeded(r) == EstimateFlightDuration(r) > MaxDuration

\* nearest_emergency > 500: every landing point is that far away.
LandingTooFar(wp, landing) ==
    \A e \in landing : Distance(wp.at, e.at) > MaxToLanding

-----------------------------------------------------------------------------
(* Conflicts between two plans.                                             *)

EndTime(plan) == plan.takeoff_time + plan.estimated_duration

TimeOverlap(p, q) == ~ (EndTime(p) < q.takeoff_time \/ EndTime(q) < p.takeoff_time)

TooClose(a, b) ==
    /\ Distance(a.at, b.at) < MinSeparation
    /\ a.altitude - b.altitude < MinVertical
    /\ b.altitude - a.altitude < MinVertical

\* _check_spatial_conflicts compares the waypoints of the two plans, whatever
\* the moment each is reached.
SpatialConflict(r, q) ==
    \E i \in r.kept, j \in q.kept : TooClose(r.points[i], q.points[j])

Conflict(p, q) == TimeOverlap(p, q) /\ SpatialConflict(p.waypoints, q.waypoints)

-----------------------------------------------------------------------------
(* validate_flight_plan: INVALID, WARNING or VALID.                         *)

\* The critical issues that do not depend on the other missions.
Unsafe(plan) ==
    \/ plan.emergency_landing_points = {}
    \/ \E i \in plan.waypoints.kept :
          LET wp == plan.waypoints.points[i]
          IN  AltitudeExceeded(wp) \/ SpeedExceeded(wp) \/ InNoFlyZone(wp)

Advisory(plan) ==
    \/ RangeExceeded(plan.waypoints)
    \/ DurationExceeded(plan.waypoints)
    \/ \E i \in plan.waypoints.kept :
          LET wp == plan.waypoints.points[i]
          IN  AltitudeTooLow(wp) \/ LandingTooFar(wp, plan.emergency_landing_points)

\* others: the plans of the active missions with another mission_id.
Invalid(plan, others) == Unsafe(plan) \/ \E q \in others : Conflict(plan, q)
=============================================================================
