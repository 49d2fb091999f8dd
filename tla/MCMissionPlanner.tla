-------------------------- MODULE MCMissionPlanner --------------------------
(* MissionPlanner for TLC: positions are metres along one line, so that      *)
(* every inner waypoint is collinear with its neighbours.                    *)
EXTENDS MissionPlanner

MCPosition == {0, 400, 800, 1300}

MCDistance(p, q) == IF p < q THEN q - p ELSE p - q

\* The points of one route are at one altitude, or one above the other.
MCLegLength(a, b) ==
    LET climb == IF a.altitude < b.altitude THEN b.altitude - a.altitude
                                            ELSE a.altitude - b.altitude
    IN  IF a.at = b.at THEN climb ELSE MCDistance(a.at, b.at)

MCCollinear(p, q, r) == TRUE

MCNoFlyZones == {[center |-> 800, radius |-> 100]}

Wp(p, alt, spd, act) == [at |-> p, altitude |-> alt, speed |-> spd, action |-> act, hold |-> 0]

\* Out over 400 to a landing in the zone at 800, which is allowed; a hover
\* above 400; a point too far from the landing point; one in the zone.
Out   == <<Wp(0, 50, 10, "takeoff"), Wp(400, 50, 10, "none"), Wp(800, 50, 10, "land")>>
Hover == <<Wp(400, 55, 10, "photo")>>
Far   == <<Wp(1300, 90, 10, "photo")>>
Zone  == <<Wp(800, 50, 10, "photo")>>

Landing == {Wp(400, 0, 0, "none")}

AllRoutes    == {<<>>, Out, Hover, Far, Zone}
OneLanding   == {Landing}
MCTakeoffs   == {0, 60}
=============================================================================
