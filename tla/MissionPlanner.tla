--------------------------- MODULE MissionPlanner ---------------------------
(***************************************************************************)
(* The life cycle of missions in MissionPlannerService                     *)
(* (mission_planner/src/mission_planner_service.py): create, update,       *)
(* approve, start, complete, abort, templates and clean-up, and the plans  *)
(* the core holds for the missions in the air.  The methods are coroutines *)
(* that never suspend, so each is one step.  A refused call changes        *)
(* nothing, but for the usage count of a template.                         *)
(***************************************************************************)
EXTENDS MissionPlannerCore, FiniteSets

CONSTANTS
    MissionIds,
    Routes,         \* waypoint lists clients send
    Landings,       \* sets of emergency landing points clients send
    Takeoffs,       \* take-off times
    Templates,      \* template ids
    MaxConcurrent,  \* MAX_CONCURRENT_MISSIONS
    Optimization,   \* ENABLE_ROUTE_OPTIMIZATION
    None,
    MaxCreates,     \* bound: missions created
    MaxHistory,     \* bound: entries of mission_history
    MaxUses         \* bound: usage_count of a template

ASSUME RoutesAssumption   == \A ws \in Routes : ws \in Seq(Waypoint)
ASSUME LandingsAssumption == \A L \in Landings : L \subseteq Waypoint
ASSUME SwitchAssumption   == Optimization \in BOOLEAN

VARIABLES
    store,      \* every Mission object made, in order; an index is a reference
    missions,   \* self.missions: id -> reference, 0 when there is none
    active,     \* core.active_missions: id -> flight plan, or None
    history,    \* self.mission_history: references
    templates,  \* self.templates: id -> waypoints, landing points, usage; or None
    overwritten \* history: ids given to a new mission while the core held a plan
                \* for them, and not flown since

vars == <<store, missions, active, history, templates, overwritten>>

Status == {"draft", "validated", "approved", "active", "completed", "aborted"}

FlightPlan == [waypoints : Route, takeoff_time : Takeoffs, estimated_duration : Int,
               emergency_landing_points : SUBSET Waypoint]

\* old: updated_at lies more than mission_retention_days back.
Mission == [status : Status, flight_plan : FlightPlan, old : BOOLEAN]

Init ==
    /\ store     = <<>>
    /\ missions  = [m \in MissionIds |-> 0]
    /\ active    = [m \in MissionIds |-> None]
    /\ history   = <<>>
    /\ templates = [t \in Templates |-> None]
    /\ overwritten = {}

Registered == {m \in MissionIds : active[m] # None}
Others(m)  == {active[n] : n \in Registered \ {m}}

Exists(m)  == missions[m] # 0
This(m)    == store[missions[m]]
StatusIs(m, st) == Exists(m) /\ This(m).status = st

\* Every change of status also refreshes updated_at.
WithStatus(m, st) ==
    [store EXCEPT ![missions[m]] = [@ EXCEPT !.status = st, !.old = FALSE]]

Plan(route, landing, t) ==
    [waypoints |-> route, takeoff_time |-> t,
     estimated_duration |-> EstimateFlightDuration(route),
     emergency_landing_points |-> landing]

\* A plan without issues is ready for approval, one with warnings a draft.
StatusAfterValidation(plan) == IF Advisory(plan) THEN "draft" ELSE "validated"

\* _optimize_route drops an inner waypoint that has no action and lies on the
\* line between its neighbours in the original list.
Dropped(ws, i) ==
    /\ 1 < i /\ i < Len(ws)
    /\ ws[i].action = "none"
    /\ Collinear(ws[i - 1].at, ws[i].at, ws[i + 1].at)

OptimizeRoute(r) == [r EXCEPT !.kept = {i \in r.kept : ~ Dropped(r.points, i)}]

\* Only the waypoints change: estimated_duration stays that of the full list.
Finished(plan) ==
    IF Optimization /\ ~ Advisory(plan) THEN [plan EXCEPT !.waypoints = OptimizeRoute(@)] ELSE plan

-----------------------------------------------------------------------------
(* Creating and changing a mission.                                         *)

AcceptMission(m, plan) ==
    /\ plan.waypoints.points # <<>>
    /\ Cardinality(Registered) < MaxConcurrent
    /\ ~ Invalid(plan, Others(m))

\* self.missions[mission_id] = mission, whatever was there: a mission in the air,
\* too, which no call can end from then on.
StoreMission(m, plan) ==
    /\ store' = Append(store, [status |-> StatusAfterValidation(plan),
                               flight_plan |-> Finished(plan), old |-> FALSE])
    /\ missions' = [missions EXCEPT ![m] = Len(store) + 1]
    /\ overwritten' = overwritten \cup ({m} \cap Registered)

CreateMission(m, ws, landing, t) ==
    LET plan == Plan(WholeRoute(ws), landing, t) IN
    /\ Len(store) < MaxCreates
    /\ AcceptMission(m, plan)
    /\ StoreMission(m, plan)
    /\ UNCHANGED <<active, history, templates>>

\* Waypoints or landing points that are absent or empty are those of the
\* present plan; the new plan is not optimised.  Only active and completed
\* missions are refused, so an aborted mission becomes a validated one.
NewPlan(m, ws, landing, t) ==
    LET old == This(m).flight_plan IN
    Plan(IF ws = <<>> THEN old.waypoints ELSE WholeRoute(ws),
         IF landing = {} THEN old.emergency_landing_points ELSE landing,
         IF t = None THEN old.takeoff_time ELSE t)

MayUpdate(m) == Exists(m) /\ This(m).status \notin {"active", "completed"}

\* Mutant: the new plan is only checked against the other missions.
UpdateMissionUnchecked(m, ws, landing, t) ==
    /\ MayUpdate(m)
    /\ LET plan == NewPlan(m, ws, landing, t) IN
       /\ \A q \in Others(m) : ~ Conflict(plan, q)
       /\ store' = [store EXCEPT ![missions[m]] =
                       [status |-> StatusAfterValidation(plan), flight_plan |-> plan,
                        old |-> FALSE]]
    /\ UNCHANGED <<missions, active, history, templates, overwritten>>

\* Mutant: an approved mission stays approved.
UpdateMissionKeepsApproval(m, ws, landing, t) ==
    /\ MayUpdate(m)
    /\ LET plan == NewPlan(m, ws, landing, t) IN
       /\ ~ Invalid(plan, Others(m))
       /\ store' = [store EXCEPT ![missions[m]].flight_plan = plan]
    /\ UNCHANGED <<missions, active, history, templates, overwritten>>

UpdateMission(m, ws, landing, t) ==
    /\ MayUpdate(m)
    /\ LET plan == NewPlan(m, ws, landing, t) IN
       /\ ~ Invalid(plan, Others(m))
       /\ store' = [store EXCEPT ![missions[m]] =
                       [status |-> StatusAfterValidation(plan), flight_plan |-> plan,
                        old |-> FALSE]]
    /\ UNCHANGED <<missions, active, history, templates, overwritten>>

\* An update of name, description or take-off time alone only refreshes
\* updated_at.
UpdateNoPlan(m) ==
    /\ MayUpdate(m)
    /\ store' = [store EXCEPT ![missions[m]] = [@ EXCEPT !.old = FALSE]]
    /\ UNCHANGED <<missions, active, history, templates, overwritten>>

\* _get_weather_conditions is a stub: the cache always holds this report.
Weather == [wind_speed |-> 5, visibility |-> 5000, precipitation |-> FALSE]

WeatherSuitable(w) ==
    w.wind_speed <= 10 /\ w.visibility >= 1000 /\ ~ w.precipitation

ApproveMission(m) ==
    /\ StatusIs(m, "validated")
    /\ WeatherSuitable(Weather)
    /\ store' = WithStatus(m, "approved")
    /\ UNCHANGED <<missions, active, history, templates, overwritten>>

-----------------------------------------------------------------------------
(* Flying it.                                                               *)

\* Mutant: the validation at creation is trusted.
StartMissionUnchecked(m) ==
    /\ StatusIs(m, "approved")
    /\ active' = [active EXCEPT ![m] = This(m).flight_plan]
    /\ store'  = WithStatus(m, "active")
    /\ overwritten' = overwritten \ {m}
    /\ UNCHANGED <<missions, history, templates>>

\* The plan is validated once more, now against what is in the air; the
\* number of active missions is not looked at.
StartMission(m) ==
    /\ StatusIs(m, "approved")
    /\ ~ Invalid(This(m).flight_plan, Others(m))
    /\ active' = [active EXCEPT ![m] = This(m).flight_plan]
    /\ store'  = WithStatus(m, "active")
    /\ overwritten' = overwritten \ {m}
    /\ UNCHANGED <<missions, history, templates>>

\* Mutant: the core is not told.
EndMissionRegistered(m, st) ==
    /\ StatusIs(m, "active")
    /\ Len(history) < MaxHistory
    /\ store'   = WithStatus(m, st)
    /\ history' = Append(history, missions[m])
    /\ UNCHANGED <<missions, active, templates, overwritten>>

EndMission(m, st) ==
    /\ StatusIs(m, "active")
    /\ Len(history) < MaxHistory
    /\ active'  = [active EXCEPT ![m] = None]
    /\ store'   = WithStatus(m, st)
    /\ history' = Append(history, missions[m])
    /\ UNCHANGED <<missions, templates, overwritten>>

CompleteMission(m) == EndMission(m, "completed")
AbortMission(m)    == EndMission(m, "aborted")

-----------------------------------------------------------------------------
(* Templates and clean-up.                                                  *)

CreateTemplate(t, ws, landing) ==
    /\ templates' = [templates EXCEPT ![t] =
                        [waypoints |-> ws, emergency_points |-> landing, usage |-> 0]]
    /\ UNCHANGED <<store, missions, active, history, overwritten>>

\* usage_count grows before create_mission decides; the mission gets a
\* generated id.
CreateFromTemplate(t, m, tk) ==
    /\ templates[t] # None
    /\ templates[t].usage < MaxUses
    /\ templates' = [templates EXCEPT ![t].usage = @ + 1]
    /\ LET plan == Plan(WholeRoute(templates[t].waypoints),
                        templates[t].emergency_points, tk) IN
       /\ Len(store) < MaxCreates
       /\ \/ AcceptMission(m, plan) /\ StoreMission(m, plan)
          \/ ~ AcceptMission(m, plan) /\ UNCHANGED <<store, missions, overwritten>>
    /\ UNCHANGED <<active, history>>

\* The retention period passes since a mission was last updated.
RetentionPasses(i) ==
    /\ ~ store[i].old
    /\ store' = [store EXCEPT ![i] = [@ EXCEPT !.old = TRUE]]
    /\ UNCHANGED <<missions, active, history, templates, overwritten>>

CleanupOldMissions ==
    /\ missions' = [m \in MissionIds |->
                       IF /\ Exists(m) /\ This(m).old
                          /\ This(m).status \in {"completed", "aborted"}
                       THEN 0 ELSE missions[m]]
    /\ history' = SelectSeq(history, LAMBDA i : ~ store[i].old)
    /\ UNCHANGED <<store, active, templates, overwritten>>

Next ==
    \/ \E m \in MissionIds, ws \in Routes, L \in Landings, t \in Takeoffs :
          CreateMission(m, ws, L, t)
    \/ \E m \in MissionIds, ws \in Routes, L \in Landings, t \in Takeoffs \cup {None} :
          UpdateMission(m, ws, L, t)
    \/ \E m \in MissionIds :
          \/ UpdateNoPlan(m) \/ ApproveMission(m) \/ StartMission(m)
          \/ CompleteMission(m) \/ AbortMission(m)
    \/ \E t \in Templates, ws \in Routes, L \in Landings : CreateTemplate(t, ws, L)
    \/ \E t \in Templates, m \in MissionIds, tk \in Takeoffs : CreateFromTemplate(t, m, tk)
    \/ \E i \in 1 .. Len(store) : RetentionPasses(i)
    \/ CleanupOldMissions

Spec == Init /\ [][Next]_vars

-----------------------------------------------------------------------------
(* Properties.                                                              *)

TypeOK ==
    /\ store \in Seq(Mission)
    /\ missions \in [MissionIds -> 0 .. Len(store)]
    /\ active \in [MissionIds -> FlightPlan \cup {None}]
    /\ history \in Seq(1 .. Len(store))
    /\ \A t \in Templates : templates[t] = None \/ templates[t].usage \in 0 .. MaxUses
    /\ overwritten \in SUBSET MissionIds

\* No two missions in the air overlap in time with waypoints closer than the
\* minimum separation: approve and start may come long after the plan was
\* first validated, and other missions may have started in between.
NoActiveConflict ==
    \A m, n \in Registered : m # n => ~ Conflict(active[m], active[n])

\* What the core holds for an active mission is its plan, so the conflict
\* checks of the others are made against what it flies.
ActiveIsRegistered ==
    \A m \in MissionIds : StatusIs(m, "active") => active[m] = This(m).flight_plan

\* And the core holds no plan for nobody, which would block the airspace and count
\* against the limit: a plan it holds is that of an active mission, or its id was
\* given to another mission while the one it is for was in the air.  Such a plan
\* stays for good: only the start of the new mission replaces it.
RegisteredIsActive ==
    /\ \A m \in Registered : StatusIs(m, "active") \/ m \in overwritten
    /\ overwritten \subseteq Registered

\* No mission with a critical issue of its own flies, or waits approved: not
\* after an update, an optimisation or a restart of an aborted mission either.
FlownIsSafe ==
    \A m \in MissionIds :
        Exists(m) /\ This(m).status \in {"approved", "active"} => ~ Unsafe(This(m).flight_plan)

\* An approval is for one plan: whatever changes the plan of a mission takes
\* its approval away, and only approve_mission gives it back.
ApprovalCoversPlan ==
    [][\A m \in MissionIds :
          /\ Exists(m)' /\ This(m)'.status \in {"approved", "active"}
          => /\ Exists(m)
             /\ This(m)'.flight_plan = This(m).flight_plan
             /\ This(m).status \in {"validated", "approved", "active"}]_vars
=============================================================================
