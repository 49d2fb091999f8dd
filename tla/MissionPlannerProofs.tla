------------------------ MODULE MissionPlannerProofs ------------------------
(***************************************************************************)
(* Whatever the geometry, the routes and the number of missions: no two    *)
(* missions in the air conflict, the plan the core checks against is the   *)
(* one an active mission flies, what is approved or flown has no critical  *)
(* issue, an approval is for one plan, and no plan is held for a mission   *)
(* that has ended, but where its id was given again while it flew.         *)
(***************************************************************************)
EXTENDS MissionPlanner, TLAPS

\* What estimated_duration may be: the estimate is a sum over the route, and
\* nothing here needs to know that it is a number.
Durations == {EstimateFlightDuration(r) : r \in Route}

APlan == [waypoints : Route, takeoff_time : Takeoffs, estimated_duration : Durations,
          emergency_landing_points : SUBSET Waypoint]

AMission == [status : Status, flight_plan : APlan, old : BOOLEAN]

ATemplate == [waypoints : Seq(Waypoint), emergency_points : SUBSET Waypoint, usage : Int]

TypeInv ==
    /\ store \in Seq(AMission)
    /\ missions \in [MissionIds -> 0 .. Len(store)]
    /\ active \in [MissionIds -> APlan \cup {None}]
    /\ templates \in [Templates -> ATemplate \cup {None}]

\* Two ids never name the same mission object.
OwnObject ==
    \A m, n \in MissionIds : m # n /\ missions[m] # 0 => missions[m] # missions[n]

IInv == TypeInv /\ OwnObject /\ ActiveIsRegistered /\ NoActiveConflict

-----------------------------------------------------------------------------
(* Lemmas about plans.                                                      *)

\* The whole of a list of waypoints is a route.
LEMMA WholeRouteType ==
    ASSUME NEW ws \in Seq(Waypoint)
    PROVE  WholeRoute(ws) \in Route
BY DEF WholeRoute, Route

\* A plan made of a route, landing points and a take-off time is a plan.
LEMMA PlanType ==
    ASSUME NEW r \in Route, NEW L \in SUBSET Waypoint, NEW t \in Takeoffs
    PROVE  Plan(r, L, t) \in APlan
BY DEF Plan, APlan, Durations

\* Optimisation leaves a plan a plan.
LEMMA FinishedType ==
    ASSUME NEW p \in APlan
    PROVE  Finished(p) \in APlan
<1>1. p.waypoints \in Route
    BY DEF APlan
<1>2. OptimizeRoute(p.waypoints) \in Route
    BY <1>1 DEF OptimizeRoute, Route
<1>3. [p EXCEPT !.waypoints = OptimizeRoute(@)] \in APlan
    BY <1>2 DEF APlan
<1> QED
    BY <1>3 DEF Finished

\* A conflict is one for both plans, so it is enough that the later of the
\* two was checked.
LEMMA ConflictSymmetric ==
    ASSUME NEW p \in APlan, NEW q \in APlan, Conflict(p, q)
    PROVE  Conflict(q, p)
<1>1. PICK i \in p.waypoints.kept, j \in q.waypoints.kept :
          TooClose(p.waypoints.points[i], q.waypoints.points[j])
    BY DEF Conflict, SpatialConflict
<1> DEFINE a == p.waypoints.points[i]
           b == q.waypoints.points[j]
<1>2. p.waypoints \in Route /\ q.waypoints \in Route
    BY DEF APlan
<1>3. a \in Waypoint /\ b \in Waypoint
    BY <1>1, <1>2 DEF Route
<1>4. Distance(a.at, b.at) = Distance(b.at, a.at)
    BY <1>3, DistanceSymmetric DEF Waypoint
<1>5. TooClose(b, a)
    BY <1>1, <1>4 DEF TooClose
<1>6. SpatialConflict(q.waypoints, p.waypoints)
    BY <1>1, <1>5 DEF SpatialConflict
<1>7. TimeOverlap(q, p)
    BY DEF Conflict, TimeOverlap
<1> QED
    BY <1>6, <1>7 DEF Conflict

-----------------------------------------------------------------------------
(* Every step of the service either leaves the airspace alone, or starts or *)
(* ends one mission.                                                        *)

\* Replacing the object of one mission keeps the store typed and the other
\* objects as they were.
LEMMA ReplaceObject ==
    ASSUME store \in Seq(AMission), NEW k \in 1 .. Len(store), NEW o \in AMission,
           store' = [store EXCEPT ![k] = o]
    PROVE  /\ store' \in Seq(AMission)
           /\ Len(store') = Len(store)
           /\ store'[k] = o
           /\ \A i \in 1 .. Len(store) : i # k => store'[i] = store[i]
OBVIOUS

\* What a step that neither starts nor ends a mission does: it may change
\* the object of one mission that is not active, without making it active,
\* or the age of an object.
Grounded(k, o) ==
    /\ store' = [store EXCEPT ![k] = o]
    /\ k \in 1 .. Len(store)
    /\ o \in AMission
    /\ o.status = "active" => /\ store[k].status = "active"
                              /\ o.flight_plan = store[k].flight_plan
    /\ UNCHANGED <<missions, active, templates>>

\* Such a step keeps the invariant.
LEMMA GroundedKeeps ==
    ASSUME IInv, NEW k, NEW o, Grounded(k, o)
    PROVE  IInv'
<1>1. /\ store' \in Seq(AMission) /\ Len(store') = Len(store) /\ store'[k] = o
      /\ \A i \in 1 .. Len(store) : i # k => store'[i] = store[i]
    BY ReplaceObject DEF IInv, TypeInv, Grounded
<1>2. TypeInv'
    BY <1>1 DEF IInv, TypeInv, Grounded
<1>3. OwnObject'
    BY DEF IInv, OwnObject, Grounded
<1>4. NoActiveConflict'
    BY DEF IInv, NoActiveConflict, Registered, Grounded
<1>5. ActiveIsRegistered'
    <2> SUFFICES ASSUME NEW m \in MissionIds, StatusIs(m, "active")'
                 PROVE  active[m]' = This(m)'.flight_plan
        BY DEF ActiveIsRegistered
    <2>1. missions' = missions /\ active' = active
        BY DEF Grounded
    <2>2. missions[m] \in 1 .. Len(store)
        BY <2>1 DEF StatusIs, Exists, IInv, TypeInv
    <2>3. StatusIs(m, "active") /\ This(m)'.flight_plan = This(m).flight_plan
        BY <1>1, <2>1, <2>2 DEF StatusIs, Exists, This, Grounded
    <2> QED
        BY <2>1, <2>3 DEF IInv, ActiveIsRegistered
<1> QED
    BY <1>2, <1>3, <1>4, <1>5 DEF IInv

\* The object of an existing mission, whatever its status becomes.
LEMMA Referenced ==
    ASSUME TypeInv, NEW m \in MissionIds, Exists(m)
    PROVE  /\ missions[m] \in 1 .. Len(store)
           /\ This(m) \in AMission
           /\ This(m).flight_plan \in APlan
<1>1. missions[m] \in 1 .. Len(store)
    BY DEF TypeInv, Exists
<1>2. This(m) \in AMission
    BY <1>1 DEF TypeInv, This
<1> QED
    BY <1>1, <1>2 DEF AMission

\* A new mission is not active and takes an object of its own.
LEMMA CreateKeeps ==
    ASSUME IInv, NEW m \in MissionIds, NEW p \in APlan, StoreMission(m, p),
           active' = active, templates' \in [Templates -> ATemplate \cup {None}]
    PROVE  IInv'
<1> DEFINE o == [status |-> StatusAfterValidation(p), flight_plan |-> Finished(p),
                 old |-> FALSE]
<1>1. o.status \in {"draft", "validated"} /\ o \in AMission
    BY FinishedType DEF StatusAfterValidation, AMission, Status
<1>2. /\ store' = Append(store, o)
      /\ missions' = [missions EXCEPT ![m] = Len(store) + 1]
    BY DEF StoreMission
<1>3. store \in Seq(AMission) /\ missions \in [MissionIds -> 0 .. Len(store)]
    BY DEF IInv, TypeInv
<1> HIDE DEF o
<1>4. /\ store' \in Seq(AMission) /\ Len(store') = Len(store) + 1
      /\ store'[Len(store) + 1] = o
      /\ \A i \in 1 .. Len(store) : store'[i] = store[i]
    BY <1>1, <1>2, <1>3
<1>5. TypeInv'
    BY <1>2, <1>3, <1>4 DEF IInv, TypeInv
<1>6. OwnObject'
    BY <1>2, <1>3 DEF IInv, OwnObject
<1>7. NoActiveConflict'
    BY DEF IInv, NoActiveConflict, Registered
<1>8. ActiveIsRegistered'
    <2> SUFFICES ASSUME NEW n \in MissionIds, StatusIs(n, "active")'
                 PROVE  active[n]' = This(n)'.flight_plan
        BY DEF ActiveIsRegistered
    <2>1. n # m
        BY <1>1, <1>2, <1>3, <1>4 DEF StatusIs, This
    <2>2. missions'[n] = missions[n] /\ missions[n] \in 1 .. Len(store)
        BY <1>2, <1>3, <2>1 DEF StatusIs, Exists
    <2>3. StatusIs(n, "active") /\ This(n)' = This(n)
        BY <1>4, <2>2 DEF StatusIs, Exists, This
    <2> QED
        BY <2>3 DEF IInv, ActiveIsRegistered
<1> QED
    BY <1>5, <1>6, <1>7, <1>8 DEF IInv

\* A change of status changes one object and its age.
LEMMA StatusChange ==
    ASSUME TypeInv, NEW m \in MissionIds, Exists(m), NEW st \in Status,
           store' = WithStatus(m, st), missions' = missions
    PROVE  /\ store' \in Seq(AMission) /\ Len(store') = Len(store)
           /\ This(m)'.status = st
           /\ This(m)'.flight_plan = This(m).flight_plan
           /\ \A i \in 1 .. Len(store) : i # missions[m] => store'[i] = store[i]
<1> DEFINE o == [This(m) EXCEPT !.status = st, !.old = FALSE]
<1>1. /\ missions[m] \in 1 .. Len(store) /\ This(m) \in AMission
      /\ store \in Seq(AMission)
    BY Referenced DEF TypeInv
<1>2. /\ o \in AMission /\ o.status = st
      /\ o.flight_plan = This(m).flight_plan
    BY <1>1 DEF AMission
<1>3. store' = [store EXCEPT ![missions[m]] = o]
    BY DEF WithStatus, This
<1> HIDE DEF o
<1> QED
    BY <1>1, <1>2, <1>3, ReplaceObject DEF This

\* A mission starts only if its plan conflicts with none in the air.
LEMMA StartKeeps ==
    ASSUME IInv, NEW m \in MissionIds, StartMission(m)
    PROVE  IInv'
<1> DEFINE p == This(m).flight_plan
<1>1. /\ Exists(m) /\ p \in APlan /\ missions[m] \in 1 .. Len(store)
      /\ missions' = missions /\ templates' = templates
      /\ active' = [active EXCEPT ![m] = p]
      /\ \A q \in Others(m) : ~ Conflict(p, q)
    BY Referenced DEF IInv, StartMission, StatusIs, Invalid
<1>2. /\ store' \in Seq(AMission) /\ Len(store') = Len(store)
      /\ This(m)'.flight_plan = p
      /\ \A i \in 1 .. Len(store) : i # missions[m] => store'[i] = store[i]
    <2>1. store' = WithStatus(m, "active") /\ "active" \in Status /\ TypeInv
        BY DEF StartMission, Status, IInv
    <2> QED
        BY <1>1, <2>1, StatusChange
<1> HIDE DEF p
<1>3. TypeInv'
    BY <1>1, <1>2 DEF IInv, TypeInv
<1>4. OwnObject'
    BY <1>1 DEF IInv, OwnObject
<1>5. ActiveIsRegistered'
    <2> SUFFICES ASSUME NEW n \in MissionIds, StatusIs(n, "active")'
                 PROVE  active[n]' = This(n)'.flight_plan
        BY DEF ActiveIsRegistered
    <2>1. CASE n = m
        BY <1>1, <1>2, <2>1 DEF IInv, TypeInv
    <2>2. CASE n # m
        <3>1. missions[n] \in 1 .. Len(store) /\ missions[n] # missions[m]
            BY <1>1, <2>2 DEF StatusIs, Exists, IInv, TypeInv, OwnObject
        <3>2. StatusIs(n, "active") /\ This(n)' = This(n) /\ active'[n] = active[n]
            BY <1>1, <1>2, <2>2, <3>1 DEF StatusIs, Exists, This, IInv, TypeInv
        <3> QED
            BY <3>2 DEF IInv, ActiveIsRegistered
    <2> QED
        BY <2>1, <2>2
<1>6. NoActiveConflict'
    <2> SUFFICES ASSUME NEW a \in Registered', NEW b \in Registered', a # b
                 PROVE  ~ Conflict(active'[a], active'[b])
        BY DEF NoActiveConflict
    <2>1. \A n \in Registered' : n # m => /\ n \in Registered
                                         /\ active'[n] = active[n]
                                         /\ active[n] \in APlan
                                         /\ active[n] \in Others(m)
        BY <1>1 DEF Registered, Others, IInv, TypeInv
    <2>2. CASE a = m
        BY <1>1, <2>1, <2>2 DEF IInv, TypeInv
    <2>3. CASE b = m
        <3>1. /\ active'[b] = p /\ active'[a] \in APlan
              /\ ~ Conflict(p, active'[a])
            BY <1>1, <2>1, <2>3 DEF IInv, TypeInv
        <3> QED
            BY <1>1, <3>1, ConflictSymmetric
    <2>4. CASE a # m /\ b # m
        BY <2>1, <2>4 DEF IInv, NoActiveConflict
    <2> QED
        BY <2>2, <2>3, <2>4
<1> QED
    BY <1>3, <1>4, <1>5, <1>6 DEF IInv

\* A mission that ends leaves the airspace to the others.
LEMMA EndKeeps ==
    ASSUME IInv, NEW m \in MissionIds, NEW st \in {"completed", "aborted"},
           EndMission(m, st)
    PROVE  IInv'
<1>1. /\ Exists(m) /\ missions[m] \in 1 .. Len(store)
      /\ missions' = missions /\ templates' = templates
      /\ active' = [active EXCEPT ![m] = None]
    BY Referenced DEF IInv, EndMission, StatusIs
<1>2. /\ store' \in Seq(AMission) /\ Len(store') = Len(store)
      /\ This(m)'.status = st
      /\ \A i \in 1 .. Len(store) : i # missions[m] => store'[i] = store[i]
    <2>1. store' = WithStatus(m, st) /\ st \in Status /\ TypeInv
        BY DEF EndMission, Status, IInv
    <2> QED
        BY <1>1, <2>1, StatusChange
<1>3. TypeInv'
    BY <1>1, <1>2 DEF IInv, TypeInv
<1>4. OwnObject'
    BY <1>1 DEF IInv, OwnObject
<1>5. ActiveIsRegistered'
    <2> SUFFICES ASSUME NEW n \in MissionIds, StatusIs(n, "active")'
                 PROVE  active[n]' = This(n)'.flight_plan
        BY DEF ActiveIsRegistered
    <2>1. n # m
        BY <1>2 DEF StatusIs
    <2>2. missions[n] \in 1 .. Len(store) /\ missions[n] # missions[m]
        BY <1>1, <2>1 DEF StatusIs, Exists, IInv, TypeInv, OwnObject
    <2>3. StatusIs(n, "active") /\ This(n)' = This(n) /\ active'[n] = active[n]
        BY <1>1, <1>2, <2>1, <2>2 DEF StatusIs, Exists, This, IInv, TypeInv
    <2> QED
        BY <2>3 DEF IInv, ActiveIsRegistered
<1>6. NoActiveConflict'
    BY <1>1 DEF IInv, TypeInv, NoActiveConflict, Registered
<1> QED
    BY <1>3, <1>4, <1>5, <1>6 DEF IInv

\* Clean-up forgets missions that have ended.
LEMMA CleanupKeeps ==
    ASSUME IInv, CleanupOldMissions
    PROVE  IInv'
<1>1. /\ store' = store /\ active' = active /\ templates' = templates
      /\ missions' \in [MissionIds -> 0 .. Len(store)]
      /\ \A m \in MissionIds : missions'[m] \in {0, missions[m]}
    BY DEF CleanupOldMissions, IInv, TypeInv
<1>2. TypeInv'
    BY <1>1 DEF IInv, TypeInv
<1>3. OwnObject'
    BY <1>1 DEF IInv, OwnObject
<1>4. NoActiveConflict'
    BY <1>1 DEF IInv, NoActiveConflict, Registered
<1>5. ActiveIsRegistered'
    BY <1>1 DEF IInv, ActiveIsRegistered, StatusIs, Exists, This
<1> QED
    BY <1>2, <1>3, <1>4, <1>5 DEF IInv

-----------------------------------------------------------------------------
(* The invariant.                                                           *)

\* A plan a client sends is typed, and so is the plan an update makes.
LEMMA NewPlanType ==
    ASSUME TypeInv, NEW m \in MissionIds, Exists(m), NEW ws \in Routes,
           NEW L \in Landings, NEW t \in Takeoffs \cup {None}
    PROVE  NewPlan(m, ws, L, t) \in APlan
<1> DEFINE old == This(m).flight_plan
<1>1. /\ old.waypoints \in Route /\ old.emergency_landing_points \in SUBSET Waypoint
      /\ old.takeoff_time \in Takeoffs
    BY Referenced DEF APlan
<1>2. WholeRoute(ws) \in Route /\ L \in SUBSET Waypoint
    BY WholeRouteType, RoutesAssumption, LandingsAssumption
<1>3. /\ (IF ws = <<>> THEN old.waypoints ELSE WholeRoute(ws)) \in Route
      /\ (IF L = {} THEN old.emergency_landing_points ELSE L) \in SUBSET Waypoint
      /\ (IF t = None THEN old.takeoff_time ELSE t) \in Takeoffs
    BY <1>1, <1>2
<1> QED
    BY <1>3, PlanType DEF NewPlan

\* The invariant holds at the start: no missions.
LEMMA InitIInv == Init => IInv
<1> SUFFICES ASSUME Init PROVE IInv
    OBVIOUS
<1>1. TypeInv
    BY DEF Init, TypeInv
<1>2. OwnObject /\ ActiveIsRegistered
    BY DEF Init, OwnObject, ActiveIsRegistered, StatusIs, Exists
<1>3. NoActiveConflict
    BY DEF Init, NoActiveConflict, Registered
<1> QED
    BY <1>1, <1>2, <1>3 DEF IInv

\* Every call keeps it.
LEMMA NextIInv == IInv /\ [Next]_vars => IInv'
<1> SUFFICES ASSUME IInv, [Next]_vars PROVE IInv'
    OBVIOUS
<1> USE DEF IInv
<1>1. ASSUME NEW m \in MissionIds, NEW ws \in Routes, NEW L \in Landings,
             NEW t \in Takeoffs, CreateMission(m, ws, L, t)
      PROVE  IInv'
    <2>1. Plan(WholeRoute(ws), L, t) \in APlan
        BY WholeRouteType, PlanType, RoutesAssumption, LandingsAssumption
    <2>2. /\ StoreMission(m, Plan(WholeRoute(ws), L, t))
          /\ active' = active /\ templates' = templates
        BY <1>1 DEF CreateMission
    <2> QED
        BY <2>1, <2>2, CreateKeeps DEF TypeInv
<1>2. ASSUME NEW m \in MissionIds, NEW ws \in Routes, NEW L \in Landings,
             NEW t \in Takeoffs \cup {None}, UpdateMission(m, ws, L, t)
      PROVE  IInv'
    <2> DEFINE plan == NewPlan(m, ws, L, t)
               o == [status |-> StatusAfterValidation(plan), flight_plan |-> plan,
                     old |-> FALSE]
    <2>1. Exists(m) /\ missions[m] \in 1 .. Len(store)
        BY <1>2, Referenced DEF UpdateMission, MayUpdate
    <2>2. plan \in APlan
        BY <2>1, NewPlanType
    <2>3. o \in AMission /\ o.status # "active"
        BY <2>2 DEF AMission, Status, StatusAfterValidation
    <2>4. Grounded(missions[m], o)
        BY <1>2, <2>1, <2>3 DEF UpdateMission, Grounded
    <2> QED
        BY <2>4, GroundedKeeps
<1>3. ASSUME NEW m \in MissionIds, UpdateNoPlan(m)
      PROVE  IInv'
    <2> DEFINE o == [This(m) EXCEPT !.old = FALSE]
    <2>1. Exists(m) /\ missions[m] \in 1 .. Len(store) /\ This(m) \in AMission
        BY <1>3, Referenced DEF UpdateNoPlan, MayUpdate
    <2>2. o \in AMission /\ o.status = This(m).status /\ o.flight_plan = This(m).flight_plan
        BY <2>1 DEF AMission
    <2>3. Grounded(missions[m], o)
        BY <1>3, <2>1, <2>2 DEF UpdateNoPlan, Grounded, This
    <2> QED
        BY <2>3, GroundedKeeps
<1>4. ASSUME NEW m \in MissionIds, ApproveMission(m)
      PROVE  IInv'
    <2> DEFINE o == [This(m) EXCEPT !.status = "approved", !.old = FALSE]
    <2>1. Exists(m) /\ missions[m] \in 1 .. Len(store) /\ This(m) \in AMission
        BY <1>4, Referenced DEF ApproveMission, StatusIs
    <2>2. o \in AMission /\ o.status # "active"
        BY <2>1 DEF AMission, Status
    <2>3. Grounded(missions[m], o)
        BY <1>4, <2>1, <2>2 DEF ApproveMission, WithStatus, Grounded, This
    <2> QED
        BY <2>3, GroundedKeeps
<1>5. ASSUME NEW m \in MissionIds, StartMission(m)
      PROVE  IInv'
    BY <1>5, StartKeeps
<1>6. ASSUME NEW m \in MissionIds, CompleteMission(m) \/ AbortMission(m)
      PROVE  IInv'
    BY <1>6, EndKeeps DEF CompleteMission, AbortMission
<1>7. ASSUME NEW t \in Templates, NEW ws \in Routes, NEW L \in Landings,
             CreateTemplate(t, ws, L)
      PROVE  IInv'
    <2>1. [waypoints |-> ws, emergency_points |-> L, usage |-> 0] \in ATemplate
        BY RoutesAssumption, LandingsAssumption DEF ATemplate
    <2>2. TypeInv'
        BY <1>7, <2>1 DEF CreateTemplate, TypeInv
    <2>3. OwnObject' /\ NoActiveConflict' /\ ActiveIsRegistered'
        BY <1>7 DEF CreateTemplate, OwnObject, NoActiveConflict, Registered,
                    ActiveIsRegistered, StatusIs, Exists, This
    <2> QED
        BY <2>2, <2>3
<1>8. ASSUME NEW t \in Templates, NEW m \in MissionIds, NEW tk \in Takeoffs,
             CreateFromTemplate(t, m, tk)
      PROVE  IInv'
    <2> DEFINE plan == Plan(WholeRoute(templates[t].waypoints),
                            templates[t].emergency_points, tk)
    <2>1. templates[t] \in ATemplate
        BY <1>8 DEF CreateFromTemplate, TypeInv
    <2>2. plan \in APlan
        BY <2>1, WholeRouteType, PlanType DEF ATemplate
    <2>3. [templates[t] EXCEPT !.usage = @ + 1] \in ATemplate
        BY <2>1 DEF ATemplate
    <2>4. /\ templates' = [templates EXCEPT ![t] = [templates[t] EXCEPT !.usage = @ + 1]]
          /\ active' = active
        BY <1>8 DEF CreateFromTemplate
    <2>5. templates' \in [Templates -> ATemplate \cup {None}]
        BY <2>3, <2>4 DEF TypeInv
    <2>6. CASE StoreMission(m, plan)
        BY <2>2, <2>4, <2>5, <2>6, CreateKeeps
    <2>7. CASE UNCHANGED <<store, missions>>
        <3>1. TypeInv'
            BY <2>4, <2>5, <2>7 DEF TypeInv
        <3>2. OwnObject' /\ NoActiveConflict' /\ ActiveIsRegistered'
            BY <2>4, <2>7 DEF OwnObject, NoActiveConflict, Registered,
                              ActiveIsRegistered, StatusIs, Exists, This
        <3> QED
            BY <3>1, <3>2
    <2> QED
        BY <1>8, <2>6, <2>7 DEF CreateFromTemplate
<1>9. ASSUME NEW i \in 1 .. Len(store), RetentionPasses(i)
      PROVE  IInv'
    <2> DEFINE o == [store[i] EXCEPT !.old = TRUE]
    <2>1. store[i] \in AMission
        BY DEF TypeInv
    <2>2. o \in AMission /\ o.status = store[i].status /\ o.flight_plan = store[i].flight_plan
        BY <2>1 DEF AMission
    <2>3. Grounded(i, o)
        BY <1>9, <2>2 DEF RetentionPasses, Grounded
    <2> QED
        BY <2>3, GroundedKeeps
<1>10. CASE CleanupOldMissions
    BY <1>10, CleanupKeeps
<1>11. CASE UNCHANGED vars
    BY <1>11 DEF vars, TypeInv, OwnObject, NoActiveConflict, Registered,
                 ActiveIsRegistered, StatusIs, Exists, This
<1> QED
    BY <1>1, <1>2, <1>3, <1>4, <1>5, <1>6, <1>7, <1>8, <1>9, <1>10, <1>11 DEF Next

\* The inductive invariant is one.
THEOREM Invariance == Spec => []IInv
BY InitIInv, NextIInv, PTL DEF Spec

\* No two missions in the air overlap in time with waypoints closer than the
\* minimum separation, for every geometry and any number of missions, whether
\* ids are reused or not.
THEOREM AirspaceSafety == Spec => []NoActiveConflict
<1>1. IInv => NoActiveConflict
    BY DEF IInv
<1> QED
    BY <1>1, Invariance, PTL

\* The plan held against the others is the plan an active mission flies.
THEOREM FlownPlanIsChecked == Spec => []ActiveIsRegistered
<1>1. IInv => ActiveIsRegistered
    BY DEF IInv
<1> QED
    BY <1>1, Invariance, PTL
-----------------------------------------------------------------------------
(* What a step does to the mission objects.                                 *)

\* Optimisation drops waypoints, and with fewer of them nothing gets unsafe.
LEMMA FinishedIsSafe ==
    ASSUME NEW p \in APlan, ~ Unsafe(p)
    PROVE  ~ Unsafe(Finished(p))
<1>1. CASE Finished(p) = p
    BY <1>1
<1>2. CASE Finished(p) = [p EXCEPT !.waypoints = OptimizeRoute(@)]
    <2>1. p.waypoints \in Route
        BY DEF APlan
    <2>2. /\ OptimizeRoute(p.waypoints).points = p.waypoints.points
          /\ OptimizeRoute(p.waypoints).kept \subseteq p.waypoints.kept
        BY <2>1 DEF OptimizeRoute, Route
    <2>3. /\ Finished(p).waypoints = OptimizeRoute(p.waypoints)
          /\ Finished(p).emergency_landing_points = p.emergency_landing_points
        BY <1>2 DEF APlan
    <2> QED
        BY <2>2, <2>3 DEF Unsafe
<1> QED
    BY <1>1, <1>2 DEF Finished

\* Ready for approval or beyond, with a plan that has no critical issue.
Sound(o) == o.status \in {"validated", "approved", "active"} => ~ Unsafe(o.flight_plan)

Unapproved(o) == o.status \in {"draft", "validated"} /\ Sound(o)

\* An object is given a plan that was validated, and is not approved then, or keeps its
\* plan and goes on in its life at most.
Onward == {<<"validated", "approved">>, <<"approved", "active">>,
           <<"active", "completed">>, <<"active", "aborted">>}

Change(a, b) ==
    \/ Unapproved(b) /\ a.status # "active"
    \/ /\ b.flight_plan = a.flight_plan
       /\ b.status = a.status \/ <<a.status, b.status>> \in Onward

\* The objects change so and new ones are not approved; an id keeps its object, is
\* forgotten once its mission ended, or is given to a new object.
ObjectStep ==
    /\ Len(store') \in Nat /\ Len(store) <= Len(store')
    /\ \A i \in 1 .. Len(store) : Change(store[i], store'[i])
    /\ \A i \in Len(store) + 1 .. Len(store') : Unapproved(store'[i])
    /\ \A m \in MissionIds :
        \/ missions'[m] = missions[m]
        \/ missions'[m] = 0 /\ This(m).status # "active"
        \/ missions'[m] \in Len(store) + 1 .. Len(store')

LEMMA OneChange ==
    ASSUME TypeInv, NEW k \in 1 .. Len(store), NEW o \in AMission,
           store' = [store EXCEPT ![k] = o], Change(store[k], o), missions' = missions
    PROVE  ObjectStep
<1>1. /\ Len(store') = Len(store) /\ store'[k] = o
      /\ \A i \in 1 .. Len(store) : i # k => store'[i] = store[i]
    BY ReplaceObject DEF TypeInv
<1>2. Len(store) \in Nat
    BY DEF TypeInv
<1> QED
    BY <1>1, <1>2 DEF ObjectStep, Change

LEMMA StatusSteps ==
    ASSUME TypeInv, NEW m \in MissionIds, Exists(m), NEW st \in Status,
           store' = WithStatus(m, st), missions' = missions,
           <<This(m).status, st>> \in Onward
    PROVE  ObjectStep
<1> DEFINE o == [This(m) EXCEPT !.status = st, !.old = FALSE]
<1>1. missions[m] \in 1 .. Len(store) /\ This(m) \in AMission
    BY Referenced
<1>2. o \in AMission /\ o.status = st /\ o.flight_plan = This(m).flight_plan
    BY <1>1 DEF AMission
<1>3. store' = [store EXCEPT ![missions[m]] = o]
    BY DEF WithStatus, This
<1>4. Change(store[missions[m]], o)
    BY <1>2 DEF Change, This
<1> HIDE DEF o
<1> QED
    BY <1>1, <1>2, <1>3, <1>4, OneChange

\* What is stored for a new mission is one.
LEMMA NewMissionType ==
    ASSUME NEW p \in APlan
    PROVE  [status |-> StatusAfterValidation(p), flight_plan |-> Finished(p), old |-> FALSE]
                \in AMission
BY FinishedType DEF StatusAfterValidation, AMission, Status

LEMMA CreatedSteps ==
    ASSUME TypeInv, NEW m \in MissionIds, NEW p \in APlan, StoreMission(m, p), ~ Unsafe(p)
    PROVE  ObjectStep
<1> DEFINE o == [status |-> StatusAfterValidation(p), flight_plan |-> Finished(p),
                 old |-> FALSE]
<1>1. Unapproved(o) /\ o \in AMission
    BY NewMissionType, FinishedIsSafe DEF StatusAfterValidation, Unapproved, Sound
<1>2. /\ store' = Append(store, o)
      /\ missions' = [missions EXCEPT ![m] = Len(store) + 1]
    BY DEF StoreMission
<1>3. store \in Seq(AMission) /\ missions \in [MissionIds -> 0 .. Len(store)]
    BY DEF TypeInv
<1> HIDE DEF o
<1>4. /\ Len(store') = Len(store) + 1 /\ store'[Len(store) + 1] = o /\ Len(store) \in Nat
      /\ \A i \in 1 .. Len(store) : store'[i] = store[i]
    BY <1>1, <1>2, <1>3
<1>5. \A n \in MissionIds : missions'[n] = IF n = m THEN Len(store) + 1 ELSE missions[n]
    BY <1>2, <1>3
<1> QED
    BY <1>1, <1>4, <1>5 DEF ObjectStep, Change

LEMMA SameObjects ==
    ASSUME TypeInv, UNCHANGED <<store, missions>>
    PROVE  ObjectStep
<1>1. Len(store) \in Nat
    BY DEF TypeInv
<1> QED
    BY <1>1 DEF ObjectStep, Change

LEMMA ObjectSteps ==
    ASSUME TypeInv, [Next]_vars
    PROVE  ObjectStep
<1>1. ASSUME NEW m \in MissionIds, NEW ws \in Routes, NEW L \in Landings,
             NEW t \in Takeoffs, CreateMission(m, ws, L, t)
      PROVE  ObjectStep
    <2> DEFINE p == Plan(WholeRoute(ws), L, t)
    <2>1. p \in APlan
        BY WholeRouteType, PlanType, RoutesAssumption, LandingsAssumption
    <2>2. StoreMission(m, p) /\ ~ Unsafe(p)
        BY <1>1 DEF CreateMission, AcceptMission, Invalid
    <2> HIDE DEF p
    <2> QED
        BY <2>1, <2>2, CreatedSteps
<1>2. ASSUME NEW m \in MissionIds, NEW ws \in Routes, NEW L \in Landings,
             NEW t \in Takeoffs \cup {None}, UpdateMission(m, ws, L, t)
      PROVE  ObjectStep
    <2> DEFINE plan == NewPlan(m, ws, L, t)
               o == [status |-> StatusAfterValidation(plan), flight_plan |-> plan,
                     old |-> FALSE]
    <2>1. Exists(m) /\ missions[m] \in 1 .. Len(store) /\ This(m).status # "active"
        BY <1>2, Referenced DEF UpdateMission, MayUpdate
    <2>2. plan \in APlan /\ ~ Unsafe(plan)
        BY <1>2, <2>1, NewPlanType DEF UpdateMission, Invalid
    <2>3. o \in AMission /\ Unapproved(o)
        BY <2>2 DEF AMission, Status, StatusAfterValidation, Unapproved, Sound
    <2>4. store' = [store EXCEPT ![missions[m]] = o] /\ missions' = missions
        BY <1>2 DEF UpdateMission
    <2>5. Change(store[missions[m]], o)
        BY <2>1, <2>3 DEF Change, This
    <2> HIDE DEF o
    <2> QED
        BY <2>1, <2>3, <2>4, <2>5, OneChange
<1>3. ASSUME NEW m \in MissionIds, UpdateNoPlan(m)
      PROVE  ObjectStep
    <2> DEFINE o == [This(m) EXCEPT !.old = FALSE]
    <2>1. Exists(m) /\ missions[m] \in 1 .. Len(store) /\ This(m) \in AMission
        BY <1>3, Referenced DEF UpdateNoPlan, MayUpdate
    <2>2. o \in AMission /\ o.status = This(m).status /\ o.flight_plan = This(m).flight_plan
        BY <2>1 DEF AMission
    <2>3. store' = [store EXCEPT ![missions[m]] = o] /\ missions' = missions
        BY <1>3 DEF UpdateNoPlan, This
    <2>4. Change(store[missions[m]], o)
        BY <2>2 DEF Change, This
    <2> HIDE DEF o
    <2> QED
        BY <2>1, <2>2, <2>3, <2>4, OneChange
<1>4. ASSUME NEW m \in MissionIds, ApproveMission(m) \/ StartMission(m)
      PROVE  ObjectStep
    BY <1>4, StatusSteps DEF ApproveMission, StartMission, StatusIs, Status, Onward
<1>5. ASSUME NEW m \in MissionIds, CompleteMission(m) \/ AbortMission(m)
      PROVE  ObjectStep
    BY <1>5, StatusSteps DEF CompleteMission, AbortMission, EndMission, StatusIs, Status, Onward
<1>6. ASSUME NEW t \in Templates, NEW ws \in Routes, NEW L \in Landings,
             CreateTemplate(t, ws, L)
      PROVE  ObjectStep
    BY <1>6, SameObjects DEF CreateTemplate
<1>7. ASSUME NEW t \in Templates, NEW m \in MissionIds, NEW tk \in Takeoffs,
             CreateFromTemplate(t, m, tk)
      PROVE  ObjectStep
    <2> DEFINE p == Plan(WholeRoute(templates[t].waypoints),
                         templates[t].emergency_points, tk)
    <2>1. templates[t] \in ATemplate
        BY <1>7 DEF CreateFromTemplate, TypeInv
    <2>2. p \in APlan
        BY <2>1, WholeRouteType, PlanType DEF ATemplate
    <2>3. \/ ~ Unsafe(p) /\ StoreMission(m, p)
          \/ UNCHANGED <<store, missions>>
        BY <1>7 DEF CreateFromTemplate, AcceptMission, Invalid
    <2> HIDE DEF p
    <2> QED
        BY <2>2, <2>3, CreatedSteps, SameObjects
<1>8. ASSUME NEW i \in 1 .. Len(store), RetentionPasses(i)
      PROVE  ObjectStep
    <2> DEFINE o == [store[i] EXCEPT !.old = TRUE]
    <2>1. store[i] \in AMission
        BY DEF TypeInv
    <2>2. o \in AMission /\ o.status = store[i].status /\ o.flight_plan = store[i].flight_plan
        BY <2>1 DEF AMission
    <2>3. store' = [store EXCEPT ![i] = o] /\ missions' = missions
        BY <1>8 DEF RetentionPasses
    <2>4. Change(store[i], o)
        BY <2>2 DEF Change
    <2> HIDE DEF o
    <2> QED
        BY <2>2, <2>3, <2>4, OneChange
<1>9. CASE CleanupOldMissions
    <2>1. store' = store /\ Len(store) \in Nat
        BY <1>9 DEF CleanupOldMissions, TypeInv
    <2>2. \A m \in MissionIds : \/ missions'[m] = missions[m]
                                \/ missions'[m] = 0 /\ This(m).status # "active"
        BY <1>9 DEF CleanupOldMissions
    <2> QED
        BY <2>1, <2>2 DEF ObjectStep, Change
<1>10. CASE UNCHANGED vars
    BY <1>10, SameObjects DEF vars
<1> QED
    BY <1>1, <1>2, <1>3, <1>4, <1>5, <1>6, <1>7, <1>8, <1>9, <1>10 DEF Next
-----------------------------------------------------------------------------
(* Safety of what is flown, and of approvals.                               *)

StoreIsSound == \A i \in 1 .. Len(store) : Sound(store[i])

LEMMA SoundStep ==
    ASSUME TypeInv, StoreIsSound, ObjectStep
    PROVE  StoreIsSound'
<1>1. Len(store) \in Nat
    BY DEF TypeInv
<1>2. ASSUME NEW i \in 1 .. Len(store')
      PROVE  Sound(store'[i])
    <2>1. CASE i \in 1 .. Len(store)
        <3>1. Sound(store[i]) /\ Change(store[i], store'[i])
            BY <2>1 DEF StoreIsSound, ObjectStep
        <3> QED
            BY <3>1 DEF Change, Onward, Sound, Unapproved
    <2>2. CASE i \notin 1 .. Len(store)
        <3>1. i \in Len(store) + 1 .. Len(store')
            BY <1>1, <2>2 DEF ObjectStep
        <3> QED
            BY <3>1 DEF ObjectStep, Unapproved
    <2> QED
        BY <2>1, <2>2
<1> QED
    BY <1>2 DEF StoreIsSound, Sound, Unsafe

\* An approved mission, and one in the air, has a plan without critical issues, for
\* every geometry: what was validated at creation or at an update, and optimised.
THEOREM OnlySafePlansFly == Spec => []FlownIsSafe
<1>1. Init => StoreIsSound
    BY DEF Init, StoreIsSound
<1>2. TypeInv /\ StoreIsSound /\ [Next]_vars => StoreIsSound'
    BY ObjectSteps, SoundStep
<1>3. IInv /\ StoreIsSound => FlownIsSafe
    <2> SUFFICES ASSUME IInv, StoreIsSound, NEW m \in MissionIds, Exists(m),
                        This(m).status \in {"approved", "active"}
                 PROVE  ~ Unsafe(This(m).flight_plan)
        BY DEF FlownIsSafe
    <2>1. missions[m] \in 1 .. Len(store)
        BY Referenced DEF IInv
    <2> QED
        BY <2>1 DEF StoreIsSound, Sound, This
<1>4. IInv => TypeInv
    BY DEF IInv
<1> QED
    BY <1>1, <1>2, <1>3, <1>4, Invariance, PTL DEF Spec

\* No step changes the plan of an approved mission and leaves it approved, and none
\* approves a mission but from "validated", with any ids, reused or not.
THEOREM ApprovalIsOfOnePlan == Spec => ApprovalCoversPlan
<1>1. TypeInv /\ [Next]_vars =>
        \A m \in MissionIds :
            /\ Exists(m)' /\ This(m)'.status \in {"approved", "active"}
            => /\ Exists(m)
               /\ This(m)'.flight_plan = This(m).flight_plan
               /\ This(m).status \in {"validated", "approved", "active"}
    <2> SUFFICES ASSUME TypeInv, [Next]_vars, NEW m \in MissionIds, Exists(m)',
                        This(m)'.status \in {"approved", "active"}
                 PROVE  /\ Exists(m)
                        /\ This(m)'.flight_plan = This(m).flight_plan
                        /\ This(m).status \in {"validated", "approved", "active"}
        OBVIOUS
    <2>1. ObjectStep
        BY ObjectSteps
    <2>2. missions'[m] # 0
        BY DEF Exists
    <2>3. missions'[m] \notin Len(store) + 1 .. Len(store')
        BY <2>1 DEF ObjectStep, Unapproved, This
    <2>4. missions'[m] = missions[m] /\ Exists(m)
        BY <2>1, <2>2, <2>3 DEF ObjectStep, Exists
    <2>5. missions[m] \in 1 .. Len(store)
        BY <2>4, Referenced
    <2>6. Change(This(m), This(m)')
        BY <2>1, <2>4, <2>5 DEF ObjectStep, This
    <2> QED
        BY <2>4, <2>6 DEF Change, Onward, Unapproved
<1>2. IInv => TypeInv
    BY DEF IInv
<1> QED
    BY <1>1, <1>2, Invariance, PTL DEF Spec, ApprovalCoversPlan
-----------------------------------------------------------------------------
(* What the core holds.                                                     *)

\* An id that was given again while the core held its plan has not flown since.
HeldInv ==
    /\ RegisteredIsActive
    /\ \A m \in overwritten : ~ StatusIs(m, "active")

\* A step that leaves the core and the history alone, and neither starts nor ends
\* a mission, holds what was held.
LEMMA GroundedHolds ==
    ASSUME IInv, HeldInv, UNCHANGED <<active, overwritten>>,
           \A m \in MissionIds : \/ missions'[m] = missions[m]
                                 \/ missions'[m] = 0 /\ ~ StatusIs(m, "active"),
           \A i \in 1 .. Len(store) :
                store[i].status = "active" <=> store'[i].status = "active"
    PROVE  HeldInv'
<1>1. Registered' = Registered
    BY DEF Registered
<1>2. ASSUME NEW m \in MissionIds
      PROVE  StatusIs(m, "active")' <=> StatusIs(m, "active")
    <2>1. CASE missions'[m] = 0
        BY <2>1 DEF StatusIs, Exists
    <2>2. CASE missions'[m] # 0
        <3>1. missions'[m] = missions[m] /\ missions[m] \in 1 .. Len(store)
            BY <2>2, Referenced DEF IInv, Exists
        <3> QED
            BY <3>1 DEF StatusIs, Exists, This
    <2> QED
        BY <2>1, <2>2
<1>3. overwritten \subseteq Registered /\ Registered \subseteq MissionIds
    BY DEF HeldInv, RegisteredIsActive, Registered
<1>4. \A m \in Registered' : StatusIs(m, "active")' \/ m \in overwritten'
    BY <1>1, <1>2, <1>3 DEF HeldInv, RegisteredIsActive
<1>5. \A m \in overwritten' : ~ StatusIs(m, "active")'
    BY <1>2, <1>3 DEF HeldInv
<1> QED
    BY <1>1, <1>3, <1>4, <1>5 DEF HeldInv, RegisteredIsActive

\* So does replacing the object of one mission, if both are active or neither is.
LEMMA ReplacedHolds ==
    ASSUME IInv, HeldInv, UNCHANGED <<missions, active, overwritten>>,
           NEW k \in 1 .. Len(store), NEW o \in AMission, store' = [store EXCEPT ![k] = o],
           store[k].status = "active" <=> o.status = "active"
    PROVE  HeldInv'
<1>1. \A i \in 1 .. Len(store) : store[i].status = "active" <=> store'[i].status = "active"
    BY ReplaceObject DEF IInv, TypeInv
<1> QED
    BY <1>1, GroundedHolds

\* A new mission is not active; if the core holds a plan for its id, the id is
\* one that was given again.
LEMMA CreatedHolds ==
    ASSUME IInv, HeldInv, NEW m \in MissionIds, NEW p \in APlan, StoreMission(m, p),
           active' = active
    PROVE  HeldInv'
<1>1. ~ StatusIs(m, "active")'
    <2>1. /\ store' = Append(store, [status |-> StatusAfterValidation(p),
                                     flight_plan |-> Finished(p), old |-> FALSE])
          /\ missions'[m] = Len(store) + 1
        BY DEF StoreMission, IInv, TypeInv
    <2>2. store'[Len(store) + 1].status = StatusAfterValidation(p)
        BY <2>1, NewMissionType DEF IInv, TypeInv
    <2> QED
        BY <2>1, <2>2 DEF StatusIs, This, StatusAfterValidation
<1>2. ASSUME NEW n \in MissionIds, n # m
      PROVE  StatusIs(n, "active")' <=> StatusIs(n, "active")
    <2>1. missions'[n] = missions[n]
        BY <1>2 DEF StoreMission, IInv, TypeInv
    <2>2. Exists(n) => missions[n] \in 1 .. Len(store)
        BY Referenced DEF IInv
    <2>3. \A i \in 1 .. Len(store) : store'[i] = store[i]
        BY NewMissionType DEF StoreMission, IInv, TypeInv
    <2> QED
        BY <2>1, <2>2, <2>3 DEF StatusIs, Exists, This
<1>3. Registered' = Registered /\ overwritten' = overwritten \cup ({m} \cap Registered)
    BY DEF Registered, StoreMission
<1>4. overwritten \subseteq Registered /\ Registered \subseteq MissionIds
    BY DEF HeldInv, RegisteredIsActive, Registered
<1>5. \A n \in Registered' : StatusIs(n, "active")' \/ n \in overwritten'
    BY <1>2, <1>3, <1>4 DEF HeldInv, RegisteredIsActive
<1>6. \A n \in overwritten' : ~ StatusIs(n, "active")'
    BY <1>1, <1>2, <1>3, <1>4 DEF HeldInv
<1> QED
    BY <1>3, <1>4, <1>5, <1>6 DEF HeldInv, RegisteredIsActive

\* A mission that starts or ends changes nothing for the others.
LEMMA OthersKeepStatus ==
    ASSUME IInv, NEW m \in MissionIds, Exists(m), NEW st \in Status,
           store' = WithStatus(m, st), missions' = missions
    PROVE  /\ StatusIs(m, "active")' <=> st = "active"
           /\ \A n \in MissionIds : n # m =>
                (StatusIs(n, "active")' <=> StatusIs(n, "active"))
<1>1. /\ This(m)'.status = st
      /\ \A i \in 1 .. Len(store) : i # missions[m] => store'[i] = store[i]
    BY StatusChange DEF IInv
<1>2. ASSUME NEW n \in MissionIds, n # m
      PROVE  StatusIs(n, "active")' <=> StatusIs(n, "active")
    <2>1. Exists(n) => missions[n] \in 1 .. Len(store) /\ missions[n] # missions[m]
        BY <1>2, Referenced DEF IInv, OwnObject, Exists
    <2> QED
        BY <1>1, <2>1 DEF StatusIs, Exists, This
<1>3. StatusIs(m, "active")' <=> st = "active"
    BY <1>1 DEF StatusIs, Exists
<1> QED
    BY <1>2, <1>3

LEMMA StartHolds ==
    ASSUME IInv, HeldInv, NEW m \in MissionIds, StartMission(m)
    PROVE  HeldInv'
<1>1. /\ Exists(m) /\ store' = WithStatus(m, "active") /\ missions' = missions
      /\ active' = [active EXCEPT ![m] = This(m).flight_plan]
      /\ overwritten' = overwritten \ {m}
    BY DEF StartMission, StatusIs
<1>2. /\ StatusIs(m, "active")'
      /\ \A n \in MissionIds : n # m => (StatusIs(n, "active")' <=> StatusIs(n, "active"))
    BY <1>1, OthersKeepStatus DEF Status
<1>3. \A n \in MissionIds : n # m => (n \in Registered' <=> n \in Registered)
    BY <1>1 DEF Registered, IInv, TypeInv
<1>4. /\ Registered' \subseteq MissionIds /\ Registered \subseteq MissionIds
      /\ overwritten \subseteq Registered
    BY DEF Registered, HeldInv, RegisteredIsActive
<1>5. \A n \in Registered' : StatusIs(n, "active")' \/ n \in overwritten'
    BY <1>1, <1>2, <1>3, <1>4 DEF HeldInv, RegisteredIsActive
<1>6. overwritten' \subseteq Registered'
    BY <1>1, <1>3, <1>4
<1>7. \A n \in overwritten' : ~ StatusIs(n, "active")'
    BY <1>1, <1>2, <1>4 DEF HeldInv
<1> QED
    BY <1>5, <1>6, <1>7 DEF HeldInv, RegisteredIsActive

\* A mission that ends was active, so its id is not one that was given again: the
\* core drops the plan of this mission and no other.
LEMMA EndHolds ==
    ASSUME IInv, HeldInv, NEW m \in MissionIds, NEW st \in {"completed", "aborted"},
           EndMission(m, st)
    PROVE  HeldInv'
<1>1. /\ Exists(m) /\ StatusIs(m, "active")
      /\ store' = WithStatus(m, st) /\ missions' = missions
      /\ active' = [active EXCEPT ![m] = None]
      /\ overwritten' = overwritten
    BY DEF EndMission, StatusIs
<1>2. \A n \in MissionIds : n # m => (StatusIs(n, "active")' <=> StatusIs(n, "active"))
    BY <1>1, OthersKeepStatus DEF Status
<1>3. /\ m \notin Registered'
      /\ \A n \in MissionIds : n # m => (n \in Registered' <=> n \in Registered)
    BY <1>1 DEF Registered, IInv, TypeInv
<1>4. /\ Registered' \subseteq MissionIds /\ Registered \subseteq MissionIds
      /\ overwritten \subseteq Registered /\ m \notin overwritten
    BY <1>1 DEF Registered, HeldInv, RegisteredIsActive
<1>5. \A n \in Registered' : StatusIs(n, "active")' \/ n \in overwritten'
    BY <1>1, <1>2, <1>3, <1>4 DEF HeldInv, RegisteredIsActive
<1>6. overwritten' \subseteq Registered'
    BY <1>1, <1>3, <1>4
<1>7. \A n \in overwritten' : ~ StatusIs(n, "active")'
    BY <1>1, <1>2, <1>4 DEF HeldInv
<1> QED
    BY <1>5, <1>6, <1>7 DEF HeldInv, RegisteredIsActive

LEMMA HeldStep ==
    ASSUME IInv, HeldInv, [Next]_vars
    PROVE  HeldInv'
<1>1. TypeInv /\ Len(store) \in Nat
    BY DEF IInv, TypeInv
<1>2. ASSUME NEW m \in MissionIds, NEW ws \in Routes, NEW L \in Landings,
             NEW t \in Takeoffs, CreateMission(m, ws, L, t)
      PROVE  HeldInv'
    <2> DEFINE p == Plan(WholeRoute(ws), L, t)
    <2>1. p \in APlan
        BY WholeRouteType, PlanType, RoutesAssumption, LandingsAssumption
    <2>2. StoreMission(m, p) /\ active' = active
        BY <1>2 DEF CreateMission
    <2> HIDE DEF p
    <2> QED
        BY <2>1, <2>2, CreatedHolds
<1>3. ASSUME NEW m \in MissionIds, NEW ws \in Routes, NEW L \in Landings,
             NEW t \in Takeoffs \cup {None}, UpdateMission(m, ws, L, t)
      PROVE  HeldInv'
    <2> DEFINE plan == NewPlan(m, ws, L, t)
               o == [status |-> StatusAfterValidation(plan), flight_plan |-> plan,
                     old |-> FALSE]
    <2>1. /\ Exists(m) /\ missions[m] \in 1 .. Len(store)
          /\ store[missions[m]].status # "active"
        BY <1>1, <1>3, Referenced DEF UpdateMission, MayUpdate, This
    <2>2. plan \in APlan
        BY <1>1, <2>1, NewPlanType
    <2>3. o \in AMission /\ o.status # "active"
        BY <2>2 DEF AMission, Status, StatusAfterValidation
    <2>4. /\ store' = [store EXCEPT ![missions[m]] = o]
          /\ UNCHANGED <<missions, active, overwritten>>
        BY <1>3 DEF UpdateMission
    <2> HIDE DEF o
    <2> QED
        BY <2>1, <2>3, <2>4, ReplacedHolds
<1>4. ASSUME NEW m \in MissionIds, UpdateNoPlan(m)
      PROVE  HeldInv'
    <2> DEFINE o == [This(m) EXCEPT !.old = FALSE]
    <2>1. Exists(m) /\ missions[m] \in 1 .. Len(store) /\ This(m) \in AMission
        BY <1>1, <1>4, Referenced DEF UpdateNoPlan, MayUpdate
    <2>2. o \in AMission /\ o.status = store[missions[m]].status
        BY <2>1 DEF AMission, This
    <2>3. /\ store' = [store EXCEPT ![missions[m]] = o]
          /\ UNCHANGED <<missions, active, overwritten>>
        BY <1>4 DEF UpdateNoPlan, This
    <2> HIDE DEF o
    <2> QED
        BY <2>1, <2>2, <2>3, ReplacedHolds
<1>5. ASSUME NEW m \in MissionIds, ApproveMission(m)
      PROVE  HeldInv'
    <2> DEFINE o == [This(m) EXCEPT !.status = "approved", !.old = FALSE]
    <2>1. Exists(m) /\ missions[m] \in 1 .. Len(store) /\ This(m) \in AMission
        BY <1>1, <1>5, Referenced DEF ApproveMission, StatusIs
    <2>2. o \in AMission /\ o.status # "active" /\ store[missions[m]].status # "active"
        BY <1>5, <2>1 DEF AMission, Status, ApproveMission, StatusIs, This
    <2>3. /\ store' = [store EXCEPT ![missions[m]] = o]
          /\ UNCHANGED <<missions, active, overwritten>>
        BY <1>5 DEF ApproveMission, WithStatus, This
    <2> HIDE DEF o
    <2> QED
        BY <2>1, <2>2, <2>3, ReplacedHolds
<1>6. ASSUME NEW m \in MissionIds, CompleteMission(m) \/ AbortMission(m)
      PROVE  HeldInv'
    BY <1>6, EndHolds DEF CompleteMission, AbortMission
<1>7. ASSUME NEW t \in Templates, NEW m \in MissionIds, NEW tk \in Takeoffs,
             CreateFromTemplate(t, m, tk)
      PROVE  HeldInv'
    <2> DEFINE p == Plan(WholeRoute(templates[t].waypoints),
                         templates[t].emergency_points, tk)
    <2>1. templates[t] \in ATemplate
        BY <1>1, <1>7 DEF CreateFromTemplate, TypeInv
    <2>2. p \in APlan
        BY <2>1, WholeRouteType, PlanType DEF ATemplate
    <2>3. /\ active' = active
          /\ UNCHANGED <<store, missions, overwritten>> \/ StoreMission(m, p)
        BY <1>7 DEF CreateFromTemplate
    <2> HIDE DEF p
    <2> QED
        BY <2>2, <2>3, CreatedHolds, GroundedHolds
<1>8. ASSUME NEW i \in 1 .. Len(store), RetentionPasses(i)
      PROVE  HeldInv'
    <2> DEFINE o == [store[i] EXCEPT !.old = TRUE]
    <2>1. store[i] \in AMission
        BY <1>1 DEF TypeInv
    <2>2. o \in AMission /\ o.status = store[i].status
        BY <2>1 DEF AMission
    <2>3. /\ store' = [store EXCEPT ![i] = o]
          /\ UNCHANGED <<missions, active, overwritten>>
        BY <1>8 DEF RetentionPasses
    <2> HIDE DEF o
    <2> QED
        BY <2>2, <2>3, ReplacedHolds
<1>9. CASE CleanupOldMissions
    <2>1. UNCHANGED <<store, active, overwritten>>
        BY <1>9 DEF CleanupOldMissions
    <2>2. \A m \in MissionIds : \/ missions'[m] = missions[m]
                                \/ missions'[m] = 0 /\ ~ StatusIs(m, "active")
        BY <1>9 DEF CleanupOldMissions, StatusIs
    <2> QED
        BY <2>1, <2>2, GroundedHolds
<1>10. ASSUME \/ UNCHANGED vars
              \/ \E t \in Templates, ws \in Routes, L \in Landings : CreateTemplate(t, ws, L)
       PROVE  HeldInv'
    <2>1. UNCHANGED <<store, missions, active, overwritten>>
        BY <1>10 DEF CreateTemplate, vars
    <2> QED
        BY <2>1, GroundedHolds
<1> QED
    BY <1>2, <1>3, <1>4, <1>5, <1>6, <1>7, <1>8, <1>9, <1>10, StartHolds DEF Next

\* With any ids, used again or not: what the core holds is the plan of an active
\* mission, or one left behind by a mission whose id was given to another while it
\* flew.  No mission that was completed or aborted blocks the airspace or counts
\* against the limit, and no call but a start takes a plan left behind away.
THEOREM NothingHeldForNobody == Spec => []RegisteredIsActive
<1>1. Init => HeldInv
    BY DEF Init, HeldInv, RegisteredIsActive, Registered
<1>2. IInv /\ HeldInv /\ [Next]_vars => HeldInv'
    BY HeldStep
<1>3. HeldInv => RegisteredIsActive
    BY DEF HeldInv
<1> QED
    BY <1>1, <1>2, <1>3, Invariance, PTL DEF Spec
====
