------------------------------ MODULE FceRouting ------------------------------
(***************************************************************************)
(* How FceApplication follows its vehicle through SUMO, sends it on one of *)
(* its alternative routes at the decision edge and reports to the TIS: the *)
(* travel time of every edge left and, at a notification edge, that of the *)
(* route.  SUMO moves the vehicles; an application sees its own once per   *)
(* simulation step, so that short edges and teleported ones go unnoticed.  *)
(* The costs of the routes, estimated from what the vehicles told each     *)
(* other (TrafficInformation), are arbitrary here.                         *)
(***************************************************************************)
EXTENDS RouteChoice

CONSTANTS
    Vehicles,
    SumoRoutes,         \* the routes in SUMO's configuration: identifier -> edges
    DecisionEdges, NotificationEdges,
    UsedStrategies,     \* the strategies vehicles may have
    Costs,              \* the costs a route may have
    MaxHop,             \* bound: edges a vehicle gets on in one step
    MaxTime             \* bound: the clock stops here

NoEdge == 0
Ids == {NoRoute} \cup Alternatives \cup DOMAIN SumoRoutes
Edges == UNION {ToSet(SumoRoutes[r]) : r \in DOMAIN SumoRoutes}
            \cup UNION {ToSet(Routes[r]) : r \in Alternatives}

ASSUME VehiclesAssumption == IsFiniteSet(Vehicles)
ASSUME SumoRoutesAssumption ==
    /\ DOMAIN SumoRoutes \subseteq Nat \ {NoRoute}
    /\ \A r \in DOMAIN SumoRoutes : SumoRoutes[r] \in Seq(Edges) \ {<<>>}
    /\ \A r \in Alternatives : Routes[r] \in Seq(Edges)
ASSUME EdgesAssumption == NoEdge \notin Edges /\ DecisionEdges \cap NotificationEdges = {}
ASSUME StrategiesAssumption == UsedStrategies \subseteq Strategies
ASSUME CostsAssumption == Costs \subseteq Nat \ {0}
ASSUME BoundsAssumption == MaxHop \in Nat \ {0} /\ MaxTime \in Nat \ {0}

VARIABLES
    keepsPassed,         \* SUMO's habit, see ChangeVehicleEdges
    now,                 \* the simulation clock
    sumo,                \* SUMO's side of each vehicle: its route and where it is on it
    app,                 \* the application, Vehicle and Itinerary of each vehicle
    polled,              \* vehicles whose SimulationRun is done for this step
    staticRoutes,        \* TIS::staticRoutes, the routes registered so far
    vehiclesOnRoute,     \* TIS::vehiclesOnRoute
    travelTimesOnRoute,  \* TIS::travelTimesOnRoute
    edgeReports          \* calls of TIS::reportEndingEdge

tis == <<staticRoutes, vehiclesOnRoute, travelTimesOnRoute, edgeReports>>
vars == <<keepsPassed, now, sumo, app, polled, tis>>

Apps == [id : Ids, edgeIds : Seq(Edges), current : Edges \cup {NoEdge},
         entered : [Edges -> 0..MaxTime], left : [Edges -> 0..MaxTime],
         currentRoute : Seq(Edges), decisionTaken : BOOLEAN, notificationSent : BOOLEAN,
         startReroute : 0..MaxTime, decisionEdge : Edges \cup {NoEdge}]

TypeOK ==
    /\ keepsPassed \in BOOLEAN
    /\ now \in 0..MaxTime
    /\ \A v \in Vehicles : /\ sumo[v].state \in {"waiting", "driving", "arrived"}
                           /\ sumo[v].state = "driving" => sumo[v].at \in DOMAIN sumo[v].route
    /\ app \in [Vehicles -> Apps]
    /\ polled \subseteq Vehicles
    /\ staticRoutes \subseteq Alternatives
    /\ vehiclesOnRoute \in [Ids -> Int]
    /\ travelTimesOnRoute \in [Ids -> 0..MaxTime]
    /\ edgeReports \subseteq [vehicle : Vehicles, edge : Edges, entered : 0..MaxTime, left : 0..MaxTime]

\* A freshly constructed FceApplication, its Vehicle and its Itinerary.
NewApp == [id |-> NoRoute, edgeIds |-> <<>>, current |-> NoEdge,
           entered |-> [e \in Edges |-> 0], left |-> [e \in Edges |-> 0],
           currentRoute |-> <<>>, decisionTaken |-> FALSE, notificationSent |-> FALSE,
           startReroute |-> 0, decisionEdge |-> NoEdge]

Init ==
    /\ keepsPassed \in BOOLEAN
    /\ now = 1
    /\ sumo = [v \in Vehicles |-> [state |-> "waiting", id |-> NoRoute, route |-> <<>>, at |-> 0]]
    /\ app = [v \in Vehicles |-> NewApp]
    /\ polled = {}
    /\ staticRoutes = {}
    /\ vehiclesOnRoute = [r \in Ids |-> 0]
    /\ travelTimesOnRoute = [r \in Ids |-> 0]
    /\ edgeReports = {}

-----------------------------------------------------------------------------
(* SUMO *)

Driving == {v \in Vehicles : sumo[v].state = "driving"}
GetVehicleEdge(v) == sumo[v].route[sumo[v].at]

\* ChangeVehicleEdges: SUMO takes a list that starts with the edge the vehicle
\* is on and refuses any other, the empty one in particular.  Whether it then
\* still lists the edges already driven depends on its version.
ChangeVehicleEdges(s, edges) ==
    IF edges = <<>> \/ edges[1] # s.route[s.at] THEN s
    ELSE IF keepsPassed THEN [s EXCEPT !.route = SubSeq(@, 1, s.at - 1) \o edges]
    ELSE [s EXCEPT !.route = edges, !.at = 1]

\* Vehicles get on by up to MaxHop edges, or arrive; a new step begins.
SumoStep ==
    /\ now < MaxTime
    /\ Driving \subseteq polled
    /\ now' = now + 1
    /\ polled' = {}
    /\ \E hop \in [Driving -> 0..MaxHop] :
          sumo' = [v \in Vehicles |->
              IF v \notin Driving THEN sumo[v]
              ELSE IF sumo[v].at + hop[v] > Len(sumo[v].route) THEN [sumo[v] EXCEPT !.state = "arrived"]
              ELSE [sumo[v] EXCEPT !.at = @ + hop[v]]]
    /\ UNCHANGED <<keepsPassed, app, tis>>

-----------------------------------------------------------------------------
(* Itinerary and Vehicle *)

\* addEdge, setCurrentEdge and setEnteredTime.
addEdge(a, edge, time) ==
    [a EXCEPT !.edgeIds = Append(@, edge), !.current = edge,
              !.entered = [@ EXCEPT ![edge] = time], !.left = [@ EXCEPT ![edge] = 0]]

\* Faulty variant: the new route is followed under the old name.
requestRouteKeepingId(a, routeId, s) ==
    LET b == [a EXCEPT !.id = IF @ = NoRoute THEN s.id ELSE @, !.currentRoute = s.route]
    IN  IF s.route[1] # a.current THEN addEdge(b, s.route[1], now) ELSE b

\* requestRoute: take SUMO's list of edges and, if it does not start with the
\* current edge, its first edge as the one just entered.
requestRoute(a, routeId, s) ==
    LET b == [a EXCEPT !.id = IF routeId = NoRoute THEN s.id ELSE routeId, !.currentRoute = s.route]
    IN  IF s.route[1] # a.current THEN addEdge(b, s.route[1], now) ELSE b

\* requestCurrentEdge notices an edge other than the current one only if the
\* current route contains it.
EdgeChanged(a, edge) == edge # a.current /\ edge \in ToSet(a.currentRoute)

\* Faulty variant: the time at which the edge was left is not kept.
requestCurrentEdgeNotLeft(a, edge) ==
    IF EdgeChanged(a, edge) THEN addEdge(a, edge, now) ELSE a

requestCurrentEdge(a, edge) ==
    IF EdgeChanged(a, edge) THEN addEdge([a EXCEPT !.left = [@ EXCEPT ![a.current] = now]], edge, now) ELSE a

\* The part of the chosen route reroute hands to SUMO: from the current edge
\* on, nothing if the route does not contain it.
EdgesFrom(edges, edge) ==
    LET i == SelectInSeq(edges, LAMBDA e : e = edge)
    IN  IF i = 0 THEN <<>> ELSE SubSeq(edges, i, Len(edges))

\* reroute looks the route up with operator[]: an unknown one is empty.
RerouteEdges(a, routeId) ==
    IF routeId \in Alternatives THEN EdgesFrom(Routes[routeId], a.current) ELSE <<>>

getDestinationEdgeId(a) == Last(a.currentRoute)

\* Faulty variant: the last edge of the itinerary.
getLastStartTime(a) == a.entered[Last(a.edgeIds)]

\* getStartTime: when the first edge of the itinerary was entered, or entered
\* again.
getStartTime(a) == a.entered[a.edgeIds[1]]

\* fixTravelTime, for an edge of which leaving it was not noticed: the time
\* at which the next edge of the itinerary was entered.
LeftTime(a, edge) ==
    LET i == SelectInSeq(a.edgeIds, LAMBDA e : e = edge)
    IN  IF a.left[edge] # 0 THEN a.left[edge]
        ELSE IF i < Len(a.edgeIds) THEN a.entered[a.edgeIds[i + 1]] ELSE 0

\* Faulty variant: from entering the first edge.
computeWithStart(a, start, end) == a.entered[end] - a.entered[start]

\* Faulty variant: the operands are swapped.
computeSwapped(a, start, end) == LeftTime(a, start) - a.entered[end]

computeTravelTime(a, start, end) == a.entered[end] - LeftTime(a, start)

-----------------------------------------------------------------------------
(* FceApplication *)

\* Faulty variant: a new vehicle resets the counts.
initializeAgain == [r \in Ids |-> IF r \in Alternatives THEN 0 ELSE vehiclesOnRoute[r]]

\* initializeStaticTravelTimes starts the count of a route at 0, when the first
\* vehicle brings it along.
initializeStaticTravelTimes ==
    [r \in Ids |-> IF r \in Alternatives \ staticRoutes THEN 0 ELSE vehiclesOnRoute[r]]

\* A vehicle departs on one of SUMO's routes; StartApplication asks for its
\* route and schedules the first SimulationRun for later.
StartApplication(v) ==
    /\ sumo[v].state = "waiting"
    /\ \E r \in DOMAIN SumoRoutes :
          LET s == [state |-> "driving", id |-> r, route |-> SumoRoutes[r], at |-> 1]
          IN  /\ sumo' = [sumo EXCEPT ![v] = s]
              /\ app' = [app EXCEPT ![v] = requestRoute(@, NoRoute, s)]
    /\ polled' = polled \cup {v}
    /\ vehiclesOnRoute' = initializeStaticTravelTimes
    /\ staticRoutes' = staticRoutes \cup Alternatives
    /\ UNCHANGED <<keepsPassed, now, travelTimesOnRoute, edgeReports>>

\* What SimulationRun decides at a decision edge: the choices of ChooseRoute.
PossibleChoices(a) ==
    LET correlated == AnalyseRouteCorrelation(a.id, a.current, getDestinationEdgeId(a))
    IN  UNION {ChooseRoute(s, c, correlated, a.id, n, h) :
                  s \in UsedStrategies, c \in [Alternatives -> Costs], n \in BOOLEAN, h \in BOOLEAN}

IsDecisionPoint(a) == a.current \in DecisionEdges /\ ~a.decisionTaken

\* ChooseRoute's own state, then reroute.
Decided(a, routeId, s) ==
    requestRoute([a EXCEPT !.startReroute = now, !.decisionEdge = a.current, !.decisionTaken = TRUE],
                 routeId, s)

\* OnReporting reports only for vehicles that took their decision after they
\* started on their itinerary.
Reports(a) ==
    /\ a.current \in NotificationEdges /\ ~a.notificationSent
    /\ a.startReroute > getStartTime(a)

\* SimulationRun: notice a new edge and report the one left, decide at a
\* decision edge, report at a notification edge.
SimulationRun(v) ==
    LET edge == GetVehicleEdge(v)
        a == requestCurrentEdge(app[v], edge)
    IN  /\ v \in Driving \ polled
        /\ polled' = polled \cup {v}
        /\ edgeReports' = IF EdgeChanged(app[v], edge)
                          THEN edgeReports \cup
                               {[vehicle |-> v, edge |-> app[v].current,
                                 entered |-> a.entered[app[v].current],
                                 left |-> a.left[app[v].current]]}
                          ELSE edgeReports
        /\ \E choice \in IF IsDecisionPoint(a) THEN PossibleChoices(a) ELSE {NoRoute} :
              LET s == IF IsDecisionPoint(a)
                       THEN ChangeVehicleEdges(sumo[v], RerouteEdges(a, choice)) ELSE sumo[v]
                  b == IF IsDecisionPoint(a) THEN Decided(a, choice, s) ELSE a
                  counts == IF IsDecisionPoint(a)
                            THEN [vehiclesOnRoute EXCEPT ![choice] = @ + 1] ELSE vehiclesOnRoute
              IN  /\ sumo' = [sumo EXCEPT ![v] = s]
                  /\ app' = [app EXCEPT ![v] = IF Reports(b) THEN [b EXCEPT !.notificationSent = TRUE] ELSE b]
                  /\ vehiclesOnRoute' = IF Reports(b) THEN [counts EXCEPT ![b.id] = @ - 1] ELSE counts
                  /\ travelTimesOnRoute' =
                        IF Reports(b)
                        THEN [travelTimesOnRoute EXCEPT ![b.id] =
                                 computeTravelTime(b, b.decisionEdge, b.current)]
                        ELSE travelTimesOnRoute
        /\ UNCHANGED <<keepsPassed, now, staticRoutes>>

Next ==
    \/ SumoStep
    \/ \E v \in Vehicles : StartApplication(v) \/ SimulationRun(v)

Spec == Init /\ [][Next]_vars

-----------------------------------------------------------------------------
(* Networks *)

\* What the networks of SetNetwork have in common.  The vehicles depart on
\* their alternatives, which all pass the decision edges: reroute then always
\* has a list to hand to SUMO that it accepts.
RoutesMeet ==
    /\ DOMAIN SumoRoutes \subseteq Alternatives
    /\ \A r \in Alternatives : DecisionEdges \subseteq ToSet(Routes[r])

\* No vehicle comes to an edge twice, whichever routes it changes to: every
\* route leads upwards in the same ranking of the edges.
Increasing(rank, route) ==
    \A i, j \in DOMAIN route : i < j => rank[route[i]] < rank[route[j]]

Upward(rank) ==
    /\ rank \in [Edges -> Nat]
    /\ \A r \in Alternatives : Increasing(rank, Routes[r])
    /\ \A r \in DOMAIN SumoRoutes : Increasing(rank, SumoRoutes[r])

-----------------------------------------------------------------------------
(* Properties *)

\* requestRoute takes SUMO's list to begin with the edge the vehicle is on.
\* The two properties about reports are of a SUMO for which it does after a
\* change of route; the others hold of both kinds.

\* The TIS counts on each route exactly the vehicles that were sent on it and
\* have not reported their travel time yet, whichever vehicles start, decide
\* and report in between (reportStartingRoute, reportEndingRoute).
CountMatches ==
    \A r \in Ids : vehiclesOnRoute[r] =
        Cardinality({v \in Vehicles : /\ app[v].decisionTaken /\ ~app[v].notificationSent
                                      /\ app[v].id = r})

\* A vehicle under way for route r really drives it in SUMO: what is ahead of
\* it is the rest of the route that ChooseRoute chose and the TIS counts.
FollowsChoice ==
    \A v \in Driving : app[v].decisionTaken =>
        /\ app[v].id \in Alternatives
        /\ SubSeq(sumo[v].route, sumo[v].at, Len(sumo[v].route)) =
              EdgesFrom(Routes[app[v].id], GetVehicleEdge(v))

\* A route's travel time is that between leaving the decision edge and entering
\* the notification edge: never negative, and shorter than the time since the
\* decision, which was taken while still on the decision edge.
TravelTimeWithin ==
    [][\A v \in Vehicles : app'[v].notificationSent /\ ~app[v].notificationSent =>
          /\ travelTimesOnRoute'[app[v].id] >= 0
          /\ travelTimesOnRoute'[app[v].id] < now - app[v].startReroute]_vars

\* The comments of OnReporting: "Report to TIS the total travel time on the
\* route between the decision edge and the current edge", except for "a vehicle
\* [that] didn't visited the decision edge".  A vehicle that took its decision
\* has reported once it was seen on a notification edge.
DecidedReports ==
    ~keepsPassed => \A v \in Vehicles :
        (app[v].decisionTaken /\ app[v].current \in NotificationEdges) => app[v].notificationSent

\* The comment of OnEdgeChanged: an edge of which the vehicle "has already
\* traced the time on its itinerary" is reported.  On routes without loops
\* every edge is reported at most once by a vehicle, with a travel time that
\* is not over before it began.
ReportedOnce ==
    ~keepsPassed => \A x, y \in edgeReports :
        /\ x.entered < x.left
        /\ (x.vehicle = y.vehicle /\ x.edge = y.edge) => x = y

=============================================================================
