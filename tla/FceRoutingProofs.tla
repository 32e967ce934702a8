-------------------------- MODULE FceRoutingProofs --------------------------
(***************************************************************************)
(* Proofs about FceRouting and about the single decision of RouteDecision, *)
(* for every set of vehicles, every network and every set of strategies    *)
(* and costs.                                                              *)
(***************************************************************************)
EXTENDS FceRouting, RouteDecision, Aggregates, SequenceTheorems

-----------------------------------------------------------------------------
(* What ChooseRoute can choose *)

\* chooseMinCostRoute finds a route when every route has a cost.
LEMMA ShortestIsRoute ==
    ASSUME NEW costs \in [Alternatives -> Nat \ {0}]
    PROVE  chooseMinCostRoute(costs) \in Alternatives
<1> DEFINE paid == {costs[r] : r \in Alternatives}
           cheapest == {r \in DOMAIN costs : \A q \in DOMAIN costs : costs[r] <= costs[q]}
<1>1. paid \in SUBSET Nat /\ paid # {}
  BY RoutesAssumption DEF Alternatives
<1>2. Min(paid) \in paid /\ \A y \in paid : Min(paid) <= y
  <2> HIDE DEF paid
  <2> QED  BY <1>1, MinOfNats
<1>3. cheapest \in SUBSET Nat /\ cheapest # {}
  <2>1. PICK r \in Alternatives : costs[r] = Min(paid)
    BY <1>2
  <2>2. \A q \in Alternatives : costs[q] \in paid
    OBVIOUS
  <2>3. \A q \in Alternatives : costs[r] <= costs[q]
    <3> HIDE DEF paid
    <3> QED  BY <1>2, <2>1, <2>2
  <2>4. r \in cheapest
    BY <2>3
  <2>5. Alternatives \subseteq Nat
    BY RoutesAssumption DEF Alternatives
  <2> QED  BY <2>4, <2>5
<1>4. Min(cheapest) \in cheapest
  <2> HIDE DEF cheapest
  <2> QED  BY <1>3, MinOfNats
<1>5. Min(cheapest) \in Alternatives /\ costs[Min(cheapest)] # 0
  BY <1>4
<1>6. chooseMinCostRoute(costs) = IF costs[Min(cheapest)] = 0 THEN NoRoute ELSE Min(cheapest)
  BY DEF chooseMinCostRoute
<1> QED  BY <1>5, <1>6

\* getEvent returns one of the events, or the empty string if there is none.
LEMMA EventIsOne ==
    ASSUME NEW p, DOMAIN p \in SUBSET Nat, IsFiniteSet(DOMAIN p), NEW draw, NEW whole
    PROVE  getEvent(p, draw, whole) \in {NoRoute} \cup DOMAIN p
<1> DEFINE upTo(r) == SumFunction([q \in {d \in DOMAIN p : d <= r} |-> p[q]])
           hit == {r \in DOMAIN p : whole > 0 /\ draw < upTo(r)}
<1>1. getEvent(p, draw, whole) = IF DOMAIN p = {} THEN NoRoute
                                 ELSE IF hit = {} THEN Max(DOMAIN p) ELSE Min(hit)
  BY DEF getEvent
<1>2. hit \subseteq DOMAIN p
  OBVIOUS
<1> HIDE DEF hit
<1>3. hit # {} => Min(hit) \in hit
  BY <1>2, MinOfNats
<1>4. DOMAIN p # {} => Max(DOMAIN p) \in DOMAIN p
  BY MaxOfNats
<1> QED  BY <1>1, <1>2, <1>3, <1>4

\* Only routes that have a probability are drawn.
LEMMA EventsAreProbable ==
    ASSUME NEW costs, DOMAIN costs \in SUBSET Nat, IsFiniteSet(DOMAIN costs),
           NEW e \in Events(costs)
    PROVE  e = NoRoute \/ e \in DOMAIN getProbabilities(costs)
<1>1. DOMAIN getProbabilities(costs) \subseteq DOMAIN costs
  BY DEF getProbabilities
<1>2. /\ DOMAIN getProbabilities(costs) \in SUBSET Nat
      /\ IsFiniteSet(DOMAIN getProbabilities(costs))
  BY <1>1, FS_Subset
<1>3. PICK d : e = getEvent(getProbabilities(costs), d, Whole(costs))
  BY DEF Events
<1> QED  BY <1>2, <1>3, EventIsOne

\* A vehicle whose own route home is no alternative pays nothing for it, and
\* next to several routes with a cost nothing has a probability.
LEMMA NothingProbable ==
    ASSUME NEW costs \in [Alternatives -> Nat \ {0}], NEW home \in Nat, NEW start, NEW end,
           home \notin Alternatives, Cardinality(Alternatives) # 1
    PROVE  DOMAIN getProbabilities(Penalised(costs, AnalyseRouteCorrelation(home, start, end))) = {}
<1> DEFINE corr == AnalyseRouteCorrelation(home, start, end)
           p == Penalised(costs, corr)
<1>1. DOMAIN corr = {home}
  BY DEF AnalyseRouteCorrelation
<1>2. DOMAIN p = Alternatives \cup {home}
  BY <1>1 DEF Penalised
<1>3. (\A r \in Alternatives : p[r] = costs[r]) /\ p[home] = 0
  BY <1>1, <1>2 DEF Penalised
<1>4. Positive(p) = Alternatives
  BY <1>2, <1>3 DEF Positive
<1> QED  BY <1>2, <1>4 DEF getProbabilities

\* The routes that have a probability once the costs are penalised for what
\* they have in common with the vehicle's own route home.
LEMMA ProbableRoutes ==
    ASSUME NEW costs \in [Alternatives -> Nat \ {0}], NEW home \in Nat, NEW start, NEW end
    PROVE  LET p == Penalised(costs, AnalyseRouteCorrelation(home, start, end))
           IN  /\ DOMAIN p = Alternatives \cup {home}
               /\ DOMAIN getProbabilities(p) \subseteq Alternatives \cup {home}
               /\ (home \in Alternatives \/ Cardinality(Alternatives) # 1) =>
                     DOMAIN getProbabilities(p) \subseteq Alternatives
<1> DEFINE corr == AnalyseRouteCorrelation(home, start, end)
           p == Penalised(costs, corr)
<1>1. DOMAIN corr = {home} \cup (IF home \in Alternatives THEN Alternatives ELSE {})
  BY DEF AnalyseRouteCorrelation
<1>2. DOMAIN p = Alternatives \cup {home}
  BY <1>1 DEF Penalised
<1>3. DOMAIN getProbabilities(p) \subseteq DOMAIN p
  BY DEF getProbabilities
<1> QED  BY <1>2, <1>3, NothingProbable

\* What a strategy leads to: an alternative, or the vehicle's own route.
Offered(strategy, home) ==
    IF strategy = "noRouting" THEN {home}
    ELSE IF home \in Alternatives \/ Cardinality(Alternatives) # 1 THEN Alternatives
    ELSE Alternatives \cup {home}

\* ChooseRoute never sends a vehicle on the empty route, and only noRouting
\* keeps it on a route of its own that is no alternative, unless there is just
\* one alternative: then getProbabilities prefers the route with no cost.
LEMMA ChoiceIsOffered ==
    ASSUME NEW strategy \in Strategies, NEW costs \in [Alternatives -> Nat \ {0}],
           NEW home \in Nat \ {0}, NEW start, NEW end,
           NEW needed \in BOOLEAN, NEW cheats \in BOOLEAN,
           NEW r \in ChooseRoute(strategy, costs, AnalyseRouteCorrelation(home, start, end),
                                 home, needed, cheats)
    PROVE  r \in Alternatives \cup Offered(strategy, home)
<1> DEFINE corr == AnalyseRouteCorrelation(home, start, end)
           shortest == chooseMinCostRoute(costs)
           pen == Penalised(costs, corr)
           choices == StrategyChoices(strategy, costs, corr, home, needed)
<1>1. shortest \in Alternatives
  BY ShortestIsRoute
<1>2. /\ DOMAIN pen = Alternatives \cup {home}
      /\ DOMAIN getProbabilities(pen) \subseteq Alternatives \cup {home}
      /\ (home \in Alternatives \/ Cardinality(Alternatives) # 1) =>
            DOMAIN getProbabilities(pen) \subseteq Alternatives
  BY ProbableRoutes
<1>3. /\ DOMAIN costs \in SUBSET Nat /\ IsFiniteSet(DOMAIN costs)
      /\ DOMAIN getProbabilities(costs) \subseteq Alternatives
  BY RoutesAssumption DEF Alternatives, getProbabilities
<1>4. DOMAIN pen \in SUBSET Nat /\ IsFiniteSet(DOMAIN pen)
  BY <1>2, RoutesAssumption, FS_AddElement DEF Alternatives
<1>5. PICK q \in choices : r = IF cheats /\ q > shortest THEN shortest ELSE q
  BY DEF ChooseRoute
<1> HIDE DEF corr, pen, shortest
<1>6. choices =
        LET drawn(events) == {IF e = NoRoute THEN shortest ELSE e : e \in events}
        IN  CASE strategy = "probabilistic-simple" -> drawn(Events(costs))
              [] strategy = "probabilistic" \/ (strategy = "hybrid" /\ needed) ->
                    drawn(Events(pen))
              [] strategy = "noRouting" -> {home}
              [] strategy = "mnl" -> Alternatives
              [] OTHER -> {shortest}
  BY DEF StrategyChoices, pen, shortest
<1> HIDE DEF choices
<1>7. CASE strategy = "probabilistic-simple"
  <2>1. PICK e \in Events(costs) : q = IF e = NoRoute THEN shortest ELSE e
    BY <1>6, <1>7
  <2>2. e = NoRoute \/ e \in DOMAIN getProbabilities(costs)
    BY <1>3, EventsAreProbable
  <2> QED  BY <1>1, <1>3, <1>5, <2>1, <2>2
<1>8. CASE strategy = "probabilistic" \/ (strategy = "hybrid" /\ needed)
  <2>1. PICK e \in Events(pen) : q = IF e = NoRoute THEN shortest ELSE e
    BY <1>6, <1>8
  <2>2. e = NoRoute \/ e \in DOMAIN getProbabilities(pen)
    BY <1>4, EventsAreProbable
  <2> QED  BY <1>1, <1>2, <1>5, <1>8, <2>1, <2>2 DEF Offered
<1>9. CASE strategy = "noRouting"
  BY <1>1, <1>5, <1>6, <1>9 DEF Offered
<1>10. CASE strategy \in {"shortest", "mnl"} \/ (strategy = "hybrid" /\ ~needed)
  BY <1>1, <1>5, <1>6, <1>10
<1> QED  BY <1>7, <1>8, <1>9, <1>10 DEF Strategies

-----------------------------------------------------------------------------
(***************************************************************************)
(* The inductive invariant, in terms of an application a and of SUMO's     *)
(* side s of its vehicle.                                                  *)
(***************************************************************************)

Cars == [state : {"waiting", "driving", "arrived"}, id : Ids, route : Seq(Edges), at : Nat]

\* A vehicle that has departed has a name and an itinerary.  Until its decision
\* it is on the route it departed with, which begins where the itinerary does.
Departed(a, s) ==
    /\ a.id # NoRoute /\ s.id # NoRoute
    /\ a.edgeIds # <<>> /\ a.current \in Edges
    /\ s.route # <<>>
    /\ ~a.decisionTaken => a.currentRoute = s.route /\ s.route[1] = a.edgeIds[1]

\* No time is in the future; what a vehicle noticed in earlier steps only is
\* in the past.
NotFuture(a) ==
    /\ \A e \in Edges : a.entered[e] <= now /\ a.left[e] <= now
    /\ a.startReroute <= now

InThePast(a) == a.startReroute < now /\ \A e \in Edges : a.entered[e] < now

Undecided(a) == ~a.decisionTaken => a.startReroute = 0 /\ ~a.notificationSent

\* The condition under which OnReporting reports: the decision was taken after
\* the start.  requestRoute may put a vehicle back to the start of its
\* itinerary at the moment of its decision; it is then left out for good.
OnTime(a) == a.startReroute > getStartTime(a)

\* A vehicle that will report has noticed when it left the decision edge, and
\* that was after its decision.
LeftNoticed(a) ==
    OnTime(a) => /\ a.decisionEdge \in DecisionEdges \cap Edges
                 /\ a.current # a.decisionEdge => a.startReroute < a.left[a.decisionEdge]

\* It reports with the first notification edge it gets to.
ReportDone(a) == OnTime(a) /\ a.current \in NotificationEdges => a.notificationSent

VehicleInv(v) ==
    /\ NotFuture(app[v]) /\ Undecided(app[v])
    /\ v \notin polled => InThePast(app[v])
    /\ sumo[v].state = "waiting" => app[v] = NewApp
    /\ sumo[v].state # "waiting" =>
          /\ Alternatives \subseteq staticRoutes
          /\ Departed(app[v], sumo[v]) /\ LeftNoticed(app[v]) /\ ReportDone(app[v])

RoutingInv ==
    /\ TypeOK /\ now # 0
    /\ sumo \in [Vehicles -> Cars]
    /\ \A v \in Vehicles : VehicleInv(v)

-----------------------------------------------------------------------------
(* What the operations on an application do to it *)

\* Appending to a non-empty sequence leaves its first element.
LEMMA AppendKeepsFirst ==
    ASSUME NEW S, NEW q \in Seq(S), q # <<>>, NEW x \in S
    PROVE  Append(q, x) # <<>> /\ Append(q, x)[1] = q[1] /\ q[1] \in S
<1>1. Len(q) \in Nat \ {0}
  BY EmptySeq, LenProperties
<1>2. 1 \in 1..Len(q)
  BY <1>1
<1> QED  BY <1>2, AppendProperties, ElementOfSeq

\* r is a after edge was added to its itinerary.
EdgeAdded(a, edge, time, r) ==
    /\ r \in Apps
    /\ r.edgeIds = Append(a.edgeIds, edge) /\ r.current = edge
    /\ r.entered = [a.entered EXCEPT ![edge] = time]
    /\ r.left = [a.left EXCEPT ![edge] = 0]
    /\ r.id = a.id /\ r.currentRoute = a.currentRoute
    /\ r.decisionTaken = a.decisionTaken /\ r.notificationSent = a.notificationSent
    /\ r.startReroute = a.startReroute /\ r.decisionEdge = a.decisionEdge

\* What addEdge does.
LEMMA AddEdgeFields ==
    ASSUME NEW a \in Apps, NEW edge \in Edges, NEW time \in 0..MaxTime
    PROVE  EdgeAdded(a, edge, time, addEdge(a, edge, time))
<1>1. Append(a.edgeIds, edge) \in Seq(Edges)
  BY DEF Apps
<1>2. [a.entered EXCEPT ![edge] = time] \in [Edges -> 0..MaxTime]
  BY DEF Apps
<1>3. [a.left EXCEPT ![edge] = 0] \in [Edges -> 0..MaxTime]
  BY BoundsAssumption DEF Apps
<1>4. addEdge(a, edge, time) \in Apps
  BY <1>1, <1>2, <1>3, Zenon DEF Apps, addEdge
<1> QED  BY <1>4, Zenon DEF Apps, addEdge, EdgeAdded

\* Noticing nothing new leaves the application alone.
LEMMA SameEdge ==
    ASSUME NEW a, NEW edge, ~EdgeChanged(a, edge)
    PROVE  requestCurrentEdge(a, edge) = a
BY DEF requestCurrentEdge

\* r is a after edge was noticed as the new one and the old one as left.
EdgeNoticed(a, edge, r) ==
    /\ r \in Apps
    /\ r.edgeIds = Append(a.edgeIds, edge) /\ r.current = edge
    /\ r.entered = [a.entered EXCEPT ![edge] = now]
    /\ r.left = [[a.left EXCEPT ![a.current] = now] EXCEPT ![edge] = 0]
    /\ r.id = a.id /\ r.currentRoute = a.currentRoute
    /\ r.decisionTaken = a.decisionTaken /\ r.notificationSent = a.notificationSent
    /\ r.startReroute = a.startReroute /\ r.decisionEdge = a.decisionEdge

\* What requestCurrentEdge does when there is a new edge.
LEMMA NewEdgeFields ==
    ASSUME NEW a \in Apps, NEW edge \in Edges, now \in 0..MaxTime, a.current \in Edges,
           EdgeChanged(a, edge)
    PROVE  EdgeNoticed(a, edge, requestCurrentEdge(a, edge))
<1> DEFINE b == [a EXCEPT !.left = [@ EXCEPT ![a.current] = now]]
<1>1. [a.left EXCEPT ![a.current] = now] \in [Edges -> 0..MaxTime]
  BY DEF Apps
<1>2. b \in Apps
  BY <1>1, Zenon DEF Apps
<1>3. /\ b.id = a.id /\ b.edgeIds = a.edgeIds /\ b.current = a.current
      /\ b.entered = a.entered /\ b.left = [a.left EXCEPT ![a.current] = now]
      /\ b.currentRoute = a.currentRoute /\ b.decisionTaken = a.decisionTaken
      /\ b.notificationSent = a.notificationSent /\ b.startReroute = a.startReroute
      /\ b.decisionEdge = a.decisionEdge
  BY Zenon DEF Apps
<1>4. requestCurrentEdge(a, edge) = addEdge(b, edge, now)
  BY DEF requestCurrentEdge
<1> HIDE DEF b
<1>5. EdgeAdded(b, edge, now, requestCurrentEdge(a, edge))
  BY <1>2, <1>4, AddEdgeFields
<1> QED  BY <1>3, <1>5, Zenon DEF EdgeAdded, EdgeNoticed

\* r is a after it took over the route of s under the name of routeId.
RouteTaken(a, routeId, s, r) ==
    /\ r \in Apps
    /\ r.id = IF routeId = NoRoute THEN s.id ELSE routeId
    /\ r.currentRoute = s.route /\ r.current = s.route[1]
    /\ r.decisionTaken = a.decisionTaken /\ r.notificationSent = a.notificationSent
    /\ r.startReroute = a.startReroute /\ r.decisionEdge = a.decisionEdge
    /\ \/ /\ s.route[1] = a.current
          /\ r.edgeIds = a.edgeIds /\ r.entered = a.entered /\ r.left = a.left
       \/ /\ s.route[1] # a.current
          /\ r.edgeIds = Append(a.edgeIds, s.route[1])
          /\ r.entered = [a.entered EXCEPT ![s.route[1]] = now]
          /\ r.left = [a.left EXCEPT ![s.route[1]] = 0]

\* What requestRoute does.
LEMMA RequestRouteFields ==
    ASSUME NEW a \in Apps, NEW routeId \in Ids, NEW s \in Cars, now \in 0..MaxTime,
           s.route # <<>>
    PROVE  RouteTaken(a, routeId, s, requestRoute(a, routeId, s))
<1> DEFINE name == IF routeId = NoRoute THEN s.id ELSE routeId
           b == [a EXCEPT !.id = name, !.currentRoute = s.route]
           r == requestRoute(a, routeId, s)
<1>1. name \in Ids /\ s.route \in Seq(Edges) /\ s.route[1] \in Edges
  BY DEF Cars
<1>2. r = IF s.route[1] # a.current THEN addEdge(b, s.route[1], now) ELSE b
  BY DEF requestRoute
<1> HIDE DEF name, r
<1>3. b \in Apps
  BY <1>1, Zenon DEF Apps
<1>4. /\ b.id = name /\ b.edgeIds = a.edgeIds /\ b.current = a.current
      /\ b.entered = a.entered /\ b.left = a.left
      /\ b.currentRoute = s.route /\ b.decisionTaken = a.decisionTaken
      /\ b.notificationSent = a.notificationSent /\ b.startReroute = a.startReroute
      /\ b.decisionEdge = a.decisionEdge
  BY Zenon DEF Apps
<1> HIDE DEF b
<1>5. CASE s.route[1] = a.current
  <2>1. r = b
    BY <1>2, <1>5
  <2>2. RouteTaken(a, routeId, s, r)
    BY <1>3, <1>4, <1>5, <2>1, Zenon DEF RouteTaken, name
  <2> QED  BY <2>2 DEF r
<1>6. CASE s.route[1] # a.current
  <2>1. EdgeAdded(b, s.route[1], now, r)
    BY <1>1, <1>2, <1>3, <1>6, AddEdgeFields
  <2>2. RouteTaken(a, routeId, s, r)
    BY <1>4, <1>6, <2>1, Zenon DEF RouteTaken, EdgeAdded, name
  <2> QED  BY <2>2 DEF r
<1> QED  BY <1>5, <1>6

\* Noticing the edge the vehicle is on keeps the invariant, and before the
\* decision nothing on the route goes unnoticed.
LEMMA NoticeKeeps ==
    ASSUME NEW a \in Apps, NEW s \in Cars, NEW edge \in Edges, now \in 0..MaxTime,
           Departed(a, s), NotFuture(a), InThePast(a), Undecided(a), LeftNoticed(a),
           NEW r, r = requestCurrentEdge(a, edge)
    PROVE  /\ r \in Apps
           /\ Departed(r, s) /\ NotFuture(r) /\ Undecided(r) /\ LeftNoticed(r)
           /\ r.id = a.id /\ r.decisionTaken = a.decisionTaken
           /\ r.notificationSent = a.notificationSent /\ r.startReroute = a.startReroute
           /\ edge \in ToSet(a.currentRoute) => r.current = edge
<1>1. CASE ~EdgeChanged(a, edge)
  BY <1>1, SameEdge DEF EdgeChanged
<1>2. CASE EdgeChanged(a, edge)
  <2>1. EdgeNoticed(a, edge, r)
    BY <1>2, NewEdgeFields DEF Departed
  <2>2. /\ r \in Apps
        /\ r.id = a.id /\ r.decisionTaken = a.decisionTaken
        /\ r.notificationSent = a.notificationSent /\ r.startReroute = a.startReroute
        /\ r.current = edge /\ r.currentRoute = a.currentRoute
    BY <2>1 DEF EdgeNoticed
  <2>3. /\ a.edgeIds \in Seq(Edges) /\ a.edgeIds # <<>>
        /\ a.entered \in [Edges -> 0..MaxTime] /\ a.left \in [Edges -> 0..MaxTime]
        /\ a.startReroute \in 0..MaxTime
    BY DEF Apps, Departed
  <2>4. /\ r.edgeIds # <<>> /\ r.edgeIds[1] = a.edgeIds[1]
        /\ a.edgeIds[1] \in Edges
    <3>1. r.edgeIds = Append(a.edgeIds, edge)
      BY <2>1 DEF EdgeNoticed
    <3> QED  BY <2>3, <3>1, AppendKeepsFirst
  <2>5. Departed(r, s)
    BY <2>2, <2>4 DEF Departed
  <2>6. Undecided(r)
    BY <2>2 DEF Undecided
  <2>7. \A e \in Edges : /\ r.entered[e] = IF e = edge THEN now ELSE a.entered[e]
                         /\ r.left[e] = IF e = edge THEN 0
                                        ELSE IF e = a.current THEN now ELSE a.left[e]
    BY <2>1, <2>3 DEF EdgeNoticed, Departed
  <2>8. NotFuture(r)
    BY <2>2, <2>7 DEF NotFuture
  <2>9. ASSUME OnTime(r) PROVE OnTime(a)
    <3>1. r.startReroute > r.entered[a.edgeIds[1]]
      BY <2>4, <2>9 DEF OnTime, getStartTime
    <3>2. r.entered[a.edgeIds[1]] >= a.entered[a.edgeIds[1]]
      BY <2>3, <2>4, <2>7 DEF NotFuture
    <3>3. r.entered[a.edgeIds[1]] \in Int /\ a.entered[a.edgeIds[1]] \in Int
      BY <2>3, <2>4, <2>7
    <3> QED  BY <2>2, <2>3, <3>1, <3>2, <3>3 DEF OnTime, getStartTime
  <2>10. LeftNoticed(r)
    <3>1. r.decisionEdge = a.decisionEdge /\ a.decisionEdge \in Edges \cup {NoEdge}
      BY <2>1 DEF EdgeNoticed, Apps
    <3>2. ASSUME OnTime(r) PROVE r.decisionEdge \in DecisionEdges \cap Edges
      BY <2>9, <3>1, <3>2 DEF LeftNoticed
    <3>3. ASSUME OnTime(r), r.current # r.decisionEdge
          PROVE  r.startReroute < r.left[r.decisionEdge]
      <4>1. CASE a.current = a.decisionEdge
        <5>1. a.decisionEdge \in Edges /\ a.decisionEdge # edge
          BY <1>2, <4>1 DEF Departed, EdgeChanged
        <5>2. r.left[a.decisionEdge] = now
          BY <2>7, <4>1, <5>1
        <5> QED  BY <2>2, <3>1, <5>2 DEF InThePast
      <4>2. CASE a.current # a.decisionEdge
        <5>1. a.startReroute < a.left[a.decisionEdge]
          BY <2>9, <3>3, <4>2 DEF LeftNoticed
        <5>2. a.decisionEdge \in Edges
          BY <3>1, <3>2, <3>3
        <5>3. r.left[a.decisionEdge] = a.left[a.decisionEdge]
          BY <2>2, <2>7, <3>1, <3>3, <4>2, <5>2
        <5> QED  BY <2>2, <3>1, <5>1, <5>3
      <4> QED  BY <4>1, <4>2
    <3> QED  BY <3>2, <3>3 DEF LeftNoticed
  <2> QED  BY <2>2, <2>5, <2>6, <2>8, <2>10
<1> QED  BY <1>1, <1>2

\* t is s after SUMO was asked to continue with edges.
CarRerouted(s, edges, t) ==
    /\ t \in Cars /\ t.state = s.state /\ t.id = s.id
    /\ t.route # <<>> /\ t.at \in DOMAIN t.route
    /\ t.route[t.at] = s.route[s.at]
    /\ t.route[1] \in {s.route[1], s.route[s.at]}
    /\ (edges # <<>> /\ edges[1] = s.route[s.at]) =>
          /\ SubSeq(t.route, t.at, Len(t.route)) = edges
          /\ ~keepsPassed => t.route = edges /\ t.at = 1

\* What ChangeVehicleEdges does, whichever habit SUMO has.
LEMMA ChangeEdgesFields ==
    ASSUME NEW s \in Cars, s.at \in DOMAIN s.route, NEW edges \in Seq(Edges)
    PROVE  CarRerouted(s, edges, ChangeVehicleEdges(s, edges))
<1> DEFINE t == ChangeVehicleEdges(s, edges)
           past == SubSeq(s.route, 1, s.at - 1)
<1>1. /\ s.route \in Seq(Edges) /\ s.at \in 1..Len(s.route) /\ Len(s.route) \in Nat
      /\ s.route # <<>> /\ 1 \in 1..Len(s.route)
  BY LenProperties DEF Cars
<1>2. CASE edges = <<>> \/ edges[1] # s.route[s.at]
  <2>1. t = s
    BY <1>2 DEF ChangeVehicleEdges
  <2> QED  BY <1>1, <1>2, <2>1 DEF CarRerouted
<1>3. CASE edges # <<>> /\ edges[1] = s.route[s.at]
  <2>1. Len(edges) \in Nat \ {0}
    BY <1>3, EmptySeq, LenProperties
  <2>2. CASE keepsPassed
    <3>1. t = [s EXCEPT !.route = past \o edges]
      BY <1>3, <2>2 DEF ChangeVehicleEdges
    <3>2. /\ past \in Seq(Edges) /\ Len(past) = s.at - 1
          /\ \A i \in 1..(s.at - 1) : past[i] = s.route[i]
      <4>1. \A i \in 1..(s.at - 1) : s.route[i] \in Edges
        BY <1>1, ElementOfSeq
      <4>2. s.at - 1 \in Int /\ 1 \in Int
        BY <1>1
      <4>3. /\ past \in Seq(Edges)
            /\ Len(past) = IF 1 <= s.at - 1 THEN (s.at - 1) - 1 + 1 ELSE 0
            /\ \A i \in 1..((s.at - 1) - 1 + 1) : past[i] = s.route[1 + i - 1]
        BY <4>1, <4>2, SubSeqProperties
      <4> QED  BY <1>1, <4>3
    <3> DEFINE all == past \o edges
    <3>3. /\ all \in Seq(Edges) /\ Len(all) = s.at - 1 + Len(edges)
          /\ \A i \in 1..(s.at - 1 + Len(edges)) :
                all[i] = IF i <= s.at - 1 THEN past[i] ELSE edges[i - (s.at - 1)]
      BY <3>2, ConcatProperties
    <3> HIDE DEF past, all
    <3>4. t = [s EXCEPT !.route = all]
      BY <3>1 DEF all
    <3>5. t \in Cars /\ t.state = s.state /\ t.id = s.id /\ t.route = all /\ t.at = s.at
      BY <3>3, <3>4, Zenon DEF Cars
    <3>6. s.at \in 1..Len(all) /\ DOMAIN all = 1..Len(all) /\ all # <<>>
      BY <1>1, <2>1, <3>3, LenProperties, EmptySeq
    <3>7. all[s.at] = edges[1]
      <4>1. /\ s.at \in 1..(s.at - 1 + Len(edges)) /\ ~(s.at <= s.at - 1)
            /\ s.at - (s.at - 1) = 1
        BY <1>1, <2>1
      <4>2. all[s.at] = IF s.at <= s.at - 1 THEN past[s.at] ELSE edges[s.at - (s.at - 1)]
        BY <3>3, <4>1
      <4> QED  BY <4>1, <4>2
    <3>8. all[1] \in {s.route[1], s.route[s.at]}
      <4>1. CASE s.at = 1
        BY <1>3, <3>7, <4>1
      <4>2. CASE s.at # 1
        <5>1. 1 \in 1..(s.at - 1 + Len(edges)) /\ 1 \in 1..(s.at - 1) /\ 1 <= s.at - 1
          BY <1>1, <2>1, <4>2
        <5>2. all[1] = past[1]
          BY <3>3, <5>1
        <5> QED  BY <3>2, <5>1, <5>2
      <4> QED  BY <4>1, <4>2
    <3>9. SubSeq(all, s.at, Len(all)) = edges
      <4> DEFINE rest == SubSeq(all, s.at, Len(all))
      <4>1. \A i \in s.at..Len(all) : all[i] \in Edges
        BY <1>1, <3>3, ElementOfSeq
      <4>2. /\ rest \in Seq(Edges)
            /\ Len(rest) = IF s.at <= Len(all) THEN Len(all) - s.at + 1 ELSE 0
            /\ \A i \in 1..(Len(all) - s.at + 1) : rest[i] = all[s.at + i - 1]
        <5>1. s.at \in Int /\ Len(all) \in Int
          BY <1>1, <3>6, <3>3, <2>1
        <5> QED  BY <4>1, <5>1, SubSeqProperties
      <4> HIDE DEF rest
      <4>3. Len(rest) = Len(edges)
        BY <1>1, <2>1, <3>3, <4>2
      <4>4. ASSUME NEW i \in 1..Len(rest) PROVE rest[i] = edges[i]
        <5> DEFINE j == s.at + i - 1
        <5> DEFINE at == s.at
                   n == Len(edges)
        <5>4. at \in Int /\ at >= 1 /\ n \in Int /\ i \in 1..n
          BY <1>1, <2>1, <4>3
        <5>5. Len(all) = at - 1 + n
          BY <3>3
        <5> HIDE DEF at, n
        <5>6. /\ at + i - 1 \in 1..(at - 1 + n) /\ ~(at + i - 1 <= at - 1)
              /\ (at + i - 1) - (at - 1) = i
          BY <5>4
        <5>1. /\ j \in 1..(s.at - 1 + Len(edges)) /\ ~(j <= s.at - 1) /\ j - (s.at - 1) = i
              /\ i \in 1..(Len(all) - s.at + 1)
          BY <5>4, <5>5, <5>6 DEF at, n
        <5>2. rest[i] = all[j]
          BY <4>2, <5>1
        <5> HIDE DEF j
        <5>3. all[j] = edges[j - (s.at - 1)]
          BY <3>3, <5>1
        <5> QED  BY <5>1, <5>2, <5>3
      <4>5. rest = edges
        BY <4>2, <4>3, <4>4, SeqEqual
      <4> QED  BY <4>5 DEF rest
    <3> HIDE DEF t
    <3>10. CarRerouted(s, edges, t)
      BY <1>3, <2>2, <3>5, <3>6, <3>7, <3>8, <3>9 DEF CarRerouted
    <3> QED  BY <3>10 DEF t
  <2>3. CASE ~keepsPassed
    <3>1. t = [s EXCEPT !.route = edges, !.at = 1]
      BY <1>3, <2>3 DEF ChangeVehicleEdges
    <3>2. t \in Cars /\ t.state = s.state /\ t.id = s.id /\ t.route = edges /\ t.at = 1
      <4>1. 1 \in Nat
        OBVIOUS
      <4> QED  BY <3>1, <4>1, Zenon DEF Cars
    <3>3. 1 \in DOMAIN edges
      BY <2>1, LenProperties
    <3>4. SubSeq(edges, 1, Len(edges)) = edges
      BY SubSeqFull
    <3> HIDE DEF t
    <3>5. CarRerouted(s, edges, t)
      BY <1>3, <3>2, <3>3, <3>4 DEF CarRerouted
    <3> QED  BY <3>5 DEF t
  <2> QED  BY <2>2, <2>3
<1> QED  BY <1>2, <1>3

\* EdgesFrom is the part of a route from where it first meets the edge.
LEMMA EdgesFromIsRest ==
    ASSUME NEW q \in Seq(Edges), NEW edge
    PROVE  /\ edge \notin ToSet(q) => EdgesFrom(q, edge) = <<>>
           /\ edge \in ToSet(q) =>
                \E i \in 1..Len(q) : /\ q[i] = edge
                                     /\ \A j \in 1..Len(q) : q[j] = edge => i <= j
                                     /\ EdgesFrom(q, edge) = SubSeq(q, i, Len(q))
<1> DEFINE I == {i \in 1..Len(q) : q[i] = edge}
<1>1. EdgesFrom(q, edge) = IF I = {} THEN <<>> ELSE SubSeq(q, Min(I), Len(q))
  <2>1. SelectInSeq(q, LAMBDA e : e = edge) = IF I # {} THEN Min(I) ELSE 0
    BY DEF SelectInSeq
  <2>2. I # {} => Min(I) \in I
    <3>1. I \in SUBSET Nat
      BY LenProperties
    <3> HIDE DEF I
    <3> QED  BY <3>1, MinOfNats
  <2>3. I # {} => Min(I) # 0
    BY <2>2, LenProperties
  <2>4. EdgesFrom(q, edge) = IF SelectInSeq(q, LAMBDA e : e = edge) = 0 THEN <<>>
                             ELSE SubSeq(q, SelectInSeq(q, LAMBDA e : e = edge), Len(q))
    BY DEF EdgesFrom
  <2> HIDE DEF I
  <2> QED  BY <2>1, <2>3, <2>4
<1>2. I = {} <=> edge \notin ToSet(q)
  BY LenProperties DEF ToSet
<1>3. I # {} => Min(I) \in I /\ \A y \in I : Min(I) <= y
  <2>1. I \in SUBSET Nat
    BY LenProperties
  <2> HIDE DEF I
  <2> QED  BY <2>1, MinOfNats
<1>4. CASE edge \notin ToSet(q)
  BY <1>1, <1>2, <1>4
<1>5. CASE edge \in ToSet(q)
  <2>1. Min(I) \in 1..Len(q) /\ q[Min(I)] = edge /\ \A j \in 1..Len(q) : q[j] = edge => Min(I) <= j
    BY <1>2, <1>3, <1>5
  <2>2. EdgesFrom(q, edge) = SubSeq(q, Min(I), Len(q))
    BY <1>1, <1>2, <1>5
  <2> HIDE DEF I
  <2> QED  BY <1>5, <2>1, <2>2
<1> QED  BY <1>4, <1>5

\* What reroute hands to SUMO is a list of edges that starts with the current
\* one, if the route contains it.
LEMMA EdgesFromStarts ==
    ASSUME NEW q \in Seq(Edges), NEW edge
    PROVE  /\ EdgesFrom(q, edge) \in Seq(Edges)
           /\ edge \in ToSet(q) => EdgesFrom(q, edge) # <<>> /\ EdgesFrom(q, edge)[1] = edge
<1>1. CASE edge \notin ToSet(q)
  <2>1. EdgesFrom(q, edge) = <<>>
    BY <1>1, EdgesFromIsRest
  <2>2. <<>> \in Seq(Edges)
    OBVIOUS
  <2> QED  BY <1>1, <2>1, <2>2
<1>2. CASE edge \in ToSet(q)
  <2>1. PICK i \in 1..Len(q) : q[i] = edge /\ EdgesFrom(q, edge) = SubSeq(q, i, Len(q))
    BY <1>2, EdgesFromIsRest
  <2>2. Len(q) \in Nat /\ i \in Int /\ i <= Len(q) /\ \A k \in i..Len(q) : q[k] \in Edges
    BY LenProperties, ElementOfSeq
  <2>3. /\ SubSeq(q, i, Len(q)) \in Seq(Edges)
        /\ Len(SubSeq(q, i, Len(q))) = IF i <= Len(q) THEN Len(q) - i + 1 ELSE 0
        /\ \A k \in 1..(Len(q) - i + 1) : SubSeq(q, i, Len(q))[k] = q[i + k - 1]
    BY <2>2, SubSeqProperties
  <2>4. 1 \in 1..(Len(q) - i + 1) /\ i + 1 - 1 = i /\ Len(q) - i + 1 # 0
    BY <2>2
  <2>5. SubSeq(q, i, Len(q))[1] = q[i]
    BY <2>3, <2>4
  <2>6. SubSeq(q, i, Len(q)) # <<>>
    BY <2>2, <2>3, <2>4, EmptySeq
  <2> QED  BY <2>1, <2>3, <2>5, <2>6
<1> QED  BY <1>1, <1>2

\* The list is always one SUMO can be given.
LEMMA RerouteEdgesType ==
    ASSUME NEW a, NEW routeId
    PROVE  RerouteEdges(a, routeId) \in Seq(Edges)
BY EdgesFromStarts, SumoRoutesAssumption, EmptySeq DEF RerouteEdges

\* Taking the decision keeps the invariant, and a vehicle never reports in the
\* step of its decision: it is still on the decision edge, or back at the
\* start of its itinerary.
LEMMA DecisionKeeps ==
    ASSUME NEW a \in Apps, NEW s \in Cars, s.at \in DOMAIN s.route, now \in 0..MaxTime,
           IsDecisionPoint(a), a.current = s.route[s.at], NEW edges \in Seq(Edges),
           NEW choice \in Ids, choice # NoRoute,
           Departed(a, s), NotFuture(a),
           NEW t, t = ChangeVehicleEdges(s, edges), NEW r, r = Decided(a, choice, t)
    PROVE  /\ r \in Apps
           /\ Departed(r, t) /\ NotFuture(r) /\ Undecided(r) /\ LeftNoticed(r)
           /\ r.id = choice /\ r.decisionTaken /\ r.notificationSent = a.notificationSent
           /\ r.startReroute = now /\ ~Reports(r)
           /\ t.route[1] = a.current => r.edgeIds = a.edgeIds /\ r.entered = a.entered
           /\ r.current = t.route[1]
<1> DEFINE b == [a EXCEPT !.startReroute = now, !.decisionEdge = a.current, !.decisionTaken = TRUE]
<1>1. CarRerouted(s, edges, t)
  BY ChangeEdgesFields
<1>2. t \in Cars /\ t.route # <<>> /\ t.id = s.id /\ t.route[1] \in {s.route[1], a.current}
  BY <1>1 DEF CarRerouted
<1>3. a.current \in Edges
  BY DEF Departed
<1>4. b \in Apps
  BY <1>3, Zenon DEF Apps
<1>5. /\ b.id = a.id /\ b.edgeIds = a.edgeIds /\ b.current = a.current
      /\ b.entered = a.entered /\ b.left = a.left
      /\ b.currentRoute = a.currentRoute /\ b.decisionTaken
      /\ b.notificationSent = a.notificationSent /\ b.startReroute = now
      /\ b.decisionEdge = a.current
  BY Zenon DEF Apps
<1>6. r = requestRoute(b, choice, t)
  BY DEF Decided
<1> HIDE DEF b
<1>7. RouteTaken(b, choice, t, r)
  BY <1>2, <1>4, <1>6, RequestRouteFields
<1>8. /\ r \in Apps /\ r.id = choice /\ r.current = t.route[1] /\ r.startReroute = now
      /\ r.decisionEdge = a.current
  BY <1>5, <1>7, Zenon DEF RouteTaken
<1>9. r.decisionTaken /\ r.notificationSent = a.notificationSent
  BY <1>5, <1>7, Zenon DEF RouteTaken
<1>10. /\ a.edgeIds \in Seq(Edges) /\ a.edgeIds # <<>>
       /\ a.entered \in [Edges -> 0..MaxTime] /\ a.left \in [Edges -> 0..MaxTime]
       /\ a.edgeIds[1] \in Edges /\ a.current \in DecisionEdges /\ ~a.decisionTaken
       /\ s.route[1] = a.edgeIds[1]
  <2>1. a.edgeIds \in Seq(Edges) /\ a.edgeIds # <<>>
    BY DEF Apps, Departed
  <2>2. a.edgeIds[1] \in Edges
    BY <2>1, <1>3, AppendKeepsFirst
  <2> QED  BY <2>1, <2>2 DEF Apps, Departed, IsDecisionPoint
<1>11. Undecided(r)
  BY <1>9 DEF Undecided
<1>12. CASE t.route[1] = a.current
  <2>1. r.edgeIds = a.edgeIds /\ r.entered = a.entered /\ r.left = a.left
    BY <1>5, <1>7, <1>12 DEF RouteTaken
  <2>2. Departed(r, t)
    BY <1>2, <1>3, <1>8, <1>9, <1>10, <1>12, <2>1 DEF Departed
  <2>3. NotFuture(r)
    BY <1>8, <2>1 DEF NotFuture
  <2>4. LeftNoticed(r)
    BY <1>3, <1>8, <1>10, <1>12 DEF LeftNoticed
  <2>5. ~Reports(r)
    BY <1>8, <1>10, <1>12, EdgesAssumption DEF Reports
  <2> QED  BY <1>8, <1>9, <1>11, <2>1, <2>2, <2>3, <2>4, <2>5
<1>13. CASE t.route[1] # a.current
  <2>1. t.route[1] = a.edgeIds[1]
    BY <1>2, <1>10, <1>13
  <2>2. /\ r.edgeIds = Append(a.edgeIds, t.route[1])
        /\ r.entered = [a.entered EXCEPT ![t.route[1]] = now]
        /\ r.left = [a.left EXCEPT ![t.route[1]] = 0]
    BY <1>5, <1>7, <1>13 DEF RouteTaken
  <2>3. r.edgeIds # <<>> /\ r.edgeIds[1] = a.edgeIds[1]
    <3> DEFINE q == a.edgeIds
               x == t.route[1]
    <3>1. q \in Seq(Edges) /\ q # <<>> /\ x \in Edges
      BY <1>10, <2>1
    <3>2. r.edgeIds = Append(q, x)
      BY <2>2
    <3> HIDE DEF q, x
    <3>3. Append(q, x) # <<>> /\ Append(q, x)[1] = q[1]
      BY <3>1, AppendKeepsFirst
    <3>4. r.edgeIds # <<>> /\ r.edgeIds[1] = q[1]
      BY <3>2, <3>3
    <3> QED  BY <3>4 DEF q
  <2>4. \A e \in Edges : /\ r.entered[e] = IF e = t.route[1] THEN now ELSE a.entered[e]
                         /\ r.left[e] = IF e = t.route[1] THEN 0 ELSE a.left[e]
    BY <1>10, <2>2
  <2>5. Departed(r, t)
    BY <1>2, <1>8, <1>9, <1>10, <2>1, <2>3 DEF Departed
  <2>6. NotFuture(r)
    BY <1>8, <2>4 DEF NotFuture
  <2>7. ~OnTime(r)
    BY <1>8, <1>10, <2>1, <2>3, <2>4 DEF OnTime, getStartTime
  <2>8. LeftNoticed(r) /\ ~Reports(r)
    BY <2>7 DEF LeftNoticed, Reports, OnTime
  <2> QED  BY <1>8, <1>9, <1>11, <1>13, <2>5, <2>6, <2>8
<1> QED  BY <1>12, <1>13

\* b after it reported, if it has to.
Told(b) == IF Reports(b) THEN [b EXCEPT !.notificationSent = TRUE] ELSE b

\* Reporting sets the flag and nothing else, and nobody who has to report is
\* left without having done so.
LEMMA ToldFields ==
    ASSUME NEW b \in Apps
    PROVE  /\ Told(b) \in Apps
           /\ Told(b).id = b.id /\ Told(b).edgeIds = b.edgeIds /\ Told(b).current = b.current
           /\ Told(b).entered = b.entered /\ Told(b).left = b.left
           /\ Told(b).currentRoute = b.currentRoute /\ Told(b).decisionTaken = b.decisionTaken
           /\ Told(b).startReroute = b.startReroute /\ Told(b).decisionEdge = b.decisionEdge
           /\ Told(b).notificationSent <=> (b.notificationSent \/ Reports(b))
<1>1. CASE Reports(b)
  BY <1>1, Zenon DEF Told, Apps
<1>2. CASE ~Reports(b)
  BY <1>2, Zenon DEF Told, Apps
<1> QED  BY <1>1, <1>2

-----------------------------------------------------------------------------
(* One SimulationRun *)

Noticed(v) == requestCurrentEdge(app[v], GetVehicleEdge(v))

CarAfter(v, choice) ==
    IF IsDecisionPoint(Noticed(v))
    THEN ChangeVehicleEdges(sumo[v], RerouteEdges(Noticed(v), choice)) ELSE sumo[v]

AppAfter(v, choice) ==
    IF IsDecisionPoint(Noticed(v)) THEN Decided(Noticed(v), choice, CarAfter(v, choice)) ELSE Noticed(v)

CountsAfter(v, choice) ==
    IF IsDecisionPoint(Noticed(v)) THEN [vehiclesOnRoute EXCEPT ![choice] = @ + 1] ELSE vehiclesOnRoute

\* The three things a run can do to the vehicle's decision and to the TIS.
Decides(v) ==
    /\ ~app[v].decisionTaken /\ app'[v].decisionTaken
    /\ ~app[v].notificationSent /\ ~app'[v].notificationSent
    /\ app'[v].id \in Ids
    /\ vehiclesOnRoute' = [vehiclesOnRoute EXCEPT ![app'[v].id] = @ + 1]
    /\ UNCHANGED travelTimesOnRoute

ReportsTime(v, time) ==
    /\ app[v].decisionTaken /\ app'[v].decisionTaken
    /\ ~app[v].notificationSent /\ app'[v].notificationSent
    /\ app'[v].id = app[v].id
    /\ vehiclesOnRoute' = [vehiclesOnRoute EXCEPT ![app[v].id] = @ - 1]
    /\ travelTimesOnRoute' = [travelTimesOnRoute EXCEPT ![app[v].id] = time]

GoesOn(v) ==
    /\ app'[v].decisionTaken = app[v].decisionTaken
    /\ app'[v].notificationSent = app[v].notificationSent
    /\ app'[v].id = app[v].id
    /\ UNCHANGED <<vehiclesOnRoute, travelTimesOnRoute>>

\* SimulationRun in these terms.
LEMMA RunTaken ==
    ASSUME NEW v \in Vehicles, SimulationRun(v)
    PROVE  \E choice \in IF IsDecisionPoint(Noticed(v)) THEN PossibleChoices(Noticed(v)) ELSE {NoRoute} :
              /\ sumo' = [sumo EXCEPT ![v] = CarAfter(v, choice)]
              /\ app' = [app EXCEPT ![v] = Told(AppAfter(v, choice))]
              /\ vehiclesOnRoute' = IF Reports(AppAfter(v, choice))
                                    THEN [CountsAfter(v, choice) EXCEPT ![AppAfter(v, choice).id] = @ - 1]
                                    ELSE CountsAfter(v, choice)
              /\ travelTimesOnRoute' =
                    IF Reports(AppAfter(v, choice))
                    THEN [travelTimesOnRoute EXCEPT ![AppAfter(v, choice).id] =
                             computeTravelTime(AppAfter(v, choice), AppAfter(v, choice).decisionEdge,
                                               AppAfter(v, choice).current)]
                    ELSE travelTimesOnRoute
BY Zenon DEF SimulationRun, Noticed, CarAfter, AppAfter, CountsAfter, Told

\* Every choice that SimulationRun makes is the name of a route.
LEMMA ChoicesHaveNames ==
    ASSUME NEW a, a.id \in Ids \ {NoRoute}, NEW choice \in PossibleChoices(a)
    PROVE  choice \in Ids \ {NoRoute}
<1>1. a.id \in Nat \ {0}
  BY RoutesAssumption, SumoRoutesAssumption DEF Ids, NoRoute, Alternatives
<1>2. PICK st \in UsedStrategies, c \in [Alternatives -> Costs], n \in BOOLEAN, h \in BOOLEAN :
         choice \in ChooseRoute(st, c, AnalyseRouteCorrelation(a.id, a.current, getDestinationEdgeId(a)),
                                a.id, n, h)
  BY DEF PossibleChoices
<1>3. st \in Strategies /\ c \in [Alternatives -> Nat \ {0}]
  BY StrategiesAssumption, CostsAssumption
<1>4. choice \in Alternatives \cup Offered(st, a.id)
  BY <1>1, <1>2, <1>3, ChoiceIsOffered
<1> QED  BY <1>4, RoutesAssumption DEF Offered, Ids, NoRoute, Alternatives

\* What holds of the vehicle after its run.
RunResult(v) ==
    /\ app' = [app EXCEPT ![v] = app'[v]] /\ sumo' = [sumo EXCEPT ![v] = sumo'[v]]
    /\ app'[v] \in Apps /\ sumo'[v] \in Cars
    /\ sumo'[v].state = "driving" /\ sumo'[v].at \in DOMAIN sumo'[v].route
    /\ Departed(app'[v], sumo'[v]) /\ NotFuture(app'[v]) /\ Undecided(app'[v])
    /\ LeftNoticed(app'[v]) /\ ReportDone(app'[v])
    /\ \/ Decides(v)
       \/ \E time \in 0..MaxTime : ReportsTime(v, time) /\ time < now - app[v].startReroute
       \/ GoesOn(v)

\* The vehicle was sent on the route choice from the edge it is on.
SentOn(v, choice) ==
    /\ CarRerouted(sumo[v], RerouteEdges(Noticed(v), choice), sumo'[v])
    /\ Noticed(v).current = GetVehicleEdge(v)
    /\ app'[v].id = choice /\ app'[v].startReroute = now
    /\ app'[v].current = sumo'[v].route[1]
    /\ sumo'[v].route[1] = Noticed(v).current =>
          app'[v].edgeIds = Noticed(v).edgeIds /\ app'[v].entered = Noticed(v).entered

\* The vehicle goes on with what it noticed.
KeptOn(v) ==
    /\ app'[v].edgeIds = Noticed(v).edgeIds /\ app'[v].entered = Noticed(v).entered
    /\ app'[v].current = Noticed(v).current /\ app'[v].startReroute = Noticed(v).startReroute
    /\ app'[v].id = Noticed(v).id /\ app'[v].decisionTaken = Noticed(v).decisionTaken

\* The facts about the vehicle that a run starts from.
LEMMA RunStarts ==
    ASSUME RoutingInv, NEW v \in Vehicles, SimulationRun(v)
    PROVE  /\ app[v] \in Apps /\ sumo[v] \in Cars /\ sumo[v].state = "driving"
           /\ sumo[v].at \in DOMAIN sumo[v].route /\ GetVehicleEdge(v) \in Edges
           /\ now \in 0..MaxTime
           /\ Departed(app[v], sumo[v]) /\ NotFuture(app[v]) /\ InThePast(app[v])
           /\ Undecided(app[v]) /\ LeftNoticed(app[v]) /\ ReportDone(app[v])
           /\ ~app[v].decisionTaken => GetVehicleEdge(v) \in ToSet(app[v].currentRoute)
<1>1. app[v] \in Apps /\ sumo[v] \in Cars /\ now \in 0..MaxTime
  BY DEF RoutingInv, TypeOK
<1>2. v \in Driving \ polled /\ sumo[v].state = "driving" /\ sumo[v].at \in DOMAIN sumo[v].route
  BY DEF RoutingInv, TypeOK, SimulationRun, Driving
<1>3. VehicleInv(v)
  BY DEF RoutingInv
<1>4. /\ Departed(app[v], sumo[v]) /\ NotFuture(app[v]) /\ InThePast(app[v])
      /\ Undecided(app[v]) /\ LeftNoticed(app[v]) /\ ReportDone(app[v])
  BY <1>2, <1>3 DEF VehicleInv
<1>5. sumo[v].route \in Seq(Edges)
  BY <1>1 DEF Cars
<1>6. GetVehicleEdge(v) \in Edges
  BY <1>2, <1>5 DEF GetVehicleEdge
<1>7. ~app[v].decisionTaken => GetVehicleEdge(v) \in ToSet(app[v].currentRoute)
  BY <1>2, <1>4 DEF GetVehicleEdge, Departed, ToSet
<1> QED  BY <1>1, <1>2, <1>4, <1>6, <1>7

\* A run in which the vehicle takes its decision.
LEMMA DecidingRun ==
    ASSUME RoutingInv, NEW v \in Vehicles, SimulationRun(v), IsDecisionPoint(Noticed(v))
    PROVE  /\ RunResult(v) /\ Decides(v)
           /\ \E choice \in PossibleChoices(Noticed(v)) : SentOn(v, choice)
<1> DEFINE a == Noticed(v)
           s == sumo[v]
<1>1. PICK choice \in PossibleChoices(a) :
              /\ sumo' = [sumo EXCEPT ![v] = CarAfter(v, choice)]
              /\ app' = [app EXCEPT ![v] = Told(AppAfter(v, choice))]
              /\ vehiclesOnRoute' = IF Reports(AppAfter(v, choice))
                                    THEN [CountsAfter(v, choice) EXCEPT ![AppAfter(v, choice).id] = @ - 1]
                                    ELSE CountsAfter(v, choice)
              /\ travelTimesOnRoute' =
                    IF Reports(AppAfter(v, choice))
                    THEN [travelTimesOnRoute EXCEPT ![AppAfter(v, choice).id] =
                             computeTravelTime(AppAfter(v, choice), AppAfter(v, choice).decisionEdge,
                                               AppAfter(v, choice).current)]
                    ELSE travelTimesOnRoute
  BY RunTaken
<1> DEFINE t == CarAfter(v, choice)
           b == AppAfter(v, choice)
<1>2. /\ app[v] \in Apps /\ s \in Cars /\ s.state = "driving"
      /\ s.at \in DOMAIN s.route /\ GetVehicleEdge(v) \in Edges
      /\ now \in 0..MaxTime
      /\ Departed(app[v], s) /\ NotFuture(app[v]) /\ InThePast(app[v])
      /\ Undecided(app[v]) /\ LeftNoticed(app[v])
      /\ ~app[v].decisionTaken => GetVehicleEdge(v) \in ToSet(app[v].currentRoute)
  BY RunStarts
<1>3. /\ a \in Apps /\ Departed(a, s) /\ NotFuture(a) /\ a.id = app[v].id
      /\ a.decisionTaken = app[v].decisionTaken
      /\ a.notificationSent = app[v].notificationSent
      /\ GetVehicleEdge(v) \in ToSet(app[v].currentRoute) => a.current = GetVehicleEdge(v)
  BY <1>2, NoticeKeeps DEF Noticed
<1>4. ~a.decisionTaken /\ ~app[v].decisionTaken /\ a.current = s.route[s.at]
  BY <1>2, <1>3 DEF IsDecisionPoint, GetVehicleEdge
<1>5. choice \in Ids /\ choice # NoRoute
  BY <1>3, ChoicesHaveNames DEF Departed, Apps
<1>6. t = ChangeVehicleEdges(s, RerouteEdges(a, choice)) /\ b = Decided(a, choice, t)
  BY DEF CarAfter, AppAfter
<1>7. RerouteEdges(a, choice) \in Seq(Edges)
  BY RerouteEdgesType
<1>8. CountsAfter(v, choice) = [vehiclesOnRoute EXCEPT ![choice] = @ + 1]
  BY DEF CountsAfter
<1> HIDE DEF a, t, b
<1>9. IsDecisionPoint(a)
  BY DEF a
<1>10. CarRerouted(s, RerouteEdges(a, choice), t)
  BY <1>2, <1>6, <1>7, ChangeEdgesFields
<1>11. /\ b \in Apps
       /\ Departed(b, t) /\ NotFuture(b) /\ Undecided(b) /\ LeftNoticed(b)
       /\ b.id = choice /\ b.decisionTaken /\ b.notificationSent = a.notificationSent
       /\ b.startReroute = now /\ ~Reports(b)
       /\ t.route[1] = a.current => b.edgeIds = a.edgeIds /\ b.entered = a.entered
       /\ b.current = t.route[1]
  BY <1>2, <1>3, <1>4, <1>5, <1>6, <1>7, <1>9, DecisionKeeps
<1>12. Told(b) = b
  BY <1>11 DEF Told
<1>13. /\ app' = [app EXCEPT ![v] = b] /\ sumo' = [sumo EXCEPT ![v] = t]
       /\ vehiclesOnRoute' = [vehiclesOnRoute EXCEPT ![choice] = @ + 1]
       /\ travelTimesOnRoute' = travelTimesOnRoute
  BY <1>1, <1>8, <1>11, <1>12 DEF b, t
<1>14. app'[v] = b /\ sumo'[v] = t
  BY <1>13 DEF RoutingInv, TypeOK
<1>15. ~app[v].notificationSent
  BY <1>2, <1>4 DEF Undecided
<1>16. ReportDone(b)
  BY <1>11 DEF ReportDone, Reports, OnTime
<1>17. Decides(v)
  BY <1>3, <1>4, <1>5, <1>11, <1>13, <1>14, <1>15, Zenon DEF Decides
<1>18. t \in Cars /\ t.state = "driving" /\ t.at \in DOMAIN t.route
  BY <1>2, <1>10 DEF CarRerouted
<1>19. RunResult(v)
  BY <1>11, <1>13, <1>14, <1>16, <1>17, <1>18, Zenon DEF RunResult
<1>20. a.current = GetVehicleEdge(v)
  BY <1>4 DEF GetVehicleEdge
<1>21. SentOn(v, choice)
  BY <1>10, <1>11, <1>14, <1>20, Zenon DEF SentOn, a
<1> QED  BY <1>17, <1>19, <1>21 DEF a

\* A run without a decision.  If the vehicle reports, it has just noticed the
\* notification edge: else it had reported before.  So the travel time runs
\* from when it was seen to have left the decision edge to now.
LEMMA PlainRun ==
    ASSUME RoutingInv, NEW v \in Vehicles, SimulationRun(v), ~IsDecisionPoint(Noticed(v))
    PROVE  RunResult(v) /\ ~Decides(v) /\ sumo' = sumo /\ KeptOn(v)
<1> DEFINE a == Noticed(v)
           old == app[v]
           s == sumo[v]
           time == computeTravelTime(a, a.decisionEdge, a.current)
<1>1. /\ sumo' = [sumo EXCEPT ![v] = s]
      /\ app' = [app EXCEPT ![v] = Told(a)]
      /\ vehiclesOnRoute' = IF Reports(a) THEN [vehiclesOnRoute EXCEPT ![a.id] = @ - 1]
                            ELSE vehiclesOnRoute
      /\ travelTimesOnRoute' = IF Reports(a) THEN [travelTimesOnRoute EXCEPT ![a.id] = time]
                               ELSE travelTimesOnRoute
  <2>1. \A choice : /\ CarAfter(v, choice) = s /\ AppAfter(v, choice) = a
                    /\ CountsAfter(v, choice) = vehiclesOnRoute
    BY DEF CarAfter, AppAfter, CountsAfter
  <2> QED  BY <2>1, RunTaken
<1>2. /\ old \in Apps /\ s \in Cars /\ s.state = "driving"
      /\ s.at \in DOMAIN s.route /\ GetVehicleEdge(v) \in Edges
      /\ now \in 0..MaxTime
      /\ Departed(old, s) /\ NotFuture(old) /\ InThePast(old)
      /\ Undecided(old) /\ LeftNoticed(old) /\ ReportDone(old)
  BY RunStarts
<1>3. /\ a \in Apps /\ Departed(a, s) /\ NotFuture(a) /\ Undecided(a) /\ LeftNoticed(a)
      /\ a.id = old.id /\ a.decisionTaken = old.decisionTaken
      /\ a.notificationSent = old.notificationSent /\ a.startReroute = old.startReroute
  BY <1>2, NoticeKeeps DEF Noticed
<1>4. ASSUME Reports(a) PROVE EdgeChanged(old, GetVehicleEdge(v))
  <2>1. SUFFICES ASSUME ~EdgeChanged(old, GetVehicleEdge(v)) PROVE FALSE
    OBVIOUS
  <2>2. a = old
    BY <2>1, SameEdge DEF Noticed
  <2> QED  BY <1>2, <1>4, <2>2 DEF Reports, ReportDone, OnTime
<1>5. ASSUME EdgeChanged(old, GetVehicleEdge(v))
      PROVE  a.entered[a.current] = now /\ a.current \in Edges
  <2>1. EdgeNoticed(old, GetVehicleEdge(v), a)
    BY <1>2, <1>5, NewEdgeFields DEF Noticed, Departed
  <2>2. old.entered \in [Edges -> 0..MaxTime]
    BY <1>2 DEF Apps
  <2> QED  BY <1>2, <2>1, <2>2 DEF EdgeNoticed
<1> HIDE DEF a
<1>6. /\ Told(a) \in Apps
      /\ Told(a).id = a.id /\ Told(a).edgeIds = a.edgeIds /\ Told(a).current = a.current
      /\ Told(a).entered = a.entered /\ Told(a).left = a.left
      /\ Told(a).currentRoute = a.currentRoute /\ Told(a).decisionTaken = a.decisionTaken
      /\ Told(a).startReroute = a.startReroute /\ Told(a).decisionEdge = a.decisionEdge
      /\ Told(a).notificationSent <=> (a.notificationSent \/ Reports(a))
  BY <1>3, ToldFields
<1>7. app'[v] = Told(a) /\ sumo'[v] = s /\ sumo' = sumo
  BY <1>1 DEF RoutingInv, TypeOK
<1>8. Departed(Told(a), s)
  BY <1>3, <1>6, Zenon DEF Departed
<1>9. NotFuture(Told(a))
  BY <1>3, <1>6, Zenon DEF NotFuture
<1>10. OnTime(Told(a)) <=> OnTime(a)
  BY <1>6, Zenon DEF OnTime, getStartTime
<1>11. LeftNoticed(Told(a))
  BY <1>3, <1>6, <1>10, Zenon DEF LeftNoticed
<1>12. ReportDone(Told(a))
  BY <1>6, <1>10, Zenon DEF ReportDone, Reports, OnTime
<1>13. ASSUME Reports(a)
       PROVE  a.decisionTaken /\ ~a.notificationSent /\ time \in 0..MaxTime /\ time < now - old.startReroute
  <2>1. OnTime(a) /\ ~a.notificationSent /\ a.current \in NotificationEdges
    BY <1>13 DEF Reports, OnTime
  <2>2. a.edgeIds[1] \in Edges /\ a.entered \in [Edges -> 0..MaxTime] /\ a.startReroute \in 0..MaxTime
        /\ a.left \in [Edges -> 0..MaxTime]
    <3>1. a.edgeIds \in Seq(Edges) /\ a.edgeIds # <<>> /\ a.current \in Edges
      BY <1>3 DEF Apps, Departed
    <3> QED  BY <1>3, <3>1, AppendKeepsFirst DEF Apps
  <2>3. a.startReroute # 0
    BY <2>1, <2>2 DEF OnTime, getStartTime
  <2>4. a.decisionTaken
    BY <1>3, <2>3 DEF Undecided
  <2>5. /\ a.decisionEdge \in Edges /\ a.current # a.decisionEdge
        /\ a.startReroute < a.left[a.decisionEdge]
    BY <1>3, <2>1, EdgesAssumption DEF LeftNoticed
  <2>6. a.left[a.decisionEdge] <= now /\ a.left[a.decisionEdge] \in Nat /\ a.left[a.decisionEdge] # 0
    BY <1>3, <2>2, <2>5 DEF NotFuture
  <2>7. LeftTime(a, a.decisionEdge) = a.left[a.decisionEdge]
    BY <2>6 DEF LeftTime
  <2>8. time = now - a.left[a.decisionEdge]
    BY <1>4, <1>5, <1>13, <2>7 DEF computeTravelTime
  <2> HIDE DEF time
  <2>9. now - a.left[a.decisionEdge] \in 0..MaxTime
    BY <1>2, <2>6, BoundsAssumption
  <2>10. now - a.left[a.decisionEdge] < now - a.startReroute
    BY <1>2, <2>2, <2>5, <2>6
  <2> QED  BY <1>3, <2>1, <2>4, <2>8, <2>9, <2>10
<1>14. Undecided(Told(a))
  BY <1>3, <1>6, <1>13, Zenon DEF Undecided
<1> HIDE DEF time
<1>15. \/ \E d \in 0..MaxTime : ReportsTime(v, d) /\ d < now - app[v].startReroute
       \/ GoesOn(v)
  <2>1. CASE Reports(a)
    <3>1. ReportsTime(v, time)
      BY <1>1, <1>3, <1>6, <1>7, <1>13, <2>1, Zenon DEF ReportsTime
    <3> QED  BY <1>13, <2>1, <3>1
  <2>2. CASE ~Reports(a)
    <3>1. app'[v].notificationSent = app[v].notificationSent
      BY <1>3, <1>7, <2>2, Zenon DEF Told
    <3>2. app'[v].id = app[v].id /\ app'[v].decisionTaken = app[v].decisionTaken
      BY <1>3, <1>6, <1>7, Zenon
    <3>3. UNCHANGED <<vehiclesOnRoute, travelTimesOnRoute>>
      BY <1>1, <2>2
    <3> QED  BY <3>1, <3>2, <3>3, Zenon DEF GoesOn
  <2> QED  BY <2>1, <2>2
<1>16. ~Decides(v)
  <2>1. app'[v].decisionTaken = app[v].decisionTaken
    BY <1>3, <1>6, <1>7, Zenon
  <2> QED  BY <2>1, Zenon DEF Decides
<1>17. app' = [app EXCEPT ![v] = app'[v]] /\ sumo' = [sumo EXCEPT ![v] = sumo'[v]]
  BY <1>1, <1>7
<1>18. RunResult(v)
  BY <1>2, <1>6, <1>7, <1>8, <1>9, <1>11, <1>12, <1>14, <1>15, <1>17, Zenon DEF RunResult
<1>19. KeptOn(v)
  BY <1>6, <1>7, Zenon DEF KeptOn, a
<1> QED  BY <1>7, <1>16, <1>18, <1>19

\* Every run ends with the vehicle's part of the invariant.
LEMMA RunStep ==
    ASSUME RoutingInv, NEW v \in Vehicles, SimulationRun(v)
    PROVE  RunResult(v)
<1>1. CASE IsDecisionPoint(Noticed(v))
  BY <1>1, DecidingRun
<1>2. CASE ~IsDecisionPoint(Noticed(v))
  BY <1>2, PlainRun
<1> QED  BY <1>1, <1>2

-----------------------------------------------------------------------------
(* The invariant is inductive *)

\* SUMO moves a vehicle along its route, or to its end.
LEMMA SumoStepMoves ==
    ASSUME RoutingInv, SumoStep, NEW v \in Vehicles
    PROVE  /\ sumo'[v] \in Cars
           /\ sumo'[v].id = sumo[v].id /\ sumo'[v].route = sumo[v].route
           /\ sumo'[v].state = "waiting" <=> sumo[v].state = "waiting"
           /\ sumo'[v].state = "driving" => /\ sumo[v].state = "driving"
                                            /\ sumo'[v].at \in DOMAIN sumo'[v].route
                                            /\ sumo'[v].at >= sumo[v].at
<1>1. PICK hop \in [Driving -> 0..MaxHop] :
          sumo' = [u \in Vehicles |->
              IF u \notin Driving THEN sumo[u]
              ELSE IF sumo[u].at + hop[u] > Len(sumo[u].route) THEN [sumo[u] EXCEPT !.state = "arrived"]
              ELSE [sumo[u] EXCEPT !.at = @ + hop[u]]]
  BY DEF SumoStep
<1>2. sumo[v] \in Cars /\ sumo[v].at \in Nat /\ sumo[v].route \in Seq(Edges)
  BY DEF RoutingInv, Cars
<1>3. CASE v \notin Driving
  <2>1. sumo'[v] = sumo[v]
    BY <1>1, <1>3
  <2> QED  BY <1>2, <1>3, <2>1 DEF Driving
<1>4. CASE v \in Driving /\ sumo[v].at + hop[v] > Len(sumo[v].route)
  <2>1. sumo'[v] = [sumo[v] EXCEPT !.state = "arrived"]
    BY <1>1, <1>4, Zenon
  <2>2. /\ sumo'[v] \in Cars /\ sumo'[v].id = sumo[v].id /\ sumo'[v].route = sumo[v].route
        /\ sumo'[v].state = "arrived"
    BY <1>2, <2>1, Zenon DEF Cars
  <2> QED  BY <1>4, <2>2 DEF Driving
<1>5. CASE v \in Driving /\ ~(sumo[v].at + hop[v] > Len(sumo[v].route))
  <2> DEFINE to == sumo[v].at + hop[v]
  <2>1. sumo'[v] = [sumo[v] EXCEPT !.at = to]
    BY <1>1, <1>5, Zenon
  <2>2. sumo[v].state = "driving" /\ sumo[v].at \in DOMAIN sumo[v].route
    BY <1>5 DEF Driving, RoutingInv, TypeOK
  <2>3. hop[v] \in Nat
    BY <1>5, BoundsAssumption
  <2>4. to \in Nat /\ to >= sumo[v].at /\ to \in DOMAIN sumo[v].route
    BY <1>2, <1>5, <2>2, <2>3
  <2> HIDE DEF to
  <2>5. /\ sumo'[v] \in Cars /\ sumo'[v].id = sumo[v].id /\ sumo'[v].route = sumo[v].route
        /\ sumo'[v].state = sumo[v].state /\ sumo'[v].at = to
    BY <1>2, <2>1, <2>4, Zenon DEF Cars
  <2> QED  BY <2>2, <2>4, <2>5
<1> QED  BY <1>3, <1>4, <1>5

\* A step of SUMO keeps the invariant.
LEMMA SumoKeeps ==
    ASSUME RoutingInv, SumoStep
    PROVE  RoutingInv'
<1>1. /\ now \in 0..MaxTime /\ now' = now + 1 /\ now' \in 0..MaxTime /\ now' # 0
      /\ polled' = {} /\ UNCHANGED <<keepsPassed, app, staticRoutes, vehiclesOnRoute,
                                     travelTimesOnRoute, edgeReports>>
  BY BoundsAssumption DEF RoutingInv, TypeOK, SumoStep, tis
<1>2. sumo' \in [Vehicles -> Cars]
  <2>1. \A v \in Vehicles : sumo'[v] \in Cars
    BY SumoStepMoves
  <2>2. sumo' = [u \in Vehicles |-> sumo'[u]]
    <3> DEFINE Moved(hop) ==
            [u \in Vehicles |->
                IF u \notin Driving THEN sumo[u]
                ELSE IF sumo[u].at + hop[u] > Len(sumo[u].route) THEN [sumo[u] EXCEPT !.state = "arrived"]
                ELSE [sumo[u] EXCEPT !.at = @ + hop[u]]]
    <3>1. PICK hop \in [Driving -> 0..MaxHop] : sumo' = Moved(hop)
      BY DEF SumoStep
    <3>2. Moved(hop) = [u \in Vehicles |-> Moved(hop)[u]]
      BY Zenon
    <3> HIDE DEF Moved
    <3> QED  BY <3>1, <3>2
  <2> QED  BY <2>1, <2>2
<1>3. TypeOK'
  <2>1. \A v \in Vehicles :
          /\ sumo'[v].state \in {"waiting", "driving", "arrived"}
          /\ sumo'[v].state = "driving" => sumo'[v].at \in DOMAIN sumo'[v].route
    BY SumoStepMoves DEF Cars
  <2> QED  BY <1>1, <2>1 DEF RoutingInv, TypeOK
<1>4. ASSUME NEW v \in Vehicles PROVE VehicleInv(v)'
  <2>1. VehicleInv(v) /\ app[v] \in Apps
    BY DEF RoutingInv, TypeOK
  <2>2. /\ app[v].entered \in [Edges -> 0..MaxTime] /\ app[v].left \in [Edges -> 0..MaxTime]
        /\ app[v].startReroute \in 0..MaxTime
    BY <2>1 DEF Apps
  <2>3. NotFuture(app[v])' /\ InThePast(app[v])'
    BY <1>1, <2>1, <2>2 DEF VehicleInv, NotFuture, InThePast
  <2>4. Undecided(app[v])'
    BY <1>1, <2>1 DEF VehicleInv, Undecided
  <2>5. sumo'[v].state = "waiting" => app'[v] = NewApp
    BY <1>1, <2>1, SumoStepMoves DEF VehicleInv
  <2>6. ASSUME sumo'[v].state # "waiting"
        PROVE  /\ Alternatives \subseteq staticRoutes'
               /\ Departed(app[v], sumo[v])' /\ LeftNoticed(app[v])' /\ ReportDone(app[v])'
    <3>1. sumo[v].state # "waiting" /\ sumo'[v].id = sumo[v].id /\ sumo'[v].route = sumo[v].route
      BY <2>6, SumoStepMoves
    <3>2. Alternatives \subseteq staticRoutes /\ Departed(app[v], sumo[v])
          /\ LeftNoticed(app[v]) /\ ReportDone(app[v])
      BY <2>1, <3>1 DEF VehicleInv
    <3>3. Departed(app[v], sumo[v])'
      BY <1>1, <3>1, <3>2 DEF Departed
    <3>4. LeftNoticed(app[v])' /\ ReportDone(app[v])'
      BY <1>1, <3>2 DEF LeftNoticed, ReportDone, OnTime, getStartTime
    <3> QED  BY <1>1, <3>2, <3>3, <3>4
  <2> QED  BY <2>3, <2>4, <2>5, <2>6 DEF VehicleInv
<1> QED  BY <1>1, <1>2, <1>3, <1>4 DEF RoutingInv

\* The fields of a new application.
LEMMA NewAppFields ==
    /\ NewApp \in Apps
    /\ NewApp.id = NoRoute /\ NewApp.edgeIds = <<>> /\ NewApp.current = NoEdge
    /\ NewApp.entered = [e \in Edges |-> 0] /\ NewApp.left = [e \in Edges |-> 0]
    /\ NewApp.decisionTaken = FALSE /\ NewApp.notificationSent = FALSE
    /\ NewApp.startReroute = 0
<1>1. /\ [e \in Edges |-> 0] \in [Edges -> 0..MaxTime] /\ <<>> \in Seq(Edges)
      /\ 0 \in 0..MaxTime /\ NoRoute \in Ids /\ NoEdge \in Edges \cup {NoEdge}
  BY BoundsAssumption DEF Ids
<1>2. NewApp \in Apps
  BY <1>1, Zenon DEF Apps, NewApp
<1> QED  BY <1>2, Zenon DEF NewApp

\* The vehicle's part of the invariant holds before it departs.
LEMMA NewAppInv ==
    ASSUME now \in Nat \ {0}
    PROVE  NotFuture(NewApp) /\ InThePast(NewApp) /\ Undecided(NewApp)
BY NewAppFields DEF NotFuture, InThePast, Undecided

\* The invariant holds initially.
LEMMA InitInv == Init => RoutingInv
<1> SUFFICES ASSUME Init PROVE RoutingInv
  OBVIOUS
<1>1. now = 1 /\ now \in 0..MaxTime /\ now \in Nat \ {0}
  BY BoundsAssumption DEF Init
<1>2. /\ \A v \in Vehicles : /\ app[v] = NewApp
                             /\ sumo[v] = [state |-> "waiting", id |-> NoRoute, route |-> <<>>, at |-> 0]
      /\ app = [v \in Vehicles |-> NewApp]
      /\ sumo = [v \in Vehicles |-> [state |-> "waiting", id |-> NoRoute, route |-> <<>>, at |-> 0]]
  BY DEF Init
<1>3. [state |-> "waiting", id |-> NoRoute, route |-> <<>>, at |-> 0] \in Cars
  BY DEF Cars, Ids
<1>4. sumo \in [Vehicles -> Cars] /\ \A v \in Vehicles : sumo[v].state = "waiting"
  BY <1>2, <1>3
<1>5. app \in [Vehicles -> Apps]
  BY <1>2, NewAppFields
<1>6. TypeOK
  <2>1. /\ keepsPassed \in BOOLEAN /\ polled = {} /\ staticRoutes = {} /\ edgeReports = {}
        /\ vehiclesOnRoute = [r \in Ids |-> 0] /\ travelTimesOnRoute = [r \in Ids |-> 0]
    BY DEF Init
  <2>2. 0 \in 0..MaxTime
    BY BoundsAssumption
  <2>3. vehiclesOnRoute \in [Ids -> Int] /\ travelTimesOnRoute \in [Ids -> 0..MaxTime]
    BY <2>1, <2>2
  <2> QED  BY <1>1, <1>4, <1>5, <2>1, <2>3 DEF TypeOK
<1>7. \A v \in Vehicles : VehicleInv(v)
  BY <1>1, <1>2, <1>4, NewAppInv DEF VehicleInv
<1> QED  BY <1>1, <1>4, <1>6, <1>7 DEF RoutingInv

\* What a vehicle that keeps its place and its application brings into the
\* next state of an action that lets no time pass.
LEMMA OthersKeep ==
    ASSUME RoutingInv, NEW v \in Vehicles,
           app'[v] = app[v], sumo'[v] = sumo[v], now' = now,
           v \in polled => v \in polled', staticRoutes \subseteq staticRoutes'
    PROVE  VehicleInv(v)'
<1>1. VehicleInv(v)
  BY DEF RoutingInv
<1>2. /\ NotFuture(app[v])' <=> NotFuture(app[v])
      /\ InThePast(app[v])' <=> InThePast(app[v])
      /\ Undecided(app[v])' <=> Undecided(app[v])
  BY DEF NotFuture, InThePast, Undecided
<1>3. /\ Departed(app[v], sumo[v])' <=> Departed(app[v], sumo[v])
      /\ LeftNoticed(app[v])' <=> LeftNoticed(app[v])
      /\ ReportDone(app[v])' <=> ReportDone(app[v])
  BY DEF Departed, LeftNoticed, ReportDone, OnTime, getStartTime
<1> QED  BY <1>1, <1>2, <1>3 DEF VehicleInv

\* A departure keeps the invariant.
LEMMA StartKeeps ==
    ASSUME RoutingInv, NEW v \in Vehicles, StartApplication(v)
    PROVE  RoutingInv'
<1>1. /\ sumo[v].state = "waiting" /\ app[v] = NewApp
      /\ UNCHANGED <<keepsPassed, now, travelTimesOnRoute, edgeReports>>
      /\ polled' = polled \cup {v} /\ staticRoutes' = staticRoutes \cup Alternatives
      /\ vehiclesOnRoute' = [r \in Ids |-> IF r \in Alternatives \ staticRoutes THEN 0
                                            ELSE vehiclesOnRoute[r]]
      /\ now \in 0..MaxTime /\ now # 0
  BY DEF StartApplication, RoutingInv, VehicleInv, initializeStaticTravelTimes, TypeOK
<1> DEFINE car(r) == [state |-> "driving", id |-> r, route |-> SumoRoutes[r], at |-> 1]
<1>2. PICK r \in DOMAIN SumoRoutes : /\ sumo' = [sumo EXCEPT ![v] = car(r)]
                                     /\ app' = [app EXCEPT ![v] = requestRoute(@, NoRoute, car(r))]
  BY DEF StartApplication
<1> DEFINE s == car(r)
           a == requestRoute(NewApp, NoRoute, s)
<1>3. /\ r \in Ids /\ r # NoRoute /\ SumoRoutes[r] \in Seq(Edges) /\ SumoRoutes[r] # <<>>
      /\ 1 \in DOMAIN SumoRoutes[r] /\ SumoRoutes[r][1] \in Edges /\ NoRoute \in Ids
  BY SumoRoutesAssumption DEF Ids
<1>4. s \in Cars /\ s.state = "driving" /\ s.id = r /\ s.route = SumoRoutes[r] /\ s.at = 1
  BY <1>3 DEF Cars
<1> HIDE DEF car
<1>5. RouteTaken(NewApp, NoRoute, s, a)
  BY <1>1, <1>3, <1>4, NewAppFields, RequestRouteFields
<1>6. sumo'[v] = s /\ app'[v] = a
  BY <1>1, <1>2 DEF RoutingInv, TypeOK
<1> HIDE DEF s, a
<1>7. s.route[1] # NewApp.current /\ s.route[1] \in Edges
  BY <1>3, <1>4, NewAppFields, EdgesAssumption
<1>8. /\ a \in Apps /\ a.id = r /\ a.currentRoute = s.route /\ a.current = s.route[1]
      /\ a.startReroute = 0
      /\ a.edgeIds = Append(<<>>, s.route[1])
      /\ a.entered = [[e \in Edges |-> 0] EXCEPT ![s.route[1]] = now]
      /\ a.left = [[e \in Edges |-> 0] EXCEPT ![s.route[1]] = 0]
  BY <1>4, <1>5, <1>7, NewAppFields DEF RouteTaken
<1>9. ~a.decisionTaken /\ ~a.notificationSent
  BY <1>5, NewAppFields, Zenon DEF RouteTaken
<1>10. a.edgeIds # <<>> /\ a.edgeIds[1] = s.route[1]
  BY <1>7, <1>8
<1>11. \A e \in Edges : a.entered[e] = (IF e = s.route[1] THEN now ELSE 0) /\ a.left[e] = 0
  BY <1>8
<1>12. Departed(a, s)
  BY <1>3, <1>4, <1>7, <1>8, <1>9, <1>10 DEF Departed
<1>13. NotFuture(a) /\ Undecided(a)
  BY <1>1, <1>8, <1>9, <1>11 DEF NotFuture, Undecided
<1>14. ~OnTime(a)
  BY <1>1, <1>7, <1>8, <1>10, <1>11 DEF OnTime, getStartTime
<1>15. LeftNoticed(a) /\ ReportDone(a)
  BY <1>14 DEF LeftNoticed, ReportDone
<1>16. VehicleInv(v)'
  <2>1. NotFuture(app[v])' /\ Undecided(app[v])'
    BY <1>1, <1>6, <1>13 DEF NotFuture, Undecided
  <2>2. Departed(app[v], sumo[v])'
    BY <1>6, <1>12 DEF Departed
  <2>3. LeftNoticed(app[v])' /\ ReportDone(app[v])'
    BY <1>6, <1>15 DEF LeftNoticed, ReportDone, OnTime, getStartTime
  <2> QED  BY <1>1, <1>4, <1>6, <2>1, <2>2, <2>3 DEF VehicleInv
<1>17. ASSUME NEW u \in Vehicles, u # v PROVE VehicleInv(u)'
  <2>1. app'[u] = app[u] /\ sumo'[u] = sumo[u]
    BY <1>2, <1>17 DEF RoutingInv, TypeOK
  <2> QED  BY <1>1, <2>1, OthersKeep
<1>18. sumo' \in [Vehicles -> Cars] /\ app' \in [Vehicles -> Apps]
  <2>1. sumo' = [sumo EXCEPT ![v] = s] /\ app' = [app EXCEPT ![v] = a]
    BY <1>2, <1>6 DEF RoutingInv, TypeOK
  <2> QED  BY <1>4, <1>8, <2>1 DEF RoutingInv, TypeOK
<1>19. TypeOK'
  <2>1. \A u \in Vehicles : /\ sumo'[u].state \in {"waiting", "driving", "arrived"}
                            /\ sumo'[u].state = "driving" => sumo'[u].at \in DOMAIN sumo'[u].route
    BY <1>2, <1>3, <1>4, <1>6 DEF RoutingInv, TypeOK, Cars
  <2>2. vehiclesOnRoute' \in [Ids -> Int]
    BY <1>1 DEF RoutingInv, TypeOK
  <2> QED  BY <1>1, <1>18, <2>1, <2>2 DEF RoutingInv, TypeOK
<1> QED  BY <1>1, <1>16, <1>17, <1>18, <1>19 DEF RoutingInv

\* A run keeps the invariant.
LEMMA RunKeeps ==
    ASSUME RoutingInv, NEW v \in Vehicles, SimulationRun(v)
    PROVE  RoutingInv'
<1>1. RunResult(v)
  BY RunStep
<1>2. /\ polled' = polled \cup {v} /\ keepsPassed' = keepsPassed /\ now' = now
      /\ staticRoutes' = staticRoutes
  BY DEF SimulationRun
<1>3. /\ app' = [app EXCEPT ![v] = app'[v]] /\ sumo' = [sumo EXCEPT ![v] = sumo'[v]]
      /\ app'[v] \in Apps /\ sumo'[v] \in Cars
      /\ sumo'[v].state = "driving" /\ sumo'[v].at \in DOMAIN sumo'[v].route
      /\ Departed(app'[v], sumo'[v]) /\ NotFuture(app'[v]) /\ Undecided(app'[v])
      /\ LeftNoticed(app'[v]) /\ ReportDone(app'[v])
  BY <1>1 DEF RunResult
<1>4. app' \in [Vehicles -> Apps] /\ sumo' \in [Vehicles -> Cars]
  BY <1>3 DEF RoutingInv, TypeOK
<1>5. ASSUME NEW u \in Vehicles, u # v PROVE app'[u] = app[u] /\ sumo'[u] = sumo[u]
  BY <1>3, <1>5 DEF RoutingInv, TypeOK
<1>6. VehicleInv(v)'
  <2>1. NotFuture(app[v])' /\ Undecided(app[v])'
    BY <1>2, <1>3 DEF NotFuture, Undecided
  <2>2. Departed(app[v], sumo[v])'
    BY <1>3 DEF Departed
  <2>3. LeftNoticed(app[v])' /\ ReportDone(app[v])'
    BY <1>3 DEF LeftNoticed, ReportDone, OnTime, getStartTime
  <2>4. Alternatives \subseteq staticRoutes'
    BY <1>2, RunStarts DEF RoutingInv, VehicleInv
  <2> QED  BY <1>2, <1>3, <2>1, <2>2, <2>3, <2>4 DEF VehicleInv
<1>7. ASSUME NEW u \in Vehicles, u # v PROVE VehicleInv(u)'
  BY <1>2, <1>5, <1>7, OthersKeep
<1>8. vehiclesOnRoute' \in [Ids -> Int] /\ travelTimesOnRoute' \in [Ids -> 0..MaxTime]
  <2>1. vehiclesOnRoute \in [Ids -> Int] /\ travelTimesOnRoute \in [Ids -> 0..MaxTime]
    BY DEF RoutingInv, TypeOK
  <2>2. CASE Decides(v)
    BY <2>1, <2>2 DEF Decides
  <2>3. ASSUME NEW time \in 0..MaxTime, ReportsTime(v, time)
        PROVE  vehiclesOnRoute' \in [Ids -> Int] /\ travelTimesOnRoute' \in [Ids -> 0..MaxTime]
    <3>1. /\ vehiclesOnRoute' = [vehiclesOnRoute EXCEPT ![app[v].id] = @ - 1]
          /\ travelTimesOnRoute' = [travelTimesOnRoute EXCEPT ![app[v].id] = time]
      BY <2>3, Zenon DEF ReportsTime
    <3>2. app[v].id \in Ids
      BY DEF RoutingInv, TypeOK, Apps
    <3> QED  BY <2>1, <3>1, <3>2
  <2>4. CASE GoesOn(v)
    BY <2>1, <2>4 DEF GoesOn
  <2> QED  BY <1>1, <2>2, <2>3, <2>4 DEF RunResult
<1>9. edgeReports' \subseteq [vehicle : Vehicles, edge : Edges, entered : 0..MaxTime, left : 0..MaxTime]
  <2>1. edgeReports \subseteq [vehicle : Vehicles, edge : Edges, entered : 0..MaxTime, left : 0..MaxTime]
    BY DEF RoutingInv, TypeOK
  <2>2. /\ Noticed(v) \in Apps /\ app[v].current \in Edges
    BY RunStarts, NoticeKeeps DEF Noticed, Departed
  <2>3. /\ Noticed(v).entered[app[v].current] \in 0..MaxTime
        /\ Noticed(v).left[app[v].current] \in 0..MaxTime
    BY <2>2 DEF Apps
  <2>4. \/ edgeReports' = edgeReports
        \/ edgeReports' = edgeReports \cup {[vehicle |-> v, edge |-> app[v].current,
                                             entered |-> Noticed(v).entered[app[v].current],
                                             left |-> Noticed(v).left[app[v].current]]}
    BY DEF SimulationRun, Noticed
  <2> QED  BY <2>1, <2>2, <2>3, <2>4
<1>10. TypeOK'
  <2>1. keepsPassed \in BOOLEAN /\ now \in 0..MaxTime /\ polled \subseteq Vehicles
        /\ staticRoutes \subseteq Alternatives
    BY DEF RoutingInv, TypeOK
  <2>2. \A u \in Vehicles : /\ sumo'[u].state \in {"waiting", "driving", "arrived"}
                            /\ sumo'[u].state = "driving" => sumo'[u].at \in DOMAIN sumo'[u].route
    BY <1>3, <1>5 DEF RoutingInv, TypeOK
  <2> QED  BY <1>2, <1>4, <1>8, <1>9, <2>1, <2>2 DEF TypeOK
<1> QED  BY <1>2, <1>4, <1>6, <1>7, <1>10 DEF RoutingInv

\* Nothing that SUMO or an application does breaks the invariant.
THEOREM RoutingInvHolds == Spec => []RoutingInv
<1>1. RoutingInv /\ [Next]_vars => RoutingInv'
  <2> SUFFICES ASSUME RoutingInv, [Next]_vars PROVE RoutingInv'
    OBVIOUS
  <2>1. CASE SumoStep
    BY <2>1, SumoKeeps
  <2>2. CASE \E v \in Vehicles : StartApplication(v)
    BY <2>2, StartKeeps
  <2>3. CASE \E v \in Vehicles : SimulationRun(v)
    BY <2>3, RunKeeps
  <2>4. CASE UNCHANGED vars
    BY <2>4 DEF vars, tis, RoutingInv, TypeOK, VehicleInv, NotFuture, InThePast, Undecided,
                Departed, LeftNoticed, ReportDone, OnTime, getStartTime
  <2> QED  BY <2>1, <2>2, <2>3, <2>4 DEF Next
<1> QED  BY InitInv, <1>1, PTL DEF Spec

\* Whatever SUMO and the applications do, the state of every vehicle, the
\* counts and times of the TIS and all reports keep their types: no unknown
\* edge gets into an itinerary, no travel time is negative.
THEOREM TypeCorrect == Spec => []TypeOK
<1>1. RoutingInv => TypeOK
  BY DEF RoutingInv
<1> QED  BY RoutingInvHolds, <1>1, PTL

-----------------------------------------------------------------------------
(* The counts of the TIS *)

\* The vehicles under way for route r.
UnderWay(r) == {v \in Vehicles : app[v].decisionTaken /\ ~app[v].notificationSent /\ app[v].id = r}

\* The vehicle starts on SUMO's route r.
StartsOn(v, r) ==
    /\ sumo'[v].state = "driving" /\ sumo'[v].route = SumoRoutes[r] /\ sumo'[v].at = 1
    /\ app'[v].id = r /\ app'[v].current = SumoRoutes[r][1]

\* A departure puts one vehicle on its route and leaves every decision alone.
LEMMA Started ==
    ASSUME RoutingInv, NEW v \in Vehicles, StartApplication(v)
    PROVE  /\ sumo[v].state = "waiting" /\ ~app[v].decisionTaken /\ ~app'[v].decisionTaken
           /\ \E r \in DOMAIN SumoRoutes : StartsOn(v, r)
           /\ \A u \in Vehicles : u # v => app'[u] = app[u] /\ sumo'[u] = sumo[u]
<1>1. /\ sumo[v].state = "waiting" /\ app[v] = NewApp /\ now \in 0..MaxTime
      /\ app \in [Vehicles -> Apps] /\ sumo \in [Vehicles -> Cars]
  BY DEF StartApplication, RoutingInv, VehicleInv, TypeOK
<1> DEFINE car(r) == [state |-> "driving", id |-> r, route |-> SumoRoutes[r], at |-> 1]
<1>2. PICK r \in DOMAIN SumoRoutes : /\ sumo' = [sumo EXCEPT ![v] = car(r)]
                                     /\ app' = [app EXCEPT ![v] = requestRoute(@, NoRoute, car(r))]
  BY DEF StartApplication
<1>3. /\ car(r) \in Cars /\ car(r).route # <<>> /\ NoRoute \in Ids
      /\ car(r).state = "driving" /\ car(r).id = r /\ car(r).route = SumoRoutes[r] /\ car(r).at = 1
  BY SumoRoutesAssumption DEF Cars, Ids
<1> HIDE DEF car
<1>4. RouteTaken(NewApp, NoRoute, car(r), requestRoute(NewApp, NoRoute, car(r)))
  BY <1>1, <1>3, NewAppFields, RequestRouteFields
<1>5. app'[v] = requestRoute(NewApp, NoRoute, car(r)) /\ sumo'[v] = car(r)
  BY <1>1, <1>2
<1>6. /\ app'[v].decisionTaken = NewApp.decisionTaken
      /\ app'[v].id = r /\ app'[v].current = SumoRoutes[r][1]
  BY <1>3, <1>4, <1>5, Zenon DEF RouteTaken
<1>7. StartsOn(v, r)
  BY <1>3, <1>5, <1>6 DEF StartsOn
<1>8. \A u \in Vehicles : u # v => app'[u] = app[u] /\ sumo'[u] = sumo[u]
  BY <1>1, <1>2
<1> QED  BY <1>1, <1>6, <1>7, <1>8, NewAppFields, Zenon

\* A route that the TIS does not know yet has nobody under way.
LEMMA UnknownRouteEmpty ==
    ASSUME RoutingInv, NEW r \in Alternatives \ staticRoutes
    PROVE  UnderWay(r) = {}
<1> SUFFICES ASSUME NEW v \in Vehicles, app[v].decisionTaken PROVE FALSE
  BY Zenon DEF UnderWay
<1>1. VehicleInv(v)
  BY DEF RoutingInv
<1>2. app[v] = NewApp
  BY <1>1 DEF VehicleInv
<1> QED  BY <1>2, NewAppFields, Zenon

\* One step keeps the counts.
LEMMA CountStep ==
    ASSUME RoutingInv, CountMatches, [Next]_vars
    PROVE  CountMatches'
<1>1. /\ \A r : IsFiniteSet(UnderWay(r))
      /\ vehiclesOnRoute \in [Ids -> Int]
      /\ \A r \in Ids : vehiclesOnRoute[r] = Cardinality(UnderWay(r))
  BY VehiclesAssumption, FS_Subset DEF UnderWay, CountMatches, RoutingInv, TypeOK
<1>2. SUFFICES ASSUME NEW r \in Ids PROVE vehiclesOnRoute'[r] = Cardinality(UnderWay(r)')
  BY DEF CountMatches, UnderWay
<1>3. CASE SumoStep \/ UNCHANGED vars
  BY <1>1, <1>3 DEF SumoStep, vars, tis, UnderWay
<1>4. ASSUME NEW v \in Vehicles, StartApplication(v) PROVE vehiclesOnRoute'[r] = Cardinality(UnderWay(r)')
  <2>1. UnderWay(r)' = UnderWay(r)
    BY <1>4, Started, Zenon DEF UnderWay
  <2>2. vehiclesOnRoute'[r] = IF r \in Alternatives \ staticRoutes THEN 0 ELSE vehiclesOnRoute[r]
    BY <1>4 DEF StartApplication, initializeStaticTravelTimes
  <2>3. r \in Alternatives \ staticRoutes => Cardinality(UnderWay(r)) = 0
    BY UnknownRouteEmpty, FS_EmptySet
  <2> QED  BY <1>1, <2>1, <2>2, <2>3
<1>5. ASSUME NEW v \in Vehicles, SimulationRun(v) PROVE vehiclesOnRoute'[r] = Cardinality(UnderWay(r)')
  <2>1. RunResult(v)
    BY <1>5, RunStep
  <2>2. \A u \in Vehicles : u # v => app'[u] = app[u]
    BY <2>1 DEF RunResult, RoutingInv, TypeOK
  <2>3. CASE Decides(v)
    <3>1. v \notin UnderWay(r)
      BY <2>3, Zenon DEF Decides, UnderWay
    <3>2. UnderWay(r)' = IF r = app'[v].id THEN UnderWay(r) \cup {v} ELSE UnderWay(r)
      <4>1. CASE r = app'[v].id
        <5>1. UnderWay(r)' = UnderWay(r) \cup {v}
          BY <2>2, <2>3, <3>1, <4>1, Zenon DEF Decides, UnderWay
        <5> QED  BY <4>1, <5>1
      <4>2. CASE r # app'[v].id
        <5>1. UnderWay(r)' = UnderWay(r)
          BY <2>2, <2>3, <3>1, <4>2, Zenon DEF Decides, UnderWay
        <5> QED  BY <4>2, <5>1
      <4> QED  BY <4>1, <4>2
    <3>3. Cardinality(UnderWay(r) \cup {v}) = Cardinality(UnderWay(r)) + 1
      BY <1>1, <3>1, FS_AddElement
    <3>4. vehiclesOnRoute' = [vehiclesOnRoute EXCEPT ![app'[v].id] = @ + 1]
      BY <2>3, Zenon DEF Decides
    <3> QED  BY <1>1, <3>2, <3>3, <3>4
  <2>4. CASE \E time \in 0..MaxTime : ReportsTime(v, time)
    <3>1. PICK time \in 0..MaxTime : ReportsTime(v, time)
      BY <2>4
    <3>2. UnderWay(r)' = IF r = app[v].id THEN UnderWay(r) \ {v} ELSE UnderWay(r)
      <4>1. CASE r = app[v].id
        <5>1. UnderWay(r)' = UnderWay(r) \ {v}
          BY <2>2, <3>1, <4>1, Zenon DEF ReportsTime, UnderWay
        <5> QED  BY <4>1, <5>1
      <4>2. CASE r # app[v].id
        <5>1. UnderWay(r)' = UnderWay(r)
          BY <2>2, <3>1, <4>2, Zenon DEF ReportsTime, UnderWay
        <5> QED  BY <4>2, <5>1
      <4> QED  BY <4>1, <4>2
    <3>3. r = app[v].id => v \in UnderWay(r)
      BY <3>1, Zenon DEF ReportsTime, UnderWay
    <3>4. v \in UnderWay(r) => Cardinality(UnderWay(r) \ {v}) = Cardinality(UnderWay(r)) - 1
      BY <1>1, FS_RemoveElement
    <3>5. vehiclesOnRoute' = [vehiclesOnRoute EXCEPT ![app[v].id] = @ - 1]
      BY <3>1, Zenon DEF ReportsTime
    <3> QED  BY <1>1, <3>2, <3>3, <3>4, <3>5
  <2>5. CASE GoesOn(v)
    <3>1. UnderWay(r)' = UnderWay(r)
      BY <2>2, <2>5, Zenon DEF GoesOn, UnderWay
    <3>2. vehiclesOnRoute' = vehiclesOnRoute
      BY <2>5 DEF GoesOn
    <3> QED  BY <1>1, <3>1, <3>2
  <2> QED  BY <2>1, <2>3, <2>4, <2>5 DEF RunResult
<1> QED  BY <1>3, <1>4, <1>5 DEF Next

\* The TIS counts on every route exactly the vehicles that ChooseRoute sent on
\* it and that have not reported yet, for any number of vehicles: the
\* increments and decrements of the shared counters match, and a route is
\* registered before anyone is counted on it.
THEOREM CountMatchesHolds == Spec => []CountMatches
<1>1. Init => CountMatches
  <2> SUFFICES ASSUME Init, NEW r \in Ids PROVE vehiclesOnRoute[r] = Cardinality(UnderWay(r))
    BY DEF CountMatches, UnderWay
  <2>1. vehiclesOnRoute[r] = 0
    BY DEF Init
  <2>2. \A v \in Vehicles : app[v] = NewApp
    BY DEF Init
  <2>3. UnderWay(r) = {}
    BY <2>2, NewAppFields, Zenon DEF UnderWay
  <2> QED  BY <2>1, <2>3, FS_EmptySet
<1>2. RoutingInv /\ CountMatches /\ [Next]_vars => CountMatches'
  BY CountStep
<1> QED  BY RoutingInvHolds, <1>1, <1>2, PTL DEF Spec

\* A vehicle's report of its travel time never carries a negative one, and
\* never one that reaches back to before the decision: what OnReporting
\* computes lies strictly within the time since ChooseRoute.
THEOREM TravelTimeWithinHolds == Spec => TravelTimeWithin
<1> DEFINE P == \A v \in Vehicles : app'[v].notificationSent /\ ~app[v].notificationSent =>
                    /\ travelTimesOnRoute'[app[v].id] >= 0
                    /\ travelTimesOnRoute'[app[v].id] < now - app[v].startReroute
<1>1. RoutingInv /\ [Next]_vars => [P]_vars
  <2> SUFFICES ASSUME RoutingInv, Next, NEW v \in Vehicles,
                      app'[v].notificationSent, ~app[v].notificationSent
               PROVE  /\ travelTimesOnRoute'[app[v].id] >= 0
                      /\ travelTimesOnRoute'[app[v].id] < now - app[v].startReroute
    BY Zenon
  <2>1. CASE SumoStep
    BY <2>1, Zenon DEF SumoStep
  <2>2. ASSUME NEW u \in Vehicles, StartApplication(u) PROVE FALSE
    <3>1. u = v
      BY <2>2, Started, Zenon
    <3>2. Undecided(app[v])'
      BY <2>2, StartKeeps DEF RoutingInv, VehicleInv
    <3> QED  BY <2>2, <3>1, <3>2, Started, Zenon DEF Undecided
  <2>3. ASSUME NEW u \in Vehicles, SimulationRun(u)
        PROVE  /\ travelTimesOnRoute'[app[v].id] >= 0
               /\ travelTimesOnRoute'[app[v].id] < now - app[v].startReroute
    <3>1. RunResult(u)
      BY <2>3, RunStep
    <3>2. u = v
      <4>1. u # v => app'[v] = app[v]
        BY <3>1 DEF RunResult, RoutingInv, TypeOK
      <4> QED  BY <4>1, Zenon
    <3>3. \E time \in 0..MaxTime : ReportsTime(v, time) /\ time < now - app[v].startReroute
      BY <3>1, <3>2, Zenon DEF RunResult, Decides, GoesOn
    <3>4. PICK time \in 0..MaxTime : ReportsTime(v, time) /\ time < now - app[v].startReroute
      BY <3>3
    <3>5. travelTimesOnRoute' = [travelTimesOnRoute EXCEPT ![app[v].id] = time]
      BY <3>4, Zenon DEF ReportsTime
    <3>6. travelTimesOnRoute \in [Ids -> 0..MaxTime] /\ app[v].id \in Ids
      BY DEF RoutingInv, TypeOK, Apps
    <3> QED  BY <3>4, <3>5, <3>6
  <2> QED  BY <2>1, <2>2, <2>3 DEF Next
<1> QED  BY RoutingInvHolds, <1>1, PTL DEF Spec, TravelTimeWithin

-----------------------------------------------------------------------------
(* Vehicles follow their choice *)

\* The rest of q from its i-th element on.
IsRest(q, i, rest) ==
    /\ Len(rest) = Len(q) - i + 1
    /\ \A k \in 1..(Len(q) - i + 1) : rest[k] = q[i + k - 1]

\* SubSeq(q, i, Len(q)) is that rest.
LEMMA RestOf ==
    ASSUME NEW S, NEW q \in Seq(S), NEW i \in 1..Len(q)
    PROVE  SubSeq(q, i, Len(q)) \in Seq(S) /\ IsRest(q, i, SubSeq(q, i, Len(q)))
<1> DEFINE rest == SubSeq(q, i, Len(q))
<1>1. /\ Len(q) \in Nat /\ i \in Int /\ Len(q) \in Int /\ i <= Len(q)
      /\ \A k \in i..Len(q) : q[k] \in S
  BY LenProperties, ElementOfSeq
<1>2. /\ rest \in Seq(S)
      /\ Len(rest) = IF i <= Len(q) THEN Len(q) - i + 1 ELSE 0
      /\ \A k \in 1..(Len(q) - i + 1) : rest[k] = q[i + k - 1]
  BY <1>1, SubSeqProperties
<1> HIDE DEF rest
<1>3. rest \in Seq(S) /\ IsRest(q, i, rest)
  BY <1>1, <1>2 DEF IsRest
<1> QED  BY <1>3 DEF rest

\* Two sequences with the same rest still have the same rest further on.
LEMMA RestShifts ==
    ASSUME NEW S, NEW p \in Seq(S), NEW q \in Seq(S),
           NEW i \in 1..Len(p), NEW j \in 1..Len(q), NEW n \in i..Len(p),
           SubSeq(p, i, Len(p)) = SubSeq(q, j, Len(q))
    PROVE  /\ p[i] = q[j]
           /\ \E m \in 1..Len(q) : SubSeq(p, n, Len(p)) = SubSeq(q, m, Len(q))
<1> DEFINE m == j + (n - i)
           both == SubSeq(p, i, Len(p))
<1>1. Len(p) \in Nat /\ Len(q) \in Nat /\ i \in Int /\ j \in Int /\ n \in Int /\ 1 <= i /\ 1 <= j
  BY LenProperties
<1>2. IsRest(p, i, both)
  BY RestOf
<1>3. IsRest(q, j, both)
  <2>1. IsRest(q, j, SubSeq(q, j, Len(q)))
    BY RestOf
  <2> QED  BY <2>1
<1> HIDE DEF both
<1>4. /\ Len(both) = Len(p) - i + 1 /\ Len(both) = Len(q) - j + 1
      /\ \A k \in 1..(Len(p) - i + 1) : both[k] = p[i + k - 1]
      /\ \A k \in 1..(Len(q) - j + 1) : both[k] = q[j + k - 1]
  BY <1>2, <1>3 DEF IsRest
<1>5. Len(p) - i = Len(q) - j
  <2> DEFINE lp == Len(p)
             lq == Len(q)
  <2>1. lp \in Int /\ lq \in Int /\ i \in Int /\ j \in Int /\ lp - i + 1 = lq - j + 1
    BY <1>1, <1>4
  <2> HIDE DEF lp, lq
  <2>2. lp - i = lq - j
    BY <2>1
  <2> QED  BY <2>2 DEF lp, lq
<1>6. \A k \in 1..(Len(p) - i + 1) : p[i + k - 1] = q[j + k - 1]
  BY <1>4, <1>5
<1>7. p[i] = q[j]
  <2>1. 1 \in 1..(Len(p) - i + 1) /\ i + 1 - 1 = i /\ j + 1 - 1 = j
    BY <1>1
  <2>2. p[i + 1 - 1] = q[j + 1 - 1]
    BY <1>6, <2>1
  <2> QED  BY <2>1, <2>2
<1>8. m \in 1..Len(q) /\ m \in Int /\ Len(p) - n = Len(q) - m
  BY <1>1, <1>5
<1> DEFINE pr == SubSeq(p, n, Len(p))
           qr == SubSeq(q, m, Len(q))
<1>9. pr \in Seq(S) /\ IsRest(p, n, pr)
  <2>1. n \in 1..Len(p)
    BY <1>1
  <2> QED  BY <2>1, RestOf
<1>10. qr \in Seq(S) /\ IsRest(q, m, qr)
  BY <1>8, RestOf
<1>11. ASSUME NEW k \in 1..Len(pr) PROVE pr[k] = qr[k]
  <2> HIDE DEF pr, qr
  <2>1. k \in 1..(Len(p) - n + 1) /\ k \in 1..(Len(q) - m + 1)
    BY <1>8, <1>9 DEF IsRest
  <2>2. pr[k] = p[n + k - 1] /\ qr[k] = q[m + k - 1]
    BY <1>9, <1>10, <2>1 DEF IsRest
  <2> DEFINE h == n - i + k
  <2>3. h \in 1..(Len(p) - i + 1) /\ i + h - 1 = n + k - 1 /\ j + h - 1 = m + k - 1
    BY <1>1, <2>1
  <2> HIDE DEF h
  <2>4. p[i + h - 1] = q[j + h - 1]
    BY <1>6, <2>3
  <2> QED  BY <2>2, <2>3, <2>4
<1>12. pr = qr
  <2> HIDE DEF pr, qr, m
  <2> QED  BY <1>8, <1>9, <1>10, <1>11, SeqEqual DEF IsRest
<1> HIDE DEF m
<1> QED  BY <1>7, <1>8, <1>12

\* What is ahead of s is the end of the route r.
OnTheWay(s, r) ==
    \E k \in 1..Len(Routes[r]) :
        SubSeq(s.route, s.at, Len(s.route)) = SubSeq(Routes[r], k, Len(Routes[r]))

\* All vehicles under way have an alternative for their route; once decided it
\* is what is ahead of them.
FollowInv ==
    \A v \in Vehicles :
        /\ sumo[v].state # "waiting" => app[v].id \in Alternatives
        /\ sumo[v].state = "driving" /\ app[v].decisionTaken => OnTheWay(sumo[v], app[v].id)

\* A vehicle whose own route is an alternative chooses an alternative.
LEMMA ChoiceIsAlternative ==
    ASSUME NEW a, a.id \in Alternatives, NEW choice \in PossibleChoices(a)
    PROVE  choice \in Alternatives
<1>1. a.id \in Nat \ {0}
  BY RoutesAssumption DEF Alternatives
<1>2. PICK st \in UsedStrategies, c \in [Alternatives -> Costs], n \in BOOLEAN, h \in BOOLEAN :
         choice \in ChooseRoute(st, c, AnalyseRouteCorrelation(a.id, a.current, getDestinationEdgeId(a)),
                                a.id, n, h)
  BY DEF PossibleChoices
<1>3. st \in Strategies /\ c \in [Alternatives -> Nat \ {0}]
  BY StrategiesAssumption, CostsAssumption
<1>4. choice \in Alternatives \cup Offered(st, a.id)
  BY <1>1, <1>2, <1>3, ChoiceIsOffered
<1> QED  BY <1>4 DEF Offered

\* At the decision edge SUMO is given the rest of the chosen route, which
\* begins where the vehicle is.
LEMMA ChoiceAccepted ==
    ASSUME RoutingInv, RoutesMeet, NEW v \in Vehicles, IsDecisionPoint(Noticed(v)),
           app[v].id \in Alternatives, SimulationRun(v)
    PROVE  \E choice \in Alternatives :
              /\ SentOn(v, choice)
              /\ RerouteEdges(Noticed(v), choice) = EdgesFrom(Routes[choice], GetVehicleEdge(v))
              /\ GetVehicleEdge(v) \in ToSet(Routes[choice])
              /\ RerouteEdges(Noticed(v), choice) # <<>>
              /\ RerouteEdges(Noticed(v), choice)[1] = GetVehicleEdge(v)
<1>1. PICK choice \in PossibleChoices(Noticed(v)) : SentOn(v, choice)
  BY DecidingRun
<1>2. Noticed(v).id = app[v].id
  BY RunStarts, NoticeKeeps DEF Noticed
<1>3. choice \in Alternatives
  BY <1>1, <1>2, ChoiceIsAlternative
<1>4. Noticed(v).current = GetVehicleEdge(v) /\ Noticed(v).current \in DecisionEdges
  BY <1>1 DEF SentOn, IsDecisionPoint
<1>5. GetVehicleEdge(v) \in ToSet(Routes[choice])
  BY <1>3, <1>4 DEF RoutesMeet
<1>6. RerouteEdges(Noticed(v), choice) = EdgesFrom(Routes[choice], GetVehicleEdge(v))
  BY <1>3, <1>4 DEF RerouteEdges
<1>7. /\ EdgesFrom(Routes[choice], GetVehicleEdge(v)) # <<>>
      /\ EdgesFrom(Routes[choice], GetVehicleEdge(v))[1] = GetVehicleEdge(v)
  BY <1>3, <1>5, EdgesFromStarts, SumoRoutesAssumption
<1> QED  BY <1>1, <1>3, <1>5, <1>6, <1>7

\* One step keeps every vehicle on its way.
LEMMA FollowStep ==
    ASSUME RoutingInv, RoutesMeet, FollowInv, [Next]_vars
    PROVE  FollowInv'
<1> SUFFICES ASSUME NEW v \in Vehicles
             PROVE  /\ sumo'[v].state # "waiting" => app'[v].id \in Alternatives
                    /\ sumo'[v].state = "driving" /\ app'[v].decisionTaken =>
                          OnTheWay(sumo'[v], app'[v].id)
  BY Zenon DEF FollowInv, OnTheWay
<1>1. /\ sumo[v].state # "waiting" => app[v].id \in Alternatives
      /\ sumo[v].state = "driving" /\ app[v].decisionTaken => OnTheWay(sumo[v], app[v].id)
  BY DEF FollowInv
<1>2. /\ sumo[v] \in Cars /\ sumo[v].route \in Seq(Edges) /\ sumo[v].at \in Nat
      /\ sumo[v].state = "driving" => sumo[v].at \in 1..Len(sumo[v].route)
      /\ \A r \in Alternatives : Routes[r] \in Seq(Edges)
  BY SumoRoutesAssumption, LenProperties DEF RoutingInv, TypeOK, Cars
<1>3. CASE UNCHANGED vars
  BY <1>1, <1>3, Zenon DEF vars
<1>4. CASE SumoStep
  <2>1. app' = app
    BY <1>4 DEF SumoStep
  <2>2. /\ sumo'[v].route = sumo[v].route
        /\ sumo'[v].state = "waiting" <=> sumo[v].state = "waiting"
        /\ sumo'[v].state = "driving" => /\ sumo[v].state = "driving"
                                         /\ sumo'[v].at \in DOMAIN sumo'[v].route
                                         /\ sumo'[v].at >= sumo[v].at
    BY <1>4, SumoStepMoves
  <2>3. ASSUME sumo'[v].state = "driving", app[v].decisionTaken
        PROVE  OnTheWay(sumo'[v], app[v].id)
    <3> DEFINE q == sumo[v].route
               R == Routes[app[v].id]
    <3>1. /\ q \in Seq(Edges) /\ R \in Seq(Edges)
          /\ sumo[v].at \in 1..Len(q) /\ sumo'[v].at \in sumo[v].at..Len(q)
      BY <1>1, <1>2, <2>2, <2>3
    <3>2. PICK k \in 1..Len(R) : SubSeq(q, sumo[v].at, Len(q)) = SubSeq(R, k, Len(R))
      BY <1>1, <2>2, <2>3 DEF OnTheWay
    <3> HIDE DEF q, R
    <3>3. \E m \in 1..Len(R) : SubSeq(q, sumo'[v].at, Len(q)) = SubSeq(R, m, Len(R))
      BY <3>1, <3>2, RestShifts
    <3> QED  BY <2>2, <3>3 DEF OnTheWay, q, R
  <2> QED  BY <1>1, <2>1, <2>2, <2>3, Zenon
<1>5. ASSUME NEW u \in Vehicles, StartApplication(u)
      PROVE  /\ sumo'[v].state # "waiting" => app'[v].id \in Alternatives
             /\ sumo'[v].state = "driving" /\ app'[v].decisionTaken =>
                   OnTheWay(sumo'[v], app'[v].id)
  <2>1. CASE u # v
    BY <1>1, <1>5, <2>1, Started, Zenon
  <2>2. CASE u = v
    <3>1. PICK r \in DOMAIN SumoRoutes : StartsOn(v, r)
      BY <1>5, <2>2, Started
    <3>2. app'[v].id \in Alternatives
      BY <3>1 DEF StartsOn, RoutesMeet
    <3>3. ~app'[v].decisionTaken
      BY <1>5, <2>2, Started
    <3> QED  BY <3>2, <3>3
  <2> QED  BY <2>1, <2>2
<1>6. ASSUME NEW u \in Vehicles, SimulationRun(u)
      PROVE  /\ sumo'[v].state # "waiting" => app'[v].id \in Alternatives
             /\ sumo'[v].state = "driving" /\ app'[v].decisionTaken =>
                   OnTheWay(sumo'[v], app'[v].id)
  <2>1. CASE u # v
    <3>1. RunResult(u)
      BY <1>6, RunStep
    <3>2. app'[v] = app[v] /\ sumo'[v] = sumo[v]
      BY <2>1, <3>1 DEF RunResult, RoutingInv, TypeOK
    <3> QED  BY <1>1, <3>2, Zenon
  <2>2. CASE u = v /\ ~IsDecisionPoint(Noticed(v))
    <3>1. KeptOn(v) /\ sumo' = sumo
      BY <1>6, <2>2, PlainRun
    <3>2. Noticed(v).id = app[v].id /\ Noticed(v).decisionTaken = app[v].decisionTaken
      BY <1>6, <2>2, RunStarts, NoticeKeeps DEF Noticed
    <3> QED  BY <1>1, <3>1, <3>2, Zenon DEF KeptOn
  <2>3. CASE u = v /\ IsDecisionPoint(Noticed(v))
    <3>1. sumo[v].state = "driving" /\ app[v].id \in Alternatives
      BY <1>1, <1>6, <2>3, RunStarts
    <3>2. PICK choice \in Alternatives :
              /\ SentOn(v, choice)
              /\ RerouteEdges(Noticed(v), choice) = EdgesFrom(Routes[choice], GetVehicleEdge(v))
              /\ GetVehicleEdge(v) \in ToSet(Routes[choice])
              /\ RerouteEdges(Noticed(v), choice) # <<>>
              /\ RerouteEdges(Noticed(v), choice)[1] = GetVehicleEdge(v)
      BY <1>6, <2>3, <3>1, ChoiceAccepted
    <3> DEFINE edges == EdgesFrom(Routes[choice], GetVehicleEdge(v))
    <3>3. CarRerouted(sumo[v], edges, sumo'[v]) /\ app'[v].id = choice
      BY <3>2 DEF SentOn
    <3>4. \E i \in 1..Len(Routes[choice]) : edges = SubSeq(Routes[choice], i, Len(Routes[choice]))
      BY <1>2, <3>2, EdgesFromIsRest
    <3>5. SubSeq(sumo'[v].route, sumo'[v].at, Len(sumo'[v].route)) = edges
      BY <3>2, <3>3 DEF CarRerouted, GetVehicleEdge
    <3>6. OnTheWay(sumo'[v], choice)
      BY <3>4, <3>5 DEF OnTheWay
    <3> QED  BY <3>2, <3>3, <3>6
  <2> QED  BY <2>1, <2>2, <2>3
<1> QED  BY <1>3, <1>4, <1>5, <1>6 DEF Next

\* On a route that never comes back, the end that begins at an edge is what
\* EdgesFrom finds.
LEMMA OnTheWayIsChoice ==
    ASSUME NEW rank, Upward(rank), NEW r \in Alternatives, NEW s \in Cars,
           s.at \in 1..Len(s.route), OnTheWay(s, r)
    PROVE  SubSeq(s.route, s.at, Len(s.route)) = EdgesFrom(Routes[r], s.route[s.at])
<1> DEFINE R == Routes[r]
           q == s.route
<1>1. R \in Seq(Edges) /\ q \in Seq(Edges)
  BY SumoRoutesAssumption DEF Cars
<1>2. PICK k \in 1..Len(R) : SubSeq(q, s.at, Len(q)) = SubSeq(R, k, Len(R))
  BY DEF OnTheWay
<1>3. /\ rank \in [Edges -> Nat]
      /\ \A i, j \in 1..Len(R) : i < j => rank[R[i]] < rank[R[j]]
  BY <1>1, LenProperties DEF Upward, Increasing
<1> HIDE DEF R, q
<1>4. q[s.at] = R[k] /\ R[k] \in ToSet(R)
  <2>1. s.at \in s.at..Len(q) /\ s.at \in 1..Len(q)
    BY <1>1, LenProperties DEF q
  <2>2. q[s.at] = R[k]
    BY <1>1, <1>2, <2>1, RestShifts
  <2> QED  BY <1>1, <2>2, LenProperties DEF ToSet
<1>5. PICK i \in 1..Len(R) : R[i] = R[k] /\ EdgesFrom(R, R[k]) = SubSeq(R, i, Len(R))
  BY <1>1, <1>4, EdgesFromIsRest
<1>6. i = k
  <2>1. R[k] \in Edges /\ rank[R[k]] \in Nat
    BY <1>1, <1>3, ElementOfSeq
  <2>2. ~(i < k) /\ ~(k < i)
    BY <1>3, <1>5, <2>1
  <2>3. i \in Nat /\ k \in Nat
    OBVIOUS
  <2> QED  BY <2>2, <2>3
<1> QED  BY <1>2, <1>4, <1>5, <1>6 DEF R, q

\* In a network whose alternatives all pass the decision edges and lead
\* nowhere twice, a vehicle that took its decision drives, in SUMO, the rest
\* of exactly that route under whose name the TIS counts it.
THEOREM FollowsChoiceHolds ==
    ASSUME RoutesMeet, NEW rank, Upward(rank)
    PROVE  Spec => []FollowsChoice
<1>1. Init => FollowInv
  <2> SUFFICES ASSUME Init PROVE \A v \in Vehicles : sumo[v].state = "waiting"
    BY DEF FollowInv
  <2> QED  BY DEF Init
<1>2. RoutingInv /\ FollowInv /\ [Next]_vars => FollowInv'
  BY FollowStep
<1>3. RoutingInv /\ FollowInv => FollowsChoice
  <2> SUFFICES ASSUME RoutingInv, FollowInv, NEW v \in Driving, app[v].decisionTaken
               PROVE  /\ app[v].id \in Alternatives
                      /\ SubSeq(sumo[v].route, sumo[v].at, Len(sumo[v].route)) =
                            EdgesFrom(Routes[app[v].id], GetVehicleEdge(v))
    BY DEF FollowsChoice
  <2>1. /\ v \in Vehicles /\ sumo[v].state = "driving" /\ sumo[v] \in Cars
        /\ sumo[v].at \in DOMAIN sumo[v].route
    BY DEF Driving, RoutingInv, TypeOK
  <2>2. sumo[v].at \in 1..Len(sumo[v].route)
    BY <2>1, LenProperties DEF Cars
  <2>3. app[v].id \in Alternatives /\ OnTheWay(sumo[v], app[v].id)
    BY <2>1, Zenon DEF FollowInv
  <2> QED  BY <2>1, <2>2, <2>3, OnTheWayIsChoice DEF GetVehicleEdge
<1> QED  BY RoutingInvHolds, <1>1, <1>2, <1>3, PTL DEF Spec

-----------------------------------------------------------------------------
(* Edges are reported once, decisions in time *)

\* The edge last noticed is one that the vehicle has come by.
CameBy(rank, a, s) ==
    /\ Increasing(rank, s.route)
    /\ \E k \in 1..s.at : a.current = s.route[k]

\* Nobody is back before the start, and whoever took a decision did so after
\* the start.
StartIsPast(rank, a) ==
    /\ rank[a.edgeIds[1]] <= rank[a.current]
    /\ a.decisionTaken => OnTime(a)

VehicleOrder(rank) ==
    \A v \in Vehicles :
        /\ sumo[v].state = "driving" => CameBy(rank, app[v], sumo[v])
        /\ sumo[v].state # "waiting" => StartIsPast(rank, app[v])

\* The edges reported lie below the one the vehicle is on.
ReportOrder(rank) ==
    /\ \A x \in edgeReports : /\ sumo[x.vehicle].state # "waiting"
                              /\ x.entered < x.left
                              /\ rank[x.edge] < rank[app[x.vehicle].current]
    /\ \A x, y \in edgeReports : x.vehicle = y.vehicle /\ x.edge = y.edge => x = y

OrderInv(rank) == ~keepsPassed => VehicleOrder(rank) /\ ReportOrder(rank)

\* The end of an upward route leads upwards.
LEMMA RestIncreasing ==
    ASSUME NEW rank, NEW q \in Seq(Edges), Increasing(rank, q), NEW i \in 1..Len(q)
    PROVE  Increasing(rank, SubSeq(q, i, Len(q)))
<1> DEFINE rest == SubSeq(q, i, Len(q))
<1>1. rest \in Seq(Edges) /\ IsRest(q, i, rest)
  BY RestOf
<1>2. Len(q) \in Nat /\ DOMAIN q = 1..Len(q)
  BY LenProperties
<1> HIDE DEF rest
<1>3. DOMAIN rest = 1..(Len(q) - i + 1)
  BY <1>1, LenProperties DEF IsRest
<1>4. ASSUME NEW j \in DOMAIN rest, NEW k \in DOMAIN rest, j < k
      PROVE  rank[rest[j]] < rank[rest[k]]
  <2>1. rest[j] = q[i + j - 1] /\ rest[k] = q[i + k - 1]
    BY <1>1, <1>3 DEF IsRest
  <2>2. i + j - 1 \in DOMAIN q /\ i + k - 1 \in DOMAIN q /\ i + j - 1 < i + k - 1
    BY <1>2, <1>3, <1>4
  <2> QED  BY <2>1, <2>2 DEF Increasing
<1>5. Increasing(rank, rest)
  BY <1>4 DEF Increasing
<1> QED  BY <1>5 DEF rest

\* The vehicle's a is what its old application noticed on its way.
NoticedOrder(rank, old, a, s) ==
    /\ CameBy(rank, a, s) /\ rank[a.edgeIds[1]] <= rank[a.current]
    /\ a.edgeIds[1] = old.edgeIds[1] /\ getStartTime(a) = getStartTime(old)
    /\ a.current # old.current => rank[old.current] < rank[a.current]

\* A vehicle notices only edges above those it noticed before; so it never
\* notices the first one again.
LEMMA NoticedAbove ==
    ASSUME RoutingInv, NEW rank, Upward(rank), NEW v \in Vehicles, SimulationRun(v),
           CameBy(rank, app[v], sumo[v]), StartIsPast(rank, app[v])
    PROVE  NoticedOrder(rank, app[v], Noticed(v), sumo[v])
<1> DEFINE old == app[v]
           a == Noticed(v)
           s == sumo[v]
           edge == GetVehicleEdge(v)
<1>1. /\ old \in Apps /\ s \in Cars /\ s.at \in DOMAIN s.route /\ edge \in Edges
      /\ now \in 0..MaxTime /\ Departed(old, s)
  BY RunStarts
<1>2. rank \in [Edges -> Nat] /\ rank[old.edgeIds[1]] <= rank[old.current]
  BY DEF Upward, StartIsPast
<1>3. CASE ~EdgeChanged(old, edge)
  <2>1. a = old
    BY <1>3, SameEdge DEF Noticed
  <2> QED  BY <1>2, <2>1 DEF NoticedOrder
<1>4. CASE EdgeChanged(old, edge)
  <2>1. EdgeNoticed(old, edge, a)
    BY <1>1, <1>4, NewEdgeFields DEF Noticed, Departed
  <2>2. a.current = edge /\ old.current # edge
    BY <1>4, <2>1 DEF EdgeNoticed, EdgeChanged
  <2>3. old.edgeIds \in Seq(Edges) /\ old.edgeIds # <<>> /\ old.current \in Edges
        /\ old.entered \in [Edges -> 0..MaxTime]
    BY <1>1 DEF Apps, Departed
  <2>4. a.edgeIds = Append(old.edgeIds, edge) /\ a.entered = [old.entered EXCEPT ![edge] = now]
    BY <2>1 DEF EdgeNoticed
  <2>5. a.edgeIds[1] = old.edgeIds[1] /\ old.edgeIds[1] \in Edges
    BY <1>1, <2>3, <2>4, AppendKeepsFirst
  <2>6. PICK k \in 1..s.at : old.current = s.route[k]
    BY DEF CameBy
  <2>7. s.route \in Seq(Edges) /\ s.at \in 1..Len(s.route) /\ edge = s.route[s.at]
    BY <1>1, LenProperties DEF Cars, GetVehicleEdge
  <2>8. k < s.at /\ k \in DOMAIN s.route
    <3>1. k # s.at
      BY <2>2, <2>6, <2>7
    <3> QED  BY <2>7, <3>1, LenProperties
  <2>9. rank[old.current] < rank[edge]
    BY <1>1, <2>6, <2>7, <2>8 DEF CameBy, Increasing
  <2>10. CameBy(rank, a, s)
    <3>1. s.at \in 1..s.at
      BY <2>7, LenProperties
    <3> QED  BY <2>2, <2>7, <3>1 DEF CameBy
  <2>11. rank[old.edgeIds[1]] \in Nat /\ rank[old.current] \in Nat /\ rank[edge] \in Nat
    BY <1>1, <1>2, <2>3, <2>5
  <2>12. rank[a.edgeIds[1]] <= rank[a.current] /\ edge # old.edgeIds[1]
    BY <1>2, <2>2, <2>5, <2>9, <2>11
  <2>13. getStartTime(a) = getStartTime(old)
    BY <2>3, <2>4, <2>5, <2>12 DEF getStartTime
  <2> QED  BY <2>2, <2>5, <2>9, <2>10, <2>12, <2>13 DEF NoticedOrder
<1> QED  BY <1>3, <1>4

\* What a run leaves of the order.
RunOrdered(rank, v) ==
    /\ CameBy(rank, app'[v], sumo'[v]) /\ StartIsPast(rank, app'[v])
    /\ app'[v].current = Noticed(v).current

\* A run keeps the order: the decision is taken after the start, and SUMO's
\* new route begins with the edge last noticed.
LEMMA RunKeepsOrder ==
    ASSUME RoutingInv, RoutesMeet, NEW rank, Upward(rank), ~keepsPassed,
           NEW v \in Vehicles, SimulationRun(v), app[v].id \in Alternatives,
           CameBy(rank, app[v], sumo[v]), StartIsPast(rank, app[v])
    PROVE  RunOrdered(rank, v)
<1> DEFINE a == Noticed(v)
<1>1. NoticedOrder(rank, app[v], a, sumo[v])
  BY NoticedAbove
<1>2. CASE ~IsDecisionPoint(a)
  <2>1. KeptOn(v) /\ sumo' = sumo
    BY <1>2, PlainRun
  <2>2. /\ app'[v].edgeIds = a.edgeIds /\ app'[v].entered = a.entered
        /\ app'[v].current = a.current /\ app'[v].startReroute = a.startReroute
        /\ app'[v].decisionTaken = a.decisionTaken
    BY <2>1, Zenon DEF KeptOn
  <2>3. a.decisionTaken = app[v].decisionTaken /\ a.startReroute = app[v].startReroute
    BY RunStarts, NoticeKeeps DEF Noticed
  <2>4. CameBy(rank, app'[v], sumo'[v])
    BY <1>1, <2>1, <2>2 DEF NoticedOrder, CameBy
  <2>5. OnTime(app'[v]) <=> OnTime(app[v])
    BY <1>1, <2>2, <2>3 DEF OnTime, NoticedOrder, getStartTime
  <2>6. StartIsPast(rank, app'[v])
    BY <1>1, <2>2, <2>3, <2>5, Zenon DEF StartIsPast, NoticedOrder
  <2> QED  BY <2>2, <2>4, <2>6 DEF RunOrdered
<1>3. CASE IsDecisionPoint(a)
  <2>1. PICK choice \in Alternatives :
              /\ SentOn(v, choice)
              /\ RerouteEdges(a, choice) = EdgesFrom(Routes[choice], GetVehicleEdge(v))
              /\ GetVehicleEdge(v) \in ToSet(Routes[choice])
              /\ RerouteEdges(a, choice) # <<>>
              /\ RerouteEdges(a, choice)[1] = GetVehicleEdge(v)
    BY <1>3, ChoiceAccepted
  <2> DEFINE edges == RerouteEdges(a, choice)
  <2>2. CarRerouted(sumo[v], edges, sumo'[v]) /\ a.current = GetVehicleEdge(v)
    BY <2>1 DEF SentOn
  <2>3. sumo'[v].route = edges /\ sumo'[v].at = 1 /\ edges[1] = a.current
    BY <2>1, <2>2 DEF CarRerouted, GetVehicleEdge
  <2>4. /\ app'[v].edgeIds = a.edgeIds /\ app'[v].entered = a.entered
        /\ app'[v].current = a.current /\ app'[v].startReroute = now
    BY <2>1, <2>3 DEF SentOn
  <2>5. Increasing(rank, edges)
    <3>1. Routes[choice] \in Seq(Edges) /\ Increasing(rank, Routes[choice])
      BY SumoRoutesAssumption DEF Upward
    <3>2. PICK i \in 1..Len(Routes[choice]) : edges = SubSeq(Routes[choice], i, Len(Routes[choice]))
      BY <2>1, <3>1, EdgesFromIsRest
    <3> HIDE DEF edges
    <3> QED  BY <3>1, <3>2, RestIncreasing
  <2>6. CameBy(rank, app'[v], sumo'[v])
    <3>1. 1 \in 1..1
      OBVIOUS
    <3> QED  BY <2>3, <2>4, <2>5, <3>1 DEF CameBy
  <2>7. getStartTime(app[v]) < now /\ getStartTime(app[v]) = getStartTime(app'[v])
    <3>1. app[v] \in Apps /\ Departed(app[v], sumo[v]) /\ InThePast(app[v])
      BY RunStarts
    <3>2. app[v].edgeIds[1] \in Edges
      <4>1. app[v].edgeIds \in Seq(Edges) /\ app[v].edgeIds # <<>> /\ app[v].current \in Edges
        BY <3>1 DEF Apps, Departed
      <4> QED  BY <4>1, AppendKeepsFirst
    <3> QED  BY <1>1, <2>4, <3>1, <3>2 DEF getStartTime, InThePast, NoticedOrder
  <2>8. OnTime(app'[v])
    <3>1. app[v] \in Apps /\ Departed(app[v], sumo[v]) /\ now \in 0..MaxTime
      BY RunStarts
    <3>2. app[v].edgeIds[1] \in Edges
      <4>1. app[v].edgeIds \in Seq(Edges) /\ app[v].edgeIds # <<>> /\ app[v].current \in Edges
        BY <3>1 DEF Apps, Departed
      <4> QED  BY <4>1, AppendKeepsFirst
    <3>3. getStartTime(app[v]) \in 0..MaxTime
      BY <3>1, <3>2 DEF getStartTime, Apps
    <3> QED  BY <2>4, <2>7, <3>1, <3>3 DEF OnTime
  <2>9. StartIsPast(rank, app'[v])
    BY <1>1, <2>4, <2>8 DEF StartIsPast, NoticedOrder
  <2> QED  BY <2>4, <2>6, <2>9 DEF RunOrdered
<1> QED  BY <1>2, <1>3

\* One step keeps the order of what the vehicles noticed.
LEMMA VehicleOrderStep ==
    ASSUME RoutingInv, RoutesMeet, FollowInv, NEW rank, Upward(rank), ~keepsPassed,
           VehicleOrder(rank), [Next]_vars
    PROVE  VehicleOrder(rank)'
<1> SUFFICES ASSUME NEW v \in Vehicles
             PROVE  /\ sumo'[v].state = "driving" => CameBy(rank, app'[v], sumo'[v])
                    /\ sumo'[v].state # "waiting" => StartIsPast(rank, app'[v])
  BY DEF VehicleOrder, CameBy, StartIsPast, OnTime, getStartTime, Increasing
<1>1. /\ sumo[v].state = "driving" => CameBy(rank, app[v], sumo[v])
      /\ sumo[v].state # "waiting" => StartIsPast(rank, app[v])
  BY DEF VehicleOrder
<1>2. CASE UNCHANGED vars
  BY <1>1, <1>2 DEF vars
<1>3. CASE SumoStep
  <2>1. app' = app
    BY <1>3 DEF SumoStep
  <2>2. /\ sumo'[v].route = sumo[v].route
        /\ sumo'[v].state = "waiting" <=> sumo[v].state = "waiting"
        /\ sumo'[v].state = "driving" => /\ sumo[v].state = "driving"
                                         /\ sumo'[v].at >= sumo[v].at
                                         /\ sumo'[v] \in Cars
    BY <1>3, SumoStepMoves
  <2>3. ASSUME sumo'[v].state = "driving" PROVE CameBy(rank, app[v], sumo'[v])
    <3>1. Increasing(rank, sumo[v].route)
      BY <1>1, <2>2, <2>3 DEF CameBy
    <3>2. PICK k \in 1..sumo[v].at : app[v].current = sumo[v].route[k]
      BY <1>1, <2>2, <2>3 DEF CameBy
    <3>3. sumo[v].at \in Nat /\ sumo'[v].at \in Nat
      BY <2>2, <2>3 DEF RoutingInv, Cars
    <3>4. k \in 1..sumo'[v].at
      BY <2>2, <2>3, <3>3
    <3> QED  BY <2>2, <3>1, <3>2, <3>4 DEF CameBy
  <2> QED  BY <1>1, <2>1, <2>2, <2>3
<1>4. ASSUME NEW u \in Vehicles, StartApplication(u)
      PROVE  /\ sumo'[v].state = "driving" => CameBy(rank, app'[v], sumo'[v])
             /\ sumo'[v].state # "waiting" => StartIsPast(rank, app'[v])
  <2>1. CASE u # v
    <3>1. app'[v] = app[v] /\ sumo'[v] = sumo[v]
      BY <1>4, <2>1, Started
    <3> QED  BY <1>1, <3>1
  <2>2. CASE u = v
    <3>1. PICK r \in DOMAIN SumoRoutes : StartsOn(v, r)
      BY <1>4, <2>2, Started
    <3>2. ~app'[v].decisionTaken
      BY <1>4, <2>2, Started
    <3>3. /\ sumo'[v].state = "driving" /\ sumo'[v].route = SumoRoutes[r] /\ sumo'[v].at = 1
          /\ app'[v].current = SumoRoutes[r][1]
      BY <3>1 DEF StartsOn
    <3>4. CameBy(rank, app'[v], sumo'[v])
      <4>1. 1 \in 1..1 /\ Increasing(rank, SumoRoutes[r])
        BY DEF Upward
      <4> QED  BY <3>3, <4>1 DEF CameBy
    <3>5. Departed(app[v], sumo[v])'
      BY <1>4, <2>2, <3>3, StartKeeps DEF RoutingInv, VehicleInv
    <3>6. app'[v].edgeIds[1] = app'[v].current /\ app'[v].current \in Edges
      BY <3>2, <3>3, <3>5 DEF Departed
    <3>7. rank[app'[v].edgeIds[1]] <= rank[app'[v].current]
      BY <3>6 DEF Upward
    <3> QED  BY <3>2, <3>4, <3>7 DEF StartIsPast
  <2> QED  BY <2>1, <2>2
<1>5. ASSUME NEW u \in Vehicles, SimulationRun(u)
      PROVE  /\ sumo'[v].state = "driving" => CameBy(rank, app'[v], sumo'[v])
             /\ sumo'[v].state # "waiting" => StartIsPast(rank, app'[v])
  <2>1. CASE u # v
    <3>1. RunResult(u)
      BY <1>5, RunStep
    <3>2. app'[v] = app[v] /\ sumo'[v] = sumo[v]
      BY <2>1, <3>1 DEF RunResult, RoutingInv, TypeOK
    <3> QED  BY <1>1, <3>2
  <2>2. CASE u = v
    <3>1. sumo[v].state = "driving" /\ app[v].id \in Alternatives
      BY <1>5, <2>2, RunStarts DEF FollowInv
    <3>2. RunOrdered(rank, v)
      BY <1>1, <1>5, <2>2, <3>1, RunKeepsOrder
    <3> QED  BY <3>2 DEF RunOrdered
  <2> QED  BY <2>1, <2>2
<1> QED  BY <1>2, <1>3, <1>4, <1>5 DEF Next

\* The report a run makes of the edge it sees the vehicle has left.
NewReport(v) ==
    [vehicle |-> v, edge |-> app[v].current,
     entered |-> Noticed(v).entered[app[v].current], left |-> Noticed(v).left[app[v].current]]

\* It is about an edge the vehicle entered before now and left now.
LEMMA NewReportFields ==
    ASSUME RoutingInv, NEW v \in Vehicles, SimulationRun(v), EdgeChanged(app[v], GetVehicleEdge(v))
    PROVE  /\ NewReport(v).vehicle = v /\ NewReport(v).edge = app[v].current
           /\ NewReport(v).entered < NewReport(v).left
           /\ Noticed(v).current # app[v].current
<1>1. EdgeNoticed(app[v], GetVehicleEdge(v), Noticed(v))
  BY RunStarts, NewEdgeFields DEF Noticed, Departed
<1>2. app[v].current # GetVehicleEdge(v)
  BY DEF EdgeChanged
<1>3. /\ app[v] \in Apps /\ app[v].current \in Edges /\ GetVehicleEdge(v) \in Edges
      /\ InThePast(app[v])
  BY RunStarts DEF Departed
<1>4. /\ Noticed(v).entered[app[v].current] = app[v].entered[app[v].current]
      /\ Noticed(v).left[app[v].current] = now
  BY <1>1, <1>2, <1>3 DEF EdgeNoticed, Apps
<1>5. app[v].entered[app[v].current] < now
  BY <1>3 DEF InThePast
<1>6. Noticed(v).current # app[v].current
  BY <1>1, <1>2 DEF EdgeNoticed
<1> QED  BY <1>4, <1>5, <1>6 DEF NewReport

\* One step keeps the order of the reports.
LEMMA ReportOrderStep ==
    ASSUME RoutingInv, RoutesMeet, FollowInv, NEW rank, Upward(rank), ~keepsPassed,
           VehicleOrder(rank), ReportOrder(rank), [Next]_vars
    PROVE  ReportOrder(rank)'
<1>1. \A x \in edgeReports : /\ x.vehicle \in Vehicles /\ x.edge \in Edges
                             /\ sumo[x.vehicle].state # "waiting"
                             /\ x.entered < x.left
                             /\ rank[x.edge] < rank[app[x.vehicle].current]
  BY DEF ReportOrder, RoutingInv, TypeOK
<1>2. \A x, y \in edgeReports : x.vehicle = y.vehicle /\ x.edge = y.edge => x = y
  BY DEF ReportOrder
<1>3. CASE UNCHANGED vars
  BY <1>1, <1>2, <1>3 DEF vars, tis, ReportOrder
<1>4. CASE SumoStep
  <2>1. app' = app /\ edgeReports' = edgeReports
    BY <1>4 DEF SumoStep, tis
  <2>2. \A v \in Vehicles : sumo[v].state # "waiting" => sumo'[v].state # "waiting"
    BY <1>4, SumoStepMoves
  <2> QED  BY <1>1, <1>2, <2>1, <2>2 DEF ReportOrder
<1>5. ASSUME NEW u \in Vehicles, StartApplication(u) PROVE ReportOrder(rank)'
  <2>1. edgeReports' = edgeReports
    BY <1>5 DEF StartApplication
  <2>2. /\ sumo[u].state = "waiting"
        /\ \A v \in Vehicles : v # u => app'[v] = app[v] /\ sumo'[v] = sumo[v]
    BY <1>5, Started
  <2>3. \A x \in edgeReports : app'[x.vehicle] = app[x.vehicle] /\ sumo'[x.vehicle] = sumo[x.vehicle]
    BY <1>1, <2>2
  <2> QED  BY <1>1, <1>2, <2>1, <2>3 DEF ReportOrder
<1>6. ASSUME NEW u \in Vehicles, SimulationRun(u) PROVE ReportOrder(rank)'
  <2>1. RunResult(u)
    BY <1>6, RunStep
  <2>2. /\ \A v \in Vehicles : v # u => app'[v] = app[v] /\ sumo'[v] = sumo[v]
        /\ sumo'[u].state # "waiting"
    BY <2>1 DEF RunResult, RoutingInv, TypeOK
  <2>3. /\ sumo[u].state = "driving" /\ app[u].id \in Alternatives
        /\ CameBy(rank, app[u], sumo[u]) /\ StartIsPast(rank, app[u])
    BY <1>6, RunStarts DEF FollowInv, VehicleOrder
  <2>4. RunOrdered(rank, u) /\ NoticedOrder(rank, app[u], Noticed(u), sumo[u])
    BY <1>6, <2>3, RunKeepsOrder, NoticedAbove
  <2>5. /\ app'[u].current = Noticed(u).current
        /\ Noticed(u).current # app[u].current => rank[app[u].current] < rank[app'[u].current]
    BY <2>4 DEF RunOrdered, NoticedOrder
  <2>6. /\ rank \in [Edges -> Nat] /\ app[u].current \in Edges /\ app'[u].current \in Edges
    BY <1>6, <2>1, RunStarts DEF Upward, Departed, RunResult
  <2>7. ASSUME NEW x \in edgeReports
        PROVE  sumo'[x.vehicle].state # "waiting" /\ rank[x.edge] < rank[app'[x.vehicle].current]
    <3>1. CASE x.vehicle # u
      BY <1>1, <2>2, <3>1
    <3>2. CASE x.vehicle = u
      <4>1. rank[x.edge] < rank[app[u].current] /\ rank[x.edge] \in Nat
        BY <1>1, <2>6, <3>2
      <4>2. rank[app[u].current] <= rank[app'[u].current]
        BY <2>5, <2>6
      <4>3. rank[app[u].current] \in Nat /\ rank[app'[u].current] \in Nat
        BY <2>6
      <4>4. rank[x.edge] < rank[app'[u].current]
        BY <4>1, <4>2, <4>3
      <4> QED  BY <2>2, <3>2, <4>4
    <3> QED  BY <3>1, <3>2
  <2>8. CASE ~EdgeChanged(app[u], GetVehicleEdge(u))
    <3>1. edgeReports' = edgeReports
      BY <1>6, <2>8 DEF SimulationRun
    <3> QED  BY <1>1, <1>2, <2>7, <3>1 DEF ReportOrder
  <2>9. CASE EdgeChanged(app[u], GetVehicleEdge(u))
    <3> DEFINE new == NewReport(u)
    <3>1. edgeReports' = edgeReports \cup {new}
      BY <1>6, <2>9 DEF SimulationRun, NewReport, Noticed
    <3>2. /\ new.vehicle = u /\ new.edge = app[u].current /\ new.entered < new.left
          /\ Noticed(u).current # app[u].current
      BY <1>6, <2>9, NewReportFields
    <3> HIDE DEF new
    <3>3. sumo'[new.vehicle].state # "waiting" /\ rank[new.edge] < rank[app'[new.vehicle].current]
      BY <2>2, <2>5, <3>2
    <3>4. ASSUME NEW x \in edgeReports, x.vehicle = u PROVE x.edge # app[u].current
      <4>1. rank[x.edge] < rank[app[u].current] /\ rank[app[u].current] \in Nat
        BY <1>1, <2>6, <3>4
      <4> QED  BY <4>1
    <3>5. \A x \in edgeReports' : /\ sumo'[x.vehicle].state # "waiting"
                                  /\ x.entered < x.left
                                  /\ rank[x.edge] < rank[app'[x.vehicle].current]
      BY <1>1, <2>7, <3>1, <3>2, <3>3
    <3>6. \A x, y \in edgeReports' : x.vehicle = y.vehicle /\ x.edge = y.edge => x = y
      BY <1>2, <3>1, <3>2, <3>4
    <3> QED  BY <3>5, <3>6 DEF ReportOrder
  <2> QED  BY <2>8, <2>9
<1> QED  BY <1>3, <1>4, <1>5, <1>6 DEF Next

\* In a network whose alternatives all pass the decision edges and lead
\* nowhere twice, vehicles notice their edges in order and take their decision
\* after the start.
THEOREM OrderInvHolds ==
    ASSUME RoutesMeet, NEW rank, Upward(rank)
    PROVE  Spec => [](RoutingInv /\ FollowInv /\ OrderInv(rank))
<1>1. Init => FollowInv /\ OrderInv(rank)
  <2> SUFFICES ASSUME Init
               PROVE  (\A v \in Vehicles : sumo[v].state = "waiting") /\ edgeReports = {}
    BY DEF FollowInv, OrderInv, VehicleOrder, ReportOrder
  <2> QED  BY DEF Init
<1>2. RoutingInv /\ FollowInv /\ OrderInv(rank) /\ [Next]_vars => FollowInv' /\ OrderInv(rank)'
  <2> SUFFICES ASSUME RoutingInv, FollowInv, OrderInv(rank), [Next]_vars
               PROVE  FollowInv' /\ OrderInv(rank)'
    OBVIOUS
  <2>1. keepsPassed' = keepsPassed
    BY DEF Next, SumoStep, StartApplication, SimulationRun, vars
  <2>2. CASE keepsPassed
    BY <2>1, <2>2, FollowStep DEF OrderInv
  <2>3. CASE ~keepsPassed
    <3>1. VehicleOrder(rank)' /\ ReportOrder(rank)'
      BY <2>3, VehicleOrderStep, ReportOrderStep DEF OrderInv
    <3> QED  BY <3>1, FollowStep DEF OrderInv
  <2> QED  BY <2>2, <2>3
<1> QED  BY RoutingInvHolds, <1>1, <1>2, PTL DEF Spec

\* In such a network, with a SUMO that lists a changed route from the edge the
\* vehicle is on, every vehicle that took its decision has reported its travel
\* time as soon as it was seen on a notification edge.
THEOREM DecidedReportsHolds ==
    ASSUME RoutesMeet, NEW rank, Upward(rank)
    PROVE  Spec => []DecidedReports
<1>1. RoutingInv /\ OrderInv(rank) => DecidedReports
  <2> SUFFICES ASSUME RoutingInv, OrderInv(rank), ~keepsPassed, NEW v \in Vehicles,
                      app[v].decisionTaken, app[v].current \in NotificationEdges
               PROVE  app[v].notificationSent
    BY DEF DecidedReports
  <2>1. VehicleInv(v)
    BY DEF RoutingInv
  <2>2. sumo[v].state # "waiting"
    BY <2>1, NewAppFields, Zenon DEF VehicleInv
  <2>3. OnTime(app[v]) /\ ReportDone(app[v])
    BY <2>1, <2>2 DEF OrderInv, VehicleOrder, StartIsPast, VehicleInv
  <2> QED  BY <2>3 DEF ReportDone
<1> QED  BY OrderInvHolds, <1>1, PTL

\* In such a network and with such a SUMO no vehicle reports an edge twice, and
\* the reported time on the edge is positive.
THEOREM ReportedOnceHolds ==
    ASSUME RoutesMeet, NEW rank, Upward(rank)
    PROVE  Spec => []ReportedOnce
<1>1. OrderInv(rank) => ReportedOnce
  BY DEF OrderInv, ReportOrder, ReportedOnce
<1> QED  BY OrderInvHolds, <1>1, PTL

-----------------------------------------------------------------------------
(* What getEvent draws *)

\* getEvent draws the event in whose stretch the draw falls: the events
\* before it add up to no more than the draw, with it they add up to more.
LEMMA EventOfStretch ==
    ASSUME NEW D \in SUBSET Nat, IsFiniteSet(D), NEW p \in [D -> Nat], NEW r \in D,
           NEW draw \in 0..(SumOn(p, D) - 1)
    PROVE  getEvent(p, draw, SumOn(p, D)) = r <=>
              /\ SumOn(p, {q \in D : q < r}) <= draw
              /\ draw < SumOn(p, {q \in D : q <= r})
<1> DEFINE whole == SumOn(p, D)
           upTo(e) == SumOn(p, {q \in D : q <= e})
           before(e) == SumOn(p, {q \in D : q < e})
           hit == {e \in D : whole > 0 /\ draw < upTo(e)}
<1>1. \A e \in D : p[e] \in Nat /\ p[e] \in Int
  OBVIOUS
<1>2. \A A \in SUBSET D : SumOn(p, A) \in Int
  BY <1>1, SumOnInt
<1>3. whole \in Int /\ draw \in Int /\ 0 <= draw /\ draw < whole
  BY <1>2
<1>4. \A e \in D : upTo(e) \in Int /\ before(e) \in Int
  BY <1>2
<1>5. getEvent(p, draw, whole) = IF hit = {} THEN Max(D) ELSE Min(hit)
  <2>1. \A e \in D : upTo(e) = SumFunction([q \in {d \in DOMAIN p : d <= e} |-> p[q]])
    BY DEF SumOn
  <2>2. DOMAIN p = D /\ D # {}
    OBVIOUS
  <2>3. hit = {e \in DOMAIN p : whole > 0
                  /\ draw < SumFunction([q \in {d \in DOMAIN p : d <= e} |-> p[q]])}
    <3> HIDE DEF whole, upTo
    <3> QED  BY <2>1, <2>2
  <2> HIDE DEF hit
  <2> QED  BY <2>2, <2>3 DEF getEvent
<1>6. ASSUME NEW e \in D, NEW d \in D, e < d PROVE upTo(e) <= before(d)
  <2>1. \A q \in D : q <= e => q < d
    <3>1. e \in Nat /\ d \in Nat /\ \A q \in D : q \in Nat
      OBVIOUS
    <3> QED  BY <1>6, <3>1
  <2>2. {q \in D : q <= e} \in SUBSET {q \in D : q < d} /\ {q \in D : q < d} \in SUBSET D
    BY <2>1
  <2> QED  BY <1>1, <2>2, SumOnSubset
<1>7. hit # {}
  <2>1. Max(D) \in D /\ \A q \in D : q <= Max(D)
    BY MaxOfNats
  <2>2. {q \in D : q <= Max(D)} = D
    BY <2>1
  <2>3. upTo(Max(D)) = whole
    BY <2>2
  <2> HIDE DEF whole, upTo
  <2> QED  BY <1>3, <2>1, <2>3
<1>8. hit \subseteq Nat
  OBVIOUS
<1>9. Min(hit) \in hit /\ \A e \in hit : Min(hit) <= e
  <2> HIDE DEF hit
  <2> QED  BY <1>7, <1>8, MinOfNats
<1>10. ASSUME before(r) <= draw, draw < upTo(r) PROVE Min(hit) = r
  <2>1. r \in hit
    BY <1>3, <1>10
  <2>2. Min(hit) \in D /\ draw < upTo(Min(hit)) /\ Min(hit) <= r
    BY <1>9, <2>1
  <2>3. CASE Min(hit) < r
    <3> DEFINE m == Min(hit)
    <3>1. upTo(m) <= before(r)
      BY <1>6, <2>2, <2>3
    <3>2. m \in D /\ draw < upTo(m)
      BY <2>2
    <3> HIDE DEF m, upTo, before
    <3> QED  BY <1>3, <1>4, <1>10, <3>1, <3>2
  <2>4. Min(hit) \in Nat /\ r \in Nat
    BY <2>2
  <2> HIDE DEF upTo, before, hit
  <2> QED  BY <2>2, <2>3, <2>4
<1>11. ASSUME Min(hit) = r PROVE before(r) <= draw /\ draw < upTo(r)
  <2>1. draw < upTo(r)
    BY <1>9, <1>11
  <2> DEFINE lower == {q \in D : q < r}
  <2>2. CASE lower = {}
    <3>1. before(r) = 0
      BY <2>2, SumOnEmpty
    <3> QED  BY <1>3, <2>1, <3>1
  <2>3. CASE lower # {}
    <3>1. lower \in SUBSET Nat /\ IsFiniteSet(lower)
      BY FS_Subset
    <3>2. Max(lower) \in lower /\ \A q \in lower : q <= Max(lower)
      <4> HIDE DEF lower
      <4> QED  BY <2>3, <3>1, MaxOfNats
    <3> DEFINE m == Max(lower)
    <3>3. m \in D /\ m < r /\ \A q \in D : q < r => q <= m
      BY <3>2
    <3> HIDE DEF m
    <3>4. {q \in D : q <= m} = lower
      <4>1. m \in Nat /\ r \in Nat /\ \A q \in D : q \in Nat
        BY <3>3
      <4>2. \A q \in D : q <= m <=> q < r
        BY <3>3, <4>1
      <4> QED  BY <4>2
    <3>5. upTo(m) = before(r)
      BY <3>4
    <3>6. m \notin hit
      <4> HIDE DEF hit
      <4> QED  BY <1>9, <1>11, <1>8, <3>3
    <3>7. ~(draw < upTo(m))
      BY <1>3, <3>3, <3>6
    <3> HIDE DEF upTo, before
    <3> QED  BY <1>3, <1>4, <2>1, <3>3, <3>5, <3>7
  <2> QED  BY <2>2, <2>3
<1> HIDE DEF hit, upTo, before
<1>12. getEvent(p, draw, whole) = r <=> before(r) <= draw /\ draw < upTo(r)
  BY <1>5, <1>7, <1>10, <1>11
<1> QED  BY <1>12 DEF before, upTo

\* Of the draws, as many lead to an event as its probability says.
LEMMA DrawsOfEvent ==
    ASSUME NEW D \in SUBSET Nat, IsFiniteSet(D), NEW p \in [D -> Nat], NEW r \in D
    PROVE  LET whole == SumOn(p, D)
           IN  p[r] = Cardinality({d \in 0..(whole - 1) : getEvent(p, d, whole) = r})
<1> DEFINE whole == SumOn(p, D)
           upTo == SumOn(p, {q \in D : q <= r})
           before == SumOn(p, {q \in D : q < r})
           drawn == {d \in 0..(whole - 1) : getEvent(p, d, whole) = r}
<1>1. \A e \in D : p[e] \in Nat /\ p[e] \in Int
  OBVIOUS
<1>2. whole \in Int /\ upTo \in Int /\ before \in Int
  <2>1. \A A \in SUBSET D : SumOn(p, A) \in Int
    BY <1>1, SumOnInt
  <2> QED  BY <2>1
<1>3. 0 <= before
  <2>1. {} \in SUBSET {q \in D : q < r} /\ {q \in D : q < r} \in SUBSET D
    OBVIOUS
  <2>2. SumOn(p, {}) <= before
    BY <1>1, <2>1, SumOnSubset
  <2> QED  BY <2>2, SumOnEmpty
<1>4. upTo <= whole
  <2>1. {q \in D : q <= r} \in SUBSET D /\ D \in SUBSET D
    OBVIOUS
  <2> QED  BY <1>1, <2>1, SumOnSubset
<1>5. upTo = p[r] + before
  BY <1>1, SumOnUpTo
<1>6. drawn = before..(upTo - 1)
  <2>1. \A d \in 0..(whole - 1) :
           getEvent(p, d, whole) = r <=> before <= d /\ d < upTo
    BY EventOfStretch
  <2> HIDE DEF whole, upTo, before
  <2>2. \A d \in before..(upTo - 1) : d \in 0..(whole - 1) /\ before <= d /\ d < upTo
    BY <1>2, <1>3, <1>4
  <2>3. \A d \in 0..(whole - 1) : before <= d /\ d < upTo => d \in before..(upTo - 1)
    BY <1>2
  <2> QED  BY <2>1, <2>2, <2>3
<1> HIDE DEF whole, upTo, before
<1>7. Cardinality(before..(upTo - 1)) = IF before > upTo - 1 THEN 0 ELSE upTo - 1 - before + 1
  BY <1>2, FS_Interval
<1>8. p[r] = Cardinality(drawn)
  <2> HIDE DEF drawn
  <2> QED  BY <1>1, <1>2, <1>5, <1>6, <1>7
<1> QED  BY <1>8 DEF whole

\* When every route has a cost, every route has a probability, and the
\* probabilities add up to one.
LEMMA ProbabilitiesAddUp ==
    ASSUME NEW D, IsFiniteSet(D), D # {}, NEW costs \in [D -> Nat \ {0}]
    PROVE  LET p == getProbabilities(costs)
           IN  /\ SumCost(costs) \in Nat
               /\ p = [r \in D |-> SumCost(costs) - costs[r]]
               /\ p \in [D -> Nat] /\ SumOn(p, D) = Whole(costs)
<1> DEFINE p == getProbabilities(costs)
           sum == SumCost(costs)
<1>1. \A r \in D : costs[r] \in Nat /\ costs[r] \in Int
  OBVIOUS
<1>2. sum = SumOn(costs, D)
  BY SumOnAll DEF SumCost
<1>3. sum \in Int
  BY <1>1, <1>2, SumOnInt
<1>4. ASSUME NEW r \in D PROVE costs[r] <= sum
  <2>1. sum = costs[r] + SumOn(costs, D \ {r})
    BY <1>1, <1>2, SumOnLaw
  <2>2. D \ {r} \in SUBSET D /\ {} \in SUBSET (D \ {r})
    OBVIOUS
  <2>3. SumOn(costs, {}) <= SumOn(costs, D \ {r})
    BY <1>1, <2>2, SumOnSubset
  <2>4. SumOn(costs, {}) = 0 /\ SumOn(costs, D \ {r}) \in Int
    BY <1>1, <2>2, SumOnEmpty, SumOnInt
  <2> HIDE DEF sum
  <2> QED  BY <1>1, <1>3, <2>1, <2>3, <2>4
<1>5. Positive(costs) = D
  BY DEF Positive
<1>6. p = [r \in D |-> sum - costs[r]]
  <2>1. p = [r \in D |-> IF costs[r] = 0 THEN Whole(costs) ELSE sum - costs[r]]
    BY <1>5 DEF getProbabilities
  <2> HIDE DEF p, sum
  <2> QED  BY <2>1
<1> HIDE DEF p, sum
<1>7. p \in [D -> Nat] /\ sum \in Nat
  BY <1>1, <1>3, <1>4, <1>6
<1>8. SumOn(p, D) = Cardinality(D) * sum - SumOn(costs, D)
  <2>1. \A r \in D : costs[r] \in Int /\ p[r] = sum - costs[r]
    BY <1>6
  <2> QED  BY <1>3, <2>1, SumOfRests
<1>9. SumOn(p, D) = Whole(costs)
  <2> DEFINE k == Cardinality(D)
  <2>1. k \in Int
    BY FS_CardinalityType
  <2>2. Whole(costs) = (k - 1) * sum
    BY <1>5 DEF Whole, sum
  <2> HIDE DEF k
  <2>3. (k - 1) * sum = k * sum - sum
    BY <1>3, <2>1
  <2> QED  BY <1>2, <1>8, <2>2, <2>3 DEF k
<1> QED  BY <1>6, <1>7, <1>9 DEF p, sum

\* Penalties multiply the cost of a route; they make no route free.
LEMMA PenalisedCosts ==
    ASSUME NEW costs \in [Alternatives -> Nat \ {0}], NEW home \in Alternatives, NEW start, NEW end
    PROVE  LET corr == AnalyseRouteCorrelation(home, start, end)
               pen == Penalised(costs, corr)
           IN  /\ pen \in [Alternatives -> Nat \ {0}]
               /\ \A r \in Alternatives : /\ corr[r] \in Nat
                                          /\ pen[r] = costs[r] + costs[r] * corr[r]
<1> DEFINE corr == AnalyseRouteCorrelation(home, start, end)
           pen == Penalised(costs, corr)
           common(r) == {i \in DOMAIN Routes[home] :
                            Routes[home][i] \in WithoutMargins(Routes[r], start, end)}
<1>1. DOMAIN corr = Alternatives
  BY DEF AnalyseRouteCorrelation
<1>2. ASSUME NEW r \in Alternatives PROVE corr[r] \in Nat
  <2>1. Routes[home] \in Seq(Edges)
    BY SumoRoutesAssumption
  <2>2. Len(Routes[home]) \in Nat /\ DOMAIN Routes[home] = 1..Len(Routes[home])
    BY <2>1, LenProperties
  <2>3. IsFiniteSet(DOMAIN Routes[home])
    <3>1. IsFiniteSet(1..Len(Routes[home]))
      <4>1. 1 \in Int /\ Len(Routes[home]) \in Int
        BY <2>2
      <4> QED  BY <4>1, FS_Interval
    <3> QED  BY <2>2, <3>1
  <2>4. IsFiniteSet(common(r))
    BY <2>3, FS_Subset
  <2>5. Cardinality(common(r)) \in Nat
    BY <2>4, FS_CardinalityType
  <2>6. corr[r] = IF r = home THEN 0 ELSE 2 * Cardinality(common(r))
    BY DEF AnalyseRouteCorrelation
  <2> HIDE DEF corr, common
  <2> QED  BY <2>5, <2>6
<1> HIDE DEF corr
<1>3. pen = [r \in Alternatives |-> costs[r] + costs[r] * corr[r]]
  BY <1>1 DEF Penalised
<1>4. ASSUME NEW r \in Alternatives PROVE costs[r] + costs[r] * corr[r] \in Nat \ {0}
  <2>1. \A c \in Nat \ {0} : \A k \in Nat : c * k \in Nat
    OBVIOUS
  <2>2. costs[r] * corr[r] \in Nat
    BY <1>2, <2>1
  <2>3. \A c \in Nat \ {0} : \A k \in Nat : c + k \in Nat \ {0}
    OBVIOUS
  <2> QED  BY <2>2, <2>3
<1>5. pen \in [Alternatives -> Nat \ {0}]
  BY <1>3, <1>4
<1> QED  BY <1>2, <1>3, <1>5 DEF corr

-----------------------------------------------------------------------------
(* One decision on its own *)

\* What is known of the decision.
DecisionInv ==
    /\ routeCosts \in [Alternatives -> 1..MaxCost] /\ ownRoute \in Alternatives \cup {Unknown}
    /\ routingStrategy \in Strategies
    /\ ChoiceIsRoute

\* The invariant of the decision, with two alternatives or more.
THEOREM DecisionInvHolds ==
    ASSUME Cardinality(Alternatives) # 1
    PROVE  DecisionSpec => []DecisionInv
<1>1. DecisionInit => DecisionInv
  BY DEF DecisionInit, ChoiceIsRoute, DecisionInv
<1>2. DecisionInv /\ [Decide]_decisionVars => DecisionInv'
  <2> SUFFICES ASSUME DecisionInv, [Decide]_decisionVars PROVE DecisionInv'
    OBVIOUS
  <2>1. CASE Decide
    <3>1. PICK needed \in BOOLEAN, cheats \in BOOLEAN :
             routeChoice' \in ChooseRoute(routingStrategy, routeCosts,
                                 AnalyseRouteCorrelation(ownRoute, DecisionEdge, DestinationEdge),
                                 ownRoute, needed, cheats)
      BY <2>1 DEF Decide, Correlated
    <3>2. /\ routeCosts \in [Alternatives -> Nat \ {0}] /\ ownRoute \in Nat \ {0}
          /\ routingStrategy \in Strategies
      BY RoutesAssumption, DecisionAssumption DEF DecisionInv, Alternatives, NoRoute
    <3>3. routeChoice' \in Alternatives \cup Offered(routingStrategy, ownRoute)
      BY <3>1, <3>2, ChoiceIsOffered
    <3>4. routeChoice' \in Alternatives \cup (IF routingStrategy = "noRouting" THEN {ownRoute} ELSE {})
      BY <3>3 DEF Offered
    <3>5. UNCHANGED <<routeCosts, ownRoute, routingStrategy>>
      BY <2>1 DEF Decide
    <3> QED  BY <3>4, <3>5 DEF DecisionInv, ChoiceIsRoute
  <2>2. CASE UNCHANGED decisionVars
    BY <2>2 DEF decisionVars, DecisionInv, ChoiceIsRoute
  <2> QED  BY <2>1, <2>2
<1> QED  BY <1>1, <1>2, PTL DEF DecisionSpec

\* With two alternatives or more, ChooseRoute sends a vehicle on one of them,
\* whatever they cost, even if its own route is none of them; only noRouting
\* may keep it on that.
THEOREM ChoiceIsRouteHolds ==
    ASSUME Cardinality(Alternatives) # 1
    PROVE  DecisionSpec => []ChoiceIsRoute
<1>1. DecisionInv => ChoiceIsRoute
  BY DEF DecisionInv
<1> QED  BY DecisionInvHolds, <1>1, PTL

\* What is known of the routes' costs and of the vehicle's own route.
LEMMA DecisionFacts ==
    ASSUME DecisionInv
    PROVE  /\ routeCosts \in [Alternatives -> Nat \ {0}] /\ ownRoute \in Nat \ {0}
           /\ Alternatives \in SUBSET Nat /\ IsFiniteSet(Alternatives) /\ Alternatives # {}
BY RoutesAssumption, DecisionAssumption DEF DecisionInv, Alternatives, NoRoute

\* The draws of getEvent meet the probabilities of getProbabilities exactly,
\* whatever the costs, for a vehicle on one of its alternatives.
LEMMA DrawsMeetProbabilities ==
    ASSUME NEW costs \in [Alternatives -> Nat \ {0}], NEW r \in Alternatives
    PROVE  LET p == getProbabilities(costs)
           IN  p[r] = Cardinality({d \in 0..(Whole(costs) - 1) : getEvent(p, d, Whole(costs)) = r})
<1> DEFINE p == getProbabilities(costs)
<1>1. Alternatives \in SUBSET Nat /\ IsFiniteSet(Alternatives) /\ Alternatives # {}
  BY RoutesAssumption DEF Alternatives
<1>2. p \in [Alternatives -> Nat] /\ SumOn(p, Alternatives) = Whole(costs)
  BY <1>1, ProbabilitiesAddUp
<1> HIDE DEF p
<1>3. LET whole == SumOn(p, Alternatives)
      IN  p[r] = Cardinality({d \in 0..(whole - 1) : getEvent(p, d, whole) = r})
  BY <1>1, <1>2, DrawsOfEvent
<1> QED  BY <1>2, <1>3 DEF p

\* With two alternatives or more, each route is drawn exactly as often as its
\* probability says, with and without penalties.
THEOREM DrawnAsProbableHolds ==
    ASSUME Cardinality(Alternatives) # 1
    PROVE  DecisionSpec => []DrawnAsProbable
<1>1. DecisionInv => DrawnAsProbable
  <2> SUFFICES ASSUME DecisionInv,
                      NEW c \in {routeCosts, Penalised(routeCosts, Correlated)},
                      DOMAIN getProbabilities(c) # {}, NEW r \in DOMAIN c
               PROVE  getProbabilities(c)[r] =
                         Cardinality({d \in 0..(Whole(c) - 1) :
                                         getEvent(getProbabilities(c), d, Whole(c)) = r})
    BY DEF DrawnAsProbable
  <2>1. routeCosts \in [Alternatives -> Nat \ {0}] /\ ownRoute \in Nat \ {0}
    BY DecisionFacts
  <2>2. c \in [Alternatives -> Nat \ {0}]
    <3>1. CASE c = routeCosts
      BY <2>1, <3>1
    <3>2. CASE c = Penalised(routeCosts, Correlated)
      <4>1. ownRoute \in Alternatives
        BY <2>1, <3>2, NothingProbable DEF Correlated
      <4> QED  BY <2>1, <3>2, <4>1, PenalisedCosts DEF Correlated
    <3> QED  BY <3>1, <3>2
  <2>3. r \in Alternatives
    BY <2>2
  <2> QED  BY <2>2, <2>3, DrawsMeetProbabilities
<1> QED  BY DecisionInvHolds, <1>1, PTL

\* With two alternatives or more, penalties do not turn the order of two routes
\* round that have as many edges in common with the vehicle's own.
THEOREM CheaperIsLikelierHolds ==
    ASSUME Cardinality(Alternatives) # 1
    PROVE  DecisionSpec => []CheaperIsLikelier
<1>1. DecisionInv => CheaperIsLikelier
  <2> DEFINE pen == Penalised(routeCosts, Correlated)
             p == getProbabilities(pen)
  <2> SUFFICES ASSUME DecisionInv, NEW r \in DOMAIN p \cap DOMAIN Correlated \cap Alternatives,
                      NEW q \in DOMAIN p \cap DOMAIN Correlated \cap Alternatives,
                      Correlated[r] = Correlated[q], routeCosts[r] < routeCosts[q]
               PROVE  p[r] > p[q]
    BY DEF CheaperIsLikelier
  <2>1. /\ routeCosts \in [Alternatives -> Nat \ {0}] /\ ownRoute \in Nat \ {0}
        /\ IsFiniteSet(Alternatives) /\ Alternatives # {}
    BY DecisionFacts
  <2>2. ownRoute \in Alternatives
    BY <2>1, NothingProbable DEF Correlated
  <2>3. /\ pen \in [Alternatives -> Nat \ {0}] /\ Correlated[r] \in Nat
        /\ pen[r] = routeCosts[r] + routeCosts[r] * Correlated[r]
        /\ pen[q] = routeCosts[q] + routeCosts[q] * Correlated[q]
    <3>1. /\ pen \in [Alternatives -> Nat \ {0}]
          /\ \A x \in Alternatives : /\ Correlated[x] \in Nat
                                     /\ pen[x] = routeCosts[x] + routeCosts[x] * Correlated[x]
      <4> DEFINE corr == AnalyseRouteCorrelation(ownRoute, DecisionEdge, DestinationEdge)
      <4>1. LET pen1 == Penalised(routeCosts, corr)
            IN  /\ pen1 \in [Alternatives -> Nat \ {0}]
                /\ \A x \in Alternatives : /\ corr[x] \in Nat
                                           /\ pen1[x] = routeCosts[x] + routeCosts[x] * corr[x]
        BY <2>1, <2>2, PenalisedCosts
      <4> QED  BY <4>1 DEF Correlated
    <3> HIDE DEF pen
    <3> QED  BY <3>1
  <2> HIDE DEF pen
  <2>4. SumCost(pen) \in Nat /\ p = [x \in Alternatives |-> SumCost(pen) - pen[x]]
    BY <2>1, <2>3, ProbabilitiesAddUp
  <2> HIDE DEF p
  <2>5. pen[r] < pen[q]
    <3>1. \A c, d, k \in Nat : c < d => c + c * k < d + d * k
      OBVIOUS
    <3>2. routeCosts[r] \in Nat /\ routeCosts[q] \in Nat
      BY <2>1
    <3> QED  BY <2>3, <3>1, <3>2
  <2>6. pen[r] \in Nat /\ pen[q] \in Nat /\ p[r] = SumCost(pen) - pen[r] /\ p[q] = SumCost(pen) - pen[q]
    BY <2>3, <2>4
  <2> QED  BY <2>4, <2>5, <2>6
<1> QED  BY DecisionInvHolds, <1>1, PTL

=============================================================================
