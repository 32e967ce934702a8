----------------------------- MODULE RouteChoice ------------------------------
(***************************************************************************)
(* How a vehicle chooses one of its alternative routes from their costs:   *)
(* TIS::chooseMinCostRoute, getProbabilities and getEvent, and             *)
(* FceApplication::ChooseRoute on top of them.  Route identifiers are      *)
(* positive numbers, in the order of the std::map that holds the routes;   *)
(* NoRoute stands for the empty string, which comes first in that order.   *)
(***************************************************************************)
EXTENDS Integers, Sequences, FiniteSets, FiniteSetsExt, SequencesExt

CONSTANT Routes     \* the alternative routes: identifier -> sequence of edges

ASSUME RoutesAssumption ==
    DOMAIN Routes \subseteq Nat \ {0} /\ DOMAIN Routes # {} /\ IsFiniteSet(DOMAIN Routes)

NoRoute == 0
Alternatives == DOMAIN Routes
Strategies == {"noRouting", "shortest", "probabilistic-simple", "probabilistic", "hybrid", "mnl"}

-----------------------------------------------------------------------------
(* TIS *)

\* chooseMinCostRoute: the first of the cheapest routes, none if it is free.
chooseMinCostRoute(costs) ==
    LET cheapest == Min({r \in DOMAIN costs : \A q \in DOMAIN costs : costs[r] <= costs[q]})
    IN  IF costs[cheapest] = 0 THEN NoRoute ELSE cheapest

\* The cost of r plus the correlation penalty; a route that is only in
\* correlated is added to the costs with cost 0.
Penalised(costs, correlated) ==
    [r \in DOMAIN costs \cup DOMAIN correlated |->
        IF r \notin DOMAIN costs THEN 0
        ELSE IF r \notin DOMAIN correlated THEN costs[r]
        ELSE costs[r] + costs[r] * correlated[r]]

SumCost(costs) == SumFunction(costs)
Positive(costs) == {r \in DOMAIN costs : costs[r] > 0}

\* The denominator of the probabilities of getProbabilities.
Whole(costs) == (Cardinality(Positive(costs)) - 1) * SumCost(costs)

\* Faulty variant: the probability grows with the cost.
getProportional(costs) ==
    [r \in DOMAIN costs |-> (Cardinality(DOMAIN costs) - 1) * costs[r]]

\* Faulty variant: a division that is not rounded to 0.
getProbabilitiesUnrounded(costs) ==
    LET free == DOMAIN costs \ Positive(costs)
    IN  [r \in IF free = {} THEN DOMAIN costs ELSE free |->
            IF costs[r] = 0 THEN Whole(costs) ELSE SumCost(costs) - costs[r]]

\* getProbabilities: the probabilities of the routes that have one, as
\* multiples of 1 / Whole(costs).  1 / costsSize is an integer division, so
\* that the routes with no cost have probability 1 next to one route with a
\* cost and 0 next to several; the routes with a cost have then none.
getProbabilities(costs) ==
    LET size == Cardinality(Positive(costs))
        taken == IF Positive(costs) = DOMAIN costs THEN DOMAIN costs
                 ELSE IF size = 1 THEN DOMAIN costs \ Positive(costs) ELSE {}
    IN  [r \in taken |-> IF costs[r] = 0 THEN Whole(costs) ELSE SumCost(costs) - costs[r]]

\* Faulty variant: the draw is compared with each probability on its own.
getEventAlone(p, draw, whole) ==
    LET hit == {r \in DOMAIN p : draw < p[r]}
    IN  IF DOMAIN p = {} THEN NoRoute ELSE IF hit = {} THEN Max(DOMAIN p) ELSE Min(hit)

\* getEvent: the first event at which the probabilities add up to more than
\* the draw, the last one if none does (so also for a single route, whose
\* probability is 0 / 0), the empty string if there is no event.  A draw is a
\* number of 1 / whole, in the middle of an interval of that width.
getEvent(p, draw, whole) ==
    LET upTo(r) == SumFunction([q \in {d \in DOMAIN p : d <= r} |-> p[q]])
        hit == {r \in DOMAIN p : whole > 0 /\ draw < upTo(r)}
    IN  IF DOMAIN p = {} THEN NoRoute ELSE IF hit = {} THEN Max(DOMAIN p) ELSE Min(hit)

Draws(costs) == 0 .. Max({0, Whole(costs) - 1})

\* Everything getEvent(getProbabilities(costs)) can return.
Events(costs) == {getEvent(getProbabilities(costs), d, Whole(costs)) : d \in Draws(costs)}

-----------------------------------------------------------------------------
(* FceApplication *)

\* The edges of a route after start and before end (containsEdgeExcludedMargins).
WithoutMargins(route, start, end) ==
    LET after(i) == \E j \in 1..(i - 1) : route[j] = start /\ \A k \in (j + 1)..i : route[k] # end
    IN  {route[i] : i \in {i \in DOMAIN route : after(i)}}

\* analyseCorrelation and AnalyseRouteCorrelation: twice the number of edges
\* the vehicle's own route has in common with each other alternative.
AnalyseRouteCorrelation(home, start, end) ==
    [r \in {home} \cup (IF home \in Alternatives THEN Alternatives ELSE {}) |->
        IF r = home THEN 0
        ELSE 2 * Cardinality({i \in DOMAIN Routes[home] :
                                Routes[home][i] \in WithoutMargins(Routes[r], start, end)})]

\* The routes the strategy alone can lead to; needed is neededProbabilistic.
StrategyChoices(strategy, costs, correlated, home, needed) ==
    LET shortest == chooseMinCostRoute(costs)
        drawn(events) == {IF e = NoRoute THEN shortest ELSE e : e \in events}
    IN  CASE strategy = "probabilistic-simple" -> drawn(Events(costs))
          [] strategy = "probabilistic" \/ (strategy = "hybrid" /\ needed) ->
                drawn(Events(Penalised(costs, correlated)))
          [] strategy = "noRouting" -> {home}
          [] strategy = "mnl" -> Alternatives
          [] OTHER -> {shortest}

\* ChooseRoute.  A vehicle whose choice has a name after that of the shortest
\* route may cheat and take the shortest.
ChooseRoute(strategy, costs, correlated, home, needed, cheats) ==
    LET shortest == chooseMinCostRoute(costs)
    IN  {IF cheats /\ r > shortest THEN shortest ELSE r :
            r \in StrategyChoices(strategy, costs, correlated, home, needed)}

=============================================================================
