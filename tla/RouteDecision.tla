---------------------------- MODULE RouteDecision -----------------------------
(***************************************************************************)
(* One decision of one vehicle at DecisionEdge on its way to               *)
(* DestinationEdge, for all costs up to MaxCost.  Its own route is one of  *)
(* the alternatives, or Unknown to them.                                   *)
(***************************************************************************)
EXTENDS RouteChoice

CONSTANTS MaxCost, Unknown, DecisionEdge, DestinationEdge
VARIABLES routeCosts, ownRoute, routingStrategy, routeChoice
decisionVars == <<routeCosts, ownRoute, routingStrategy, routeChoice>>

ASSUME DecisionAssumption == MaxCost \in Nat /\ Unknown \in Nat \ {NoRoute}

Correlated == AnalyseRouteCorrelation(ownRoute, DecisionEdge, DestinationEdge)

NotChosen == -1

DecisionInit ==
    /\ routeCosts \in [Alternatives -> 1..MaxCost]
    /\ ownRoute \in Alternatives \cup {Unknown}
    /\ routingStrategy \in Strategies
    /\ routeChoice = NotChosen

Decide ==
    /\ routeChoice = NotChosen
    /\ \E needed, cheats \in BOOLEAN :
          routeChoice' \in ChooseRoute(routingStrategy, routeCosts, Correlated, ownRoute, needed, cheats)
    /\ UNCHANGED <<routeCosts, ownRoute, routingStrategy>>

DecisionSpec == DecisionInit /\ [][Decide]_decisionVars

-----------------------------------------------------------------------------

\* A vehicle is sent on one of its alternatives, never on the empty route that
\* Vehicle::reroute cannot follow, even if its own route is none of them and
\* AnalyseRouteCorrelation adds it to the costs; only noRouting may name it.
ChoiceIsRoute ==
    routeChoice \in Alternatives \cup {NotChosen}
                    \cup (IF routingStrategy = "noRouting" THEN {ownRoute} ELSE {})

\* getEvent draws each route exactly as often as getProbabilities says, and
\* the probabilities add up to one, with and without penalties.
DrawnAsProbable ==
    \A c \in {routeCosts, Penalised(routeCosts, Correlated)} :
        LET p == getProbabilities(c)
            whole == Whole(c)
        IN  DOMAIN p # {} =>
                \A r \in DOMAIN c :
                    p[r] = Cardinality({d \in 0..(whole - 1) : getEvent(p, d, whole) = r})

\* Penalties do not turn the order round: of two routes that share equally many
\* edges with the vehicle's own, the cheaper one is the likelier.
CheaperIsLikelier ==
    LET p == getProbabilities(Penalised(routeCosts, Correlated))
    IN  \A r, q \in DOMAIN p \cap DOMAIN Correlated \cap Alternatives :
            (Correlated[r] = Correlated[q] /\ routeCosts[r] < routeCosts[q]) => p[r] > p[q]

=============================================================================
