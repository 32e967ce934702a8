-------------------------------- MODULE MCTrips --------------------------------
(***************************************************************************)
(* The scenario Highway: two routes, the two strategies that the averages  *)
(* know of and one that they do not.  A launch reports nothing, vehicles   *)
(* of one route and strategy, or of both routes with one, both or an       *)
(* unknown strategy, some of the routes or strategies with one vehicle.    *)
(***************************************************************************)
EXTENDS TripAnalysis

MCRoutes == {"bypass", "main"}
MCRouteOrder == <<"bypass", "main">>
MCStrategyOrder == <<"noRouting", "probabilistic", "shortest">>
MCstrategynames == {"shortest", "probabilistic"}
MCArrivals ==
    { <<{}, {}, {}>>,
      <<{"main"}, {"shortest"}, {}>>,
      <<{"bypass", "main"}, {"probabilistic"}, {"bypass"}>>,
      <<{"bypass", "main"}, {"probabilistic", "shortest"}, {}>>,
      <<{"bypass", "main"}, {"noRouting", "shortest"}, {"noRouting", "main"}>> }
MCSymmetry == Permutations(Folders)
=============================================================================
