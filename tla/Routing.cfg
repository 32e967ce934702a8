SPECIFICATION Spec
CONSTANTS
  Vehicles = {a, b}
  Routes <- TwoRoutes
  SumoRoutes <- TwoRoutes
  DecisionEdges = {2}
  NotificationEdges = {5}
  UsedStrategies = {"noRouting", "shortest", "probabilistic-simple", "probabilistic", "hybrid", "mnl"}
  Costs = {1, 2}
  MaxHop = 2
  MaxTime = 6
INVARIANTS TypeOK CountMatches FollowsChoice DecidedReports ReportedOnce
PROPERTY TravelTimeWithin
SYMMETRY Symmetry
CHECK_DEADLOCK FALSE
