CONSTANTS
    Folders = {d1, d2}
    Routes <- MCRoutes
    RouteOrder <- MCRouteOrder
    StrategyOrder <- MCStrategyOrder
    strategynames <- MCstrategynames
    Arrivals <- MCArrivals
    NumStats = 1
    MaxLaunches = 2
SPECIFICATION Spec
INVARIANTS TypeOK FreshUnlessSilent OwnGroupAverages FailuresExplained OnlyLastRouteMixed
SYMMETRY MCSymmetry
