---------------------------- MODULE MCRouteChoice -----------------------------
EXTENDS RouteDecision
\* Kirchberg in small: two of the three routes share an edge.
ThreeRoutes == (1 :> <<1, 2, 3, 9>>) @@ (2 :> <<1, 2, 4, 5, 9>>) @@ (3 :> <<1, 2, 6, 5, 9>>)
=============================================================================
