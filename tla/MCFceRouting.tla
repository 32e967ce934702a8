----------------------------- MODULE MCFceRouting -----------------------------
EXTENDS FceRouting, TLC
\* A decision edge, 2, from which two routes lead to the notification edge 5.
TwoRoutes == (1 :> <<1, 2, 3, 5>>) @@ (2 :> <<1, 2, 4, 5>>)
ASSUME NetworkAssumption == RoutesMeet /\ Upward([e \in Edges |-> e])
Symmetry == Permutations(Vehicles)
=============================================================================
