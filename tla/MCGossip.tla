------------------------------- MODULE MCGossip -------------------------------
EXTENDS TrafficInformation, TLC
\* One edge to leave and one to arrive on.
TwoEdges == <<1, 2>>
Symmetry == Permutations(Vehicles)
\* Everyone hears everyone.
AllLinks == {l \in Vehicles \X Vehicles : l[1] # l[2]}
=============================================================================
