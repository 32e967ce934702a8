--------------------------- MODULE NetworkPresence ---------------------------
(***************************************************************************)
(* What the coupling promises about vehicles on the radio channel: a       *)
(* vehicle joins at most once, leaves only after it joined and never comes *)
(* back, and when the simulation is over the channel is empty.             *)
(***************************************************************************)
CONSTANT Vehicles

VARIABLES
    present,   \* vehicles on the channel
    left,      \* vehicles that were on the channel before
    over       \* the simulation loop has ended

vars == <<present, left, over>>

Init == present = {} /\ left = {} /\ over = FALSE

\* Vehicles that may still join.
Fresh == Vehicles \ (present \cup left)

\* A step of the traffic simulation: some join, some leave.
Move(in, out) ==
    /\ ~over
    /\ in \subseteq Fresh /\ out \subseteq present
    /\ present' = (present \ out) \cup in
    /\ left' = left \cup out
    /\ UNCHANGED over

\* The last step: everyone leaves.
Close ==
    /\ ~over
    /\ present' = {}
    /\ left' = left \cup present
    /\ over' = TRUE

Next ==
    \/ \E in, out \in SUBSET Vehicles : Move(in, out)
    \/ Close

Spec == Init /\ [][Next]_vars

=============================================================================
