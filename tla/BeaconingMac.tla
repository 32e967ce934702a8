---------------------------- MODULE BeaconingMac ----------------------------
(***************************************************************************)
(* The beaconing MAC layer of OVNIS (BeaconingAdhocWifiMac) on a set of    *)
(* nodes that share a lossy medium, with the neighbour list each node's    *)
(* application keeps from the MAC's two trace sources (FceApplication).    *)
(*                                                                         *)
(* Every node sends a beacon each BEACON_INTERVAL.  Just before sending it *)
(* ages its table: an entry with a positive index is decremented, an entry *)
(* found at 0 is put on arrayToErase.  A beacon heard resets the sender's  *)
(* index to m_numberBeaconLost.                                            *)
(*                                                                         *)
(* Time is counted in ticks.  Frames are delivered or lost before the      *)
(* clock advances: medium access and propagation take milliseconds, a tick *)
(* stands for a fraction of BEACON_INTERVAL of at least 0.2 s.             *)
(***************************************************************************)
EXTENDS Integers, FiniteSets

CONSTANTS
    Nodes,        \* MAC addresses, numbers because std::map orders them
    BeaconLost,   \* attribute BeaconLost (m_numberBeaconLost), default 4
    Interval,     \* BEACON_INTERVAL in ticks
    AppNodes,     \* nodes on which StartApplications installs an application
    Links         \* pairs <<sender, receiver>> whose cells the channel joins

ASSUME NodesAssumption == Nodes \subseteq Nat /\ IsFiniteSet(Nodes)
ASSUME BeaconLostAssumption == BeaconLost \in Nat \ {0}
ASSUME IntervalAssumption == Interval \in Nat \ {0}
ASSUME AppNodesAssumption == AppNodes \subseteq Nodes
ASSUME LinksAssumption == Links \subseteq {l \in Nodes \X Nodes : l[1] # l[2]}

VARIABLES
    mac,           \* mac[n]: "absent", "up" (beaconing) or "stopped"
    beaconEvent,   \* ticks until m_beaconEvent of n fires
    neighborList,  \* neighborList[n]: address -> beacon index (std::map)
    appNeighbors,  \* FceApplication::m_neighborList of each node
    air,           \* frames in flight, pairs <<sender, receiver>>
    lostRun        \* history: beacons of m that n lost since it last heard m

vars == <<mac, beaconEvent, neighborList, appNeighbors, air, lostRun>>

FirstDelays == {Interval, Interval + 1}

TypeOK ==
    /\ mac \in [Nodes -> {"absent", "up", "stopped"}]
    /\ beaconEvent \in [Nodes -> 0..(Interval + 1)]
    /\ DOMAIN neighborList = Nodes
    /\ \A n \in Nodes : /\ DOMAIN neighborList[n] \subseteq Nodes \ {n}
                        /\ \A m \in DOMAIN neighborList[n] : neighborList[n][m] \in 0..BeaconLost
    /\ appNeighbors \in [Nodes -> SUBSET Nodes]
    /\ air \subseteq Links
    /\ lostRun \in [Nodes -> [Nodes -> 0..BeaconLost]]

Init ==
    /\ mac = [n \in Nodes |-> "absent"]
    /\ beaconEvent = [n \in Nodes |-> 0]
    /\ neighborList = [n \in Nodes |-> [m \in {} |-> 0]]
    /\ appNeighbors = [n \in Nodes |-> {}]
    /\ air = {}
    /\ lostRun = [n \in Nodes |-> [m \in Nodes |-> 0]]

(***************************************************************************)
(* The constructor schedules the first beacon one interval and a random    *)
(* 0.01 to 0.2 s ahead.  The application of a node of AppNodes connects to *)
(* NewNeighbor and NeighborLost in the same instant, before the node can   *)
(* hear anything.                                                          *)
(***************************************************************************)
Construct(n) ==
    /\ mac[n] = "absent"
    /\ mac' = [mac EXCEPT ![n] = "up"]
    /\ \E d \in FirstDelays : beaconEvent' = [beaconEvent EXCEPT ![n] = d]
    /\ UNCHANGED <<neighborList, appNeighbors, air, lostRun>>

-----------------------------------------------------------------------------
(* DecreaseBeaconCount *)

\* Faulty variant: an entry is given up one interval early.
EraseOneEarly(table) == {m \in DOMAIN table : table[m] <= 1}

\* arrayToErase of DecreaseBeaconCount: the entries found at index 0.
ArrayToErase(table) == {m \in DOMAIN table : table[m] = 0}

\* Faulty variant: the loop stops one iteration earlier (it < end).
ErasedOneLess(gone) ==
    {m \in gone : Cardinality({a \in gone : a > m}) < Cardinality(gone) \div 2}

\* The erase loop runs "for (it = begin; it <= end; it++)" and pops the back
\* of the vector each time, so that end() comes down as it goes up: of k
\* candidates, in increasing order of address, it takes the last k/2 + 1.
Erased(gone) ==
    {m \in gone : Cardinality({a \in gone : a > m}) < (Cardinality(gone) \div 2) + 1}

\* Faulty variant: the index is decremented without the test for 0.
DecreaseBelowZero(table) == [m \in DOMAIN table |-> table[m] - 1]

DecreaseBeaconCount(table) ==
    LET gone == ArrayToErase(table)
    IN  [m \in DOMAIN table \ Erased(gone) |->
            IF m \in gone THEN 0 ELSE table[m] - 1]

\* Faulty variant: only one of the erased neighbours is reported.
ReportOneLost(n, lost) ==
    IF n \in AppNodes /\ lost # {}
    THEN appNeighbors[n] \ {CHOOSE m \in lost : TRUE}
    ELSE appNeighbors[n]

\* FceApplication::NeighborLost, once for every erased address.
NeighborLost(n, lost) ==
    IF n \in AppNodes THEN appNeighbors[n] \ lost ELSE appNeighbors[n]

\* FceApplication::NewNeighborFound, fired for every beacon heard.
NewNeighborFound(n, m) ==
    IF n \in AppNodes THEN appNeighbors[n] \cup {m} ELSE appNeighbors[n]

(***************************************************************************)
(* SendOneBeacon: age the table, report the erased neighbours, queue a     *)
(* broadcast beacon, schedule the next one.  Simultaneous events run in a  *)
(* fixed order (here the order of addresses): the one that runs first also *)
(* reschedules first.                                                      *)
(***************************************************************************)
SendOneBeacon(n) ==
    /\ mac[n] = "up"
    /\ beaconEvent[n] = 0
    /\ \A m \in Nodes : m < n /\ mac[m] = "up" => beaconEvent[m] # 0
    /\ neighborList' = [neighborList EXCEPT ![n] = DecreaseBeaconCount(@)]
    /\ appNeighbors' = [appNeighbors EXCEPT
                           ![n] = NeighborLost(n, Erased(ArrayToErase(neighborList[n])))]
    /\ air' = air \cup {l \in Links : l[1] = n /\ mac[l[2]] = "up"}
    /\ beaconEvent' = [beaconEvent EXCEPT ![n] = Interval]
    /\ UNCHANGED <<mac, lostRun>>

\* Receive and ProcessBeacon.  A node already taken off the channel still
\* receives the frames that were in flight towards it.
ProcessBeacon(n, m) ==
    /\ <<m, n>> \in air
    /\ air' = air \ {<<m, n>>}
    /\ neighborList' = [neighborList EXCEPT
                           ![n] = [a \in DOMAIN @ \cup {m} |-> IF a = m THEN BeaconLost ELSE @[a]]]
    /\ appNeighbors' = [appNeighbors EXCEPT ![n] = NewNeighborFound(n, m)]
    /\ lostRun' = [lostRun EXCEPT ![n][m] = 0]
    /\ UNCHANGED <<mac, beaconEvent>>

\* The medium loses the copy of a beacon of m that was on its way to n.
LoseBeacon(n, m) ==
    /\ <<m, n>> \in air
    /\ air' = air \ {<<m, n>>}
    /\ lostRun' = [lostRun EXCEPT ![n][m] = IF @ < BeaconLost THEN @ + 1 ELSE @]
    /\ UNCHANGED <<mac, beaconEvent, neighborList, appNeighbors>>

\* StopBeaconing cancels m_beaconEvent when the vehicle arrives.
StopBeaconing(n) ==
    /\ mac[n] = "up"
    /\ mac' = [mac EXCEPT ![n] = "stopped"]
    /\ UNCHANGED <<beaconEvent, neighborList, appNeighbors, air, lostRun>>

\* The simulation clock moves to the next tick once every event due is done.
Tick ==
    /\ air = {}
    /\ \E n \in Nodes : mac[n] = "up"
    /\ \A n \in Nodes : mac[n] = "up" => beaconEvent[n] > 0
    /\ beaconEvent' = [n \in Nodes |-> IF mac[n] = "up" THEN beaconEvent[n] - 1 ELSE beaconEvent[n]]
    /\ UNCHANGED <<mac, neighborList, appNeighbors, air, lostRun>>

Next ==
    \/ \E n \in Nodes : Construct(n) \/ SendOneBeacon(n) \/ StopBeaconing(n)
    \/ \E n, m \in Nodes : ProcessBeacon(n, m) \/ LoseBeacon(n, m)
    \/ Tick

\* Simulator::Run executes every scheduled event and the clock never stalls.
Fairness ==
    /\ WF_vars(Tick)
    /\ \A n \in Nodes : WF_vars(SendOneBeacon(n))
    /\ \A n, m \in Nodes : WF_vars(ProcessBeacon(n, m) \/ LoseBeacon(n, m))

Spec == Init /\ [][Next]_vars /\ Fairness

-----------------------------------------------------------------------------
(* Properties *)

\* FceApplication keeps its list only from the traces, yet it always agrees
\* with the MAC's table: no erased neighbour goes unreported.
AppMirrorsMac ==
    \A n \in Nodes : appNeighbors[n] = IF n \in AppNodes THEN DOMAIN neighborList[n] ELSE {}

\* A node that still beacons is dropped from a table only after the medium
\* lost at least BeaconLost - 1 of its beacons in a row.
DropNeedsLosses ==
    [][\A n, m \in Nodes :
          (/\ m \in DOMAIN neighborList[n] \ DOMAIN neighborList'[n]
           /\ mac[m] = "up") => lostRun[n][m] >= BeaconLost - 1]_vars

\* A vehicle that stopped beaconing is eventually out of the table of every
\* node in range that goes on beaconing, for good: SendOneBeacon keeps erasing.
StoppedIsForgotten ==
    \A l \in Links :
        [](mac[l[1]] = "stopped" =>
              <>[](mac[l[2]] = "stopped" \/ l[1] \notin DOMAIN neighborList[l[2]]))

=============================================================================
