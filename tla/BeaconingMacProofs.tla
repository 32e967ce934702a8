------------------------- MODULE BeaconingMacProofs -------------------------
(***************************************************************************)
(* Proofs about BeaconingMac: the types of its variables; that the         *)
(* application's neighbour list is the domain of the MAC's table; and that *)
(* a neighbour that keeps beaconing is dropped only after losses.          *)
(***************************************************************************)
EXTENDS BeaconingMac, TLAPS

\* The erase loop only takes addresses that are on arrayToErase.
LEMMA ErasedSubset ==
    ASSUME NEW gone
    PROVE  Erased(gone) \subseteq gone
BY DEF Erased

\* What ageing a table does: it drops the erased entries, keeps the others
\* and leaves every index between 0 and BeaconLost.
LEMMA DecreaseTable ==
    ASSUME NEW table,
           \A m \in DOMAIN table : table[m] \in 0..BeaconLost
    PROVE  /\ DOMAIN DecreaseBeaconCount(table) = DOMAIN table \ Erased(ArrayToErase(table))
           /\ \A m \in DOMAIN DecreaseBeaconCount(table) :
                 DecreaseBeaconCount(table)[m] \in 0..BeaconLost
<1>1. DOMAIN DecreaseBeaconCount(table) = DOMAIN table \ Erased(ArrayToErase(table))
  BY DEF DecreaseBeaconCount
<1>2. ASSUME NEW m \in DOMAIN DecreaseBeaconCount(table)
      PROVE  DecreaseBeaconCount(table)[m] \in 0..BeaconLost
  <2>1. m \in DOMAIN table /\ table[m] \in 0..BeaconLost
    BY <1>1
  <2>2. DecreaseBeaconCount(table)[m] =
            IF m \in ArrayToErase(table) THEN 0 ELSE table[m] - 1
    BY <1>1, <1>2 DEF DecreaseBeaconCount
  <2>3. CASE m \in ArrayToErase(table)
    BY <2>2, <2>3, BeaconLostAssumption
  <2>4. CASE m \notin ArrayToErase(table)
    <3>1. table[m] # 0
      BY <2>1, <2>4 DEF ArrayToErase
    <3> QED  BY <2>1, <2>2, <2>4, <3>1, BeaconLostAssumption
  <2> QED  BY <2>3, <2>4
<1> QED  BY <1>1, <1>2

\* Every step keeps the variables in their types: indexes stay within
\* 0..BeaconLost, timers within one interval and the start jitter.
THEOREM TypeCorrect == Spec => []TypeOK
<1> USE NodesAssumption, BeaconLostAssumption, IntervalAssumption,
        AppNodesAssumption, LinksAssumption
<1>1. Init => TypeOK
  BY DEF Init, TypeOK
<1>2. ASSUME TypeOK, [Next]_vars PROVE TypeOK'
  <2>1. ASSUME NEW n \in Nodes, Construct(n) PROVE TypeOK'
    BY <1>2, <2>1 DEF TypeOK, Construct, FirstDelays
  <2>2. ASSUME NEW n \in Nodes, SendOneBeacon(n) PROVE TypeOK'
    <3> DEFINE old == neighborList[n]
               new == DecreaseBeaconCount(old)
    <3>1. \A m \in DOMAIN old : old[m] \in 0..BeaconLost
      BY <1>2 DEF TypeOK
    <3>2. /\ DOMAIN new \subseteq DOMAIN old
          /\ \A m \in DOMAIN new : new[m] \in 0..BeaconLost
      BY <3>1, DecreaseTable
    <3> HIDE DEF new
    <3>3. neighborList' = [neighborList EXCEPT ![n] = new]
      BY <2>2 DEF SendOneBeacon, new
    <3>4. /\ DOMAIN neighborList' = Nodes
          /\ \A k \in Nodes :
                /\ DOMAIN neighborList'[k] \subseteq Nodes \ {k}
                /\ \A m \in DOMAIN neighborList'[k] : neighborList'[k][m] \in 0..BeaconLost
      BY <1>2, <3>2, <3>3 DEF TypeOK
    <3>5. appNeighbors' \in [Nodes -> SUBSET Nodes]
      BY <1>2, <2>2 DEF TypeOK, SendOneBeacon, NeighborLost
    <3>6. beaconEvent' \in [Nodes -> 0..(Interval + 1)] /\ air' \subseteq Links
      BY <1>2, <2>2 DEF TypeOK, SendOneBeacon
    <3>7. /\ mac' \in [Nodes -> {"absent", "up", "stopped"}]
          /\ lostRun' \in [Nodes -> [Nodes -> 0..BeaconLost]]
      BY <1>2, <2>2 DEF TypeOK, SendOneBeacon
    <3> QED  BY <3>4, <3>5, <3>6, <3>7 DEF TypeOK
  <2>3. ASSUME NEW n \in Nodes, StopBeaconing(n) PROVE TypeOK'
    BY <1>2, <2>3 DEF TypeOK, StopBeaconing
  <2>4. ASSUME NEW n \in Nodes, NEW m \in Nodes, ProcessBeacon(n, m) PROVE TypeOK'
    <3> DEFINE old == neighborList[n]
               new == [a \in DOMAIN old \cup {m} |-> IF a = m THEN BeaconLost ELSE old[a]]
    <3>1. m # n
      BY <1>2, <2>4 DEF TypeOK, ProcessBeacon
    <3>2. /\ DOMAIN new \subseteq Nodes \ {n}
          /\ \A a \in DOMAIN new : new[a] \in 0..BeaconLost
      BY <1>2, <3>1 DEF TypeOK
    <3>3. neighborList' = [neighborList EXCEPT ![n] = new]
      BY <2>4 DEF ProcessBeacon
    <3> HIDE DEF new
    <3>4. /\ DOMAIN neighborList' = Nodes
          /\ \A k \in Nodes :
                /\ DOMAIN neighborList'[k] \subseteq Nodes \ {k}
                /\ \A a \in DOMAIN neighborList'[k] : neighborList'[k][a] \in 0..BeaconLost
      BY <1>2, <3>2, <3>3 DEF TypeOK
    <3>5. appNeighbors' \in [Nodes -> SUBSET Nodes]
      BY <1>2, <2>4 DEF TypeOK, ProcessBeacon, NewNeighborFound
    <3>6. lostRun' \in [Nodes -> [Nodes -> 0..BeaconLost]]
      BY <1>2, <2>4 DEF TypeOK, ProcessBeacon
    <3> QED  BY <1>2, <2>4, <3>4, <3>5, <3>6 DEF TypeOK, ProcessBeacon
  <2>5. ASSUME NEW n \in Nodes, NEW m \in Nodes, LoseBeacon(n, m) PROVE TypeOK'
    BY <1>2, <2>5 DEF TypeOK, LoseBeacon
  <2>6. CASE Tick
    BY <1>2, <2>6 DEF TypeOK, Tick
  <2>7. CASE UNCHANGED vars
    BY <1>2, <2>7 DEF TypeOK, vars
  <2> QED  BY <1>2, <2>1, <2>2, <2>3, <2>4, <2>5, <2>6, <2>7 DEF Next
<1> QED  BY <1>1, <1>2, PTL DEF Spec

\* The application's list agrees with the MAC's table in every reachable
\* state: DecreaseBeaconCount fires NeighborLost for exactly the addresses
\* it erases, however few the erase loop takes, and ProcessBeacon fires
\* NewNeighbor for every address it enters.
THEOREM AppMirrorsMacHolds == Spec => []AppMirrorsMac
<1> USE NodesAssumption, AppNodesAssumption
<1>1. Init => AppMirrorsMac
  BY DEF Init, AppMirrorsMac
<1>2. ASSUME TypeOK, AppMirrorsMac, [Next]_vars PROVE AppMirrorsMac'
  <2>1. ASSUME NEW n \in Nodes, SendOneBeacon(n) PROVE AppMirrorsMac'
    <3> DEFINE lost == Erased(ArrayToErase(neighborList[n]))
    <3>1. DOMAIN neighborList'[n] = DOMAIN neighborList[n] \ lost
      BY <1>2, <2>1, DecreaseTable DEF TypeOK, SendOneBeacon
    <3>2. \A k \in Nodes \ {n} : neighborList'[k] = neighborList[k]
      BY <1>2, <2>1 DEF TypeOK, SendOneBeacon
    <3>3. /\ appNeighbors'[n] = IF n \in AppNodes THEN appNeighbors[n] \ lost
                                                  ELSE appNeighbors[n]
          /\ \A k \in Nodes \ {n} : appNeighbors'[k] = appNeighbors[k]
      BY <1>2, <2>1 DEF TypeOK, SendOneBeacon, NeighborLost
    <3> HIDE DEF lost
    <3> QED  BY <1>2, <3>1, <3>2, <3>3 DEF AppMirrorsMac
  <2>2. ASSUME NEW n \in Nodes, NEW m \in Nodes, ProcessBeacon(n, m) PROVE AppMirrorsMac'
    <3>1. /\ DOMAIN neighborList'[n] = DOMAIN neighborList[n] \cup {m}
          /\ \A k \in Nodes \ {n} : neighborList'[k] = neighborList[k]
      BY <1>2, <2>2 DEF TypeOK, ProcessBeacon
    <3>2. /\ appNeighbors'[n] = IF n \in AppNodes THEN appNeighbors[n] \cup {m}
                                                  ELSE appNeighbors[n]
          /\ \A k \in Nodes \ {n} : appNeighbors'[k] = appNeighbors[k]
      BY <1>2, <2>2 DEF TypeOK, ProcessBeacon, NewNeighborFound
    <3> QED  BY <1>2, <3>1, <3>2 DEF AppMirrorsMac
  <2>3. CASE UNCHANGED <<neighborList, appNeighbors>>
    BY <1>2, <2>3 DEF AppMirrorsMac
  <2>4. ASSUME NEW n \in Nodes, Construct(n) \/ StopBeaconing(n) PROVE AppMirrorsMac'
    BY <2>3, <2>4 DEF Construct, StopBeaconing
  <2>5. ASSUME NEW n \in Nodes, NEW m \in Nodes, LoseBeacon(n, m) PROVE AppMirrorsMac'
    BY <2>3, <2>5 DEF LoseBeacon
  <2> QED
    BY <1>2, <2>1, <2>2, <2>3, <2>4, <2>5 DEF Next, Tick, vars
<1> QED  BY <1>1, <1>2, TypeCorrect, PTL DEF Spec

-----------------------------------------------------------------------------
(***************************************************************************)
(* Why a table never drops a node early.  An entry loses one index point   *)
(* per interval of its owner's clock; in the same time the neighbour sends *)
(* one beacon, which is heard, lost, or still in the air.  The two clocks  *)
(* are not in phase, so the invariant that says this, AgeWithin, counts in *)
(* ticks and lets them differ by what their timers show.                   *)
(***************************************************************************)

\* An entry is about a node in range; both ends of it have been started.
EntriesKnown ==
    \A n, m \in Nodes :
        m \in DOMAIN neighborList[n] =>
            <<m, n>> \in Links /\ mac[n] # "absent" /\ mac[m] # "absent"

\* The clock stands still while a beacon is in the air: its sender has not
\* begun to wait for its next one.
FramesFresh ==
    \A n, m \in Nodes :
        <<m, n>> \in air =>
            beaconEvent[m] = Interval /\ mac[n] # "absent" /\ mac[m] # "absent"

\* The beacons of m that n has not heard since it last heard one, those lost
\* and the one still in the air.
Unheard(n, m) == lostRun[n][m] + (IF <<m, n>> \in air THEN 1 ELSE 0)

\* The ticks by which the entry of m has aged are covered by its beacons.
Covered(n, m) ==
    \/ lostRun[n][m] = BeaconLost
    \/ (BeaconLost - neighborList[n][m]) * Interval
          <= (Unheard(n, m) + 1) * Interval + beaconEvent[n] - beaconEvent[m]

AgeWithin ==
    \A n, m \in Nodes :
        (mac[n] = "up" /\ mac[m] = "up" /\ m \in DOMAIN neighborList[n]) => Covered(n, m)

AgeInv == EntriesKnown /\ FramesFresh /\ AgeWithin

\* One interval more.
LEMMA NextMultiple ==
    ASSUME NEW a \in Int, NEW c \in Int
    PROVE  (a + 1) * c = a * c + c
OBVIOUS

\* An aged entry that is still in the table has lost one index point, or
\* none if it was at 0 and the erase loop left it out.
LEMMA AgedEntry ==
    ASSUME NEW table, NEW m \in DOMAIN DecreaseBeaconCount(table),
           \A a \in DOMAIN table : table[a] \in 0..BeaconLost
    PROVE  /\ m \in DOMAIN table
           /\ \/ DecreaseBeaconCount(table)[m] = table[m]
              \/ DecreaseBeaconCount(table)[m] = table[m] - 1
<1>1. DOMAIN DecreaseBeaconCount(table) = DOMAIN table \ Erased(ArrayToErase(table))
  BY DEF DecreaseBeaconCount
<1>2. m \in DOMAIN table
  BY <1>1
<1>3. DecreaseBeaconCount(table)[m] =
          IF m \in ArrayToErase(table) THEN 0 ELSE table[m] - 1
  BY <1>1 DEF DecreaseBeaconCount
<1>4. CASE m \in ArrayToErase(table)
  BY <1>2, <1>3, <1>4 DEF ArrayToErase
<1>5. CASE m \notin ArrayToErase(table)
  BY <1>2, <1>3, <1>5
<1> QED  BY <1>4, <1>5

\* Every step keeps the three parts of the invariant.
LEMMA AgeStep ==
    ASSUME TypeOK, AgeInv, [Next]_vars
    PROVE  AgeInv'
<1> USE BeaconLostAssumption, IntervalAssumption, LinksAssumption
<1>1. ASSUME NEW k \in Nodes, Construct(k) PROVE AgeInv'
  <2>1. /\ UNCHANGED <<neighborList, air, lostRun>>
        /\ mac[k] = "absent"
        /\ \A n \in Nodes \ {k} : mac'[n] = mac[n] /\ beaconEvent'[n] = beaconEvent[n]
        /\ mac'[k] = "up"
    BY <1>1 DEF Construct, TypeOK
  <2>2. /\ \A n \in Nodes : k \notin DOMAIN neighborList[n] /\ <<k, n>> \notin air
        /\ \A m \in Nodes : m \notin DOMAIN neighborList[k] /\ <<m, k>> \notin air
    BY <2>1 DEF AgeInv, EntriesKnown, FramesFresh
  <2>3. EntriesKnown' /\ FramesFresh'
    BY <2>1, <2>2 DEF AgeInv, EntriesKnown, FramesFresh
  <2>4. ASSUME NEW n \in Nodes, NEW m \in Nodes, mac'[n] = "up", mac'[m] = "up",
               m \in DOMAIN neighborList'[n]
        PROVE  Covered(n, m)'
    <3>1. n # k /\ m # k /\ Covered(n, m)
      BY <2>1, <2>2, <2>4 DEF AgeInv, AgeWithin
    <3> QED  BY <2>1, <3>1 DEF Covered, Unheard
  <2> QED  BY <2>3, <2>4 DEF AgeInv, AgeWithin
<1>2. ASSUME NEW k \in Nodes, SendOneBeacon(k) PROVE AgeInv'
  <2> DEFINE new == DecreaseBeaconCount(neighborList[k])
  <2>1. /\ mac[k] = "up" /\ beaconEvent[k] = 0
        /\ UNCHANGED <<mac, lostRun>>
        /\ beaconEvent'[k] = Interval
        /\ \A n \in Nodes \ {k} : /\ beaconEvent'[n] = beaconEvent[n]
                                  /\ neighborList'[n] = neighborList[n]
        /\ neighborList'[k] = new
        /\ air' = air \cup {l \in Links : l[1] = k /\ mac[l[2]] = "up"}
    BY <1>2 DEF SendOneBeacon, TypeOK
  <2>2. \A m \in DOMAIN new : /\ m \in DOMAIN neighborList[k]
                             /\ \/ new[m] = neighborList[k][m]
                                \/ new[m] = neighborList[k][m] - 1
    BY AgedEntry DEF TypeOK
  <2> HIDE DEF new
  <2>3. EntriesKnown'
    BY <2>1, <2>2 DEF AgeInv, EntriesKnown
  <2>4. FramesFresh'
    BY <2>1 DEF AgeInv, FramesFresh, TypeOK
  <2>5. ASSUME NEW n \in Nodes, NEW m \in Nodes, mac'[n] = "up", mac'[m] = "up",
               m \in DOMAIN neighborList'[n]
        PROVE  Covered(n, m)'
    <3>1. /\ m \in DOMAIN neighborList[n] /\ m # n
          /\ <<m, n>> \in Links
          /\ Covered(n, m)
      BY <2>1, <2>2, <2>5 DEF AgeInv, AgeWithin, EntriesKnown, TypeOK
    <3>2. /\ neighborList[n][m] \in Int /\ lostRun[n][m] \in Int
          /\ beaconEvent[n] \in Int /\ beaconEvent[m] \in Int
      BY <3>1 DEF TypeOK
    <3>3. CASE m = k
      <4>1. <<m, n>> \notin air /\ <<m, n>> \in air'
        BY <2>1, <2>5, <3>1, <3>3 DEF AgeInv, FramesFresh
      <4>2. Unheard(n, m) = lostRun[n][m] /\ Unheard(n, m)' = lostRun[n][m] + 1
        BY <2>1, <3>2, <4>1 DEF Unheard
      <4>3. ((lostRun[n][m] + 1) + 1) * Interval = (lostRun[n][m] + 1) * Interval + Interval
        BY <3>2, NextMultiple
      <4>4. /\ neighborList'[n] = neighborList[n] /\ beaconEvent'[n] = beaconEvent[n]
            /\ beaconEvent[m] = 0 /\ beaconEvent'[m] = Interval
        BY <2>1, <3>1, <3>3
      <4> QED  BY <2>1, <3>1, <3>2, <4>2, <4>3, <4>4 DEF Covered
    <3>4. CASE n = k
      <4>1. <<m, n>> \in air' <=> <<m, n>> \in air
        BY <2>1, <3>1, <3>4
      <4>2. Unheard(n, m)' = Unheard(n, m) /\ Unheard(n, m) \in Int
        BY <2>1, <3>2, <4>1 DEF Unheard
      <4>3. \/ neighborList'[n][m] = neighborList[n][m]
            \/ neighborList'[n][m] = neighborList[n][m] - 1
        BY <2>1, <2>2, <2>5, <3>4
      <4>4. ((BeaconLost - neighborList[n][m]) + 1) * Interval
              = (BeaconLost - neighborList[n][m]) * Interval + Interval
        BY <3>2, NextMultiple
      <4>5. BeaconLost - (neighborList[n][m] - 1) = (BeaconLost - neighborList[n][m]) + 1
        BY <3>2
      <4>6. (BeaconLost - neighborList'[n][m]) * Interval
              <= (BeaconLost - neighborList[n][m]) * Interval + Interval
        BY <3>2, <4>3, <4>4, <4>5
      <4>7. beaconEvent[n] = 0 /\ beaconEvent'[n] = Interval /\ beaconEvent'[m] = beaconEvent[m]
        BY <2>1, <3>1, <3>4
      <4>8. (Unheard(n, m) + 1) * Interval \in Int
        BY <4>2
      <4>9. neighborList'[n][m] \in Int
        BY <3>2, <4>3
      <4> QED  BY <2>1, <3>1, <3>2, <4>2, <4>6, <4>7, <4>8, <4>9 DEF Covered
    <3>5. CASE m # k /\ n # k
      <4>1. <<m, n>> \in air' <=> <<m, n>> \in air
        BY <2>1, <3>5
      <4> QED  BY <2>1, <3>1, <3>5, <4>1 DEF Covered, Unheard
    <3> QED  BY <3>3, <3>4, <3>5
  <2> QED  BY <2>3, <2>4, <2>5 DEF AgeInv, AgeWithin
<1>3. ASSUME NEW k \in Nodes, StopBeaconing(k) PROVE AgeInv'
  <2>1. /\ UNCHANGED <<neighborList, air, lostRun, beaconEvent>>
        /\ \A n \in Nodes \ {k} : mac'[n] = mac[n]
        /\ mac'[k] = "stopped"
    BY <1>3 DEF StopBeaconing, TypeOK
  <2>2. EntriesKnown' /\ FramesFresh'
    BY <2>1 DEF AgeInv, EntriesKnown, FramesFresh
  <2>3. AgeWithin'
    BY <2>1 DEF AgeInv, AgeWithin, Covered, Unheard
  <2> QED  BY <2>2, <2>3 DEF AgeInv
<1>4. ASSUME NEW i \in Nodes, NEW j \in Nodes, ProcessBeacon(i, j) PROVE AgeInv'
  <2>1. /\ <<j, i>> \in air /\ air' = air \ {<<j, i>>}
        /\ UNCHANGED <<mac, beaconEvent>>
        /\ DOMAIN neighborList'[i] = DOMAIN neighborList[i] \cup {j}
        /\ neighborList'[i][j] = BeaconLost
        /\ \A a \in DOMAIN neighborList[i] \ {j} : neighborList'[i][a] = neighborList[i][a]
        /\ \A n \in Nodes \ {i} : neighborList'[n] = neighborList[n]
        /\ lostRun'[i][j] = 0
        /\ \A n, m \in Nodes : n # i \/ m # j => lostRun'[n][m] = lostRun[n][m]
    BY <1>4 DEF ProcessBeacon, TypeOK
  <2>2. EntriesKnown' /\ FramesFresh'
    <3>1. <<j, i>> \in Links /\ mac[i] # "absent" /\ mac[j] # "absent"
      BY <2>1 DEF AgeInv, FramesFresh, TypeOK
    <3>2. ASSUME NEW n \in Nodes, NEW m \in Nodes, m \in DOMAIN neighborList'[n]
          PROVE  m \in DOMAIN neighborList[n] \/ (m = j /\ n = i)
      BY <2>1, <3>2
    <3>3. EntriesKnown'
      BY <2>1, <3>1, <3>2 DEF AgeInv, EntriesKnown
    <3>4. FramesFresh'
      BY <2>1 DEF AgeInv, FramesFresh
    <3> QED  BY <3>3, <3>4
  <2>3. ASSUME NEW n \in Nodes, NEW m \in Nodes, mac'[n] = "up", mac'[m] = "up",
               m \in DOMAIN neighborList'[n]
        PROVE  Covered(n, m)'
    <3>1. CASE n = i /\ m = j
      <4>1. beaconEvent[m] = Interval /\ beaconEvent[n] \in Nat
        BY <2>1, <3>1 DEF AgeInv, FramesFresh, TypeOK
      <4>2. Unheard(n, m)' = 0 /\ neighborList'[n][m] = BeaconLost
        BY <2>1, <3>1 DEF Unheard
      <4> QED  BY <2>1, <4>1, <4>2 DEF Covered
    <3>2. CASE n # i \/ m # j
      <4>1. /\ <<m, n>> \in air' <=> <<m, n>> \in air
            /\ lostRun'[n][m] = lostRun[n][m]
            /\ m \in DOMAIN neighborList[n]
            /\ neighborList'[n][m] = neighborList[n][m]
        BY <2>1, <2>3, <3>2
      <4>2. Covered(n, m)
        BY <2>1, <2>3, <4>1 DEF AgeInv, AgeWithin
      <4> QED  BY <2>1, <4>1, <4>2 DEF Covered, Unheard
    <3> QED  BY <3>1, <3>2
  <2> QED  BY <2>2, <2>3 DEF AgeInv, AgeWithin
<1>5. ASSUME NEW i \in Nodes, NEW j \in Nodes, LoseBeacon(i, j) PROVE AgeInv'
  <2>1. /\ <<j, i>> \in air /\ air' = air \ {<<j, i>>}
        /\ UNCHANGED <<mac, beaconEvent, neighborList>>
        /\ lostRun'[i][j] = IF lostRun[i][j] < BeaconLost THEN lostRun[i][j] + 1 ELSE lostRun[i][j]
        /\ \A n, m \in Nodes : n # i \/ m # j => lostRun'[n][m] = lostRun[n][m]
    BY <1>5 DEF LoseBeacon, TypeOK
  <2>2. EntriesKnown' /\ FramesFresh'
    BY <2>1 DEF AgeInv, EntriesKnown, FramesFresh
  <2>3. ASSUME NEW n \in Nodes, NEW m \in Nodes, mac'[n] = "up", mac'[m] = "up",
               m \in DOMAIN neighborList'[n]
        PROVE  Covered(n, m)'
    <3>1. Covered(n, m) /\ lostRun[n][m] \in 0..BeaconLost
      BY <2>1, <2>3 DEF AgeInv, AgeWithin, TypeOK
    <3>2. CASE n = i /\ m = j
      <4>1. CASE lostRun[n][m] = BeaconLost
        BY <2>1, <3>1, <3>2, <4>1 DEF Covered
      <4>2. CASE lostRun[n][m] # BeaconLost
        <5>1. lostRun'[n][m] = lostRun[n][m] + 1
          BY <2>1, <3>1, <3>2, <4>2
        <5>2. Unheard(n, m)' = Unheard(n, m)
          BY <2>1, <3>1, <3>2, <5>1 DEF Unheard
        <5> QED  BY <2>1, <3>1, <4>2, <5>2 DEF Covered
      <4> QED  BY <4>1, <4>2
    <3>3. CASE n # i \/ m # j
      BY <2>1, <3>1, <3>3 DEF Covered, Unheard
    <3> QED  BY <3>2, <3>3
  <2> QED  BY <2>2, <2>3 DEF AgeInv, AgeWithin
<1>6. CASE Tick
  <2>1. /\ air = {}
        /\ UNCHANGED <<mac, neighborList, air, lostRun>>
        /\ \A n \in Nodes : mac[n] = "up" => beaconEvent'[n] = beaconEvent[n] - 1
    BY <1>6 DEF Tick
  <2>2. EntriesKnown' /\ FramesFresh'
    BY <2>1 DEF AgeInv, EntriesKnown, FramesFresh
  <2>3. ASSUME NEW n \in Nodes, NEW m \in Nodes, mac'[n] = "up", mac'[m] = "up",
               m \in DOMAIN neighborList'[n]
        PROVE  Covered(n, m)'
    <3>1. Covered(n, m)
      BY <2>1, <2>3 DEF AgeInv, AgeWithin
    <3>2. /\ beaconEvent'[n] = beaconEvent[n] - 1 /\ beaconEvent'[m] = beaconEvent[m] - 1
          /\ beaconEvent[n] \in Int /\ beaconEvent[m] \in Int /\ lostRun[n][m] \in Int
      BY <2>1, <2>3 DEF TypeOK
    <3>3. Unheard(n, m)' = Unheard(n, m) /\ (Unheard(n, m) + 1) * Interval \in Int
      BY <2>1, <3>2 DEF Unheard
    <3> QED  BY <2>1, <3>1, <3>2, <3>3 DEF Covered
  <2> QED  BY <2>2, <2>3 DEF AgeInv, AgeWithin
<1>7. CASE UNCHANGED vars
  BY <1>7 DEF vars, AgeInv, EntriesKnown, FramesFresh, AgeWithin, Covered, Unheard
<1> QED  BY <1>1, <1>2, <1>3, <1>4, <1>5, <1>6, <1>7 DEF Next

\* The beacons of every node cover the age of every entry, always.
THEOREM AgeInvHolds == Spec => []AgeInv
<1>1. Init => AgeInv
  BY DEF Init, AgeInv, EntriesKnown, FramesFresh, AgeWithin
<1> QED  BY <1>1, AgeStep, TypeCorrect, PTL DEF Spec

\* A table drops a node that still beacons only after the medium lost at
\* least BeaconLost - 1 of its beacons in a row, whatever the phase of the
\* two nodes' timers, the start jitter and the order of simultaneous events:
\* SendOneBeacon erases an entry only when it finds it at index 0.
THEOREM DropNeedsLossesHolds == Spec => DropNeedsLosses
<1> USE BeaconLostAssumption, IntervalAssumption
<1> DEFINE Dropped(n, m) == m \in DOMAIN neighborList[n] \ DOMAIN neighborList'[n]
<1>1. ASSUME TypeOK, AgeInv, [Next]_vars,
             NEW n \in Nodes, NEW m \in Nodes, Dropped(n, m), mac[m] = "up"
      PROVE  lostRun[n][m] >= BeaconLost - 1
  <2>1. SendOneBeacon(n)
    <3>1. ASSUME NEW k \in Nodes, SendOneBeacon(k) PROVE k = n
      BY <1>1, <3>1 DEF SendOneBeacon, TypeOK
    <3>2. ASSUME NEW i \in Nodes, NEW j \in Nodes, ProcessBeacon(i, j) PROVE FALSE
      BY <1>1, <3>2 DEF ProcessBeacon, TypeOK
    <3>3. neighborList' # neighborList
      BY <1>1
    <3> QED  BY <1>1, <3>1, <3>2, <3>3 DEF Next, vars, Construct, StopBeaconing, LoseBeacon, Tick
  <2>2. neighborList[n][m] = 0
    <3>1. DOMAIN neighborList'[n] = DOMAIN neighborList[n] \ Erased(ArrayToErase(neighborList[n]))
      BY <1>1, <2>1, DecreaseTable DEF SendOneBeacon, TypeOK
    <3>2. m \in ArrayToErase(neighborList[n])
      BY <1>1, <3>1, ErasedSubset
    <3> QED  BY <3>2 DEF ArrayToErase
  <2>3. Covered(n, m) /\ beaconEvent[n] = 0
    BY <1>1, <2>1 DEF AgeInv, AgeWithin, SendOneBeacon
  <2>4. /\ lostRun[n][m] \in Nat /\ beaconEvent[m] \in Nat
        /\ <<m, n>> \in air => beaconEvent[m] = Interval
    BY <1>1 DEF AgeInv, FramesFresh, TypeOK
  <2>5. lostRun[n][m] = BeaconLost \/ BeaconLost * Interval <= (lostRun[n][m] + 1) * Interval
    <3>1. CASE <<m, n>> \in air
      <4>1. ((lostRun[n][m] + 1) + 1) * Interval = (lostRun[n][m] + 1) * Interval + Interval
        BY <2>4, NextMultiple
      <4> QED  BY <2>2, <2>3, <2>4, <3>1, <4>1 DEF Covered, Unheard
    <3>2. CASE <<m, n>> \notin air
      BY <2>2, <2>3, <2>4, <3>2 DEF Covered, Unheard
    <3> QED  BY <3>1, <3>2
  <2>6. BeaconLost * Interval <= (lostRun[n][m] + 1) * Interval => BeaconLost <= lostRun[n][m] + 1
    BY <2>4
  <2> QED  BY <2>4, <2>5, <2>6
<1>2. TypeOK /\ AgeInv /\ [Next]_vars =>
        [\A n, m \in Nodes :
            (/\ m \in DOMAIN neighborList[n] \ DOMAIN neighborList'[n]
             /\ mac[m] = "up") => lostRun[n][m] >= BeaconLost - 1]_vars
  BY <1>1
<1> QED  BY <1>2, TypeCorrect, AgeInvHolds, PTL DEF Spec, DropNeedsLosses

=============================================================================
