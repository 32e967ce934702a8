----------------------------- MODULE OvnisProofs -----------------------------
(***************************************************************************)
(* Proofs about the coupling loop, for every set of vehicles, grid, stop   *)
(* time and set of positions: its lists, its nodes and the channel never   *)
(* get out of step, while the connection works it aborts only on the lists *)
(* of the step of the stop time, otherwise it leaves nothing behind, and   *)
(* it implements NetworkPresence.  What Add, Remove and updatePhy do to    *)
(* the grid is taken from OvnisWifiChannelProofs.                          *)
(***************************************************************************)
EXTENDS Ovnis, OvnisWifiChannelProofs

-----------------------------------------------------------------------------
(* What each function of class Ovnis makes of the fields of a fleet *)

\* CreateNetworkDevices, field by field.
LEMMA CreateFields ==
    ASSUME NEW f \in Fleets, NEW d
    PROVE  /\ CreateNetworkDevices(f, d).running = f.running
           /\ CreateNetworkDevices(f, d).connected = f.connected
           /\ CreateNetworkDevices(f, d).nodes = f.nodes \cup d
           /\ CreateNetworkDevices(f, d).beaconing = f.beaconing \cup d
           /\ CreateNetworkDevices(f, d).channel = Add(f.channel, d, f.pos)
           /\ CreateNetworkDevices(f, d).pos = f.pos
           /\ CreateNetworkDevices(f, d).app = f.app
BY Zenon DEF CreateNetworkDevices, Fleets

\* CreateNetworkDevices yields a fleet.
LEMMA CreateType ==
    ASSUME NEW f \in Fleets, NEW d \in SUBSET Vehicles, Add(f.channel, d, f.pos) \in Channels
    PROVE  CreateNetworkDevices(f, d) \in Fleets
BY Zenon DEF CreateNetworkDevices, Fleets

\* DestroyNetworkDevices, field by field.
LEMMA DestroyFields ==
    ASSUME NEW f \in Fleets, NEW a
    PROVE  /\ DestroyNetworkDevices(f, a).running = f.running
           /\ DestroyNetworkDevices(f, a).connected = f.connected
           /\ DestroyNetworkDevices(f, a).nodes = f.nodes
           /\ DestroyNetworkDevices(f, a).beaconing = f.beaconing \ (a \cap f.nodes)
           /\ DestroyNetworkDevices(f, a).channel = Remove(f.channel, a \cap f.nodes)
           /\ DestroyNetworkDevices(f, a).pos = f.pos
           /\ DestroyNetworkDevices(f, a).app = SetStopTime(f.app, (a \cap f.nodes) \cap f.connected)
BY Zenon DEF DestroyNetworkDevices, Fleets

\* DestroyNetworkDevices yields a fleet.
LEMMA DestroyType ==
    ASSUME NEW f \in Fleets, NEW a, Remove(f.channel, a \cap f.nodes) \in Channels,
           SetStopTime(f.app, (a \cap f.nodes) \cap f.connected)
               \in [Vehicles -> {"none", "starting", "running", "stopping", "stopped"}]
    PROVE  DestroyNetworkDevices(f, a) \in Fleets
BY Zenon DEF DestroyNetworkDevices, Fleets

\* Taking the vehicles of a out of runningVehicles, field by field.
LEMMA EraseFields ==
    ASSUME NEW f \in Fleets, NEW a
    PROVE  /\ [f EXCEPT !.running = @ \ a] \in Fleets
           /\ [f EXCEPT !.running = @ \ a].running = f.running \ a
           /\ [f EXCEPT !.running = @ \ a].connected = f.connected
           /\ [f EXCEPT !.running = @ \ a].nodes = f.nodes
           /\ [f EXCEPT !.running = @ \ a].beaconing = f.beaconing
           /\ [f EXCEPT !.running = @ \ a].channel = f.channel
           /\ [f EXCEPT !.running = @ \ a].pos = f.pos
           /\ [f EXCEPT !.running = @ \ a].app = f.app
BY Zenon DEF Fleets

\* The vehicles UpdateVehiclesPositions gives a position, and the positions
\* afterwards.
Placed(f, d, reported) ==
    {v \in (f.running \cup d) \cap f.nodes :
        connection /\ reported[v][1] > 0 /\ reported[v][2] > 0}

NewPos(f, d, reported) ==
    [v \in Vehicles |-> IF v \in Placed(f, d, reported) THEN reported[v] ELSE f.pos[v]]

\* UpdateVehiclesPositions, field by field.
LEMMA PositionsFields ==
    ASSUME NEW f \in Fleets, NEW d, NEW reported
    PROVE  /\ UpdateVehiclesPositions(f, d, reported).running = f.running
           /\ UpdateVehiclesPositions(f, d, reported).connected = f.connected
           /\ UpdateVehiclesPositions(f, d, reported).nodes = f.nodes
           /\ UpdateVehiclesPositions(f, d, reported).beaconing = f.beaconing
           /\ UpdateVehiclesPositions(f, d, reported).channel
                  = updatePhy(f.channel, Placed(f, d, reported), NewPos(f, d, reported))
           /\ UpdateVehiclesPositions(f, d, reported).pos = NewPos(f, d, reported)
           /\ UpdateVehiclesPositions(f, d, reported).app = f.app
BY Zenon DEF UpdateVehiclesPositions, Placed, NewPos, Fleets

\* UpdateVehiclesPositions yields a fleet.
LEMMA PositionsType ==
    ASSUME NEW f \in Fleets, NEW d, NEW reported,
           updatePhy(f.channel, Placed(f, d, reported), NewPos(f, d, reported)) \in Channels,
           NewPos(f, d, reported) \in [Vehicles -> Area]
    PROVE  UpdateVehiclesPositions(f, d, reported) \in Fleets
BY Zenon DEF UpdateVehiclesPositions, Placed, NewPos, Fleets

\* StartApplications, field by field.
LEMMA StartFields ==
    ASSUME NEW f \in Fleets, NEW vanet \in SUBSET Vehicles
    PROVE  /\ StartApplications(f, vanet) \in Fleets
           /\ StartApplications(f, vanet).running = f.running
           /\ StartApplications(f, vanet).connected = f.connected \cup vanet
           /\ StartApplications(f, vanet).nodes = f.nodes
           /\ StartApplications(f, vanet).beaconing = f.beaconing
           /\ StartApplications(f, vanet).channel = f.channel
           /\ StartApplications(f, vanet).pos = f.pos
           /\ StartApplications(f, vanet).app
                  = [v \in Vehicles |-> IF v \in vanet THEN "starting" ELSE f.app[v]]
BY Zenon DEF StartApplications, Fleets

\* runningVehicles takes the departed ones.
LEMMA WithDepartedFields ==
    ASSUME NEW f \in Fleets, departed \subseteq Vehicles
    PROVE  /\ WithDeparted(f) \in Fleets
           /\ WithDeparted(f).running = f.running \cup departed
           /\ WithDeparted(f).connected = f.connected
           /\ WithDeparted(f).nodes = f.nodes
           /\ WithDeparted(f).beaconing = f.beaconing
           /\ WithDeparted(f).channel = f.channel
           /\ WithDeparted(f).pos = f.pos
           /\ WithDeparted(f).app = f.app
BY Zenon DEF WithDeparted, Fleets

\* The events of an application only change its state.
LEMMA SetAppFields ==
    ASSUME net \in Fleets, NEW v \in Vehicles, NEW state \in {"running", "stopped"},
           SetApp(v, state)
    PROVE  /\ net' \in Fleets
           /\ net'.running = net.running
           /\ net'.connected = net.connected
           /\ net'.nodes = net.nodes
           /\ net'.beaconing = net.beaconing
           /\ net'.channel = net.channel
           /\ net'.pos = net.pos
           /\ net'.app = [net.app EXCEPT ![v] = state]
<1> DEFINE app == [net.app EXCEPT ![v] = state]
<1>1. net' = [net EXCEPT !.app = app]
  BY Zenon DEF SetApp
<1>2. app \in [Vehicles -> {"none", "starting", "running", "stopping", "stopped"}]
  BY DEF Fleets
<1> HIDE DEF app
<1>3. [net EXCEPT !.app = app] \in Fleets
  BY <1>2, Zenon DEF Fleets
<1>4. LET g == [net EXCEPT !.app = app]
      IN  /\ g.running = net.running
          /\ g.connected = net.connected
          /\ g.nodes = net.nodes
          /\ g.beaconing = net.beaconing
          /\ g.channel = net.channel
          /\ g.pos = net.pos
          /\ g.app = app
  BY Zenon DEF Fleets
<1> QED  BY <1>1, <1>3, <1>4, Zenon DEF app

-----------------------------------------------------------------------------
(* What one step of the traffic simulation makes of a fleet *)

\* The channel and the nodes of a fleet are in order: radios and applications
\* only belong to nodes, and only a node was ever in a cell.
FleetInOrder(f) ==
    /\ f \in Fleets
    /\ InOrder(f.channel)
    /\ f.channel.list \subseteq f.nodes
    /\ f.connected \subseteq f.nodes
    /\ \A v \in Vehicles \ f.nodes : f.channel.cell[v] = NoCell

\* g is f after the vehicles of d entered and the ones of a left, with
\* applications started on vanet.
InOut(f, d, a, vanet, g) ==
    /\ FleetInOrder(g)
    /\ g.running = f.running \ a
    /\ g.connected = f.connected \cup vanet
    /\ g.nodes = f.nodes \cup d
    /\ g.beaconing = (f.beaconing \cup d) \ (a \cap f.nodes)
    /\ g.channel.list = (f.channel.list \cup d) \ (a \cap f.nodes)
    /\ g.app = [v \in Vehicles |-> IF v \in vanet THEN "starting"
                                   ELSE IF v \in a \cap f.connected THEN "stopping"
                                   ELSE f.app[v]]

\* DestroyNetworkDevices keeps a fleet in order.
LEMMA DestroyInOrder ==
    ASSUME NEW f, FleetInOrder(f), NEW a
    PROVE  LET g == DestroyNetworkDevices(f, a)
           IN  /\ FleetInOrder(g)
               /\ g.channel.list = f.channel.list \ (a \cap f.nodes)
<1> DEFINE g == DestroyNetworkDevices(f, a)
           found == a \cap f.nodes
<1>0. f \in Fleets /\ InOrder(f.channel)
  BY DEF FleetInOrder
<1>1. /\ InOrder(Remove(f.channel, found))
      /\ Remove(f.channel, found).list = f.channel.list \ found
      /\ Remove(f.channel, found).cell = f.channel.cell
  BY <1>0, RemoveSome
<1>2. /\ g.connected = f.connected /\ g.nodes = f.nodes
      /\ g.channel = Remove(f.channel, found)
  BY <1>0, DestroyFields, Zenon
<1>3. Remove(f.channel, found) \in Channels
  BY <1>1 DEF InOrder
<1>4. SetStopTime(f.app, found \cap f.connected)
          \in [Vehicles -> {"none", "starting", "running", "stopping", "stopped"}]
  BY <1>0 DEF SetStopTime, Fleets
<1>5. g \in Fleets
  BY <1>0, <1>3, <1>4, DestroyType, Zenon
<1> HIDE DEF g
<1>6. FleetInOrder(g)
  BY <1>1, <1>2, <1>5 DEF FleetInOrder
<1> QED  BY <1>1, <1>2, <1>6 DEF g

\* The three calls after NextSimStep, on a fleet in order, for vehicles that
\* have no node yet.
LEMMA RefreshedInOrder ==
    ASSUME NEW f, FleetInOrder(f), f.running \subseteq f.channel.list,
           NEW d \in SUBSET Vehicles, NEW a \in SUBSET Vehicles, NEW vanet \in SUBSET d,
           d \cap a = {}, d \cap f.nodes = {},
           NEW reported \in [Vehicles -> Positions]
    PROVE  InOut(f, d, a, vanet, Refreshed(f, d, a, vanet, reported))
<1> USE DEF Vehicles
<1>0. f \in Fleets /\ InOrder(f.channel) /\ f.pos \in [Vehicles -> Area]
  BY DEF FleetInOrder, Fleets
<1> DEFINE f1 == CreateNetworkDevices(f, d)
           f2 == DestroyNetworkDevices(f1, a)
           f3 == UpdateInOutVehicles(f, d, a)
           f4 == UpdateVehiclesPositions(f3, d, reported)
           f5 == StartApplications(f4, vanet)
           ch == Add(f.channel, d, f.pos)
<1>1. /\ InOrder(ch)
      /\ ch.list = f.channel.list \cup d
      /\ \A u \in Vehicles \ d : ch.cell[u] = f.channel.cell[u]
  <2>1. \A v \in d : f.channel.cell[v] = NoCell /\ f.pos[v] \in Area
    BY <1>0 DEF FleetInOrder
  <2>2. d \in SUBSET Phys
    OBVIOUS
  <2>3. InOrder(f.channel)
    BY <1>0
  <2>4. AddedTo(f.channel, d, ch)
    BY <2>1, <2>2, <2>3, AddSome
  <2> QED  BY <2>4 DEF AddedTo
<1>2. /\ f1.running = f.running
      /\ f1.connected = f.connected
      /\ f1.nodes = f.nodes \cup d
      /\ f1.beaconing = f.beaconing \cup d
      /\ f1.channel = ch
      /\ f1.pos = f.pos
      /\ f1.app = f.app
  BY <1>0, CreateFields, Zenon
<1>3. FleetInOrder(f1)
  <2>1. f1 \in Fleets
    <3>1. ch \in Channels
      BY <1>1 DEF InOrder
    <3> QED  BY <1>0, <3>1, CreateType
  <2> HIDE DEF f1, ch
  <2> QED  BY <1>1, <1>2, <2>1 DEF FleetInOrder
<1> HIDE DEF ch
<1>4. FleetInOrder(f2) /\ f2.channel.list = (f.channel.list \cup d) \ (a \cap (f.nodes \cup d))
  <2> HIDE DEF f1
  <2>1. FleetInOrder(f2) /\ f2.channel.list = f1.channel.list \ (a \cap f1.nodes)
    BY <1>3, DestroyInOrder, Zenon
  <2> QED  BY <1>1, <1>2, <2>1
<1>5. /\ f2.running = f.running
      /\ f2.connected = f.connected
      /\ f2.nodes = f.nodes \cup d
      /\ f2.beaconing = (f.beaconing \cup d) \ (a \cap (f.nodes \cup d))
      /\ f2.pos = f.pos
      /\ f2.app = SetStopTime(f.app, (a \cap (f.nodes \cup d)) \cap f.connected)
  <2>1. f1 \in Fleets
    BY <1>3 DEF FleetInOrder
  <2> HIDE DEF f1
  <2>2. /\ f2.running = f1.running
        /\ f2.connected = f1.connected
        /\ f2.nodes = f1.nodes
        /\ f2.beaconing = f1.beaconing \ (a \cap f1.nodes)
        /\ f2.pos = f1.pos
        /\ f2.app = SetStopTime(f1.app, (a \cap f1.nodes) \cap f1.connected)
    BY <2>1, DestroyFields, Zenon
  <2> QED  BY <1>2, <2>2, Zenon
<1>6. /\ f3 \in Fleets
      /\ f3.running = f2.running \ a
      /\ f3.connected = f2.connected
      /\ f3.nodes = f2.nodes
      /\ f3.beaconing = f2.beaconing
      /\ f3.channel = f2.channel
      /\ f3.pos = f2.pos
      /\ f3.app = f2.app
  <2>1. f2 \in Fleets
    BY <1>4 DEF FleetInOrder
  <2>2. f3 = [f2 EXCEPT !.running = @ \ a]
    BY Zenon DEF UpdateInOutVehicles
  <2> HIDE DEF f2, f3
  <2> QED  BY <2>1, <2>2, EraseFields, Zenon
<1> HIDE DEF f1, f2, f3
<1>7. FleetInOrder(f3)
  BY <1>4, <1>6 DEF FleetInOrder
<1> DEFINE placed == Placed(f3, d, reported)
           newPos == NewPos(f3, d, reported)
           ch4 == updatePhy(f3.channel, placed, newPos)
<1>8. newPos \in [Vehicles -> Area] /\ placed \subseteq Vehicles /\ \A v \in placed : newPos[v] \in Area
  <2>1. f3.pos \in [Vehicles -> Area] /\ reported \in [Vehicles -> Area]
    BY <1>0, <1>5, <1>6, PositionsAssumption
  <2>2. placed \subseteq Vehicles
    BY <1>6 DEF Placed, Fleets
  <2>3. newPos \in [Vehicles -> Area]
    <3> HIDE DEF placed
    <3>1. newPos = [v \in Vehicles |-> IF v \in placed THEN reported[v] ELSE f3.pos[v]]
      BY DEF NewPos, placed
    <3> QED  BY <2>1, <3>1
  <2> QED  BY <2>2, <2>3
<1>9. placed \subseteq f3.channel.list
  <2>1. placed \subseteq f3.running \cup d
    BY DEF Placed
  <2>2. f3.running \cup d \subseteq f3.channel.list
    BY <1>4, <1>5, <1>6
  <2> QED  BY <2>1, <2>2
<1> HIDE DEF placed, newPos
<1>10. InOrder(ch4) /\ ch4.list = f3.channel.list
       /\ \A u \in Vehicles \ f3.nodes : ch4.cell[u] = NoCell
  <2>1. OrderlyBut(f3.channel, placed)
    BY <1>7, <1>9 DEF FleetInOrder, InOrder, OrderlyBut
  <2>2. MovedTo(f3.channel, placed, newPos, ch4)
    BY <1>8, <2>1, UpdateSome
  <2> HIDE DEF ch4
  <2> QED  BY <1>7, <1>9, <2>2 DEF MovedTo, FleetInOrder
<1>11. /\ f4.running = f3.running
       /\ f4.connected = f3.connected
       /\ f4.nodes = f3.nodes
       /\ f4.beaconing = f3.beaconing
       /\ f4.channel = ch4
       /\ f4.app = f3.app
  <2>1. f3 \in Fleets
    BY <1>6
  <2> QED  BY <2>1, PositionsFields DEF placed, newPos
<1>12. f4 \in Fleets
  <2>1. ch4 \in Channels
    BY <1>10 DEF InOrder
  <2> QED  BY <1>6, <1>8, <2>1, PositionsType, Zenon DEF placed, newPos
<1> HIDE DEF f4, ch4
<1>13. /\ f5 \in Fleets
       /\ f5.running = f4.running
       /\ f5.connected = f4.connected \cup vanet
       /\ f5.nodes = f4.nodes
       /\ f5.beaconing = f4.beaconing
       /\ f5.channel = f4.channel
       /\ f5.app = [v \in Vehicles |-> IF v \in vanet THEN "starting" ELSE f4.app[v]]
  <2>1. vanet \in SUBSET Vehicles
    OBVIOUS
  <2> QED  BY <1>12, <2>1, StartFields, Zenon
<1> HIDE DEF f5
<1>14. f5.app = [v \in Vehicles |-> IF v \in vanet THEN "starting"
                                    ELSE IF v \in a \cap f.connected THEN "stopping"
                                    ELSE f.app[v]]
  <2>1. (a \cap (f.nodes \cup d)) \cap f.connected = a \cap f.connected
    BY DEF FleetInOrder
  <2>2. f4.app = SetStopTime(f.app, a \cap f.connected)
    BY <1>5, <1>6, <1>11, <2>1
  <2> QED  BY <1>13, <2>2 DEF SetStopTime
<1>15. /\ f5.running = f.running \ a
       /\ f5.connected = f.connected \cup vanet
       /\ f5.nodes = f.nodes \cup d
       /\ f5.beaconing = (f.beaconing \cup d) \ (a \cap f.nodes)
       /\ f5.channel.list = (f.channel.list \cup d) \ (a \cap f.nodes)
  BY <1>4, <1>5, <1>6, <1>10, <1>11, <1>13
<1>16. FleetInOrder(f5)
  <2>1. f5.channel.list \subseteq f5.nodes /\ f5.connected \subseteq f5.nodes
    BY <1>15 DEF FleetInOrder
  <2> QED  BY <1>10, <1>11, <1>13, <2>1 DEF FleetInOrder
<1>17. Refreshed(f, d, a, vanet, reported) = f5
  BY DEF Refreshed, f5, f4, f3
<1> QED  BY <1>14, <1>15, <1>16, <1>17 DEF InOut

-----------------------------------------------------------------------------
(* The inductive invariant.  The loop relies on more than what it promises: *)
(* that vehicles which may still enter have no node (else their second     *)
(* name would abort the run), that the lists are those of the response     *)
(* read last, that SUMO is no step ahead of it, and that nothing happened  *)
(* before the first step.                                                  *)

\* Applications that run, or are about to.
Active == {v \in Vehicles : net.app[v] \in {"starting", "running"}}

\* SUMO is asked, and the subscription has not ended.
Told == connection /\ sumoTime <= StopTime

\* The fleet, the radios, the beacons and the applications agree.
Synced ==
    /\ net.channel.list = Fleet
    /\ net.beaconing = Fleet
    /\ Told => Fleet = Driving
    /\ Active = net.connected \cap Fleet

\* A vehicle that may still enter has no node.
WaitingUnnamed == Told => \A v \in net.nodes : sumo[v] # "waiting"

\* Before the first step there is no vehicle.
NothingYet ==
    phase = "init" => /\ departed = {} /\ arrived = {}
                      /\ net.running = {} /\ net.nodes = {}
                      /\ sumoTime = 0 /\ stepQuery.time = 0

\* departedVehicles and arrivedVehicles are what the query holds.
Listed ==
    phase \in {"init", "loop"} =>
        /\ departed = Unmatched(stepQuery.departed, stepQuery.arrived)
        /\ arrived = Unmatched(stepQuery.arrived, stepQuery.departed)

\* The query knows SUMO's time, but for a stop time before the first step.
OnTime ==
    phase = "loop" /\ connection =>
        \/ sumoTime <= StopTime /\ stepQuery.time = sumoTime
        \/ sumoTime > StopTime /\ stepQuery.time = StopTime /\ departed = {} /\ arrived = {}

IInv ==
    /\ TypeOK
    /\ FleetInOrder(net)
    /\ phase \in {"init", "loop"} => Synced
    /\ WaitingUnnamed
    /\ NothingYet
    /\ Listed
    /\ OnTime
    /\ NothingLeft
    /\ AbortsRepeatStopStep

\* SUMO makes a step with the vehicles of dep and arr, and tells.
Answered(dep, arr) ==
    /\ connection /\ SumoStep(dep, arr)
    /\ sumoTime' <= StopTime /\ stepQuery'.time = sumoTime'
    /\ departed' = dep \ arr /\ arrived' = arr \ dep

\* Nothing is read: SUMO does not answer, or no longer tells.
Kept ==
    /\ stepQuery' = stepQuery
    /\ connection => sumoTime' > StopTime

\* What NextSimStep does: it reads lists, or keeps what it has.
LEMMA SimStepCases ==
    ASSUME TypeOK, NextSimStep
    PROVE  /\ sumo' \in [Vehicles -> {"waiting", "driving", "gone"}]
           /\ sumoTime' \in Nat
           /\ connection => sumoTime' = sumoTime + 1
           /\ stepQuery' \in [time : Nat, departed : SUBSET Vehicles, arrived : SUBSET Vehicles]
           /\ departed' \in SUBSET Vehicles /\ arrived' \in SUBSET Vehicles
           /\ departed' \cap arrived' = {}
           /\ Kept \/ \E dep, arr \in SUBSET Vehicles : Answered(dep, arr)
<1>1. sumoTime \in Nat /\ sumo \in [Vehicles -> {"waiting", "driving", "gone"}]
  BY DEF TypeOK
<1>2. stepQuery \in [time : Nat, departed : SUBSET Vehicles, arrived : SUBSET Vehicles]
  BY DEF TypeOK
<1>3. /\ departed' = Unmatched(stepQuery'.departed, stepQuery'.arrived)
      /\ arrived' = Unmatched(stepQuery'.arrived, stepQuery'.departed)
  BY DEF NextSimStep
<1>4. CASE ~connection /\ UNCHANGED <<sumo, sumoTime, stepQuery>>
  BY <1>1, <1>2, <1>3, <1>4 DEF Kept, Unmatched
<1>5. CASE connection /\ \E d, a \in SUBSET Vehicles : SumoStep(d, a) /\ ReadResponse(d, a)
  <2>1. PICK d \in SUBSET Vehicles, a \in SUBSET Vehicles : SumoStep(d, a) /\ ReadResponse(d, a)
    BY <1>5
  <2>2. /\ sumo' \in [Vehicles -> {"waiting", "driving", "gone"}]
        /\ sumoTime' = sumoTime + 1
    BY <1>1, <2>1 DEF SumoStep
  <2>3. CASE sumoTime' <= StopTime
    <3>1. stepQuery' = [time |-> sumoTime', departed |-> d, arrived |-> a]
      BY <2>1, <2>3 DEF ReadResponse, Answer
    <3>2. /\ stepQuery'.time = sumoTime'
          /\ stepQuery'.departed = d /\ stepQuery'.arrived = a
      BY <3>1
    <3>3. departed' = d \ a /\ arrived' = a \ d
      BY <1>3, <3>2 DEF Unmatched
    <3>4. Answered(d, a)
      BY <1>5, <2>1, <2>3, <3>2, <3>3 DEF Answered
    <3>5. sumoTime' \in Nat
      BY <1>1, <2>2
    <3>6. stepQuery' \in [time : Nat, departed : SUBSET Vehicles, arrived : SUBSET Vehicles]
      BY <3>1, <3>5
    <3> QED  BY <2>2, <3>3, <3>4, <3>5, <3>6
  <2>4. CASE ~(sumoTime' <= StopTime)
    <3>1. stepQuery' = stepQuery
      BY <2>1, <2>4 DEF ReadResponse
    <3>2. Kept
      BY <1>1, <2>2, <2>4, <3>1, StopTimeAssumption DEF Kept
    <3>3. stepQuery'.departed \subseteq Vehicles /\ stepQuery'.arrived \subseteq Vehicles
      BY <1>2, <3>1
    <3>4. /\ departed' \in SUBSET Vehicles /\ arrived' \in SUBSET Vehicles
          /\ departed' \cap arrived' = {}
      BY <1>3, <3>3 DEF Unmatched
    <3> QED  BY <1>1, <1>2, <2>2, <3>1, <3>2, <3>4
  <2> QED  BY <2>3, <2>4
<1> QED  BY <1>4, <1>5 DEF NextSimStep, DoCommand, traffic

\* The fleet g, into which the vehicles of d came and out of which those of a
\* went, is in step with SUMO after its step.
InStep(g, d, a) ==
    /\ g.running = Fleet \ a
    /\ g.nodes = net.nodes \cup d
    /\ g.channel.list = g.running \cup d
    /\ g.beaconing = g.running \cup d
    /\ g.running \subseteq g.nodes /\ d \cap g.running = {}
    /\ connection /\ sumoTime' <= StopTime => g.running \cup d = Driving'
    /\ {v \in Vehicles : g.app[v] \in {"starting", "running"}}
         = g.connected \cap (g.running \cup d)
    /\ connection /\ sumoTime' <= StopTime => \A v \in g.nodes : sumo'[v] # "waiting"

\* A step of the traffic simulation keeps everything in step: g is the fleet
\* it makes of f, which has every vehicle of the fleet in runningVehicles.
LEMMA StepSynced ==
    ASSUME TypeOK, FleetInOrder(net), Synced, WaitingUnnamed, NextSimStep,
           NEW d, d = departed', NEW a, a = arrived', d \cap net.nodes = {},
           NEW vanet \in SUBSET d,
           NEW f, f.running = Fleet, f.connected = net.connected, f.nodes = net.nodes,
           f.beaconing = net.beaconing, f.channel = net.channel, f.app = net.app,
           NEW g, InOut(f, d, a, vanet, g)
    PROVE  InStep(g, d, a)
<1>1. /\ g.running = Fleet \ a
      /\ g.connected = net.connected \cup vanet
      /\ g.nodes = net.nodes \cup d
      /\ g.beaconing = (Fleet \cup d) \ (a \cap net.nodes)
      /\ g.channel.list = (Fleet \cup d) \ (a \cap net.nodes)
  BY DEF InOut, Synced
<1>2. /\ Fleet \subseteq net.nodes /\ net.connected \subseteq net.nodes
      /\ net.nodes \subseteq Vehicles
  BY DEF Synced, FleetInOrder, Fleets
<1>3. d \cap a = {}
  BY SimStepCases
<1>4. /\ g.channel.list = g.running \cup d
      /\ g.beaconing = g.running \cup d
      /\ g.running \subseteq g.nodes /\ d \cap g.running = {}
  BY <1>1, <1>2, <1>3
<1>5. ASSUME connection, sumoTime' <= StopTime
      PROVE  g.running \cup d = Driving' /\ \A v \in g.nodes : sumo'[v] # "waiting"
  <2>0. sumoTime \in Nat /\ StopTime \in Nat /\ sumoTime' = sumoTime + 1
    BY <1>5, SimStepCases, StopTimeAssumption DEF TypeOK
  <2>1. PICK dep \in SUBSET Vehicles, arr \in SUBSET Vehicles : Answered(dep, arr)
    BY <1>5, <2>0, SimStepCases DEF Kept
  <2>2. SumoStep(dep, arr) /\ d = dep \ arr /\ a = arr \ dep
    BY <2>1 DEF Answered
  <2>3. Told
    BY <1>5, <2>0 DEF Told
  <2>4. Fleet = {v \in Vehicles : sumo[v] = "driving"}
    BY <2>3 DEF Synced, Driving
  <2>5. \A v \in net.nodes : sumo[v] # "waiting"
    BY <2>3 DEF WaitingUnnamed
  <2>6. \A v \in Vehicles : sumo'[v] = IF v \in arr THEN "gone"
                                       ELSE IF v \in dep THEN "driving" ELSE sumo[v]
    BY <2>2 DEF SumoStep
  <2>7. dep \subseteq {v \in Vehicles : sumo[v] = "waiting"}
    BY <2>2 DEF SumoStep
  <2>8. g.running \cup d = {v \in Vehicles : sumo'[v] = "driving"}
    BY <1>1, <2>2, <2>4, <2>6, <2>7
  <2>9. \A v \in g.nodes : sumo'[v] # "waiting"
    BY <1>1, <1>2, <2>2, <2>5, <2>6
  <2> QED  BY <2>8, <2>9 DEF Driving
<1>6. {v \in Vehicles : g.app[v] \in {"starting", "running"}} = g.connected \cap (g.running \cup d)
  <2>1. \A v \in Vehicles : g.app[v] = IF v \in vanet THEN "starting"
                                       ELSE IF v \in a \cap net.connected THEN "stopping"
                                       ELSE net.app[v]
    BY DEF InOut
  <2>2. \A v \in Vehicles : net.app[v] \in {"starting", "running"} <=> v \in net.connected \cap Fleet
    BY DEF Synced, Active
  <2>3. \A v \in Vehicles : v \in g.connected \cap (g.running \cup d)
                               <=> v \in vanet \/ (v \in net.connected \cap Fleet /\ v \notin a)
    BY <1>1, <1>2, <1>3
  <2>4. \A v \in Vehicles : g.app[v] \in {"starting", "running"}
                               <=> v \in vanet \/ (v \in net.connected \cap Fleet /\ v \notin a)
    BY <2>1, <2>2
  <2>5. g.connected \subseteq Vehicles
    BY DEF InOut, FleetInOrder, Fleets
  <2> QED  BY <2>3, <2>4, <2>5
<1> QED  BY <1>1, <1>4, <1>5, <1>6 DEF InStep

\* The empty fleet is in order, and in step with a traffic simulation that
\* has not started.
LEMMA InitIInv == Init => IInv
<1> SUFFICES ASSUME Init PROVE IInv
  OBVIOUS
<1>1. /\ net.running = {} /\ net.connected = {} /\ net.nodes = {} /\ net.beaconing = {}
      /\ net.channel = EmptyChannel
      /\ net.app = [v \in Vehicles |-> "none"]
  BY DEF Init
<1>2. net \in Fleets
  <2>1. EmptyChannel \in Channels
    BY EmptyInOrder DEF InOrder
  <2>2. [v \in Vehicles |-> Origin] \in [Vehicles -> Area]
    BY OriginInArea
  <2> QED  BY <2>1, <2>2 DEF Init, Fleets
<1>3. TypeOK
  BY <1>2 DEF Init, TypeOK
<1>4. FleetInOrder(net)
  BY <1>1, <1>2, EmptyInOrder DEF FleetInOrder, EmptyChannel, Vehicles
<1>5. Synced
  BY <1>1 DEF Init, Synced, Fleet, Driving, Active, EmptyChannel
<1>6. WaitingUnnamed /\ NothingYet /\ OnTime /\ NothingLeft /\ AbortsRepeatStopStep
  BY <1>1 DEF Init, WaitingUnnamed, NothingYet, OnTime, NothingLeft, AbortsRepeatStopStep
<1>7. Listed
  BY DEF Init, Listed, Unmatched
<1> QED  BY <1>3, <1>4, <1>5, <1>6, <1>7 DEF IInv

\* A step of the traffic simulation starts from f: the fleet as it is, with
\* all of its vehicles in runningVehicles.
StartsFrom(f) ==
    /\ f \in Fleets
    /\ f.running = Fleet
    /\ f.connected = net.connected
    /\ f.nodes = net.nodes
    /\ f.beaconing = net.beaconing
    /\ f.channel = net.channel
    /\ f.app = net.app

\* DoInitialize starts from net, TrafficSimulationStep from WithDeparted(net).
LEMMA Starting ==
    ASSUME IInv
    PROVE  StartsFrom(WithDeparted(net)) /\ (phase = "init" => StartsFrom(net))
<1>1. net \in Fleets /\ departed \subseteq Vehicles
  BY DEF IInv, TypeOK
<1>2. StartsFrom(WithDeparted(net))
  BY <1>1, WithDepartedFields, Zenon DEF Fleet, StartsFrom
<1>3. phase = "init" => StartsFrom(net)
  BY <1>1 DEF IInv, NothingYet, Fleet, StartsFrom
<1> QED  BY <1>2, <1>3

\* What a step of the traffic simulation has made of the fleet when its three
\* calls have returned: f is the fleet it starts from.
LEMMA StepFleet ==
    ASSUME IInv, phase \in {"init", "loop"}, NEW f, StartsFrom(f), NextSimStep,
           departed' \cap net.nodes = {},
           NEW vanet, vanet \subseteq departed', NEW reported \in Reports,
           NEW g, g = Refreshed(f, departed', arrived', vanet, reported)
    PROVE  FleetInOrder(g) /\ InStep(g, departed', arrived')
<1> DEFINE d == departed'
           a == arrived'
<1>1. TypeOK /\ FleetInOrder(net) /\ Synced /\ WaitingUnnamed
  BY DEF IInv
<1>2. /\ f \in Fleets
      /\ f.running = Fleet
      /\ f.connected = net.connected
      /\ f.nodes = net.nodes
      /\ f.beaconing = net.beaconing
      /\ f.channel = net.channel
      /\ f.app = net.app
  BY DEF StartsFrom
<1>3. FleetInOrder(f) /\ f.running \subseteq f.channel.list
  BY <1>1, <1>2 DEF FleetInOrder, Synced
<1>4. d \in SUBSET Vehicles /\ a \in SUBSET Vehicles /\ d \cap a = {}
  BY <1>1, SimStepCases
<1>5. d = departed' /\ a = arrived' /\ vanet \in SUBSET d /\ d \cap net.nodes = {}
  OBVIOUS
<1>6. g = Refreshed(f, d, a, vanet, reported)
  OBVIOUS
<1> HIDE DEF d, a
<1>7. InOut(f, d, a, vanet, g)
  BY <1>2, <1>3, <1>4, <1>5, <1>6, RefreshedInOrder DEF Reports
<1>8. InStep(g, d, a)
  BY <1>1, <1>2, <1>5, <1>7, StepSynced
<1>9. FleetInOrder(g)
  BY <1>7 DEF InOut
<1> QED  BY <1>5, <1>8, <1>9

\* NextSimStep keeps the types, and hands out what the query holds.
LEMMA StepTypes ==
    ASSUME IInv, NextSimStep, net' \in Fleets, stepEvent' \in BOOLEAN,
           phase' \in {"loop", "finished", "aborted", "crashed"},
           UNCHANGED <<connection, simEvent, trafficEvent>>
    PROVE  TypeOK' /\ Listed' /\ NothingYet'
<1>1. TypeOK
  BY DEF IInv
<1>2. TypeOK'
  BY <1>1, SimStepCases DEF TypeOK
<1>3. Listed' /\ NothingYet'
  BY DEF Listed, NothingYet, NextSimStep
<1> QED  BY <1>2, <1>3

\* The query knows SUMO's time after the first step, and after every other
\* one that lets the loop go on.
LEMMA StaysOnTime ==
    ASSUME IInv, NextSimStep, phase = "init" \/ (phase = "loop" /\ Continues),
           connection' = connection
    PROVE  OnTime'
<1>1. TypeOK /\ sumoTime \in Nat /\ StopTime \in Nat /\ stepQuery.time \in Nat
  BY StopTimeAssumption DEF IInv, TypeOK
<1> SUFFICES ASSUME connection
             PROVE  \/ sumoTime' <= StopTime /\ stepQuery'.time = sumoTime'
                    \/ /\ sumoTime' > StopTime /\ stepQuery'.time = StopTime
                       /\ departed' = {} /\ arrived' = {}
  BY DEF OnTime
<1>2. sumoTime' = sumoTime + 1
  BY <1>1, SimStepCases
<1>3. ASSUME NEW dep \in SUBSET Vehicles, NEW arr \in SUBSET Vehicles, Answered(dep, arr)
      PROVE  sumoTime' <= StopTime /\ stepQuery'.time = sumoTime'
  BY <1>3 DEF Answered
<1>4. CASE Kept
  <2>1. sumoTime' > StopTime /\ stepQuery' = stepQuery
    BY <1>4 DEF Kept
  <2>2. CASE phase = "init"
    <3>1. departed = {} /\ arrived = {} /\ sumoTime = 0 /\ stepQuery.time = 0
      BY <2>2 DEF IInv, NothingYet
    <3>2. departed' = departed /\ arrived' = arrived
      BY <2>1, <2>2 DEF NextSimStep, IInv, Listed
    <3> QED  BY <1>1, <1>2, <2>1, <3>1, <3>2
  <2>3. CASE phase = "loop" /\ Continues
    <3>1. stepQuery.time < StopTime
      BY <2>3 DEF Continues
    <3>2. stepQuery.time = sumoTime
      BY <1>1, <2>3, <3>1 DEF IInv, OnTime
    <3> QED  BY <1>1, <1>2, <2>1, <3>1, <3>2
  <2> QED  BY <2>2, <2>3
<1> QED  BY <1>1, <1>3, <1>4, SimStepCases

\* In the last step nothing is read, so no vehicle enters.
LEMMA LastStepRepeats ==
    ASSUME IInv, NextSimStep, phase = "loop", ~Continues, departed' \cap net.nodes = {}
    PROVE  departed' = {} /\ (connection => sumoTime' > StopTime)
<1>1. /\ TypeOK /\ sumoTime \in Nat /\ StopTime \in Nat /\ stepQuery.time \in Nat
      /\ stepQuery.time >= StopTime
  BY StopTimeAssumption DEF IInv, TypeOK, Continues
<1>2. Kept
  <2> SUFFICES ASSUME NEW dep \in SUBSET Vehicles, NEW arr \in SUBSET Vehicles,
                      Answered(dep, arr)
               PROVE  FALSE
    BY <1>1, SimStepCases
  <2>1. connection /\ sumoTime' <= StopTime
    BY DEF Answered
  <2>2. sumoTime' = sumoTime + 1
    BY <1>1, <2>1, SimStepCases
  <2>3. sumoTime >= StopTime
    BY <1>1, <2>1 DEF IInv, OnTime
  <2> QED  BY <1>1, <2>1, <2>2, <2>3
<1>3. departed' = departed
  BY <1>2 DEF Kept, NextSimStep, IInv, Listed
<1>4. departed \subseteq net.nodes
  BY DEF IInv, Synced, Fleet, FleetInOrder
<1> QED  BY <1>2, <1>3, <1>4 DEF Kept

\* DoInitialize, or a step after which the loop goes on.
LEMMA StepKeepsIInv ==
    ASSUME IInv, phase \in {"init", "loop"}, NEW f, StartsFrom(f), NextSimStep,
           departed' \cap net.nodes = {},
           NEW vanet, vanet \subseteq departed', NEW reported \in Reports,
           net' = Refreshed(f, departed', arrived', vanet, reported),
           phase' \in {"loop", "crashed"}, stepEvent' \in BOOLEAN,
           UNCHANGED <<connection, simEvent, trafficEvent>>,
           OnTime'
    PROVE  IInv' /\ InStep(net', departed', arrived')
<1>1. FleetInOrder(net') /\ InStep(net', departed', arrived')
  BY StepFleet
<1>2. net' \in Fleets
  BY <1>1 DEF FleetInOrder
<1>3. TypeOK' /\ Listed' /\ NothingYet'
  BY <1>2, StepTypes
<1>4. Synced'
  BY <1>1 DEF InStep, Synced, Fleet, Active, Told
<1>5. WaitingUnnamed'
  BY <1>1 DEF InStep, WaitingUnnamed, Told
<1>6. NothingLeft' /\ AbortsRepeatStopStep'
  BY DEF NothingLeft, AbortsRepeatStopStep
<1>7. FleetInOrder(net)'
  BY <1>1 DEF FleetInOrder
<1> QED  BY <1>1, <1>3, <1>4, <1>5, <1>6, <1>7 DEF IInv

\* The last step: everyone in runningVehicles is destroyed.
LEMMA LastStepKeepsIInv ==
    ASSUME IInv, phase = "loop", NEW f, StartsFrom(f), NextSimStep,
           departed' \cap net.nodes = {}, ~Continues,
           NEW vanet, vanet \subseteq departed', NEW reported \in Reports,
           NEW g, g = Refreshed(f, departed', arrived', vanet, reported),
           net' = DestroyNetworkDevices(g, g.running),
           phase' \in {"finished", "crashed"}, stepEvent' = FALSE,
           UNCHANGED <<connection, simEvent, trafficEvent>>
    PROVE  IInv' /\ net'.channel.list = {} /\ net'.nodes = net.nodes
<1>1. FleetInOrder(g) /\ InStep(g, departed', arrived')
  BY StepFleet
<1>2. FleetInOrder(net') /\ net'.channel.list = g.channel.list \ (g.running \cap g.nodes)
  BY <1>1, DestroyInOrder
<1>3. net' \in Fleets
  BY <1>2 DEF FleetInOrder
<1>4. net'.nodes = g.nodes /\ net'.beaconing = g.beaconing \ (g.running \cap g.nodes)
  <2>1. g \in Fleets
    BY <1>1 DEF FleetInOrder
  <2> QED  BY <2>1, DestroyFields
<1>5. departed' = {} /\ (connection => sumoTime' > StopTime)
  BY LastStepRepeats
<1>6. net'.beaconing = {} /\ net'.channel.list = {} /\ net'.nodes = net.nodes
  <2>1. /\ g.nodes = net.nodes /\ g.running \subseteq g.nodes
        /\ g.channel.list = g.running /\ g.beaconing = g.running
    <3>1. /\ g.nodes = net.nodes \cup departed' /\ g.running \subseteq g.nodes
          /\ g.channel.list = g.running \cup departed'
          /\ g.beaconing = g.running \cup departed'
      BY ONLY <1>1, Zenon DEF InStep
    <3> QED  BY ONLY <1>5, <3>1
  <2>2. g.running \cap g.nodes = g.running
    BY ONLY <2>1
  <2>3. g.running \ g.running = {}
    OBVIOUS
  <2>4. net'.beaconing = {} /\ net'.channel.list = {}
    BY ONLY <1>2, <1>4, <2>1, <2>2, <2>3, Zenon
  <2> QED  BY ONLY <1>4, <2>1, <2>4, Zenon
<1>7. TypeOK' /\ Listed' /\ NothingYet'
  BY <1>3, StepTypes
<1>8. WaitingUnnamed'
  <2>1. sumoTime' \in Nat /\ StopTime \in Nat
    BY <1>7, StopTimeAssumption DEF TypeOK
  <2> QED  BY <1>5, <2>1 DEF WaitingUnnamed, Told
<1>9. NothingLeft' /\ OnTime' /\ AbortsRepeatStopStep'
  BY <1>5, <1>6 DEF NothingLeft, OnTime, AbortsRepeatStopStep
<1>10. FleetInOrder(net)'
  BY <1>2 DEF FleetInOrder
<1> QED  BY <1>6, <1>7, <1>8, <1>9, <1>10 DEF IInv

\* As long as SUMO tells, no name is taken and no interface destroyed twice.
LEMMA NoAbort ==
    ASSUME IInv, phase = "loop",
           NEW dep \in SUBSET Vehicles, NEW arr \in SUBSET Vehicles, Answered(dep, arr)
    PROVE  ~NameTaken(departed') /\ ~DestroyedTwice(arrived')
<1>1. SumoStep(dep, arr) /\ departed' = dep \ arr /\ arrived' = arr \ dep
  BY DEF Answered
<1>2. \A v \in dep : sumo[v] = "waiting"
  BY <1>1 DEF SumoStep
<1>3. arr \ dep \subseteq Driving
  BY <1>1 DEF SumoStep
<1>4. Told
  <2>1. sumoTime \in Nat /\ StopTime \in Nat /\ sumoTime' = sumoTime + 1
    BY <1>1, StopTimeAssumption DEF IInv, TypeOK, SumoStep
  <2> QED  BY <2>1 DEF Told, Answered
<1>5. Driving = net.beaconing /\ \A v \in net.nodes : sumo[v] # "waiting"
  BY <1>4 DEF IInv, Synced, WaitingUnnamed
<1> QED  BY <1>1, <1>2, <1>3, <1>5 DEF NameTaken, DestroyedTwice

\* A step that leaves the channel, the nodes and the phases as they are.
PresenceKept ==
    /\ net'.channel.list = net.channel.list
    /\ net'.nodes = net.nodes
    /\ phase' \in {"finished", "exited", "crashed"} <=> phase \in {"finished", "exited", "crashed"}

\* A step that aborts was not told anything; with the connection working it
\* is the one after the stop time.
LEMMA AbortKeepsIInv ==
    ASSUME IInv, StepAborts
    PROVE  IInv' /\ PresenceKept
<1>1. /\ phase = "loop" /\ NextSimStep /\ phase' = "aborted"
      /\ NameTaken(departed') \/ DestroyedTwice(arrived')
      /\ UNCHANGED <<connection, net, simEvent, trafficEvent, stepEvent>>
  BY DEF StepAborts, events
<1>2. TypeOK /\ sumoTime \in Nat /\ StopTime \in Nat /\ net \in Fleets /\ stepEvent \in BOOLEAN
  BY StopTimeAssumption DEF IInv, TypeOK
<1>3. Kept
  BY <1>1, <1>2, NoAbort, SimStepCases
<1>4. TypeOK' /\ Listed' /\ NothingYet'
  BY <1>1, <1>2, StepTypes
<1>5. departed' = departed /\ arrived' = arrived /\ stepQuery' = stepQuery
  BY <1>1, <1>3 DEF Kept, NextSimStep, IInv, Listed
<1>6. departed \cup arrived # {}
  BY <1>1, <1>5 DEF NameTaken, DestroyedTwice
<1>7. ASSUME connection
      PROVE  stepQuery.time = StopTime /\ sumoTime' = StopTime + 1
  <2>1. sumoTime' = sumoTime + 1 /\ sumoTime' > StopTime
    BY <1>1, <1>2, <1>3, <1>7, SimStepCases DEF Kept
  <2>2. sumoTime <= StopTime /\ stepQuery.time = sumoTime
    BY <1>1, <1>6, <1>7 DEF IInv, OnTime
  <2> QED  BY <1>2, <2>1, <2>2
<1>8. AbortsRepeatStopStep'
  BY <1>1, <1>5, <1>6, <1>7 DEF AbortsRepeatStopStep
<1>9. WaitingUnnamed'
  <2>1. connection' => sumoTime' > StopTime
    BY <1>1, <1>3 DEF Kept
  <2>2. sumoTime' \in Nat
    BY <1>4 DEF TypeOK
  <2> QED  BY <1>2, <2>1, <2>2 DEF WaitingUnnamed, Told
<1>10. OnTime' /\ NothingLeft' /\ FleetInOrder(net)' /\ PresenceKept
  BY <1>1 DEF OnTime, NothingLeft, IInv, FleetInOrder, PresenceKept
<1> QED  BY <1>1, <1>4, <1>8, <1>9, <1>10 DEF IInv

\* An event of an application leaves the fleet and the channel alone, and a
\* running application running.
LEMMA AppEventKeepsIInv ==
    ASSUME IInv, NEW v \in Vehicles, AppEvent(v)
    PROVE  IInv' /\ net'.channel = net.channel /\ net'.nodes = net.nodes /\ phase' = phase
<1>1. net \in Fleets /\ TypeOK
  BY DEF IInv, TypeOK
<1>2. UNCHANGED <<sumo, sumoTime, connection, stepQuery, departed, arrived, stepEvent, phase>>
  BY DEF AppEvent, StartApplication, StopApplication, SimulationRunEnds, traffic, lists
<1>3. simEvent' \subseteq Vehicles /\ trafficEvent' \subseteq Vehicles
  BY <1>1 DEF AppEvent, StartApplication, StopApplication, SimulationRunEnds, TypeOK
<1>4. /\ net' \in Fleets
      /\ net'.running = net.running
      /\ net'.connected = net.connected
      /\ net'.nodes = net.nodes
      /\ net'.beaconing = net.beaconing
      /\ net'.channel = net.channel
      /\ Active' = Active
  <2>1. CASE StartApplication(v)
    <3>1. SetApp(v, "running") /\ net.app[v] = "starting"
      BY <2>1 DEF StartApplication
    <3>2. /\ net' \in Fleets
          /\ net'.running = net.running
          /\ net'.connected = net.connected
          /\ net'.nodes = net.nodes
          /\ net'.beaconing = net.beaconing
          /\ net'.channel = net.channel
          /\ net'.app = [net.app EXCEPT ![v] = "running"]
      BY <1>1, <3>1, SetAppFields
    <3>3. \A u \in Vehicles : net'.app[u] = IF u = v THEN "running" ELSE net.app[u]
      BY <1>1, <3>2 DEF Fleets
    <3> QED  BY <3>1, <3>2, <3>3 DEF Active
  <2>2. CASE StopApplication(v)
    <3>1. SetApp(v, "stopped") /\ net.app[v] = "stopping"
      BY <2>2 DEF StopApplication
    <3>2. /\ net' \in Fleets
          /\ net'.running = net.running
          /\ net'.connected = net.connected
          /\ net'.nodes = net.nodes
          /\ net'.beaconing = net.beaconing
          /\ net'.channel = net.channel
          /\ net'.app = [net.app EXCEPT ![v] = "stopped"]
      BY <1>1, <3>1, SetAppFields
    <3>3. \A u \in Vehicles : net'.app[u] = IF u = v THEN "stopped" ELSE net.app[u]
      BY <1>1, <3>2 DEF Fleets
    <3> QED  BY <3>1, <3>2, <3>3 DEF Active
  <2>3. CASE SimulationRunEnds(v)
    BY <1>1, <2>3 DEF SimulationRunEnds, Active
  <2> QED  BY <2>1, <2>2, <2>3 DEF AppEvent
<1>5. TypeOK'
  BY <1>1, <1>2, <1>3, <1>4 DEF TypeOK
<1>6. FleetInOrder(net)'
  BY <1>4 DEF IInv, FleetInOrder
<1>7. phase' \in {"init", "loop"} => Synced'
  BY <1>2, <1>4 DEF IInv, Synced, Fleet, Driving, Told
<1>8. WaitingUnnamed' /\ NothingYet' /\ NothingLeft' /\ AbortsRepeatStopStep'
  BY <1>2, <1>4 DEF IInv, WaitingUnnamed, NothingYet, NothingLeft, AbortsRepeatStopStep, Told
<1>9. Listed' /\ OnTime'
  BY <1>2 DEF IInv, Listed, OnTime
<1> QED  BY <1>2, <1>4, <1>5, <1>6, <1>7, <1>8, <1>9 DEF IInv

\* A step that leaves SUMO, the fleet and the lists alone, may lose the
\* connection, and ends the loop only with the connection lost or the
\* simulation finished.
LEMMA QuietKeepsIInv ==
    ASSUME IInv, UNCHANGED <<sumo, sumoTime, stepQuery, departed, arrived, net,
                             simEvent, trafficEvent, stepEvent>>,
           connection' \in BOOLEAN, connection' => connection,
           \/ phase' = phase /\ (connection' = connection \/ phase = "loop")
           \/ phase' = "aborted" /\ ~connection'
           \/ phase' = "exited" /\ phase = "finished" /\ connection' = connection
    PROVE  IInv'
<1>1. TypeOK'
  BY DEF IInv, TypeOK
<1>2. FleetInOrder(net)'
  BY DEF IInv, FleetInOrder
<1>3. phase' \in {"init", "loop"} => Synced'
  BY DEF IInv, Synced, Fleet, Driving, Active, Told
<1>4. WaitingUnnamed' /\ NothingYet' /\ NothingLeft' /\ AbortsRepeatStopStep'
  BY DEF IInv, WaitingUnnamed, NothingYet, NothingLeft, AbortsRepeatStopStep, Told
<1>5. Listed' /\ OnTime'
  BY DEF IInv, Listed, OnTime
<1> QED  BY <1>1, <1>2, <1>3, <1>4, <1>5 DEF IInv

-----------------------------------------------------------------------------
(* Presence on the channel.  A step of the loop is a Move of the vehicles   *)
(* that are not in both lists, the last one is a Close, and nothing else   *)
(* changes m_phyList or the nodes.                                         *)

\* A step of NetworkPresence, or none.
PresenceStep == Presence!Next \/ PresenceKept

\* A step after which the loop goes on is a Move.
LEMMA StepIsMove ==
    ASSUME IInv, phase \in {"init", "loop"}, phase' = "loop",
           NEW d \in SUBSET Vehicles, NEW a \in SUBSET Vehicles, d \cap net.nodes = {},
           InStep(net', d, a)
    PROVE  PresenceStep
<1> DEFINE out == Fleet \cap a
<1>1. /\ net.channel.list = Fleet /\ Fleet \subseteq net.nodes /\ net.nodes \subseteq Vehicles
  BY DEF IInv, Synced, FleetInOrder, Fleets
<1>2. /\ net'.channel.list = (Fleet \ a) \cup d
      /\ net'.nodes = net.nodes \cup d
  BY DEF InStep
<1>3. net'.channel.list = (net.channel.list \ out) \cup d
  BY <1>1, <1>2
<1>4. net'.nodes \ net'.channel.list = (net.nodes \ net.channel.list) \cup out
  BY <1>1, <1>2
<1>5. d \subseteq Presence!Fresh /\ out \subseteq net.channel.list /\ out \in SUBSET Vehicles
  BY <1>1 DEF Presence!Fresh
<1> HIDE DEF out
<1>6. Presence!Move(d, out)
  BY <1>3, <1>4, <1>5 DEF Presence!Move
<1> QED  BY <1>5, <1>6 DEF Presence!Next, PresenceStep

\* The last step is a Close.
LEMMA LastStepIsClose ==
    ASSUME IInv, phase \in {"init", "loop"}, phase' \in {"finished", "crashed"},
           net'.channel.list = {}, net'.nodes = net.nodes
    PROVE  PresenceStep
<1>1. net.channel.list \subseteq net.nodes /\ net.nodes \subseteq Vehicles
  BY DEF IInv, FleetInOrder, Fleets
<1>2. net'.nodes \ net'.channel.list = (net.nodes \ net.channel.list) \cup net.channel.list
  BY <1>1
<1>3. Presence!Close
  BY <1>2 DEF Presence!Close
<1> QED  BY <1>3 DEF Presence!Next, PresenceStep

-----------------------------------------------------------------------------
(* Every action keeps IInv and is a step of NetworkPresence, or none *)

\* A choice of VANET nodes is one among the vehicles that departed.
LEMMA DrawsWithin == ASSUME NEW d, NEW vanet \in Draws(d) PROVE vanet \subseteq d
BY DEF Draws

\* DoInitialize.
LEMMA StartKeepsIInv == IInv /\ DoInitialize => IInv' /\ PresenceStep
<1> SUFFICES ASSUME IInv, DoInitialize PROVE IInv' /\ PresenceStep
  OBVIOUS
<1>1. PICK vanet \in Draws(departed'), reported \in Reports :
          net' = Refreshed(net, departed', arrived', vanet, reported)
  BY DEF DoInitialize
<1>2. /\ phase = "init" /\ NextSimStep /\ stepEvent' = TRUE
      /\ phase' \in {"loop", "crashed"} /\ (phase' = "crashed" => ~connection)
      /\ UNCHANGED <<connection, simEvent, trafficEvent>>
  BY DEF DoInitialize, runSumo
<1>3. /\ departed = {} /\ arrived = {} /\ net.running = {} /\ net.nodes = {}
      /\ net.channel.list = {}
  BY <1>2 DEF IInv, NothingYet, FleetInOrder
<1>4. StartsFrom(net) /\ phase \in {"init", "loop"}
  BY <1>2, Starting
<1>5. OnTime'
  BY <1>2, StaysOnTime
<1>6. vanet \subseteq departed'
  BY DrawsWithin
<1>7. departed' \cap net.nodes = {}
  BY <1>3
<1>8. stepEvent' \in BOOLEAN
  BY <1>2
<1>9. IInv' /\ InStep(net', departed', arrived')
  BY <1>1, <1>2, <1>4, <1>5, <1>6, <1>7, <1>8, StepKeepsIInv
<1>10. departed' \in SUBSET Vehicles /\ arrived' \in SUBSET Vehicles
  BY <1>2, SimStepCases DEF IInv
<1>11. CASE phase' = "loop"
  BY <1>4, <1>7, <1>9, <1>10, <1>11, StepIsMove
<1>12. CASE phase' = "crashed"
  <2>1. departed' = {}
    <3>1. ~connection
      BY <1>2, <1>12
    <3>2. Kept
      BY <1>2, <3>1, SimStepCases DEF IInv, Answered
    <3> QED  BY <1>2, <1>3, <3>2 DEF Kept, NextSimStep, IInv, Listed
  <2>2. Fleet = {}
    BY <1>3 DEF Fleet
  <2>3. net'.channel.list = {} /\ net'.nodes = net.nodes
    BY <1>3, <1>9, <2>1, <2>2 DEF InStep
  <2> QED  BY <1>4, <1>9, <1>12, <2>3, LastStepIsClose
<1> QED  BY <1>2, <1>9, <1>11, <1>12

\* TrafficSimulationStep, whole or aborted half way.
LEMMA StepActionKeepsIInv == IInv /\ Step => IInv' /\ PresenceStep
<1> SUFFICES ASSUME IInv, TrafficSimulationStep PROVE IInv' /\ PresenceStep
  BY AbortKeepsIInv DEF Step, PresenceStep
<1> DEFINE f == WithDeparted(net)
<1>1. PICK vanet \in Draws(departed'), reported \in Reports :
          LET g == Refreshed(f, departed', arrived', vanet, reported)
          IN  \/ /\ Continues /\ net' = g /\ UNCHANGED <<stepEvent, phase>>
              \/ /\ ~Continues
                 /\ net' = DestroyNetworkDevices(g, g.running)
                 /\ stepEvent' = FALSE /\ phase' \in {"finished", "crashed"}
  BY DEF TrafficSimulationStep
<1>2. /\ phase = "loop" /\ NextSimStep /\ departed' \cap net.nodes = {}
      /\ UNCHANGED <<connection, simEvent, trafficEvent>>
  BY DEF TrafficSimulationStep, NameTaken
<1>3. StartsFrom(f) /\ phase \in {"init", "loop"} /\ stepEvent \in BOOLEAN
  BY <1>2, Starting DEF IInv, TypeOK
<1>4. vanet \subseteq departed'
  BY DrawsWithin
<1> DEFINE g == Refreshed(f, departed', arrived', vanet, reported)
<1> HIDE DEF f
<1>5. CASE Continues /\ net' = g /\ UNCHANGED <<stepEvent, phase>>
  <2>1. phase' = "loop" /\ phase' \in {"loop", "crashed"} /\ stepEvent' \in BOOLEAN
    BY <1>2, <1>3, <1>5
  <2>2. OnTime'
    BY <1>2, <1>5, StaysOnTime
  <2>3. IInv' /\ InStep(net', departed', arrived')
    BY <1>2, <1>3, <1>4, <1>5, <2>1, <2>2, StepKeepsIInv
  <2>4. departed' \in SUBSET Vehicles /\ arrived' \in SUBSET Vehicles
    BY <1>2, SimStepCases DEF IInv
  <2>5. PresenceStep
    BY <1>2, <1>3, <2>1, <2>3, <2>4, StepIsMove
  <2> QED  BY <2>3, <2>5
<1>6. CASE /\ ~Continues /\ net' = DestroyNetworkDevices(g, g.running)
           /\ stepEvent' = FALSE /\ phase' \in {"finished", "crashed"}
  <2> HIDE DEF g
  <2>1. g = Refreshed(f, departed', arrived', vanet, reported)
    BY DEF g
  <2>2. IInv' /\ net'.channel.list = {} /\ net'.nodes = net.nodes
    BY <1>2, <1>3, <1>4, <1>6, <2>1, LastStepKeepsIInv
  <2> QED  BY <1>3, <1>6, <2>2, LastStepIsClose
<1> QED  BY <1>1, <1>5, <1>6

\* The invariant is inductive, and every step is one of NetworkPresence.
LEMMA NextKeepsIInv == IInv /\ [Next]_vars => IInv' /\ PresenceStep
<1> SUFFICES ASSUME IInv, [Next]_vars PROVE IInv' /\ PresenceStep
  OBVIOUS
<1>0. connection \in BOOLEAN
  BY DEF IInv, TypeOK
<1>1. CASE DoInitialize
  BY <1>1, StartKeepsIInv
<1>2. CASE Step
  BY <1>2, StepActionKeepsIInv
<1>3. CASE ConnectionLost
  <2>1. /\ phase = "loop" /\ connection' = FALSE /\ phase' = phase
        /\ UNCHANGED <<sumo, sumoTime, stepQuery, departed, arrived, net,
                       simEvent, trafficEvent, stepEvent>>
    BY <1>3 DEF ConnectionLost, traffic, lists, events
  <2>2. IInv'
    BY <2>1, QuietKeepsIInv
  <2> QED  BY <2>1, <2>2 DEF PresenceStep, PresenceKept
<1>4. CASE KilledBySigpipe
  <2>1. /\ phase \in {"init", "loop"} /\ ~connection /\ phase' = "aborted"
        /\ UNCHANGED <<sumo, sumoTime, connection, stepQuery, departed, arrived, net,
                       simEvent, trafficEvent, stepEvent>>
    BY <1>4 DEF KilledBySigpipe, traffic, lists, events
  <2>2. IInv'
    BY <1>0, <2>1, QuietKeepsIInv
  <2> QED  BY <2>1, <2>2 DEF PresenceStep, PresenceKept
<1>5. ASSUME NEW v \in Vehicles, AppEvent(v) PROVE IInv' /\ PresenceStep
  BY <1>5, AppEventKeepsIInv DEF PresenceStep, PresenceKept
<1>6. CASE RunReturns
  <2>1. /\ phase = "finished" /\ phase' = "exited"
        /\ UNCHANGED <<sumo, sumoTime, connection, stepQuery, departed, arrived, net,
                       simEvent, trafficEvent, stepEvent>>
    BY <1>6 DEF RunReturns, traffic, lists, events
  <2>2. IInv'
    BY <1>0, <2>1, QuietKeepsIInv
  <2> QED  BY <2>1, <2>2 DEF PresenceStep, PresenceKept
<1>7. CASE UNCHANGED vars
  <2>1. UNCHANGED <<sumo, sumoTime, connection, stepQuery, departed, arrived, net,
                    simEvent, trafficEvent, stepEvent, phase>>
    BY <1>7 DEF vars
  <2>2. IInv'
    BY <1>0, <2>1, QuietKeepsIInv
  <2> QED  BY <2>1, <2>2 DEF PresenceStep, PresenceKept
<1> QED  BY <1>1, <1>2, <1>3, <1>4, <1>5, <1>6, <1>7 DEF Next

-----------------------------------------------------------------------------
(* Theorems *)

\* The invariant holds in every reachable state of the coupling loop.
THEOREM CouplingInvariant == Spec => []IInv
<1>1. IInv /\ [Next]_vars => IInv'
  BY NextKeepsIInv
<1> QED  BY InitIInv, <1>1, PTL DEF Spec

\* Every variable of class Ovnis keeps its type: no vehicle is in a cell that
\* the grid lacks, whatever SUMO reports.
THEOREM TypeCorrect == Spec => []TypeOK
<1>1. IInv => TypeOK
  BY DEF IInv
<1> QED  BY <1>1, CouplingInvariant, PTL

\* runningVehicles and departedVehicles, m_phyList and the beaconing nodes
\* agree, and with the vehicles SUMO has on the road as long as it tells,
\* however it batches departures and arrivals and whenever the connection is
\* lost.
THEOREM FleetInSyncHolds == Spec => []FleetInSync
<1>1. IInv => FleetInSync
  BY DEF IInv, Synced, FleetInSync, Told
<1> QED  BY <1>1, CouplingInvariant, PTL

\* The grid Send reads holds the radios of m_phyList, each in its own cell.
THEOREM GridInSyncHolds == Spec => []GridInSync
<1>1. IInv => GridInSync
  BY DEF IInv, FleetInOrder, InOrder, GridInSync
<1> QED  BY <1>1, CouplingInvariant, PTL

\* StartApplications and DestroyNetworkDevices leave applications running on
\* the connected vehicles of the fleet and on no other.
THEOREM AppsInSyncHolds == Spec => []AppsInSync
<1>1. IInv => AppsInSync
  BY DEF IInv, Synced, Active, AppsInSync
<1> QED  BY <1>1, CouplingInvariant, PTL

\* A loop that ends leaves nothing beaconing and no radio on the channel.
THEOREM NothingLeftHolds == Spec => []NothingLeft
<1>1. IInv => NothingLeft
  BY DEF IInv
<1> QED  BY <1>1, CouplingInvariant, PTL

\* Names::Add and the address of an interface abort a run whose connection
\* works only in the step after the stop time, on the lists of the step of
\* the stop time.
THEOREM AbortsRepeatStopStepHolds == Spec => []AbortsRepeatStopStep
<1>1. IInv => AbortsRepeatStopStep
  BY DEF IInv
<1> QED  BY <1>1, CouplingInvariant, PTL

\* The loop implements NetworkPresence: a vehicle joins the channel once,
\* leaves only after it joined and never comes back.
THEOREM PresenceImplemented == Spec => ImplementsPresence
<1>1. Init => Presence!Init
  BY DEF Init, Presence!Init, EmptyChannel
<1>2. IInv /\ [Next]_vars => [Presence!Next]_Presence!vars
  BY NextKeepsIInv DEF PresenceStep, PresenceKept, Presence!vars
<1> QED  BY <1>1, <1>2, CouplingInvariant, PTL DEF Spec, ImplementsPresence, Presence!Spec
=============================================================================
