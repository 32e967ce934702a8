-------------------------------- MODULE Ovnis --------------------------------
(***************************************************************************)
(* The coupling loop of OVNIS: class Ovnis drives SUMO over TraCI, one     *)
(* step a second, and keeps one ns-3 node per vehicle of the traffic       *)
(* simulation, with its radio on the channel, its beacons and its          *)
(* application.  The handler TrafficSimulationStep is one ns-3 event, so   *)
(* one action; SUMO only acts when it is asked for a step.                 *)
(*                                                                         *)
(* Simulator::Run returns when no event is scheduled any more.  The events *)
(* that count are the next TrafficSimulationStep, the periodic beacon of   *)
(* each MAC and the events of the applications.                            *)
(*                                                                         *)
(* Vehicle lists are sets here: SUMO's identifiers are unique and a second *)
(* node with the same name aborts the program.  Time is counted in steps   *)
(* of SIMULATION_TIME_UNIT milliseconds.                                   *)
(***************************************************************************)
EXTENDS ChannelCells

CONSTANTS
    StopTime,       \* attribute StopTime, in steps
    Positions,      \* positions SUMO may report for a vehicle
    AllConnected    \* no rate in the parameters: every vehicle is a VANET node

Vehicles == Phys

ASSUME StopTimeAssumption == StopTime \in Nat
ASSUME PositionsAssumption == Positions \subseteq Area /\ Positions # {}
ASSUME AllConnectedAssumption == AllConnected \in BOOLEAN

VARIABLES
    sumo,         \* SUMO's own state of each vehicle
    sumoTime,     \* SUMO's clock
    connection,   \* TRUE while the TraCI socket works: SUMO took the connection
    stepQuery,    \* SimStepQuery: the values of the last response read
    departed,     \* departedVehicles
    arrived,      \* arrivedVehicles
    net,          \* the fleet in ns-3, see Fleets
    simEvent,     \* vehicles whose m_simulationEvent is scheduled
    trafficEvent, \* vehicles whose m_trafficInformationEvent is scheduled
    stepEvent,    \* TRUE while TrafficSimulationStep is scheduled
    phase         \* where the program is

traffic == <<sumo, sumoTime>>
lists == <<departed, arrived>>
events == <<simEvent, trafficEvent, stepEvent>>
vars == <<sumo, sumoTime, connection, stepQuery, departed, arrived, net,
          simEvent, trafficEvent, stepEvent, phase>>

(***************************************************************************)
(* What Ovnis keeps about its vehicles in ns-3.                            *)
(***************************************************************************)
Fleets ==
    [running   : SUBSET Vehicles,   \* runningVehicles
     connected : SUBSET Vehicles,   \* connectedVehicles, only appended to
     nodes     : SUBSET Vehicles,   \* registered in ns3::Names
     beaconing : SUBSET Vehicles,   \* interface up and beacon scheduled
     channel   : Channels,
     pos       : [Vehicles -> Area],      \* of the mobility models
     app       : [Vehicles -> {"none", "starting", "running", "stopping", "stopped"}]]

TypeOK ==
    /\ sumo \in [Vehicles -> {"waiting", "driving", "gone"}]
    /\ sumoTime \in Nat
    /\ connection \in BOOLEAN
    /\ stepQuery \in [time : Nat, departed : SUBSET Vehicles, arrived : SUBSET Vehicles]
    /\ departed \subseteq Vehicles /\ arrived \subseteq Vehicles
    /\ net \in Fleets
    /\ simEvent \subseteq Vehicles /\ trafficEvent \subseteq Vehicles
    /\ stepEvent \in BOOLEAN
    /\ phase \in {"init", "loop", "finished", "exited", "aborted", "crashed"}

Init ==
    /\ sumo = [v \in Vehicles |-> "waiting"] /\ sumoTime = 0
    /\ connection \in BOOLEAN
    /\ stepQuery = [time |-> 0, departed |-> {}, arrived |-> {}]
    /\ departed = {} /\ arrived = {}
    /\ net = [running |-> {}, connected |-> {}, nodes |-> {}, beaconing |-> {},
              channel |-> EmptyChannel, pos |-> [v \in Vehicles |-> Origin],
              app |-> [v \in Vehicles |-> "none"]]
    /\ simEvent = {} /\ trafficEvent = {} /\ stepEvent = FALSE
    /\ phase = "init"

-----------------------------------------------------------------------------
(* SUMO and TraCI *)

Driving == {v \in Vehicles : sumo[v] = "driving"}

\* External: SUMO simulates a step in which the vehicles of d enter and the
\* ones of a finish their trip (a vehicle may do both).
SumoStep(d, a) ==
    /\ d \subseteq {v \in Vehicles : sumo[v] = "waiting"}
    /\ a \subseteq Driving \cup d
    /\ sumo' = [v \in Vehicles |-> IF v \in a THEN "gone"
                                   ELSE IF v \in d THEN "driving" ELSE sumo[v]]
    /\ sumoTime' = sumoTime + 1

\* The values of a response that covers the step just made.
Answer(d, a) == [time |-> sumoTime', departed |-> d, arrived |-> a]

\* Faulty variant: readStringList's result is appended to the old list.
ReadResponseAppends(d, a) ==
    IF sumoTime' <= StopTime
    THEN stepQuery' = Answer(stepQuery.departed \cup d, a)
    ELSE UNCHANGED stepQuery

\* Faulty variant: the subscription has no end.
ReadResponseForEver(d, a) == stepQuery' = Answer(d, a)

\* SimStepQuery::ReadResponse.  The subscription ends with the step of the
\* stop time, see runSumo; the answer to a later step holds none, and the
\* query keeps the time and the lists it has.
ReadResponse(d, a) ==
    IF sumoTime' <= StopTime THEN stepQuery' = Answer(d, a) ELSE UNCHANGED stepQuery

\* Query::DoCommand.  Socket errors are caught below it, and an empty answer
\* validates because a fresh Status is RTYPE_OK: nothing is read, and nobody
\* is told.
DoCommand ==
    \/ connection /\ \E d, a \in SUBSET Vehicles : SumoStep(d, a) /\ ReadResponse(d, a)
    \/ ~connection /\ UNCHANGED <<traffic, stepQuery>>

\* Faulty variant: the two lists are taken as they come.
AsTheyCome(list, other) == list

\* The vehicles in both lists are erased from both, the first thing
\* UpdateInOutVehicles does.
Unmatched(list, other) == list \ other

\* SumoTraciConnection::NextSimStep hands out whatever lists the query holds:
\* when nothing was read, those of the step before.
NextSimStep ==
    /\ DoCommand
    /\ departed' = Unmatched(stepQuery'.departed, stepQuery'.arrived)
    /\ arrived' = Unmatched(stepQuery'.arrived, stepQuery'.departed)

\* The socket breaks, or SUMO dies.
ConnectionLost ==
    /\ connection
    /\ phase = "loop"
    /\ connection' = FALSE
    /\ UNCHANGED <<traffic, stepQuery, lists, net, events, phase>>

\* Socket::send passes no MSG_NOSIGNAL: unless the program was started with
\* SIGPIPE ignored, a command sent on a dead connection ends it.
KilledBySigpipe ==
    /\ ~connection
    /\ phase \in {"init", "loop"}
    /\ phase' = "aborted"
    /\ UNCHANGED <<traffic, connection, stepQuery, lists, net, events>>

-----------------------------------------------------------------------------
(* The functions of class Ovnis, on a fleet *)

\* CreateNetworkDevices, after the nodes were named: interfaces up, the MACs
\* constructed with a first beacon scheduled, the phys added to the channel.
CreateNetworkDevices(f, d) ==
    [f EXCEPT !.nodes = @ \cup d,
              !.beaconing = @ \cup d,
              !.channel = Add(@, d, f.pos)]

\* OvnisApplication::SetStopTime schedules StopApplication for this instant.
SetStopTime(apps, stopped) ==
    [v \in Vehicles |-> IF v \in stopped THEN "stopping" ELSE apps[v]]

\* Faulty variant: the phy stays on the channel.
DestroyButKeepPhy(f, gone) ==
    LET found == gone \cap f.nodes
    IN  [f EXCEPT !.beaconing = @ \ found,
                  !.app = SetStopTime(@, found \cap f.connected)]

\* DestroyNetworkDevices, on the vehicles that have a node: interface down,
\* StopApplication scheduled if connected, beacons stopped, phy removed.
DestroyNetworkDevices(f, gone) ==
    LET found == gone \cap f.nodes
    IN  [f EXCEPT !.beaconing = @ \ found,
                  !.app = SetStopTime(@, found \cap f.connected),
                  !.channel = Remove(@, found)]

\* Faulty variant: an arrived vehicle is not erased from runningVehicles.
UpdateButKeepRunning(f, d, a) ==
    DestroyNetworkDevices(CreateNetworkDevices(f, d), a)

\* UpdateInOutVehicles, once the vehicles in both lists were dropped.
UpdateInOutVehicles(f, d, a) ==
    [DestroyNetworkDevices(CreateNetworkDevices(f, d), a) EXCEPT !.running = @ \ a]

\* UpdateVehiclesPositions: running and departed vehicles take the position
\* SUMO reports.  updateNodePosition ignores one whose x or y is not
\* positive, which is what a query gets when the connection is lost.
UpdateVehiclesPositions(f, d, reported) ==
    LET placed == {v \in (f.running \cup d) \cap f.nodes :
                      connection /\ reported[v][1] > 0 /\ reported[v][2] > 0}
        newPos == [v \in Vehicles |-> IF v \in placed THEN reported[v] ELSE f.pos[v]]
    IN  [f EXCEPT !.pos = newPos,
                  !.channel = updatePhy(@, placed, newPos)]

\* StartApplications on the vehicles of vanet.
StartApplications(f, vanet) ==
    [f EXCEPT !.connected = @ \cup vanet,
              !.app = [v \in Vehicles |-> IF v \in vanet THEN "starting" ELSE @[v]]]

\* The three calls that follow NextSimStep, in order.
Refreshed(f, d, a, vanet, reported) ==
    StartApplications(UpdateVehiclesPositions(UpdateInOutVehicles(f, d, a), d, reported), vanet)

-----------------------------------------------------------------------------
(* Events *)

\* The vehicles of d that become VANET nodes, and the positions SUMO reports.
Draws(d) == IF AllConnected THEN {d} ELSE SUBSET d
Reports == [Vehicles -> Positions]

\* InitializeSumo.  runSumo starts SUMO, subscribes to the steps up to the stop
\* time and asks for a first one, whose lists cover everything up to the start
\* time.  RunServer returns when SUMO does not take the connection: then no
\* query is answered, none of them throws, so nothing is tried again, and the
\* program goes on without SUMO.
runSumo == NextSimStep

\* DoInitialize.  Without SUMO's answer nothing initialises "boundaries", from
\* which the grid is made: the program may crash.
DoInitialize ==
    /\ phase = "init"
    /\ runSumo
    /\ \E vanet \in Draws(departed'), reported \in Reports :
           net' = Refreshed(net, departed', arrived', vanet, reported)
    /\ stepEvent' = TRUE
    /\ phase' \in IF connection THEN {"loop"} ELSE {"loop", "crashed"}
    /\ UNCHANGED <<connection, simEvent, trafficEvent>>

\* Events of the current instant run before the next step.
Settled == \A v \in Vehicles : net.app[v] \notin {"starting", "stopping"}

\* runningVehicles takes the vehicles of the last step before the lists are
\* cleared.
WithDeparted(f) == [f EXCEPT !.running = @ \cup departed]

\* Names::Add aborts when a name is taken; in a debug build reading the
\* address of an interface that was already destroyed asserts.
NameTaken(d) == d \cap net.nodes # {}
DestroyedTwice(a) == (a \cap net.nodes) \ net.beaconing # {}

\* currentTime < stopTime, where currentTime was read before NextSimStep.
Continues == stepQuery.time < StopTime

\* TrafficSimulationStep.  It reschedules itself until the stop time; then
\* it destroys the running vehicles and closes SUMO.  fp_com and com_pid,
\* which nothing initialises, go to pclose and kill: the program may crash.
TrafficSimulationStep ==
    /\ phase = "loop" /\ stepEvent /\ Settled
    /\ NextSimStep
    /\ ~NameTaken(departed')
    /\ \E vanet \in Draws(departed'), reported \in Reports :
           LET f == Refreshed(WithDeparted(net), departed', arrived', vanet, reported)
           IN  \/ /\ Continues
                  /\ net' = f
                  /\ UNCHANGED <<stepEvent, phase>>
               \/ /\ ~Continues
                  /\ net' = DestroyNetworkDevices(f, f.running)
                  /\ stepEvent' = FALSE
                  /\ phase' \in {"finished", "crashed"}
    /\ UNCHANGED <<connection, simEvent, trafficEvent>>

\* TrafficSimulationStep when ns-3 aborts it half way.
StepAborts ==
    /\ phase = "loop" /\ stepEvent /\ Settled
    /\ NextSimStep
    /\ NameTaken(departed') \/ DestroyedTwice(arrived')
    /\ phase' = "aborted"
    /\ UNCHANGED <<connection, net, events>>

Alive == phase \in {"loop", "finished"}

SetApp(v, state) == net' = [net EXCEPT !.app = [@ EXCEPT ![v] = state]]

\* FceApplication::StartApplication schedules both of its periodic events.
StartApplication(v) ==
    /\ Alive /\ net.app[v] = "starting"
    /\ SetApp(v, "running")
    /\ simEvent' = simEvent \cup {v}
    /\ trafficEvent' = trafficEvent \cup {v}
    /\ UNCHANGED <<traffic, connection, stepQuery, lists, stepEvent, phase>>

\* Faulty variant: the traffic information event is not cancelled.
StopWithoutCancel(v) ==
    /\ Alive /\ net.app[v] = "stopping"
    /\ SetApp(v, "stopped")
    /\ UNCHANGED <<traffic, connection, stepQuery, lists, events, phase>>

\* FceApplication::StopApplication cancels the traffic information event; the
\* simulation event stays scheduled.
StopApplication(v) ==
    /\ Alive /\ net.app[v] = "stopping"
    /\ SetApp(v, "stopped")
    /\ trafficEvent' = trafficEvent \ {v}
    /\ UNCHANGED <<traffic, connection, stepQuery, lists, simEvent, stepEvent, phase>>

\* SimulationRun reschedules itself only while the application is running.
SimulationRunEnds(v) ==
    /\ Alive /\ v \in simEvent /\ net.app[v] = "stopped"
    /\ simEvent' = simEvent \ {v}
    /\ UNCHANGED <<traffic, connection, stepQuery, lists, net, trafficEvent, stepEvent, phase>>

\* Simulator::Run returns once nothing is scheduled.
RunReturns ==
    /\ phase = "finished"
    /\ ~stepEvent /\ net.beaconing = {} /\ simEvent = {} /\ trafficEvent = {} /\ Settled
    /\ phase' = "exited"
    /\ UNCHANGED <<traffic, connection, stepQuery, lists, net, events>>

Step == TrafficSimulationStep \/ StepAborts

AppEvent(v) == StartApplication(v) \/ StopApplication(v) \/ SimulationRunEnds(v)

Next ==
    \/ DoInitialize
    \/ Step
    \/ ConnectionLost \/ KilledBySigpipe
    \/ \E v \in Vehicles : AppEvent(v)
    \/ RunReturns

\* Simulator::Run executes every event that is scheduled.
Fairness ==
    /\ WF_vars(DoInitialize)
    /\ WF_vars(Step)
    /\ \A v \in Vehicles : WF_vars(AppEvent(v))
    /\ WF_vars(RunReturns)

Spec == Init /\ [][Next]_vars /\ Fairness

-----------------------------------------------------------------------------
(* Properties *)

\* The vehicles Ovnis holds for being in the simulation.
Fleet == net.running \cup departed

\* Between two steps the fleet, the radios on the channel and the nodes that
\* beacon are the same vehicles, and the ones SUMO has on the road as long as
\* the connection works and SUMO tells: no list, node or radio is left behind
\* by vehicles that come and go, however their departures and arrivals are
\* batched.
FleetInSync ==
    phase = "loop" =>
        /\ net.channel.list = Fleet
        /\ net.beaconing = Fleet
        /\ connection /\ sumoTime <= StopTime => Fleet = Driving

\* Every radio of the channel is in its own cell and no other radio is in
\* any: DestroyNetworkDevices leaves nothing in the grid that Send reads.
GridInSync ==
    net.channel.content = {<<v, net.channel.cell[v]>> : v \in net.channel.list}

\* An application runs exactly on the connected vehicles of the fleet.
AppsInSync ==
    phase = "loop" =>
        {v \in Vehicles : net.app[v] \in {"starting", "running"}} = net.connected \cap Fleet

\* While TraCI works, ns-3 aborts the loop (a name added twice, an interface
\* destroyed twice) in its very last step only, past the stop time, where
\* NextSimStep hands out the lists of the step of the stop time once more, and
\* only if that step had a departure or an arrival.
AbortsRepeatStopStep ==
    phase = "aborted" /\ connection =>
        /\ stepQuery.time = StopTime /\ sumoTime = StopTime + 1
        /\ departed \cup arrived # {}

\* A loop that comes to its end leaves no radio on the channel, no beacon and
\* no vehicle it has still to take over: what DestroyNetworkDevices leaves out
\* (departedVehicles) is empty in the last step, or the step has aborted.
NothingLeft ==
    phase \in {"finished", "exited"} =>
        net.channel.list = {} /\ net.beaconing = {} /\ departed = {}

\* Simulator::Run comes to its end unless the last step aborts on the repeated
\* lists or the connection is lost.
EndsUnlessStopStepRepeats ==
    <>[](\/ phase \in {"exited", "crashed"}
         \/ phase = "aborted" /\ departed \cup arrived # {}
         \/ ~connection)

Presence == INSTANCE NetworkPresence WITH
    present <- net.channel.list,
    left <- net.nodes \ net.channel.list,
    over <- phase \in {"finished", "exited", "crashed"}

\* The loop implements the promise about presence on the channel.
ImplementsPresence == Presence!Spec

\* The stopTime parameter is the "Date at which the simulation stops.
\* (Seconds)".  Does not hold: a vehicle that departs in the step of the stop
\* time is handed out again in the step after it, and Names::Add aborts on its
\* name.  (Nor does it after a loss of the connection, which this leaves
\* aside.)
ProgramEnds == <>(phase \in {"exited", "crashed"} \/ ~connection)

=============================================================================
