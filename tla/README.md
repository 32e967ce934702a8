# A TLA+ model of OVNIS

OVNIS couples the road traffic simulator SUMO with the network simulator ns-3:
a single C++ program asks SUMO, over TraCI, for one second of traffic after
the other, keeps one ns-3 node with a radio for every vehicle on the road, and
runs on each node an application by which vehicles measure travel times, tell
each other about them and choose their routes. This directory models that
program and the scripts that run it, checks the models on small instances with
TLC and proves the safety results for all instances with TLAPS.

`PROJECT.json` lists the components, the runs, which definition stands for
which lines, the hazards and the findings. Paths below are relative to the
repository, which is mounted as `src/`; so the source directory `src` of the
repository appears as `src/src`.

## 1. The system

### Parts, state, operations

| Part | State it keeps | Operations | Makes it correct |
|---|---|---|---|
| Coupling loop, `src/src/ovnis.cpp` | `departedVehicles`, `arrivedVehicles`, `runningVehicles`, `connectedVehicles`, named ns-3 nodes, `currentTime` | `DoInitialize`, `TrafficSimulationStep` and the functions they call (`CreateNetworkDevices`, `StartApplications`, `UpdateVehiclesPositions`, `DestroyNetworkDevices`...) | the fleet follows SUMO's vehicles, radios and applications follow the fleet, the program ends |
| TraCI client, `src/src/traci` | socket, last response of each query | `NextSimStep`, `DoCommand`, vehicle and network queries | a step is applied once; a failure is noticed |
| Wireless channel, `src/src/devices/wifi/ovnis-wifi-channel.cc`, `channel-cell.cpp` | a grid of cells, the content of each, the cell of each phy, `m_phyList` | `Add`, `Remove`, `updatePhy`, `Send`, `Receive` | each phy in exactly the cell of its position; looking at adjacent cells is enough |
| Beaconing MAC, `beaconing-adhoc-wifi-mac.cc` | `neighborList` with a beacon index each, `m_beaconEvent` | `SendOneBeacon`, `DecreaseBeaconCount`, `ProcessBeacon`, `StopBeaconing` | neighbours are dropped after losses and only then; those that left are forgotten |
| `FceApplication` | neighbour list, decision and notification flags, two periodic events | `StartApplication`, `StopApplication`, `SimulationRun`, `ReceivePacket`, `SendTrafficInformation`, `ChooseRoute`, `OnReporting`, neighbour callbacks | decides once, drives what it decided, reports what it drove |
| Knowledge, record entries, dissemination | per edge the travel times heard, with dates; vehicle counts | `record`, `add`, `getValue`, `getTime`, `analyseLocalDatabase`, `getTrafficInformationToSend` | old information neither replaces new nor enters a cost |
| Vehicle and itinerary | current route, edges entered and left | `requestRoute`, `requestCurrentEdge`, `reroute`, travel times | what it holds agrees with SUMO |
| TIS (a singleton shared by all vehicles) | registered routes, vehicles on each, travel times on edges and routes | `initializeStaticTravelTimes`, `reportStartingRoute`, `reportEndingRoute`, `reportEndingEdge`, probabilities and draws | counts match the vehicles under way; the draw follows the probabilities |
| Phy, `ovnis-wifi-phy.cc` | the reception in progress, its scheduled end, how long it transmits, switches or holds the medium busy | `StartReceivePacket`, `EndReceive`, `SendPacket`, `SetChannelNumber` | one reception at a time, each with its own end; the medium is called idle only when it is |
| Experiment scripts, `python/runovnis.py`, `python/analyse.py` | log of arrivals, `tripstats.txt`, `average.txt` in each output folder | launch, header, trip statistics, averages over folders, comparison of routes | a figure shows what the launches it names measured |

The remaining parts (error rates, helpers, configuration parser, log, the
older applications, vendored ns-3 code, plotting scripts) are listed with the
reason they are left out under "components" in `PROJECT.json` and in section 7.

### How they interact

Everything runs in one thread as events of ns-3's scheduler: an event handler
is never interrupted, so each is one action. The interleavings come from the
order of events of different nodes, from the medium (loss, delay, reordering)
and from SUMO, which acts only while `NextSimStep` waits for it.

```
 SUMO  <--TraCI-->  Ovnis  --creates, moves, destroys-->  node: phy + MAC + application
                                                          phy  --Send-->  channel cells --Receive--> phys
                                                          MAC  --NewNeighbor, NeighborLost-->  application
 SUMO  <--edge, route, change of route--  application  --reports-->  TIS (shared)
                                          application  --packets-->  other applications
```

### What is hard

Batches of departures and arrivals in one step; the one-step delay between
"departed" and "running"; a step past the end of the subscription, which gets
the lists of the one before; a lost connection that is swallowed below the loop;
radios removed while frames fly; cells that are stale between position
updates; several neighbours expiring in one beacon; information relayed with
recomputed dates over a lossy, reordering medium; polling that misses edges; a
change of route that SUMO refuses; zeros and integer division in the
probabilities; frames that overlap with each other, with a transmission and
with a switch of channel; files that scripts leave to each other, half written
or from an earlier launch, and read by position. Each is a hazard in `PROJECT.json`, at its line, with the
properties that would catch it.

## 2. The modules

| Module | Models |
|---|---|
| `ChannelCells` | the channel's data structure as operators on a record: `Add`, `Remove`, `updatePhy`, adjacent cells |
| `OvnisWifiPhy` | one radio: receptions, transmissions, CCA, channel switches |
| `OvnisWifiChannel` | phys that join, drift, are updated, send and leave, and frames in flight |
| `BeaconingMac` | beacon timers, neighbour tables, the application's mirror of them, a lossy medium |
| `Ovnis` (extends `ChannelCells`) | the coupling loop, SUMO, TraCI failures, the events that keep `Simulator::Run` going |
| `NetworkPresence` | the abstract specification of the coupling: a node is off, on or gone, and only a node that is on is on the air |
| `TrafficInformation` | measuring, broadcasting, relaying and recording travel times; estimation; vehicle counts |
| `RouteChoice` | pure algorithms: correlation of routes, probabilities, draws, `ChooseRoute` |
| `RouteDecision` (extends `RouteChoice`) | one decision of one vehicle, for all costs, strategies and own routes |
| `FceRouting` (extends `RouteChoice`) | vehicles in SUMO, itineraries, polling, decision, reporting, the shared TIS |
| `TripAnalysis` | launches of the simulator, the files they leave and the averages taken over them |
| `*Proofs` | theorems about `Ovnis`, `OvnisWifiChannel`, `OvnisWifiPhy`, `BeaconingMac`, `TrafficInformation`, `FceRouting` with `RouteDecision`, and `TripAnalysis`; the lemmas about the grid are in `OvnisWifiChannelProofs`, which `OvnisProofs` extends |
| `Aggregates` | lemmas about least and greatest elements, sums and means, which the models take from the community modules |
| `MC*` | values of the constants for TLC |

Operators named "Faulty variant" in a module are not part of its
specification. Each is a plausible mistake in the definition after it and is
used to see that the property meant to catch it does.

### Correspondence in detail

**Coupling loop.** `DoInitialize` and `TrafficSimulationStep` are one action
each. Vehicle lists are sets (identifiers are unique). A handler works on a
record `net`, the fleet in ns-3, through operators with the names of the
functions of class `Ovnis`, in their order. `ReadResponse` reads the lists and the
time of a step only up to the stop time: `runSumo` subscribes no further
(`ovnis.cpp:307`), and the answer to the one step the loop takes beyond holds no
subscription, so that the query hands out the lists of the step before once more.
SUMO may refuse the connection from the start (`Init`): `RunServer` then returns,
no query is answered, and since none throws the retry of `InitializeSumo` never
runs; the program goes on without vehicles, or crashes on the `boundaries` that
nothing initialised. `ConnectionLost` may happen between any two events of the
loop; `Query::DoCommand` then leaves the values of the step before in place and
reports nothing. (A loss between two commands of one step is seen by the model
with the next step.) SIGPIPE may or may not end the
program, depending on how it was started: both are modelled. `fp_com` and
`com_pid` are uninitialised at the end of the simulation, so "crashed" is one
of the outcomes there too. Applications live through none, starting, running, stopping,
stopped, with their two periodic events apart, because `StopApplication`
cancels one and leaves the other to the running flag.

**Channel.** Positions are pairs of integers in the area of `Rows x Cols` cells
of side `Range`. `Drift` is how far a vehicle may be from the position of its
last update. A frame is scheduled to the phys of adjacent cells within reach;
`Receive` happens later, also to a phy already removed.

**Phy.** A frame in the air is a member of `Frames` with the time left and a
power; powers add up, and two thresholds tell what can be received and what
only makes the medium busy. The ends that the code keeps as instants (`m_endTx`,
`m_endRx`, `m_endSwitching`, `m_endCcaBusy`) are kept as the time left until
them; `Tick` takes one unit off all of them and cannot pass an event that is
due. `StartReceivePacket` synchronizes on a strong signal when the medium is idle
or only busy, and otherwise drops the frame and takes its energy into account if
it outlasts the current state. `WifiPhyStateHelper` and
`InterferenceHelper` are ns-3's and modelled by what the phy uses of them;
whether a frame is received without error is open. A vehicle that departs
during the run gets a phy whose construction counts as a channel switch, so
`Init` has a phy that is switching. The assertions about transmitting are a
contract with the MAC: it does not send during a transmission or a switch. At most
one postponed channel switch is outstanding: of two that wait for the same
transmission the second would meet the assertion against a switch in progress
(`ovnis-wifi-phy.cc:345`), and whether anybody asks for two is up to the caller.

**Beaconing MAC.** A tick is a fraction of the beacon interval. The erase loop
is what the compiled loop does: with k candidates it removes the last k/2 + 1
in address order. Beacons due at the same time are sent in a fixed order, as
the scheduler does.

**Traffic information.** A travel time is represented by the instant of its
measurement; so an entry `[date, value]` holds the date it carries and how old
its value really is, which is what the properties compare. `Averaged` and
`Trimmed` follow the index arithmetic of `recordEntry.cpp`. The mean of dates
is rounded down to a tick. Erasing in `getValue` acts on copies in
`analyseLocalDatabase`, so it never changes the stored records. `decayValue`
and `decayTime` are never set and "tmc" has no case in `getTime`, which gives
0. `Sharing` is the number of alternative routes an edge belongs to. Routes and
links are constants of a run: all vehicles drive one sequence of edges.

**Route choice and routing.** Costs are small positive integers and
probabilities are exact fractions. The logit probabilities of "mnl" are
abstracted to any route. In `FceRouting` vehicles advance by up to `MaxHop`
edges between two polls, so edges are skipped. SUMO refuses a list of edges
that does not begin with the vehicle's edge, and then answers the old one.
Whether its answer after an accepted change holds the edges already driven is
SUMO's business, outside the repository; the variable `keepsPassed` allows
both. With them, `requestRoute` re-enters the first edge of the route, so
`DecidedReports` and `ReportedOnce` are stated for a SUMO that leaves them out,
which is what `requestRoute` expects; the other properties hold for both.

**Experiment scripts.** Each folder has its own `runovnis.py`, several at a time,
and the averages may be taken meanwhile: `Launch`, the header, opening (which
truncates) and writing `tripstats.txt` are separate steps, as are the reads of
the walk over the folders, which lists each folder when it gets there. The writer
may end before it is through (`BreaksOff`), with an exception or Ctrl-C, which
flushes what was written: some of the lines about all trips, or those and the table
of strategies, or also an empty table of routes; a table has all of its rows or
none. (A tripinfo file given to `process_trips` leaves a file of the first of these
shapes; `runovnis.py` always gives it the log of arrivals.) A file is a sequence of
lines; a line keeps its kind (header, group, blank...) and, for the numbers, a token
naming the launch and the group they were computed from. A group of one vehicle has
no standard deviation (pandas divides by n - 1): its row is written with an empty
field and has no token. `read_df_stats` and `read_average_stats` go over the lines
by position, as the scripts do. An exception that ends the averages is a value of
`calc`, and so is "loops", the search for the routes' table that never ends.

## 3. The runs

| Run | Bounds | Shows |
|---|---|---|
| `coupling` | 3 vehicles, stop time 3, 2 cells, connected or not, TraCI may fail at the start or break | lists, radios, grid and applications agree with each other, and with SUMO while the connection works and the subscription lasts, in every batching; while TraCI works only the step past the stop time aborts, on the repeated lists of the stop step; a loop that comes to its end leaves no radio, beacon or departed vehicle; `Ovnis` implements `NetworkPresence` |
| `coupling_ends` | 2 vehicles, stop time 2 | `Simulator::Run` returns unless the last step aborts on the repeated lists or the connection is lost |
| `channel` | 2 phys, 3 cells of side 3, drift 1 | one cell per phy, of the position last set; a phy within `Range - 2 * Drift` is always reached; no new frame to a removed phy |
| `beacon` | a node and 3 neighbours, `BeaconLost` 2 | indices in range; a beaconing neighbour is dropped only after `BeaconLost - 1` consecutive losses; the application's list equals the table; a stopped vehicle is forgotten although the erase loop leaves entries behind |
| `gossip_last` | 3 vehicles in range of each other, 2 edges, time 3, ttl 2, lossy and delayed, "last" | no value is replaced by an earlier one; no value as old as the ttl is used, as long as routes share no edge |
| `gossip_mean` | the same, time 5, no delay beyond a tick, "average" | dates computed as means never make a value look newer than it is; no vehicle is ahead of the TIS |
| `route_choice` | 3 routes of which two share an edge, all costs 1 to 4, all strategies, own route known or not | the choice can be driven; a route is drawn with exactly its probability; a cheaper route is never less likely |
| `routing` | 2 vehicles, 2 routes, hops up to 2, time 6, all strategies, both kinds of SUMO | the TIS counts the vehicles under way; SUMO drives the choice; whoever decided reports, once, with a travel time that fits |
| `phy` | 3 frames of power 1, 2 or 4 (energy threshold 3, CCA threshold 2) and up to 3 units long, switching takes 2 units, 2 channels | a reception and its `EndReceive` belong together and exclude transmitting and switching; idle means quiet, but for a reception that a transmission cut; every reception ends |
| `trips` | 2 folders, 2 launches, 2 routes, 3 strategies of which the averages know 2, 5 kinds of arrivals, one statistic over all trips | statistics are of the last launch unless it was silent; every group is averaged over its own values; failures, and the endless search, have one of the causes listed; only the last route of a comparison shows foreign values |

Two more runs, `stop_departure` and `gossip_shared`, each show that a statement
in a comment, or in the documentation of a parameter, does not hold of the code
(section 6).

**Why the bounds are enough.** Three vehicles are enough for a step in which
one departs, one runs and one arrives, and for a vehicle that does both; a stop
time of 3 has a first, two middle, a stop step and the one past it. Two cells make a phy change
its cell, three in a row make two phys that are not adjacent. Three neighbours
that expire together are the smallest case in which the erase loop leaves one
behind (k = 2 is erased whole); the listening node has the second address, so
that it ages its table after one sender's beacon and before the others'. Three
vehicles are measurer, relay and
receiver; with ttl 2, time 3 lets information expire and time 5 gives a record
several entries of which some fall out of the window. Time 6 lets a vehicle
pass origin, decision, one middle edge and notification, with a second one at
any distance. Three frames are one received, one that interferes and one that
arrives after either; the weakest alone is unheard, two of them reach the CCA
threshold and only the strongest can be received; a switch is shorter than the
longest frame, so that one outlasts the other in both orders. Two folders and
two launches are a second launch in the same folder or in another; the arrivals
leave out a route, both have one vehicle on a route or with a strategy or more, and
use a strategy the averages do not know; with one statistic a file breaks off before
and after the first line that `read_stats` reads. The caps in
guards are `MaxTime` (the clock), `MaxHop`, `MaxDuration`, `MaxLaunches`, and
`StopTime` in the loop; the history counter `lostRun` saturates at
`BeaconLost`.

**Symmetry** is used where vehicles are interchangeable model values and only
invariants or action properties are checked (`gossip_last`, `gossip_mean`,
`routing`, and the folders of `trips`).

**Deadlock** is checked in `phy` and `trips`, which never stop. The other systems
really may, either because the program is over or because the bounded clock is.

**Fairness.** ns-3's `Simulator::Run` takes events from its queue until none is
left, and the clock moves to the next one: so a scheduled event is eventually
executed. This gives weak fairness of start, step, application events and the
return of `Run` in `Ovnis`, and of beacons, clock and outcome of each frame
in `BeaconingMac`; and in `OvnisWifiPhy` of the clock, of the end of a reception and
of a postponed channel switch. Nothing is assumed of vehicles, losses or SUMO beyond its
answering a step: a vehicle need not depart or arrive, a frame need not be
received. The other modules have no liveness property and no fairness.

## 4. What is proved

For all values of the constants, under the assumptions in the modules:

- `OvnisProofs`: all that the run `coupling` checks, for any set of vehicles, grid,
  stop time and positions: `TypeCorrect`, `FleetInSyncHolds`, `GridInSyncHolds`,
  `AppsInSyncHolds`, `NothingLeftHolds`, `AbortsRepeatStopStepHolds`, and
  `PresenceImplemented`, that `Ovnis` implements `NetworkPresence`. None of the
  invariants is inductive. `IInv` adds that radios and connected vehicles belong to
  named nodes and that only a node was ever in a cell (`FleetInOrder`: otherwise
  `updatePhy` would leave a phy that joins out of the grid); that lists, channel,
  beacons and applications also agree before the first step (`Synced`); that, as long as SUMO tells,
  a vehicle it may still insert has no node (`WaitingUnnamed`: otherwise its
  name would be taken); that the lists in hand are those of the last response
  (`Listed`), whose departures have nodes already; and that the time of that
  response is SUMO's until the stop time (`OnTime`). So while TraCI works the last
  step is the one that reads nothing: it repeats the lists, and either these name a
  vehicle that has a node, and it aborts, or they bring nothing new and all
  vehicles are running when it destroys them (`LastStepRepeats`). The lemmas follow the code: what each function of class
  `Ovnis` does to each field of a fleet, what the three calls of a step do
  together (`RefreshedInOrder`), then that SUMO's step and the fleet's match
  (`StepSynced`). In the refinement a step is a `Move` of the vehicles that are not
  in both lists, the last one a `Close`, everything else a stutter.
- `BeaconingMacProofs`: `TypeCorrect` (indices between 0 and `BeaconLost`, no
  node its own neighbour), `AppMirrorsMacHolds` and `DropNeedsLossesHolds`. The
  type invariant is inductive; the mirror is inductive together with it, because
  the set reported to the application is the set removed from the table, whatever
  the erase loop chooses. The action property needs `AgeInv`: an entry ages by one
  per interval of its owner, in which the neighbour sends one beacon that is
  heard, lost or still in the air. The two timers are not in phase, so the
  invariant counts in ticks and lets them differ by what they show (`Covered`);
  the clock stands still while a beacon is in the air (`FramesFresh`).
- `OvnisWifiChannelProofs`: `ChannelTypeCorrect`, `OneCellEachHolds`,
  `CellOfSetPosHolds`, `NoFrameAfterRemoveHolds` and `CloseAreReachedHolds`, for any
  grid, range and set of phys. The inductive invariant `ChannelInv` joins the type,
  the agreement of grid, cell pointer and list, the cell being that of the
  position last set, and the true position staying within `Drift` of it. The last
  theorem then rests on arithmetic: two positions less than a cell's side apart
  lie in the same or adjacent cells.
- `OvnisWifiPhyProofs`: `TypeCorrect`, `ReceptionSound` (`ReceptionIsSound`) and
  `IdleMeansQuietHolds`, for any finite set of frames, any powers, thresholds and
  durations. `ReceptionIsSound` is inductive together with the type: it ties the
  time left of the reception to that of its frame, whose place no other frame can
  take meanwhile. `IdleMeansQuiet` speaks of the present only and is not inductive:
  nothing in it says why the medium is quiet when a timer runs out. `QuietLater`
  says so in advance: at every later instant by which the phy's timers are over,
  the frames then still in the air have less energy together than the CCA
  threshold, or one that a transmission cut is among them. A new frame keeps it
  because the phy looks for the last instant at which the energy reaches the
  threshold, a lapse of time because it only shifts the instants.
- `TrafficInformationProofs`: for every estimation method `TypeCorrect`,
  `HonestDatesHold` and `PerfectIsFreshestHolds`; with "last" also
  `NeverStalerHolds` and, when routes share no edge (`Sharing <= 1`),
  `UsedIsFreshHolds`; for any fleet, links, route, loss, delay and reordering.
  `GossipInv` adds to the type that no entry anywhere is dated later than it was
  measured and that the last entry of a record has the latest date (`AllHonest`),
  and that for each entry the TIS has a record at least as late (`AllKnown`). What
  is passed on is dated by `getTime`; whatever the method, this is at most the
  latest date of the record (`TimeNoLater`, for "average" by `MeanWithin` of
  `Aggregates`). With "last" dates stay exact (`AllExact`): then `add`'s comparison
  of dates is a comparison of measurements, from which the action property
  follows, and a cost that passes the test of its age is as young as it looks.
  Assumes `MaxTime > 0`, since the clock starts at 1.
- `FceRoutingProofs`: all that `routing` and `route_choice` check. `TypeCorrect`,
  `CountMatchesHolds` and the action property `TravelTimeWithinHolds` hold for any
  finite fleet and any network. Their invariant `RoutingInv` relates the
  application of each vehicle to its car in SUMO: until the decision both are on
  the route of departure (`Departed`); no instant is in the future, and what was
  noticed before this poll is in the past; a vehicle that will report has noticed
  when it left the decision edge (`LeftNoticed`) and reports with the first
  notification edge it gets to (`ReportDone`). `FollowsChoiceHolds` adds
  `FollowInv`: once decided, what is ahead of the car is the end of the chosen
  alternative. `DecidedReportsHolds` and `ReportedOnceHolds` add `OrderInv`, by a
  ranking of the edges along which all routes lead upwards: all edges reported lie
  below the one the vehicle is on. These three assume of the network `RoutesMeet`
  (vehicles depart on alternatives, which all pass the decision edges) and `Upward`
  (there is such a ranking). Both networks of `SetNetwork`
  (`src/test/applications/FceApplication.cpp:110-149`) have these properties, and
  TLC evaluates them on that of the run. About one decision, `ChoiceIsRouteHolds`,
  `DrawnAsProbableHolds` and `CheaperIsLikelierHolds` hold for any routes and costs
  unless there is exactly one alternative (section 6). That the draw hits each
  route as often as its probability says is the theory of sums in `Aggregates`
  applied to the intervals of the draw that fall to the routes.
- `TripAnalysisProofs`: all that `trips` checks, `TypeCorrect`,
  `FreshUnlessSilentHolds`, `OwnGroupAveragesHolds`, `FailuresExplainedHolds` and
  `OnlyLastRouteMixedHolds`, for any folders, routes, strategies and number of
  launches. The properties are about values read by position, so `TripInv` says
  says what is in the files: a `tripstats.txt` holds, of the log of a launch, a part
  of the lines about all trips, those and the table of strategies, or all that
  `write_group_stats` writes (`Written`, `FileInv`), and `average.txt` is absent or has the
  form in which `write_average_stats` leaves it (`AverageInv`). The lemmas then
  follow a file through its writer and its reader: which line belongs to which
  route (`FirstRows`, by counting the routes before each), where the header of the
  strategies is, and that the reader's index arrives there (`TableRead`,
  `FileRead`, `AverageRead`). How a reading ends depends on the shape of the file:
  `ShortFileRead` and `BrokenOffRead` for those broken off, `FileRead` for a whole one,
  with `RowsFail` for the first row that names an unknown group or has an empty field.
- `Aggregates`: the least element of a set of numbers, the greatest of a finite
  one, sums of a function over a finite set and over parts of it, and that a mean
  is no larger than a bound of the numbers. The library's sum is a fold, defined by
  recursion over subsets, and induction over it is out of the prover's reach; so
  each lemma looks at a smallest subset for which it fails, which exists because
  the strict subset relation on a finite set is well-founded.

The assumptions on constants are those the code justifies: sets of frames and
vehicles are finite; the CCA threshold is positive; the strategies and routes that
the scripts sort are sequences without repetition, whose names differ from each
other and from "total"; no decision edge is a notification edge.

## 5. What is only model-checked

Liveness (`EndsUnlessStopStepRepeats`, `StoppedIsForgotten`, `ReceptionEnds`) and
everything about `ENABLED`, which the prover does not handle. Every other property
of a passing run is stated by a theorem. `NeverStaler` and `UsedIsFresh` are proved
for "last" only because they do not hold of the other methods (section 6).

## 6. Where code and comments disagree

Shown by a run:

- `stop_departure`: SUMO's lists are subscribed to up to the stop time
  (`ovnis.cpp:307`), but the loop takes one step more. The lists of the stop step
  are handed out again in it, and if a vehicle departed in the stop step,
  `Names::Add` (`ovnis.cpp:613`) aborts on its name instead of ending the simulation.
- `gossip_shared`: `packetAge = 0` after an expired record (`knowledge.cpp:163`)
  makes it fresh for the next route with that edge. The Kirchberg routes do
  share edges.

Part of the model, and visible in its definitions, without a run of their own:

- After a loss of the TraCI connection the time no longer changes and the "real
  loop until stop time" (`ovnis.cpp:749`) never ends, unless SIGPIPE ends the
  program (`DoCommand`, `Continues`).
- The loop tests the time read before the step, so SUMO is taken one step past
  the stop time (`Continues`). What SUMO does in that step Ovnis never learns. Only
  `runningVehicles` are destroyed at the end (`ovnis.cpp:757`), and nothing calls
  `Simulator::Stop`; that no radio is left over (`NothingLeft`) is due to the
  repeated lists: with a subscription to that step too, a vehicle that departs in it
  would beacon for ever (the mutant `ReadResponseForEver`).
- A neighbour is given up after `BeaconLost + 1` silent intervals, not after
  `BeaconLost` (`ArrayToErase`); of k neighbours that expire together k/2 + 1 are
  removed (`Erased`).
- The window average takes the oldest values (`recordEntry.cpp:223`, `Averaged`), so
  `UsedIsFresh` does not hold with "average"; with "average" the latest value is
  sent with the mean date (`dissemination.cpp:33`), so that a value can be replaced
  by one measured earlier and `NeverStaler` does not hold either.
- `1 / costsSize` is an integer division (`trafficInformationSystem.cpp:256`); with
  a route without cost next to two or more with one, no route gets a probability
  (`getProbabilities`).
- A transmission cuts a reception short and nobody senses the medium again, so
  the phy may call it idle while the frame is still in the air (`SendPacket`,
  the exception in `IdleMeansQuiet`). A phy created during the run is deaf for
  the 250 microseconds of a channel switch (`Init`).
- A launch that logs no arrival leaves the log of the launch before, and its
  statistics are computed again under the new one's name (`FreshUnlessSilent`).
- The averages stop with an `IndexError` at a `tripstats.txt` that is being
  written or broke off in its first lines, with a `KeyError` at a strategy other than
  "shortest" and "probabilistic" ("noRouting", "hybrid"), with a `ValueError` at a
  group of one vehicle (`float('')`, `analyse.py:247`), and with a `ValueError`, after
  `average.txt` was truncated, if no vehicle took one of the routes. On a file that
  broke off before the table of routes the search for it never ends
  (`analyse.py:278`, `FailuresExplained`).
- No strategy name ends the section of a route in `average.txt`, so the last
  route is compared by the numbers of a strategy (`OnlyLastRouteMixed`).

Noticed on the way, without a run or outside the model: a vehicle with
"noRouting" whose own route is no alternative asks SUMO for an empty route, which
SUMO refuses; `requestRoute` then takes the first edge of the old route for newly
entered, and the vehicle never reports its route (the instance of `routing` has
only alternatives as SUMO's routes, `RouteDecision` covers the choice itself).
With a single alternative and an own route that is none, the own route enters the
costs with 0; exactly one cost is then positive, and `getProbabilities` gives all
the probability to the free route, which is the own one, so that the draw names a
route the vehicle cannot follow. Neither network of the code has a single
alternative, and the theorems about the decision exclude it. The
main program sets the parameter
`penetrationRate` while `Ovnis` reads `penedtrationRate`; `SetBeaconGeneration`
is called by nothing; the `catch` clauses around vehicle queries are dead, for
the queries swallow their errors; `receiveExact` has no timeout.

## 7. What is not modelled, and what is assumed

- Error rates, conversions of power and propagation: whether a frame is received
  without error is open, and its power is any of a set. Byte layout of TraCI
  messages and packets.
- `TIS::getCosts`, route lengths and static costs (planned, section 8);
  densities and congestion flags, which feed logs or are overwritten by
  `ChooseRoute`; `CalculateError`, which only logs. The vehicle counts of
  `Knowledge` are modelled, but the code reads them into locals only.
- Code that nothing calls: `writeEdges`, `DetectCommunities`, `ReadCommunities`,
  `InitializeCrowdz`, `SendNeighborInformation`, the `-original` MAC, the older
  applications, `traci-client.cc`.
- Pure I/O and glue: configuration parser, log, helpers, tags, vendored ns-3
  applications. The Python bindings of the latter
  (`src/src/applications/bindings/modulegen__gcc_*.py`) are output of pybindgen; at
  18624 lines they are most of the Python in the repository, and none of it is
  logic of OVNIS, so a count of Python lines alone says little about this model:
  the core is C++.
- `scripts/analyse.py` and `scripts/analyseSumo.py`: one pass from files to plots
  without state that outlives it. Read, not modelled; worth knowing: the indexes
  of the cut window are computed in file order and used after sorting (674-689,
  751-852), the cut statistics of the driver columns use the array of the column
  before (845), the names in `calculateAvg` depend on the order of a dictionary
  (901-932), and `processElem` drops the first element of a range (952-975).
- In `python/analyse.py`, the plots, the command line and the link errors
  (`process_edges_error` is commented out in its main).
- A change of route that SUMO refuses is in the model (`ChangeVehicleEdges`), but no
  property of a run exercises it: the network of `routing`, and three theorems,
  assume `RoutesMeet`, under which SUMO accepts every change (section 6 says what
  happens otherwise). `CountMatchesHolds` and `TravelTimeWithinHolds` do without.
- The window average (`recordEntry.cpp:216`) is modelled, but no property of its age
  holds: `UsedIsFresh` is checked for "last" (section 6).
- Assumed of the environment: positions lie inside the area, not on its far
  border; the first poll comes at least one step after the start of an
  application; costs of routes are positive; routes have no loops; SUMO's
  identifiers are unique.

## 8. Plan

Order of work, most important behaviour first. Done: channel and cells,
beaconing MAC, coupling loop with its abstract specification, traffic
information, phy, route choice, routing and reporting, and experiment scripts,
all with proofs.

Left:

1. Proofs: for "average", by how much a date can be earlier than its measurement;
   routing with own routes that are no alternatives.
2. TraCI: a query as command, answer and status, with the storage's read
   position; which failures are noticed.
3. `TIS::getCosts` with its expiry; static costs and correlation of routes
   as algorithms against reference definitions.
4. Composition of `TrafficInformation` with `FceRouting`: costs that come from
   what was heard; and of `OvnisWifiPhy` with `OvnisWifiChannel`: several radios.

## 9. Running

In this directory, `tlc -config <file>.cfg <module>` for a run of `PROJECT.json`
and `tlapm <module>Proofs.tla` for the proofs. Each run takes under three minutes,
the proofs two to three minutes for `FceRouting` and `TripAnalysis` and under a
minute for the others.
