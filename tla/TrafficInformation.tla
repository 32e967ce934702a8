-------------------------- MODULE TrafficInformation --------------------------
(***************************************************************************)
(* The travel time information FceApplication spreads.  A vehicle that     *)
(* leaves an edge measures its travel time, tells the centralised TIS and  *)
(* broadcasts it; every few seconds a vehicle also broadcasts what it has  *)
(* heard about the edges ahead of it.  What it hears goes into its         *)
(* Knowledge, one RecordEntry per edge, from which the costs of the        *)
(* alternative routes are estimated.                                       *)
(*                                                                         *)
(* A travel time is represented by the instant at which it was measured:   *)
(* an entry is a record [date, value], the date it carries and the instant *)
(* its value really stems from.  Time is counted in ticks and the mean of  *)
(* several dates is rounded down to a tick.                                *)
(***************************************************************************)
EXTENDS Integers, Sequences, FiniteSets, Functions

CONSTANTS
    Vehicles,
    Links,          \* pairs <<sender, receiver>> within radio range
    Route,          \* the edges, in the order in which vehicles drive them
    Method,         \* parameter timeEstimationMethod
    Ttl,            \* parameter ttl
    MemoryLength,   \* RecordEntry::memoryLength
    Sharing,        \* how many alternative routes an edge belongs to
    MaxTime,        \* bound: the clock stops here
    Prompt          \* whether a packet arrives or is lost before the clock moves

ASSUME LinksAssumption == Links \subseteq {l \in Vehicles \X Vehicles : l[1] # l[2]}
ASSUME RouteAssumption == Route \in Seq(Nat) /\ Len(Route) > 0
ASSUME MethodAssumption == Method \in {"last", "average", "decay", "tmc"}
ASSUME TimesAssumption == Ttl \in Nat /\ MemoryLength \in Nat \ {0} /\ MaxTime \in Nat
ASSUME SharingAssumption == Sharing \in Nat
ASSUME PromptAssumption == Prompt \in BOOLEAN

VARIABLES
    now,               \* the simulation clock
    position,          \* index in Route of the edge each vehicle is on
    enteredTime,       \* Edge::enteredTime of that edge
    travelTimes,       \* Knowledge::travelTimes of each vehicle: edge -> entries
    numberOfVehicles,  \* Knowledge::numberOfVehicles of each vehicle
    perfect,           \* TIS::perfectTravelTimes
    air                \* packets in flight, pairs <<receiver, packet>>

driving == <<position, enteredTime>>
vars == <<now, position, enteredTime, travelTimes, numberOfVehicles, perfect, air>>

Edges == {Route[i] : i \in DOMAIN Route}
Instants == 0..MaxTime
Entries == [date : Instants, value : Instants]
NoEdge == -1

\* A CHANGED_EDGE packet carries one entry, about the edge left, and the edge
\* entered; a TRAFFICINFO packet carries entries only.
Packets == [sender : Vehicles, entered : Edges \cup {NoEdge},
            data : SUBSET [edge : Edges, entry : Entries]]

TypeOK ==
    /\ now \in Instants
    /\ position \in [Vehicles -> DOMAIN Route]
    /\ enteredTime \in [Vehicles -> Instants]
    /\ travelTimes \in [Vehicles -> [Edges -> Seq(Entries)]]
    /\ numberOfVehicles \in [Vehicles -> [Edges -> Nat]]
    /\ perfect \in [Edges -> Seq(Entries)]
    /\ air \subseteq Vehicles \X Packets

\* Every vehicle starts on the first edge.
Init ==
    /\ now = 1
    /\ position = [v \in Vehicles |-> 1]
    /\ enteredTime = [v \in Vehicles |-> 0]
    /\ travelTimes = [v \in Vehicles |-> [e \in Edges |-> <<>>]]
    /\ numberOfVehicles = [v \in Vehicles |-> [e \in Edges |-> 0]]
    /\ perfect = [e \in Edges |-> <<>>]
    /\ air = {}

-----------------------------------------------------------------------------
(* RecordEntry *)

getLatest(rec) == rec[Len(rec)]

\* Faulty variant: whatever is heard is appended.
addAlways(rec, entry) == Append(rec, entry)

\* add: only an entry with a later date than the latest, or the first.
add(rec, entry) ==
    IF rec = <<>> \/ entry.date > getLatest(rec).date THEN Append(rec, entry) ELSE rec

getAverageTime(rec) == SumFunction([i \in DOMAIN rec |-> rec[i].date]) \div Len(rec)

\* getTime, on a record that is not empty.  decayTime is never set, and
\* "tmc" is not handled: both give 0.
getTime(rec) ==
    CASE Method = "last"    -> getLatest(rec).date
      [] Method = "average" -> getAverageTime(rec)
      [] OTHER              -> 0

Within(rec, min, max) == {i \in DOMAIN rec : rec[i].date >= min /\ rec[i].date < max}

\* The entries whose values getAverageValue(min, max) averages.  It counts
\* those within the window, but its index only moves on when it counts one,
\* so that it adds up as many values from the front of the vector.
Averaged(rec, min, max) == SubSeq(rec, 1, Cardinality(Within(rec, min, max)))

\* What getValue("average") leaves of its record: from the second entry to
\* the first one that is not two memory lengths old, everything is erased.
Trimmed(rec) ==
    LET kept == Within(rec, now - 2 * MemoryLength, now)
        first == CHOOSE i \in kept : \A j \in kept : i <= j
    IN  IF kept = {} \/ first = 1 THEN rec
        ELSE SubSeq(rec, 1, 1) \o SubSeq(rec, first + 1, Len(rec))

\* The start of the "tmc" window: the last complete memory period.
TmcStart == (now \div MemoryLength) * MemoryLength - MemoryLength

\* The entries behind getValue(Method), none when its result is not positive:
\* decayValue stays -1, the mean of no value is not a number.
getValue(rec) ==
    CASE Method = "last"    -> <<getLatest(rec)>>
      [] Method = "average" -> Averaged(rec, now - MemoryLength, now)
      [] Method = "tmc"     -> Averaged(rec, TmcStart, TmcStart + MemoryLength)
      [] OTHER              -> <<>>

-----------------------------------------------------------------------------
(* Knowledge and Dissemination *)

\* Knowledge::record compares with getTime, then add compares again.
record(rec, entry) ==
    IF rec = <<>> \/ getTime(rec) < entry.date THEN add(rec, entry) ELSE rec

\* Faulty variant: information never expires.
OfAnyAge(age, k) == TRUE

\* analyseLocalDatabase goes through the routes an edge belongs to and takes
\* its travel time into those for which packetAge is below the ttl.  It resets
\* packetAge to 0 at a route for which the information was too old, so that it
\* is young again at the next.
FreshEnough(age, k) ==
    LET packetAge == IF k > 1 /\ age > Ttl THEN 0 ELSE age
    IN  packetAge < Ttl

\* What analyseLocalDatabase takes into the cost of the k-th of the routes the
\* edge belongs to: the instants at which the values were measured.  With none,
\* the static cost of the edge stands.
Estimate(rec, k) ==
    IF rec = <<>> THEN {}
    ELSE LET left == IF Method = "average" THEN Trimmed(rec) ELSE rec
             packetDate == getTime(left)
             age == IF packetDate = 0 THEN 0 ELSE now - packetDate
         IN  IF FreshEnough(age, k)
             THEN {getValue(rec)[i].value : i \in DOMAIN getValue(rec)}
             ELSE {}

\* Vehicle::getEdgesAhead, with the current edge.
getEdgesAhead(v) == {Route[i] : i \in position[v]..Len(Route)}

\* Faulty variant: information is passed on as if it were new.
SendAsNew(v) ==
    {[edge |-> e, entry |-> [date |-> now, value |-> getLatest(travelTimes[v][e]).value]] :
        e \in {a \in getEdgesAhead(v) : travelTimes[v][a] # <<>>}}

\* getTrafficInformationToSend: the latest value, with the date of getTime.
getTrafficInformationToSend(v) ==
    {[edge |-> e, entry |-> [date |-> getTime(travelTimes[v][e]),
                             value |-> getLatest(travelTimes[v][e]).value]] :
        e \in {a \in getEdgesAhead(v) : travelTimes[v][a] # <<>>}}

Broadcast(v, packet) == air' = air \cup {<<l[2], packet>> : l \in {k \in Links : k[1] = v}}

-----------------------------------------------------------------------------
(* FceApplication *)

\* The vehicle is polled every SIMULATION_STEP_INTERVAL, a tick: it is found
\* on its next edge at the earliest one tick after the last.
NextEdge(v) ==
    /\ position[v] < Len(Route) /\ enteredTime[v] < now
    /\ position' = [position EXCEPT ![v] = @ + 1]
    /\ enteredTime' = [enteredTime EXCEPT ![v] = now]

\* BuildChangedEdgePacket.
ChangedEdgePacket(v) ==
    [sender |-> v, entered |-> Route[position[v] + 1],
     data |-> {[edge |-> Route[position[v]], entry |-> [date |-> now, value |-> now]]}]

\* Faulty variant: the TIS is not told.
ChangedEdgeUnreported(v) ==
    /\ NextEdge(v)
    /\ Broadcast(v, ChangedEdgePacket(v))
    /\ UNCHANGED <<now, travelTimes, numberOfVehicles, perfect>>

\* OnEdgeChanged: broadcast the travel time on the edge left, report it.
OnEdgeChanged(v) ==
    /\ NextEdge(v)
    /\ Broadcast(v, ChangedEdgePacket(v))
    /\ perfect' = [perfect EXCEPT ![Route[position[v]]] =
                      add(@, [date |-> now, value |-> now])]
    /\ UNCHANGED <<now, travelTimes, numberOfVehicles>>

\* SendTrafficInformation, when there is something to send.
SendTrafficInformation(v) ==
    LET records == getTrafficInformationToSend(v)
    IN  /\ records # {}
        /\ Broadcast(v, [sender |-> v, entered |-> NoEdge, data |-> records])
        /\ UNCHANGED <<now, driving, travelTimes, numberOfVehicles, perfect>>

\* Faulty variant: the test for 0 is forgotten.
CountBelowZero(counts, packet) ==
    [e \in Edges |->
        CASE packet.entered = NoEdge -> counts[e]
          [] e = packet.entered -> counts[e] + 1
          [] \E d \in packet.data : d.edge = e -> counts[e] - 1
          [] OTHER -> counts[e]]

\* substractNumberOfVehicles of the edge left, not below 0, then
\* addNumberOfVehicles of the edge entered.
Counted(counts, packet) ==
    [e \in Edges |->
        CASE packet.entered = NoEdge -> counts[e]
          [] e = packet.entered -> counts[e] + 1
          [] \E d \in packet.data : d.edge = e -> IF counts[e] = 0 THEN 0 ELSE counts[e] - 1
          [] OTHER -> counts[e]]

\* ReceivePacket, of either type.
ReceivePacket(v, packet) ==
    /\ <<v, packet>> \in air
    /\ air' = air \ {<<v, packet>>}
    /\ numberOfVehicles' = [numberOfVehicles EXCEPT ![v] = Counted(@, packet)]
    /\ travelTimes' = [travelTimes EXCEPT ![v] =
          [e \in Edges |->
              IF \E d \in packet.data : d.edge = e
              THEN record(@[e], (CHOOSE d \in packet.data : d.edge = e).entry)
              ELSE @[e]]]
    /\ UNCHANGED <<now, driving, perfect>>

LosePacket(v, packet) ==
    /\ <<v, packet>> \in air
    /\ air' = air \ {<<v, packet>>}
    /\ UNCHANGED <<now, driving, travelTimes, numberOfVehicles, perfect>>

Tick ==
    /\ now < MaxTime
    /\ Prompt => air = {}
    /\ now' = now + 1
    /\ UNCHANGED <<driving, travelTimes, numberOfVehicles, perfect, air>>

Next ==
    \/ \E v \in Vehicles : OnEdgeChanged(v) \/ SendTrafficInformation(v)
    \/ \E c \in air : ReceivePacket(c[1], c[2]) \/ LosePacket(c[1], c[2])
    \/ Tick

Spec == Init /\ [][Next]_vars

-----------------------------------------------------------------------------
(* Properties *)

\* However it was relayed, lost or reordered, information never carries a
\* date later than the instant its value was measured: nothing old looks new,
\* whatever getTime makes of the dates it is passed on with.
HonestDates ==
    /\ \A v \in Vehicles, e \in Edges : \A i \in DOMAIN travelTimes[v][e] :
          travelTimes[v][e][i].date <= travelTimes[v][e][i].value
    /\ \A c \in air : \A d \in c[2].data : d.entry.date <= d.entry.value

\* No vehicle knows a later travel time of an edge than the TIS does, which
\* is what makes "perfect" knowledge the yardstick of CalculateError.
PerfectIsFreshest ==
    \A v \in Vehicles, e \in Edges : travelTimes[v][e] # <<>> =>
        /\ perfect[e] # <<>>
        /\ getLatest(travelTimes[v][e]).value <= getLatest(perfect[e]).value

\* The comment in Knowledge::record: "record only information that is fresher
\* than the last heard".  The latest value of an edge is never replaced by
\* one that was measured earlier.
NeverStaler ==
    [][\A v \in Vehicles, e \in Edges : travelTimes[v][e] # <<>> =>
          /\ travelTimes'[v][e] # <<>>
          /\ getLatest(travelTimes[v][e]).value <= getLatest(travelTimes'[v][e]).value]_vars

\* The comment in analyseLocalDatabase: "information was recorded about this
\* edge and is fresh enough".  Whether a vehicle decides on what it heard or on
\* what the TIS knows (knowledgeType), no value as old as the ttl is taken into
\* the cost of any of its routes.
UsedIsFresh ==
    \A e \in Edges, k \in 1..Sharing :
        \A rec \in {perfect[e]} \cup {travelTimes[v][e] : v \in Vehicles} :
            \A m \in Estimate(rec, k) : now - m < Ttl

=============================================================================
