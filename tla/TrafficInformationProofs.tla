----------------------- MODULE TrafficInformationProofs -----------------------
(***************************************************************************)
(* Proofs about TrafficInformation for any set of vehicles, any radio      *)
(* ranges, any route and any loss, delay and reordering of packets.  That  *)
(* dates are honest and that the TIS knows best holds for every estimation *)
(* method, because a mean of dates is no later than the latest of them.    *)
(* What compares one value of an edge with another is proved for the       *)
(* method "last", which alone passes dates on as they were measured.       *)
(***************************************************************************)
EXTENDS TrafficInformation, Aggregates, TLAPS

\* Entries that do not look newer than they are.
Honest == {x \in Entries : x.date <= x.value}

\* The last entry of a record has the latest date.
LatestLast(rec) == \A i \in DOMAIN rec : rec[i].date <= getLatest(rec).date

Records == {rec \in Seq(Honest) : LatestLast(rec)}

\* Entries whose date is the instant their value was measured, after the
\* start: a date of 0 stands for none in analyseLocalDatabase.
Exact == {x \in Entries : x.date = x.value /\ x.date > 0}

\* Every entry in a table or in a packet is honest, at the TIS even exact.
AllHonest ==
    /\ travelTimes \in [Vehicles -> [Edges -> Records]]
    /\ perfect \in [Edges -> Seq(Exact)]
    /\ \A c \in air : \A d \in c[2].data : d.entry \in Honest

\* With "last" every entry in a table or in a packet is exact.
AllExact ==
    /\ travelTimes \in [Vehicles -> [Edges -> Seq(Exact)]]
    /\ \A c \in air : \A d \in c[2].data : d.entry \in Exact

\* The TIS knows of an instant of edge e at least as late as m.
TisKnows(e, m) == perfect[e] # <<>> /\ m <= getLatest(perfect[e]).value

\* Everything known anywhere is known to the TIS, and nothing is from the
\* future.
AllKnown ==
    /\ \A v \in Vehicles, e \in Edges :
          travelTimes[v][e] # <<>> => TisKnows(e, getLatest(travelTimes[v][e]).value)
    /\ \A c \in air : \A d \in c[2].data : TisKnows(d.edge, d.entry.value)
    /\ \A e \in Edges : perfect[e] # <<>> => getLatest(perfect[e]).value <= now
    /\ now > 0

\* The inductive invariant, of any method and of "last".
GossipInv == TypeOK /\ AllHonest /\ AllKnown
IInv == GossipInv /\ AllExact

-----------------------------------------------------------------------------

\* The latest entry of a record is one of its entries.
LEMMA LatestIn ==
    ASSUME NEW S, NEW rec \in Seq(S), rec # <<>>
    PROVE  getLatest(rec) \in S
BY DEF getLatest

\* Both kinds of entries are entries.
LEMMA KindsOfEntries == Exact \in SUBSET Entries /\ Honest \in SUBSET Entries
BY DEF Exact, Honest

\* What add returns: a record that is not empty, whose latest entry is the
\* new one, which is then later than all before, or the old one.
LEMMA AddFacts ==
    ASSUME NEW S \in SUBSET Entries, NEW rec \in Seq(S), NEW x \in S
    PROVE  /\ add(rec, x) \in Seq(S)
           /\ add(rec, x) # <<>>
           /\ \/ add(rec, x) = rec /\ rec # <<>> /\ x.date <= getLatest(rec).date
              \/ getLatest(add(rec, x)) = x /\ (rec # <<>> => getLatest(rec).date < x.date)
<1>1. CASE rec = <<>> \/ x.date > getLatest(rec).date
  <2>1. add(rec, x) = Append(rec, x)
    BY <1>1 DEF add
  <2>2. Append(rec, x) \in Seq(S) /\ Append(rec, x) # <<>> /\ getLatest(Append(rec, x)) = x
    BY DEF getLatest
  <2>3. rec # <<>> => getLatest(rec).date < x.date
    <3>1. SUFFICES ASSUME rec # <<>> PROVE getLatest(rec).date < x.date
      OBVIOUS
    <3>2. getLatest(rec) \in Entries /\ x \in Entries
      BY <3>1, LatestIn
    <3> QED BY <1>1, <3>1, <3>2, TimesAssumption DEF Entries, Instants
  <2> QED BY <2>1, <2>2, <2>3
<1>2. CASE ~(rec = <<>> \/ x.date > getLatest(rec).date)
  <2>1. add(rec, x) = rec /\ rec # <<>>
    BY <1>2 DEF add
  <2>2. getLatest(rec) \in Entries /\ x \in Entries
    BY <2>1, LatestIn
  <2>3. x.date <= getLatest(rec).date
    BY <1>2, <2>2, TimesAssumption DEF Entries, Instants
  <2> QED BY <2>1, <2>3
<1> QED BY <1>1, <1>2

\* A sequence over a set is one over any larger set.
LEMMA SeqMonotone ==
    ASSUME NEW S, NEW T, S \subseteq T, NEW rec \in Seq(S)
    PROVE  rec \in Seq(T)
OBVIOUS

\* record keeps what add keeps.
LEMMA RecordFacts ==
    ASSUME NEW S \in SUBSET Entries, NEW rec \in Seq(S), NEW x \in S
    PROVE  /\ record(rec, x) \in Seq(S)
           /\ record(rec, x) # <<>>
           /\ \/ record(rec, x) = rec /\ rec # <<>>
              \/ getLatest(record(rec, x)) = x /\ (rec # <<>> => getLatest(rec).date < x.date)
<1>1. CASE rec = <<>> \/ getTime(rec) < x.date
  BY <1>1, AddFacts DEF record
<1>2. CASE ~(rec = <<>> \/ getTime(rec) < x.date)
  BY <1>2 DEF record
<1> QED BY <1>1, <1>2

-----------------------------------------------------------------------------

\* The same for the two kinds of entries there are.
LEMMA AddExact ==
    ASSUME NEW rec \in Seq(Exact), NEW x \in Exact
    PROVE  /\ add(rec, x) \in Seq(Exact)
           /\ add(rec, x) # <<>>
           /\ \/ add(rec, x) = rec /\ rec # <<>> /\ x.date <= getLatest(rec).date
              \/ getLatest(add(rec, x)) = x
BY KindsOfEntries, AddFacts

LEMMA RecordExact ==
    ASSUME NEW rec \in Seq(Exact), NEW x \in Exact
    PROVE  /\ record(rec, x) \in Seq(Exact)
           /\ record(rec, x) # <<>>
           /\ \/ record(rec, x) = rec /\ rec # <<>>
              \/ getLatest(record(rec, x)) = x /\ (rec # <<>> => getLatest(rec).date < x.date)
BY KindsOfEntries, RecordFacts

LEMMA RecordHonest ==
    ASSUME NEW rec \in Seq(Honest), NEW x \in Honest
    PROVE  record(rec, x) = rec \/ getLatest(record(rec, x)) = x
BY KindsOfEntries, RecordFacts

\* A record is a sequence of entries.
LEMMA RecordsAreSequences == Records \subseteq Seq(Honest) /\ Records \subseteq Seq(Entries)
<1>1. Records \subseteq Seq(Honest)
  BY DEF Records
<1>2. ASSUME NEW rec \in Records PROVE rec \in Seq(Entries)
  <2>1. Honest \subseteq Entries /\ rec \in Seq(Honest)
    BY <1>1 DEF Honest
  <2> QED BY <2>1, SeqMonotone
<1> QED BY <1>1, <1>2

\* A record that has the latest date at its end keeps it there.
LEMMA RecordKeepsRecords ==
    ASSUME NEW rec \in Records, NEW x \in Honest
    PROVE  record(rec, x) \in Records
<1> USE TimesAssumption
<1>1. CASE record(rec, x) = rec
  BY <1>1
<1>2. CASE record(rec, x) # rec
  <2>1. /\ record(rec, x) = Append(rec, x)
        /\ rec = <<>> \/ x.date > getLatest(rec).date
    BY <1>2 DEF record, add
  <2>2. rec \in Seq(Honest) /\ LatestLast(rec)
    BY DEF Records
  <2>3. Append(rec, x) \in Seq(Honest) /\ getLatest(Append(rec, x)) = x
    BY <2>2 DEF getLatest
  <2>4. ASSUME NEW i \in DOMAIN Append(rec, x) PROVE Append(rec, x)[i].date <= x.date
    <3>1. x \in Entries /\ x.date \in Int
      BY DEF Honest, Entries, Instants
    <3>2. CASE i = Len(rec) + 1
      BY <2>2, <3>1, <3>2
    <3>3. CASE i # Len(rec) + 1
      <4>1. /\ i \in DOMAIN rec /\ Append(rec, x)[i] = rec[i] /\ rec # <<>>
            /\ rec[i] \in Honest /\ getLatest(rec) \in Honest
        BY <2>2, <2>4, <3>3 DEF getLatest
      <4>2. rec[i].date \in Int /\ getLatest(rec).date \in Int
        BY <4>1 DEF Honest, Entries, Instants
      <4>3. rec[i].date <= getLatest(rec).date /\ x.date > getLatest(rec).date
        BY <2>1, <2>2, <4>1 DEF LatestLast
      <4> QED BY <3>1, <4>1, <4>2, <4>3
    <3> QED BY <3>2, <3>3
  <2> QED BY <2>1, <2>3, <2>4 DEF Records, LatestLast
<1> QED BY <1>1, <1>2

\* Whatever the method, getTime is no later than the latest date: a mean of
\* dates is not, and 0 is not.
LEMMA TimeNoLater ==
    ASSUME NEW rec \in Records, rec # <<>>
    PROVE  getTime(rec) \in 0..getLatest(rec).date
<1> USE TimesAssumption
<1> DEFINE b == getLatest(rec).date
           dates == [i \in DOMAIN rec |-> rec[i].date]
<1>1. rec \in Seq(Honest) /\ LatestLast(rec)
  BY DEF Records
<1>2. getLatest(rec) \in Honest
  BY <1>1 DEF getLatest
<1>3. b \in Nat
  BY <1>2 DEF Honest, Entries, Instants
<1>4. getAverageTime(rec) \in 0..b
  <2>1. DOMAIN rec = 1..Len(rec) /\ Len(rec) \in Nat
    BY <1>1
  <2>2. IsFiniteSet(1..Len(rec)) /\ Cardinality(1..Len(rec)) = Len(rec) /\ 1..Len(rec) # {}
    <3>1. 1 \in Int /\ Len(rec) \in Int /\ Len(rec) > 0
      BY <1>1
    <3>2. /\ IsFiniteSet(1..Len(rec))
          /\ Cardinality(1..Len(rec)) = IF 1 > Len(rec) THEN 0 ELSE Len(rec) - 1 + 1
      BY <3>1, FS_Interval
    <3> QED BY <3>1, <3>2
  <2>3. \A i \in DOMAIN rec : rec[i].date \in 0..b
    <3> SUFFICES ASSUME NEW i \in DOMAIN rec PROVE rec[i].date \in 0..b
      OBVIOUS
    <3>1. rec[i] \in Honest
      BY <1>1
    <3>2. rec[i].date \in Nat
      BY <3>1 DEF Honest, Entries, Instants
    <3>3. rec[i].date <= b
      BY <1>1 DEF LatestLast
    <3> QED BY <1>3, <3>2, <3>3
  <2>4. dates \in [1..Len(rec) -> 0..b]
    BY <2>1, <2>3
  <2> HIDE DEF dates, b
  <2>5. SumFunction(dates) \div Cardinality(1..Len(rec)) \in 0..b
    BY <1>3, <2>2, <2>4, MeanWithin
  <2> QED BY <2>2, <2>5 DEF getAverageTime, dates
<1>5. getTime(rec) \in {b, getAverageTime(rec), 0}
  BY DEF getTime
<1> HIDE DEF b
<1>6. getTime(rec) \in 0..b
  BY <1>3, <1>4, <1>5
<1> QED BY <1>6 DEF b

\* No report takes a vehicle count below zero.
LEMMA CountsStayNat ==
    ASSUME NEW counts \in [Edges -> Nat], NEW packet
    PROVE  Counted(counts, packet) \in [Edges -> Nat]
<1> DEFINE Count(e) == Counted(counts, packet)[e]
<1>1. ASSUME NEW e \in Edges PROVE Count(e) \in Nat
  <2>1. counts[e] \in Nat
    OBVIOUS
  <2>2. Count(e) \in {counts[e], counts[e] + 1, IF counts[e] = 0 THEN 0 ELSE counts[e] - 1}
    BY DEF Counted
  <2> HIDE DEF Count
  <2> QED BY <2>1, <2>2
<1> QED BY <1>1 DEF Counted

\* One step preserves the invariant, whatever the method.
LEMMA NextKeepsGossipInv ==
    ASSUME GossipInv, [Next]_vars
    PROVE  GossipInv'
<1> USE RouteAssumption, TimesAssumption, LinksAssumption
<1>1. ASSUME NEW v \in Vehicles, OnEdgeChanged(v) PROVE GossipInv'
  <2> DEFINE left == Route[position[v]]
             entry == [date |-> now, value |-> now]
             p == ChangedEdgePacket(v)
  <2>1. left \in Edges /\ Route[position[v] + 1] \in Edges
    BY <1>1 DEF OnEdgeChanged, NextEdge, GossipInv, TypeOK, Edges
  <2>2. entry \in Exact /\ entry \in Honest
    BY DEF Exact, Honest, Entries, GossipInv, TypeOK, AllKnown, Instants
  <2>3. perfect[left] \in Seq(Exact)
    BY <2>1 DEF GossipInv, AllHonest
  <2>4. /\ perfect' = [perfect EXCEPT ![left] = add(@, entry)]
        /\ UNCHANGED <<now, travelTimes, numberOfVehicles>>
        /\ air' = air \cup {<<l[2], p>> : l \in {k \in Links : k[1] = v}}
    BY <1>1 DEF OnEdgeChanged, Broadcast
  <2>5. /\ position' \in [Vehicles -> DOMAIN Route]
        /\ enteredTime' \in [Vehicles -> Instants]
    BY <1>1 DEF OnEdgeChanged, NextEdge, GossipInv, TypeOK, Edges, Instants
  <2>6. /\ p.data = {[edge |-> left, entry |-> entry]}
        /\ p \in Packets
    BY <2>1, <2>2 DEF ChangedEdgePacket, Packets, Exact
  <2>7. /\ add(perfect[left], entry) \in Seq(Exact)
        /\ add(perfect[left], entry) # <<>>
        /\ getLatest(add(perfect[left], entry)).value = now
        /\ perfect[left] # <<>> => getLatest(perfect[left]).value <= now
    <3>1. perfect[left] # <<>> => getLatest(perfect[left]) \in Exact
      BY <2>3, LatestIn
    <3>2. perfect[left] # <<>> => getLatest(perfect[left]).value <= now
      BY <2>1 DEF GossipInv, AllKnown
    <3> HIDE DEF left, entry
    <3>3. /\ add(perfect[left], entry) \in Seq(Exact)
          /\ add(perfect[left], entry) # <<>>
          /\ \/ /\ add(perfect[left], entry) = perfect[left]
                /\ perfect[left] # <<>> /\ entry.date <= getLatest(perfect[left]).date
             \/ getLatest(add(perfect[left], entry)) = entry
      BY <2>2, <2>3, AddExact
    <3>4. entry.date = now /\ entry.value = now /\ now \in Nat
      BY DEF entry, GossipInv, TypeOK, Instants
    <3>5. CASE getLatest(add(perfect[left], entry)) = entry
      BY <3>2, <3>3, <3>4, <3>5
    <3>6. CASE /\ add(perfect[left], entry) = perfect[left]
               /\ perfect[left] # <<>> /\ entry.date <= getLatest(perfect[left]).date
      BY <3>1, <3>2, <3>3, <3>4, <3>6 DEF Exact, Entries, Instants
    <3> QED BY <3>3, <3>5, <3>6
  <2> HIDE DEF left, entry, p
  <2>8. TypeOK'
    <3>1. air' \subseteq Vehicles \X Packets
      BY <2>4, <2>6 DEF GossipInv, TypeOK
    <3>2. perfect' \in [Edges -> Seq(Entries)]
      <4>1. Exact \subseteq Entries
        BY DEF Exact
      <4>2. add(perfect[left], entry) \in Seq(Entries)
        BY <2>7, <4>1, SeqMonotone
      <4> QED BY <2>1, <2>4, <4>2 DEF GossipInv, TypeOK
    <3> QED BY <2>4, <2>5, <3>1, <3>2 DEF GossipInv, TypeOK
  <2>9. AllHonest'
    <3>1. perfect' \in [Edges -> Seq(Exact)]
      BY <2>1, <2>4, <2>7 DEF GossipInv, AllHonest
    <3>2. ASSUME NEW c \in air', NEW d \in c[2].data PROVE d.entry \in Honest
      BY <2>2, <2>4, <2>6, <3>2 DEF GossipInv, AllHonest
    <3> QED BY <2>4, <3>1, <3>2 DEF GossipInv, AllHonest
  <2>10. AllKnown'
    <3>1. ASSUME NEW e \in Edges, NEW m \in Instants, TisKnows(e, m) PROVE TisKnows(e, m)'
      <4>1. CASE e = left
        <5>1. perfect[left] # <<>> /\ getLatest(perfect[left]) \in Exact
          BY <2>3, <3>1, <4>1, LatestIn DEF TisKnows
        <5>2. perfect'[e] = add(perfect[left], entry)
          BY <2>1, <2>4, <4>1 DEF GossipInv, TypeOK
        <5>3. m <= getLatest(perfect[left]).value
          BY <3>1, <4>1 DEF TisKnows
        <5>4. getLatest(perfect[left]).value \in Int /\ m \in Int /\ now \in Int
          BY <5>1 DEF Exact, Entries, Instants, GossipInv, TypeOK
        <5>5. m <= now
          BY <2>7, <5>1, <5>3, <5>4
        <5> QED BY <2>7, <5>2, <5>5 DEF TisKnows
      <4>2. CASE e # left
        BY <2>4, <3>1, <4>2 DEF TisKnows, GossipInv, TypeOK
      <4> QED BY <4>1, <4>2
    <3>2. ASSUME NEW w \in Vehicles, NEW e \in Edges, travelTimes'[w][e] # <<>>
          PROVE  TisKnows(e, getLatest(travelTimes[w][e]).value)'
      <4>1. getLatest(travelTimes[w][e]) \in Entries
        BY <2>4, <3>2, LatestIn DEF GossipInv, TypeOK
      <4>2. TisKnows(e, getLatest(travelTimes[w][e]).value)
        BY <2>4, <3>2 DEF GossipInv, AllKnown
      <4> QED BY <2>4, <3>1, <4>1, <4>2 DEF TisKnows, Entries
    <3>3. ASSUME NEW c \in air', NEW d \in c[2].data
          PROVE  TisKnows(d.edge, d.entry.value)'
      <4>1. CASE c \in air
        <5>1. d.edge \in Edges /\ d.entry.value \in Instants
          BY <3>3, <4>1 DEF GossipInv, TypeOK, Packets, Entries
        <5> QED BY <3>1, <3>3, <4>1, <5>1 DEF GossipInv, AllKnown
      <4>2. CASE c \notin air
        <5>1. d = [edge |-> left, entry |-> entry]
          BY <2>4, <2>6, <3>3, <4>2
        <5>2. d.edge = left /\ d.entry.value = now
          BY <5>1 DEF entry
        <5>3. perfect'[left] = add(perfect[left], entry)
          BY <2>1, <2>4 DEF GossipInv, TypeOK
        <5> QED BY <2>7, <5>2, <5>3 DEF TisKnows, GossipInv, TypeOK, Instants
      <4> QED BY <4>1, <4>2
    <3>4. ASSUME NEW e \in Edges, perfect'[e] # <<>> PROVE getLatest(perfect'[e]).value <= now'
      <4>1. CASE e = left
        <5>1. perfect'[e] = add(perfect[left], entry)
          BY <2>1, <2>4, <4>1 DEF GossipInv, TypeOK
        <5> QED BY <2>4, <2>7, <5>1 DEF GossipInv, TypeOK, Instants
      <4>2. CASE e # left
        BY <2>4, <3>4, <4>2 DEF GossipInv, AllKnown, TypeOK
      <4> QED BY <4>1, <4>2
    <3>5. now' > 0
      BY <2>4 DEF GossipInv, AllKnown
    <3> QED BY <3>2, <3>3, <3>4, <3>5 DEF AllKnown, getLatest
  <2> QED BY <2>8, <2>9, <2>10 DEF GossipInv
<1>2. ASSUME NEW v \in Vehicles, SendTrafficInformation(v) PROVE GossipInv'
  <2> DEFINE records == getTrafficInformationToSend(v)
             p == [sender |-> v, entered |-> NoEdge, data |-> records]
  <2>1. /\ UNCHANGED <<now, position, enteredTime, travelTimes, numberOfVehicles, perfect>>
        /\ air' = air \cup {<<l[2], p>> : l \in {k \in Links : k[1] = v}}
    BY <1>2 DEF SendTrafficInformation, Broadcast, driving
  <2>2. ASSUME NEW d \in records
        PROVE  /\ d \in [edge : Edges, entry : Entries]
               /\ d.entry \in Honest
               /\ TisKnows(d.edge, d.entry.value)
    <3>1. PICK e \in getEdgesAhead(v) :
             /\ travelTimes[v][e] # <<>>
             /\ d = [edge |-> e, entry |-> [date |-> getTime(travelTimes[v][e]),
                                            value |-> getLatest(travelTimes[v][e]).value]]
      BY <2>2 DEF getTrafficInformationToSend
    <3>2. e \in Edges
      BY <3>1 DEF getEdgesAhead, Edges, GossipInv, TypeOK
    <3>3. travelTimes[v][e] \in Records /\ travelTimes[v][e] \in Seq(Honest)
      BY <3>2 DEF GossipInv, AllHonest, Records
    <3>4. getLatest(travelTimes[v][e]) \in Honest
      BY <3>1, <3>3, LatestIn
    <3>5. getTime(travelTimes[v][e]) \in 0..getLatest(travelTimes[v][e]).date
      BY <3>1, <3>3, TimeNoLater
    <3>6. TisKnows(e, getLatest(travelTimes[v][e]).value)
      BY <3>1, <3>2 DEF GossipInv, AllKnown
    <3>7. /\ d.edge = e
          /\ d.entry = [date |-> getTime(travelTimes[v][e]),
                        value |-> getLatest(travelTimes[v][e]).value]
      BY <3>1
    <3>8. d.entry \in Honest
      BY <3>4, <3>5, <3>7 DEF Honest, Entries, Instants
    <3>9. d.entry \in Entries /\ d.entry.value = getLatest(travelTimes[v][e]).value
      BY <3>7, <3>8 DEF Honest
    <3> QED BY <3>1, <3>2, <3>6, <3>7, <3>8, <3>9
  <2>3. p \in Packets
    BY <2>2 DEF Packets
  <2>4. p.data = records
    OBVIOUS
  <2> HIDE DEF p, records
  <2>5. ASSUME NEW c \in air' \ air PROVE c[2] = p
    BY <2>1
  <2>6. TypeOK'
    BY <2>1, <2>3 DEF GossipInv, TypeOK
  <2>7. AllHonest'
    BY <2>1, <2>2, <2>4, <2>5 DEF GossipInv, AllHonest
  <2>8. AllKnown'
    <3>1. ASSUME NEW c \in air', NEW d \in c[2].data PROVE TisKnows(d.edge, d.entry.value)'
      <4>1. TisKnows(d.edge, d.entry.value)
        BY <2>2, <2>4, <2>5, <3>1 DEF GossipInv, AllKnown
      <4> QED BY <2>1, <4>1 DEF TisKnows
    <3> QED BY <2>1, <3>1 DEF GossipInv, AllKnown, TisKnows
  <2> QED BY <2>6, <2>7, <2>8 DEF GossipInv
<1>3. ASSUME NEW c \in air, ReceivePacket(c[1], c[2]) PROVE GossipInv'
  <2> DEFINE v == c[1]
             p == c[2]
             Heard(e) == (CHOOSE d \in p.data : d.edge = e).entry
             IsHeard(e) == \E d \in p.data : d.edge = e
  <2>1. v \in Vehicles /\ p \in Packets
    BY DEF GossipInv, TypeOK
  <2>2. /\ air' = air \ {<<v, p>>}
        /\ numberOfVehicles' = [numberOfVehicles EXCEPT ![v] = Counted(@, p)]
        /\ travelTimes' = [travelTimes EXCEPT ![v] =
              [e \in Edges |-> IF IsHeard(e) THEN record(@[e], Heard(e)) ELSE @[e]]]
        /\ UNCHANGED <<now, position, enteredTime, perfect>>
    BY <1>3 DEF ReceivePacket, driving
  <2>3. ASSUME NEW e \in Edges, IsHeard(e)
        PROVE  Heard(e) \in Honest /\ TisKnows(e, Heard(e).value)
    BY <2>3 DEF GossipInv, AllHonest, AllKnown
  <2> HIDE DEF v, p, Heard, IsHeard
  <2>4. numberOfVehicles' \in [Vehicles -> [Edges -> Nat]]
    <3>1. numberOfVehicles[v] \in [Edges -> Nat]
      BY <2>1 DEF GossipInv, TypeOK
    <3>2. Counted(numberOfVehicles[v], p) \in [Edges -> Nat]
      BY <3>1, CountsStayNat
    <3> QED BY <2>1, <2>2, <3>2 DEF GossipInv, TypeOK
  <2>5. ASSUME NEW w \in Vehicles, NEW e \in Edges
        PROVE  \/ travelTimes'[w][e] = travelTimes[w][e]
               \/ /\ w = v /\ IsHeard(e)
                  /\ travelTimes'[w][e] = record(travelTimes[w][e], Heard(e))
    BY <2>1, <2>2 DEF GossipInv, TypeOK
  <2>6. ASSUME NEW w \in Vehicles, NEW e \in Edges
        PROVE  /\ travelTimes'[w][e] \in Records
               /\ travelTimes'[w][e] # <<>> => TisKnows(e, getLatest(travelTimes'[w][e]).value)
    <3>1. travelTimes[w][e] \in Records /\ travelTimes[w][e] \in Seq(Honest)
      BY DEF GossipInv, AllHonest, Records
    <3>2. CASE travelTimes'[w][e] = travelTimes[w][e]
      BY <3>1, <3>2 DEF GossipInv, AllKnown
    <3>3. CASE IsHeard(e) /\ travelTimes'[w][e] = record(travelTimes[w][e], Heard(e))
      <4>1. Heard(e) \in Honest /\ TisKnows(e, Heard(e).value)
        BY <2>3, <3>3
      <4>2. \/ travelTimes'[w][e] = travelTimes[w][e]
            \/ getLatest(travelTimes'[w][e]) = Heard(e)
        BY <3>1, <3>3, <4>1, RecordHonest
      <4>3. travelTimes'[w][e] \in Records
        BY <3>1, <3>3, <4>1, RecordKeepsRecords
      <4> QED BY <3>2, <4>1, <4>2, <4>3
    <3> QED BY <2>5, <3>2, <3>3
  <2>7. travelTimes' \in [Vehicles -> [Edges -> Records]]
    <3>1. travelTimes' = [w \in Vehicles |-> [e \in Edges |-> travelTimes'[w][e]]]
      BY <2>1, <2>2 DEF GossipInv, TypeOK
    <3> QED BY <2>6, <3>1
  <2>8. travelTimes' \in [Vehicles -> [Edges -> Seq(Entries)]]
    BY <2>7, RecordsAreSequences
  <2>9. TypeOK'
    BY <2>2, <2>4, <2>8 DEF GossipInv, TypeOK
  <2>10. AllHonest'
    BY <2>2, <2>7 DEF GossipInv, AllHonest
  <2>11. AllKnown'
    BY <2>2, <2>6 DEF GossipInv, AllKnown, TisKnows
  <2> QED BY <2>9, <2>10, <2>11 DEF GossipInv
<1>4. ASSUME NEW c \in air, LosePacket(c[1], c[2]) PROVE GossipInv'
  <2>1. /\ air' \subseteq air
        /\ UNCHANGED <<now, position, enteredTime, travelTimes, numberOfVehicles, perfect>>
    BY <1>4 DEF LosePacket, driving
  <2> QED BY <2>1 DEF GossipInv, TypeOK, AllHonest, AllKnown, TisKnows
<1>5. ASSUME Tick PROVE GossipInv'
  <2>1. /\ now' \in Instants /\ now < now' /\ now' > 0
        /\ UNCHANGED <<position, enteredTime, travelTimes, numberOfVehicles, perfect, air>>
    BY <1>5 DEF Tick, driving, GossipInv, TypeOK, Instants
  <2>2. ASSUME NEW e \in Edges, perfect[e] # <<>> PROVE getLatest(perfect[e]).value <= now'
    <3>1. getLatest(perfect[e]) \in Entries
      BY <2>2, LatestIn DEF GossipInv, TypeOK
    <3> QED BY <2>1, <2>2, <3>1 DEF GossipInv, AllKnown, TypeOK, Entries, Instants
  <2> QED BY <2>1, <2>2 DEF GossipInv, TypeOK, AllHonest, AllKnown, TisKnows
<1>6. CASE UNCHANGED vars
  BY <1>6 DEF vars, GossipInv, TypeOK, AllHonest, AllKnown, TisKnows
<1> QED BY <1>1, <1>2, <1>3, <1>4, <1>5, <1>6 DEF Next

\* With "last", what is heard and passed on stays exact.
LEMMA NextKeepsExact ==
    ASSUME Method = "last", GossipInv, AllExact, [Next]_vars
    PROVE  AllExact'
<1> USE RouteAssumption, TimesAssumption, LinksAssumption
<1>1. ASSUME NEW v \in Vehicles, OnEdgeChanged(v) PROVE AllExact'
  <2> DEFINE p == ChangedEdgePacket(v)
  <2>1. /\ UNCHANGED travelTimes
        /\ air' = air \cup {<<l[2], p>> : l \in {k \in Links : k[1] = v}}
    BY <1>1 DEF OnEdgeChanged, Broadcast
  <2>2. \A d \in p.data : d.entry \in Exact
    BY DEF ChangedEdgePacket, Exact, Entries, GossipInv, TypeOK, AllKnown, Instants
  <2> HIDE DEF p
  <2> QED BY <2>1, <2>2 DEF AllExact
<1>2. ASSUME NEW v \in Vehicles, SendTrafficInformation(v) PROVE AllExact'
  <2> DEFINE records == getTrafficInformationToSend(v)
             p == [sender |-> v, entered |-> NoEdge, data |-> records]
  <2>1. /\ UNCHANGED travelTimes
        /\ air' = air \cup {<<l[2], p>> : l \in {k \in Links : k[1] = v}}
    BY <1>2 DEF SendTrafficInformation, Broadcast
  <2>2. ASSUME NEW d \in p.data PROVE d.entry \in Exact
    <3>1. PICK e \in getEdgesAhead(v) :
             /\ travelTimes[v][e] # <<>>
             /\ d = [edge |-> e, entry |-> [date |-> getTime(travelTimes[v][e]),
                                            value |-> getLatest(travelTimes[v][e]).value]]
      BY <2>2 DEF getTrafficInformationToSend
    <3>2. e \in Edges
      BY <3>1 DEF getEdgesAhead, Edges, GossipInv, TypeOK
    <3>3. getLatest(travelTimes[v][e]) \in Exact
      BY <3>1, <3>2, LatestIn DEF AllExact
    <3>4. getTime(travelTimes[v][e]) = getLatest(travelTimes[v][e]).date
      BY DEF getTime
    <3>5. d.entry = getLatest(travelTimes[v][e])
      BY <3>1, <3>3, <3>4 DEF Exact, Entries
    <3> QED BY <3>3, <3>5
  <2> HIDE DEF p
  <2> QED BY <2>1, <2>2 DEF AllExact
<1>3. ASSUME NEW c \in air, ReceivePacket(c[1], c[2]) PROVE AllExact'
  <2> DEFINE v == c[1]
             p == c[2]
             Heard(e) == (CHOOSE d \in p.data : d.edge = e).entry
             IsHeard(e) == \E d \in p.data : d.edge = e
  <2>1. v \in Vehicles
    BY DEF GossipInv, TypeOK
  <2>2. /\ air' \subseteq air
        /\ travelTimes' = [travelTimes EXCEPT ![v] =
              [e \in Edges |-> IF IsHeard(e) THEN record(@[e], Heard(e)) ELSE @[e]]]
    BY <1>3 DEF ReceivePacket
  <2>3. ASSUME NEW e \in Edges, IsHeard(e) PROVE Heard(e) \in Exact
    BY <2>3 DEF AllExact
  <2> HIDE DEF v, p, Heard, IsHeard
  <2>4. ASSUME NEW w \in Vehicles, NEW e \in Edges
        PROVE  travelTimes'[w][e] \in Seq(Exact)
    <3>1. travelTimes[w][e] \in Seq(Exact)
      BY DEF AllExact
    <3>2. \/ travelTimes'[w][e] = travelTimes[w][e]
          \/ IsHeard(e) /\ travelTimes'[w][e] = record(travelTimes[w][e], Heard(e))
      BY <2>1, <2>2 DEF AllExact
    <3> QED BY <2>3, <3>1, <3>2, RecordExact
  <2>5. travelTimes' \in [Vehicles -> [Edges -> Seq(Exact)]]
    <3>1. travelTimes' = [w \in Vehicles |-> [e \in Edges |-> travelTimes'[w][e]]]
      BY <2>1, <2>2 DEF AllExact
    <3> QED BY <2>4, <3>1
  <2> QED BY <2>2, <2>5 DEF AllExact
<1>4. ASSUME NEW c \in air, LosePacket(c[1], c[2]) PROVE AllExact'
  <2>1. air' \subseteq air /\ UNCHANGED travelTimes
    BY <1>4 DEF LosePacket
  <2> QED BY <2>1 DEF AllExact
<1>5. CASE Tick \/ UNCHANGED vars
  <2>1. UNCHANGED <<travelTimes, air>>
    BY <1>5 DEF Tick, vars
  <2> QED BY <2>1 DEF AllExact
<1> QED BY <1>1, <1>2, <1>3, <1>4, <1>5 DEF Next

\* The initial state satisfies both.
LEMMA InitGivesIInv ==
    ASSUME MaxTime > 0, Init
    PROVE  IInv
<1> USE RouteAssumption, TimesAssumption
<1>1. TypeOK
  BY DEF Init, TypeOK, Instants, Edges
<1>2. AllHonest
  <2>1. <<>> \in Records
    BY DEF Records, LatestLast
  <2> QED BY <2>1 DEF Init, AllHonest
<1>3. AllExact /\ AllKnown
  BY DEF Init, AllExact, AllKnown
<1> QED BY <1>1, <1>2, <1>3 DEF IInv, GossipInv

\* Whatever the method, information stays honest and known to the TIS.
LEMMA AlwaysGossipInv ==
    ASSUME MaxTime > 0
    PROVE  Spec => []GossipInv
<1>1. Init => GossipInv
  BY InitGivesIInv DEF IInv
<1>2. GossipInv /\ [Next]_vars => GossipInv'
  BY NextKeepsGossipInv
<1> QED BY <1>1, <1>2, PTL DEF Spec

\* With "last" it also stays exact.
LEMMA AlwaysIInv ==
    ASSUME Method = "last", MaxTime > 0
    PROVE  Spec => []IInv
<1>1. Init => IInv
  BY InitGivesIInv
<1>2. IInv /\ [Next]_vars => IInv'
  BY NextKeepsGossipInv, NextKeepsExact DEF IInv
<1> QED BY <1>1, <1>2, PTL DEF Spec

\* Counters and records keep their types: a vehicle count never gets below
\* zero, however reports are lost, delayed or overtake each other.
THEOREM TypeCorrect ==
    ASSUME MaxTime > 0
    PROVE  Spec => []TypeOK
<1>1. GossipInv => TypeOK
  BY DEF GossipInv
<1> QED BY <1>1, AlwaysGossipInv, PTL

\* However packets are lost, delayed, reordered or relayed, and whatever method
\* dates what is relayed, no information carries a date later than the instant
\* of its measurement.
THEOREM HonestDatesHold ==
    ASSUME MaxTime > 0
    PROVE  Spec => []HonestDates
<1>1. GossipInv => HonestDates
  <2> SUFFICES ASSUME GossipInv PROVE HonestDates
    OBVIOUS
  <2>1. ASSUME NEW v \in Vehicles, NEW e \in Edges, NEW i \in DOMAIN travelTimes[v][e]
        PROVE  travelTimes[v][e][i].date <= travelTimes[v][e][i].value
    <3>1. travelTimes[v][e] \in Seq(Honest)
      BY DEF GossipInv, AllHonest, Records
    <3>2. travelTimes[v][e][i] \in Honest
      BY <3>1
    <3> QED BY <3>2 DEF Honest
  <2>2. ASSUME NEW c \in air, NEW d \in c[2].data PROVE d.entry.date <= d.entry.value
    <3>1. d.entry \in Honest
      BY DEF GossipInv, AllHonest
    <3> QED BY <3>1 DEF Honest
  <2> QED BY <2>1, <2>2 DEF HonestDates
<1> QED BY <1>1, AlwaysGossipInv, PTL

\* No vehicle ever knows more recent travel times than the TIS, for any
\* fleet, any method and any behaviour of the medium.
THEOREM PerfectIsFreshestHolds ==
    ASSUME MaxTime > 0
    PROVE  Spec => []PerfectIsFreshest
<1>1. GossipInv => PerfectIsFreshest
  BY DEF GossipInv, AllKnown, TisKnows, PerfectIsFreshest
<1> QED BY <1>1, AlwaysGossipInv, PTL

\* The value a vehicle holds for an edge is never replaced by an older one.
THEOREM NeverStalerHolds ==
    ASSUME Method = "last", MaxTime > 0
    PROVE  Spec => NeverStaler
<1> DEFINE Fresher(v, e) == travelTimes[v][e] # <<>> =>
              /\ travelTimes'[v][e] # <<>>
              /\ getLatest(travelTimes[v][e]).value <= getLatest(travelTimes'[v][e]).value
<1>1. ASSUME IInv, [Next]_vars, NEW v \in Vehicles, NEW e \in Edges PROVE Fresher(v, e)
  <2> SUFFICES ASSUME travelTimes[v][e] # <<>>
               PROVE  /\ travelTimes'[v][e] # <<>>
                      /\ getLatest(travelTimes[v][e]).value <= getLatest(travelTimes'[v][e]).value
    OBVIOUS
  <2>1. travelTimes[v][e] \in Seq(Exact) /\ getLatest(travelTimes[v][e]) \in Exact
    BY <1>1, LatestIn DEF IInv, AllExact
  <2>2. CASE travelTimes'[v][e] = travelTimes[v][e]
    BY <2>1, <2>2, TimesAssumption DEF Exact, Entries, Instants
  <2>3. ASSUME NEW x \in Exact, travelTimes'[v][e] = record(travelTimes[v][e], x)
        PROVE  /\ travelTimes'[v][e] # <<>>
               /\ getLatest(travelTimes[v][e]).value <= getLatest(travelTimes'[v][e]).value
    <3>1. /\ travelTimes'[v][e] # <<>>
          /\ \/ travelTimes'[v][e] = travelTimes[v][e]
             \/ /\ getLatest(travelTimes'[v][e]) = x
                /\ getLatest(travelTimes[v][e]).date < x.date
      BY <2>1, <2>3, RecordExact
    <3> QED BY <2>1, <2>3, <3>1, TimesAssumption DEF Exact, Entries, Instants
  <2>4. ASSUME NEW c \in air, ReceivePacket(c[1], c[2])
        PROVE  \/ travelTimes'[v][e] = travelTimes[v][e]
               \/ \E x \in Exact : travelTimes'[v][e] = record(travelTimes[v][e], x)
    <3>1. c[1] \in Vehicles /\ (\A d \in c[2].data : d.entry \in Exact)
      BY <1>1 DEF IInv, GossipInv, TypeOK, AllExact
    <3>2. CASE c[1] = v /\ \E d \in c[2].data : d.edge = e
      <4>1. (CHOOSE d \in c[2].data : d.edge = e).entry \in Exact
        BY <3>1, <3>2
      <4>2. travelTimes'[v][e] =
               record(travelTimes[v][e], (CHOOSE d \in c[2].data : d.edge = e).entry)
        BY <1>1, <2>4, <3>1, <3>2 DEF ReceivePacket, IInv, GossipInv, TypeOK
      <4> QED BY <4>1, <4>2
    <3>3. CASE ~(c[1] = v /\ \E d \in c[2].data : d.edge = e)
      BY <1>1, <2>4, <3>1, <3>3 DEF ReceivePacket, IInv, GossipInv, TypeOK
    <3> QED BY <3>2, <3>3
  <2>5. CASE UNCHANGED travelTimes
    BY <2>2, <2>5
  <2>6. UNCHANGED travelTimes \/ \E c \in air : ReceivePacket(c[1], c[2])
    BY <1>1 DEF Next, vars, OnEdgeChanged, SendTrafficInformation, LosePacket, Tick
  <2> QED BY <2>2, <2>3, <2>4, <2>5, <2>6
<1>2. IInv /\ [Next]_vars => [\A v \in Vehicles, e \in Edges : Fresher(v, e)]_vars
  BY <1>1
<1> QED BY <1>2, AlwaysIInv, PTL DEF Spec, NeverStaler

\* On routes that share no edge, what a vehicle or the TIS takes into the cost
\* of a route was measured less than the ttl ago.
THEOREM UsedIsFreshHolds ==
    ASSUME Method = "last", MaxTime > 0, Sharing <= 1
    PROVE  Spec => []UsedIsFresh
<1>1. IInv => UsedIsFresh
  <2> SUFFICES ASSUME IInv, NEW e \in Edges, NEW k \in 1..Sharing,
                      NEW rec \in {perfect[e]} \cup {travelTimes[v][e] : v \in Vehicles},
                      NEW m \in Estimate(rec, k)
               PROVE  now - m < Ttl
    BY DEF UsedIsFresh
  <2>1. rec \in Seq(Exact)
    BY DEF IInv, GossipInv, AllHonest, AllExact
  <2>2. rec # <<>>
    BY DEF Estimate
  <2>3. /\ getLatest(rec) \in Exact
        /\ getTime(rec) = getLatest(rec).date
        /\ getValue(rec) = <<getLatest(rec)>>
    BY <2>1, <2>2, LatestIn DEF getTime, getValue
  <2>4. /\ getTime(rec) = getLatest(rec).value /\ getTime(rec) # 0
        /\ getTime(rec) \in Int /\ now \in Int /\ Ttl \in Int
    BY <2>3, TimesAssumption DEF Exact, Entries, Instants, IInv, GossipInv, TypeOK
  <2>5. k = 1
    BY SharingAssumption
  <2>6. CASE FreshEnough(now - getTime(rec), k)
    <3>1. Estimate(rec, k) = {getValue(rec)[i].value : i \in DOMAIN getValue(rec)}
      BY <2>2, <2>4, <2>6 DEF Estimate
    <3>2. m = getLatest(rec).value
      BY <2>3, <3>1
    <3> QED BY <2>4, <2>5, <2>6, <3>2 DEF FreshEnough
  <2>7. CASE ~FreshEnough(now - getTime(rec), k)
    <3>1. Estimate(rec, k) = {}
      BY <2>2, <2>4, <2>7 DEF Estimate
    <3> QED BY <3>1
  <2> QED BY <2>6, <2>7
<1> QED BY <1>1, AlwaysIInv, PTL

=============================================================================
