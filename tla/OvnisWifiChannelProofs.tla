----------------------- MODULE OvnisWifiChannelProofs -----------------------
(***************************************************************************)
(* Proofs about OvnisWifiChannel, for every set of phys, grid, range and   *)
(* drift.  The first section is about the grid alone, ChannelCells; the    *)
(* proofs about the coupling loop use it too.                              *)
(***************************************************************************)
EXTENDS OvnisWifiChannel, TLAPS

-----------------------------------------------------------------------------
(* The channel's grid *)

\* A coordinate inside the area has a cell inside the grid.
LEMMA QuotientInGrid ==
    ASSUME NEW n \in Nat \ {0}, NEW p \in 0..(n * Range - 1)
    PROVE  p \div Range \in 0..(n - 1)
<1>1. p \div Range \in Nat /\ Range * (p \div Range) <= p /\ p < n * Range
  BY RangeAssumption
<1>2. p \div Range < n
  BY <1>1, RangeAssumption
<1> QED  BY <1>1, <1>2

\* updateArea makes the grid large enough for every position of the area.
LEMMA CellOfInGrid ==
    ASSUME NEW p \in Area
    PROVE  CellOf(p) \in Cells /\ CellOf(p) # NoCell
<1>1. p[1] \in 0..(Rows * Range - 1) /\ p[2] \in 0..(Cols * Range - 1)
  BY DEF Area
<1>2. p[1] \div Range \in 0..(Rows - 1) /\ p[2] \div Range \in 0..(Cols - 1)
  BY <1>1, QuotientInGrid, GridAssumption
<1> QED  BY <1>2 DEF CellOf, Cells, NoCell

\* A cell is not the null pointer.
LEMMA CellIsNotNull == NoCell \notin Cells
BY DEF NoCell, Cells

\* A phy joins at the origin, which is inside the area.
LEMMA OriginInArea == Origin \in Area
BY RangeAssumption, GridAssumption DEF Origin, Area

\* The grid holds exactly the phys of m_phyList, each in its phy->cell.
InOrder(ch) ==
    /\ ch \in Channels
    /\ ch.content = {<<v, ch.cell[v]>> : v \in ch.list}

\* The grid is in order but for the phys of some, which may be in no cell yet.
OrderlyBut(ch, some) ==
    /\ ch \in Channels /\ some \subseteq ch.list
    /\ ch.content \subseteq {<<u, ch.cell[u]>> : u \in ch.list}
    /\ \A u \in ch.list : u \notin some \/ ch.cell[u] # NoCell => <<u, ch.cell[u]>> \in ch.content

\* The channel new is ch with the phys of some in the cells of their
\* positions, and the grid in order.
MovedTo(ch, some, p, new) ==
    /\ InOrder(new)
    /\ new.list = ch.list
    /\ new.cell = [u \in Phys |-> IF u \in some THEN CellOf(p[u]) ELSE ch.cell[u]]

\* What updatePhy does for phys whose positions are inside the area.
LEMMA UpdateSome ==
    ASSUME NEW ch, NEW some, OrderlyBut(ch, some), NEW p, \A v \in some : p[v] \in Area
    PROVE  MovedTo(ch, some, p, updatePhy(ch, some, p))
<1> DEFINE new == updatePhy(ch, some, p)
           changed == {u \in some : ch.cell[u] # CellOf(p[u])}
           kept == {e \in ch.content : ~(e[1] \in changed /\ e[2] = ch.cell[e[1]])}
           added == {<<u, CellOf(p[u])>> : u \in changed}
<1>1. \A u \in some : CellOf(p[u]) \in Cells /\ CellOf(p[u]) # NoCell
  BY CellOfInGrid
<1>2. /\ new.list = ch.list
      /\ new.content = kept \cup added
      /\ new.cell = [u \in Phys |-> IF u \in changed THEN CellOf(p[u]) ELSE ch.cell[u]]
      /\ new = [list |-> new.list, content |-> new.content, cell |-> new.cell]
  BY DEF updatePhy
<1>3. /\ ch.list \subseteq Phys /\ some \subseteq ch.list
      /\ ch.content \subseteq Phys \X Cells
      /\ ch.cell \in [Phys -> Cells \cup {NoCell}]
      /\ ch.content \subseteq {<<u, ch.cell[u]>> : u \in ch.list}
      /\ \A u \in ch.list : u \notin some \/ ch.cell[u] # NoCell => <<u, ch.cell[u]>> \in ch.content
  BY DEF OrderlyBut, Channels
<1> HIDE DEF new
<1>4. new.cell = [u \in Phys |-> IF u \in some THEN CellOf(p[u]) ELSE ch.cell[u]]
  BY <1>2
<1>5. new.content \subseteq {<<u, new.cell[u]>> : u \in ch.list}
  <2> SUFFICES ASSUME NEW e \in new.content
               PROVE  \E u \in ch.list : e = <<u, new.cell[u]>>
    OBVIOUS
  <2>1. CASE e \in kept
    <3>1. PICK u \in ch.list : e = <<u, ch.cell[u]>>
      BY <1>3, <2>1
    <3>2. u \notin changed
      BY <2>1, <3>1
    <3> QED  BY <1>2, <1>3, <3>1, <3>2
  <2>2. CASE e \in added
    <3>1. PICK u \in changed : e = <<u, CellOf(p[u])>>
      BY <2>2
    <3> QED  BY <1>2, <1>3, <3>1
  <2> QED  BY <1>2, <2>1, <2>2
<1>6. ASSUME NEW u \in ch.list PROVE <<u, new.cell[u]>> \in new.content
  <2>1. CASE u \in changed
    <3>1. new.cell[u] = CellOf(p[u])
      BY <1>2, <1>3, <2>1
    <3>2. <<u, CellOf(p[u])>> \in added
      BY <2>1
    <3> QED  BY <1>2, <3>1, <3>2
  <2>2. CASE u \notin changed
    <3>1. new.cell[u] = ch.cell[u]
      BY <1>2, <1>3, <2>2
    <3>2. u \notin some \/ ch.cell[u] # NoCell
      BY <1>1, <2>2
    <3>3. <<u, ch.cell[u]>> \in kept
      BY <1>3, <2>2, <3>2
    <3> QED  BY <1>2, <3>1, <3>3
  <2> QED  BY <2>1, <2>2
<1>7. new \in Channels
  <2>1. new.cell \in [Phys -> Cells \cup {NoCell}]
    BY <1>1, <1>3, <1>4
  <2>2. kept \subseteq Phys \X Cells
    BY <1>3
  <2>3. added \subseteq Phys \X Cells
    BY <1>1, <1>3
  <2> QED  BY <1>2, <1>3, <2>1, <2>2, <2>3 DEF Channels
<1>8. new.content = {<<u, new.cell[u]>> : u \in new.list}
  <2> HIDE DEF changed, kept, added
  <2>1. new.list = ch.list
    BY <1>2
  <2> QED  BY <1>5, <1>6, <2>1
<1>9. InOrder(new)
  BY <1>7, <1>8 DEF InOrder
<1>10. new.list = ch.list
  BY <1>2
<1> QED  BY <1>4, <1>9, <1>10 DEF new, MovedTo

\* The channel new is ch with the phys of some added, and the grid in order.
AddedTo(ch, some, new) ==
    /\ InOrder(new)
    /\ new.list = ch.list \cup some
    /\ \A u \in Phys \ some : new.cell[u] = ch.cell[u]

\* Add, for phys that were never on the channel.
LEMMA AddSome ==
    ASSUME NEW ch, InOrder(ch), NEW some \in SUBSET Phys, NEW p,
           \A v \in some : ch.cell[v] = NoCell /\ p[v] \in Area
    PROVE  AddedTo(ch, some, Add(ch, some, p))
<1> DEFINE more == [list |-> ch.list \cup some, content |-> ch.content, cell |-> ch.cell]
<1>1. Add(ch, some, p) = updatePhy(more, some, p)
  BY DEF Add
<1>2. OrderlyBut(more, some)
  BY DEF InOrder, OrderlyBut, Channels
<1>3. more.list = ch.list \cup some /\ more.cell = ch.cell
  OBVIOUS
<1> HIDE DEF more
<1>4. MovedTo(more, some, p, updatePhy(more, some, p))
  <2>1. \A v \in some : p[v] \in Area
    OBVIOUS
  <2> QED  BY <1>2, <2>1, UpdateSome
<1> QED  BY <1>1, <1>3, <1>4 DEF MovedTo, AddedTo

\* Remove takes the phys out of the list and out of their cells.
LEMMA RemoveSome ==
    ASSUME NEW ch, InOrder(ch), NEW gone
    PROVE  LET new == Remove(ch, gone)
           IN  /\ InOrder(new)
               /\ new.list = ch.list \ gone
               /\ new.cell = ch.cell
<1> DEFINE new == Remove(ch, gone)
<1>1. /\ new.list = ch.list \ gone
      /\ new.content = {e \in ch.content : ~(e[1] \in gone /\ e[2] = ch.cell[e[1]])}
      /\ new.cell = ch.cell
      /\ new = [list |-> new.list, content |-> new.content, cell |-> new.cell]
  BY DEF Remove
<1>2. /\ ch.list \subseteq Phys
      /\ ch.content \subseteq Phys \X Cells
      /\ ch.cell \in [Phys -> Cells \cup {NoCell}]
      /\ ch.content = {<<v, ch.cell[v]>> : v \in ch.list}
  BY DEF InOrder, Channels
<1> HIDE DEF new
<1>3. new.content = {<<v, ch.cell[v]>> : v \in ch.list \ gone}
  BY <1>1, <1>2
<1>4. new \in Channels
  BY <1>1, <1>2 DEF Channels
<1> QED  BY <1>1, <1>3, <1>4 DEF new, InOrder

\* A channel without phys is in order.
LEMMA EmptyInOrder == InOrder(EmptyChannel)
BY DEF InOrder, EmptyChannel, Channels

-----------------------------------------------------------------------------
(* The channel *)

USE RangeAssumption, GridAssumption, DriftAssumption

\* Two coordinates at most one range apart fall into the same interval or
\* into neighbouring ones.
LEMMA AdjacentQuotients ==
    ASSUME NEW p \in Nat, NEW q \in Nat, p - q \in (-Range)..Range
    PROVE  (p \div Range) - (q \div Range) \in -1..1
OBVIOUS

-----------------------------------------------------------------------------
(* The inductive invariant.  A phy that has not joined is still at the      *)
(* origin, and none is further than Drift from where it was last set.      *)

AtOrigin == \A v \in Phys \ Joined : pos[v] = Origin /\ setPos[v] = Origin

DriftBound == \A v \in Phys : Near(pos[v], setPos[v], Drift)

ChannelInv == ChannelTypeOK /\ OneCellEach /\ CellOfSetPos /\ AtOrigin /\ DriftBound

\* The channel new is ch with v moved to cell c, and the grid in order.
MovedOne(ch, v, c, new) ==
    /\ new \in Channels
    /\ new.list = ch.list
    /\ new.cell = [ch.cell EXCEPT ![v] = c]
    /\ new.content = {<<u, new.cell[u]>> : u \in ch.list}

\* What updatePhy does for one phy whose position is inside the area.
LEMMA UpdateOne ==
    ASSUME NEW ch, NEW v, OrderlyBut(ch, {v}), NEW p, p[v] \in Area
    PROVE  MovedOne(ch, v, CellOf(p[v]), updatePhy(ch, {v}, p))
<1> DEFINE new == updatePhy(ch, {v}, p)
<1>1. MovedTo(ch, {v}, p, new)
  <2>1. \A u \in {v} : p[u] \in Area
    OBVIOUS
  <2> QED  BY <2>1, UpdateSome
<1> HIDE DEF new
<1>2. ch.cell \in [Phys -> Cells \cup {NoCell}]
  BY DEF OrderlyBut, Channels
<1>3. new.cell = [ch.cell EXCEPT ![v] = CellOf(p[v])]
  BY <1>1, <1>2 DEF MovedTo
<1> QED  BY <1>1, <1>3 DEF MovedTo, MovedOne, InOrder, new

\* ChannelInv holds in every reachable state: updatePhy and Remove keep
\* content, cell and m_phyList in step, and only updatePhy changes a cell.
THEOREM ChannelInvariant == ChannelSpec => []ChannelInv
<1>1. ChannelInit => ChannelInv
  <2> SUFFICES ASSUME ChannelInit PROVE ChannelInv
    OBVIOUS
  <2>1. Origin \in Area
    BY DEF Origin, Area
  <2>2. ChannelTypeOK
    BY <2>1 DEF ChannelInit, ChannelTypeOK, Channels, EmptyChannel, Origin
  <2>3. OneCellEach /\ CellOfSetPos /\ AtOrigin
    BY DEF ChannelInit, OneCellEach, CellOfSetPos, AtOrigin, Joined, EmptyChannel
  <2>4. DriftBound
    <3>1. \A v \in Phys : pos[v] = <<0, 0>> /\ setPos[v] = <<0, 0>>
      BY DEF ChannelInit, Origin
    <3>2. 0 - 0 \in (-Drift)..Drift
      OBVIOUS
    <3>3. Near(<<0, 0>>, <<0, 0>>, Drift)
      BY <3>2 DEF Near
    <3> QED  BY <3>1, <3>3 DEF DriftBound
  <2> QED  BY <2>2, <2>3, <2>4 DEF ChannelInv
<1>2. ASSUME ChannelInv, [ChannelNext]_channelVars PROVE ChannelInv'
  <2> USE <1>2 DEF Channels
  <2>1. ASSUME NEW v \in Phys, SetChannel(v) PROVE ChannelInv'
    <3> DEFINE ch == [list |-> channel.list \cup {v}, content |-> channel.content,
                      cell |-> channel.cell]
    <3>1. channel.cell[v] = NoCell /\ pos[v] = Origin /\ setPos[v] = Origin /\ v \notin channel.list
      BY <2>1 DEF ChannelInv, SetChannel, Joined, AtOrigin, OneCellEach
    <3>2. Origin \in Area
      BY DEF Origin, Area
    <3>3. channel' = updatePhy(ch, {v}, pos)
      BY <2>1 DEF SetChannel, Add
    <3>4. /\ ch \in Channels
          /\ ch.content = {<<u, ch.cell[u]>> : u \in ch.list \ {v}}
          /\ ch.cell[v] = NoCell
      BY <3>1 DEF ChannelInv, ChannelTypeOK, OneCellEach
    <3> HIDE DEF ch
    <3>5. /\ channel' \in Channels
          /\ channel'.list = ch.list
          /\ channel'.cell = [ch.cell EXCEPT ![v] = CellOf(pos[v])]
          /\ channel'.content = {<<u, channel'.cell[u]>> : u \in ch.list}
      <4>1. v \in ch.list
        BY DEF ch
      <4>2. OrderlyBut(ch, {v}) /\ pos[v] \in Area
        BY <3>1, <3>2, <3>4, <4>1 DEF OrderlyBut
      <4>3. MovedOne(ch, v, CellOf(pos[v]), updatePhy(ch, {v}, pos))
        BY <4>2, UpdateOne
      <4>4. MovedOne(ch, v, CellOf(pos[v]), channel')
        BY <3>3, <4>3
      <4> HIDE <1>2
      <4> QED  BY <4>4, Zenon DEF MovedOne
    <3>6. ch.list = channel.list \cup {v} /\ ch.cell = channel.cell
      BY DEF ch
    <3>7. CellOf(pos[v]) \in Cells /\ CellOf(pos[v]) # NoCell
      BY <3>1, <3>2, CellOfInGrid
    <3>8. UNCHANGED <<pos, setPos, air>>
      BY <2>1 DEF SetChannel
    <3>9. /\ \A u \in Phys \ {v} : channel'.cell[u] = channel.cell[u]
          /\ channel'.cell[v] = CellOf(pos[v])
      BY <3>5, <3>6 DEF ChannelInv, ChannelTypeOK
    <3>10. ChannelTypeOK'
      BY <3>5, <3>8 DEF ChannelInv, ChannelTypeOK
    <3>11. OneCellEach'
      BY <3>5, <3>6, <3>7, <3>9 DEF ChannelInv, OneCellEach, ChannelTypeOK
    <3>12. CellOfSetPos' /\ AtOrigin' /\ DriftBound'
      BY <3>1, <3>7, <3>8, <3>9
         DEF ChannelInv, CellOfSetPos, AtOrigin, DriftBound, Joined, Near
    <3> QED  BY <3>10, <3>11, <3>12 DEF ChannelInv
  <2>2. ASSUME NEW v \in Phys, NEW p \in Area, updateNodePosition(v, p) PROVE ChannelInv'
    <3>1. v \in channel.list /\ channel' = updatePhy(channel, {v}, pos')
      BY <2>2 DEF updateNodePosition
    <3>2. pos' = [pos EXCEPT ![v] = p] /\ setPos' = [setPos EXCEPT ![v] = p] /\ air' = air
      BY <2>2 DEF updateNodePosition
    <3>3. pos'[v] = p /\ setPos'[v] = p
      BY <3>2 DEF ChannelInv, ChannelTypeOK
    <3>4. channel.cell[v] # NoCell
      BY <3>1 DEF ChannelInv, OneCellEach
    <3>5. /\ channel' \in Channels
          /\ channel'.list = channel.list
          /\ channel'.cell = [channel.cell EXCEPT ![v] = CellOf(p)]
          /\ channel'.content = {<<u, channel'.cell[u]>> : u \in channel.list}
      <4>1. /\ channel \in Channels
            /\ channel.content = {<<u, channel.cell[u]>> : u \in channel.list}
        BY DEF ChannelInv, ChannelTypeOK, OneCellEach
      <4>2. OrderlyBut(channel, {v})
        BY <3>1, <4>1 DEF OrderlyBut
      <4>3. MovedOne(channel, v, CellOf(pos'[v]), updatePhy(channel, {v}, pos'))
        BY <3>3, <4>2, UpdateOne
      <4> DEFINE k == updatePhy(channel, {v}, pos')
      <4>4. channel' = k /\ CellOf(pos'[v]) = CellOf(p)
        BY <3>1, <3>3
      <4> HIDE DEF k
      <4>5. MovedOne(channel, v, CellOf(p), k)
        BY <4>3, <4>4 DEF k
      <4> QED  BY <4>4, <4>5 DEF MovedOne
    <3>6. CellOf(p) \in Cells /\ CellOf(p) # NoCell
      BY CellOfInGrid
    <3>7. /\ \A u \in Phys \ {v} : channel'.cell[u] = channel.cell[u]
          /\ channel'.cell[v] = CellOf(p)
      BY <3>5 DEF ChannelInv, ChannelTypeOK
    <3>8. p \in Int \X Int
      BY DEF Area
    <3>9. ChannelTypeOK'
      BY <3>2, <3>5, <3>8 DEF ChannelInv, ChannelTypeOK
    <3>10. OneCellEach'
      BY <3>5, <3>6, <3>7 DEF ChannelInv, OneCellEach, ChannelTypeOK
    <3>11. CellOfSetPos' /\ AtOrigin'
      BY <3>2, <3>3, <3>4, <3>6, <3>7
         DEF ChannelInv, ChannelTypeOK, CellOfSetPos, AtOrigin, Joined
    <3>12. DriftBound'
      BY <3>2, <3>3, <3>8 DEF ChannelInv, ChannelTypeOK, DriftBound, Near
    <3> QED  BY <3>9, <3>10, <3>11, <3>12 DEF ChannelInv
  <2>3. ASSUME NEW v \in Phys, NEW dx \in (-Drift)..Drift, NEW dy \in (-Drift)..Drift,
               Drifting(v, dx, dy)
        PROVE  ChannelInv'
    <3>1. /\ v \in Joined
          /\ pos' = [pos EXCEPT ![v] = <<setPos[v][1] + dx, setPos[v][2] + dy>>]
          /\ UNCHANGED <<channel, setPos, air>>
      BY <2>3 DEF Drifting
    <3>2. setPos[v] \in Int \X Int
      BY DEF ChannelInv, ChannelTypeOK, Area
    <3>3. ChannelTypeOK'
      BY <3>1, <3>2 DEF ChannelInv, ChannelTypeOK
    <3>4. DriftBound'
      BY <3>1, <3>2 DEF ChannelInv, ChannelTypeOK, DriftBound, Near
    <3>5. OneCellEach' /\ CellOfSetPos' /\ AtOrigin'
      BY <3>1 DEF ChannelInv, ChannelTypeOK, OneCellEach, CellOfSetPos, AtOrigin, Joined
    <3> QED  BY <3>3, <3>4, <3>5 DEF ChannelInv
  <2>4. ASSUME NEW v \in Phys, RemovePhy(v) PROVE ChannelInv'
    <3>1. /\ channel'.list = channel.list \ {v}
          /\ channel'.cell = channel.cell
          /\ channel'.content = {e \in channel.content : ~(e[1] = v /\ e[2] = channel.cell[v])}
          /\ channel' \in Channels
          /\ UNCHANGED <<pos, setPos, air>>
      BY <2>4 DEF ChannelInv, ChannelTypeOK, RemovePhy, Remove
    <3>2. ChannelTypeOK'
      BY <3>1 DEF ChannelInv, ChannelTypeOK
    <3>3. OneCellEach'
      BY <3>1 DEF ChannelInv, OneCellEach
    <3>4. CellOfSetPos' /\ AtOrigin' /\ DriftBound'
      BY <3>1 DEF ChannelInv, CellOfSetPos, AtOrigin, DriftBound, Joined, Near
    <3> QED  BY <3>2, <3>3, <3>4 DEF ChannelInv
  <2>5. CASE UNCHANGED <<channel, pos, setPos>> /\ air' \subseteq Phys \X Phys
    <3>1. ChannelTypeOK'
      BY <2>5 DEF ChannelInv, ChannelTypeOK
    <3>2. OneCellEach' /\ CellOfSetPos' /\ AtOrigin' /\ DriftBound'
      BY <2>5 DEF ChannelInv, OneCellEach, CellOfSetPos, AtOrigin, DriftBound, Joined, Near
    <3> QED  BY <3>1, <3>2 DEF ChannelInv
  <2>6. ASSUME NEW s \in Phys, Send(s) PROVE ChannelInv'
    BY <2>5, <2>6 DEF ChannelInv, ChannelTypeOK, Send, Receivers
  <2>7. ASSUME NEW s \in Phys, NEW v \in Phys, Receive(s, v) PROVE ChannelInv'
    BY <2>5, <2>7 DEF ChannelInv, ChannelTypeOK, Receive
  <2>8. CASE UNCHANGED channelVars
    BY <2>5, <2>8 DEF ChannelInv, ChannelTypeOK, channelVars
  <2> QED  BY <2>1, <2>2, <2>3, <2>4, <2>6, <2>7, <2>8 DEF ChannelNext
<1> QED  BY <1>1, <1>2, PTL DEF ChannelSpec

\* Positions, cells and frames are well formed, for any grid and any phys: no
\* update ever indexes a cell outside it.
THEOREM ChannelTypeCorrect == ChannelSpec => []ChannelTypeOK
BY ChannelInvariant, PTL DEF ChannelInv

\* The cell of a phy is that of the position it was last given.
THEOREM CellOfSetPosHolds == ChannelSpec => []CellOfSetPos
BY ChannelInvariant, PTL DEF ChannelInv

\* No phy is ever in two cells, in none while it is on the list, or in one
\* after Remove.
THEOREM OneCellEachHolds == ChannelSpec => []OneCellEach
BY ChannelInvariant, PTL DEF ChannelInv

\* Looking into the adjacent cells only, and with cells as old as the last
\* traffic step, Send reaches every phy within Range - 2 * Drift.
THEOREM CloseAreReachedHolds == ChannelSpec => []CloseAreReached
<1>1. ChannelInv => CloseAreReached
  <2> SUFFICES ASSUME ChannelInv, NEW s \in Joined, NEW v \in channel.list \ {s},
                      Near(pos[s], pos[v], Range - 2 * Drift)
               PROVE  v \in Receivers(channel, s)
    BY DEF CloseAreReached
  <2>1. s \in Phys /\ v \in Phys /\ v \in Joined
    BY DEF ChannelInv, ChannelTypeOK, Channels, OneCellEach, Joined
  <2>2. /\ pos[s][1] \in Int /\ pos[s][2] \in Int /\ pos[v][1] \in Int /\ pos[v][2] \in Int
        /\ setPos[s][1] \in Nat /\ setPos[s][2] \in Nat
        /\ setPos[v][1] \in Nat /\ setPos[v][2] \in Nat
    BY <2>1 DEF ChannelInv, ChannelTypeOK, Area
  <2>3. /\ setPos[s][1] - setPos[v][1] \in (-Range)..Range
        /\ setPos[s][2] - setPos[v][2] \in (-Range)..Range
    BY <2>1, <2>2 DEF ChannelInv, DriftBound, Near
  <2>4. /\ (setPos[s][1] \div Range) - (setPos[v][1] \div Range) \in -1..1
        /\ (setPos[s][2] \div Range) - (setPos[v][2] \div Range) \in -1..1
    BY <2>2, <2>3, AdjacentQuotients
  <2>5. channel.cell[s] = CellOf(setPos[s]) /\ channel.cell[v] = CellOf(setPos[v])
    BY <2>1 DEF ChannelInv, CellOfSetPos
  <2>6. channel.cell[v] \in Cells
    BY <2>1 DEF ChannelInv, ChannelTypeOK, Channels, Joined
  <2>7. /\ setPos[s][1] \div Range \in Int /\ setPos[s][2] \div Range \in Int
        /\ setPos[v][1] \div Range \in Int /\ setPos[v][2] \div Range \in Int
    BY <2>2
  <2>8. channel.cell[v] \in Around(channel.cell[s])
    BY <2>4, <2>5, <2>6, <2>7 DEF Around, CellOf
  <2>9. <<v, channel.cell[v]>> \in channel.content
    BY DEF ChannelInv, OneCellEach
  <2> QED  BY <2>1, <2>8, <2>9 DEF Receivers
<1> QED  BY <1>1, ChannelInvariant, PTL

\* Send schedules a Receive only for phys that are on the channel.
THEOREM NoFrameAfterRemoveHolds == ChannelSpec => NoFrameAfterRemove
<1> DEFINE A == \A s, v \in Phys : <<s, v>> \in air' \ air => v \in channel.list
<1>1. ASSUME ChannelInv, [ChannelNext]_channelVars PROVE [A]_channelVars
  <2>1. ASSUME NEW s \in Phys, Send(s) PROVE A
    <3>1. ASSUME NEW u \in Receivers(channel, s) PROVE u \in channel.list
      BY <1>1, <3>1 DEF ChannelInv, OneCellEach, Receivers
    <3> QED  BY <2>1, <3>1 DEF Send
  <2>2. CASE air' \subseteq air
    BY <2>2
  <2> QED
    BY <1>1, <2>1, <2>2 DEF ChannelNext, SetChannel, updateNodePosition, Drifting, RemovePhy,
                            Receive, channelVars
<1> QED  BY <1>1, ChannelInvariant, PTL DEF ChannelSpec, NoFrameAfterRemove

=============================================================================
