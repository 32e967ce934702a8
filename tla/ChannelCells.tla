----------------------------- MODULE ChannelCells -----------------------------
(***************************************************************************)
(* The grid of OvnisWifiChannel.  The simulated area is cut into square    *)
(* cells of side "range"; a phy remembers its cell, and a cell holds the   *)
(* phys it contains.  A channel is a record                                *)
(*     list     the phys of m_phyList                                      *)
(*     content  pairs <<phy, cell>>: phy is in the content of the cell     *)
(*     cell     the pointer phy->cell, NoCell before the first update      *)
(* The operators take a set of phys: the code calls them for one phy after *)
(* the other, and a call for one phy neither reads nor writes another.     *)
(***************************************************************************)
EXTENDS Integers

CONSTANTS
    Phys,    \* the radios
    Range,   \* CommunicationRange, the side of a cell
    Rows,    \* number of cells along x, ceil(area_x / range)
    Cols     \* number of cells along y, ceil(area_y / range)

ASSUME RangeAssumption == Range \in Nat \ {0}
ASSUME GridAssumption == Rows \in Nat \ {0} /\ Cols \in Nat \ {0}

Cells == (0..(Rows - 1)) \X (0..(Cols - 1))
NoCell == <<>>

\* Positions inside the area: the ones whose cell the grid has.
Area == (0..(Rows * Range - 1)) \X (0..(Cols * Range - 1))
Origin == <<0, 0>>

\* Faulty variant: the quotient is rounded up.
CellOfRoundedUp(p) ==
    <<(p[1] + Range - 1) \div Range, (p[2] + Range - 1) \div Range>>

\* nx = (int)(v.x / range), ny = (int)(v.y / range)
CellOf(p) == <<p[1] \div Range, p[2] \div Range>>

\* The channel's state: m_phyList, the grid's content and each phy->cell.
Channels == [list : SUBSET Phys, content : SUBSET (Phys \X Cells),
             cell : [Phys -> Cells \cup {NoCell}]]

EmptyChannel == [list |-> {}, content |-> {}, cell |-> [v \in Phys |-> NoCell]]

\* Faulty variant: the phy is not taken out of the cell it leaves.
UpdatePhyKeepsOld(ch, moved, pos) ==
    LET changed == {v \in moved : ch.cell[v] # CellOf(pos[v])}
    IN  [list |-> ch.list,
         content |-> ch.content \cup {<<v, CellOf(pos[v])>> : v \in changed},
         cell |-> [v \in Phys |-> IF v \in changed THEN CellOf(pos[v]) ELSE ch.cell[v]]]

\* updatePhy: a phy whose position is in another cell than phy->cell is
\* erased from the old cell, if found there, and pushed into the new one.
updatePhy(ch, moved, pos) ==
    LET changed == {v \in moved : ch.cell[v] # CellOf(pos[v])}
    IN  [list |-> ch.list,
         content |-> {e \in ch.content : ~(e[1] \in changed /\ e[2] = ch.cell[e[1]])}
                        \cup {<<v, CellOf(pos[v])>> : v \in changed},
         cell |-> [v \in Phys |-> IF v \in changed THEN CellOf(pos[v]) ELSE ch.cell[v]]]

\* Add: push into m_phyList, then updatePhy.
Add(ch, new, pos) ==
    updatePhy([list |-> ch.list \cup new, content |-> ch.content, cell |-> ch.cell], new, pos)

\* Faulty variant: Remove forgets the cell.
RemoveFromListOnly(ch, gone) ==
    [list |-> ch.list \ gone, content |-> ch.content, cell |-> ch.cell]

\* Remove: out of the content of its cell and of m_phyList; phy->cell stays.
Remove(ch, gone) ==
    [list |-> ch.list \ gone,
     content |-> {e \in ch.content : ~(e[1] \in gone /\ e[2] = ch.cell[e[1]])},
     cell |-> ch.cell]

\* The cells Send visits around the sender's: one more on each side, within
\* the grid.
Around(c) == {d \in Cells : /\ d[1] \in (c[1] - 1)..(c[1] + 1)
                            /\ d[2] \in (c[2] - 1)..(c[2] + 1)}

\* Faulty variant: the upper neighbours are left out (< instead of <=).
ReceiversBelow(ch, s) ==
    {v \in Phys \ {s} : \E d \in Around(ch.cell[s]) :
        <<v, d>> \in ch.content /\ d[1] <= ch.cell[s][1]}

\* The phys to which Send schedules a Receive.  All phys are on the same
\* channel number.
Receivers(ch, s) ==
    {v \in Phys \ {s} : \E d \in Around(ch.cell[s]) : <<v, d>> \in ch.content}

=============================================================================
