--------------------------- MODULE OvnisWifiChannel ---------------------------
(***************************************************************************)
(* OvnisWifiChannel as the simulation uses it.  A phy joins at the origin, *)
(* every traffic simulation step sets the position of each vehicle and     *)
(* calls updatePhy, and an arrived vehicle's phy is removed.  Between two  *)
(* steps the constant velocity mobility model moves a phy by up to Drift   *)
(* along each axis while its cell stays the same.  Send reads the sender's *)
(* cell and schedules a Receive, by pointer, for each phy around it.       *)
(***************************************************************************)
EXTENDS ChannelCells

CONSTANT Drift   \* how far a phy moves between two updates of its cell

ASSUME DriftAssumption == Drift \in Nat

VARIABLES
    channel,   \* the OvnisWifiChannel, a record of ChannelCells
    pos,       \* GetPosition() of the mobility model
    setPos,    \* the position last given to the mobility model
    air        \* Receive events scheduled, pairs <<sender, receiver>>

channelVars == <<channel, pos, setPos, air>>

Joined == {v \in Phys : channel.cell[v] # NoCell}

ChannelTypeOK ==
    /\ channel \in Channels
    /\ pos \in [Phys -> Int \X Int]
    /\ setPos \in [Phys -> Area]
    /\ air \subseteq Phys \X Phys

ChannelInit ==
    /\ channel = EmptyChannel
    /\ pos = [v \in Phys |-> Origin]
    /\ setPos = [v \in Phys |-> Origin]
    /\ air = {}

\* OvnisWifiPhy::SetChannel, called once, by OvnisWifiPhyHelper::Create.
SetChannel(v) ==
    /\ v \notin Joined
    /\ channel' = Add(channel, {v}, pos)
    /\ UNCHANGED <<pos, setPos, air>>

\* Faulty variant: the position is set and the cell is not.
SetPositionOnly(v, p) ==
    /\ v \in channel.list
    /\ p[1] > 0 /\ p[2] > 0
    /\ pos' = [pos EXCEPT ![v] = p]
    /\ setPos' = [setPos EXCEPT ![v] = p]
    /\ UNCHANGED <<channel, air>>

\* Ovnis::updateNodePosition.  SUMO's position counts only if x > 0, y > 0.
updateNodePosition(v, p) ==
    /\ v \in channel.list
    /\ p[1] > 0 /\ p[2] > 0
    /\ pos' = [pos EXCEPT ![v] = p]
    /\ setPos' = [setPos EXCEPT ![v] = p]
    /\ channel' = updatePhy(channel, {v}, pos')
    /\ UNCHANGED air

\* The mobility model carries the phy on, within Drift of where it was set;
\* no cell is updated.
Drifting(v, dx, dy) ==
    /\ v \in Joined
    /\ pos' = [pos EXCEPT ![v] = <<setPos[v][1] + dx, setPos[v][2] + dy>>]
    /\ UNCHANGED <<channel, setPos, air>>

\* OvnisWifiChannel::Send.  A phy that was removed can still send what its
\* MAC has queued: phy->cell is kept.
Send(s) ==
    /\ s \in Joined
    /\ air' = air \cup {<<s, v>> : v \in Receivers(channel, s)}
    /\ UNCHANGED <<channel, pos, setPos>>

\* OvnisWifiChannel::Receive hands the packet to the phy.
Receive(s, v) ==
    /\ <<s, v>> \in air
    /\ air' = air \ {<<s, v>>}
    /\ UNCHANGED <<channel, pos, setPos>>

\* DestroyNetworkDevices removes the phy of an arrived vehicle.
RemovePhy(v) ==
    /\ v \in channel.list
    /\ channel' = Remove(channel, {v})
    /\ UNCHANGED <<pos, setPos, air>>

ChannelNext ==
    \/ \E v \in Phys : SetChannel(v) \/ Send(v) \/ RemovePhy(v)
    \/ \E v \in Phys, p \in Area : updateNodePosition(v, p)
    \/ \E v \in Phys, dx, dy \in (-Drift)..Drift : Drifting(v, dx, dy)
    \/ \E s, v \in Phys : Receive(s, v)

ChannelSpec == ChannelInit /\ [][ChannelNext]_channelVars

-----------------------------------------------------------------------------
(* Properties *)

\* A phy of m_phyList is in the content of its own cell and of no other; a
\* phy that was removed, or never added, is in no cell, so no Send finds it.
OneCellEach ==
    /\ \A v \in channel.list : channel.cell[v] # NoCell
    /\ channel.content = {<<v, channel.cell[v]>> : v \in channel.list}

\* A phy's cell is the cell of the position it was last given.
CellOfSetPos == \A v \in Joined : channel.cell[v] = CellOf(setPos[v])

Near(p, q, d) == p[1] - q[1] \in (-d)..d /\ p[2] - q[2] \in (-d)..d

\* Although cells go stale while vehicles move, whoever is now within
\* Range - 2 * Drift of the sender along both axes is among the phys that
\* Send reaches: looking at adjacent cells only loses nobody that close.
CloseAreReached ==
    \A s \in Joined : \A v \in channel.list \ {s} :
        Near(pos[s], pos[v], Range - 2 * Drift) => v \in Receivers(channel, s)

\* Once removed, a phy gets no new frame: what it still receives was in
\* flight when Remove ran.
NoFrameAfterRemove ==
    [][\A s, v \in Phys :
          <<s, v>> \in air' \ air => v \in channel.list]_channelVars

=============================================================================
