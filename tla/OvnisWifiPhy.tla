----------------------------- MODULE OvnisWifiPhy -----------------------------
(***************************************************************************)
(* The state machine of one OvnisWifiPhy: it receives one frame at a time, *)
(* drops what arrives while it receives, transmits or switches channel,    *)
(* and remembers how long the medium stays busy.  Times are what is left   *)
(* of them (m_endTx - Now, ...); Tick lets one unit pass once the events   *)
(* of this instant have run.  WifiPhyStateHelper and InterferenceHelper    *)
(* are ns-3's: they are modelled by what the phy relies on.                *)
(***************************************************************************)
EXTENDS Integers, FiniteSets, FiniteSetsExt, Functions

CONSTANTS
    Frames,        \* frames that can be in the air at once
    NoFrame,
    Powers,        \* received powers, in units of which signals add up
    edThreshold,   \* m_edThresholdW: a stronger signal can be received
    ccaThreshold,  \* m_ccaMode1ThresholdW: as much energy makes CCA busy
    MaxDuration,   \* bound: duration of a frame
    SwitchDelay,   \* m_channelSwitchDelay
    ChannelNumbers

ASSUME PhyAssumption ==
    /\ IsFiniteSet(Frames) /\ NoFrame \notin Frames
    /\ Powers \subseteq Nat \ {0} /\ ccaThreshold \in Nat \ {0}
    /\ MaxDuration \in Nat \ {0}
    /\ SwitchDelay \in Nat \ {0}
    /\ ChannelNumbers # {}

VARIABLES
    left,          \* InterferenceHelper: for each signal the time it is still
    power,         \* in the air and its power; and
    fate,          \* what became of its frame
    iRxing,        \* InterferenceHelper::m_rxing
    rxing,         \* WifiPhyStateHelper::m_rxing
    rxLeft,        \* m_endRx, m_endTx, m_endSwitching, m_endCcaBusy
    txLeft,
    swLeft,
    ccaLeft,
    endRxEvent,    \* the frame of the scheduled EndReceive, or NoFrame
    channelNumber, \* m_channelNumber
    postponed      \* SetChannelNumber rescheduled: {<<nch, time left>>} or {}

vars == <<left, power, fate, iRxing, rxing, rxLeft, txLeft, swLeft, ccaLeft,
          endRxEvent, channelNumber, postponed>>

Fates == {"none", "rx", "ok", "error", "dropped", "cut"}

TypeOK ==
    /\ left \in [Frames -> 0..MaxDuration]
    /\ power \in [Frames -> Powers \cup {0}]
    /\ fate \in [Frames -> Fates]
    /\ iRxing \in BOOLEAN
    /\ rxing \in BOOLEAN
    /\ rxLeft \in 0..MaxDuration
    /\ txLeft \in 0..MaxDuration
    /\ swLeft \in 0..SwitchDelay
    /\ ccaLeft \in 0..MaxDuration
    /\ endRxEvent \in Frames \cup {NoFrame}
    /\ channelNumber \in ChannelNumbers
    /\ postponed \in SUBSET (ChannelNumbers \X (0..MaxDuration))

\* WifiPhyStateHelper::GetState.
GetState ==
    IF txLeft > 0 THEN "TX"
    ELSE IF rxing THEN "RX"
    ELSE IF swLeft > 0 THEN "SWITCHING"
    ELSE IF ccaLeft > 0 THEN "CCA_BUSY"
    ELSE "IDLE"

\* WifiPhyStateHelper::GetDelayUntilIdle.
GetDelayUntilIdle ==
    IF txLeft > 0 THEN txLeft
    ELSE IF rxing THEN rxLeft
    ELSE IF swLeft > 0 THEN swLeft
    ELSE ccaLeft

\* Power of the signals that are still in the air when t has passed.
Energy(l, pw, t) ==
    SumFunction([f \in Frames |-> IF l[f] > t THEN pw[f] ELSE 0])

\* InterferenceHelper::GetEnergyDuration: how long the aggregate of the
\* signals stays at the CCA threshold or above.
GetEnergyDuration(l, pw) ==
    Min({t \in 0..MaxDuration :
            t = MaxDuration \/ Energy(l, pw, t) < ccaThreshold})

\* A phy is created idle at time 0.  Created later, as for every vehicle that
\* departs during the run, setting its ChannelNumber attribute already counts
\* as a channel switch.
Init ==
    /\ left = [f \in Frames |-> 0]
    /\ power = [f \in Frames |-> 0]
    /\ fate = [f \in Frames |-> "none"]
    /\ iRxing = FALSE /\ rxing = FALSE
    /\ rxLeft = 0 /\ txLeft = 0 /\ ccaLeft = 0
    /\ swLeft \in {0, SwitchDelay}
    /\ endRxEvent = NoFrame
    /\ channelNumber \in ChannelNumbers
    /\ postponed = {}

-----------------------------------------------------------------------------

\* The maybeCcaBusy label: the frame cannot be received, its energy counts.
\* SwitchMaybeToCcaBusy never shortens a busy period.
maybeCcaBusy ==
    ccaLeft' = Max({ccaLeft, GetEnergyDuration(left', power')})

\* A free frame f of power p and duration d reaches the phy.
Arrives(f, p, d, becomes) ==
    /\ left' = [left EXCEPT ![f] = d]
    /\ power' = [power EXCEPT ![f] = p]
    /\ fate' = [fate EXCEPT ![f] = becomes]

\* Faulty variant: what outlasts the current state is not taken as noise.
DropUnsensed(f, p, d) ==
    /\ Arrives(f, p, d, "dropped")
    /\ \/ GetState \in {"SWITCHING", "RX", "TX"} /\ UNCHANGED ccaLeft
       \/ /\ GetState \in {"CCA_BUSY", "IDLE"}
          /\ ~(p > edThreshold)
          /\ maybeCcaBusy
    /\ UNCHANGED <<iRxing, rxing, rxLeft, endRxEvent>>

\* StartReceivePacket in TX, RX or SWITCHING, or too weak a signal.
DropPacket(f, p, d) ==
    /\ Arrives(f, p, d, "dropped")
    /\ \/ /\ GetState \in {"SWITCHING", "RX", "TX"}
          /\ IF d > GetDelayUntilIdle THEN maybeCcaBusy
                                      ELSE UNCHANGED ccaLeft
       \/ /\ GetState \in {"CCA_BUSY", "IDLE"}
          /\ ~(p > edThreshold)
          /\ maybeCcaBusy
    /\ UNCHANGED <<iRxing, rxing, rxLeft, endRxEvent>>

\* StartReceivePacket synchronizes on the signal.
SyncToSignal(f, p, d) ==
    /\ GetState \in {"CCA_BUSY", "IDLE"}
    /\ p > edThreshold
    /\ Arrives(f, p, d, "rx")
    /\ rxing' = TRUE /\ rxLeft' = d
    /\ iRxing' = TRUE
    /\ endRxEvent' = f
    /\ UNCHANGED ccaLeft

StartReceivePacket(f, p, d) ==
    /\ left[f] = 0 /\ f # endRxEvent
    /\ DropPacket(f, p, d) \/ SyncToSignal(f, p, d)
    /\ UNCHANGED <<txLeft, swLeft, channelNumber, postponed>>

\* Faulty variant: the failure branch forgets SwitchFromRxEndError.
EndReceiveStaysInRx(outcome) ==
    /\ endRxEvent # NoFrame /\ rxLeft = 0
    /\ fate' = [fate EXCEPT ![endRxEvent] = outcome]
    /\ iRxing' = FALSE
    /\ rxing' = (outcome = "error")
    /\ endRxEvent' = NoFrame
    /\ UNCHANGED <<left, power, rxLeft, txLeft, swLeft, ccaLeft, channelNumber,
                   postponed>>

\* EndReceive, at its time.  The drawn number decides between ok and error.
EndReceive(outcome) ==
    /\ endRxEvent # NoFrame /\ rxLeft = 0
    /\ fate' = [fate EXCEPT ![endRxEvent] = outcome]
    /\ iRxing' = FALSE
    /\ rxing' = FALSE
    /\ endRxEvent' = NoFrame
    /\ UNCHANGED <<left, power, rxLeft, txLeft, swLeft, ccaLeft, channelNumber,
                   postponed>>

\* Faulty variant: the scheduled EndReceive survives the transmission.
KeepEndRxEvent ==
    /\ UNCHANGED <<fate, endRxEvent, iRxing, rxLeft>>
    /\ rxing' = FALSE

\* A reception in progress is cancelled: the event is removed, NotifyRxEnd,
\* and m_rxing and m_endRx are reset by the state helper.
CancelRx ==
    /\ fate' = IF rxing THEN [fate EXCEPT ![endRxEvent] = "cut"] ELSE fate
    /\ endRxEvent' = NoFrame
    /\ iRxing' = IF rxing THEN FALSE ELSE iRxing
    /\ rxing' = FALSE
    /\ rxLeft' = 0

\* SendPacket.  The MAC does not send while the phy transmits or switches
\* (the assertion); it may send in the middle of a reception.
SendPacket(d) ==
    /\ GetState \notin {"TX", "SWITCHING"}
    /\ CancelRx
    /\ txLeft' = d
    /\ UNCHANGED <<left, power, swLeft, ccaLeft, channelNumber, postponed>>

\* SetChannelNumber at the label switchChannel: all signals are forgotten.
switchChannel(nch) ==
    /\ GetState \in {"RX", "CCA_BUSY", "IDLE"}
    /\ endRxEvent' = NoFrame
    /\ rxing' = FALSE /\ rxLeft' = 0
    /\ swLeft' = SwitchDelay /\ ccaLeft' = 0
    /\ left' = [f \in Frames |-> 0]
    /\ power' = [f \in Frames |-> 0]
    /\ fate' = [f \in Frames |-> "none"]
    /\ iRxing' = FALSE
    /\ channelNumber' = nch
    /\ UNCHANGED txLeft

\* Faulty variant: the delay of the switch itself is waited for too.
PostponeLonger(nch) ==
    /\ GetState = "TX"
    /\ postponed' = {<<nch, GetDelayUntilIdle + SwitchDelay>>}
    /\ UNCHANGED <<left, power, fate, iRxing, rxing, rxLeft, txLeft, swLeft,
                   ccaLeft, endRxEvent, channelNumber>>

\* SetChannelNumber during a transmission waits for its end.
PostponeSwitch(nch) ==
    /\ GetState = "TX"
    /\ postponed' = {<<nch, GetDelayUntilIdle>>}
    /\ UNCHANGED <<left, power, fate, iRxing, rxing, rxLeft, txLeft, swLeft,
                   ccaLeft, endRxEvent, channelNumber>>

\* A caller sets the channel; one request is outstanding at a time, for of two
\* that wait for the same transmission the second would meet the assertion
\* against a switch in progress.
SetChannelNumber(nch) ==
    /\ postponed = {}
    /\ \/ switchChannel(nch) /\ UNCHANGED postponed
       \/ PostponeSwitch(nch)

\* The rescheduled SetChannelNumber runs; a new transmission postpones it again.
PostponedSetChannelNumber ==
    \E nch \in ChannelNumbers :
        /\ <<nch, 0>> \in postponed
        /\ \/ switchChannel(nch) /\ postponed' = {}
           \/ PostponeSwitch(nch)

\* Differences to the current time, not below zero.
Less(t) == IF t > 0 THEN t - 1 ELSE 0

\* The simulator's clock moves once no event of this instant is left.
Tick ==
    /\ ~(endRxEvent # NoFrame /\ rxLeft = 0)
    /\ \A r \in postponed : r[2] > 0
    /\ left' = [f \in Frames |-> Less(left[f])]
    /\ power' = [f \in Frames |-> IF left[f] > 1 THEN power[f] ELSE 0]
    /\ fate' = [f \in Frames |-> IF left[f] > 1 \/ f = endRxEvent
                                 THEN fate[f] ELSE "none"]
    /\ rxLeft' = Less(rxLeft)
    /\ txLeft' = Less(txLeft)
    /\ swLeft' = Less(swLeft)
    /\ ccaLeft' = Less(ccaLeft)
    /\ postponed' = {<<r[1], Less(r[2])>> : r \in postponed}
    /\ UNCHANGED <<iRxing, rxing, endRxEvent, channelNumber>>

Next ==
    \/ \E f \in Frames, p \in Powers, d \in 1..MaxDuration :
          StartReceivePacket(f, p, d)
    \/ \E outcome \in {"ok", "error"} : EndReceive(outcome)
    \/ \E d \in 1..MaxDuration : SendPacket(d)
    \/ \E nch \in ChannelNumbers : SetChannelNumber(nch)
    \/ PostponedSetChannelNumber
    \/ Tick

\* The simulator runs every scheduled event and its time goes on.
Fairness ==
    /\ WF_vars(Tick)
    /\ WF_vars(\E outcome \in {"ok", "error"} : EndReceive(outcome))
    /\ WF_vars(PostponedSetChannelNumber)

Spec == Init /\ [][Next]_vars /\ Fairness

-----------------------------------------------------------------------------
(* Properties *)

\* What the assertions of StartReceivePacket, EndReceive and the state helper
\* need: a reception is in progress exactly when its EndReceive is scheduled,
\* for the end of that very frame, and the phy then neither transmits nor
\* switches; InterferenceHelper knows of the reception.
ReceptionIsSound ==
    /\ rxing <=> endRxEvent # NoFrame
    /\ iRxing <=> rxing
    /\ rxing => /\ rxLeft = left[endRxEvent]
                /\ fate[endRxEvent] = "rx"
                /\ GetState = "RX" /\ swLeft = 0

\* CCA: the phy reports an idle medium only when the signals it has heard are
\* together below the threshold.  The exception the code leaves open is a
\* reception that a transmission cut short: nobody senses the medium again
\* while that frame is still in the air.
IdleMeansQuiet ==
    GetState = "IDLE" =>
        \/ Energy(left, power, 0) < ccaThreshold
        \/ \E f \in Frames : fate[f] = "cut" /\ left[f] > 0

\* Every reception ends, by EndReceive, by a transmission or by a channel
\* switch: the phy cannot stay in RX, deaf to every later frame.
ReceptionEnds == rxing ~> ~rxing

=============================================================================
