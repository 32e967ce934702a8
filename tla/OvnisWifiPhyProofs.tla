-------------------------- MODULE OvnisWifiPhyProofs --------------------------
(***************************************************************************)
(* Proofs about OvnisWifiPhy: the types of its variables; that a reception *)
(* in progress and its scheduled EndReceive always belong together, so     *)
(* that none of the assertions about them can fail; and that the phy       *)
(* reports an idle medium only when it is quiet.                           *)
(***************************************************************************)
EXTENDS OvnisWifiPhy, Aggregates

\* The larger of two integers is one of them, and none is larger.
LEMMA MaxIsMember ==
    ASSUME NEW a \in Int, NEW b \in Int
    PROVE  Max({a, b}) \in {a, b} /\ a <= Max({a, b}) /\ b <= Max({a, b})
<1>1. \E x \in {a, b} : \A y \in {a, b} : x >= y
  <2>1. CASE a >= b  BY <2>1
  <2>2. CASE ~(a >= b)  BY <2>2
  <2> QED  BY <2>1, <2>2
<1>2. Max({a, b}) \in {a, b} /\ \A y \in {a, b} : Max({a, b}) >= y
  BY <1>1 DEF Max
<1> QED  BY <1>2

\* The medium stays busy no longer than the longest signal.
LEMMA EnergyDurationType ==
    ASSUME NEW l, NEW pw
    PROVE  GetEnergyDuration(l, pw) \in 0..MaxDuration
<1> DEFINE S == {t \in 0..MaxDuration :
                   t = MaxDuration \/ Energy(l, pw, t) < ccaThreshold}
<1>1. MaxDuration \in S /\ S \subseteq Nat
  BY PhyAssumption
<1>2. Min(S) \in S
  BY <1>1, MinOfNats
<1> QED  BY <1>2 DEF GetEnergyDuration

\* A busy period stays within one frame's duration.
LEMMA CcaType ==
    ASSUME TypeOK, maybeCcaBusy
    PROVE  ccaLeft' \in 0..MaxDuration
<1> DEFINE e == GetEnergyDuration(left', power')
<1>1. e \in 0..MaxDuration
  BY EnergyDurationType
<1>2. ccaLeft \in 0..MaxDuration
  BY DEF TypeOK
<1>3. ccaLeft' = Max({ccaLeft, e})
  BY DEF maybeCcaBusy
<1> HIDE DEF e
<1>4. ccaLeft \in Int /\ e \in Int
  BY <1>1, <1>2, PhyAssumption
<1>5. Max({ccaLeft, e}) \in {ccaLeft, e}
  BY <1>4, MaxIsMember
<1> QED  BY <1>1, <1>2, <1>3, <1>5

\* A countdown stays within its bound.
LEMMA LessType ==
    ASSUME NEW m \in Nat, NEW t \in 0..m
    PROVE  Less(t) \in 0..m
BY DEF Less

\* What the state says about the timers.
LEMMA StateOf ==
    ASSUME TypeOK
    PROVE  /\ GetState \in {"CCA_BUSY", "IDLE"} => txLeft = 0 /\ ~rxing /\ swLeft = 0
           /\ GetState \in {"RX", "CCA_BUSY", "IDLE"} => txLeft = 0
           /\ txLeft = 0 /\ rxing => GetState = "RX"
           /\ GetState = "TX" => GetDelayUntilIdle = txLeft
BY PhyAssumption DEF TypeOK, GetState, GetDelayUntilIdle

\* The phy starts with its variables in their types.
LEMMA InitTypeOK == Init => TypeOK
<1> SUFFICES ASSUME Init PROVE TypeOK
  OBVIOUS
<1> USE PhyAssumption DEF Init
<1>1. /\ left \in [Frames -> 0..MaxDuration]
      /\ power \in [Frames -> Powers \cup {0}]
      /\ fate \in [Frames -> Fates]
  BY DEF Fates
<1>2. /\ rxLeft \in 0..MaxDuration /\ txLeft \in 0..MaxDuration
      /\ swLeft \in 0..SwitchDelay /\ ccaLeft \in 0..MaxDuration
  OBVIOUS
<1>3. iRxing \in BOOLEAN /\ rxing \in BOOLEAN
  OBVIOUS
<1> QED  BY <1>1, <1>2, <1>3 DEF TypeOK

\* Every step keeps the variables in their types.
LEMMA NextTypeOK == TypeOK /\ [Next]_vars => TypeOK'
<1> SUFFICES ASSUME TypeOK, [Next]_vars PROVE TypeOK'
  OBVIOUS
<1> USE PhyAssumption
<1>1. ASSUME NEW f \in Frames, NEW p \in Powers, NEW d \in 1..MaxDuration,
             StartReceivePacket(f, p, d)
      PROVE  TypeOK'
  <2>1. CASE DropPacket(f, p, d)
    <3>1. ccaLeft' \in 0..MaxDuration
      BY <2>1, CcaType DEF DropPacket, TypeOK
    <3> QED  BY <1>1, <2>1, <3>1 DEF StartReceivePacket, DropPacket, Arrives, TypeOK, Fates
  <2>2. CASE SyncToSignal(f, p, d)
    BY <1>1, <2>2 DEF StartReceivePacket, SyncToSignal, Arrives, TypeOK, Fates
  <2> QED  BY <1>1, <2>1, <2>2 DEF StartReceivePacket
<1>2. ASSUME NEW outcome \in {"ok", "error"}, EndReceive(outcome) PROVE TypeOK'
  <2>1. fate' \in [Frames -> Fates]
    <3>1. outcome \in Fates
      BY DEF Fates
    <3> QED  BY <1>2, <3>1 DEF EndReceive, TypeOK
  <2>2. iRxing' \in BOOLEAN /\ rxing' \in BOOLEAN /\ endRxEvent' = NoFrame
    BY <1>2 DEF EndReceive
  <2> QED  BY <1>2, <2>1, <2>2 DEF EndReceive, TypeOK
<1>3. ASSUME NEW d \in 1..MaxDuration, SendPacket(d) PROVE TypeOK'
  <2>1. fate' \in [Frames -> Fates]
    BY <1>3 DEF SendPacket, CancelRx, TypeOK, Fates
  <2>2. iRxing' \in BOOLEAN /\ rxing' \in BOOLEAN /\ endRxEvent' = NoFrame
    BY <1>3 DEF SendPacket, CancelRx, TypeOK
  <2>3. rxLeft' \in 0..MaxDuration /\ txLeft' \in 0..MaxDuration
    BY <1>3 DEF SendPacket, CancelRx
  <2> QED  BY <1>3, <2>1, <2>2, <2>3 DEF SendPacket, TypeOK
<1>4. ASSUME NEW nch \in ChannelNumbers, switchChannel(nch),
             postponed' = postponed \/ postponed' = {}
      PROVE  TypeOK'
  <2>1. /\ left' \in [Frames -> 0..MaxDuration]
        /\ power' \in [Frames -> Powers \cup {0}]
        /\ fate' \in [Frames -> Fates]
    BY <1>4 DEF switchChannel, Fates
  <2>2. iRxing' \in BOOLEAN /\ rxing' \in BOOLEAN /\ endRxEvent' = NoFrame
    BY <1>4 DEF switchChannel
  <2>3. postponed' \in SUBSET (ChannelNumbers \X (0..MaxDuration))
    BY <1>4 DEF TypeOK
  <2> QED  BY <1>4, <2>1, <2>2, <2>3 DEF switchChannel, TypeOK
<1>5. ASSUME NEW nch \in ChannelNumbers, PostponeSwitch(nch) PROVE TypeOK'
  <2>1. GetDelayUntilIdle \in 0..MaxDuration
    BY <1>5, StateOf DEF PostponeSwitch, TypeOK
  <2> QED  BY <1>5, <2>1 DEF PostponeSwitch, TypeOK
<1>6. ASSUME NEW nch \in ChannelNumbers, SetChannelNumber(nch) PROVE TypeOK'
  BY <1>4, <1>5, <1>6 DEF SetChannelNumber
<1>7. ASSUME PostponedSetChannelNumber PROVE TypeOK'
  BY <1>4, <1>5, <1>7 DEF PostponedSetChannelNumber
<1>8. ASSUME Tick PROVE TypeOK'
  <2>1. /\ rxLeft' \in 0..MaxDuration /\ txLeft' \in 0..MaxDuration
        /\ swLeft' \in 0..SwitchDelay /\ ccaLeft' \in 0..MaxDuration
    BY <1>8, LessType DEF Tick, TypeOK
  <2>2. \A f \in Frames : Less(left[f]) \in 0..MaxDuration
    BY LessType DEF TypeOK
  <2>3. ASSUME NEW r \in postponed
        PROVE  <<r[1], Less(r[2])>> \in ChannelNumbers \X (0..MaxDuration)
    <3>1. r[1] \in ChannelNumbers /\ r[2] \in 0..MaxDuration
      BY DEF TypeOK
    <3> QED  BY <3>1, LessType
  <2> QED  BY <1>8, <2>1, <2>2, <2>3 DEF Tick, TypeOK, Fates
<1>9. CASE UNCHANGED vars
  BY <1>9 DEF vars, TypeOK
<1> QED  BY <1>1, <1>2, <1>3, <1>6, <1>7, <1>8, <1>9 DEF Next

\* The timers of the phy, the frames in the air and the scheduled events keep
\* their types: no busy period outlasts the longest frame.
THEOREM TypeCorrect == Spec => []TypeOK
<1>1. Init => TypeOK
  BY InitTypeOK
<1>2. TypeOK /\ [Next]_vars => TypeOK'
  BY NextTypeOK
<1> QED  BY <1>1, <1>2, PTL DEF Spec

\* Every step keeps the reception, its timer and its event together.
LEMMA NextSound ==
    TypeOK /\ TypeOK' /\ ReceptionIsSound /\ [Next]_vars => ReceptionIsSound'
<1> SUFFICES ASSUME TypeOK, TypeOK', ReceptionIsSound, [Next]_vars
             PROVE  ReceptionIsSound'
  OBVIOUS
<1> USE PhyAssumption
\* The last conjunct, in terms of the timers.
<1>0. ASSUME rxing' => txLeft' = 0 /\ swLeft' = 0 /\ rxLeft' = left'[endRxEvent']
                       /\ fate'[endRxEvent'] = "rx",
             rxing' <=> endRxEvent' # NoFrame,
             iRxing' <=> rxing'
      PROVE  ReceptionIsSound'
  BY <1>0 DEF ReceptionIsSound, GetState, TypeOK
<1>a. rxing => txLeft = 0 /\ swLeft = 0
  BY DEF ReceptionIsSound, GetState, TypeOK
<1>1. ASSUME NEW f \in Frames, NEW p \in Powers, NEW d \in 1..MaxDuration,
             StartReceivePacket(f, p, d)
      PROVE  ReceptionIsSound'
  <2>1. CASE DropPacket(f, p, d)
    <3>1. UNCHANGED <<rxing, iRxing, rxLeft, endRxEvent, txLeft, swLeft>>
      BY <1>1, <2>1 DEF StartReceivePacket, DropPacket
    <3>2. rxing => /\ endRxEvent \in Frames
                   /\ left'[endRxEvent] = left[endRxEvent]
                   /\ fate'[endRxEvent] = fate[endRxEvent]
      BY <1>1, <2>1 DEF StartReceivePacket, DropPacket, Arrives, TypeOK, ReceptionIsSound
    <3> QED  BY <1>0, <1>a, <3>1, <3>2 DEF ReceptionIsSound
  <2>2. CASE SyncToSignal(f, p, d)
    <3>1. txLeft' = 0 /\ swLeft' = 0
      BY <1>1, <2>2, StateOf DEF StartReceivePacket, SyncToSignal
    <3>2. left'[f] = d /\ fate'[f] = "rx"
      BY <2>2 DEF SyncToSignal, Arrives, TypeOK
    <3> QED  BY <1>0, <2>2, <3>1, <3>2 DEF SyncToSignal
  <2> QED  BY <1>1, <2>1, <2>2 DEF StartReceivePacket
<1>2. ASSUME NEW outcome \in {"ok", "error"}, EndReceive(outcome)
      PROVE  ReceptionIsSound'
  BY <1>0, <1>2 DEF EndReceive
<1>3. ASSUME NEW d \in 1..MaxDuration, SendPacket(d) PROVE ReceptionIsSound'
  BY <1>0, <1>3 DEF SendPacket, CancelRx, ReceptionIsSound
<1>4. ASSUME NEW nch \in ChannelNumbers, switchChannel(nch)
      PROVE  ReceptionIsSound'
  BY <1>0, <1>4 DEF switchChannel
<1>5. ASSUME NEW nch \in ChannelNumbers, PostponeSwitch(nch)
      PROVE  ReceptionIsSound'
  BY <1>0, <1>5, <1>a DEF PostponeSwitch, ReceptionIsSound
<1>6. ASSUME NEW nch \in ChannelNumbers, SetChannelNumber(nch)
      PROVE  ReceptionIsSound'
  BY <1>4, <1>5, <1>6 DEF SetChannelNumber
<1>7. ASSUME PostponedSetChannelNumber PROVE ReceptionIsSound'
  BY <1>4, <1>5, <1>7 DEF PostponedSetChannelNumber
<1>8. ASSUME Tick PROVE ReceptionIsSound'
  <2>1. UNCHANGED <<rxing, iRxing, endRxEvent>>
    BY <1>8 DEF Tick
  <2>2. ASSUME rxing
        PROVE  /\ txLeft' = 0 /\ swLeft' = 0
               /\ rxLeft' = left'[endRxEvent] /\ fate'[endRxEvent] = "rx"
    <3>1. endRxEvent \in Frames
      BY <2>2 DEF ReceptionIsSound, TypeOK
    <3>2. txLeft' = 0 /\ swLeft' = 0
      BY <1>8, <1>a, <2>2 DEF Tick, Less
    <3> QED  BY <1>8, <2>2, <3>1, <3>2 DEF Tick, ReceptionIsSound
  <2> QED  BY <1>0, <2>1, <2>2 DEF ReceptionIsSound
<1>9. CASE UNCHANGED vars
  BY <1>0, <1>9, <1>a DEF vars, ReceptionIsSound
<1> QED  BY <1>1, <1>2, <1>3, <1>6, <1>7, <1>8, <1>9 DEF Next

\* The assertions about receptions hold in every execution: EndReceive runs
\* in RX, at the end of the frame it was scheduled for, and no reception
\* starts while an older EndReceive is pending.
THEOREM ReceptionSound == Spec => []ReceptionIsSound
<1>1. Init => ReceptionIsSound
  BY DEF Init, ReceptionIsSound
<1>2. TypeOK /\ TypeOK' /\ ReceptionIsSound /\ [Next]_vars => ReceptionIsSound'
  BY NextSound
<1>3. Spec => Init /\ [][Next]_vars
  BY PTL DEF Spec
<1> QED  BY <1>1, <1>2, <1>3, TypeCorrect, PTL

-----------------------------------------------------------------------------
(* The energy in the air *)

\* What each frame adds to the energy once t has passed.
Heard(l, pw, t) == [f \in Frames |-> IF l[f] > t THEN pw[f] ELSE 0]

\* Energy is the sum of what is heard.
LEMMA EnergyIsSum ==
    ASSUME NEW l, NEW pw \in [Frames -> Nat], NEW t
    PROVE  /\ Energy(l, pw, t) = SumOn(Heard(l, pw, t), Frames)
           /\ Energy(l, pw, t) \in Int
           /\ \A f \in Frames : Heard(l, pw, t)[f] \in Nat
<1>1. Heard(l, pw, t) \in [Frames -> Nat]
  BY DEF Heard
<1>2. Energy(l, pw, t) = SumFunction(Heard(l, pw, t))
  BY DEF Energy, Heard
<1>3. Energy(l, pw, t) = SumOn(Heard(l, pw, t), Frames)
  BY <1>1, <1>2, SumOnAll
<1>4. \A f \in Frames : Heard(l, pw, t)[f] \in Nat /\ Heard(l, pw, t)[f] \in Int
  BY <1>1
<1>5. SumOn(Heard(l, pw, t), Frames) \in Int
  BY <1>4, SumOnInt, PhyAssumption
<1> QED  BY <1>3, <1>4, <1>5

\* If every frame adds no more, neither do all of them together.
LEMMA EnergyLeq ==
    ASSUME NEW l, NEW l2, NEW pw \in [Frames -> Nat], NEW pw2 \in [Frames -> Nat], NEW t, NEW t2,
           \A f \in Frames : Heard(l, pw, t)[f] <= Heard(l2, pw2, t2)[f]
    PROVE  Energy(l, pw, t) <= Energy(l2, pw2, t2)
<1> DEFINE a == Heard(l, pw, t)
           b == Heard(l2, pw2, t2)
<1>1. /\ Energy(l, pw, t) = SumOn(a, Frames) /\ Energy(l2, pw2, t2) = SumOn(b, Frames)
      /\ \A f \in Frames : a[f] \in Nat /\ b[f] \in Nat
  BY EnergyIsSum
<1> HIDE DEF a, b
<1>2. \A f \in Frames : a[f] \in Int /\ b[f] \in Int /\ a[f] <= b[f]
  BY <1>1 DEF a, b
<1>3. SumOn(a, Frames) <= SumOn(b, Frames)
  BY <1>2, SumOnLeq, PhyAssumption
<1> QED  BY <1>1, <1>3

\* With no frame left in the air there is no energy.
LEMMA SilenceIsZero ==
    ASSUME NEW l, NEW pw \in [Frames -> Nat], NEW t, \A f \in Frames : ~(l[f] > t)
    PROVE  Energy(l, pw, t) < ccaThreshold
<1> DEFINE zero == [f \in Frames |-> 0]
           a == Heard(l, pw, t)
<1>1. a = zero
  BY DEF Heard
<1>2. \A f \in Frames : zero[f] \in Int /\ zero[f] = 0 - zero[f]
  OBVIOUS
<1>3. Energy(l, pw, t) = SumOn(zero, Frames)
  BY <1>1, EnergyIsSum
<1>4. SumOn(zero, Frames) \in Int
  BY <1>2, SumOnInt, PhyAssumption
<1> HIDE DEF zero
<1>5. SumOn(zero, Frames) = Cardinality(Frames) * 0 - SumOn(zero, Frames)
  BY <1>2, SumOfRests, PhyAssumption
<1>6. Cardinality(Frames) \in Int
  BY FS_CardinalityType, PhyAssumption
<1>7. Cardinality(Frames) * 0 = 0
  BY <1>6
<1> QED  BY <1>3, <1>4, <1>5, <1>7, PhyAssumption

\* After GetEnergyDuration the energy stays below the CCA threshold.
LEMMA QuietAfterDuration ==
    ASSUME NEW l \in [Frames -> 0..MaxDuration], NEW pw \in [Frames -> Nat],
           NEW t \in Nat, GetEnergyDuration(l, pw) <= t
    PROVE  Energy(l, pw, t) < ccaThreshold
<1> DEFINE S == {u \in 0..MaxDuration : u = MaxDuration \/ Energy(l, pw, u) < ccaThreshold}
           d == GetEnergyDuration(l, pw)
<1>1. MaxDuration \in S /\ S \subseteq Nat
  BY PhyAssumption
<1>2. d \in S
  <2>1. Min(S) \in S
    <3> HIDE DEF S
    <3> QED  BY <1>1, MinOfNats
  <2> QED  BY <2>1 DEF GetEnergyDuration
<1>3. d \in Nat /\ MaxDuration \in Nat
  BY <1>1, <1>2, PhyAssumption
<1>4. CASE d = MaxDuration
  <2>1. \A f \in Frames : l[f] \in 0..MaxDuration
    OBVIOUS
  <2> HIDE DEF d
  <2>2. \A f \in Frames : ~(l[f] > t)
    BY <1>3, <1>4, <2>1 DEF d
  <2> QED  BY <2>2, SilenceIsZero
<1>5. CASE d # MaxDuration
  <2>1. Energy(l, pw, d) < ccaThreshold
    BY <1>2, <1>5
  <2>2. \A f \in Frames : l[f] \in Nat /\ pw[f] \in Nat
    BY <1>3
  <2> HIDE DEF d, S
  <2>3. \A f \in Frames : Heard(l, pw, t)[f] <= Heard(l, pw, d)[f]
    BY <1>3, <2>2 DEF Heard, d
  <2>4. Energy(l, pw, t) <= Energy(l, pw, d)
    BY <2>3, EnergyLeq
  <2>5. Energy(l, pw, t) \in Int /\ Energy(l, pw, d) \in Int
    BY EnergyIsSum
  <2> QED  BY <2>1, <2>4, <2>5, PhyAssumption
<1> QED  BY <1>4, <1>5

-----------------------------------------------------------------------------
(***************************************************************************)
(* The phy reports an idle medium only when it is quiet.  This is not      *)
(* inductive: what the medium will be like when the phy leaves its current *)
(* state is decided long before.  The invariant is about every later time  *)
(* t at which the phy could be idle if nothing else happened until then.   *)
(***************************************************************************)

\* Nothing that keeps the phy busy now lasts longer than t.
OverBy(t) == ccaLeft <= t /\ txLeft <= t /\ swLeft <= t /\ (rxing => rxLeft <= t)

\* A frame whose reception a transmission cut short is still in the air then.
CutShort(t) == \E f \in Frames : fate[f] = "cut" /\ left[f] > t

Quiet(t) == Energy(left, power, t) < ccaThreshold \/ CutShort(t)

QuietLater == \A t \in Nat : OverBy(t) => Quiet(t)

\* Powers are natural numbers.
LEMMA PowersAreNats ==
    ASSUME NEW pw \in [Frames -> Powers \cup {0}]
    PROVE  pw \in [Frames -> Nat]
<1>1. \A f \in Frames : pw[f] \in Nat
  <2>1. \A x \in Powers \cup {0} : x \in Nat
    BY PhyAssumption
  <2> QED  BY <2>1
<1> QED  BY <1>1

\* The types once more, without the bounds.
LEMMA PhyTypes ==
    ASSUME TypeOK
    PROVE  /\ left \in [Frames -> 0..MaxDuration] /\ left \in [Frames -> Nat]
           /\ power \in [Frames -> Nat]
           /\ rxLeft \in Nat /\ txLeft \in Nat /\ swLeft \in Nat /\ ccaLeft \in Nat
           /\ endRxEvent \in Frames \cup {NoFrame}
<1>1. left \in [Frames -> 0..MaxDuration] /\ power \in [Frames -> Powers \cup {0}]
  BY DEF TypeOK
<1>2. power \in [Frames -> Nat]
  BY <1>1, PowersAreNats
<1>3. left \in [Frames -> Nat]
  <2>1. \A f \in Frames : left[f] \in Nat
    BY <1>1, PhyAssumption
  <2> QED  BY <1>1, <2>1
<1> QED  BY <1>1, <1>2, <1>3, PhyAssumption DEF TypeOK

\* If every frame is heard at t as it was at u, quiet stays quiet.
LEMMA SameQuiet ==
    ASSUME TypeOK, TypeOK', NEW t \in Nat, NEW u \in Nat, Quiet(u),
           \A f \in Frames : Heard(left', power', t)[f] = Heard(left, power, u)[f],
           CutShort(u) => CutShort(t)'
    PROVE  Quiet(t)'
<1>1. power \in [Frames -> Nat] /\ power' \in [Frames -> Nat]
  BY PowersAreNats DEF TypeOK
<1>2. Heard(left', power', t) = Heard(left, power, u)
  BY DEF Heard
<1>3. Energy(left', power', t) = Energy(left, power, u)
  BY <1>1, <1>2, EnergyIsSum
<1> QED  BY <1>3 DEF Quiet

\* A frame that is gone by t leaves the medium as it was.
LEMMA ArrivesUnheard ==
    ASSUME TypeOK, TypeOK', NEW f \in Frames, NEW p \in Powers, NEW d \in 1..MaxDuration,
           NEW becomes, Arrives(f, p, d, becomes), left[f] = 0, NEW t \in Nat, d <= t, Quiet(t)
    PROVE  Quiet(t)'
<1>1. \A g \in Frames : left'[g] = IF g = f THEN d ELSE left[g]
  BY PhyTypes DEF Arrives
<1>2. \A g \in Frames : power'[g] = IF g = f THEN p ELSE power[g]
  BY PhyTypes DEF Arrives
<1>3. \A g \in Frames : g # f => fate'[g] = fate[g]
  BY DEF Arrives, TypeOK
<1>4. d \in Nat /\ ~(d > t) /\ ~(0 > t)
  BY PhyAssumption
<1>5. \A g \in Frames : Heard(left', power', t)[g] = Heard(left, power, t)[g]
  BY <1>1, <1>2, <1>4 DEF Heard
<1>6. CutShort(t) => CutShort(t)'
  BY <1>1, <1>3, <1>4 DEF CutShort
<1> QED  BY <1>5, <1>6, SameQuiet

\* After a look at the energy CCA stays busy until the medium is quiet.
LEMMA SensedQuiet ==
    ASSUME TypeOK, TypeOK', maybeCcaBusy, NEW t \in Nat, ccaLeft' <= t
    PROVE  Quiet(t)'
<1> DEFINE e == GetEnergyDuration(left', power')
<1>1. e \in 0..MaxDuration
  BY EnergyDurationType
<1>2. ccaLeft' = Max({ccaLeft, e}) /\ ccaLeft \in Nat /\ ccaLeft' \in Nat
  BY PhyTypes, PhyAssumption DEF maybeCcaBusy, TypeOK
<1> HIDE DEF e
<1>3. e \in Int /\ ccaLeft \in Int
  BY <1>1, <1>2, PhyAssumption
<1>4. e <= Max({ccaLeft, e})
  BY <1>3, MaxIsMember
<1>5. e <= t
  BY <1>2, <1>3, <1>4
<1>6. left' \in [Frames -> 0..MaxDuration] /\ power' \in [Frames -> Nat]
  BY PowersAreNats DEF TypeOK
<1>7. Energy(left', power', t) < ccaThreshold
  BY <1>5, <1>6, QuietAfterDuration DEF e
<1> QED  BY <1>7 DEF Quiet

\* Every step keeps the invariant.
LEMMA NextQuiet ==
    ASSUME TypeOK, TypeOK', ReceptionIsSound, QuietLater, [Next]_vars
    PROVE  QuietLater'
<1> SUFFICES ASSUME NEW t \in Nat, OverBy(t)' PROVE Quiet(t)'
  BY DEF QuietLater
<1> USE PhyAssumption
<1>0. /\ rxLeft \in Nat /\ txLeft \in Nat /\ swLeft \in Nat /\ ccaLeft \in Nat
      /\ left \in [Frames -> Nat]
  BY PhyTypes
<1>a. rxing => /\ endRxEvent \in Frames /\ rxLeft = left[endRxEvent] /\ fate[endRxEvent] = "rx"
  BY DEF ReceptionIsSound, TypeOK
\* While nothing changes in the air, what was quiet is quiet.
<1>b. ASSUME UNCHANGED <<left, power, fate>>, OverBy(t) PROVE Quiet(t)'
  <2>1. Quiet(t)
    BY <1>b DEF QuietLater
  <2> QED  BY <1>b, <2>1 DEF Quiet, CutShort
<1>1. ASSUME NEW f \in Frames, NEW p \in Powers, NEW d \in 1..MaxDuration,
             StartReceivePacket(f, p, d)
      PROVE  Quiet(t)'
  <2>1. CASE DropPacket(f, p, d)
    <3>1. CASE maybeCcaBusy
      BY <3>1, SensedQuiet DEF OverBy
    <3>2. CASE ~maybeCcaBusy
      <4>1. /\ GetState \in {"SWITCHING", "RX", "TX"} /\ ~(d > GetDelayUntilIdle)
            /\ UNCHANGED <<ccaLeft, txLeft, swLeft, rxing, rxLeft>>
        BY <1>1, <2>1, <3>2 DEF StartReceivePacket, DropPacket
      <4>2. OverBy(t)
        BY <4>1 DEF OverBy
      <4>3. GetDelayUntilIdle \in Nat /\ GetDelayUntilIdle <= t
        BY <1>0, <4>1, <4>2 DEF OverBy, GetState, GetDelayUntilIdle
      <4>4. d <= t
        BY <4>1, <4>3
      <4>5. Arrives(f, p, d, "dropped") /\ left[f] = 0 /\ Quiet(t)
        BY <1>1, <2>1, <4>2 DEF StartReceivePacket, DropPacket, QuietLater
      <4> QED  BY <4>4, <4>5, ArrivesUnheard
    <3> QED  BY <3>1, <3>2
  <2>2. CASE SyncToSignal(f, p, d)
    <3>1. /\ Arrives(f, p, d, "rx") /\ left[f] = 0 /\ ~rxing
          /\ rxing' /\ rxLeft' = d /\ UNCHANGED <<ccaLeft, txLeft, swLeft>>
      BY <1>1, <2>2, StateOf DEF StartReceivePacket, SyncToSignal
    <3>2. OverBy(t) /\ d <= t
      BY <3>1 DEF OverBy
    <3>3. Quiet(t)
      BY <3>2 DEF QuietLater
    <3> QED  BY <3>1, <3>2, <3>3, ArrivesUnheard
  <2> QED  BY <1>1, <2>1, <2>2 DEF StartReceivePacket
<1>2. ASSUME NEW outcome \in {"ok", "error"}, EndReceive(outcome)
      PROVE  Quiet(t)'
  <2>1. /\ rxing /\ rxLeft = 0 /\ UNCHANGED <<left, power, ccaLeft, txLeft, swLeft>>
        /\ fate' = [fate EXCEPT ![endRxEvent] = outcome]
    BY <1>2 DEF EndReceive, ReceptionIsSound
  <2>2. OverBy(t)
    BY <2>1 DEF OverBy
  <2>3. Quiet(t)
    BY <2>2 DEF QuietLater
  <2>4. \A f \in Frames : fate[f] = "cut" => fate'[f] = "cut"
    BY <1>a, <2>1 DEF TypeOK
  <2>5. CutShort(t) => CutShort(t)'
    BY <2>1, <2>4 DEF CutShort
  <2> QED  BY <2>1, <2>3, <2>5 DEF Quiet
<1>3. ASSUME NEW d \in 1..MaxDuration, SendPacket(d) PROVE Quiet(t)'
  <2>1. /\ txLeft = 0 /\ ~rxing' /\ UNCHANGED <<left, power, swLeft, ccaLeft>>
        /\ fate' = IF rxing THEN [fate EXCEPT ![endRxEvent] = "cut"] ELSE fate
    BY <1>3, <1>0 DEF SendPacket, CancelRx, GetState
  <2>2. CASE rxing /\ rxLeft > t
    <3>1. endRxEvent \in Frames /\ fate'[endRxEvent] = "cut" /\ left'[endRxEvent] > t
      BY <1>a, <2>1, <2>2 DEF TypeOK
    <3>2. CutShort(t)'
      BY <3>1 DEF CutShort
    <3> QED  BY <3>2 DEF Quiet
  <2>3. CASE ~(rxing /\ rxLeft > t)
    <3>1. OverBy(t)
      BY <1>0, <2>1, <2>3 DEF OverBy
    <3>2. Quiet(t)
      BY <3>1 DEF QuietLater
    <3>3. \A f \in Frames : fate[f] = "cut" => fate'[f] = "cut"
      BY <1>a, <2>1 DEF TypeOK
    <3>4. CutShort(t) => CutShort(t)'
      BY <2>1, <3>3 DEF CutShort
    <3> QED  BY <2>1, <3>2, <3>4 DEF Quiet
  <2> QED  BY <2>2, <2>3
<1>4. ASSUME NEW nch \in ChannelNumbers, switchChannel(nch) PROVE Quiet(t)'
  <2>1. power' \in [Frames -> Nat] /\ \A f \in Frames : ~(left'[f] > t)
    BY <1>4 DEF switchChannel
  <2>2. Energy(left', power', t) < ccaThreshold
    BY <2>1, SilenceIsZero
  <2> QED  BY <2>2 DEF Quiet
<1>5. ASSUME NEW nch \in ChannelNumbers, PostponeSwitch(nch) PROVE Quiet(t)'
  <2>1. UNCHANGED <<left, power, fate>> /\ OverBy(t)
    BY <1>5 DEF PostponeSwitch, OverBy
  <2> QED  BY <1>b, <2>1
<1>6. ASSUME NEW nch \in ChannelNumbers, SetChannelNumber(nch) PROVE Quiet(t)'
  BY <1>4, <1>5, <1>6 DEF SetChannelNumber
<1>7. ASSUME PostponedSetChannelNumber PROVE Quiet(t)'
  BY <1>4, <1>5, <1>7 DEF PostponedSetChannelNumber
<1>8. ASSUME Tick PROVE Quiet(t)'
  <2> DEFINE u == t + 1
  <2>1. /\ rxLeft' = Less(rxLeft) /\ txLeft' = Less(txLeft) /\ swLeft' = Less(swLeft)
        /\ ccaLeft' = Less(ccaLeft) /\ rxing' = rxing
    BY <1>8 DEF Tick
  <2>2. OverBy(u)
    BY <1>0, <2>1 DEF OverBy, Less
  <2>3. Quiet(u)
    BY <2>2 DEF QuietLater
  <2>4. \A f \in Frames : /\ left'[f] = Less(left[f])
                          /\ power'[f] = IF left[f] > 1 THEN power[f] ELSE 0
                          /\ left[f] > 1 => fate'[f] = fate[f]
    BY <1>8 DEF Tick
  <2>5. \A f \in Frames : left[f] \in Nat /\ (left'[f] > t <=> left[f] > u)
                          /\ (left[f] > u => left[f] > 1)
    BY <1>0, <2>4 DEF Less
  <2> HIDE DEF u
  <2>6. \A f \in Frames : Heard(left', power', t)[f] = Heard(left, power, u)[f]
    BY <2>4, <2>5 DEF Heard
  <2>7. CutShort(u) => CutShort(t)'
    BY <2>4, <2>5 DEF CutShort
  <2>8. u \in Nat
    BY DEF u
  <2> QED  BY <2>3, <2>6, <2>7, <2>8, SameQuiet
<1>9. CASE UNCHANGED vars
  <2>1. UNCHANGED <<left, power, fate>> /\ OverBy(t)
    BY <1>9 DEF vars, OverBy
  <2> QED  BY <1>b, <2>1
<1> QED  BY <1>1, <1>2, <1>3, <1>6, <1>7, <1>8, <1>9 DEF Next

\* CCA: the phy reports an idle medium only when all the signals in the air
\* together are below the threshold, but for a frame whose reception a
\* transmission cut short.
THEOREM IdleMeansQuietHolds == Spec => []IdleMeansQuiet
<1>1. Init => QuietLater
  <2> SUFFICES ASSUME Init, NEW t \in Nat PROVE Quiet(t)
    BY DEF QuietLater
  <2>1. power \in [Frames -> Nat] /\ \A f \in Frames : ~(left[f] > t)
    BY DEF Init
  <2>2. Energy(left, power, t) < ccaThreshold
    BY <2>1, SilenceIsZero
  <2> QED  BY <2>2 DEF Quiet
<1>2. TypeOK /\ TypeOK' /\ ReceptionIsSound /\ QuietLater /\ [Next]_vars => QuietLater'
  BY NextQuiet
<1>3. TypeOK /\ QuietLater => IdleMeansQuiet
  <2> SUFFICES ASSUME TypeOK, QuietLater, GetState = "IDLE"
               PROVE  \/ Energy(left, power, 0) < ccaThreshold
                      \/ \E f \in Frames : fate[f] = "cut" /\ left[f] > 0
    BY DEF IdleMeansQuiet
  <2>1. OverBy(0)
    BY PhyTypes DEF GetState, OverBy
  <2>2. Quiet(0)
    BY <2>1 DEF QuietLater
  <2> QED  BY <2>2 DEF Quiet, CutShort
<1>4. Spec => Init /\ [][Next]_vars
  BY PTL DEF Spec
<1> QED  BY <1>1, <1>2, <1>3, <1>4, TypeCorrect, ReceptionSound, PTL

=============================================================================
