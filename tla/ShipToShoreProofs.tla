------------------------- MODULE ShipToShoreProofs -------------------------
(***************************************************************************)
(* The safety properties of EdgeGateway for every configuration: any set   *)
(* of pollers, channel capacities, rate limits and bounds; and that the    *)
(* transmission manager inside the gateway implements EdgeTransmission.    *)
(* The lemmas of EdgeTransmissionProofs about the manager's own steps are  *)
(* used as they stand, because the gateway takes the same ManagerStep.     *)
(* The properties of EcaTracker, which the engine asks about every         *)
(* position, for every set of positions.  And those of TelemetryService,   *)
(* which takes the telemetry in on shore, for any number of ingests and    *)
(* readers, any time stamps and any expiry.                                *)
(***************************************************************************)
EXTENDS EdgeGateway, EcaTracker, TelemetryService, EdgeTransmissionProofs

---------------------------------------------------------------------------
(* The ECA tracker.                                                        *)

(* Some box that contains a position comes first: point_in_eca is a function *)
(* of the position, and what it returns contains the position.               *)
LEMMA FirstBox ==
    ASSUME NEW p \in Positions
    PROVE  /\ PointInEca(p) \in ZoneIds \cup {NoZone}
           /\ PointInEca(p) # NoZone => Contains(PointInEca(p), p)
           /\ \A y \in ZoneIds : Contains(y, p) =>
                  PointInEca(p) # NoZone /\ PointInEca(p) <= y
<1> DEFINE First(z) == Contains(z, p) /\ \A y \in ZoneIds : Contains(y, p) => z <= y
<1>1. CASE \E z \in ZoneIds : Contains(z, p)
  <2> HIDE DEF Contains
  <2>1. \E z \in ZoneIds : First(z)
    <3> DEFINE In(z) == Contains(z, p)
    <3>1. ZoneIds = {1, 2, 3, 4, 5, 6}
      BY DEF ZoneIds
    <3>2. In(1) \/ In(2) \/ In(3) \/ In(4) \/ In(5) \/ In(6)
      BY <1>1, <3>1
    <3> HIDE DEF In
    <3>3. \E z \in ZoneIds : In(z) /\ \A y \in ZoneIds : In(y) => z <= y
      BY <3>1, <3>2
    <3> QED  BY <3>3 DEF In
  <2>2. PointInEca(p) = CHOOSE z \in ZoneIds : First(z)
    BY <1>1 DEF PointInEca
  <2>3. PointInEca(p) \in ZoneIds /\ First(PointInEca(p))
    BY <2>1, <2>2
  <2> QED  BY <2>3 DEF ZoneIds, NoZone
<1>2. CASE ~ \E z \in ZoneIds : Contains(z, p)
  BY <1>2 DEF PointInEca
<1> QED  BY <1>1, <1>2

(* Every point of the English Channel box is a point of the North Sea box.   *)
LEMMA ChannelInsideNorthSea ==
    ASSUME NEW p \in Positions
    PROVE  PointInEca(p) # EnglishChannel
<1>1. p.lat \in Int /\ p.lon \in Int
  BY PositionAssumption
<1>2. Contains(EnglishChannel, p) => Contains(2, p)
  BY <1>1 DEF Contains, EnglishChannel, ECA_ZONES, Box
<1>3. EnglishChannel # NoZone /\ 2 \in ZoneIds /\ ~ (EnglishChannel <= 2)
  BY DEF EnglishChannel, NoZone, ZoneIds
<1> QED
  <2> HIDE DEF Contains, EnglishChannel
  <2>1. SUFFICES ASSUME PointInEca(p) = EnglishChannel PROVE FALSE
    OBVIOUS
  <2>2. Contains(EnglishChannel, p)
    BY <2>1, <1>3, FirstBox
  <2> QED  BY <2>1, <2>2, <1>2, <1>3, FirstBox

(* The invariant holds initially and is preserved by every check.            *)
LEMMA EcaInductive ==
    /\ EcaInit => EcaInv
    /\ EcaInv /\ [EcaNext]_ecaVars => EcaInv'
<1> USE DEF EcaInv, EcaTypeOK, TrackerFollowsPosition, ReceiverKnowsTheZone,
            ChannelIsShadowed
<1>1. EcaInit => EcaInv
  BY DEF EcaInit, NoEvent, Event, NoZone, EnglishChannel, ZoneIds
<1>2. ASSUME EcaInv, [EcaNext]_ecaVars PROVE EcaInv'
  <2>1. CASE UNCHANGED ecaVars
    BY <1>2, <2>1 DEF ecaVars
  <2>2. ASSUME NEW p \in Positions, CheckTransition(p) PROVE EcaInv'
    <3>1. /\ PointInEca(p) \in ZoneIds \cup {NoZone}
          /\ PointInEca(p) # EnglishChannel
      BY FirstBox, ChannelInsideNorthSea
    <3>2. position' = {p} /\ NoZone \notin ZoneIds /\ EnglishChannel # NoZone
      BY <2>2 DEF CheckTransition, NoZone, ZoneIds, EnglishChannel
    <3>3. CASE EnterZone(p)
      BY <1>2, <3>1, <3>2, <3>3 DEF EnterZone, Event
    <3>4. CASE ExitZone(p)
      BY <1>2, <3>1, <3>2, <3>4 DEF ExitZone, Event
    <3>5. CASE ChangeZone(p)
      BY <1>2, <3>1, <3>2, <3>5 DEF ChangeZone, Event
    <3>6. CASE SameZone(p)
      BY <1>2, <3>1, <3>2, <3>6 DEF SameZone, NoEvent
    <3> QED  BY <2>2, <3>3, <3>4, <3>5, <3>6 DEF CheckTransition
  <2> QED  BY <1>2, <2>1, <2>2 DEF EcaNext
<1> QED  BY <1>1, <1>2

(* Type correctness of the tracker: an exit always names a real zone.        *)
THEOREM EcaTypeCorrect == EcaSpec => []EcaTypeOK
<1>1. EcaInv => EcaTypeOK
  BY DEF EcaInv
<1> QED  BY <1>1, EcaInductive, PTL DEF EcaSpec

(* The tracker's zone is the zone of the last position, after any sequence   *)
(* of positions.                                                             *)
THEOREM TrackerCorrect == EcaSpec => []TrackerFollowsPosition
<1>1. EcaInv => TrackerFollowsPosition
  BY DEF EcaInv
<1> QED  BY <1>1, EcaInductive, PTL DEF EcaSpec

(* A receiver that replays the events never loses the zone the vessel is in. *)
THEOREM ReceiverInformed == EcaSpec => []ReceiverKnowsTheZone
<1>1. EcaInv => ReceiverKnowsTheZone
  BY DEF EcaInv
<1> QED  BY <1>1, EcaInductive, PTL DEF EcaSpec

(* No event ever names the English Channel.                                  *)
THEOREM ChannelNeverReported == EcaSpec => []ChannelIsShadowed
<1>1. EcaInv => ChannelIsShadowed
  BY DEF EcaInv
<1> QED  BY <1>1, EcaInductive, PTL DEF EcaSpec

---------------------------------------------------------------------------
(* The gateway.                                                            *)

(* A branch of the engine sends channel messages, and a bounded number.    *)
LEMMA BranchSendsAreMessages ==
    ASSUME NEW s \in Sources, NEW t \in BranchSends(s)
    PROVE  t \in Seq(Chan) /\ Len(t) <= MaxAnomalies + 1
<1>1. CASE s = "nav"
  <2>1. t = <<>> \/ t = <<"eca">>
    BY <1>1 DEF BranchSends
  <2>2. <<>> \in Seq(Chan) /\ Len(<<>>) = 0
    OBVIOUS
  <2>3. <<"eca">> \in Seq(Chan) /\ Len(<<"eca">>) = 1
    BY DEF Chan
  <2>4. 0 <= MaxAnomalies + 1 /\ 1 <= MaxAnomalies + 1
    BY GatewayAssumption
  <2>5. CASE t = <<>>
    BY <2>2, <2>4, <2>5, Zenon
  <2>6. CASE t = <<"eca">>
    BY <2>3, <2>4, <2>6, Zenon
  <2> QED
    BY <2>1, <2>5, <2>6
<1>2. CASE s # "nav"
  <2>1. PICK n \in 0 .. Checks[s] : n <= MaxAnomalies /\ t = [i \in 1 .. n |-> "anomaly"]
    BY <1>2 DEF BranchSends
  <2>2. n \in Nat
    BY <1>2, GatewayAssumption DEF Checks, AllSources
  <2>3. t \in Seq(Chan) /\ Len(t) = n
    BY <2>1, <2>2 DEF Chan
  <2> QED
    BY <2>1, <2>2, <2>3, GatewayAssumption
<1> QED
  BY <1>1, <1>2

(* Taking the first message off what is to be sent.                        *)
LEMMA FirstOfTodo ==
    ASSUME todo \in Seq(Chan), todo # <<>>
    PROVE  /\ Head(todo) \in Chan /\ Tail(todo) \in Seq(Chan)
           /\ Len(Tail(todo)) = Len(todo) - 1 /\ Len(todo) \in Nat \ {0}
OBVIOUS

(* A drained window is followed by two sends.                              *)
LEMMA DrainSends == <<"cii", "agg">> \in Seq(Chan) /\ Len(<<"cii", "agg">>) = 2
BY DEF Chan

(* How a step of the gateway treats the manager: it is one of its own      *)
(* steps, or a send of the engine, a signal, a tick, the heartbeat timer,  *)
(* or a step that leaves all of it alone.                                  *)
LEMMA GatewaySteps ==
    ASSUME [GatewayNext]_allVars
    PROVE  \/ TransmissionStep \/ ClockStep \/ HeartbeatStep
           \/ SendEvent /\ AnalyticsStep
           \/ SigInt \/ SigTermHandled
           \/ UNCHANGED vars
<1>1. CtrlCUnheard => UNCHANGED vars
  BY DEF CtrlCUnheard, SignalStep, vars
<1> QED
  BY <1>1 DEF GatewayNext, allVars, PollerStep, DeviceAnswers, AnalyticsStep,
     ReceiveSample, AnalyticsStop, DrainWindow, NextIteration, SigTermKills, Join, vars

-----------------------------------------------------------------------------
(* Types.  The manager's variables first.                                  *)
LEMMA UplinkTypeStep ==
    ASSUME TypeOK, GatewayTypeOK, [GatewayNext]_allVars
    PROVE  TypeOK'
<1>1. CASE TransmissionStep \/ ClockStep \/ HeartbeatStep \/ UNCHANGED vars
  BY <1>1, TypeStep DEF TransmissionStep, ClockStep, HeartbeatStep, Next
<1>2. CASE SendEvent /\ AnalyticsStep
  <2>1. Head(todo) \in Chan
    BY <1>2, FirstOfTodo DEF SendEvent, GatewayTypeOK
  <2>2. inbox' \in [Chan -> 0 .. ChanCap]
    BY <1>2, <2>1, TransmissionAssumption DEF SendEvent, TypeOK
  <2> QED
    BY <1>2, <2>2 DEF AnalyticsStep, TypeOK, LimiterTypeOK, limiterVars, managerVars
<1>3. CASE SigInt \/ SigTermHandled
  BY <1>3 DEF SigInt, SigTermHandled, SignalStep, TypeOK, LimiterTypeOK, limiterVars, managerVars
<1> QED
  BY <1>1, <1>2, <1>3, GatewaySteps

(* The engine, the pollers and their channels.                             *)
GatewayPart == GatewayTypeOK /\ SamplesAccounted /\ PollerInv /\ EngineInv

LEMMA GatewayPartInit == GatewayInit => GatewayPart
<1> SUFFICES ASSUME GatewayInit PROVE GatewayPart
  OBVIOUS
<1> USE GatewayAssumption DEF GatewayInit, InHand
<1>1. GatewayTypeOK
  BY DEF GatewayTypeOK
<1>2. SamplesAccounted /\ PollerInv /\ EngineInv
  BY DEF SamplesAccounted, PollerInv, EngineInv
<1> QED
  BY <1>1, <1>2 DEF GatewayPart

(* Where the samples of a source are counted, as numbers.                  *)
Numbers(t) ==
    /\ samples[t] \in Nat /\ samples[t] <= MaxSamples /\ channel[t] \in Nat
    /\ window[t] \in Nat /\ aggregated[t] \in Nat /\ rejected[t] \in Nat
    /\ InHand(t) \in {0, 1}

LEMMA PartNumbers == GatewayTypeOK => \A t \in Sources : Numbers(t)
BY GatewayAssumption DEF GatewayTypeOK, Numbers, InHand

(* A poller's step.                                                        *)
LEMMA PollersKeepPart ==
    ASSUME GatewayPart, NEW s \in Sources, PollerStep(s) \/ DeviceAnswers(s)
    PROVE  GatewayPart'
<1> USE GatewayAssumption DEF GatewayPart, Numbers
<1>0. /\ UNCHANGED <<signalPc, proc, analyticsPc, todo, window, aggregated, raised, refused>>
      /\ \A t \in Sources : Numbers(t)
  BY PartNumbers DEF PollerStep, DeviceAnswers, engineVars
<1>1. CASE Connect(s) \/ PollTick(s) \/ PollStop(s) \/ ReadFails(s) \/ SessionClosed(s)
  <2>1. UNCHANGED <<samples, channel, rejected>>
    BY <1>1 DEF Connect, PollTick, PollStop, ReadFails, SessionClosed, Returning
  <2>2. GatewayTypeOK'
    BY <1>0, <1>1, <2>1 DEF Connect, PollTick, PollStop, ReadFails, SessionClosed, Returning, GatewayTypeOK
  <2>3. \A t \in Sources : InHand(t)' = InHand(t)
    BY <1>1 DEF Connect, PollTick, PollStop, ReadFails, SessionClosed, Returning, GatewayTypeOK, InHand
  <2>4. SamplesAccounted'
    BY <1>0, <2>1, <2>3 DEF SamplesAccounted
  <2>5. PollerInv' /\ EngineInv'
    BY <1>0, <1>1, <2>1 DEF Connect, PollTick, PollStop, ReadFails, SessionClosed, Returning,
                           GatewayTypeOK, PollerInv, EngineInv
  <2> QED
    BY <2>2, <2>4, <2>5
<1>2. CASE ReadSucceeds(s)
  <2>1. samples[s] < MaxSamples /\ pollerPc[s] = "reading"
    BY <1>2 DEF ReadSucceeds, PollerInv
  <2>2. /\ samples' = [samples EXCEPT ![s] = @ + 1] /\ UNCHANGED <<channel, rejected>>
        /\ pollerPc' = [pollerPc EXCEPT ![s] = "sending"]
    BY <1>2 DEF ReadSucceeds
  <2>3. GatewayTypeOK'
    BY <1>0, <2>1, <2>2 DEF GatewayTypeOK
  <2>4. SamplesAccounted'
    <3>1. InHand(s) = 0
      BY <2>1 DEF InHand
    <3>2. \A t \in Sources : InHand(t)' = IF t = s THEN 1 ELSE InHand(t)
      BY <2>2 DEF InHand, GatewayTypeOK
    <3>3. \A t \in Sources : samples'[t] = IF t = s THEN samples[t] + 1 ELSE samples[t]
      BY <2>1, <2>2 DEF GatewayTypeOK
    <3> QED
      BY <1>0, <2>1, <2>2, <3>1, <3>2, <3>3 DEF SamplesAccounted
  <2>5. PollerInv' /\ EngineInv'
    BY <1>0, <2>1, <2>2 DEF PollerInv, EngineInv, GatewayTypeOK
  <2> QED
    BY <2>3, <2>4, <2>5
<1>3. CASE SendSample(s)
  <2>1. channel[s] < SampleCap /\ pollerPc[s] = "sending"
    BY <1>3 DEF SendSample
  <2>2. /\ channel' = [channel EXCEPT ![s] = @ + 1] /\ UNCHANGED <<samples, rejected>>
        /\ pollerPc' = [pollerPc EXCEPT ![s] = "select"]
    BY <1>3 DEF SendSample
  <2>3. GatewayTypeOK'
    BY <1>0, <2>1, <2>2 DEF GatewayTypeOK
  <2>4. SamplesAccounted'
    <3>1. InHand(s) = 1
      BY <2>1 DEF InHand
    <3>2. \A t \in Sources : InHand(t)' = IF t = s THEN 0 ELSE InHand(t)
      BY <2>2 DEF InHand, GatewayTypeOK
    <3>3. \A t \in Sources : channel'[t] = IF t = s THEN channel[t] + 1 ELSE channel[t]
      BY <2>1, <2>2 DEF GatewayTypeOK
    <3> QED
      BY <1>0, <2>1, <2>2, <3>1, <3>2, <3>3 DEF SamplesAccounted
  <2>5. PollerInv' /\ EngineInv'
    BY <1>0, <2>1, <2>2 DEF PollerInv, EngineInv, GatewayTypeOK
  <2> QED
    BY <2>3, <2>4, <2>5
<1>4. CASE SendRejected(s)
  <2>1. analyticsPc = "done" /\ pollerPc[s] = "sending" /\ rejected[s] = 0
    BY <1>0, <1>4 DEF SendRejected, PollerInv
  <2>2. /\ rejected' = [rejected EXCEPT ![s] = @ + 1] /\ UNCHANGED <<samples, channel>>
        /\ pollerPc' = [pollerPc EXCEPT ![s] = Returning(s)]
        /\ Returning(s) \in {"closing", "done"}
    BY <1>4 DEF SendRejected, Returning
  <2>3. GatewayTypeOK'
    BY <1>0, <2>1, <2>2 DEF GatewayTypeOK
  <2>4. SamplesAccounted'
    <3>1. InHand(s) = 1
      BY <2>1 DEF InHand
    <3>2. \A t \in Sources : InHand(t)' = IF t = s THEN 0 ELSE InHand(t)
      BY <2>2 DEF InHand, GatewayTypeOK
    <3>3. \A t \in Sources : rejected'[t] = IF t = s THEN 1 ELSE rejected[t]
      BY <2>1, <2>2 DEF GatewayTypeOK
    <3> QED
      BY <1>0, <2>1, <2>2, <3>1, <3>2, <3>3 DEF SamplesAccounted
  <2>5. PollerInv' /\ EngineInv'
    BY <1>0, <2>1, <2>2 DEF PollerInv, EngineInv, GatewayTypeOK
  <2> QED
    BY <2>3, <2>4, <2>5
<1> QED
  BY <1>1, <1>2, <1>3, <1>4 DEF PollerStep, DeviceAnswers

(* A step of the engine.                                                   *)
LEMMA EngineKeepsPart ==
    ASSUME GatewayPart, AnalyticsStep
    PROVE  GatewayPart'
<1> USE GatewayAssumption DEF GatewayPart, Numbers
<1>0. /\ UNCHANGED <<proc, signalPc, pollerPc, samples, rejected>>
      /\ \A t \in Sources : Numbers(t)
  BY PartNumbers DEF AnalyticsStep, pollerVars
<1>1. ASSUME NEW s \in Sources, ReceiveSample(s) PROVE GatewayPart'
  <2>1. todo' \in Seq(Chan) /\ Len(todo') \in Nat
    BY <1>1, BranchSendsAreMessages DEF ReceiveSample
  <2>2. /\ channel[s] > 0 /\ channel' = [channel EXCEPT ![s] = @ - 1]
        /\ window' = [window EXCEPT ![s] = @ + 1] /\ raised' = raised + Len(todo')
        /\ analyticsPc = "select" /\ analyticsPc' = "branch"
        /\ aggregated' = aggregated /\ refused' = refused
    BY <1>1 DEF ReceiveSample
  <2>3. SamplesAccounted'
    <3>1. \A t \in Sources : InHand(t)' = InHand(t)
      BY <1>0 DEF InHand
    <3>2. \A t \in Sources :
              /\ channel'[t] = IF t = s THEN channel[t] - 1 ELSE channel[t]
              /\ window'[t] = IF t = s THEN window[t] + 1 ELSE window[t]
      BY <2>2 DEF GatewayTypeOK
    <3>3. ASSUME NEW t \in Sources
          PROVE  /\ samples'[t] = InHand(t)' + channel'[t] + window'[t] + aggregated'[t] + rejected'[t]
                 /\ rejected'[t] <= 1
      <4>1. /\ samples[t] = InHand(t) + channel[t] + window[t] + aggregated[t] + rejected[t]
            /\ rejected[t] <= 1
        BY DEF SamplesAccounted
      <4>2. channel[t] \in Nat /\ window[t] \in Nat /\ aggregated[t] \in Nat
            /\ rejected[t] \in Nat /\ InHand(t) \in Nat
        BY <1>0
      <4>3. /\ channel'[t] + window'[t] = channel[t] + window[t]
            /\ channel'[t] \in Int /\ window'[t] \in Int
        BY <3>2, <4>2
      <4>4. /\ samples'[t] = samples[t] /\ aggregated'[t] = aggregated[t]
            /\ rejected'[t] = rejected[t] /\ InHand(t)' = InHand(t)
        BY <1>0, <2>2, <3>1
      <4> QED
        BY <4>1, <4>2, <4>3, <4>4
    <3> QED
      BY <3>3 DEF SamplesAccounted
  <2>4. window[s] + 1 \in 0 .. MaxSamples
    <3>1. samples[s] = InHand(s) + channel[s] + window[s] + aggregated[s] + rejected[s]
      BY DEF SamplesAccounted
    <3>2. /\ samples[s] \in Nat /\ samples[s] <= MaxSamples /\ InHand(s) \in Nat
          /\ channel[s] \in Nat /\ channel[s] > 0
          /\ window[s] \in Nat /\ aggregated[s] \in Nat /\ rejected[s] \in Nat
      BY <1>0, <2>2
    <3> QED
      BY <3>1, <3>2
  <2>5. GatewayTypeOK'
    <3>1. channel' \in [Sources -> 0 .. SampleCap]
      BY <2>2 DEF GatewayTypeOK
    <3>2. window' \in [Sources -> 0 .. MaxSamples]
      BY <2>2, <2>4 DEF GatewayTypeOK
    <3>3. raised' \in Nat
      BY <2>1, <2>2 DEF GatewayTypeOK
    <3> QED
      BY <1>0, <2>1, <2>2, <3>1, <3>2, <3>3 DEF GatewayTypeOK
  <2>6. PollerInv' /\ EngineInv'
    BY <1>0, <2>2 DEF PollerInv, EngineInv
  <2> QED
    BY <2>3, <2>5, <2>6
<1>2. CASE AnalyticsStop
  BY <1>0, <1>2 DEF AnalyticsStop, GatewayTypeOK, SamplesAccounted, PollerInv, EngineInv, InHand
<1>3. CASE SendEvent
  BY <1>0, <1>3, FirstOfTodo
     DEF SendEvent, GatewayTypeOK, SamplesAccounted, PollerInv, EngineInv, InHand
<1>4. CASE DrainWindow
  <2>1. /\ aggregated' = [t \in Sources |-> aggregated[t] + window[t]]
        /\ window' = [t \in Sources |-> 0] /\ todo' = <<"cii", "agg">>
        /\ raised' = raised + 2 /\ analyticsPc' = "window" /\ channel' = channel
        /\ refused' = refused /\ analyticsPc = "branch"
    BY <1>4 DEF DrainWindow
  <2>2. SamplesAccounted'
    <3>1. \A t \in Sources : InHand(t)' = InHand(t)
      BY <1>0 DEF InHand
    <3> QED
      BY <1>0, <2>1, <3>1 DEF SamplesAccounted
  <2>3. \A t \in Sources : aggregated[t] + window[t] \in 0 .. MaxSamples
    BY <1>0 DEF SamplesAccounted
  <2>4. GatewayTypeOK'
    BY <1>0, <2>1, <2>3, DrainSends DEF GatewayTypeOK
  <2>5. PollerInv' /\ EngineInv'
    BY <1>0, <2>1 DEF PollerInv, EngineInv
  <2> QED
    BY <2>2, <2>4, <2>5
<1>5. CASE NextIteration
  BY <1>0, <1>5 DEF NextIteration, GatewayTypeOK, SamplesAccounted, PollerInv, EngineInv, InHand
<1> QED
  BY <1>1, <1>2, <1>3, <1>4, <1>5 DEF AnalyticsStep

LEMMA GatewayPartStep ==
    ASSUME GatewayPart, [GatewayNext]_allVars
    PROVE  GatewayPart'
<1> USE DEF GatewayPart, GatewayTypeOK, SamplesAccounted, PollerInv, EngineInv, InHand
<1>1. CASE AnalyticsStep
  BY <1>1, EngineKeepsPart
<1>2. CASE \E s \in Sources : PollerStep(s) \/ DeviceAnswers(s)
  BY <1>2, PollersKeepPart
<1>3. CASE TransmissionStep \/ ClockStep \/ HeartbeatStep \/ UNCHANGED allVars
  BY <1>3 DEF TransmissionStep, ClockStep, HeartbeatStep, allVars, gatewayVars,
              pollerVars, engineVars
<1>4. CASE SigTermKills \/ Join
  BY <1>4 DEF SigTermKills, Join, pollerVars, engineVars
<1>5. CASE SigInt \/ CtrlCUnheard \/ SigTermHandled
  BY <1>5 DEF SigInt, CtrlCUnheard, SigTermHandled, SignalStep, pollerVars, engineVars
<1> QED
  BY <1>1, <1>2, <1>3, <1>4, <1>5 DEF GatewayNext

-----------------------------------------------------------------------------
(* The manager inside the gateway keeps its own invariant.                 *)
LEMMA UplinkCoreStep ==
    ASSUME TypeOK, Core, [GatewayNext]_allVars
    PROVE  Core'
<1>1. CASE TransmissionStep
  <2>1. ManagerStep
    BY <1>1 DEF TransmissionStep
  <2> QED
    BY <2>1, PlacesStep, ControlStep, CountStep, BatchStep, OrderStep DEF Core
<1>2. CASE ~TransmissionStep
  <2>1. UNCHANGED managerVars /\ UNCHANGED limit
    BY <1>2, GatewaySteps
       DEF ClockStep, Tick, LimiterTick, HeartbeatStep, HeartbeatElapses, AnalyticsStep,
           SigInt, SigTermHandled, SignalStep, vars, limiterVars
  <2> QED
    BY <2>1, CoreUnchanged
<1> QED
  BY <1>1, <1>2

(* The manager starts to flush, and returns, only after the shutdown; once *)
(* it is gone it does not come back.                                       *)
LEMMA ManagerEnds ==
    ASSUME ManagerStep
    PROVE  /\ flushing' => flushing \/ shutdown
           /\ pc' \in {"disconnect", "done"} => flushing \/ pc = "disconnect"
           /\ ~TransmissionGone /\ shutdown' = shutdown
<1> USE DEF TransmissionGone
<1>1. ASSUME NEW c \in Chan, Receive(c)
      PROVE  flushing' = flushing /\ pc' \in {"collect", "tail"} /\ pc = "select"
             /\ shutdown' = shutdown
  BY <1>1 DEF Receive
<1> QED
  BY <1>1 DEF ManagerStep, StartFlush, CollectUrgent, CollectEnds, AcquireToken,
     AcquireWithoutTokens, PublishSucceeds, PublishFails, EncodeFails, BatchEnds,
     EndIteration, Disconnect

LEMMA ShutdownStep ==
    ASSUME ShutdownInv, [GatewayNext]_allVars
    PROVE  ShutdownInv'
<1> USE DEF ShutdownInv, TransmissionGone
<1>1. CASE TransmissionStep
  <2>1. ManagerStep /\ UNCHANGED <<signalPc, analyticsPc, refused>>
    BY <1>1 DEF TransmissionStep, gatewayVars, engineVars
  <2> QED
    BY <2>1, ManagerEnds
<1>2. CASE ClockStep \/ HeartbeatStep
  BY <1>2 DEF ClockStep, HeartbeatStep, Tick, HeartbeatElapses, managerVars,
              gatewayVars, engineVars
<1>3. CASE AnalyticsStep
  <2>1. UNCHANGED <<pc, flushing, shutdown, signalPc>>
    BY <1>3 DEF AnalyticsStep, managerVars
  <2>2. ASSUME NEW s \in Sources, ReceiveSample(s)
        PROVE  analyticsPc' # "done" /\ refused' = refused
    BY <2>2 DEF ReceiveSample
  <2>3. /\ analyticsPc' = "done" => analyticsPc = "done" \/ shutdown
        /\ refused' = refused \/ TransmissionGone
    BY <1>3, <2>2 DEF AnalyticsStep, AnalyticsStop, SendEvent, DrainWindow, NextIteration
  <2> QED
    BY <2>1, <2>3
<1>4. CASE SigInt \/ CtrlCUnheard \/ SigTermHandled
  BY <1>4 DEF SigInt, CtrlCUnheard, SigTermHandled, SignalStep, managerVars, engineVars
<1>5. CASE SigTermKills \/ Join \/ UNCHANGED allVars
  BY <1>5 DEF SigTermKills, Join, vars, managerVars, allVars, gatewayVars, engineVars
<1>6. ASSUME NEW s \in Sources, PollerStep(s) \/ DeviceAnswers(s) PROVE ShutdownInv'
  BY <1>6 DEF PollerStep, DeviceAnswers, vars, managerVars, engineVars
<1> QED
  BY <1>1, <1>2, <1>3, <1>4, <1>5, <1>6 DEF GatewayNext

-----------------------------------------------------------------------------
(* Events.  What the manager has taken is a finite set, and each message   *)
(* it takes leaves a channel.                                              *)
LEMMA OneTaken ==
    ASSUME TypeOK, Core, IsFiniteSet(Taken), NEW c \in Chan, Receive(c)
    PROVE  /\ IsFiniteSet(Taken)' /\ Cardinality(Taken)' = Cardinality(Taken) + 1
           /\ Waiting' = Waiting - 1
<1> DEFINE new == NewMessage(c)
<1>1. /\ new.kind = c /\ new.id = nextId /\ heap' = heap \cup {new}
      /\ UNCHANGED <<batch, reqs, sent, dropped>>
  BY DEF Receive, NewMessage
<1>2. Taken' = Taken \cup {new}
  BY <1>1 DEF Taken, Accepted, Published
<1>3. new \notin Taken
  BY <1>1 DEF Taken, Core, HistoryInv, TypeOK
<1>4. IsFiniteSet(Taken \cup {new}) /\ Cardinality(Taken \cup {new}) = Cardinality(Taken) + 1
  BY <1>3, FS_AddElement
<1>5. Waiting' = Waiting - 1
  <2>1. /\ \A d \in Chan : inbox[d] \in Nat
        /\ \A d \in Chan : inbox'[d] = IF d = c THEN inbox[d] - 1 ELSE inbox[d]
    BY TransmissionAssumption DEF Receive, TypeOK
  <2> QED
    BY <2>1 DEF Waiting, Chan
<1> QED
  BY <1>2, <1>4, <1>5

(* And each message the engine sends joins one.                            *)
LEMMA OneOffered ==
    ASSUME TypeOK, NEW c \in Chan, inbox' = [inbox EXCEPT ![c] = @ + 1]
    PROVE  Waiting' = Waiting + 1
<1>1. /\ \A d \in Chan : inbox[d] \in Nat
      /\ \A d \in Chan : inbox'[d] = IF d = c THEN inbox[d] + 1 ELSE inbox[d]
  BY TransmissionAssumption DEF TypeOK
<1> QED
  BY <1>1 DEF Waiting, Chan

(* The manager's other steps move no message in or out of its hands.       *)
LEMMA TakenStep ==
    ASSUME TypeOK, Core, ManagerStep, \A c \in Chan : ~Receive(c)
    PROVE  Taken' = Taken /\ inbox' = inbox
<1> USE DEF Taken, Accepted, Published
<1>1. CASE StartFlush
  BY <1>1 DEF StartFlush, Core, ControlInv
<1>2. CASE CollectUrgent \/ CollectEnds
  BY <1>2 DEF CollectUrgent, CollectEnds
<1>3. CASE AcquireToken \/ AcquireWithoutTokens
  BY <1>3 DEF AcquireToken, AcquireWithoutTokens
<1>4. CASE PublishSucceeds
  BY <1>4 DEF PublishSucceeds
<1>5. CASE PublishFails
  BY <1>5 DEF PublishFails
<1>6. CASE EncodeFails
  BY <1>6 DEF EncodeFails
<1>7. CASE BatchEnds \/ Disconnect
  BY <1>7 DEF BatchEnds, Disconnect
<1>8. CASE EndIteration
  <2>1. NewMessage("heartbeat").kind \notin Chan
    BY DEF NewMessage, Chan
  <2> QED
    BY <1>8, <2>1 DEF EndIteration
<1> QED
  BY <1>1, <1>2, <1>3, <1>4, <1>5, <1>6, <1>7, <1>8 DEF ManagerStep

(* What the manager holds changes only by its own steps.                   *)
LEMMA TakenUnchanged ==
    ASSUME UNCHANGED managerVars
    PROVE  Taken' = Taken
BY DEF managerVars, Taken, Accepted, Published

(* The history of events.                                                  *)
EventsInv == EventsAccounted /\ IsFiniteSet(Taken)

LEMMA EventsStep ==
    ASSUME TypeOK, Core, GatewayTypeOK, EngineInv, EventsInv, [GatewayNext]_allVars
    PROVE  EventsInv'
<1>0. /\ raised \in Nat /\ refused \in Nat /\ Len(todo) \in Nat /\ Waiting \in Nat
      /\ Cardinality(Taken) \in Nat /\ todo \in Seq(Chan)
  BY FS_CardinalityType, TransmissionAssumption
     DEF GatewayTypeOK, EventsInv, Waiting, TypeOK, Chan
<1>1. CASE TransmissionStep
  <2>0. ManagerStep /\ UNCHANGED <<raised, todo, refused>>
    BY <1>1 DEF TransmissionStep, gatewayVars, engineVars
  <2>1. ASSUME NEW c \in Chan, Receive(c) PROVE EventsInv'
    BY <1>0, <2>0, <2>1, OneTaken DEF EventsInv, EventsAccounted
  <2>2. CASE \A c \in Chan : ~Receive(c)
    BY <2>0, <2>2, TakenStep DEF EventsInv, EventsAccounted, Waiting
  <2> QED
    BY <2>1, <2>2
<1>2. CASE AnalyticsStep
  <2>0. UNCHANGED managerVars /\ Taken' = Taken
    BY <1>2, TakenUnchanged DEF AnalyticsStep
  <2> USE DEF EventsInv, EventsAccounted
  <2>1. ASSUME NEW s \in Sources, ReceiveSample(s) PROVE EventsInv'
    <3>1. /\ todo = <<>> /\ raised' = raised + Len(todo') /\ Len(todo') \in Nat
          /\ inbox' = inbox /\ refused' = refused
      BY <2>1, BranchSendsAreMessages DEF ReceiveSample, EngineInv
    <3>2. Len(todo) = 0
      BY <3>1
    <3> QED
      BY <1>0, <2>0, <3>1, <3>2 DEF Waiting
  <2>2. CASE AnalyticsStop \/ NextIteration
    BY <2>0, <2>2 DEF AnalyticsStop, NextIteration, Waiting
  <2>3. CASE SendEvent
    <3>1. PICK c \in Chan :
             /\ Len(todo') = Len(todo) - 1 /\ raised' = raised
             /\ \/ refused' = refused + 1 /\ inbox' = inbox
                \/ refused' = refused /\ inbox' = [inbox EXCEPT ![c] = @ + 1]
      BY <1>0, <2>3, FirstOfTodo DEF SendEvent
    <3>2. CASE refused' = refused + 1 /\ inbox' = inbox
      BY <1>0, <2>0, <3>1, <3>2 DEF Waiting
    <3>3. CASE refused' = refused /\ inbox' = [inbox EXCEPT ![c] = @ + 1]
      <4>1. Waiting' = Waiting + 1
        BY <3>3, OneOffered
      <4> QED
        BY <1>0, <2>0, <3>1, <3>3, <4>1
    <3> QED
      BY <3>1, <3>2, <3>3
  <2>4. CASE DrainWindow
    <3>1. /\ todo = <<>> /\ Len(todo') = 2 /\ raised' = raised + 2
          /\ inbox' = inbox /\ refused' = refused
      BY <2>4, DrainSends DEF DrainWindow
    <3>2. Len(todo) = 0
      BY <3>1
    <3> QED
      BY <1>0, <2>0, <3>1, <3>2 DEF Waiting
  <2> QED
    BY <1>2, <2>1, <2>2, <2>3, <2>4 DEF AnalyticsStep
<1>3. CASE ~TransmissionStep /\ ~AnalyticsStep
  <2>1. UNCHANGED <<managerVars, inbox, raised, todo, refused>>
    BY <1>3 DEF GatewayNext, PollerStep, DeviceAnswers, ClockStep, HeartbeatStep, Tick,
       HeartbeatElapses, SigInt, CtrlCUnheard, SigTermHandled, SignalStep, SigTermKills, Join, allVars, vars,
       gatewayVars, engineVars
  <2> QED
    BY <2>1, TakenUnchanged DEF EventsInv, EventsAccounted, Waiting
<1> QED
  BY <1>1, <1>2, <1>3

-----------------------------------------------------------------------------
(* The bound on what the engine sends.                                     *)
In(s) == IF s \in Sources THEN 1 ELSE 0

(* The pollers are counted one by one.                                     *)
LEMMA SourcesCounted ==
    /\ IsFiniteSet(Sources)
    /\ Cardinality(Sources) = In("engine") + In("cargo") + In("aux") + In("nav")
<1> DEFINE S1 == Sources \cap {"engine"}
           S2 == Sources \cap {"engine", "cargo"}
           S3 == Sources \cap {"engine", "cargo", "aux"}
           S4 == Sources \cap {"engine", "cargo", "aux", "nav"}
<1>1. ASSUME NEW S, IsFiniteSet(S), NEW s \in AllSources, s \notin S
      PROVE  /\ IsFiniteSet(IF s \in Sources THEN S \cup {s} ELSE S)
             /\ Cardinality(IF s \in Sources THEN S \cup {s} ELSE S) = Cardinality(S) + In(s)
  BY <1>1, FS_AddElement, FS_CardinalityType DEF In
<1>2. IsFiniteSet({}) /\ Cardinality({}) = 0
  BY FS_EmptySet
<1>3. S1 = IF "engine" \in Sources THEN {} \cup {"engine"} ELSE {}
  OBVIOUS
<1>4. S2 = IF "cargo" \in Sources THEN S1 \cup {"cargo"} ELSE S1
  OBVIOUS
<1>5. S3 = IF "aux" \in Sources THEN S2 \cup {"aux"} ELSE S2
  OBVIOUS
<1>6. S4 = IF "nav" \in Sources THEN S3 \cup {"nav"} ELSE S3
  OBVIOUS
<1>7. "cargo" \notin S1 /\ "aux" \notin S2 /\ "nav" \notin S3 /\ S4 = Sources
  BY GatewayAssumption DEF AllSources
<1> HIDE DEF S1, S2, S3, S4
<1>8. IsFiniteSet(S1) /\ Cardinality(S1) = In("engine")
  <2>1. "engine" \in AllSources /\ "engine" \notin {}
    BY DEF AllSources
  <2>2. IsFiniteSet(S1) /\ Cardinality(S1) = 0 + In("engine")
    BY <1>1, <1>2, <1>3, <2>1
  <2> QED
    BY <2>2 DEF In
<1>9. IsFiniteSet(S2) /\ Cardinality(S2) = In("engine") + In("cargo")
  BY <1>1, <1>4, <1>7, <1>8 DEF AllSources
<1>10. IsFiniteSet(S3) /\ Cardinality(S3) = In("engine") + In("cargo") + In("aux")
  BY <1>1, <1>5, <1>7, <1>9 DEF AllSources
<1>11. /\ IsFiniteSet(S4)
       /\ Cardinality(S4) = In("engine") + In("cargo") + In("aux") + In("nav")
  BY <1>1, <1>6, <1>7, <1>10 DEF AllSources
<1> QED
  BY <1>7, <1>11

(* Products of natural numbers.                                            *)
LEMMA ProductGrows ==
    ASSUME NEW m \in Nat, NEW n \in Nat, NEW k \in Nat, m <= n
    PROVE  m * k \in Nat /\ n * k \in Nat /\ m * k <= n * k
<1>1. n * k - m * k = (n - m) * k
  OBVIOUS
<1>2. (n - m) * k \in Nat /\ m * k \in Nat /\ n * k \in Nat
  OBVIOUS
<1> QED
  BY <1>1, <1>2

LEMMA ProductOfNext ==
    ASSUME NEW m \in Nat, NEW k \in Nat
    PROVE  (m + 1) * k = m * k + k /\ m * k \in Nat
OBVIOUS

(* No more samples are received than the pollers may read.                 *)
LEMMA ReceivedBounded ==
    ASSUME GatewayTypeOK, SamplesAccounted
    PROVE  Received \in Nat /\ Received <= Cardinality(Sources) * MaxSamples
<1>1. \A s \in Sources : window[s] + aggregated[s] \in 0 .. MaxSamples
  <2>1. ASSUME NEW s \in Sources PROVE window[s] + aggregated[s] \in 0 .. MaxSamples
    <3>1. samples[s] = InHand(s) + channel[s] + window[s] + aggregated[s] + rejected[s]
      BY DEF SamplesAccounted
    <3>2. Numbers(s)
      BY PartNumbers
    <3>3. /\ samples[s] \in Nat /\ samples[s] <= MaxSamples /\ InHand(s) \in Nat
          /\ channel[s] \in Nat /\ window[s] \in Nat /\ aggregated[s] \in Nat
          /\ rejected[s] \in Nat /\ MaxSamples \in Nat
      BY <3>2, GatewayAssumption DEF Numbers
    <3> QED
      BY <3>1, <3>3
  <2> QED
    BY <2>1
<1>2. \A s \in AllSources : Got(s) \in Nat /\ Got(s) <= In(s) * MaxSamples
  BY <1>1, GatewayAssumption DEF Got, In
<1>3. \A s \in AllSources : In(s) \in Nat
  BY DEF In
<1>4. Cardinality(Sources) * MaxSamples
        = In("engine") * MaxSamples + In("cargo") * MaxSamples
            + In("aux") * MaxSamples + In("nav") * MaxSamples
  BY <1>3, SourcesCounted, GatewayAssumption DEF AllSources
<1> QED
  BY <1>2, <1>3, <1>4, GatewayAssumption DEF Received, AllSources

LEMMA MaxSendsIsNat == MaxSends \in Nat
<1>1. Cardinality(Sources) \in Nat
  BY SourcesCounted, FS_CardinalityType
<1> QED
  BY <1>1, GatewayAssumption, ProductGrows DEF MaxSends

(* What has been offered stays below the bound.                            *)
LEMMA OfferedBounded ==
    ASSUME GatewayTypeOK, SamplesAccounted, RaisedInv
    PROVE  raised <= MaxSends
<1> DEFINE most == Cardinality(Sources) * MaxSamples
           each == MaxAnomalies + 3
<1>1. most \in Nat /\ each \in Nat
  BY SourcesCounted, FS_CardinalityType, GatewayAssumption, ProductGrows
<1>2. Received \in Nat /\ Received <= most
  BY ReceivedBounded
<1>3. raised \in Nat /\ raised <= Received * each
  <2>1. Received * each \in Nat
    BY <1>1, <1>2, ProductGrows
  <2> QED
    BY <2>1 DEF RaisedInv, GatewayTypeOK
<1> HIDE DEF most, each
<1>4. Received * each <= most * each /\ Received * each \in Nat /\ most * each \in Nat
  BY <1>1, <1>2, ProductGrows
<1>5. MaxSends = most * each
  BY DEF MaxSends, most, each
<1> QED
  BY <1>3, <1>4, <1>5

(* Each sample received pays for the events and the aggregation it leads   *)
(* to.                                                                     *)
LEMMA RaisedStep ==
    ASSUME GatewayTypeOK, SamplesAccounted, EngineInv, RaisedInv, [GatewayNext]_allVars
    PROVE  RaisedInv'
<1> DEFINE each == MaxAnomalies + 3
<1>0. /\ Received \in Nat /\ raised \in Nat /\ each \in Nat
      /\ \A s \in Sources : window[s] \in Nat /\ aggregated[s] \in Nat
  BY ReceivedBounded, PartNumbers, GatewayAssumption DEF GatewayTypeOK, Numbers
<1>1. ASSUME NEW s \in Sources, ReceiveSample(s) PROVE RaisedInv'
  <2>1. /\ analyticsPc = "select" /\ analyticsPc' = "branch"
        /\ raised' = raised + Len(todo') /\ Len(todo') \in Nat
        /\ Len(todo') <= MaxAnomalies + 1
    BY <1>1, BranchSendsAreMessages DEF ReceiveSample
  <2>2. \A t \in AllSources : Got(t)' = IF t = s THEN Got(t) + 1 ELSE Got(t)
    <3>1. /\ \A t \in Sources : window'[t] = IF t = s THEN window[t] + 1 ELSE window[t]
          /\ aggregated' = aggregated
      BY <1>1 DEF ReceiveSample, GatewayTypeOK
    <3>2. ASSUME NEW t \in AllSources
          PROVE  Got(t)' = IF t = s THEN Got(t) + 1 ELSE Got(t)
      <4>1. CASE t \in Sources
        <5>1. Got(t) = window[t] + aggregated[t] /\ Got(t)' = window'[t] + aggregated'[t]
          BY <4>1 DEF Got
        <5>2. window[t] \in Nat /\ aggregated[t] \in Nat
          BY <1>0, <4>1
        <5> QED
          BY <3>1, <4>1, <5>1, <5>2
      <4>2. CASE t \notin Sources
        BY <4>2 DEF Got
      <4> QED
        BY <4>1, <4>2
    <3> QED
      BY <3>2
  <2>3. \A t \in AllSources : Got(t) \in Nat
    BY <1>0 DEF Got
  <2>4. Received' = Received + 1
    <3>1. s = "engine" \/ s = "cargo" \/ s = "aux" \/ s = "nav"
      BY GatewayAssumption DEF AllSources
    <3> HIDE DEF Got
    <3> QED
      BY <2>2, <2>3, <3>1 DEF Received, AllSources
  <2>5. raised <= Received * each
    BY <1>0, <2>1 DEF RaisedInv
  <2>6. Received' * each = Received * each + each /\ Received * each \in Nat
    BY <1>0, <2>4, ProductOfNext
  <2>7. raised' + 2 <= Received * each + each
    BY <1>0, <2>1, <2>5, <2>6, GatewayAssumption
  <2> QED
    BY <2>1, <2>6, <2>7 DEF RaisedInv
<1>2. CASE DrainWindow
  <2>1. /\ analyticsPc = "branch" /\ analyticsPc' = "window" /\ raised' = raised + 2
        /\ \A t \in Sources : window'[t] + aggregated'[t] = window[t] + aggregated[t]
    BY <1>0, <1>2 DEF DrainWindow
  <2>2. Received' = Received
    BY <2>1 DEF Received, Got
  <2>3. Received * each \in Nat
    BY <1>0, ProductOfNext
  <2> QED
    BY <1>0, <2>1, <2>2, <2>3 DEF RaisedInv
<1>3. CASE AnalyticsStop \/ SendEvent \/ NextIteration
  <2>1. /\ raised' = raised /\ window' = window /\ aggregated' = aggregated
        /\ analyticsPc' = "branch" => analyticsPc = "branch"
    BY <1>3 DEF AnalyticsStop, SendEvent, NextIteration
  <2>2. Received' = Received
    BY <2>1 DEF Received, Got
  <2>3. Received * each \in Nat
    BY <1>0, ProductOfNext
  <2> QED
    BY <1>0, <2>1, <2>2, <2>3 DEF RaisedInv
<1>4. CASE ~AnalyticsStep
  <2>1. UNCHANGED <<raised, window, aggregated, analyticsPc>>
    BY <1>4 DEF GatewayNext, PollerStep, DeviceAnswers, TransmissionStep, ClockStep,
       HeartbeatStep, SigInt, CtrlCUnheard, SigTermHandled, SignalStep, SigTermKills, Join, allVars, gatewayVars,
       engineVars
  <2> QED
    BY <2>1 DEF RaisedInv, Received, Got
<1> QED
  BY <1>1, <1>2, <1>3, <1>4 DEF AnalyticsStep

-----------------------------------------------------------------------------
(* The inductive invariant of the gateway, and what follows from it.       *)
GatewayInv ==
    /\ TypeOK /\ Core /\ GatewayPart /\ ShutdownInv /\ EventsInv /\ RaisedInv

LEMMA GatewayInvInit == GatewayInit => GatewayInv
<1> SUFFICES ASSUME GatewayInit PROVE GatewayInv
  OBVIOUS
<1>1. TypeOK /\ Core /\ GatewayPart
  BY TypeInit, CoreInit, GatewayPartInit DEF GatewayInit
<1>2. ShutdownInv
  BY DEF GatewayInit, Init, ShutdownInv
<1>3. EventsInv
  <2>1. Taken = {} /\ IsFiniteSet({}) /\ Cardinality({}) = 0
    BY FS_EmptySet DEF GatewayInit, Init, Taken, Accepted, Published
  <2>2. Waiting = 0
    BY DEF GatewayInit, Init, Waiting, Chan
  <2>3. raised = 0 /\ refused = 0 /\ todo = <<>> /\ Len(<<>>) = 0
    BY DEF GatewayInit
  <2> QED
    BY <2>1, <2>2, <2>3 DEF EventsInv, EventsAccounted
<1>4. RaisedInv
  <2>1. Received = 0
    BY DEF GatewayInit, Received, Got
  <2>2. 0 * (MaxAnomalies + 3) = 0
    BY GatewayAssumption
  <2> QED
    BY <2>1, <2>2 DEF GatewayInit, RaisedInv
<1> QED
  BY <1>1, <1>2, <1>3, <1>4 DEF GatewayInv

LEMMA GatewayInvStep == GatewayInv /\ [GatewayNext]_allVars => GatewayInv'
<1> SUFFICES ASSUME GatewayInv, [GatewayNext]_allVars PROVE GatewayInv'
  OBVIOUS
<1> USE DEF GatewayInv
<1>1. GatewayTypeOK /\ SamplesAccounted /\ EngineInv
  BY DEF GatewayPart
<1>2. TypeOK' /\ Core'
  BY <1>1, UplinkTypeStep, UplinkCoreStep
<1>3. GatewayPart' /\ ShutdownInv'
  BY GatewayPartStep, ShutdownStep
<1>4. EventsInv' /\ RaisedInv'
  BY <1>1, EventsStep, RaisedStep
<1> QED
  BY <1>2, <1>3, <1>4

LEMMA GatewayInvariance == GatewaySpec => []GatewayInv
BY GatewayInvInit, GatewayInvStep, PTL DEF GatewaySpec

(* Type correctness of the whole gateway.                                  *)
THEOREM GatewayTypeCorrect == GatewaySpec => [](TypeOK /\ GatewayTypeOK)
<1>1. GatewayInv => TypeOK /\ GatewayTypeOK
  BY DEF GatewayInv, GatewayPart
<1> QED
  BY <1>1, GatewayInvariance, PTL

(* No channel between a poller and the engine, and no window, loses or     *)
(* repeats a sample.                                                       *)
THEOREM NoSampleLost == GatewaySpec => []SamplesAccounted
<1>1. GatewayInv => SamplesAccounted
  BY DEF GatewayInv, GatewayPart
<1> QED
  BY <1>1, GatewayInvariance, PTL

(* No event is lost between the engine and the transmission manager.       *)
THEOREM NoEventLost == GatewaySpec => []EventsAccounted
<1>1. GatewayInv => EventsAccounted
  BY DEF GatewayInv, EventsInv
<1> QED
  BY <1>1, GatewayInvariance, PTL

(* The manager's promises hold in the gateway as well: no message is lost  *)
(* or sent twice, the flush is complete, bulk messages wait for it, urgent *)
(* ones keep their order, and no minute carries more than two budgets.     *)
THEOREM ManagerPromisesHold ==
    GatewaySpec => [](/\ EachMessageInOnePlace /\ TxCountIsPublished /\ FlushIsComplete
                      /\ BulkWaitsForShutdown /\ UrgentWaitsOnlyBehindBulk
                      /\ UrgentLeaveInOrder /\ PanicNeedsZeroLimit
                      /\ AnyMinuteAtMostTwiceTheLimit)
<1>1. GatewayInit => LimiterInv
  BY LimiterInitial DEF GatewayInit, Init
<1>2. GatewayInv /\ LimiterInv /\ [GatewayNext]_allVars => LimiterInv'
  <2> SUFFICES ASSUME GatewayInv, LimiterInv, [GatewayNext]_allVars PROVE LimiterInv'
    OBVIOUS
  <2>1. CASE TransmissionStep \/ ClockStep
    BY <2>1, LimiterSteps, LimiterInvStep
       DEF TransmissionStep, ClockStep, Next, GatewayInv, TypeOK
  <2>2. CASE ~TransmissionStep /\ ~ClockStep
    <3>1. UNCHANGED limiterVars
      BY <2>2, GatewaySteps
         DEF HeartbeatStep, HeartbeatElapses, AnalyticsStep, SigInt, SigTermHandled,
             SignalStep, vars
    <3> QED
      BY <3>1, LimiterInvStep DEF GatewayInv, TypeOK
  <2> QED
    BY <2>1, <2>2
<1>3. GatewayInv /\ LimiterInv =>
         /\ EachMessageInOnePlace /\ TxCountIsPublished /\ FlushIsComplete
         /\ BulkWaitsForShutdown /\ UrgentWaitsOnlyBehindBulk
         /\ UrgentLeaveInOrder /\ PanicNeedsZeroLimit
         /\ AnyMinuteAtMostTwiceTheLimit
  BY LimiterBound
     DEF GatewayInv, Core, TypeOK, FlushIsComplete, UrgentWaitsOnlyBehindBulk,
         ControlInv, HistoryInv, BatchInv, Accepted
<1> QED
  BY <1>1, <1>2, <1>3, GatewayInvariance, PTL DEF GatewaySpec

(* Nothing is refused before the shutdown or a panic.                      *)
THEOREM NothingRefusedBeforeShutdown == GatewaySpec => []NothingRefusedWhileUp
<1>1. GatewayInv => NothingRefusedWhileUp
  <2> SUFFICES ASSUME GatewayInv, ~shutdown, pc # "panicked"
               PROVE  refused = 0 /\ \A s \in Sources : rejected[s] = 0
    BY DEF NothingRefusedWhileUp
  <2>1. analyticsPc # "done" /\ ~TransmissionGone
    BY DEF GatewayInv, ShutdownInv, TransmissionGone
  <2>2. refused \in Nat /\ \A s \in Sources : rejected[s] \in Nat
    BY DEF GatewayInv, GatewayPart, GatewayTypeOK
  <2> QED
    BY <2>1, <2>2 DEF GatewayInv, GatewayPart, PollerInv, ShutdownInv
<1> QED
  BY <1>1, GatewayInvariance, PTL

-----------------------------------------------------------------------------
(* The operators of the mapped module mean what those of this one mean.    *)
LEMMA SameCardinality == \A S : Uplink!Cardinality(S) = Cardinality(S)
BY Zenon DEF Uplink!Cardinality, Cardinality, Uplink!IsFiniteSet, IsFiniteSet

LEMMA SameOrder == \A m, h : Uplink!IsTop(m, h) <=> IsTop(m, h)
BY DEF Uplink!IsTop, IsTop, Uplink!Less, Less, Uplink!Priority, Priority,
       Uplink!Kind, Kind, Uplink!Chan, Chan

LEMMA SameNext == \A m : Uplink!NextInBatch(m) <=> NextInBatch(m)
BY SameOrder DEF Uplink!NextInBatch, NextInBatch

(* The manager's actions read and write nothing the mapping changes but    *)
(* the bound on the environment, which they leave alone.                   *)
LEMMA UplinkManagerStep ==
    ASSUME ManagerStep, UNCHANGED <<raised, todo, refused>>
    PROVE  Uplink!ManagerStep
<1>0. budget' = budget => UNCHANGED (budget + MaxSends - Offered)
  BY DEF Offered, MaxSends
<1> USE DEF managerVars, limiterVars, Uplink!managerVars, Uplink!limiterVars,
            Uplink!Chan, Chan, Uplink!Kind, Kind, Uplink!Priority, Priority,
            Uplink!Urgent, Urgent, Uplink!Less, Less, Uplink!IsTop, IsTop,
            Uplink!NewMessage, NewMessage
<1>1. ASSUME NEW c \in Chan, Receive(c) PROVE Uplink!Receive(c)
  BY <1>0, <1>1 DEF Receive, Uplink!Receive, PolledBefore, Uplink!PolledBefore
<1>2. StartFlush => Uplink!StartFlush
  BY <1>0 DEF StartFlush, Uplink!StartFlush
<1>3. CollectUrgent => Uplink!CollectUrgent
  BY <1>0 DEF CollectUrgent, Uplink!CollectUrgent
<1>4. CollectEnds => Uplink!CollectEnds
  BY <1>0 DEF CollectEnds, Uplink!CollectEnds
<1>5. AcquireToken => Uplink!AcquireToken
  BY <1>0 DEF AcquireToken, Uplink!AcquireToken, Acquire, Uplink!Acquire,
     Available, Uplink!Available, RefillDue, Uplink!RefillDue, Span, Uplink!Span
<1>6. AcquireWithoutTokens => Uplink!AcquireWithoutTokens
  BY <1>0 DEF AcquireWithoutTokens, Uplink!AcquireWithoutTokens, AcquireRefillsNothing,
     Uplink!AcquireRefillsNothing, Available, Uplink!Available, RefillDue, Uplink!RefillDue
<1>7. PublishSucceeds => Uplink!PublishSucceeds
  BY <1>0, SameCardinality, SameNext DEF PublishSucceeds, Uplink!PublishSucceeds
<1>8. PublishFails => Uplink!PublishFails
  BY <1>0, SameCardinality, SameNext DEF PublishFails, Uplink!PublishFails
<1>9. EncodeFails => Uplink!EncodeFails
  BY <1>0, SameCardinality, SameNext DEF EncodeFails, Uplink!EncodeFails
<1>10. BatchEnds => Uplink!BatchEnds
  BY <1>0 DEF BatchEnds, Uplink!BatchEnds
<1>11. EndIteration => Uplink!EndIteration
  BY <1>0 DEF EndIteration, Uplink!EndIteration
<1>12. Disconnect => Uplink!Disconnect
  BY <1>0, SameCardinality DEF Disconnect, Uplink!Disconnect
<1> QED
  BY <1>1, <1>2, <1>3, <1>4, <1>5, <1>6, <1>7, <1>8, <1>9, <1>10, <1>11, <1>12
     DEF ManagerStep, Uplink!ManagerStep

LEMMA UplinkInit == GatewayInit => Uplink!Init
<1> SUFFICES ASSUME GatewayInit PROVE Uplink!Init
  OBVIOUS
<1>1. Offered = 0
  <2>1. raised = 0 /\ refused = 0 /\ todo = <<>> /\ Len(<<>>) = 0
    BY DEF GatewayInit
  <2>2. Len(todo) = 0
    BY <2>1
  <2>3. Offered = 0 - 0 - 0
    BY <2>1, <2>2 DEF Offered
  <2> QED
    BY <2>3
<1>2. budget + MaxSends - Offered = MaxEvents + MaxSends
  BY <1>1, MaxSendsIsNat, TransmissionAssumption DEF GatewayInit, Init
<1> QED
  BY <1>2 DEF GatewayInit, Init, Uplink!Init, LimiterInit, Uplink!LimiterInit, Span,
     Uplink!Span, Chan, Uplink!Chan

LEMMA UplinkStep ==
    ASSUME GatewayInv, [GatewayNext]_allVars
    PROVE  [Uplink!Next]_Uplink!vars
<1> DEFINE bound == budget + MaxSends - Offered
<1> USE DEF GatewayInv, GatewayPart
<1>0. /\ budget \in Nat /\ MaxSends \in Nat /\ raised \in Nat /\ refused \in Nat
      /\ Len(todo) \in Nat /\ raised <= MaxSends /\ todo \in Seq(Chan)
      /\ MaxSends' = MaxSends
  BY MaxSendsIsNat, OfferedBounded DEF TypeOK, GatewayTypeOK, MaxSends
<1>1. CASE TransmissionStep
  <2>1. ManagerStep /\ UNCHANGED <<raised, todo, refused>>
    BY <1>1 DEF TransmissionStep, gatewayVars, engineVars
  <2> QED
    BY <2>1, UplinkManagerStep DEF Uplink!Next
<1>2. CASE ClockStep
  <2>1. Tick /\ UNCHANGED <<raised, todo, refused>>
    BY <1>2 DEF ClockStep, gatewayVars, engineVars
  <2>2. bound' = bound
    BY <2>1, <1>0 DEF Tick, Offered
  <2>3. Uplink!Tick
    BY <2>1, <2>2 DEF Tick, Uplink!Tick, LimiterTick, Uplink!LimiterTick, Span,
                      Uplink!Span, managerVars, Uplink!managerVars
  <2> QED
    BY <2>3 DEF Uplink!Next
<1>3. CASE HeartbeatStep
  <2>1. HeartbeatElapses /\ UNCHANGED <<raised, todo, refused>>
    BY <1>3 DEF HeartbeatStep, gatewayVars, engineVars
  <2>2. bound > 0 /\ bound' = bound - 1
    BY <2>1, <1>0 DEF HeartbeatElapses, Offered
  <2>3. Uplink!HeartbeatElapses
    BY <2>1, <2>2 DEF HeartbeatElapses, Uplink!HeartbeatElapses, managerVars,
                      Uplink!managerVars, limiterVars, Uplink!limiterVars
  <2> QED
    BY <2>3 DEF Uplink!Next
<1>4. CASE SendEvent /\ AnalyticsStep
  <2>1. PICK c \in Chan :
           /\ Len(todo') = Len(todo) - 1 /\ raised' = raised /\ Len(todo) > 0
           /\ \/ refused' = refused + 1 /\ inbox' = inbox
              \/ /\ refused' = refused /\ inbox[c] < ChanCap
                 /\ inbox' = [inbox EXCEPT ![c] = @ + 1]
    BY <1>0, <1>4, FirstOfTodo DEF SendEvent
  <2>2. UNCHANGED <<limiterVars, managerVars, shutdown, heartbeatDue, budget>>
    BY <1>4 DEF AnalyticsStep
  <2>3. CASE refused' = refused + 1 /\ inbox' = inbox
    <3>1. bound' = bound
      BY <1>0, <2>1, <2>2, <2>3 DEF Offered
    <3> QED
      BY <2>2, <2>3, <3>1 DEF Uplink!vars, managerVars, Uplink!managerVars,
                              limiterVars, Uplink!limiterVars
  <2>4. CASE refused' = refused
    <3>1. bound > 0 /\ bound' = bound - 1
      BY <1>0, <2>1, <2>2, <2>4 DEF Offered
    <3>2. inbox[c] < ChanCap /\ inbox' = [inbox EXCEPT ![c] = @ + 1]
      BY <1>0, <2>1, <2>4
    <3>3. Uplink!Offer(c)
      BY <2>2, <3>1, <3>2 DEF Uplink!Offer, managerVars, Uplink!managerVars,
                              limiterVars, Uplink!limiterVars
    <3> QED
      BY <3>3 DEF Uplink!Next, Uplink!Chan, Chan
  <2> QED
    BY <2>1, <2>3, <2>4
<1>5. CASE SigInt \/ SigTermHandled
  <2>1. /\ shutdown' = TRUE /\ UNCHANGED <<raised, todo, refused>>
        /\ UNCHANGED <<limiterVars, managerVars, inbox, heartbeatDue, budget>>
    BY <1>5 DEF SigInt, SigTermHandled, SignalStep, engineVars
  <2>2. bound' = bound
    BY <1>0, <2>1 DEF Offered
  <2>3. CASE ~shutdown
    <3>1. Uplink!Trigger
      BY <2>1, <2>2, <2>3 DEF Uplink!Trigger, managerVars, Uplink!managerVars,
                              limiterVars, Uplink!limiterVars
    <3> QED
      BY <3>1 DEF Uplink!Next
  <2>4. CASE shutdown
    <3>1. shutdown' = shutdown
      BY <1>0, <2>1, <2>4 DEF TypeOK
    <3> QED
      BY <2>1, <2>2, <3>1 DEF Uplink!vars, managerVars, Uplink!managerVars,
                              limiterVars, Uplink!limiterVars
  <2> QED
    BY <2>3, <2>4
<1>7. CASE UNCHANGED vars
  <2>1. Offered' = Offered
    <3>1. ASSUME NEW s \in Sources, ReceiveSample(s) PROVE Offered' = Offered
      <4>1. /\ todo = <<>> /\ raised' = raised + Len(todo') /\ Len(todo') \in Nat
            /\ refused' = refused
        BY <3>1, BranchSendsAreMessages DEF ReceiveSample, EngineInv
      <4>2. Len(todo) = 0
        BY <4>1
      <4> QED
        BY <1>0, <4>1, <4>2 DEF Offered
    <3>2. CASE DrainWindow
      <4>1. /\ todo = <<>> /\ Len(todo') = 2 /\ raised' = raised + 2 /\ refused' = refused
        BY <3>2, DrainSends DEF DrainWindow
      <4>2. Len(todo) = 0
        BY <4>1
      <4> QED
        BY <1>0, <4>1, <4>2 DEF Offered
    <3>3. CASE SendEvent
      <4>1. inbox' = inbox
        BY <1>7 DEF vars
      <4>2. PICK c \in Chan :
               /\ Len(todo') = Len(todo) - 1 /\ raised' = raised /\ Len(todo) > 0
               /\ \/ refused' = refused + 1
                  \/ inbox' = [inbox EXCEPT ![c] = @ + 1]
        BY <1>0, <3>3, FirstOfTodo DEF SendEvent
      <4>3. inbox' # [inbox EXCEPT ![c] = @ + 1]
        BY <4>1, TransmissionAssumption DEF TypeOK
      <4> QED
        BY <1>0, <4>2, <4>3 DEF Offered
    <3>4. CASE AnalyticsStop \/ NextIteration
      BY <3>4 DEF AnalyticsStop, NextIteration, Offered
    <3>5. CASE ~AnalyticsStep
      <4>1. UNCHANGED <<raised, todo, refused>>
        BY <3>5 DEF GatewayNext, PollerStep, DeviceAnswers, TransmissionStep, ClockStep,
           HeartbeatStep, SigInt, CtrlCUnheard, SigTermHandled, SignalStep, SigTermKills, Join, allVars,
           gatewayVars, engineVars
      <4> QED
        BY <4>1 DEF Offered
    <3> QED
      BY <3>1, <3>2, <3>3, <3>4, <3>5 DEF AnalyticsStep
  <2>2. bound' = bound
    BY <1>0, <1>7, <2>1 DEF vars
  <2> QED
    BY <1>7, <2>2 DEF vars, Uplink!vars, managerVars, Uplink!managerVars,
                      limiterVars, Uplink!limiterVars
<1> QED
  BY <1>1, <1>2, <1>3, <1>4, <1>5, <1>7, GatewaySteps

(* Inside the gateway the transmission manager behaves as EdgeTransmission *)
(* says it does, with the engine's sends and the signals as its            *)
(* environment.                                                            *)
THEOREM GatewayImplementsTransmission == GatewaySpec => ImplementsTransmission
<1>1. GatewayInit => Uplink!Init
  BY UplinkInit
<1>2. GatewayInv /\ [GatewayNext]_allVars => [Uplink!Next]_Uplink!vars
  BY UplinkStep
<1> QED
  BY <1>1, <1>2, GatewayInvariance, PTL DEF GatewaySpec, Uplink!Spec, ImplementsTransmission

-----------------------------------------------------------------------------
(* The telemetry service.                                                  *)

(* Initially nothing is stored, cached or answered.                          *)
LEMMA TelemetryInitially == TelemetryInit => TelemetryInv
<1> SUFFICES ASSUME TelemetryInit PROVE TelemetryInv
  OBVIOUS
<1> USE TelemetryAssumption DEF TelemetryInit
<1>1. TelemetryTypeOK
  <2>1. 0 \in 0 .. TTL - 1
    OBVIOUS
  <2>2. known \in [Readers -> SUBSET Ingests] /\ answer \in [Readers -> Ingests \cup {None}]
    OBVIOUS
  <2>3. topic \in SUBSET Ingests /\ rows \in SUBSET Ingests
    OBVIOUS
  <2> QED  BY <2>1, <2>2, <2>3 DEF TelemetryTypeOK
<1>2. AnswersAreStored /\ ReaderSeesAcknowledged /\ KnownInv
  BY DEF AnswersAreStored, ReaderSeesAcknowledged, KnownInv
<1>3. FreshInv
  BY DEF FreshInv, InFlight
<1> QED  BY <1>1, <1>2, <1>3 DEF TelemetryInv

(* A step that leaves the state of the model alone.                          *)
LEMMA TelemetryStutter == TelemetryInv /\ UNCHANGED telemetryVars => TelemetryInv'
BY DEF TelemetryInv, TelemetryTypeOK, AnswersAreStored, FreshInv, KnownInv,
       ReaderSeesAcknowledged, InFlight, telemetryVars, storeVars, readerVars

(* The steps of an ingest request.                                           *)
LEMMA IngestPreserves ==
    ASSUME TelemetryInv, NEW i \in Ingests, Begin(i) \/ IngestStep(i)
    PROVE  TelemetryInv'
<1> USE TelemetryAssumption DEF TelemetryInv, storeVars, readerVars
<1>0. \A q \in Ingests : stamp[q] \in Int
  BY DEF TelemetryTypeOK
<1>1. CASE Begin(i)
  <2> USE <1>1 DEF Begin
  <2>1. TelemetryTypeOK'
    BY DEF TelemetryTypeOK
  <2>2. AnswersAreStored' /\ ReaderSeesAcknowledged' /\ KnownInv'
    BY DEF TelemetryTypeOK, AnswersAreStored, ReaderSeesAcknowledged, KnownInv
  <2>3. FreshInv'
    BY <1>0 DEF TelemetryTypeOK, FreshInv, InFlight
  <2> QED  BY <2>1, <2>2, <2>3
<1>2. CASE Publish(i)
  <2> USE <1>2 DEF Publish
  <2>1. TelemetryTypeOK'
    BY DEF TelemetryTypeOK
  <2>2. AnswersAreStored' /\ ReaderSeesAcknowledged' /\ KnownInv'
    BY DEF TelemetryTypeOK, AnswersAreStored, ReaderSeesAcknowledged, KnownInv
  <2>3. FreshInv'
    BY DEF TelemetryTypeOK, FreshInv, InFlight
  <2> QED  BY <2>1, <2>2, <2>3
<1>3. CASE StoreSucceeds(i)
  <2> USE <1>3 DEF StoreSucceeds
  <2>1. TelemetryTypeOK'
    BY DEF TelemetryTypeOK
  <2>2. AnswersAreStored' /\ ReaderSeesAcknowledged' /\ KnownInv'
    BY DEF TelemetryTypeOK, AnswersAreStored, ReaderSeesAcknowledged, KnownInv
  <2>3. FreshInv'
    BY <1>0 DEF TelemetryTypeOK, FreshInv, InFlight
  <2> QED  BY <2>1, <2>2, <2>3
<1>4. CASE StoreFails(i)
  <2> USE <1>4 DEF StoreFails
  <2>1. TelemetryTypeOK'
    BY DEF TelemetryTypeOK
  <2>2. AnswersAreStored' /\ ReaderSeesAcknowledged' /\ KnownInv'
    BY DEF TelemetryTypeOK, AnswersAreStored, ReaderSeesAcknowledged, KnownInv
  <2>3. FreshInv'
    BY DEF TelemetryTypeOK, FreshInv, InFlight
  <2> QED  BY <2>1, <2>2, <2>3
<1>5. CASE CacheSucceeds(i)
  <2> USE <1>5 DEF CacheSucceeds
  <2>1. TelemetryTypeOK'
    BY DEF TelemetryTypeOK
  <2>2. AnswersAreStored' /\ ReaderSeesAcknowledged' /\ KnownInv'
    BY DEF TelemetryTypeOK, AnswersAreStored, ReaderSeesAcknowledged, KnownInv,
           FreshInv
  <2>3. FreshInv'
    BY <1>0 DEF TelemetryTypeOK, FreshInv, InFlight
  <2> QED  BY <2>1, <2>2, <2>3
<1>6. CASE CacheFails(i)
  <2> USE <1>6 DEF CacheFails
  <2>1. TelemetryTypeOK'
    BY DEF TelemetryTypeOK
  <2>2. AnswersAreStored' /\ ReaderSeesAcknowledged' /\ KnownInv'
    BY DEF TelemetryTypeOK, AnswersAreStored, ReaderSeesAcknowledged, KnownInv,
           FreshInv
  <2>3. FreshInv'
    BY DEF TelemetryTypeOK, FreshInv, InFlight
  <2> QED  BY <2>1, <2>2, <2>3
<1> QED  BY <1>1, <1>2, <1>3, <1>4, <1>5, <1>6 DEF IngestStep

(* The steps of a reader and the clock of the cache.                         *)
LEMMA ReaderPreserves ==
    ASSUME TelemetryInv,
           (\E r \in Readers : Ask(r) \/ ReaderStep(r)) \/ CacheTick
    PROVE  TelemetryInv'
<1> USE TelemetryAssumption DEF TelemetryInv, storeVars, readerVars
<1>0. \A q \in Ingests : stamp[q] \in Int
  BY DEF TelemetryTypeOK
<1>1. ASSUME NEW r \in Readers, Ask(r) PROVE TelemetryInv'
  <2> USE <1>1 DEF Ask
  <2>1. TelemetryTypeOK' /\ AnswersAreStored' /\ FreshInv' /\ KnownInv'
    BY DEF TelemetryTypeOK, AnswersAreStored, FreshInv, InFlight, KnownInv
  <2>2. ReaderSeesAcknowledged'
    BY DEF TelemetryTypeOK, ReaderSeesAcknowledged
  <2> QED  BY <2>1, <2>2
<1>2. ASSUME NEW r \in Readers, GetHits(r) PROVE TelemetryInv'
  <2> USE <1>2 DEF GetHits
  <2>1. TelemetryTypeOK' /\ AnswersAreStored' /\ FreshInv' /\ KnownInv'
    BY DEF TelemetryTypeOK, AnswersAreStored, FreshInv, InFlight, KnownInv
  <2>2. ReaderSeesAcknowledged'
    BY <1>0 DEF TelemetryTypeOK, ReaderSeesAcknowledged, FreshInv, KnownInv
  <2> QED  BY <2>1, <2>2
<1>3. ASSUME NEW r \in Readers, GetMisses(r) PROVE TelemetryInv'
  <2> USE <1>3 DEF GetMisses
  <2>1. TelemetryTypeOK' /\ AnswersAreStored' /\ FreshInv' /\ KnownInv'
    BY DEF TelemetryTypeOK, AnswersAreStored, FreshInv, InFlight, KnownInv
  <2>2. ReaderSeesAcknowledged'
    BY DEF TelemetryTypeOK, ReaderSeesAcknowledged
  <2> QED  BY <2>1, <2>2
<1>4. ASSUME NEW r \in Readers, QueryFinds(r) PROVE TelemetryInv'
  <2>1. PICK q \in NewestOf(rows) : answer' = [answer EXCEPT ![r] = q]
    BY <1>4 DEF QueryFinds
  <2>2. q \in rows /\ \A p \in rows : stamp[p] <= stamp[q]
    BY DEF NewestOf
  <2> USE <1>4, <2>1, <2>2 DEF QueryFinds
  <2>3. TelemetryTypeOK' /\ AnswersAreStored' /\ FreshInv' /\ KnownInv'
    BY DEF TelemetryTypeOK, AnswersAreStored, FreshInv, InFlight, KnownInv
  <2>4. ReaderSeesAcknowledged'
    BY <1>0 DEF TelemetryTypeOK, ReaderSeesAcknowledged, FreshInv, KnownInv
  <2> QED  BY <2>3, <2>4
<1>5. ASSUME NEW r \in Readers, QueryFails(r) PROVE TelemetryInv'
  <2> USE <1>5 DEF QueryFails
  <2>1. TelemetryTypeOK' /\ AnswersAreStored' /\ FreshInv' /\ KnownInv'
    BY DEF TelemetryTypeOK, AnswersAreStored, FreshInv, InFlight, KnownInv
  <2>2. ReaderSeesAcknowledged'
    BY DEF TelemetryTypeOK, ReaderSeesAcknowledged, FreshInv, KnownInv
  <2> QED  BY <2>1, <2>2
<1>6. CASE CacheTick
  <2> USE <1>6 DEF CacheTick
  <2>1. TelemetryTypeOK'
    BY DEF TelemetryTypeOK
  <2>2. AnswersAreStored' /\ FreshInv' /\ KnownInv'
    BY DEF TelemetryTypeOK, AnswersAreStored, FreshInv, InFlight, KnownInv
  <2>3. ReaderSeesAcknowledged'
    BY DEF ReaderSeesAcknowledged
  <2> QED  BY <2>1, <2>2, <2>3
<1> QED  BY <1>1, <1>2, <1>3, <1>4, <1>5, <1>6 DEF ReaderStep

(* Every reachable state satisfies the inductive invariant.                  *)
THEOREM TelemetryInvariance == TelemetrySpec => []TelemetryInv
<1>1. TelemetryInv /\ [TelemetryNext]_telemetryVars => TelemetryInv'
  BY TelemetryStutter, IngestPreserves, ReaderPreserves DEF TelemetryNext
<1> QED  BY <1>1, TelemetryInitially, PTL DEF TelemetrySpec

(* Time stamps, cache and requests keep their types, for any number of       *)
(* ingests and readers.                                                      *)
THEOREM TelemetryTypeCorrect == TelemetrySpec => []TelemetryTypeOK
<1>1. TelemetryInv => TelemetryTypeOK
  BY DEF TelemetryInv
<1> QED  BY <1>1, TelemetryInvariance, PTL

(* Nothing is cached or answered that is not in the database, whatever fails *)
(* and in whatever way.                                                      *)
THEOREM OnlyStoredIsAnswered == TelemetrySpec => []AnswersAreStored
<1>1. TelemetryInv => AnswersAreStored
  BY DEF TelemetryInv
<1> QED  BY <1>1, TelemetryInvariance, PTL

(* Without faults, overlaps and late records cache and database agree        *)
(* whenever no ingest is under way.                                          *)
THEOREM OrderlyFresh == TelemetrySpec => []OrderlyIngestIsFresh
<1>1. TelemetryInv => OrderlyIngestIsFresh
  BY DEF TelemetryInv, TelemetryTypeOK, AnswersAreStored, FreshInv, InFlight,
         OrderlyIngestIsFresh, NewestOf
<1> QED  BY <1>1, TelemetryInvariance, PTL

(* Under the same conditions a reader sees what was acknowledged before it.  *)
THEOREM ReaderUpToDate == TelemetrySpec => []ReaderSeesAcknowledged
<1>1. TelemetryInv => ReaderSeesAcknowledged
  BY DEF TelemetryInv
<1> QED  BY <1>1, TelemetryInvariance, PTL
=============================================================================
