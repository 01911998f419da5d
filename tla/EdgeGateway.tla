---------------------------- MODULE EdgeGateway ----------------------------
(***************************************************************************)
(* The edge gateway process: the tasks main() of                           *)
(* lng-fleet-system/edge/src/main.rs spawns and joins, and the bounded     *)
(* channels between them.                                                  *)
(*                                                                         *)
(*   pollers --channel--> analytics engine --inbox--> transmission manager *)
(*                                                                         *)
(* The transmission manager is that of EdgeTransmission, extended here:    *)
(* its inbox is filled by the analytics engine and its shutdown flag set   *)
(* by the signal handler.  A send on a full channel waits, a send to a     *)
(* receiver that is gone fails, and every task learns of the shutdown only *)
(* where its select! looks for it.                                         *)
(***************************************************************************)
EXTENDS EdgeTransmission, Sequences

CONSTANTS
    Sources,       \* the pollers that run: a subset of AllSources
    SampleCap,     \* capacity of each sensor channel
    MaxSamples,    \* bound: samples each poller reads
    MaxAnomalies   \* bound: anomalies found in one sample

AllSources == {"engine", "cargo", "aux", "nav"}

ASSUME GatewayAssumption ==
    /\ Sources \subseteq AllSources
    /\ SampleCap \in Nat \ {0}
    /\ MaxSamples \in Nat
    /\ MaxAnomalies \in Nat

VARIABLES
    proc,          \* the operating system's view: running, exited or killed
    signalPc,      \* the signal handler: waits for Ctrl-C, then for SIGTERM
    pollerPc,      \* each poller
    samples,       \* history: samples each poller has read
    channel,       \* samples waiting in each sensor channel
    analyticsPc,   \* the analytics engine
    todo,          \* the sends its current branch has still to make
    window,        \* samples in the accumulator, by source
    aggregated,    \* history: samples that went into an aggregate, by source
    rejected,      \* history: samples whose send failed, by source
    raised,        \* history: events and aggregates the engine set out to send
    refused        \* history: those it sent to a transmission task that was gone

pollerVars == <<pollerPc, samples>>
engineVars == <<analyticsPc, todo, window, aggregated, raised, refused>>
gatewayVars == <<proc, signalPc, pollerVars, channel, engineVars, rejected>>
allVars == <<vars, gatewayVars>>

TransmissionGone == pc \in {"done", "panicked"}
Running == proc = "running"

(* check_anomaly is called for so many fields of a sample of each source.    *)
Checks == [engine |-> 5, cargo |-> 2, aux |-> 1, nav |-> 0]

(* The events the branch for a sample of source s may send, in order.        *)
BranchSends(s) ==
    IF s = "nav" THEN {<<>>, <<"eca">>}
    ELSE {[i \in 1 .. n |-> "anomaly"] :
             n \in {k \in 0 .. Checks[s] : k <= MaxAnomalies}}

GatewayTypeOK ==
    /\ proc \in {"running", "exited", "killed"}
    /\ signalPc \in {"ctrl_c", "sigterm", "done", "panicked"}
    /\ pollerPc \in [Sources -> {"connecting", "select", "reading", "sending",
                                "closing", "done"}]
    /\ samples \in [Sources -> 0 .. MaxSamples]
    /\ channel \in [Sources -> 0 .. SampleCap]
    /\ analyticsPc \in {"select", "branch", "window", "done"}
    /\ todo \in Seq(Chan)
    /\ window \in [Sources -> 0 .. MaxSamples]
    /\ aggregated \in [Sources -> 0 .. MaxSamples]
    /\ rejected \in [Sources -> Nat] /\ raised \in Nat /\ refused \in Nat

GatewayInit ==
    /\ Init
    /\ proc = "running" /\ signalPc = "ctrl_c"
    /\ pollerPc = [s \in Sources |-> "connecting"]
    /\ samples = [s \in Sources |-> 0]
    /\ channel = [s \in Sources |-> 0]
    /\ analyticsPc = "select" /\ todo = <<>>
    /\ window = [s \in Sources |-> 0] /\ aggregated = [s \in Sources |-> 0]
    /\ rejected = [s \in Sources |-> 0] /\ raised = 0 /\ refused = 0

----------------------------------------------------------------------------
(* poll_loop of modbus.rs and poll_navigation of opcua.rs, which have the    *)
(* same control but for the OPC UA session, closed before the return.        *)
(* Connecting, reading and closing await the device, without a timeout and   *)
(* without a look at the shutdown.                                           *)
AwaitsDevice(s) == pollerPc[s] \in {"connecting", "reading", "closing"}
Returning(s) == IF s = "nav" THEN "closing" ELSE "done"

Connect(s) ==
    /\ pollerPc[s] = "connecting"
    /\ pollerPc' = [pollerPc EXCEPT ![s] = "select"]
    /\ UNCHANGED <<samples, channel, rejected>>

(* The two branches of an unbiased select!.                                  *)
PollTick(s) ==
    /\ pollerPc[s] = "select" /\ samples[s] < MaxSamples
    /\ pollerPc' = [pollerPc EXCEPT ![s] = "reading"]
    /\ UNCHANGED <<samples, channel, rejected>>

PollStop(s) ==
    /\ pollerPc[s] = "select" /\ shutdown
    /\ pollerPc' = [pollerPc EXCEPT ![s] = Returning(s)]
    /\ UNCHANGED <<samples, channel, rejected>>

(* All registers or nodes read and parsed, or a failure and a reconnect.     *)
ReadSucceeds(s) ==
    /\ pollerPc[s] = "reading"
    /\ pollerPc' = [pollerPc EXCEPT ![s] = "sending"]
    /\ samples' = [samples EXCEPT ![s] = @ + 1]
    /\ UNCHANGED <<channel, rejected>>

ReadFails(s) ==
    /\ pollerPc[s] = "reading"
    /\ pollerPc' = [pollerPc EXCEPT ![s] = "connecting"]
    /\ UNCHANGED <<samples, channel, rejected>>

(* tx.send(data).await waits for room; it fails once the receiver is gone.   *)
SendSample(s) ==
    /\ pollerPc[s] = "sending" /\ analyticsPc # "done"
    /\ channel[s] < SampleCap
    /\ channel' = [channel EXCEPT ![s] = @ + 1]
    /\ pollerPc' = [pollerPc EXCEPT ![s] = "select"]
    /\ UNCHANGED <<samples, rejected>>

(* Mutant: the receiver outlives the engine, so a full channel blocks.        *)
SendRejectedWithRoom(s) ==
    /\ pollerPc[s] = "sending" /\ analyticsPc = "done"
    /\ channel[s] < SampleCap
    /\ rejected' = [rejected EXCEPT ![s] = @ + 1]
    /\ pollerPc' = [pollerPc EXCEPT ![s] = Returning(s)]
    /\ UNCHANGED <<samples, channel>>

SendRejected(s) ==
    /\ pollerPc[s] = "sending" /\ analyticsPc = "done"
    /\ rejected' = [rejected EXCEPT ![s] = @ + 1]
    /\ pollerPc' = [pollerPc EXCEPT ![s] = Returning(s)]
    /\ UNCHANGED <<samples, channel>>

(* let _ = client.disconnect().await, then the return.                       *)
SessionClosed(s) ==
    /\ pollerPc[s] = "closing"
    /\ pollerPc' = [pollerPc EXCEPT ![s] = "done"]
    /\ UNCHANGED <<samples, channel, rejected>>

PollerStep(s) ==
    /\ PollTick(s) \/ PollStop(s) \/ SendSample(s) \/ SendRejected(s)
    /\ UNCHANGED <<vars, proc, signalPc, engineVars>>

DeviceAnswers(s) ==
    /\ Connect(s) \/ ReadSucceeds(s) \/ ReadFails(s) \/ SessionClosed(s)
    /\ UNCHANGED <<vars, proc, signalPc, engineVars>>
----------------------------------------------------------------------------
(* analytics_engine of analytics.rs.  The select! is biased: shutdown first, *)
(* then the sensors in this order.                                           *)
SensorsBefore == [engine |-> {}, cargo |-> {"engine"}, aux |-> {"engine", "cargo"},
                  nav |-> {"engine", "cargo", "aux"}]

ReceiveSample(s) ==
    /\ analyticsPc = "select" /\ ~shutdown
    /\ channel[s] > 0
    /\ \A t \in Sources \cap SensorsBefore[s] : channel[t] = 0
    /\ channel' = [channel EXCEPT ![s] = @ - 1]
    /\ window' = [window EXCEPT ![s] = @ + 1]
    /\ todo' \in BranchSends(s)
    /\ raised' = raised + Len(todo')
    /\ analyticsPc' = "branch"
    /\ UNCHANGED <<inbox, aggregated, refused>>

(* Mutant: Shutdown::wait returns on any wake-up, whatever the value.        *)
AnalyticsStopSpuriously ==
    /\ analyticsPc = "select"
    /\ analyticsPc' = "done"
    /\ UNCHANGED <<inbox, channel, todo, window, aggregated, raised, refused>>

(* Shutdown returns at once: the samples of the open window are not drained. *)
AnalyticsStop ==
    /\ analyticsPc = "select" /\ shutdown
    /\ analyticsPc' = "done"
    /\ UNCHANGED <<inbox, channel, todo, window, aggregated, raised, refused>>

(* Mutant: try_send, which drops the event when the channel is full.         *)
SendEventOrDrop ==
    /\ analyticsPc \in {"branch", "window"} /\ todo # <<>>
    /\ todo' = Tail(todo)
    /\ \/ TransmissionGone /\ refused' = refused + 1 /\ UNCHANGED inbox
       \/ /\ ~TransmissionGone
          /\ inbox' = [inbox EXCEPT ![Head(todo)] = IF @ < ChanCap THEN @ + 1 ELSE @]
          /\ UNCHANGED refused
    /\ UNCHANGED <<channel, analyticsPc, window, aggregated, raised>>

(* Mutant: unbounded channels.                                               *)
SendEventWithoutBound ==
    /\ analyticsPc \in {"branch", "window"} /\ todo # <<>>
    /\ todo' = Tail(todo)
    /\ \/ TransmissionGone /\ refused' = refused + 1 /\ UNCHANGED inbox
       \/ /\ ~TransmissionGone
          /\ inbox' = [inbox EXCEPT ![Head(todo)] = @ + 1]
          /\ UNCHANGED refused
    /\ UNCHANGED <<channel, analyticsPc, window, aggregated, raised>>

(* Mutant: main keeps the receivers, so a full channel blocks for good.      *)
SendEventWithRoom ==
    /\ analyticsPc \in {"branch", "window"} /\ todo # <<>>
    /\ inbox[Head(todo)] < ChanCap
    /\ todo' = Tail(todo)
    /\ inbox' = [inbox EXCEPT ![Head(todo)] = @ + 1]
    /\ UNCHANGED <<channel, analyticsPc, window, aggregated, raised, refused>>

(* let _ = tx.send(event).await: wait for room, ignore a missing receiver.   *)
SendEvent ==
    /\ analyticsPc \in {"branch", "window"} /\ todo # <<>>
    /\ todo' = Tail(todo)
    /\ \/ TransmissionGone /\ refused' = refused + 1 /\ UNCHANGED inbox
       \/ /\ ~TransmissionGone /\ inbox[Head(todo)] < ChanCap
          /\ inbox' = [inbox EXCEPT ![Head(todo)] = @ + 1]
          /\ UNCHANGED refused
    /\ UNCHANGED <<channel, analyticsPc, window, aggregated, raised>>

(* Mutant: drain does not clear the sample vectors.                          *)
DrainWindowKeeping ==
    /\ analyticsPc = "branch" /\ todo = <<>>
    /\ aggregated' = [s \in Sources |-> aggregated[s] + window[s]]
    /\ todo' = <<"cii", "agg">> /\ raised' = raised + 2
    /\ analyticsPc' = "window"
    /\ UNCHANGED <<inbox, channel, window, refused>>

(* After the branch: an expired window, never empty here, is drained into    *)
(* one aggregate, whose CII event and telemetry are sent.  The clock decides *)
(* whether the window has expired.                                           *)
DrainWindow ==
    /\ analyticsPc = "branch" /\ todo = <<>>
    /\ aggregated' = [s \in Sources |-> aggregated[s] + window[s]]
    /\ window' = [s \in Sources |-> 0]
    /\ todo' = <<"cii", "agg">> /\ raised' = raised + 2
    /\ analyticsPc' = "window"
    /\ UNCHANGED <<inbox, channel, refused>>

NextIteration ==
    /\ analyticsPc \in {"branch", "window"} /\ todo = <<>>
    /\ analyticsPc' = "select"
    /\ UNCHANGED <<inbox, channel, todo, window, aggregated, raised, refused>>

AnalyticsStep ==
    /\ \/ \E s \in Sources : ReceiveSample(s)
       \/ AnalyticsStop
       \/ SendEvent
       \/ DrainWindow
       \/ NextIteration
    /\ UNCHANGED <<limiterVars, managerVars, shutdown, heartbeatDue, budget,
                   proc, signalPc, pollerVars, rejected>>
----------------------------------------------------------------------------
(* The transmission manager, with its clock and heartbeat timer.             *)
TransmissionStep == ManagerStep /\ UNCHANGED gatewayVars
ClockStep == Tick /\ UNCHANGED gatewayVars
HeartbeatStep == HeartbeatElapses /\ UNCHANGED gatewayVars

(* The signal handler.  A first Ctrl-C triggers the shutdown; when it cannot *)
(* be listened for, the error is logged.  Either way SIGTERM is registered   *)
(* only then, and the task panics when that fails.                           *)
SignalStep(from, to) ==
    /\ signalPc \in from
    /\ signalPc' \in to
    /\ UNCHANGED <<limiterVars, managerVars, inbox, heartbeatDue, budget, proc,
                   pollerVars, channel, engineVars, rejected>>

SigInt == SignalStep({"ctrl_c"}, {"sigterm", "panicked"}) /\ shutdown' = TRUE
CtrlCUnheard ==
    SignalStep({"ctrl_c"}, {"sigterm", "panicked"}) /\ UNCHANGED shutdown
SigTermHandled == SignalStep({"sigterm"}, {"done"}) /\ shutdown' = TRUE

(* Without a handler the default action of SIGTERM ends the process.         *)
SigTermKills ==
    /\ signalPc \in {"ctrl_c", "panicked"}
    /\ proc' = "killed"
    /\ UNCHANGED <<vars, signalPc, pollerVars, channel, engineVars, rejected>>

(* tokio::join! of the nine handles, then main returns.  Two of the tasks,   *)
(* the main coordinator and the local MQTT bus, share no state with the      *)
(* others and return when they see the shutdown.                             *)
AllTasksDone ==
    /\ shutdown /\ signalPc \in {"done", "panicked"}
    /\ \A s \in Sources : pollerPc[s] = "done"
    /\ analyticsPc = "done" /\ TransmissionGone

Join ==
    /\ AllTasksDone
    /\ proc' = "exited"
    /\ UNCHANGED <<vars, signalPc, pollerVars, channel, engineVars, rejected>>

GatewayNext ==
    /\ Running
    /\ \/ \E s \in Sources : PollerStep(s) \/ DeviceAnswers(s)
       \/ AnalyticsStep
       \/ TransmissionStep \/ ClockStep \/ HeartbeatStep
       \/ SigInt \/ CtrlCUnheard \/ SigTermHandled \/ SigTermKills
       \/ Join

GatewaySpec == GatewayInit /\ [][GatewayNext]_allVars

(* Every task runs when it can, time passes, and the fair choice of an       *)
(* unbiased select! takes the shutdown branch in the end.  No fairness for   *)
(* DeviceAnswers, whatever it is the device is asked, or for signals.        *)
GatewayFairness ==
    /\ \A s \in Sources : WF_allVars(Running /\ PollerStep(s))
    /\ \A s \in Sources : SF_allVars(Running /\ PollStop(s) /\ PollerStep(s))
    /\ WF_allVars(Running /\ AnalyticsStep)
    /\ WF_allVars(Running /\ TransmissionStep)
    /\ WF_allVars(Running /\ ClockStep)
    /\ WF_allVars(Running /\ Join)

GatewayFairSpec == GatewaySpec /\ GatewayFairness
----------------------------------------------------------------------------
(* Back-pressure delays samples and never drops or repeats one: every sample  *)
(* a poller has read is in its hand, waiting in its channel, in the open      *)
(* window, in exactly one aggregate, or was refused, at most once, by an      *)
(* engine that is gone (the mpsc channels of main, AggregateAccumulator).     *)
InHand(s) == IF pollerPc[s] = "sending" THEN 1 ELSE 0
SamplesAccounted ==
    \A s \in Sources :
        /\ samples[s] = InHand(s) + channel[s] + window[s] + aggregated[s] + rejected[s]
        /\ rejected[s] <= 1

(* Every event and aggregate the engine raised is still to be sent, waits in  *)
(* a channel, was taken by the transmission manager, or was refused by it     *)
(* after its end; no full channel loses one (let _ = tx.send(..).await).      *)
Taken == {m \in Accepted : m.kind \in Chan}
Waiting == inbox["agg"] + inbox["anomaly"] + inbox["eca"] + inbox["cii"]
EventsAccounted ==
    raised = Len(todo) + Waiting + Cardinality(Taken) + refused

(* While the gateway has not been told to stop and the transmission task has  *)
(* not panicked, no sample and no event is refused: a receiver goes away only *)
(* on the way down.                                                           *)
NothingRefusedWhileUp ==
    ~shutdown /\ pc # "panicked" =>
        refused = 0 /\ \A s \in Sources : rejected[s] = 0

(* The gateway gives the transmission manager the environment EdgeTransmission *)
(* assumes, so what is proved of that module holds in the gateway: every send *)
(* of the engine is one of its offers and a signal its trigger.  The bound on *)
(* the environment's events covers the most the engine can send.              *)
MaxSends == Cardinality(Sources) * MaxSamples * (MaxAnomalies + 3)
Offered == raised - Len(todo) - refused
Uplink == INSTANCE EdgeTransmission WITH
              MaxEvents <- MaxEvents + MaxSends,
              budget <- budget + MaxSends - Offered
ImplementsTransmission == Uplink!Spec

(* The one place where a shutdown can get stuck in the transmission manager   *)
(* is the client's full request channel; anywhere else it ends the task.  In  *)
(* particular a flush whose messages and Disconnect all find room in that     *)
(* channel ends (run_transmission, flush_queue).                              *)
FlushEndsIfItFits ==
    /\ shutdown /\ limit > 0 ~> TransmissionGone \/ WaitsForClient \/ ~Running
    /\ flushing /\ Cardinality(reqs) + Cardinality(batch) < ReqCap
          ~> pc = "done" \/ limit = 0 \/ ~Running

(* Shutdown reaches the analytics engine even when it is blocked on a full    *)
(* channel of a transmission manager that is busy, waiting for tokens or      *)
(* flushing; it stays behind only when that manager is itself stuck at the    *)
(* MQTT client's full channel (biased select! of analytics_engine).           *)
EngineBehindClient ==
    todo # <<>> /\ inbox[Head(todo)] = ChanCap /\ WaitsForClient
ShutdownStopsAnalytics ==
    shutdown /\ limit > 0 ~> analyticsPc = "done" \/ EngineBehindClient \/ ~Running

(* From some point after a shutdown on, a poller that has not returned is one *)
(* whose device does not answer, or one blocked behind the engine behind the  *)
(* client; it does not go on sampling, and a full channel alone does not hold *)
(* it (poll_loop, poll_navigation, connect_with_retry).                       *)
ShutdownStopsPollers ==
    \A s \in Sources :
        shutdown /\ limit > 0 ~>
            [](\/ pollerPc[s] = "done" \/ AwaitsDevice(s) \/ ~Running
               \/ pollerPc[s] = "sending" /\ EngineBehindClient)

(* The comment on the handler: "Graceful shutdown handler (SIGTERM / SIGINT)".*)
(* After a Ctrl-C the process should go on to join its tasks and exit (or be  *)
(* killed), unless a device that does not answer holds its poller up.         *)
CtrlCEndsProcess ==
    shutdown ~> (~Running \/ \E s \in Sources : AwaitsDevice(s))

(* The same comment, of a process that has handled both signals: it should    *)
(* end, whatever the devices do.                                              *)
SignalsEndProcess == signalPc = "done" /\ limit > 0 ~> ~Running
----------------------------------------------------------------------------
(* What the safety properties need to be inductive.                          *)

(* A poller reads only while it may have one more sample, and one whose send  *)
(* was refused has returned.                                                 *)
PollerInv ==
    \A s \in Sources :
        /\ pollerPc[s] = "reading" => samples[s] < MaxSamples
        /\ rejected[s] > 0 => pollerPc[s] \in {"closing", "done"} /\ analyticsPc = "done"

(* Between two branches the engine has nothing left to send.                 *)
EngineInv == analyticsPc \in {"select", "done"} => todo = <<>>

(* The signal handler alone triggers the shutdown, and no task but a          *)
(* panicked one ends or starts to flush before it.                           *)
ShutdownInv ==
    /\ shutdown => signalPc # "ctrl_c"
    /\ signalPc = "done" => shutdown
    /\ flushing \/ pc \in {"disconnect", "done"} \/ analyticsPc = "done" => shutdown
    /\ refused > 0 => TransmissionGone

(* A sample raises at most MaxAnomalies events or one, and the aggregation    *)
(* that may follow it two.                                                   *)
Got(s) == IF s \in Sources THEN window[s] + aggregated[s] ELSE 0
Received == Got("engine") + Got("cargo") + Got("aux") + Got("nav")
RaisedInv ==
    raised + (IF analyticsPc = "branch" THEN 2 ELSE 0) <= Received * (MaxAnomalies + 3)
=============================================================================
