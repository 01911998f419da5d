--------------------------- MODULE MCShipToShore ---------------------------
(***************************************************************************)
(* The way of the telemetry from a ship to the shore: the gateway on its   *)
(* way down with one poller, the zone tracker its engine asks about every  *)
(* position, and the service that takes the telemetry in on shore.  They   *)
(* share no state and no property speaks of two of them, so each behaviour *)
(* explores one while the others rest: `focus' says which.                 *)
(*                                                                         *)
(* The service gets three records, at least two of them with the same time *)
(* stamp, and one reader of one vessel; its cache lives for two ticks.     *)
(***************************************************************************)
EXTENDS MCEdgeGateway, MCEcaTracker, TelemetryService

CONSTANTS i1, i2, i3, r1

VARIABLE focus

shipVars == <<allVars, ecaVars, telemetryVars, focus>>

MCIngests == {i1, i2, i3}
MCReaders == {r1}
MCStamps == {1, 2}

\* Requests are told apart by their time stamps only, so these orders stand for
\* all; the service that rests has one initial state.
InOrder == stamp[i1] = 1 /\ stamp[i2] <= stamp[i3]
ShipInit ==
    /\ GatewayInit /\ EcaInit /\ TelemetryInit
    /\ focus \in {"gateway", "tracker", "service"}
    /\ InOrder /\ (focus # "service" => stamp[i3] = 1)

\* Bound: the engine sends so many events and aggregates.
MaxRaised == 4

ShipNext ==
    /\ focus' = focus
    /\ \/ focus = "gateway" /\ GatewayNext /\ raised' <= MaxRaised
                            /\ UNCHANGED <<ecaVars, telemetryVars>>
       \/ focus = "tracker" /\ EcaNext /\ UNCHANGED <<allVars, telemetryVars>>
       \/ focus = "service" /\ TelemetryNext /\ UNCHANGED <<allVars, ecaVars>>

(* The fairness of the gateway and of the service, each while it is not the   *)
(* one that rests.                                                            *)
AtSea(A) == focus = "gateway" /\ Running /\ A
OnShore(A) == focus = "service" /\ A
ShipFairness ==
    /\ \A s \in Sources : WF_allVars(AtSea(PollerStep(s)))
    /\ \A s \in Sources : SF_allVars(AtSea(PollStop(s) /\ PollerStep(s)))
    /\ WF_allVars(AtSea(AnalyticsStep))
    /\ WF_allVars(AtSea(TransmissionStep))
    /\ WF_allVars(AtSea(ClockStep))
    /\ WF_allVars(AtSea(Join))
    /\ \A i \in Ingests : WF_telemetryVars(OnShore(IngestStep(i)))
    /\ \A r \in Readers : WF_telemetryVars(OnShore(ReaderStep(r)))
    /\ WF_telemetryVars(OnShore(CacheTick))

ShipSpec == ShipInit /\ [][ShipNext]_shipVars /\ ShipFairness
=============================================================================
