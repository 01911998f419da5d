----------------------------- MODULE MCAnalytics -----------------------------
(***************************************************************************)
(* The two ends of the analytics database: the generator that fills it     *)
(* through the aggregation, for one vessel step by step, and what is read  *)
(* from it, the charterer's figures of two vessels and the condition of a  *)
(* hull, day by day.  `focus` says which one a behaviour explores.         *)
(***************************************************************************)
EXTENDS CharterFigures, HullCondition, VoyageSimulator

VARIABLE focus
analyticsVars == <<days, hullVars, simVars, focus>>

Day(cargo, sog, dist, fuel, sfoc, load) ==
  [cargo |-> cargo, sog |-> sog, dist |-> dist, fuel |-> fuel, weather |-> 8, co2 |-> 3 * fuel,
   sfoc |-> sfoc, alarms |-> IF sog > 20 THEN 60 ELSE 0, load |-> load,
   eeoi |-> IF dist > 50 /\ cargo > 30 THEN 40 ELSE 0, bog |-> 25]
MCRows ==
  {Day(98, 195, 468, 110, 160, 75),    \* laden
   Day(98, 195, 468, 110, 150, 75),    \* laden, thriftier
   Day(60, 40, 96, 60, 190, 30),       \* laden, slow
   Day(4, 60, 144, 90, 165, 60),       \* in ballast
   Day(98, 10, 20, 30, 0, 10),         \* at anchor, laden
   Day(4, 0, 0, 10, 0, 0)}             \* in port, discharged
MCMonths == <<12, 12, 1, 3, 7>>

MCBoilOff == [level \in 0..100 |-> IF level > 60 THEN 2 ELSE 1]
MCDemand == [phase \in Phases |-> IF phase = "sea_passage" THEN 2 ELSE 1]
MCAuxLoad == [sea_passage |-> 11, arrival |-> 7, discharging |-> 28, loading |-> 28,
              port_stay |-> 7, departure |-> 14]
MCSteps == <<36, 7>>
MCNoise == {-150, 250}
MCStaticDeviation == -9600

\* Bound: a vessel with telemetry has no rows, few, or the static ones.
OneSource(h) ==
  \/ telemetry[h] = <<>> \/ performance[h] = StaticLog
  \/ writing[h].call = 1 /\ writing[h].day + Len(telemetry[h]) <= MaxLog

AnalyticsInit ==
  CharterInit /\ HullInit /\ SimInit /\ focus \in {"charterer", "hull", "generator"}
AnalyticsNext ==
  /\ focus' = focus
  /\ \/ focus = "charterer" /\ CharterNext /\ UNCHANGED <<hullVars, simVars>>
     \/ /\ focus = "hull" /\ HullNext /\ UNCHANGED <<days, simVars>>
        /\ \A h \in Hulls : OneSource(h)'
     \/ focus = "generator" /\ SimNext /\ UNCHANGED <<days, hullVars>>
AnalyticsSpec == AnalyticsInit /\ [][AnalyticsNext]_analyticsVars
=============================================================================
