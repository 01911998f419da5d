----------------------------- MODULE CharterFigures -----------------------------
(***************************************************************************)
(* The charterer's figures of the fleet performance application            *)
(* (api/charterer.py).  Thirteen endpoints read the same table, one row    *)
(* per vessel and day (telemetry_daily), which a later aggregation extends; *)
(* each walks the rows its own way.  The table is the state, an endpoint's *)
(* figure is an operator on it, and what is to be checked is whether the   *)
(* figures of one vessel can be told together.                             *)
(*                                                                         *)
(* Cargo in percent, speeds in tenths of a knot, fuel and CO2 in tonnes,   *)
(* distance in miles, money in dollars, of a vessel of 174000 m3.  Names,  *)
(* averages that are only displayed and rounding to cents are left out.    *)
(***************************************************************************)
EXTENDS Integers, Sequences, SequencesExt, FiniteSets, Sums

CONSTANTS Ships, Rows,          \* Rows: the days that may occur
          Months,               \* the month of each day
          ServiceSpeed,         \* warranted, in tenths of a knot
          RiskWindow, UsePeriod, \* 30 days each
          MaxDays               \* bound: rows in the table

ASSUME CharterAssumption ==
  /\ Rows \subseteq [cargo : 0..100, sog : Nat, dist : Nat, fuel : Nat, weather : Nat, co2 : Nat,
                    sfoc : Nat, alarms : Nat, load : Nat, eeoi : Nat, bog : Nat]
  /\ Months \in Seq(1..12) /\ MaxDays \in Nat /\ Len(Months) >= MaxDays
  /\ IsFiniteSet(Ships)
  /\ RiskWindow \in Nat \ {0, 1} /\ UsePeriod \in Nat \ {0}
  /\ ServiceSpeed \in Nat \ {0}

VARIABLE days   \* telemetry_daily: the rows of each vessel, by day

Count(rows, Test(_)) == Cardinality({i \in DOMAIN rows : Test(rows[i])})
Sum(rows, column) == Total([i \in DOMAIN rows |-> rows[i][column]])
Mean(rows, column) == Sum(rows, column) \div Len(rows)

\* SQL's AVG: a day whose column is NULL (written 0) is not a day of the mean, and the
\* mean of none is NULL, which is read as 0.
KnownDays(rows, column) == {i \in DOMAIN rows : rows[i][column] # 0}
MeanKnown(rows, column) ==
  IF KnownDays(rows, column) = {} THEN 0
  ELSE Sum(rows, column) \div Cardinality(KnownDays(rows, column))
Abs(n) == IF n < 0 THEN -n ELSE n
AtMost(limit, n) == IF n > limit THEN limit ELSE n
NotNegative(n) == IF n < 0 THEN 0 ELSE n

-----------------------------------------------------------------------------
\* The constants of the module, CII boundaries in hundredths.
BunkerPrice == <<550, 580, 620, 600>>
DailyOpex == 25000
PortCost == 150000
LaytimeAllowedHours == 36
CiiBoundaries == [A |-> 80, B |-> 89, C |-> 100, D |-> 110]

\* cargo_pct / 100 * 174000 * 450 / 1000 tonnes, at 3.5 dollars.
CargoTonnes(d) == d.cargo * 783
Cargo(rows) == Total([i \in DOMAIN rows |-> CargoTonnes(rows[i])])
DayRevenue(d) == (CargoTonnes(d) * 7) \div 2

\* What a vessel emits in a day is at most 0.80 tonnes for each tonne aboard: the
\* generator's tanks keep three percent (HEEL_FRACTION), which is 2349 tonnes, and no
\* vessel emits 1879 tonnes in a day.
ASSUME EmissionAssumption ==
  \A r \in Rows : r.co2 * 100 <= CiiBoundaries.A * CargoTonnes(r)

\* _quarter_from_date: the day column reads "2025-07-01 00:00:00", which the
\* format "%Y-%m-%d" refuses, and a date that cannot be read counts as Q1.
QuarterFromDate(month, format) == IF format = "date" THEN (month + 2) \div 3 ELSE 1
DayFormat == "date and time"
FuelCost(d, month) == d.fuel * BunkerPrice[QuarterFromDate(month, DayFormat)]
FuelCosts(rows) == Total([i \in DOMAIN rows |-> FuelCost(rows[i], Months[i])])

InVoyage(d) == d.cargo > 30 /\ d.dist > 0

-----------------------------------------------------------------------------
\* What the rows earn, and burn, in voyages; a port is paid for when a leg ends,
\* which is on the row where in_leg, as the row before left it, is no longer true.
VoyageRevenue(rows) ==
  Total([i \in DOMAIN rows |-> IF InVoyage(rows[i]) THEN DayRevenue(rows[i]) ELSE 0])
VoyageFuel(rows) ==
  Total([i \in DOMAIN rows |-> IF InVoyage(rows[i]) THEN FuelCost(rows[i], Months[i]) ELSE 0])
VoyageOpex(rows) == Total([i \in DOMAIN rows |-> IF InVoyage(rows[i]) THEN DailyOpex ELSE 0])

InLeg(rows, i) == i \in DOMAIN rows /\ InVoyage(rows[i])
PortsOfEndedLegs(rows) ==
  Total([i \in DOMAIN rows |-> IF InLeg(rows, i - 1) /\ ~InLeg(rows, i) THEN PortCost ELSE 0])

\* Mutant of VoyagePnl: the port of a leg still running is not charged.
VoyagePnlWithoutLastPort(rows) ==
  [revenue |-> VoyageRevenue(rows), fuel |-> VoyageFuel(rows), ports |-> PortsOfEndedLegs(rows),
   net |-> VoyageRevenue(rows) - VoyageFuel(rows) - PortsOfEndedLegs(rows) - VoyageOpex(rows)]

\* GET /voyage-pnl: only days in a voyage earn and cost; if the rows end in a leg, its
\* port is paid for too.
VoyagePnl(rows) ==
  LET ports == PortsOfEndedLegs(rows) + (IF InLeg(rows, Len(rows)) THEN PortCost ELSE 0)
  IN [revenue |-> VoyageRevenue(rows), fuel |-> VoyageFuel(rows), ports |-> ports,
      net |-> VoyageRevenue(rows) - VoyageFuel(rows) - ports - VoyageOpex(rows)]

\* GET /voyage-pnl/{id}: fuel and running costs every day, a port every day that is
\* not in a voyage.
DayPnl(d, month) ==
  [revenue |-> IF InVoyage(d) THEN DayRevenue(d) ELSE 0,
   fuel |-> FuelCost(d, month),
   ports |-> IF InVoyage(d) THEN 0 ELSE PortCost]

VoyagePnlDetail(rows) ==
  LET revenue == Total([i \in DOMAIN rows |-> DayPnl(rows[i], Months[i]).revenue])
      fuel == Total([i \in DOMAIN rows |-> DayPnl(rows[i], Months[i]).fuel])
      ports == Total([i \in DOMAIN rows |-> DayPnl(rows[i], Months[i]).ports])
  IN [revenue |-> revenue, fuel |-> fuel, ports |-> ports,
      net |-> revenue - fuel - ports - DailyOpex * Len(rows)]

\* GET /voyage-compare: as the detail, but no port is ever paid for.
VoyageCompare(rows) ==
  [revenue |-> VoyageRevenue(rows), fuel |-> FuelCosts(rows),
   net |-> VoyageRevenue(rows) - FuelCosts(rows) - DailyOpex * Len(rows)]

\* GET /bunker-costs: the same prices in a SQL CASE, by the month strftime reads.
BunkerCosts(rows) ==
  Total([i \in DOMAIN rows |->
           rows[i].fuel * (CASE Months[i] \in 1..3 -> 550
                             [] Months[i] \in 4..6 -> 580
                             [] Months[i] \in 7..9 -> 620
                             [] OTHER -> 600)])

-----------------------------------------------------------------------------
\* GET /cp-compliance/{id} flags a day by the speed corrected for weather;
\* GET /cp-compliance counts a vessel by its mean speed alone.
WeatherCorrectedSpeed(d) == d.sog + d.weather
DayCompliant(d) == WeatherCorrectedSpeed(d) * 100 >= ServiceSpeed * 95

CountedCompliant(rows) ==
  (Sum(rows, "sog") - Len(rows) * ServiceSpeed) * 100 <= 5 * ServiceSpeed * Len(rows)

\* GET /bog-impact: a day's boil-off at the mean rate, as a share of the cargo of
\* all days together.
BogImpact(rows) ==
  [of |-> Sum(rows, "bog") * 24, over |-> Len(rows) * (IF Cargo(rows) = 0 THEN 1 ELSE Cargo(rows))]

\* GET /carbon-cost: a vessel without cargo counts one tonne, one that did not sail
\* rates 999.
CiiScore(rows) ==
  LET work == Sum(rows, "dist") * (IF Cargo(rows) = 0 THEN 1 ELSE Cargo(rows))
  IN IF work > 0 THEN (Sum(rows, "co2") * 100 + work - 1) \div work ELSE 99900

CarbonRating(rows) ==
  LET score == CiiScore(rows)
  IN CASE score <= CiiBoundaries.A -> "A"
       [] score > CiiBoundaries.A /\ score <= CiiBoundaries.B -> "B"
       [] score > CiiBoundaries.B /\ score <= CiiBoundaries.C -> "C"
       [] score > CiiBoundaries.C /\ score <= CiiBoundaries.D -> "D"
       [] OTHER -> "E"

-----------------------------------------------------------------------------
\* GET /utilization: one status of the newest row, and the days under way of the
\* last 31, over 30.  On SQLite CAST(day AS DATE) is the number 2025, below any
\* text: no row qualifies.
LadenUnderWay(d) == d.cargo > 30 /\ d.sog > 50
BallastUnderWay(d) == d.cargo <= 30 /\ d.sog > 50
AtPort(d) == d.sog <= 20
Status(d) ==
  CASE LadenUnderWay(d)   -> "laden"
    [] BallastUnderWay(d) -> "ballast"
    [] AtPort(d)          -> "port"
    [] OTHER              -> "idle"

LastDay == CHOOSE n \in {Len(days[s]) : s \in Ships} : \A s \in Ships : Len(days[s]) <= n
UtilizationWindow(s, engine) ==
  IF engine = "sqlite" THEN <<>>
  ELSE SubSeq(days[s], NotNegative(LastDay - UsePeriod - 1) + 1, Len(days[s]))
Utilization30d(s, engine) ==
  LET UnderWayThen(d) == LadenUnderWay(d) \/ BallastUnderWay(d)
  IN (Count(UtilizationWindow(s, engine), UnderWayThen) * 100) \div UsePeriod

\* GET /utilization/timeseries: four counts of the rows of a day.
DayRows(day) == {s \in Ships : day \in DOMAIN days[s]}
Vessels(day, Test(_)) == Cardinality({s \in DayRows(day) : Test(days[s][day])})
Idle(d) == d.cargo <= 30 /\ d.sog <= 50 /\ d.sog > 20
Timeseries(day) ==
  [laden |-> Vessels(day, LadenUnderWay), ballast |-> Vessels(day, BallastUnderWay),
   port |-> Vessels(day, AtPort), idle |-> Vessels(day, Idle)]

-----------------------------------------------------------------------------
\* GET /offhire-risk, for vessels with at least two windows of rows: the first
\* against the last.  The age score (10 points at most) is left at its limit.
FirstRows(rows) == SubSeq(rows, 1, RiskWindow)
LastRows(rows) == SubSeq(rows, Len(rows) - RiskWindow + 1, Len(rows))
Rise(before, after) == IF before = 0 THEN 0 ELSE NotNegative(((after - before) * 100) \div before)
Fall(before, after) == Rise(before, 2 * before - after)

LoadDeviation(rows) ==
  LET off(i) == rows[i].load - Mean(rows, "load")
      variance == Total([i \in DOMAIN rows |-> off(i) * off(i)]) \div (Len(rows) - 1)
  IN CHOOSE root \in 0..variance : root * root <= variance /\ variance < (root + 1) * (root + 1)

OffhireRisk(rows) ==
  LET first == FirstRows(rows)
      last == LastRows(rows)
      speed == Fall(Sum(first, "sog"), Sum(last, "sog"))
      sfoc == Rise(Mean(first, "sfoc"), Mean(last, "sfoc"))
      score == speed * 30 + sfoc * 25
               + AtMost(100, Sum(last, "alarms") * 2) * 20
               + AtMost(100, LoadDeviation(last) * 10) * 15 + 1000
  IN [speed |-> speed, sfoc |-> sfoc,
      level |-> CASE score < 2500 -> "low"
                  [] score >= 2500 /\ score < 5000 -> "medium"
                  [] OTHER -> "high"]
HasRisk(rows) == Len(rows) >= 2 * RiskWindow

\* GET /benchmark: four distances from the market, ranked by their mean.  A day without
\* a plausible reading has no sfoc_avg, one at rest or without cargo no eeoi_avg.
Market == [sfoc |-> 162, eeoi |-> 42, bog |-> 15, sog |-> 195]
Score(value, reference) == NotNegative(100 - Abs(((value - reference) * 100) \div reference))
BenchmarkScore(rows) ==
  Score(MeanKnown(rows, "sfoc"), Market.sfoc) + Score(MeanKnown(rows, "eeoi"), Market.eeoi)
  + Score(Mean(rows, "bog"), Market.bog) + Score(Mean(rows, "sog"), Market.sog)

\* Mutant of StayEnds: a stay that lasts to the newest row is not closed.
StaysLeft(rows) == {i \in DOMAIN rows : AtPort(rows[i]) /\ i < Len(rows) /\ ~AtPort(rows[i + 1])}

\* GET /laytime: consecutive days at two knots or less are one stay; it is closed by the
\* next faster day, or after the newest row.  current_stay has counted its days by then.
StayEnds(rows) == {i \in DOMAIN rows : AtPort(rows[i]) /\ (i < Len(rows) => ~AtPort(rows[i + 1]))}
CurrentStay(rows, i) == Cardinality({j \in 1..i : \A k \in j..i : AtPort(rows[k])})

Laytime(rows) ==
  LET calls == Cardinality(StayEnds(rows))
      total == Total([i \in DOMAIN rows |-> IF i \in StayEnds(rows) THEN CurrentStay(rows, i) ELSE 0])
  IN [port_days |-> total, calls |-> calls,
      allowed |-> calls * LaytimeAllowedHours, used |-> total * 24,
      high |-> calls > 0 /\ total * 24 * 10 > LaytimeAllowedHours * 12 * calls]

-----------------------------------------------------------------------------
\* The aggregation runs again when the vessels have sailed on.
RowsStored ==
  LET order == SetToSeq(Ships) IN Total([k \in DOMAIN order |-> Len(days[order[k]])])
AggregateDay(s, row) ==
  /\ RowsStored < MaxDays
  /\ days' = [days EXCEPT ![s] = Append(@, row)]

CharterInit == days = [s \in Ships |-> <<>>]
CharterNext == \E s \in Ships, row \in Rows : AggregateDay(s, row)
CharterSpec == CharterInit /\ [][CharterNext]_days

-----------------------------------------------------------------------------
CharterTypeOK == days \in [Ships -> Seq(Rows)]

\* How often a condition starts to hold along the rows.
Starts(rows, Test(_)) ==
  Cardinality({i \in DOMAIN rows : Test(rows[i]) /\ (i > 1 => ~Test(rows[i - 1]))})

\* One vessel's money, told by four endpoints: they agree on the revenue; the
\* profit and loss charges the ports as often as a voyage ended (or still runs);
\* the daily detail is never more favourable than the total by more than the one
\* port the total charges in advance; the comparison is the detail without its
\* ports; and all three price fuel at or below what the bunker report charges,
\* for it alone knows the quarter.
MoneyAgrees ==
  \A s \in Ships :
    LET pnl == VoyagePnl(days[s])
        detail == VoyagePnlDetail(days[s])
        compare == VoyageCompare(days[s])
    IN /\ pnl.revenue = detail.revenue /\ detail.revenue = compare.revenue
       /\ pnl.ports = PortCost * Starts(days[s], InVoyage)
       /\ detail.net <= pnl.net + PortCost
       /\ compare.net = detail.net + detail.ports
       /\ pnl.fuel <= detail.fuel /\ detail.fuel = compare.fuel
       /\ detail.fuel <= BunkerCosts(days[s])

\* Laytime counts every port day once and as many calls as there are stays, and a
\* demurrage risk is high only if some stay was longer than a day.
LaytimeAgrees(rows) ==
  /\ Laytime(rows).port_days = Count(rows, AtPort)
  /\ Laytime(rows).calls = Starts(rows, AtPort)
  /\ Laytime(rows).high => \E i \in 2..Len(rows) : AtPort(rows[i]) /\ AtPort(rows[i - 1])

LadenIdle(d) == d.cargo > 30 /\ Status(d) = "idle"

\* A day's four counts miss exactly the laden vessels between two and five knots,
\* which the status calls idle; 31 days of 30 may be used, or none at all on SQLite.
UtilizationAgrees ==
  /\ \A day \in 1..LastDay :
       LET counts == Timeseries(day)
       IN counts.laden + counts.ballast + counts.port + counts.idle + Vessels(day, LadenIdle)
            = Cardinality(DayRows(day))
  /\ \A s \in Ships : /\ Utilization30d(s, "postgres") * UsePeriod <= 100 * (UsePeriod + 1)
                       /\ Utilization30d(s, "sqlite") = 0

\* What the ratings make of the rows: a vessel none of whose days was compliant is
\* counted compliant; the carbon rating is A for any vessel that sailed, E for the
\* others; the share of boil-off is a mean of the daily shares divided by the days;
\* a high risk has a loss of speed or a rise in consumption behind it.
RatingsAgree(rows) ==
  /\ Count(rows, DayCompliant) = 0 => CountedCompliant(rows)
  /\ CarbonRating(rows) = IF \E i \in DOMAIN rows : rows[i].dist > 0 THEN "A" ELSE "E"
  /\ LET bog == BogImpact(rows)
         Share(i) == rows[i].bog * 24 * (bog.over \div Len(rows))
     IN rows # <<>> /\ (\A i \in DOMAIN rows : rows[i].cargo > 0) =>
          \E i, j \in DOMAIN rows : /\ Share(i) <= bog.of * CargoTonnes(rows[i])
                                  /\ Share(j) >= bog.of * CargoTonnes(rows[j])
  /\ HasRisk(rows) => LET risk == OffhireRisk(rows)
                      IN risk.level = "high" => risk.speed + risk.sfoc > 0

\* Of two vessels that differ in consumption alone, both better than the market,
\* the benchmark never ranks the thriftier one first: it scores the distance.
BenchmarkAgrees ==
  \A s, t \in Ships :
    LET Plain(rows) == [i \in DOMAIN rows |-> [rows[i] EXCEPT !.sfoc = 0]]
    IN /\ days[s] # <<>> /\ Plain(days[s]) = Plain(days[t])
       /\ MeanKnown(days[s], "sfoc") <= MeanKnown(days[t], "sfoc")
       /\ MeanKnown(days[t], "sfoc") <= Market.sfoc
       => BenchmarkScore(days[s]) <= BenchmarkScore(days[t])

\* The figures of operation told by eight endpoints are consistent in the sense of
\* the five statements above.
OperationAgrees ==
  /\ \A s \in Ships : LaytimeAgrees(days[s]) /\ RatingsAgree(days[s])
  /\ UtilizationAgrees /\ BenchmarkAgrees
=============================================================================
