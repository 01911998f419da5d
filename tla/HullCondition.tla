----------------------------- MODULE HullCondition -----------------------------
(***************************************************************************)
(* The condition of a hull as the fleet performance application tells it:  *)
(* five endpoints of modules/hull_machinery.py and one of                  *)
(* modules/digital_twin.py read the same rows, hull_performance of the     *)
(* application's database or, when a vessel has none there, the daily      *)
(* telemetry converted on the fly against a baseline taken from itself.    *)
(*                                                                         *)
(* Deviations are in hundredths of a percent, roughness in tenths of a     *)
(* micrometre, qpc in units of 0.00001, indices in hundredths; quotients   *)
(* are rounded down.  Weather, trim, costs and texts are left out.         *)
(***************************************************************************)
EXTENDS Integers, Sequences, FiniteSets, Sums

CONSTANTS Hulls,
          Coefficients,   \* power / speed^3 of a day; 0: a day below five knots
          RecordDays,     \* 30: rows the generator writes in one call
          Calls,          \* 4: its calls for one vessel, one a voyage
          Growth,         \* 20: what a generated row deviates more a day further back
          Noise,          \* of the generated rows
          StaticDeviation, StaticRoughness, StaticQpc,  \* of the static rows
          FoulingWindow,  \* 30 rows
          IndexWindow,    \* 60
          TrendWindow,    \* 100
          IndexTrend,     \* 10
          MaxLog          \* bound: days of telemetry of a vessel

ASSUME HullAssumption ==
  /\ Coefficients \subseteq Nat
  /\ Noise \subseteq -430..430     \* half a percent times what random.gauss can return
  /\ {RecordDays, Calls} \subseteq Nat \ {0} /\ Growth \in Nat
  /\ StaticDeviation \in Int /\ StaticDeviation < 1500   \* far below: rp is 75 * speed^3
  /\ StaticRoughness \in Nat /\ StaticQpc \in Nat
  /\ {FoulingWindow, IndexWindow, TrendWindow, IndexTrend} \subseteq Nat \ {0}
  /\ FoulingWindow <= IndexWindow /\ IndexWindow <= TrendWindow
  /\ FoulingWindow <= RecordDays
  /\ MaxLog \in Nat

VARIABLES performance,  \* hull_performance: the rows of each vessel, as inserted
          writing,      \* the call and the day of the generator's next row of a vessel
          telemetry     \* telemetry_daily: the coefficient of each day, by date

hullVars == <<performance, writing, telemetry>>

AtLeast(n, low) == IF n < low THEN low ELSE n
Between(n, low, high) == IF n > high THEN high ELSE AtLeast(n, low)
Average(values) == IF values = <<>> THEN 0 ELSE Total(values) \div Len(values)
NewestFirst(log, limit) ==
  [i \in 1..(IF limit < Len(log) THEN limit ELSE Len(log)) |-> log[Len(log) - i + 1]]

-----------------------------------------------------------------------------
\* The levels of fouling, below each of three limits.
Level(dev, light, moderate, heavy) ==
  CASE dev < light                         -> "clean"
    [] light <= dev /\ dev < moderate      -> "light"
    [] moderate <= dev /\ dev < heavy      -> "moderate"
    [] OTHER                               -> "heavy"
LevelOf(dev) == Level(dev, 300, 800, 1500)
Foul == {"moderate", "heavy"}

\* Mutant of Baseline: the coefficient the static rows are measured against.
FixedBaseline(ks) == 75

\* The baseline of a period is the median of its own days under way.
UnderWay(ks) == {i \in DOMAIN ks : ks[i] > 0}
Baseline(ks) ==
  CHOOSE k \in {ks[i] : i \in UnderWay(ks)} :
    /\ Cardinality({i \in UnderWay(ks) : ks[i] < k}) <= Cardinality(UnderWay(ks)) \div 2
    /\ Cardinality(UnderWay(ks)) \div 2 < Cardinality({i \in UnderWay(ks) : ks[i] <= k})

\* _get_analytics_hull_data: days as rows of hull_performance.  (What a day's EEOI takes
\* from 0.70 leaves a qpc that scores nothing either way.)
DevOf(k, base) == IF k = 0 THEN 0 ELSE Between(((k - base) * 10000) \div base, -1000, 2500)
Converted(ks) ==
  [i \in DOMAIN ks |->
     LET dev == DevOf(ks[i], Baseline(ks))
     IN [dev |-> dev, level |-> LevelOf(dev), rough |-> 2000 + 2 * AtLeast(dev, 0), qpc |-> 70000]]

\* The rows by date, the oldest first (the endpoints that sort them the other way read
\* them backwards).  Rows of one date come in any order, and in another one the next time.
Rankings == {rank \in [1..Calls -> 1..Calls] : \A c, d \in 1..Calls : rank[c] = rank[d] => c = d}
Shared(log) ==
  {log[i].day : i \in {k \in DOMAIN log : \E j \in DOMAIN log : j # k /\ log[j].day = log[k].day}}
NotAfter(log, tie, j, k) ==
  \/ log[j].day > log[k].day
  \/ log[j].day = log[k].day /\ (j = k \/ tie[log[j].day][log[j].call] < tie[log[k].day][log[k].call])
Place(log, tie, k) == Cardinality({j \in DOMAIN log : NotAfter(log, tie, j, k)})
ByDate(log, tie) ==
  LET place == [k \in DOMAIN log |-> Place(log, tie, k)]
  IN [i \in 1..Len(log) |-> log[CHOOSE k \in DOMAIN log : place[k] = i].row]

\* What the endpoints can read of a vessel: the application's rows, else the telemetry.
\* Some limit the one, all limit the other.
Readings(h) ==
  {[rows |-> ByDate(performance[h], tie), days |-> telemetry[h]] :
     tie \in [Shared(performance[h]) -> Rankings]}
Recorded(v, limit, otherwise) ==
  IF v.rows # <<>> THEN NewestFirst(v.rows, limit) ELSE otherwise
Latest(v, limit) == Recorded(v, limit, Converted(NewestFirst(v.days, limit)))
Whole(v, limit) == Recorded(v, Len(v.rows), Converted(NewestFirst(v.days, limit)))

\* The list of deviations: zero is false to Python and left out, and adds nothing to
\* their sum.
Deviating(rows) == {i \in DOMAIN rows : rows[i].dev # 0}
Number(rows) == Cardinality(Deviating(rows))
Nth(rows, n) ==
  rows[CHOOSE i \in Deviating(rows) : Cardinality({j \in Deviating(rows) : j <= i}) = n].dev
MeanDev(rows) ==
  IF Number(rows) = 0 THEN 0 ELSE Total([i \in DOMAIN rows |-> rows[i].dev]) \div Number(rows)
FirstAboveLast(rows) == Nth(rows, 1) > Nth(rows, Number(rows))

-----------------------------------------------------------------------------
\* The endpoints.
\* hull_fouling_assessment.
Fouling(v) ==
  LET rows == Latest(v, FoulingWindow)
      level == LevelOf(MeanDev(rows))
  IN [level |-> level, cleaning |-> level \in Foul,
      trend |-> IF Number(rows) >= 3 /\ FirstAboveLast(rows) THEN "increasing" ELSE "stable"]

\* hull_trend, whose list runs from the oldest row to the newest.
Trend(v) ==
  LET rows == Whole(v, TrendWindow)
      current == rows[1].dev
      initial == rows[Len(rows)].dev
  IN [trend |-> CASE Len(rows) < 3                          -> "stable"
                  [] Len(rows) >= 3 /\ current > initial    -> "increasing"
                  [] Len(rows) >= 3 /\ current <= initial   -> "decreasing",
      forecast |-> current > initial /\ current < 800]

\* hull_cleaning_estimate: rows back to the last clean one (hull_cleaning_due is
\* never set), and the urgency by the newest row alone.
Cleaning(v) ==
  LET rows == Whole(v, IndexWindow)
      cleanRows == {i \in DOMAIN rows : rows[i].level = "clean"}
  IN [level |-> rows[1].level,
      since |-> IF cleanRows = {} THEN Len(rows) ELSE (CHOOSE i \in cleanRows : \A j \in cleanRows : i <= j) - 1]

\* fleet_hull_comparison: the fouling level it counts is that of the newest row.
Compared(v) == Latest(v, FoulingWindow)[1].level
NeedsCleaning(v) == Latest(v, FoulingWindow) # <<>> /\ Compared(v) \in Foul

\* hull_performance_index: four scores and their weighted sum.  The power score has
\* no upper limit.
PowerScore(rows) == AtLeast(10000 - 5 * MeanDev(rows), 0)
RoughScore(rows) == Between(12000 - Average([i \in DOMAIN rows |-> rows[i].rough]), 0, 10000)
QpcScore(rows) ==
  Between((2 * (Average([i \in DOMAIN rows |-> rows[i].qpc]) - 75000)) \div 3, 0, 10000)
DevSpread(rows) ==
  IF FirstAboveLast(rows) THEN Nth(rows, 1) - Nth(rows, Number(rows))
  ELSE Nth(rows, Number(rows)) - Nth(rows, 1)
StabilityScore(rows) == IF Number(rows) < 2 THEN 10000 ELSE AtLeast(10000 - 3 * DevSpread(rows), 0)
Index(v) ==
  LET rows == Latest(v, IndexWindow)
  IN Between((40 * PowerScore(rows) + 25 * RoughScore(rows) + 20 * QpcScore(rows)
                + 15 * StabilityScore(rows)) \div 100, 0, 10000)

Rating(index) ==
  CASE index >= 8500                   -> "excellent"
    [] 7000 <= index /\ index < 8500   -> "good"
    [] 5500 <= index /\ index < 7000   -> "fair"
    [] 4000 <= index /\ index < 5500   -> "poor"
    [] OTHER                           -> "critical"

\* Its trend reads the newest values first as if they were the oldest.
IndexTrendOf(v) ==
  LET rows == Latest(v, IndexWindow)
      part == IF Number(rows) >= IndexTrend THEN IndexTrend ELSE Number(rows)
  IN CASE part >= 3 /\ Nth(rows, part) < Nth(rows, 1) -> "improving"
       [] part >= 3 /\ Nth(rows, part) > Nth(rows, 1) -> "worsening"
       [] OTHER                                        -> "stable"

\* DigitalTwin.hull_health_assessment; its telemetry goes back as many days under way.
\* (The days between them are kept here: they deviate by zero and so count nowhere.)
DaysRead(ks) ==
  LET Sailing(n) == Cardinality({i \in UnderWay(ks) : i > Len(ks) - n})
  IN CHOOSE n \in 0..Len(ks) :
       Sailing(n) <= IndexWindow /\ (n < Len(ks) => Sailing(n + 1) > IndexWindow)
TwinRows(v) == Recorded(v, IndexWindow, Converted(NewestFirst(v.days, DaysRead(v.days))))
HealthStatus(index) ==
  CASE index > 8500                    -> "Good"
    [] 7000 < index /\ index <= 8500   -> "Monitor"
    [] OTHER                           -> "Clean"
Twin(v) ==
  LET rows == TwinRows(v)
      index == Between(10000 - 5 * MeanDev(rows), 0, 10000)
  IN [status |-> HealthStatus(index),
      cleaning |-> index < 7000,
      due |-> AtLeast((30 * (1500 - MeanDev(rows))) \div 100, 0),
      trend |-> IF Number(rows) >= 5 /\ FirstAboveLast(rows) THEN "degrading" ELSE "stable"]

-----------------------------------------------------------------------------
\* The rows.
\* generate_all_hull_rows: four rows with one deviation.
StaticRows ==
  [i \in 1..4 |-> [dev |-> StaticDeviation, level |-> Level(StaticDeviation, 500, 1500, StaticDeviation + 1),
                   rough |-> StaticRoughness, qpc |-> StaticQpc]]

StaticLog == [i \in 1..4 |-> [day |-> 30 * (i - 1), call |-> 1, row |-> StaticRows[i]]]

\* The static rows of the whole fleet, in one statement, for vessels without a generator.
Fresh == [call |-> 1, day |-> 0]
SeedHull ==
  /\ \A h \in Hulls : performance[h] = <<>> /\ writing[h] = Fresh
  /\ performance' = [h \in Hulls |-> StaticLog]
  /\ writing' = [h \in Hulls |-> [call |-> Calls + 1, day |-> 0]]
  /\ UNCHANGED telemetry

\* _create_hull_data, called once for every voyage of the vessel: a row a day, back in
\* time from today, each a statement of its own.
GeneratedRow(dev) ==
  [dev |-> dev, level |-> Level(dev, 500, 1000, dev + 1), rough |-> 3000 + dev, qpc |-> 85000 - dev]
RecordHull(h, noise) ==
  LET at == writing[h]
      new == [day |-> at.day, call |-> at.call, row |-> GeneratedRow(300 + Growth * at.day + noise)]
  IN /\ at.call <= Calls
     /\ performance' = [performance EXCEPT ![h] = Append(@, new)]
     /\ writing' = [writing EXCEPT ![h] =
                      IF at.day + 1 < RecordDays THEN [call |-> at.call, day |-> at.day + 1]
                      ELSE [call |-> at.call + 1, day |-> 0]]
     /\ UNCHANGED telemetry

\* Another generate empties the table, whatever was written so far.
ClearHull ==
  /\ performance' = [h \in Hulls |-> <<>>]
  /\ UNCHANGED <<writing, telemetry>>

\* aggregate.py adds the day of a vessel.
AddHullDay(h, k) ==
  /\ Len(telemetry[h]) < MaxLog
  /\ telemetry' = [telemetry EXCEPT ![h] = Append(@, k)]
  /\ UNCHANGED <<performance, writing>>

HullInit ==
  /\ performance = [h \in Hulls |-> <<>>] /\ writing = [h \in Hulls |-> Fresh]
  /\ telemetry = [h \in Hulls |-> <<>>]
HullNext ==
  \/ SeedHull \/ ClearHull
  \/ \E h \in Hulls, noise \in Noise : RecordHull(h, noise)
  \/ \E h \in Hulls, k \in Coefficients : AddHullDay(h, k)
HullSpec == HullInit /\ [][HullNext]_hullVars

-----------------------------------------------------------------------------
Data(v) == IF v.rows # <<>> THEN v.rows ELSE v.days
InOneWindow(v) == Len(Data(v)) \in 1..FoulingWindow

\* While all rows fit the shortest window, the assessment and the twin judge the same
\* mean: the twin calls good exactly the clean hulls, a hull to be cleaned is one the
\* twin would clean (not conversely: its limit is 6 percent, the other's 8), and a
\* heavily fouled one is never rated better than fair.
AssessmentAndTwinAgree(v) ==
  InOneWindow(v) /\ (v.rows # <<>> \/ UnderWay(v.days) # {}) =>
    /\ Twin(v).status = "Good" <=> Fouling(v).level = "clean"
    /\ Fouling(v).cleaning => Twin(v).cleaning
    /\ Twin(v).cleaning => Fouling(v).level # "clean"
    /\ Fouling(v).level = "heavy" =>
         Twin(v).due = 0 /\ Rating(Index(v)) \notin {"excellent", "good"}

\* The three trends of the same rows: what the assessment and the twin call getting
\* worse, the performance index calls improving, because it reads the newest values
\* first.  hull_trend calls decreasing what does not change.
TrendsAreOneStory(v) ==
  LET rows == Latest(v, FoulingWindow)
  IN /\ Twin(v).trend = "degrading" /\ InOneWindow(v) => Fouling(v).trend = "increasing"
     /\ InOneWindow(v) /\ Number(rows) <= IndexTrend =>
          (IndexTrendOf(v) = "improving" <=> Fouling(v).trend = "increasing")
     /\ InOneWindow(v) /\ Number(rows) = Len(Data(v)) =>
          (Trend(v).trend = "increasing" <=> Fouling(v).trend = "increasing")
     /\ Data(v) # <<>> /\ Trend(v).forecast => Whole(v, TrendWindow)[1].level \notin Foul

\* The fleet's list and the cleaning estimate agree on the newest row, and so on who
\* needs cleaning, however many rows there are, or as long as one window holds all days
\* of telemetry.
NewestRowDecides(v) ==
  (v.rows # <<>> \/ InOneWindow(v)) =>
    /\ Cleaning(v).level = Compared(v)
    /\ NeedsCleaning(v) <=> Cleaning(v).level \in Foul
    /\ NeedsCleaning(v) => Cleaning(v).since > 0

\* The four calls of the generator give every date four rows, in an order no endpoint asks
\* for; but no order makes a vessel need cleaning (the rows of today are never foul, and
\* while they are missing the newest date has one row), and what one window holds is of
\* one call and so has one order.
OrderIsImmaterial(h) ==
  /\ {v \in Readings(h) : NeedsCleaning(v)} \in {{}, Readings(h)}
  /\ \A v \in Readings(h) : InOneWindow(v) => Readings(h) = {v}

\* A hull judged by its own telemetry: every coefficient twice as high gives the same
\* verdicts, so fouling that is there from the first day is not seen.
SteadyFoulingIsUnseen(v) ==
  LET twice == [v EXCEPT !.days = [i \in DOMAIN v.days |-> 2 * v.days[i]]]
  IN v.days # <<>> =>
       /\ Fouling(v) = Fouling(twice) /\ Trend(v) = Trend(twice) /\ Cleaning(v) = Cleaning(twice)
       /\ Twin(v) = Twin(twice) /\ IndexTrendOf(v) = IndexTrendOf(twice)

\* Nor can that judgement be bad for long: at least every other day is clean, so the
\* last clean day is never further back than half the window; and excellent is only a
\* hull that is better than its own median.
HalfTheDaysAreClean(v) ==
  v.rows = <<>> /\ v.days # <<>> =>
    LET rows == Latest(v, IndexWindow)
    IN /\ 2 * Cardinality({i \in DOMAIN rows : rows[i].level = "clean"}) > Len(rows)
       /\ 2 * Cleaning(v).since < Len(rows)
       /\ Rating(Index(v)) = "excellent" => MeanDev(rows) <= -250

\* What the endpoints say of one hull can be told together, in the sense of the six
\* statements above.
HullVerdictsAgree ==
  \A h \in Hulls :
    /\ OrderIsImmaterial(h)
    /\ \A v \in Readings(h) :
         /\ AssessmentAndTwinAgree(v) /\ TrendsAreOneStory(v) /\ NewestRowDecides(v)
         /\ SteadyFoulingIsUnseen(v) /\ HalfTheDaysAreClean(v)
=============================================================================
