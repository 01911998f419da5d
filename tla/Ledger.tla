-------------------------------- MODULE Ledger --------------------------------
(***************************************************************************)
(* The compliance ledger of the fleet performance application: CII, EU ETS *)
(* and FuelEU (modules/cii_compliance.py, models/compliance.py), EEXI and  *)
(* power limits (eexi_compliance.py), SEEMP (seemp_compliance.py).  Asking *)
(* for a figure writes it: every calculation is a GET that appends a row,  *)
(* and the annual reports add up whatever rows are there.  A request is a  *)
(* list of statements; two gunicorn workers interleave between them, and a *)
(* worker may be killed there.                                             *)
(*                                                                         *)
(* A behaviour is the life of one fleet: no handler changes a voyage, the  *)
(* demo jobs generate and reset delete them, all at once, and empty the    *)
(* ledger's tables, statement by statement and each in its own order       *)
(* (demo/generate_data.py, api/demo.py).  They may start at any time, and  *)
(* what they find in other tables may stop them at any statement.  The     *)
(* seeding appends CII rows for the static fleet (demo/seed_render.py);    *)
(* generate adds SEEMP measures as any client does.  When the vessels are  *)
(* deleted, the next fleet has new keys: another behaviour.                *)
(*                                                                         *)
(* Quantities are integers: fuel and CO2 in tonnes, transport work in      *)
(* million tonne-miles, energy in 100 MJ, greenhouse gas in kg,            *)
(* intensities in hundredths.  Prices, ports' names and descriptions are   *)
(* left out.                                                               *)
(***************************************************************************)
EXTENDS FleetSchema, Sums, SequencesExt, FiniteSets

CONSTANTS Clerks,            \* the workers that serve these requests
          Vessels,
          Voyages,           \* completed voyages: see VoyageType
          FirstYear, Days,   \* the calendar: days of year FirstYear and on, ascending
          Limits,            \* power limits asked for, in percent
          StaticYear,        \* the year of the seeded CII rows
          StaticFigures,     \* what such a row may say: [co2, rating]
          MaxRows            \* bounds: rows the exploration appends to each book

VoyageType ==
  [vessel : Vessels, year : Int, co2 : Nat, work : Nat, cargo : Nat,
   load_in_eu : BOOLEAN, discharge_in_eu : BOOLEAN, fuels : Seq({"VLSFO", "HFO", "ULSFO", "MGO", "LNG"} \X Nat)]

Ratings == {"A", "B", "C", "D", "E"}

ASSUME LedgerAssumption ==
  /\ Voyages \subseteq VoyageType
  /\ IsFiniteSet(Voyages) /\ IsFiniteSet(Vessels) /\ IsFiniteSet(Clerks)
  /\ FirstYear \in Nat /\ Days \in Seq(Nat) /\ Days # <<>> /\ Limits \subseteq Int
  /\ StaticYear \in {FirstYear + Days[i] \div 365 : i \in DOMAIN Days}
  /\ StaticFigures \subseteq [co2 : Nat, rating : Ratings]
  /\ MaxRows \in [cii : Nat, ets : Nat, fueleu : Nat, efficiency : Nat]

VARIABLES assessments,  \* cii_assessment
          etsRecords,   \* eu_ets_records
          surrender,    \* eu_ets_surrender
          fuelRecords,  \* fueleu_records
          eexi,         \* eexi_assessment
          limits,       \* epl_config
          measures,     \* seemp_measures
          reports,      \* seemp_reports
          task,         \* what each worker still has to execute
          sailing,      \* the voyages have not been deleted
          today,        \* index of the current day in Days
          halves,       \* history: voyages with a FuelEU answer cut short
          erased        \* history: the rows demo jobs deleted of two books

records == <<assessments, etsRecords, fuelRecords, limits, measures>>
yearly == <<surrender, eexi, reports>>
demoed == <<sailing, erased>>
ledgerVars == <<dialect, records, yearly, demoed, task, today, halves>>

YearOf(day) == FirstYear + day \div 365
ThisYear == YearOf(Days[today])
Years == {YearOf(Days[i]) : i \in DOMAIN Days}
NoTask == [op |-> "none"]
Seeding == [op |-> "seed"]

\* Every row written to the two books, also those that are gone.
EverAllocated == erased.ets \o etsRecords
EverAssessed == erased.cii \o assessments

\* SUM over a column of the rows of a book with this vessel and year.
IsOf(r, vessel, y) == r.vessel = vessel /\ r.year = y
SumOf(book, column, vessel, y) ==
  Total([i \in DOMAIN book |-> IF IsOf(book[i], vessel, y) THEN book[i][column] ELSE 0])

-----------------------------------------------------------------------------
\* CII.
\* CII_RATING_BOUNDARIES_LNG, in hundredths.
RatingBoundaries ==
  [y \in 2023..2026 |->
     CASE y = 2023 -> [A |-> 530, B |-> 600, C |-> 675, D |-> 750]
       [] y = 2024 -> [A |-> 515, B |-> 585, C |-> 655, D |-> 730]
       [] y = 2025 -> [A |-> 505, B |-> 570, C |-> 640, D |-> 715]
       [] y = 2026 -> [A |-> 490, B |-> 555, C |-> 620, D |-> 695]]

BoundariesForYear(y) ==
  RatingBoundaries[IF y \in 2023..2026 THEN y ELSE IF y > 2026 THEN 2026 ELSE 2024]

\* _rate_cii of num / den.
Rate(num, den, boundaries) ==
  CASE num * 100 <= boundaries.A * den -> "A"
    [] boundaries.A * den < num * 100 /\ num * 100 <= boundaries.B * den -> "B"
    [] boundaries.B * den < num * 100 /\ num * 100 <= boundaries.C * den -> "C"
    [] boundaries.C * den < num * 100 /\ num * 100 <= boundaries.D * den -> "D"
    [] OTHER -> "E"

Max1(n) == IF n < 1 THEN 1 ELSE n
DaysElapsed(y) == Max1(Days[today] - 365 * (y - FirstYear))

\* calculate_cii: the row it appends, projected to the end of the year by the days
\* since its first of January.
VoyagesOf(vessel, y) == SetToSeq({v \in Voyages : v.vessel = vessel /\ v.year = y})
FuelOf(v) == Total([i \in DOMAIN v.fuels |-> v.fuels[i][2]])
HasWork(vessel, y) ==
  LET vs == VoyagesOf(vessel, y)
  IN Total([i \in DOMAIN vs |-> vs[i].cargo * vs[i].work]) # 0

Assessment(vessel, y) ==
  LET vs == VoyagesOf(vessel, y)
      co2 == Total([i \in DOMAIN vs |-> vs[i].co2])
      work == Total([i \in DOMAIN vs |-> vs[i].work])
  IN [vessel |-> vessel, year |-> y, co2 |-> co2,
      fuel |-> Total([i \in DOMAIN vs |-> FuelOf(vs[i])]),
      rating |-> Rate(co2, work, BoundariesForYear(y)),
      projected |-> Rate(co2 * 365, work * DaysElapsed(y), BoundariesForYear(y))]

\* cii_drift_alert: what it says of a result, by the days elapsed in its year.
DriftAlerts(a) ==
  LET elapsed == DaysElapsed(a.year)
  IN (IF a.projected \in {"D", "E"} THEN {"projected"} ELSE {})
     \cup (IF elapsed > 180 /\ a.rating \in {"D", "E"} THEN {"mid_year"} ELSE {})
     \cup (IF elapsed > 270 /\ a.projected = "E" THEN {"confirmed"} ELSE {})

\* Without transport work the analytics fallback raises NameError: no row.  The
\* voyages may go between its SELECT and its INSERT.
CalculateCii(vessel, y) ==
  /\ Len(EverAssessed) < MaxRows.cii
  /\ HasWork(vessel, y)
  /\ assessments' = Append(assessments, Assessment(vessel, y))
  /\ UNCHANGED <<dialect, etsRecords, fuelRecords, limits, measures, yearly, demoed, task, today, halves>>

\* GET /cii/fleet: one calculation per vessel, errors swallowed.
CiiFleet(y) ==
  LET fleet == SetToSeq({vessel \in Vessels : HasWork(vessel, y)})
  IN /\ fleet # <<>> /\ Len(EverAssessed) + Len(fleet) <= MaxRows.cii
     /\ assessments' = assessments \o [i \in DOMAIN fleet |-> Assessment(fleet[i], y)]
     /\ UNCHANGED <<dialect, etsRecords, fuelRecords, limits, measures, yearly, demoed, task, today, halves>>

\* generate_all_cii_rows: a row per vessel with random figures, without a projection
\* and with no oil columns, so that the sum of calculate_improvement skips it.
SeedCii(w) ==
  /\ task[w] = Seeding
  /\ \E figures \in [Vessels -> StaticFigures] :
       LET fleet == SetToSeq(Vessels)
       IN assessments' = assessments \o
            [i \in DOMAIN fleet |->
               [vessel |-> fleet[i], year |-> StaticYear, co2 |-> figures[fleet[i]].co2, fuel |-> 0,
                rating |-> figures[fleet[i]].rating, projected |-> "none"]]
  /\ task' = [task EXCEPT ![w] = NoTask]
  /\ UNCHANGED <<dialect, etsRecords, fuelRecords, limits, measures, yearly, demoed, today, halves>>

-----------------------------------------------------------------------------
\* EU ETS.
\* calculate_eu_ets works its CO2 out of the voyage's fuels, in hundreds of grams:
\* one factor for all oil, another for LNG.
EuEmissionFactor == [VLSFO |-> 9245, HFO |-> 9245, ULSFO |-> 9245, MGO |-> 9245, LNG |-> 27500]
EtsCo2(v) ==
  Total([i \in DOMAIN v.fuels |-> v.fuels[i][2] * EuEmissionFactor[v.fuels[i][1]]])

\* Half for one port in the EU; dated by the day of the request.
AllocationPct(v) ==
  CASE v.load_in_eu /\ v.discharge_in_eu -> 100
    [] v.load_in_eu # v.discharge_in_eu  -> 50
    [] OTHER                             -> 0

CalculateEts(v) ==
  /\ sailing /\ Len(EverAllocated) < MaxRows.ets
  /\ etsRecords' = Append(etsRecords, [vessel |-> v.vessel, year |-> ThisYear,
                                       allocated |-> EtsCo2(v) * AllocationPct(v)])
  /\ UNCHANGED <<dialect, assessments, fuelRecords, limits, measures, yearly, demoed, task, today, halves>>

Allocated(vessel, y) == SumOf(etsRecords, "allocated", vessel, y)

\* eu_ets_annual_summary: the sum, the look for an existing row, the INSERT OR
\* REPLACE (on PostgreSQL: ON CONFLICT DO NOTHING).
Summarise(w, vessel, y) ==
  /\ task[w] = NoTask
  /\ task' = [task EXCEPT ![w] = [op |-> "summary", vessel |-> vessel, year |-> y,
                                  total |-> Allocated(vessel, y)]]
  /\ UNCHANGED <<dialect, records, yearly, demoed, today, halves>>

SameYear(table, t) == {r \in table : IsOf(r, t.vessel, t.year)}

LookForSurrender(w) ==
  /\ task[w].op = "summary"
  /\ task' = [task EXCEPT ![w] = IF SameYear(surrender, task[w]) # {} THEN NoTask
                                 ELSE [task[w] EXCEPT !.op = "surrender"]]
  /\ UNCHANGED <<dialect, records, yearly, demoed, today, halves>>

\* Mutant of WriteSurrender: the row is not replaced but added.
WriteSurrenderBeside(w) ==
  /\ task[w].op = "surrender"
  /\ surrender' = surrender \cup {[vessel |-> task[w].vessel, year |-> task[w].year,
                                   total |-> task[w].total]}
  /\ task' = [task EXCEPT ![w] = NoTask]
  /\ UNCHANGED <<dialect, records, eexi, reports, demoed, today, halves>>

WriteSurrender(w) ==
  /\ task[w].op = "surrender"
  /\ LET t == task[w]
         old == SameYear(surrender, t)
         new == [vessel |-> t.vessel, year |-> t.year, total |-> t.total]
     IN surrender' = IF old # {} /\ dialect = "postgres" THEN surrender
                     ELSE (surrender \ old) \cup {new}
  /\ task' = [task EXCEPT ![w] = NoTask]
  /\ UNCHANGED <<dialect, records, eexi, reports, demoed, today, halves>>

-----------------------------------------------------------------------------
\* FuelEU.
EnergyContent == [VLSFO |-> 402, HFO |-> 402, ULSFO |-> 427, MGO |-> 427, LNG |-> 500]
WtwFactor == [VLSFO |-> 3207, HFO |-> 3207, ULSFO |-> 3314, MGO |-> 3314, LNG |-> 3560]

FuelRow(v, f) ==
  [voyage |-> v, energy |-> f[2] * EnergyContent[f[1]], ghg |-> f[2] * WtwFactor[f[1]]]

\* overall_intensity <= limit; no energy counts as an intensity of 0.
WithinLimit(energy, ghg, limit) == energy > 0 => ghg * 1000 <= limit * energy

\* fueleu_trajectory_limit: the table of reference values, linear between them and
\* rounded to hundredths.
Trajectory ==
  <<<<2025, 9116>>, <<2026, 8923>>, <<2027, 8729>>, <<2028, 8536>>, <<2029, 8343>>,
    <<2030, 7744>>, <<2035, 6646>>, <<2040, 5548>>, <<2045, 4450>>, <<2050, 1823>>>>

TrajectoryLimit(y) ==
  CASE y < 2025 -> 9116
    [] y > 2050 -> 0
    [] y \in 2025..2050 ->
         LET i == CHOOSE i \in 2..Len(Trajectory) :
                    Trajectory[i - 1][1] <= y /\ y <= Trajectory[i][1]
             a == Trajectory[i - 1]
             b == Trajectory[i]
             span == b[1] - a[1]
         IN a[2] - (2 * (y - a[1]) * (a[2] - b[2]) + span) \div (2 * span)

\* calculate_fueleu: one INSERT per fuel burnt, in the order of the source; `left'
\* are the places of those still to write.
Burnt(v) == {i \in DOMAIN v.fuels : v.fuels[i][2] > 0}

CalculateFuelEu(w, v) ==
  /\ task[w] = NoTask /\ sailing
  /\ Burnt(v) # {} /\ Len(fuelRecords) + Cardinality(Burnt(v)) <= MaxRows.fueleu
  /\ task' = [task EXCEPT ![w] = [op |-> "fueleu", voyage |-> v, left |-> Burnt(v)]]
  /\ UNCHANGED <<dialect, records, yearly, demoed, today, halves>>

\* Mutant of WriteFuelRecord: the loop ends with the first fuel.
WriteFirstFuel(w) ==
  /\ task[w].op = "fueleu" /\ sailing
  /\ LET t == task[w]
     IN fuelRecords' = Append(fuelRecords, FuelRow(t.voyage, t.voyage.fuels[Min(t.left)]))
  /\ task' = [task EXCEPT ![w] = NoTask]
  /\ UNCHANGED <<dialect, assessments, etsRecords, limits, measures, yearly, demoed, today, halves>>

WriteFuelRecord(w) ==
  /\ task[w].op = "fueleu" /\ sailing
  /\ LET t == task[w]
         next == Min(t.left)
     IN /\ fuelRecords' = Append(fuelRecords, FuelRow(t.voyage, t.voyage.fuels[next]))
        /\ task' = [task EXCEPT ![w] = IF t.left = {next} THEN NoTask
                                       ELSE [t EXCEPT !.left = @ \ {next}]]
  /\ UNCHANGED <<dialect, assessments, etsRecords, limits, measures, yearly, demoed, today, halves>>

\* fueleu_annual_aggregation and the answer to one voyage.
AnnualSum(column, vessel, y) ==
  Total([i \in DOMAIN fuelRecords |->
           IF IsOf(fuelRecords[i].voyage, vessel, y) THEN fuelRecords[i][column] ELSE 0])
AnnualCompliant(vessel, y) ==
  WithinLimit(AnnualSum("energy", vessel, y), AnnualSum("ghg", vessel, y), TrajectoryLimit(y))

VoyageSum(column, v) == Total([i \in DOMAIN v.fuels |-> FuelRow(v, v.fuels[i])[column]])
VoyageCompliant(v, reference) ==
  WithinLimit(VoyageSum("energy", v), VoyageSum("ghg", v), reference)

-----------------------------------------------------------------------------
\* EEXI and power limits.
\* calculate_eexi: UPDATE the latest row if it is of this year, else INSERT.
LookForEexi(w, vessel) ==
  /\ task[w] = NoTask
  /\ LET own == {r \in eexi : r.vessel = vessel}
     IN task' = [task EXCEPT ![w] =
                   [op |-> "eexi", vessel |-> vessel,
                    update |-> \E r \in own : r.year = ThisYear /\ \A q \in own : q.year <= r.year]]
  /\ UNCHANGED <<dialect, records, yearly, demoed, today, halves>>

\* The year is read again for the INSERT; a second row of a year is refused.
WriteEexi(w) ==
  /\ task[w].op = "eexi"
  /\ eexi' = IF task[w].update THEN eexi
             ELSE eexi \cup {[vessel |-> task[w].vessel, year |-> ThisYear]}
  /\ task' = [task EXCEPT ![w] = NoTask]
  /\ UNCHANGED <<dialect, records, surrender, reports, demoed, today, halves>>

\* configure_epl appends; verify_epl_compliance takes the highest limit below 100.
ConfigureEpl(vessel, pct) ==
  /\ Len(limits) + Len(measures) < MaxRows.efficiency
  /\ pct \in 10..100
  /\ limits' = Append(limits, [vessel |-> vessel, pct |-> pct])
  /\ UNCHANGED <<dialect, assessments, etsRecords, fuelRecords, measures, yearly, demoed, task, today, halves>>

ActiveLimits(vessel) == {r.pct : r \in {r \in ToSet(limits) : r.vessel = vessel /\ r.pct < 100}}
EplCompliant(vessel, power) ==
  ActiveLimits(vessel) = {} \/ \E limit \in ActiveLimits(vessel) : power <= limit

-----------------------------------------------------------------------------
\* SEEMP.
AddMeasure(vessel, y) ==
  /\ Len(limits) + Len(measures) < MaxRows.efficiency
  /\ measures' = Append(measures, [vessel |-> vessel, year |-> y])
  /\ UNCHANGED <<dialect, assessments, etsRecords, fuelRecords, limits, yearly, demoed, task, today, halves>>

\* calculate_improvement: fuel of all rows of the year before against this year's.
FuelReported(vessel, y) == SumOf(assessments, "fuel", vessel, y)
ImprovementFuel(vessel, y) == FuelReported(vessel, y - 1) - FuelReported(vessel, y)

\* generate_dcs_report: adds up the rows, looks for a report, then writes one.  A
\* row of SQLite has no .get(): there the request fails before it writes.
GatherDcs(w, vessel, y) ==
  /\ task[w] = NoTask /\ dialect = "postgres"
  /\ task' = [task EXCEPT ![w] =
                [op |-> "dcs", vessel |-> vessel, year |-> y,
                 co2 |-> SumOf(assessments, "co2", vessel, y)]]
  /\ UNCHANGED <<dialect, records, yearly, demoed, today, halves>>

LookForReport(w) ==
  /\ task[w].op = "dcs"
  /\ task' = [task EXCEPT ![w].op = IF SameYear(reports, task[w]) # {} THEN "update" ELSE "insert"]
  /\ UNCHANGED <<dialect, records, yearly, demoed, today, halves>>

\* The UPDATE names updated_at, a column seemp_reports does not have: it raises, and
\* the old report stays.  The INSERT says ON CONFLICT DO NOTHING.
WriteReport(w) ==
  /\ task[w].op \in {"insert", "update"}
  /\ LET t == task[w]
         new == [vessel |-> t.vessel, year |-> t.year, co2 |-> t.co2]
     IN reports' = IF t.op = "update" \/ SameYear(reports, t) # {} THEN reports
                   ELSE reports \cup {new}
  /\ task' = [task EXCEPT ![w] = NoTask]
  /\ UNCHANGED <<dialect, records, surrender, eexi, demoed, today, halves>>

-----------------------------------------------------------------------------
\* The demo jobs: the DELETEs of _clear_existing_data and of reset_database on the
\* tables of the ledger and on the voyages.
LedgerDeletes ==
  [generate |-> <<"eu_ets_surrender", "seemp_reports", "seemp_measures", "epl_config",
                  "eexi_assessment", "fueleu_records", "eu_ets_records", "cii_assessment", "voyages">>,
   reset    |-> <<"voyages", "cii_assessment", "eu_ets_records", "fueleu_records", "eexi_assessment",
                  "epl_config", "seemp_measures", "seemp_reports", "eu_ets_surrender">>]

DemoOnLedger(w, kind) ==
  /\ task[w] = NoTask
  /\ task' = [task EXCEPT ![w] = [op |-> kind, at |-> 1]]
  /\ UNCHANGED <<dialect, records, yearly, demoed, today, halves>>

DeletesFrom(w, table) ==
  task[w].op \in DOMAIN LedgerDeletes /\ LedgerDeletes[task[w].op][task[w].at] = table

NextTable(w) ==
  task' = [task EXCEPT ![w] = IF @.at = Len(LedgerDeletes[@.op]) THEN NoTask
                              ELSE [task[w] EXCEPT !.at = @ + 1]]

\* Voyages with a FuelEU answer of which some rows are written and some are not.
HalfAnswered ==
  {task[w].voyage : w \in {w \in Clerks : /\ task[w].op = "fueleu"
                                         /\ task[w].left # Burnt(task[w].voyage)}}

EmptyCii(w) ==
  /\ DeletesFrom(w, "cii_assessment") /\ NextTable(w)
  /\ assessments' = <<>> /\ erased' = [erased EXCEPT !.cii = EverAssessed]
  /\ UNCHANGED <<dialect, etsRecords, fuelRecords, limits, measures, yearly, sailing, today, halves>>

EmptyEts(w) ==
  /\ DeletesFrom(w, "eu_ets_records") /\ NextTable(w)
  /\ etsRecords' = <<>> /\ erased' = [erased EXCEPT !.ets = EverAllocated]
  /\ UNCHANGED <<dialect, assessments, fuelRecords, limits, measures, yearly, sailing, today, halves>>

EmptyFuelEu(w) ==
  /\ DeletesFrom(w, "fueleu_records") /\ NextTable(w)
  /\ fuelRecords' = <<>> /\ halves' = halves \cup HalfAnswered
  /\ UNCHANGED <<dialect, assessments, etsRecords, limits, measures, yearly, demoed, today>>

EmptyEfficiency(w) ==
  /\ \/ DeletesFrom(w, "epl_config") /\ limits' = <<>> /\ UNCHANGED <<measures, eexi>>
     \/ DeletesFrom(w, "seemp_measures") /\ measures' = <<>> /\ UNCHANGED <<limits, eexi>>
     \/ DeletesFrom(w, "eexi_assessment") /\ eexi' = {} /\ UNCHANGED <<limits, measures>>
  /\ NextTable(w)
  /\ UNCHANGED <<dialect, assessments, etsRecords, fuelRecords, surrender, reports, demoed, today, halves>>

EmptyTotals(w) ==
  /\ \/ DeletesFrom(w, "eu_ets_surrender") /\ surrender' = {} /\ UNCHANGED reports
     \/ DeletesFrom(w, "seemp_reports") /\ reports' = {} /\ UNCHANGED surrender
  /\ NextTable(w)
  /\ UNCHANGED <<dialect, records, eexi, demoed, today, halves>>

\* A voyage that has records cannot be deleted.
EmptyVoyages(w) ==
  /\ DeletesFrom(w, "voyages") /\ NextTable(w)
  /\ etsRecords = <<>> /\ fuelRecords = <<>>
  /\ sailing' = FALSE
  /\ UNCHANGED <<dialect, records, yearly, erased, today, halves>>

DemoDelete(w) ==
  \/ EmptyCii(w) \/ EmptyEts(w) \/ EmptyFuelEu(w) \/ EmptyEfficiency(w)
  \/ EmptyTotals(w) \/ EmptyVoyages(w)

-----------------------------------------------------------------------------
\* A worker is killed between two statements, or its statement fails: the voyage a
\* FuelEU row refers to is gone, or the voyages a demo job deletes are referred to.
DropTask(w) ==
  /\ task[w] # NoTask
  /\ halves' = IF task[w].op = "fueleu" THEN halves \cup {task[w].voyage} ELSE halves
  /\ task' = [task EXCEPT ![w] = NoTask]
  /\ UNCHANGED <<dialect, records, yearly, demoed, today>>

NextDay ==
  /\ today < Len(Days)
  /\ today' = today + 1
  /\ UNCHANGED <<dialect, records, yearly, demoed, task, halves>>

LedgerInit ==
  /\ dialect \in Dialects
  /\ assessments = <<>> /\ etsRecords = <<>> /\ fuelRecords = <<>>
  /\ limits = <<>> /\ measures = <<>>
  /\ surrender = {} /\ eexi = {} /\ reports = {}
  \* the workers that started together and found no vessel are about to seed
  /\ task \in [Clerks -> {NoTask} \cup (IF dialect = "postgres" THEN {Seeding} ELSE {})]
  /\ sailing = TRUE /\ today = 1 /\ halves = {} /\ erased = [cii |-> <<>>, ets |-> <<>>]

\* The requests of the four books.
CiiNext ==
  \/ \E y \in Years : CiiFleet(y)
  \/ \E vessel \in Vessels, y \in Years :
       CalculateCii(vessel, y) \/ \E w \in Clerks : GatherDcs(w, vessel, y)
  \/ \E w \in Clerks : SeedCii(w) \/ LookForReport(w) \/ WriteReport(w)

EtsNext ==
  \/ \E v \in Voyages : CalculateEts(v)
  \/ \E w \in Clerks, vessel \in Vessels, y \in Years : Summarise(w, vessel, y)
  \/ \E w \in Clerks : LookForSurrender(w) \/ WriteSurrender(w)

FuelEuNext ==
  \E w \in Clerks : WriteFuelRecord(w) \/ \E v \in Voyages : CalculateFuelEu(w, v)

EfficiencyNext ==
  \/ \E vessel \in Vessels, pct \in Limits : ConfigureEpl(vessel, pct)
  \/ \E vessel \in Vessels, y \in Years : AddMeasure(vessel, y)
  \/ \E w \in Clerks : WriteEexi(w) \/ \E vessel \in Vessels : LookForEexi(w, vessel)

Elsewhere ==
  \/ NextDay
  \/ \E w \in Clerks : DropTask(w) \/ DemoDelete(w)
                      \/ \E kind \in DOMAIN LedgerDeletes : DemoOnLedger(w, kind)

LedgerNext == CiiNext \/ EtsNext \/ FuelEuNext \/ EfficiencyNext \/ Elsewhere

LedgerSpec == LedgerInit /\ [][LedgerNext]_ledgerVars

-----------------------------------------------------------------------------
Task ==
  {NoTask, Seeding}
  \cup [op : DOMAIN LedgerDeletes, at : 1..9]
  \cup [op : {"summary", "surrender"}, vessel : Vessels, year : Years, total : Int]
  \cup [op : {"dcs", "insert", "update"}, vessel : Vessels, year : Years, co2 : Int]
  \cup [op : {"fueleu"}, voyage : Voyages, left : SUBSET Nat]
  \cup [op : {"eexi"}, vessel : Vessels, update : BOOLEAN]

LedgerTypeOK ==
  /\ dialect \in Dialects
  /\ assessments \in Seq([vessel : Vessels, year : Years, co2 : Nat, fuel : Nat,
                          rating : Ratings, projected : Ratings \cup {"none"}])
  /\ etsRecords \in Seq([vessel : Vessels, year : Years, allocated : Nat])
  /\ fuelRecords \in Seq([voyage : Voyages, energy : Nat, ghg : Nat])
  /\ limits \in Seq([vessel : Vessels, pct : 10..100])
  /\ measures \in Seq([vessel : Vessels, year : Years])
  /\ surrender \subseteq [vessel : Vessels, year : Years, total : Int]
  /\ reports \subseteq [vessel : Vessels, year : Years, co2 : Int]
  /\ eexi \subseteq [vessel : Vessels, year : Years]
  /\ task \in [Clerks -> Task]
  /\ \A w \in Clerks : task[w].op = "fueleu" =>
       task[w].left # {} /\ task[w].left \subseteq Burnt(task[w].voyage)
  /\ sailing \in BOOLEAN /\ today \in DOMAIN Days /\ halves \subseteq Voyages
  /\ erased \in [cii : Seq([vessel : Vessels, year : Years, co2 : Nat, fuel : Nat,
                            rating : Ratings, projected : Ratings \cup {"none"}]),
                  ets : Seq([vessel : Vessels, year : Years, allocated : Nat])]

\* What the ledger keeps of a year is an old answer, never an answer ahead of the
\* records: a vessel has at most one surrender obligation and one DCS report of a
\* year, each at most what the records add up to, however two workers' SELECTs and
\* INSERTs interleave.  (Nothing ever raises an obligation or a report to the later
\* sum.)  A demo job that empties the books may leave a total of rows that are gone,
\* written by a worker that had added them up before: so the sum is of all the rows
\* ever written, which without such a job are the rows in the book.
\* And a power limit once configured stays good: a tighter one does not replace it.
StoredTotalsLagBehind ==
  /\ \A table \in {surrender, reports, eexi} :
       \A r, q \in table : r.vessel = q.vessel /\ r.year = q.year => r = q
  /\ \A r \in surrender : r.total <= SumOf(EverAllocated, "allocated", r.vessel, r.year)
  /\ \A r \in reports : r.co2 <= SumOf(EverAssessed, "co2", r.vessel, r.year)
  /\ \A i \in DOMAIN limits : limits[i].pct < 100 => EplCompliant(limits[i].vessel, limits[i].pct)

\* If FuelEU holds every voyage of a year within the year's limit, the annual
\* aggregation is within it too, although it counts a voyage once per request for
\* it; only an answer cut short between two of its fuels, by the end of its worker or
\* by a demo job that empties the book, can tip the balance.
AggregateFollowsVoyages ==
  \A vessel \in Vessels, y \in Years :
    LET asked == {v \in {fuelRecords[i].voyage : i \in DOMAIN fuelRecords} : IsOf(v, vessel, y)}
        underWay == {task[w].voyage : w \in {w \in Clerks : task[w].op = "fueleu"}}
    IN /\ asked # {}
       /\ \A v \in asked : VoyageCompliant(v, TrajectoryLimit(y))
       /\ asked \cap (halves \cup underWay) = {}
       => AnnualCompliant(vessel, y)

\* Asked again for a vessel and year that has an assessment, while its voyages are
\* there to be added up, the drift alerts never
\* pass over a rating of D or E.  In the running year the projection to its end is no
\* better than the rating; for a past year it is: it shrinks with every day, and only
\* the mid-year rule still speaks.
BadRatingsAreAlerted ==
  sailing => \A i \in DOMAIN assessments :
    LET a == Assessment(assessments[i].vessel, assessments[i].year)
    IN /\ a.rating \in {"D", "E"} => DriftAlerts(a) # {}
       /\ a.year = ThisYear /\ a.rating \in {"D", "E"} => "projected" \in DriftAlerts(a)

\* Fuel reported to SEEMP is the year's fuel once per CII request, whatever a demo job
\* deleted before or the seeding added: asking about both years equally often keeps
\* the sign of the improvement.
TimesAsked(vessel, y) ==
  Cardinality({i \in DOMAIN assessments : /\ IsOf(assessments[i], vessel, y)
                                          /\ assessments[i].projected # "none"})

ImprovementKeepsItsSign ==
  \A vessel \in Vessels, y \in Years :
    assessments # <<>> /\ TimesAsked(vessel, y) = TimesAsked(vessel, y - 1) =>
      ImprovementFuel(vessel, y)
        = TimesAsked(vessel, y) * (Assessment(vessel, y - 1).fuel - Assessment(vessel, y).fuel)

\* The annual answers follow from the voyages, in the sense of the three statements
\* above.
AnnualAnswersFollowVoyages ==
  AggregateFollowsVoyages /\ BadRatingsAreAlerted /\ ImprovementKeepsItsSign
=============================================================================
