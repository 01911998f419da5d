----------------------------- MODULE LedgerProofs -----------------------------
(***************************************************************************)
(* Theorems about Ledger for any fleet, voyages, calendar and number of    *)
(* workers.  What the sums of the books need is in SumsProofs.             *)
(***************************************************************************)
EXTENDS Ledger, SumsProofs

-----------------------------------------------------------------------------
(* Books.                                                                  *)
\* A book to which rows are added.
Extends(new, old) == Len(old) <= Len(new) /\ \A i \in 1..Len(old) : new[i] = old[i]

LEMMA SumOfGrows ==
  ASSUME NEW S, NEW old \in Seq(S), NEW new \in Seq(S), Extends(new, old),
         NEW column, \A r \in S : r[column] \in Nat, NEW vessel, NEW y
  PROVE  /\ SumOf(old, column, vessel, y) \in Nat
         /\ SumOf(old, column, vessel, y) <= SumOf(new, column, vessel, y)
<1> DEFINE Column(book) == [i \in DOMAIN book |-> IF IsOf(book[i], vessel, y) THEN book[i][column] ELSE 0]
<1>1. ASSUME NEW book \in Seq(S)
      PROVE  Column(book) \in Seq(Nat) /\ Len(Column(book)) = Len(book)
  <2>1. DOMAIN book = 1..Len(book) /\ Len(book) \in Nat /\ \A i \in 1..Len(book) : book[i] \in S
    OBVIOUS
  <2>2. ASSUME NEW i \in 1..Len(book)
        PROVE  (IF IsOf(book[i], vessel, y) THEN book[i][column] ELSE 0) \in Nat
    <3>1. book[i][column] \in Nat
      BY <2>1
    <3> QED  BY <3>1
  <2>3. Column(book) \in [1..Len(book) -> Nat]
    BY <2>1, <2>2
  <2> HIDE DEF Column
  <2> QED  BY <2>1, <2>3
<1>2. ASSUME NEW i \in 1..Len(old) PROVE Column(new)[i] = Column(old)[i]
  <2>1. Len(old) \in Nat /\ Len(new) \in Nat /\ Len(old) <= Len(new) /\ new[i] = old[i]
    BY DEF Extends
  <2>2. i \in DOMAIN old /\ i \in DOMAIN new
    BY <2>1
  <2> QED  BY <2>1, <2>2
<1> HIDE DEF Column
<1>3. Total(Column(old)) \in Nat /\ Total(Column(old)) <= Total(Column(new))
  BY <1>1, <1>2, TotalOfLonger DEF Extends
<1> QED  BY <1>3 DEF SumOf, Column

\* The last rows of a book add up to at most the whole book.
LEMMA TotalOfLastRows ==
  ASSUME NEW s \in Seq(Nat), NEW all \in Seq(Nat), NEW k \in Nat, Len(all) = k + Len(s),
         \A i \in 1..Len(s) : all[k + i] = s[i]
  PROVE  Total(s) <= Total(all)
<1>1. Len(s) \in Nat /\ Len(all) \in Nat /\ s \in Seq(Int) /\ all \in Seq(Int)
      /\ \A i \in 1..Len(s) : s[i] \in Nat
  OBVIOUS
<1>2. PICK f \in [0..Len(all) -> Int] : Sums(f, all)
  BY <1>1, SumsExist
<1>3. f \in [0..Len(all) -> Nat] /\ Total(all) = f[Len(all)]
  BY <1>1, <1>2, SumsOfNats, TotalIsLastSum
<1>4. ASSUME NEW i \in 1..Len(all) PROVE f[i] = f[i - 1] + all[i]
  <2>1. i \in 0..Len(all) /\ i # 0
    BY <1>1
  <2>2. f[i] = IF i = 0 THEN 0 ELSE f[i - 1] + all[i]
    BY <1>2, <2>1 DEF Sums
  <2> QED  BY <2>1, <2>2
<1> DEFINE g == [i \in 0..Len(s) |-> f[k + i]]
<1>5. g \in [0..Len(s) -> Int]
  BY <1>1, <1>3
<1>6. ASSUME NEW i \in 1..Len(s) PROVE s[i] <= g[i] - g[i - 1]
  <2>1. k + i \in 1..Len(all) /\ k + (i - 1) \in 0..Len(all) /\ (k + i) - 1 = k + (i - 1)
    BY <1>1
  <2>2. f[k + i] = f[(k + i) - 1] + all[k + i]
    BY <1>4, <2>1
  <2>3. f[k + i] \in Nat /\ f[k + (i - 1)] \in Nat /\ all[k + i] = s[i] /\ s[i] \in Nat
    <3>1. k + i \in 0..Len(all)
      BY <1>1, <2>1
    <3> QED  BY <1>1, <1>3, <2>1, <3>1
  <2>4. i \in 0..Len(s) /\ i - 1 \in 0..Len(s)
    BY <1>1
  <2>5. g[i] = f[k + i] /\ g[i - 1] = f[k + (i - 1)]
    BY <2>4
  <2> HIDE DEF g
  <2> QED  BY <2>1, <2>2, <2>3, <2>5
<1>7. g[Len(s)] = Total(all) /\ g[0] \in Nat
  BY <1>1, <1>3
<1> HIDE DEF g
<1>8. Total(s) \in Int /\ Total(s) <= g[Len(s)] - g[0]
  BY <1>1, <1>5, <1>6, TotalWithinRises
<1>9. Total(all) \in Nat
  BY TotalIsNat
<1> QED  BY <1>7, <1>8, <1>9

LEMMA SumOfLastRows ==
  ASSUME NEW S, NEW gone \in Seq(S), NEW book \in Seq(S),
         NEW column, \A r \in S : r[column] \in Nat, NEW vessel, NEW y
  PROVE  SumOf(book, column, vessel, y) <= SumOf(gone \o book, column, vessel, y)
<1> DEFINE Entry(r) == IF IsOf(r, vessel, y) THEN r[column] ELSE 0
           all == gone \o book
           s == [i \in DOMAIN book |-> Entry(book[i])]
           t == [i \in DOMAIN all |-> Entry(all[i])]
<1>1. /\ DOMAIN book = 1..Len(book) /\ Len(book) \in Nat /\ Len(gone) \in Nat
      /\ DOMAIN all = 1..(Len(gone) + Len(book)) /\ Len(all) = Len(gone) + Len(book)
      /\ \A i \in 1..Len(book) : book[i] \in S /\ all[Len(gone) + i] = book[i]
      /\ \A i \in 1..(Len(gone) + Len(book)) : all[i] \in S
  OBVIOUS
<1>2. \A r \in S : Entry(r) \in Nat
  OBVIOUS
<1> HIDE DEF Entry, all
<1>3. s \in [1..Len(book) -> Nat] /\ t \in [1..(Len(gone) + Len(book)) -> Nat]
  BY <1>1, <1>2
<1>4. \A i \in 1..Len(book) : t[Len(gone) + i] = s[i]
  BY <1>1
<1>5. SumOf(book, column, vessel, y) = Total(s) /\ SumOf(all, column, vessel, y) = Total(t)
  BY DEF SumOf, Entry
<1> HIDE DEF s, t
<1>6. /\ s \in Seq(Nat) /\ Len(s) = Len(book)
      /\ t \in Seq(Nat) /\ Len(t) = Len(gone) + Len(book)
  <2>1. s \in Seq(Nat) /\ Len(s) = Len(book)
    <3>1. Len(book) \in Nat
      BY <1>1
    <3>2. s \in [1..Len(book) -> Nat]
      BY <1>3
    <3> QED  BY <3>1, <3>2
  <2>2. Len(gone) + Len(book) \in Nat
    BY <1>1
  <2>3. t \in Seq(Nat) /\ Len(t) = Len(gone) + Len(book)
    BY <1>3, <2>2
  <2> QED  BY <2>1, <2>3
<1>7. Total(s) <= Total(t)
  BY <1>1, <1>4, <1>6, TotalOfLastRows
<1> QED  BY <1>5, <1>7 DEF all

-----------------------------------------------------------------------------
(* The rows that are written.                                              *)

\* The numbers of a voyage.
LEMMA VoyageNumbers ==
  ASSUME NEW v \in Voyages
  PROVE  /\ v.vessel \in Vessels /\ v.co2 \in Nat /\ v.work \in Nat /\ v.cargo \in Nat
         /\ FuelOf(v) \in Nat /\ EtsCo2(v) \in Nat
<1>1. v \in VoyageType
  BY LedgerAssumption
<1> DEFINE Fuel == {"VLSFO", "HFO", "ULSFO", "MGO", "LNG"} \X Nat
<1>2. v.fuels \in Seq(Fuel)
  BY <1>1 DEF VoyageType
<1>3. Len(v.fuels) \in Nat /\ DOMAIN v.fuels = 1..Len(v.fuels)
      /\ \A i \in 1..Len(v.fuels) : v.fuels[i] \in Fuel
  BY <1>2
<1>4. \A f \in Fuel : f[2] \in Nat /\ f[2] * EuEmissionFactor[f[1]] \in Nat
  <2>1. \A kind \in {"VLSFO", "HFO", "ULSFO", "MGO", "LNG"} : EuEmissionFactor[kind] \in Nat
    BY DEF EuEmissionFactor
  <2>2. \A m, n \in Nat : m * n \in Nat
    OBVIOUS
  <2> QED  BY <2>1, <2>2
<1> HIDE DEF Fuel
<1>5. FuelOf(v) \in Nat
  <2> DEFINE column == [i \in DOMAIN v.fuels |-> v.fuels[i][2]]
  <2>1. column \in [1..Len(v.fuels) -> Nat]
    BY <1>3, <1>4
  <2>2. column \in Seq(Nat)
    BY <1>3, <2>1
  <2> HIDE DEF column
  <2>3. Total(column) \in Nat
    BY <2>2, TotalIsNat
  <2> QED  BY <2>3 DEF FuelOf, column
<1>6. EtsCo2(v) \in Nat
  <2> DEFINE column == [i \in DOMAIN v.fuels |-> v.fuels[i][2] * EuEmissionFactor[v.fuels[i][1]]]
  <2>1. column \in [1..Len(v.fuels) -> Nat]
    BY <1>3, <1>4
  <2>2. column \in Seq(Nat)
    BY <1>3, <2>1
  <2> HIDE DEF column
  <2>3. Total(column) \in Nat
    BY <2>2, TotalIsNat
  <2> QED  BY <2>3 DEF EtsCo2, column
<1> QED  BY <1>1, <1>5, <1>6 DEF VoyageType

\* The types of the rows.
AssessmentRow ==
  [vessel : Vessels, year : Years, co2 : Nat, fuel : Nat, rating : Ratings,
   projected : Ratings \cup {"none"}]
EtsRow == [vessel : Vessels, year : Years, allocated : Nat]

LEMMA AssessmentIsRow ==
  ASSUME NEW vessel \in Vessels, NEW y \in Years
  PROVE  Assessment(vessel, y) \in AssessmentRow /\ Assessment(vessel, y).projected \in Ratings
<1> DEFINE own == {v \in Voyages : v.vessel = vessel /\ v.year = y}
           vs == VoyagesOf(vessel, y)
<1>1. vs \in Seq(Voyages)
  <2>1. IsFiniteSet(own) /\ own \subseteq Voyages
    BY LedgerAssumption, FS_Subset
  <2> HIDE DEF own
  <2>2. SetToSeq(own) \in Seq(Voyages)
    <3>1. SetToSeq(own) \in Seq(own)
      BY <2>1, Listed
    <3> QED  BY <2>1, <3>1
  <2> QED  BY <2>2 DEF VoyagesOf, own
<1> HIDE DEF vs, own
<1>2. Len(vs) \in Nat /\ DOMAIN vs = 1..Len(vs) /\ \A i \in 1..Len(vs) : vs[i] \in Voyages
  BY <1>1
<1>3. Total([i \in DOMAIN vs |-> vs[i].co2]) \in Nat
  <2> DEFINE column == [i \in DOMAIN vs |-> vs[i].co2]
  <2>1. column \in [1..Len(vs) -> Nat]
    BY <1>2, VoyageNumbers
  <2>2. column \in Seq(Nat)
    BY <1>2, <2>1
  <2> HIDE DEF column
  <2>3. Total(column) \in Nat
    BY <2>2, TotalIsNat
  <2> QED  BY <2>3 DEF column
<1>4. Total([i \in DOMAIN vs |-> FuelOf(vs[i])]) \in Nat
  <2> DEFINE column == [i \in DOMAIN vs |-> FuelOf(vs[i])]
  <2>1. column \in [1..Len(vs) -> Nat]
    BY <1>2, VoyageNumbers
  <2>2. column \in Seq(Nat)
    BY <1>2, <2>1
  <2> HIDE DEF column
  <2>3. Total(column) \in Nat
    BY <2>2, TotalIsNat
  <2> QED  BY <2>3 DEF column
<1>5. \A num, den, boundaries : Rate(num, den, boundaries) \in Ratings
  BY DEF Rate, Ratings
<1> QED  BY <1>3, <1>4, <1>5 DEF Assessment, AssessmentRow, vs

LEMMA ThisYearIsAYear ==
  ASSUME today \in DOMAIN Days
  PROVE  ThisYear \in Years
BY DEF ThisYear, Years

\* The rows the seeding appends.
LEMMA StaticIsRow ==
  ASSUME NEW figures \in [Vessels -> StaticFigures], NEW vessel \in Vessels
  PROVE  [vessel |-> vessel, year |-> StaticYear, co2 |-> figures[vessel].co2, fuel |-> 0,
          rating |-> figures[vessel].rating, projected |-> "none"] \in AssessmentRow
<1>1. StaticYear \in Years
  BY LedgerAssumption DEF Years, YearOf
<1>2. figures[vessel] \in [co2 : Nat, rating : Ratings]
  BY LedgerAssumption
<1> QED  BY <1>1, <1>2 DEF AssessmentRow

-----------------------------------------------------------------------------
(* Types.                                                                  *)

\* What a worker holds, by the statement it is at.
LEMMA TaskKinds ==
  ASSUME NEW t \in Task
  PROVE  /\ t.op \in {"summary", "surrender"} =>
              t \in [op : {"summary", "surrender"}, vessel : Vessels, year : Years, total : Int]
         /\ t.op \in {"dcs", "insert", "update"} =>
              t \in [op : {"dcs", "insert", "update"}, vessel : Vessels, year : Years, co2 : Int]
         /\ t.op = "fueleu" => t \in [op : {"fueleu"}, voyage : Voyages, left : SUBSET Nat]
         /\ t.op = "eexi" => t \in [op : {"eexi"}, vessel : Vessels, update : BOOLEAN]
         /\ t.op \in DOMAIN LedgerDeletes => t \in [op : DOMAIN LedgerDeletes, at : 1..9]
         /\ t.op = "none" => t = NoTask
BY DEF Task, NoTask, Seeding, LedgerDeletes

LEMMA BurntFuels ==
  ASSUME NEW v \in Voyages, NEW i \in Burnt(v)
  PROVE  i \in Nat /\ FuelRow(v, v.fuels[i]) \in [voyage : Voyages, energy : Nat, ghg : Nat]
<1> DEFINE Kinds == {"VLSFO", "HFO", "ULSFO", "MGO", "LNG"}
<1>1. v.fuels \in Seq(Kinds \X Nat)
  BY LedgerAssumption DEF VoyageType
<1>2. i \in Nat /\ v.fuels[i] \in Kinds \X Nat
  BY <1>1 DEF Burnt
<1>3. \A kind \in Kinds : EnergyContent[kind] \in Nat /\ WtwFactor[kind] \in Nat
  BY DEF EnergyContent, WtwFactor
<1> HIDE DEF Kinds
<1>4. \A f \in Kinds \X Nat : f[2] * EnergyContent[f[1]] \in Nat /\ f[2] * WtwFactor[f[1]] \in Nat
  <2>1. \A m, n \in Nat : m * n \in Nat
    OBVIOUS
  <2> QED  BY <1>3, <2>1
<1> QED  BY <1>2, <1>4 DEF FuelRow

\* The first of the places left.
LEMMA FirstOfPlaces ==
  ASSUME NEW S, S \subseteq Nat, S # {}
  PROVE  Min(S) \in S
<1>1. \E n \in S : \A m \in S : n <= m
  BY Least
<1> QED  BY <1>1 DEF Min

\* The books, and what is added to them.
FuelEuRow == [voyage : Voyages, energy : Nat, ghg : Nat]
BooksOK ==
  /\ assessments \in Seq(AssessmentRow) /\ etsRecords \in Seq(EtsRow)
  /\ fuelRecords \in Seq(FuelEuRow)
  /\ limits \in Seq([vessel : Vessels, pct : 10..100])
  /\ measures \in Seq([vessel : Vessels, year : Years])
  /\ today \in DOMAIN Days /\ halves \subseteq Voyages
  /\ sailing \in BOOLEAN /\ erased \in [cii : Seq(AssessmentRow), ets : Seq(EtsRow)]
TasksOK ==
  /\ task \in [Clerks -> Task]
  /\ \A w \in Clerks : task[w].op = "fueleu" =>
       task[w].left # {} /\ task[w].left \subseteq Burnt(task[w].voyage)
YearlyOK ==
  /\ dialect \in Dialects
  /\ surrender \subseteq [vessel : Vessels, year : Years, total : Int]
  /\ reports \subseteq [vessel : Vessels, year : Years, co2 : Int]
  /\ eexi \subseteq [vessel : Vessels, year : Years]

LEMMA TypeParts == LedgerTypeOK <=> BooksOK /\ TasksOK /\ YearlyOK
BY DEF LedgerTypeOK, BooksOK, TasksOK, YearlyOK, AssessmentRow, EtsRow, FuelEuRow

LEMMA Appending ==
  ASSUME NEW S, NEW gone \in Seq(S), NEW old \in Seq(S), NEW row \in S
  PROVE  Append(old, row) \in Seq(S) /\ Extends(gone \o Append(old, row), gone \o old)
BY DEF Extends

LEMMA Concatenating ==
  ASSUME NEW S, NEW gone \in Seq(S), NEW old \in Seq(S), NEW more \in Seq(S)
  PROVE  old \o more \in Seq(S) /\ Extends(gone \o (old \o more), gone \o old)
BY DEF Extends

\* Every step leaves the rows ever written as they are, or adds some: a row that is
\* deleted was written all the same.
BooksGrow ==
  /\ BooksOK' /\ Extends(EverAssessed', EverAssessed) /\ Extends(EverAllocated', EverAllocated)

LEMMA EverWritten ==
  ASSUME BooksOK
  PROVE  EverAssessed \in Seq(AssessmentRow) /\ EverAllocated \in Seq(EtsRow)
BY DEF BooksOK, EverAssessed, EverAllocated

LEMMA ExtendsItself ==
  ASSUME NEW S, NEW book \in Seq(S)
  PROVE  Extends(book, book) /\ Extends(book \o <<>>, book)
BY DEF Extends

LEMMA AssessedStays ==
  ASSUME BooksOK, UNCHANGED <<assessments, erased>>
  PROVE  Extends(EverAssessed', EverAssessed)
<1>1. EverAssessed' = EverAssessed
  BY DEF EverAssessed
<1> QED  BY <1>1, EverWritten, ExtendsItself

LEMMA AllocatedStays ==
  ASSUME BooksOK, UNCHANGED <<etsRecords, erased>>
  PROVE  Extends(EverAllocated', EverAllocated)
<1>1. EverAllocated' = EverAllocated
  BY DEF EverAllocated
<1> QED  BY <1>1, EverWritten, ExtendsItself

LEMMA Assessing ==
  ASSUME BooksOK, NEW more \in Seq(AssessmentRow), assessments' = assessments \o more,
         UNCHANGED <<etsRecords, fuelRecords, limits, measures, today, halves, demoed>>
  PROVE  BooksGrow
<1>1. erased.cii \in Seq(AssessmentRow) /\ assessments \in Seq(AssessmentRow)
      /\ erased' = erased /\ sailing' = sailing
  BY DEF BooksOK, demoed
<1>2. /\ assessments' \in Seq(AssessmentRow)
      /\ Extends(erased.cii \o (assessments \o more), erased.cii \o assessments)
  BY <1>1, Concatenating
<1>3. Extends(EverAssessed', EverAssessed)
  BY <1>1, <1>2 DEF EverAssessed
<1> QED  BY <1>1, <1>2, <1>3, AllocatedStays DEF BooksGrow, BooksOK

LEMMA BooksStep ==
  ASSUME BooksOK, TasksOK, [LedgerNext]_ledgerVars
  PROVE  BooksGrow
<1>1. ASSUME NEW y \in Years, CiiFleet(y) PROVE BooksGrow
  <2> DEFINE served == {vessel \in Vessels : HasWork(vessel, y)}
             fleet == SetToSeq(served)
  <2>1. fleet \in Seq(Vessels)
    <3>1. IsFiniteSet(served) /\ served \subseteq Vessels
      BY LedgerAssumption, FS_Subset
    <3> HIDE DEF served
    <3>2. SetToSeq(served) \in Seq(served)
      BY <3>1, Listed
    <3> QED  BY <3>1, <3>2
  <2>2. assessments' = assessments \o [i \in DOMAIN fleet |-> Assessment(fleet[i], y)]
    BY <1>1 DEF CiiFleet
  <2> HIDE DEF fleet
  <2>3. [i \in DOMAIN fleet |-> Assessment(fleet[i], y)] \in Seq(AssessmentRow)
    <3>1. /\ Len(fleet) \in Nat /\ DOMAIN fleet = 1..Len(fleet)
          /\ \A i \in 1..Len(fleet) : fleet[i] \in Vessels
      BY <2>1
    <3>2. [i \in DOMAIN fleet |-> Assessment(fleet[i], y)] \in [1..Len(fleet) -> AssessmentRow]
      BY <3>1, AssessmentIsRow
    <3> QED  BY <3>1, <3>2
  <2> QED  BY <1>1, <2>2, <2>3, Assessing DEF CiiFleet
<1>2. ASSUME NEW vessel \in Vessels, NEW y \in Years, CalculateCii(vessel, y) PROVE BooksGrow
  <2> DEFINE row == Assessment(vessel, y)
  <2>1. row \in AssessmentRow /\ assessments \in Seq(AssessmentRow)
    BY AssessmentIsRow DEF BooksOK
  <2>2. assessments' = Append(assessments, row)
    BY <1>2 DEF CalculateCii
  <2> HIDE DEF row
  <2>3. <<row>> \in Seq(AssessmentRow) /\ assessments' = assessments \o <<row>>
    BY <2>1, <2>2
  <2> QED  BY <1>2, <2>3, Assessing DEF CalculateCii
<1>2a. ASSUME NEW w \in Clerks, SeedCii(w) PROVE BooksGrow
  <2>1. PICK figures \in [Vessels -> StaticFigures] :
          LET fleet == SetToSeq(Vessels)
          IN assessments' = assessments \o
               [i \in DOMAIN fleet |->
                  [vessel |-> fleet[i], year |-> StaticYear, co2 |-> figures[fleet[i]].co2, fuel |-> 0,
                   rating |-> figures[fleet[i]].rating, projected |-> "none"]]
    BY <1>2a DEF SeedCii
  <2> DEFINE fleet == SetToSeq(Vessels)
             Row(vessel) == [vessel |-> vessel, year |-> StaticYear, co2 |-> figures[vessel].co2,
                             fuel |-> 0, rating |-> figures[vessel].rating, projected |-> "none"]
             more == [i \in DOMAIN fleet |-> Row(fleet[i])]
  <2>2. assessments' = assessments \o more
    BY <2>1
  <2>3. fleet \in Seq(Vessels)
    BY LedgerAssumption, Listed
  <2>4. \A vessel \in Vessels : Row(vessel) \in AssessmentRow
    BY StaticIsRow
  <2> HIDE DEF fleet, Row
  <2>5. more \in [1..Len(fleet) -> AssessmentRow] /\ Len(fleet) \in Nat
    BY <2>3, <2>4
  <2> HIDE DEF more
  <2>6. more \in Seq(AssessmentRow)
    BY <2>5
  <2> QED  BY <1>2a, <2>2, <2>6, Assessing DEF SeedCii
<1>3. ASSUME NEW v \in Voyages, CalculateEts(v) PROVE BooksGrow
  <2> DEFINE row == [vessel |-> v.vessel, year |-> ThisYear, allocated |-> EtsCo2(v) * AllocationPct(v)]
  <2>1. row \in EtsRow
    <3>1. AllocationPct(v) \in Nat
      BY DEF AllocationPct
    <3>2. EtsCo2(v) * AllocationPct(v) \in Nat
      BY <3>1, VoyageNumbers
    <3> QED  BY <3>2, VoyageNumbers, ThisYearIsAYear DEF EtsRow, BooksOK
  <2>2. etsRecords' = Append(etsRecords, row)
    BY <1>3 DEF CalculateEts
  <2> HIDE DEF row
  <2>3. etsRecords \in Seq(EtsRow) /\ erased.ets \in Seq(EtsRow)
        /\ UNCHANGED <<assessments, fuelRecords, limits, measures, sailing, erased, today, halves>>
    BY <1>3 DEF BooksOK, CalculateEts, demoed
  <2>4. /\ etsRecords' \in Seq(EtsRow)
        /\ Extends(erased.ets \o Append(etsRecords, row), erased.ets \o etsRecords)
    BY <2>1, <2>2, <2>3, Appending
  <2>5. Extends(EverAllocated', EverAllocated)
    BY <2>2, <2>3, <2>4 DEF EverAllocated
  <2> QED  BY <2>3, <2>4, <2>5, AssessedStays DEF BooksGrow, BooksOK
<1>4. ASSUME NEW w \in Clerks, WriteFuelRecord(w) PROVE BooksGrow
  <2> DEFINE t == task[w]
  <2>1. t.voyage \in Voyages /\ t.left # {} /\ t.left \subseteq Burnt(t.voyage) /\ t.left \subseteq Nat
    BY <1>4, TaskKinds DEF WriteFuelRecord, TasksOK
  <2>2. Min(t.left) \in Burnt(t.voyage)
    BY <2>1, FirstOfPlaces
  <2>3. FuelRow(t.voyage, t.voyage.fuels[Min(t.left)]) \in FuelEuRow
    BY <2>1, <2>2, BurntFuels DEF FuelEuRow
  <2>4. fuelRecords' \in Seq(FuelEuRow)
    BY <1>4, <2>3 DEF WriteFuelRecord, BooksOK
  <2>5. UNCHANGED <<assessments, etsRecords, limits, measures, sailing, erased, today, halves>>
    BY <1>4 DEF WriteFuelRecord, demoed
  <2> QED  BY <2>4, <2>5, AssessedStays, AllocatedStays DEF BooksGrow, BooksOK
<1>5. ASSUME NEW vessel \in Vessels, NEW pct \in Limits, ConfigureEpl(vessel, pct) PROVE BooksGrow
  <2>1. limits' \in Seq([vessel : Vessels, pct : 10..100])
    BY <1>5 DEF ConfigureEpl, BooksOK
  <2> QED  BY <1>5, <2>1, AssessedStays, AllocatedStays DEF ConfigureEpl, BooksGrow, BooksOK, demoed
<1>6. ASSUME NEW vessel \in Vessels, NEW y \in Years, AddMeasure(vessel, y) PROVE BooksGrow
  <2>1. measures' \in Seq([vessel : Vessels, year : Years])
    BY <1>6 DEF AddMeasure, BooksOK
  <2> QED  BY <1>6, <2>1, AssessedStays, AllocatedStays DEF AddMeasure, BooksGrow, BooksOK, demoed
<1>7. ASSUME UNCHANGED <<assessments, etsRecords, demoed>>, today' \in DOMAIN Days,
             halves' \subseteq Voyages, fuelRecords' = fuelRecords \/ fuelRecords' = <<>>,
             limits' = limits \/ limits' = <<>>, measures' = measures \/ measures' = <<>>
      PROVE  BooksGrow
  <2>1. /\ fuelRecords' \in Seq(FuelEuRow) /\ limits' \in Seq([vessel : Vessels, pct : 10..100])
        /\ measures' \in Seq([vessel : Vessels, year : Years])
    <3>1. ASSUME NEW S PROVE <<>> \in Seq(S)
      OBVIOUS
    <3>2. fuelRecords' \in Seq(FuelEuRow)
      BY <1>7, <3>1 DEF BooksOK
    <3>3. limits' \in Seq([vessel : Vessels, pct : 10..100])
      BY <1>7, <3>1 DEF BooksOK
    <3>4. measures' \in Seq([vessel : Vessels, year : Years])
      BY <1>7, <3>1 DEF BooksOK
    <3> QED  BY <3>2, <3>3, <3>4
  <2>2. BooksOK'
    BY <1>7, <2>1 DEF BooksOK, demoed
  <2>3. Extends(EverAssessed', EverAssessed) /\ Extends(EverAllocated', EverAllocated)
    BY <1>7, AssessedStays, AllocatedStays DEF demoed
  <2> QED  BY <2>2, <2>3 DEF BooksGrow
<1>8. CASE UNCHANGED <<records, demoed, today, halves>>
  <2>1. UNCHANGED <<assessments, etsRecords, fuelRecords, limits, measures, demoed, today, halves>>
    BY <1>8 DEF records
  <2> QED  BY <1>7, <2>1 DEF BooksOK
<1>9. CASE NextDay
  <2>1. today' \in DOMAIN Days
    <3>1. Len(Days) \in Nat /\ DOMAIN Days = 1..Len(Days)
      BY LedgerAssumption
    <3> QED  BY <1>9, <3>1 DEF NextDay, BooksOK
  <2>2. UNCHANGED <<assessments, etsRecords, fuelRecords, limits, measures, halves, demoed>>
    BY <1>9 DEF NextDay, records
  <2> QED  BY <1>7, <2>1, <2>2 DEF BooksOK
<1>10. ASSUME NEW w \in Clerks, DropTask(w) PROVE BooksGrow
  <2>1. task[w].op = "fueleu" => task[w].voyage \in Voyages
    BY TaskKinds DEF TasksOK
  <2>2. halves' \subseteq Voyages
    BY <1>10, <2>1 DEF DropTask, BooksOK
  <2>3. UNCHANGED <<assessments, etsRecords, fuelRecords, limits, measures, demoed, today>>
    BY <1>10 DEF DropTask, records
  <2> QED  BY <1>7, <2>2, <2>3 DEF BooksOK
<1>11. ASSUME NEW w \in Clerks, DemoDelete(w) PROVE BooksGrow
  <2>1. CASE EmptyCii(w)
    <3>1. /\ assessments' = <<>> /\ erased' = [erased EXCEPT !.cii = EverAssessed]
          /\ UNCHANGED <<etsRecords, fuelRecords, limits, measures, sailing, today, halves>>
      BY <2>1 DEF EmptyCii
    <3>2. /\ erased' \in [cii : Seq(AssessmentRow), ets : Seq(EtsRow)]
          /\ erased'.cii = EverAssessed /\ erased'.ets = erased.ets
      BY <3>1, EverWritten DEF BooksOK
    <3>3. Extends(EverAssessed \o <<>>, EverAssessed)
      BY EverWritten, ExtendsItself
    <3>4. Extends(EverAssessed', EverAssessed)
      <4>1. EverAssessed' = erased'.cii \o assessments'
        BY DEF EverAssessed
      <4> QED  BY <3>1, <3>2, <3>3, <4>1
    <3>5. Extends(EverAllocated', EverAllocated)
      <4>1. EverAllocated' = EverAllocated
        BY <3>1, <3>2 DEF EverAllocated
      <4> QED  BY <4>1, EverWritten, ExtendsItself
    <3> QED  BY <3>1, <3>2, <3>4, <3>5 DEF BooksGrow, BooksOK
  <2>2. CASE EmptyEts(w)
    <3>1. /\ etsRecords' = <<>> /\ erased' = [erased EXCEPT !.ets = EverAllocated]
          /\ UNCHANGED <<assessments, fuelRecords, limits, measures, sailing, today, halves>>
      BY <2>2 DEF EmptyEts
    <3>2. /\ erased' \in [cii : Seq(AssessmentRow), ets : Seq(EtsRow)]
          /\ erased'.ets = EverAllocated /\ erased'.cii = erased.cii
      BY <3>1, EverWritten DEF BooksOK
    <3>3. Extends(EverAllocated \o <<>>, EverAllocated)
      BY EverWritten, ExtendsItself
    <3>4. Extends(EverAllocated', EverAllocated)
      <4>1. EverAllocated' = erased'.ets \o etsRecords'
        BY DEF EverAllocated
      <4> QED  BY <3>1, <3>2, <3>3, <4>1
    <3>5. Extends(EverAssessed', EverAssessed)
      <4>1. EverAssessed' = EverAssessed
        BY <3>1, <3>2 DEF EverAssessed
      <4> QED  BY <4>1, EverWritten, ExtendsItself
    <3> QED  BY <3>1, <3>2, <3>4, <3>5 DEF BooksGrow, BooksOK
  <2>3. CASE EmptyFuelEu(w)
    <3>1. HalfAnswered \subseteq Voyages
      BY TaskKinds DEF HalfAnswered, TasksOK
    <3> QED  BY <1>7, <2>3, <3>1 DEF EmptyFuelEu, BooksOK
  <2>4. CASE EmptyEfficiency(w)
    BY <1>7, <2>4 DEF EmptyEfficiency, BooksOK
  <2>5. CASE EmptyTotals(w)
    BY <1>8, <2>5 DEF EmptyTotals
  <2>6. CASE EmptyVoyages(w)
    <3>1. /\ UNCHANGED <<assessments, etsRecords, fuelRecords, limits, measures, erased, today, halves>>
          /\ sailing' = FALSE
      BY <2>6 DEF EmptyVoyages, records
    <3> QED  BY <3>1, AssessedStays, AllocatedStays DEF BooksGrow, BooksOK
  <2> QED  BY <1>11, <2>1, <2>2, <2>3, <2>4, <2>5, <2>6 DEF DemoDelete
<1>12. CASE UNCHANGED ledgerVars
  BY <1>8, <1>12 DEF ledgerVars
<1>13. CASE CiiNext
  BY <1>1, <1>2, <1>8, <1>13, <1>2a DEF CiiNext, GatherDcs, LookForReport, WriteReport
<1>14. CASE EtsNext
  BY <1>3, <1>8, <1>14 DEF EtsNext, Summarise, LookForSurrender, WriteSurrender
<1>15. CASE FuelEuNext
  BY <1>4, <1>8, <1>15 DEF FuelEuNext, CalculateFuelEu
<1>17. CASE EfficiencyNext
  BY <1>5, <1>6, <1>8, <1>17 DEF EfficiencyNext, WriteEexi, LookForEexi
<1>18. CASE Elsewhere
  BY <1>8, <1>9, <1>10, <1>11, <1>18 DEF Elsewhere, DemoOnLedger
<1> QED  BY <1>12, <1>13, <1>14, <1>15, <1>17, <1>18 DEF LedgerNext

-----------------------------------------------------------------------------
(* What the workers hold and what is stored lags behind the books.         *)

\* The sum a task carries is at most what the books ets and cii add up to.
Covered(t, ets, cii) ==
  /\ t.op \in {"summary", "surrender"} => t.total <= SumOf(ets, "allocated", t.vessel, t.year)
  /\ t.op \in {"dcs", "insert", "update"} => t.co2 <= SumOf(cii, "co2", t.vessel, t.year)
TasksLagBehind == \A w \in Clerks : Covered(task[w], EverAllocated, EverAssessed)

LEMMA SumsGrow ==
  ASSUME BooksOK, BooksGrow, NEW vessel, NEW y
  PROVE  /\ SumOf(EverAllocated, "allocated", vessel, y) \in Nat
         /\ SumOf(EverAllocated', "allocated", vessel, y) \in Nat
         /\ SumOf(EverAllocated, "allocated", vessel, y) <= SumOf(EverAllocated', "allocated", vessel, y)
         /\ SumOf(EverAssessed, "co2", vessel, y) \in Nat
         /\ SumOf(EverAssessed', "co2", vessel, y) \in Nat
         /\ SumOf(EverAssessed, "co2", vessel, y) <= SumOf(EverAssessed', "co2", vessel, y)
<1> DEFINE ets == EverAllocated
           newEts == EverAllocated'
           cii == EverAssessed
           newCii == EverAssessed'
<1>1. ets \in Seq(EtsRow) /\ cii \in Seq(AssessmentRow)
  BY EverWritten
<1>2. newEts \in Seq(EtsRow) /\ newCii \in Seq(AssessmentRow)
  BY DEF BooksGrow, BooksOK, EverAssessed, EverAllocated
<1>3. Extends(newEts, ets) /\ Extends(newCii, cii)
  BY DEF BooksGrow
<1> HIDE DEF ets, newEts, cii, newCii
<1>4. Extends(newEts, newEts) /\ Extends(newCii, newCii)
  BY <1>2, ExtendsItself
<1>5. (\A r \in EtsRow : r["allocated"] \in Nat) /\ (\A r \in AssessmentRow : r["co2"] \in Nat)
  BY DEF EtsRow, AssessmentRow
<1>6. /\ SumOf(ets, "allocated", vessel, y) \in Nat /\ SumOf(newEts, "allocated", vessel, y) \in Nat
      /\ SumOf(ets, "allocated", vessel, y) <= SumOf(newEts, "allocated", vessel, y)
  BY <1>1, <1>2, <1>3, <1>4, <1>5, SumOfGrows
<1>7. /\ SumOf(cii, "co2", vessel, y) \in Nat /\ SumOf(newCii, "co2", vessel, y) \in Nat
      /\ SumOf(cii, "co2", vessel, y) <= SumOf(newCii, "co2", vessel, y)
  BY <1>1, <1>2, <1>3, <1>4, <1>5, SumOfGrows
<1> QED  BY <1>6, <1>7 DEF ets, newEts, cii, newCii

\* What a SELECT adds up now is at most what was ever written.
LEMMA SumsOfBooks ==
  ASSUME BooksOK, NEW vessel, NEW y
  PROVE  /\ SumOf(etsRecords, "allocated", vessel, y) \in Nat
         /\ SumOf(etsRecords, "allocated", vessel, y) <= SumOf(EverAllocated, "allocated", vessel, y)
         /\ SumOf(assessments, "co2", vessel, y) \in Nat
         /\ SumOf(assessments, "co2", vessel, y) <= SumOf(EverAssessed, "co2", vessel, y)
<1>1. /\ etsRecords \in Seq(EtsRow) /\ erased.ets \in Seq(EtsRow)
      /\ assessments \in Seq(AssessmentRow) /\ erased.cii \in Seq(AssessmentRow)
  BY DEF BooksOK
<1>2. (\A r \in EtsRow : r["allocated"] \in Nat) /\ (\A r \in AssessmentRow : r["co2"] \in Nat)
  BY DEF EtsRow, AssessmentRow
<1>3. Extends(etsRecords, etsRecords) /\ Extends(assessments, assessments)
  BY <1>1, ExtendsItself
<1>4. SumOf(etsRecords, "allocated", vessel, y) \in Nat
  BY <1>1, <1>2, <1>3, SumOfGrows
<1>5. SumOf(assessments, "co2", vessel, y) \in Nat
  BY <1>1, <1>2, <1>3, SumOfGrows
<1>6. SumOf(etsRecords, "allocated", vessel, y) <= SumOf(EverAllocated, "allocated", vessel, y)
  BY <1>1, <1>2, SumOfLastRows DEF EverAllocated
<1>7. SumOf(assessments, "co2", vessel, y) <= SumOf(EverAssessed, "co2", vessel, y)
  BY <1>1, <1>2, SumOfLastRows DEF EverAssessed
<1> QED  BY <1>4, <1>5, <1>6, <1>7

\* A step gives at most one worker another task, and that one fits the books.
Fits(t) ==
  /\ t \in Task
  /\ t.op = "fueleu" => t.left # {} /\ t.left \subseteq Burnt(t.voyage)
  /\ Covered(t, EverAllocated, EverAssessed)
TaskMoves == \/ task' = task
             \/ \E w \in Clerks : \E t : Fits(t) /\ task' = [task EXCEPT ![w] = t]

LEMMA NoTaskFits == Fits(NoTask) /\ Fits(Seeding)
BY DEF Fits, NoTask, Seeding, Task, Covered

\* A demo job goes on with its next table.
LEMMA NextTableFits ==
  ASSUME TasksOK, NEW w \in Clerks, NEW table, DeletesFrom(w, table), NextTable(w)
  PROVE  /\ task[w].op # "fueleu"
         /\ \E t : Fits(t) /\ t.op # "fueleu" /\ task' = [task EXCEPT ![w] = t]
<1> DEFINE next == [task[w] EXCEPT !.at = @ + 1]
<1>1. task[w] \in [op : DOMAIN LedgerDeletes, at : 1..9]
  BY TaskKinds DEF DeletesFrom, TasksOK
<1>2. /\ DOMAIN LedgerDeletes = {"generate", "reset"}
      /\ Len(LedgerDeletes["generate"]) = 9 /\ Len(LedgerDeletes["reset"]) = 9
  BY DEF LedgerDeletes
<1>3. task' = [task EXCEPT ![w] = IF task[w].at = 9 THEN NoTask ELSE next]
  <2>1. Len(LedgerDeletes[task[w].op]) = 9
    BY <1>1, <1>2
  <2> QED  BY <2>1 DEF NextTable
<1>4. ASSUME task[w].at # 9
      PROVE  next \in [op : DOMAIN LedgerDeletes, at : 1..9] /\ next.op \in {"generate", "reset"}
  BY <1>1, <1>2, <1>4
<1> HIDE DEF next
<1>5. task[w].at # 9 => Fits(next) /\ next.op # "fueleu"
  BY <1>4 DEF Fits, Task, Covered
<1>6. NoTask.op # "fueleu"
  BY DEF NoTask
<1>7. CASE task[w].at = 9
  BY <1>1, <1>2, <1>3, <1>6, <1>7, NoTaskFits
<1>8. CASE task[w].at # 9
  BY <1>1, <1>2, <1>3, <1>5, <1>8
<1> QED  BY <1>7, <1>8

LEMMA DemoDeleteFits ==
  ASSUME TasksOK, NEW w \in Clerks, DemoDelete(w)
  PROVE  /\ task[w].op # "fueleu"
         /\ \E t : Fits(t) /\ t.op # "fueleu" /\ task' = [task EXCEPT ![w] = t]
<1>1. \E table : DeletesFrom(w, table) /\ NextTable(w)
  BY DEF DemoDelete, EmptyCii, EmptyEts, EmptyFuelEu, EmptyEfficiency, EmptyTotals, EmptyVoyages
<1> QED  BY <1>1, NextTableFits

LEMMA TaskStep ==
  ASSUME BooksOK, BooksGrow, TasksOK, TasksLagBehind, [LedgerNext]_ledgerVars
  PROVE  TaskMoves
<1>1. ASSUME NEW w \in Clerks, task' = [task EXCEPT ![w] = NoTask] PROVE TaskMoves
  BY <1>1, NoTaskFits DEF TaskMoves
<1>2. ASSUME NEW w \in Clerks, NEW vessel \in Vessels, NEW y \in Years, GatherDcs(w, vessel, y)
      PROVE  TaskMoves
  <2> DEFINE t == [op |-> "dcs", vessel |-> vessel, year |-> y,
                   co2 |-> SumOf(assessments, "co2", vessel, y)]
  <2>1. /\ SumOf(assessments, "co2", vessel, y) \in Nat
        /\ SumOf(assessments, "co2", vessel, y) <= SumOf(EverAssessed, "co2", vessel, y)
    BY SumsOfBooks
  <2>2. Fits(t)
    BY <2>1 DEF Fits, Task, Covered
  <2> QED  BY <1>2, <2>2 DEF GatherDcs, TaskMoves
<1>3. ASSUME NEW w \in Clerks, LookForReport(w) PROVE TaskMoves
  <2> DEFINE t(kind) == [task[w] EXCEPT !.op = kind]
  <2>1. task[w] \in [op : {"dcs", "insert", "update"}, vessel : Vessels, year : Years, co2 : Int]
    BY <1>3, TaskKinds DEF LookForReport, TasksOK
  <2>2. Covered(task[w], EverAllocated, EverAssessed)
    BY DEF TasksLagBehind
  <2>3. ASSUME NEW kind \in {"insert", "update"} PROVE Fits(t(kind))
    <3>1. /\ t(kind) \in [op : {"dcs", "insert", "update"}, vessel : Vessels, year : Years, co2 : Int]
          /\ t(kind).op = kind /\ t(kind).vessel = task[w].vessel /\ t(kind).year = task[w].year
          /\ t(kind).co2 = task[w].co2
      BY <2>1
    <3> HIDE DEF t
    <3> QED  BY <1>3, <2>2, <3>1 DEF Fits, Task, Covered, LookForReport
  <2>4. \E kind \in {"insert", "update"} : task' = [task EXCEPT ![w] = t(kind)]
    BY <1>3 DEF LookForReport
  <2> HIDE DEF t
  <2> QED  BY <2>3, <2>4 DEF TaskMoves
<1>4. ASSUME NEW w \in Clerks, NEW vessel \in Vessels, NEW y \in Years, Summarise(w, vessel, y)
      PROVE  TaskMoves
  <2> DEFINE t == [op |-> "summary", vessel |-> vessel, year |-> y,
                   total |-> SumOf(etsRecords, "allocated", vessel, y)]
  <2>1. /\ SumOf(etsRecords, "allocated", vessel, y) \in Nat
        /\ SumOf(etsRecords, "allocated", vessel, y) <= SumOf(EverAllocated, "allocated", vessel, y)
    BY SumsOfBooks
  <2>2. Fits(t)
    BY <2>1 DEF Fits, Task, Covered
  <2> QED  BY <1>4, <2>2 DEF Summarise, TaskMoves, Allocated
<1>5. ASSUME NEW w \in Clerks, LookForSurrender(w) PROVE TaskMoves
  <2> DEFINE t == [task[w] EXCEPT !.op = "surrender"]
  <2>1. task[w] \in [op : {"summary", "surrender"}, vessel : Vessels, year : Years, total : Int]
    BY <1>5, TaskKinds DEF LookForSurrender, TasksOK
  <2>2. Covered(task[w], EverAllocated, EverAssessed)
    BY DEF TasksLagBehind
  <2>3. /\ t \in [op : {"summary", "surrender"}, vessel : Vessels, year : Years, total : Int]
        /\ t.op = "surrender" /\ t.vessel = task[w].vessel /\ t.year = task[w].year
        /\ t.total = task[w].total
    BY <2>1
  <2>4. task' = [task EXCEPT ![w] = NoTask] \/ task' = [task EXCEPT ![w] = t]
    BY <1>5 DEF LookForSurrender
  <2> HIDE DEF t
  <2>5. Fits(t)
    BY <1>5, <2>2, <2>3 DEF Fits, Task, Covered, LookForSurrender
  <2> QED  BY <1>1, <2>4, <2>5 DEF TaskMoves
<1>6. ASSUME NEW w \in Clerks, NEW v \in Voyages, CalculateFuelEu(w, v) PROVE TaskMoves
  <2> DEFINE t == [op |-> "fueleu", voyage |-> v, left |-> Burnt(v)]
  <2>1. Burnt(v) # {} /\ Burnt(v) \subseteq Nat
    BY <1>6, BurntFuels DEF CalculateFuelEu
  <2>2. Fits(t)
    BY <2>1 DEF Fits, Task, Covered
  <2> QED  BY <1>6, <2>2 DEF CalculateFuelEu, TaskMoves
<1>7. ASSUME NEW w \in Clerks, WriteFuelRecord(w) PROVE TaskMoves
  <2> DEFINE next == Min(task[w].left)
             t == [task[w] EXCEPT !.left = @ \ {next}]
  <2>1. /\ task[w] \in [op : {"fueleu"}, voyage : Voyages, left : SUBSET Nat]
        /\ task[w].left # {} /\ task[w].left \subseteq Burnt(task[w].voyage)
    BY <1>7, TaskKinds DEF WriteFuelRecord, TasksOK
  <2>2. task' = [task EXCEPT ![w] = NoTask]
        \/ (task[w].left # {next} /\ task' = [task EXCEPT ![w] = t])
    BY <1>7 DEF WriteFuelRecord
  <2>3. next \in task[w].left
    BY <2>1, FirstOfPlaces
  <2> HIDE DEF next
  <2>4. /\ t \in [op : {"fueleu"}, voyage : Voyages, left : SUBSET Nat]
        /\ t.op = "fueleu" /\ t.voyage = task[w].voyage /\ t.left = task[w].left \ {next}
    BY <2>1
  <2> HIDE DEF t
  <2>5. task[w].left # {next} => Fits(t)
    BY <2>1, <2>3, <2>4 DEF Fits, Task, Covered
  <2> QED  BY <1>1, <2>2, <2>5 DEF TaskMoves
<1>8. ASSUME NEW w \in Clerks, NEW vessel \in Vessels, LookForEexi(w, vessel) PROVE TaskMoves
  <2> DEFINE t(known) == [op |-> "eexi", vessel |-> vessel, update |-> known]
  <2>1. \A known \in BOOLEAN : Fits(t(known))
    BY DEF Fits, Task, Covered
  <2>2. \E known \in BOOLEAN : task' = [task EXCEPT ![w] = t(known)]
    BY <1>8 DEF LookForEexi
  <2> HIDE DEF t
  <2> QED  BY <2>1, <2>2 DEF TaskMoves
<1>9. CASE task' = task
  BY <1>9 DEF TaskMoves
<1>10. CASE CiiNext
  BY <1>1, <1>2, <1>3, <1>9, <1>10 DEF CiiNext, CiiFleet, CalculateCii, SeedCii, WriteReport
<1>11. CASE EtsNext
  BY <1>1, <1>4, <1>5, <1>9, <1>11 DEF EtsNext, CalculateEts, WriteSurrender
<1>12. CASE FuelEuNext
  BY <1>6, <1>7, <1>12 DEF FuelEuNext
<1>13. CASE EfficiencyNext
  BY <1>1, <1>8, <1>9, <1>13 DEF EfficiencyNext, ConfigureEpl, AddMeasure, WriteEexi
<1>14. ASSUME NEW w \in Clerks, NEW kind \in DOMAIN LedgerDeletes, DemoOnLedger(w, kind)
       PROVE  TaskMoves
  <2> DEFINE t == [op |-> kind, at |-> 1]
  <2>1. Fits(t)
    BY DEF Fits, Task, Covered, LedgerDeletes
  <2> QED  BY <1>14, <2>1 DEF DemoOnLedger, TaskMoves
<1>15. ASSUME NEW w \in Clerks, DemoDelete(w) PROVE TaskMoves
  BY <1>15, DemoDeleteFits DEF TaskMoves
<1>16. CASE Elsewhere
  BY <1>1, <1>9, <1>14, <1>15, <1>16 DEF Elsewhere, NextDay, DropTask
<1> QED  BY <1>9, <1>10, <1>11, <1>12, <1>13, <1>16 DEF LedgerNext, ledgerVars

LEMMA CoveredStays ==
  ASSUME BooksOK, BooksGrow, NEW t \in Task, Covered(t, EverAllocated, EverAssessed)
  PROVE  Covered(t, EverAllocated', EverAssessed')
<1>1. /\ t.op \in {"summary", "surrender"} => t.total \in Int
      /\ t.op \in {"dcs", "insert", "update"} => t.co2 \in Int
  BY TaskKinds
<1> QED  BY <1>1, SumsGrow DEF Covered

LEMMA TasksStep ==
  ASSUME BooksOK, BooksGrow, TasksOK, TasksLagBehind, [LedgerNext]_ledgerVars
  PROVE  TasksOK' /\ TasksLagBehind'
<1>1. TaskMoves
  BY TaskStep
<1>2. ASSUME NEW w \in Clerks PROVE Fits(task[w])
  BY <1>2 DEF Fits, TasksOK, TasksLagBehind
<1>3. task' \in [Clerks -> Task] /\ \A w \in Clerks : Fits(task'[w])
  <2>1. task' = task \/ \E u \in Clerks : \E t : Fits(t) /\ task' = [task EXCEPT ![u] = t]
    BY <1>1 DEF TaskMoves
  <2>2. task \in [Clerks -> Task] /\ \A t : Fits(t) => t \in Task
    BY DEF TasksOK, Fits
  <2> QED  BY <1>2, <2>1, <2>2
<1>4. \A w \in Clerks : Covered(task'[w], EverAllocated', EverAssessed')
  BY <1>3, CoveredStays DEF Fits
<1> QED  BY <1>3, <1>4 DEF Fits, TasksOK, TasksLagBehind

-----------------------------------------------------------------------------
(* What is stored.                                                         *)

\* The second half of StoredTotalsLagBehind, on power limits, needs no history.
LEMMA LimitsStayGood ==
  ASSUME BooksOK, NEW i \in DOMAIN limits, limits[i].pct < 100
  PROVE  EplCompliant(limits[i].vessel, limits[i].pct)
<1>1. limits[i] \in ToSet(limits) /\ limits[i].pct \in 10..100
  <2> DEFINE Row == [vessel : Vessels, pct : 10..100]
  <2>1. limits \in Seq(Row)
    BY DEF BooksOK
  <2>2. limits[i] \in Row
    <3> HIDE DEF Row
    <3> QED  BY <2>1
  <2>3. limits[i] \in ToSet(limits)
    BY DEF ToSet
  <2> QED  BY <2>2, <2>3
<1>2. limits[i].pct \in ActiveLimits(limits[i].vessel)
  BY <1>1 DEF ActiveLimits
<1>3. limits[i].pct <= limits[i].pct
  BY <1>1
<1> QED  BY <1>2, <1>3 DEF EplCompliant

Single(table) == \A r, q \in table : r.vessel = q.vessel /\ r.year = q.year => r = q
SurrenderOK ==
  /\ Single(surrender)
  /\ \A r \in surrender : r.total <= SumOf(EverAllocated, "allocated", r.vessel, r.year)
ReportsOK ==
  /\ Single(reports)
  /\ \A r \in reports : r.co2 <= SumOf(EverAssessed, "co2", r.vessel, r.year)

LEMMA StoredParts ==
  ASSUME BooksOK, YearlyOK
  PROVE  StoredTotalsLagBehind <=> SurrenderOK /\ ReportsOK
<1>1. Single(eexi)
  BY DEF YearlyOK, Single
<1> QED  BY <1>1, LimitsStayGood DEF StoredTotalsLagBehind, SurrenderOK, ReportsOK, Single

\* Rows of the same year make place for one that replaces them.
LEMMA Replacing ==
  ASSUME NEW table, Single(table), NEW t, NEW new, new.vessel = t.vessel, new.year = t.year
  PROVE  Single((table \ SameYear(table, t)) \cup {new})
BY DEF Single, SameYear, IsOf

LEMMA SurrenderStep ==
  ASSUME BooksOK, BooksGrow, TasksOK, TasksLagBehind, YearlyOK, SurrenderOK,
         [LedgerNext]_ledgerVars
  PROVE  /\ surrender' \subseteq [vessel : Vessels, year : Years, total : Int]
         /\ SurrenderOK'
<1> DEFINE Lag(table, book) == \A r \in table : r.total <= SumOf(book, "allocated", r.vessel, r.year)
<1>1. ASSUME NEW table \in SUBSET [vessel : Vessels, year : Years, total : Int],
             Lag(table, EverAllocated)
      PROVE  Lag(table, EverAllocated')
  <2>1. ASSUME NEW r \in table PROVE r.total <= SumOf(EverAllocated', "allocated", r.vessel, r.year)
    <3>1. r.total \in Int /\ r.total <= SumOf(EverAllocated, "allocated", r.vessel, r.year)
      BY <1>1
    <3> QED  BY <3>1, SumsGrow
  <2> QED  BY <2>1
<1>2. ASSUME NEW w \in Clerks, WriteSurrender(w)
      PROVE  /\ surrender' \subseteq [vessel : Vessels, year : Years, total : Int]
             /\ Single(surrender') /\ Lag(surrender', EverAllocated)
  <2> DEFINE t == task[w]
             new == [vessel |-> t.vessel, year |-> t.year, total |-> t.total]
  <2>1. t \in [op : {"summary", "surrender"}, vessel : Vessels, year : Years, total : Int]
    BY <1>2, TaskKinds DEF WriteSurrender, TasksOK
  <2>2. t.total <= SumOf(EverAllocated, "allocated", t.vessel, t.year)
    BY <1>2 DEF WriteSurrender, TasksLagBehind, Covered
  <2>3. surrender' = surrender \/ surrender' = (surrender \ SameYear(surrender, t)) \cup {new}
    BY <1>2 DEF WriteSurrender
  <2>4. /\ new \in [vessel : Vessels, year : Years, total : Int]
        /\ new.vessel = t.vessel /\ new.year = t.year /\ new.total = t.total
    BY <2>1
  <2> HIDE DEF t, new
  <2>5. Single((surrender \ SameYear(surrender, t)) \cup {new})
    BY <2>4, Replacing DEF SurrenderOK
  <2> QED  BY <2>2, <2>3, <2>4, <2>5 DEF YearlyOK, SurrenderOK
<1>3. CASE surrender' = surrender
  BY <1>1, <1>3 DEF YearlyOK, SurrenderOK
<1>4. surrender' = surrender \/ surrender' = {} \/ \E w \in Clerks : WriteSurrender(w)
  BY DEF LedgerNext, CiiNext, EtsNext, FuelEuNext, EfficiencyNext, Elsewhere, CiiFleet, CalculateCii,
         SeedCii, GatherDcs, LookForReport, WriteReport, CalculateEts, Summarise, LookForSurrender,
         WriteFuelRecord, CalculateFuelEu, ConfigureEpl, AddMeasure, WriteEexi, LookForEexi, NextDay,
         DropTask, DemoOnLedger, DemoDelete, EmptyCii, EmptyEts, EmptyFuelEu, EmptyEfficiency,
         EmptyTotals, EmptyVoyages, yearly, ledgerVars
<1>6. CASE surrender' = {}
  BY <1>6 DEF SurrenderOK, Single
<1> HIDE DEF Lag
<1>5. CASE \E w \in Clerks : WriteSurrender(w)
  <2>1. /\ surrender' \subseteq [vessel : Vessels, year : Years, total : Int]
        /\ Single(surrender') /\ Lag(surrender', EverAllocated')
    BY <1>1, <1>2, <1>5
  <2> QED  BY <2>1 DEF SurrenderOK, Single, Lag
<1> QED  BY <1>3, <1>4, <1>5, <1>6

LEMMA ReportsStep ==
  ASSUME BooksOK, BooksGrow, TasksOK, TasksLagBehind, YearlyOK, ReportsOK,
         [LedgerNext]_ledgerVars
  PROVE  /\ reports' \subseteq [vessel : Vessels, year : Years, co2 : Int]
         /\ ReportsOK'
<1> DEFINE Lag(table, book) == \A r \in table : r.co2 <= SumOf(book, "co2", r.vessel, r.year)
<1>1. ASSUME NEW table \in SUBSET [vessel : Vessels, year : Years, co2 : Int],
             Lag(table, EverAssessed)
      PROVE  Lag(table, EverAssessed')
  <2>1. ASSUME NEW r \in table PROVE r.co2 <= SumOf(EverAssessed', "co2", r.vessel, r.year)
    <3>1. r.co2 \in Int /\ r.co2 <= SumOf(EverAssessed, "co2", r.vessel, r.year)
      BY <1>1
    <3> QED  BY <3>1, SumsGrow
  <2> QED  BY <2>1
<1>2. ASSUME NEW w \in Clerks, WriteReport(w)
      PROVE  /\ reports' \subseteq [vessel : Vessels, year : Years, co2 : Int]
             /\ Single(reports') /\ Lag(reports', EverAssessed)
  <2> DEFINE t == task[w]
             new == [vessel |-> t.vessel, year |-> t.year, co2 |-> t.co2]
  <2>1. t \in [op : {"dcs", "insert", "update"}, vessel : Vessels, year : Years, co2 : Int]
    BY <1>2, TaskKinds DEF WriteReport, TasksOK
  <2>2. t.co2 <= SumOf(EverAssessed, "co2", t.vessel, t.year)
    BY <1>2 DEF WriteReport, TasksLagBehind, Covered
  <2>3. reports' = reports \/ (SameYear(reports, t) = {} /\ reports' = reports \cup {new})
    BY <1>2 DEF WriteReport
  <2>4. /\ new \in [vessel : Vessels, year : Years, co2 : Int]
        /\ new.vessel = t.vessel /\ new.year = t.year /\ new.co2 = t.co2
    BY <2>1
  <2> HIDE DEF t, new
  <2>5. SameYear(reports, t) = {} => Single(reports \cup {new})
    BY <2>4 DEF ReportsOK, Single, SameYear, IsOf
  <2> QED  BY <2>2, <2>3, <2>4, <2>5 DEF YearlyOK, ReportsOK
<1>3. CASE reports' = reports
  BY <1>1, <1>3 DEF YearlyOK, ReportsOK
<1>4. reports' = reports \/ reports' = {} \/ \E w \in Clerks : WriteReport(w)
  BY DEF LedgerNext, CiiNext, EtsNext, FuelEuNext, EfficiencyNext, Elsewhere, CiiFleet, CalculateCii,
         SeedCii, GatherDcs, LookForReport, CalculateEts, Summarise, LookForSurrender, WriteSurrender,
         WriteFuelRecord, CalculateFuelEu, ConfigureEpl, AddMeasure, WriteEexi, LookForEexi, NextDay,
         DropTask, DemoOnLedger, DemoDelete, EmptyCii, EmptyEts, EmptyFuelEu, EmptyEfficiency,
         EmptyTotals, EmptyVoyages, yearly, ledgerVars
<1>6. CASE reports' = {}
  BY <1>6 DEF ReportsOK, Single
<1> HIDE DEF Lag
<1>5. CASE \E w \in Clerks : WriteReport(w)
  <2>1. /\ reports' \subseteq [vessel : Vessels, year : Years, co2 : Int]
        /\ Single(reports') /\ Lag(reports', EverAssessed')
    BY <1>1, <1>2, <1>5
  <2> QED  BY <2>1 DEF ReportsOK, Single, Lag
<1> QED  BY <1>3, <1>4, <1>5, <1>6

LEMMA RestStep ==
  ASSUME BooksOK, TasksOK, YearlyOK, [LedgerNext]_ledgerVars
  PROVE  dialect' \in Dialects /\ eexi' \subseteq [vessel : Vessels, year : Years]
<1>1. ASSUME NEW w \in Clerks, WriteEexi(w) PROVE eexi' \subseteq [vessel : Vessels, year : Years]
  <2>1. task[w].vessel \in Vessels
    BY <1>1, TaskKinds DEF WriteEexi, TasksOK
  <2>2. [vessel |-> task[w].vessel, year |-> ThisYear] \in [vessel : Vessels, year : Years]
    BY <2>1, ThisYearIsAYear DEF BooksOK
  <2> QED  BY <1>1, <2>2 DEF WriteEexi, YearlyOK
<1>2. dialect' = dialect /\ (eexi' = eexi \/ eexi' = {} \/ \E w \in Clerks : WriteEexi(w))
  BY DEF LedgerNext, CiiNext, EtsNext, FuelEuNext, EfficiencyNext, Elsewhere, CiiFleet, CalculateCii,
         SeedCii, GatherDcs, LookForReport, WriteReport, CalculateEts, Summarise, LookForSurrender,
         WriteSurrender, WriteFuelRecord, CalculateFuelEu, ConfigureEpl, AddMeasure, WriteEexi,
         LookForEexi, NextDay, DropTask, DemoOnLedger, DemoDelete, EmptyCii, EmptyEts, EmptyFuelEu,
         EmptyEfficiency, EmptyTotals, EmptyVoyages, yearly, ledgerVars
<1> QED  BY <1>1, <1>2 DEF YearlyOK

-----------------------------------------------------------------------------
(* The theorems.                                                           *)
LedgerInv == LedgerTypeOK /\ TasksLagBehind /\ StoredTotalsLagBehind

LEMMA LedgerInitially == LedgerInit => LedgerInv
<1> SUFFICES ASSUME LedgerInit PROVE LedgerInv
  OBVIOUS
<1>1. BooksOK
  BY LedgerAssumption DEF LedgerInit, BooksOK
<1>2. YearlyOK /\ SurrenderOK /\ ReportsOK
  BY DEF LedgerInit, YearlyOK, SurrenderOK, ReportsOK, Single
<1>3. TasksOK /\ TasksLagBehind
  <2>1. task \in [Clerks -> {NoTask, Seeding}]
    BY DEF LedgerInit
  <2> QED  BY <2>1, NoTaskFits DEF TasksOK, TasksLagBehind, Fits
<1> QED  BY <1>1, <1>2, <1>3, TypeParts, StoredParts DEF LedgerInv

LEMMA LedgerInductive == LedgerInv /\ [LedgerNext]_ledgerVars => LedgerInv'
<1> SUFFICES ASSUME LedgerInv, [LedgerNext]_ledgerVars PROVE LedgerInv'
  OBVIOUS
<1>1. BooksOK /\ TasksOK /\ YearlyOK /\ TasksLagBehind /\ SurrenderOK /\ ReportsOK
  BY TypeParts, StoredParts DEF LedgerInv
<1>2. BooksGrow
  BY <1>1, BooksStep
<1>3. TasksOK' /\ TasksLagBehind'
  BY <1>1, <1>2, TasksStep
<1>4. YearlyOK'
  BY <1>1, <1>2, SurrenderStep, ReportsStep, RestStep DEF YearlyOK
<1>5. SurrenderOK' /\ ReportsOK'
  BY <1>1, <1>2, SurrenderStep, ReportsStep
<1>6. LedgerTypeOK' <=> BooksOK' /\ TasksOK' /\ YearlyOK'
  BY TypeParts, PTL
<1>7. BooksOK' /\ YearlyOK' => (StoredTotalsLagBehind' <=> SurrenderOK' /\ ReportsOK')
  BY StoredParts, PTL
<1> QED  BY <1>2, <1>3, <1>4, <1>5, <1>6, <1>7 DEF LedgerInv, BooksGrow

LEMMA LedgerInvariant == LedgerSpec => []LedgerInv
BY LedgerInitially, LedgerInductive, PTL DEF LedgerSpec

\* Every row, task and figure of the ledger is of its type for any fleet and any
\* number of workers: in particular a FuelEU request that is under way has a fuel
\* left to write, and the sum of any book is a number.
THEOREM LedgerTypeCorrect == LedgerSpec => []LedgerTypeOK
BY LedgerInvariant, PTL DEF LedgerInv

\* However many workers interleave their SELECTs and INSERTs with the DELETEs of demo
\* jobs, and wherever one is killed, a vessel has one surrender obligation and one DCS
\* report of a year, each at most what the rows written by then add up to
\* (eu_ets_annual_summary, generate_dcs_report), and a power limit once configured
\* stays good.
THEOREM TotalsLagBehind == LedgerSpec => []StoredTotalsLagBehind
BY LedgerInvariant, PTL DEF LedgerInv

-----------------------------------------------------------------------------
(* The annual FuelEU answer.                                               *)
Columns == {"energy", "ghg"}

\* What a request t still has to write of a column, for voyages of W; the workers in
\* some order; and what is written and still to be written together.
ColumnOf(column, v, left) ==
  [i \in DOMAIN v.fuels |-> IF i \in left THEN FuelRow(v, v.fuels[i])[column] ELSE 0]
Outstanding(column, t) == Total(ColumnOf(column, t.voyage, t.left))
Owed(column, t, W) == IF t.op = "fueleu" /\ t.voyage \in W THEN Outstanding(column, t) ELSE 0
Order == SetToSeq(Clerks)
OwedColumn(column, tasks, W) == [k \in DOMAIN Order |-> Owed(column, tasks[Order[k]], W)]
OwedByAll(column, tasks, W) == Total(OwedColumn(column, tasks, W))
WrittenColumn(column, book, W) ==
  [i \in DOMAIN book |-> IF book[i].voyage \in W THEN book[i][column] ELSE 0]
WrittenTo(column, book, W) == Total(WrittenColumn(column, book, W))
Due(column, book, tasks, W) == WrittenTo(column, book, W) + OwedByAll(column, tasks, W)

\* Whatever voyages one takes, none of them cut short and each within the limit: what
\* is due for them is within it, however often each was asked for.
Balanced ==
  \A W \in SUBSET Voyages, limit \in Int :
    W \cap halves = {} /\ (\A v \in W : VoyageCompliant(v, limit)) =>
      Due("ghg", fuelRecords, task, W) * 1000 <= limit * Due("energy", fuelRecords, task, W)

LEMMA FuelRowNumbers ==
  ASSUME NEW v \in Voyages, NEW column \in Columns
  PROVE  /\ v.fuels \in Seq({"VLSFO", "HFO", "ULSFO", "MGO", "LNG"} \X Nat)
         /\ \A i \in 1..Len(v.fuels) :
              /\ FuelRow(v, v.fuels[i])[column] \in Nat
              /\ v.fuels[i][2] \in Nat
              /\ v.fuels[i][2] > 0 => FuelRow(v, v.fuels[i])[column] > 0
              /\ v.fuels[i][2] = 0 => FuelRow(v, v.fuels[i])[column] = 0
<1> DEFINE Kinds == {"VLSFO", "HFO", "ULSFO", "MGO", "LNG"}
<1>1. v.fuels \in Seq(Kinds \X Nat)
  BY LedgerAssumption DEF VoyageType
<1>2. \A kind \in Kinds : /\ EnergyContent[kind] \in Nat /\ EnergyContent[kind] > 0
                          /\ WtwFactor[kind] \in Nat /\ WtwFactor[kind] > 0
  BY DEF EnergyContent, WtwFactor
<1>3. \A m, n \in Nat : /\ m * n \in Nat /\ 0 * n = 0 /\ (m > 0 /\ n > 0 => m * n > 0)
  OBVIOUS
<1> HIDE DEF Kinds
<1>4. ASSUME NEW i \in 1..Len(v.fuels)
      PROVE  /\ FuelRow(v, v.fuels[i])[column] \in Nat
             /\ v.fuels[i][2] \in Nat
             /\ v.fuels[i][2] > 0 => FuelRow(v, v.fuels[i])[column] > 0
             /\ v.fuels[i][2] = 0 => FuelRow(v, v.fuels[i])[column] = 0
  <2>1. v.fuels[i] \in Kinds \X Nat
    BY <1>1
  <2> DEFINE kind == v.fuels[i][1]
             n == v.fuels[i][2]
  <2>2. kind \in Kinds /\ n \in Nat
    BY <2>1
  <2>3. FuelRow(v, v.fuels[i])[column] = n * EnergyContent[kind]
        \/ FuelRow(v, v.fuels[i])[column] = n * WtwFactor[kind]
    <3>1. FuelRow(v, v.fuels[i]) = [voyage |-> v, energy |-> n * EnergyContent[kind],
                                    ghg |-> n * WtwFactor[kind]]
      BY Zenon DEF FuelRow
    <3> HIDE DEF kind, n
    <3>2. /\ FuelRow(v, v.fuels[i])["energy"] = n * EnergyContent[kind]
          /\ FuelRow(v, v.fuels[i])["ghg"] = n * WtwFactor[kind]
      BY <3>1
    <3> QED  BY <3>2 DEF Columns
  <2> HIDE DEF kind, n
  <2>4. /\ FuelRow(v, v.fuels[i])[column] \in Nat
        /\ n > 0 => FuelRow(v, v.fuels[i])[column] > 0
        /\ n = 0 => FuelRow(v, v.fuels[i])[column] = 0
    BY <1>2, <1>3, <2>2, <2>3
  <2> QED  BY <2>2, <2>4 DEF n
<1> QED  BY <1>1, <1>4 DEF Kinds

LEMMA OutstandingColumn ==
  ASSUME NEW v \in Voyages, NEW column \in Columns, NEW left
  PROVE  /\ ColumnOf(column, v, left) \in Seq(Nat) /\ ColumnOf(column, v, left) \in Seq(Int)
         /\ Len(ColumnOf(column, v, left)) = Len(v.fuels)
<1> DEFINE s == ColumnOf(column, v, left)
<1>1. Len(v.fuels) \in Nat /\ DOMAIN v.fuels = 1..Len(v.fuels)
  BY FuelRowNumbers
<1>2. s \in [1..Len(v.fuels) -> Nat]
  BY <1>1, FuelRowNumbers DEF ColumnOf
<1> HIDE DEF s
<1>3. s \in Seq(Nat) /\ s \in Seq(Int) /\ Len(s) = Len(v.fuels)
  BY <1>1, <1>2
<1> QED  BY <1>3 DEF s

LEMMA OwedIsNat ==
  ASSUME NEW t \in Task, NEW column \in Columns, NEW W
  PROVE  /\ t.op = "fueleu" => t.voyage \in Voyages
         /\ Owed(column, t, W) \in Nat
<1>1. t.op = "fueleu" => t.voyage \in Voyages
  BY TaskKinds
<1>2. t.op = "fueleu" => Outstanding(column, t) \in Nat
  BY <1>1, OutstandingColumn, TotalIsNat DEF Outstanding
<1> QED  BY <1>1, <1>2 DEF Owed

\* One place less to write is that row less to write.
LEMMA OnePlaceLess ==
  ASSUME NEW v \in Voyages, NEW column \in Columns, NEW left, NEW i \in left \cap (1..Len(v.fuels)),
         NEW t, t.voyage = v, t.left = left, NEW u, u.voyage = v, u.left = left \ {i}
  PROVE  Outstanding(column, t) = Outstanding(column, u) + FuelRow(v, v.fuels[i])[column]
<1> DEFINE more == ColumnOf(column, v, left)
           less == ColumnOf(column, v, left \ {i})
<1>1. /\ more \in Seq(Int) /\ Len(more) = Len(v.fuels)
      /\ less \in Seq(Int) /\ Len(less) = Len(v.fuels)
  BY OutstandingColumn
<1>2. DOMAIN v.fuels = 1..Len(v.fuels) /\ Len(v.fuels) \in Nat
  BY FuelRowNumbers
<1>3. /\ more[i] = FuelRow(v, v.fuels[i])[column] /\ less[i] = 0
      /\ \A j \in 1..Len(v.fuels) : j # i => more[j] = less[j]
  BY <1>2 DEF ColumnOf
<1>4. Outstanding(column, t) = Total(more) /\ Outstanding(column, u) = Total(less)
  BY DEF Outstanding
<1>5. FuelRow(v, v.fuels[i])[column] \in Nat
  BY FuelRowNumbers
<1> HIDE DEF more, less
<1>6. Total(less) \in Int /\ Total(more) = Total(less) + more[i] - less[i]
  BY <1>1, <1>3, TotalOfOneChanged
<1> QED  BY <1>3, <1>4, <1>5, <1>6

\* With all fuels burnt left, it is the voyage's sum, which is not nothing.
LEMMA AllPlacesLeft ==
  ASSUME NEW v \in Voyages, NEW column \in Columns, NEW t, t.voyage = v, t.left = Burnt(v)
  PROVE  /\ Outstanding(column, t) = VoyageSum(column, v)
         /\ VoyageSum(column, v) \in Nat
         /\ Burnt(v) # {} => VoyageSum(column, v) > 0
<1> DEFINE s == [i \in DOMAIN v.fuels |-> FuelRow(v, v.fuels[i])[column]]
<1>1. DOMAIN v.fuels = 1..Len(v.fuels) /\ Len(v.fuels) \in Nat
  BY FuelRowNumbers
<1>2. ASSUME NEW i \in DOMAIN v.fuels
      PROVE  s[i] = IF i \in Burnt(v) THEN FuelRow(v, v.fuels[i])[column] ELSE 0
  BY <1>1, FuelRowNumbers DEF Burnt
<1>3. s = ColumnOf(column, v, Burnt(v))
  BY <1>2 DEF ColumnOf
<1>4. s \in Seq(Nat) /\ Len(s) = Len(v.fuels)
  BY <1>3, OutstandingColumn
<1>5. Outstanding(column, t) = Total(s) /\ VoyageSum(column, v) = Total(s)
  BY <1>3 DEF Outstanding, VoyageSum
<1>6. Burnt(v) # {} => \E i \in 1..Len(s) : s[i] > 0
  BY <1>1, <1>4, FuelRowNumbers DEF Burnt
<1> HIDE DEF s
<1> QED  BY <1>4, <1>5, <1>6, TotalIsNat, TotalIsPositive

LEMMA ClerksInOrder ==
  /\ Order \in Seq(Clerks) /\ Len(Order) \in Nat /\ DOMAIN Order = 1..Len(Order)
  /\ \A w \in Clerks : \E k \in 1..Len(Order) : Order[k] = w
  /\ \A j, k \in 1..Len(Order) : Order[j] = Order[k] => j = k
BY LedgerAssumption, Listed DEF Order

LEMMA OwedColumnType ==
  ASSUME NEW tasks \in [Clerks -> Task], NEW column \in Columns, NEW W
  PROVE  /\ OwedColumn(column, tasks, W) \in Seq(Nat) /\ OwedColumn(column, tasks, W) \in Seq(Int)
         /\ Len(OwedColumn(column, tasks, W)) = Len(Order)
         /\ OwedByAll(column, tasks, W) \in Nat
<1> DEFINE s == OwedColumn(column, tasks, W)
<1>1. \A k \in 1..Len(Order) : Order[k] \in Clerks
  BY ClerksInOrder
<1>2. s \in [1..Len(Order) -> Nat]
  <2>1. \A k \in 1..Len(Order) : Owed(column, tasks[Order[k]], W) \in Nat
    BY <1>1, OwedIsNat
  <2>2. DOMAIN Order = 1..Len(Order)
    BY ClerksInOrder
  <2> QED  BY <2>1, <2>2 DEF OwedColumn
<1> HIDE DEF s
<1>3. s \in Seq(Nat) /\ s \in Seq(Int) /\ Len(s) = Len(Order)
  <2>1. Len(Order) \in Nat
    BY ClerksInOrder
  <2> QED  BY <1>2, <2>1
<1>4. Total(s) \in Nat
  BY <1>3, TotalIsNat
<1> QED  BY <1>3, <1>4 DEF s, OwedByAll

\* One worker has another task.
LEMMA OwedChanges ==
  ASSUME NEW tasks \in [Clerks -> Task], NEW w \in Clerks, NEW t \in Task,
         NEW column \in Columns, NEW W
  PROVE  OwedByAll(column, [tasks EXCEPT ![w] = t], W)
           = OwedByAll(column, tasks, W) + Owed(column, t, W) - Owed(column, tasks[w], W)
<1> DEFINE after == [tasks EXCEPT ![w] = t]
           s == OwedColumn(column, tasks, W)
           u == OwedColumn(column, after, W)
<1>1. after \in [Clerks -> Task] /\ after[w] = t /\ \A x \in Clerks : x # w => after[x] = tasks[x]
  OBVIOUS
<1> HIDE DEF after
<1>2. /\ s \in Seq(Int) /\ Len(s) = Len(Order) /\ u \in Seq(Int) /\ Len(u) = Len(Order)
  BY <1>1, OwedColumnType
<1>3. PICK k \in 1..Len(Order) : Order[k] = w
  BY ClerksInOrder
<1>4. s[k] = Owed(column, tasks[w], W) /\ u[k] = Owed(column, t, W)
  BY <1>1, <1>3, ClerksInOrder DEF OwedColumn
<1>5. ASSUME NEW j \in 1..Len(Order), j # k PROVE u[j] = s[j]
  <2>1. Order[j] \in Clerks /\ Order[j] # w
    BY <1>3, <1>5, ClerksInOrder
  <2>2. after[Order[j]] = tasks[Order[j]]
    BY <1>1, <2>1
  <2> QED  BY <2>2, ClerksInOrder DEF OwedColumn
<1> HIDE DEF s, u
<1>6. Total(u) = Total(s) + u[k] - s[k]
  BY <1>2, <1>3, <1>5, TotalOfOneChanged
<1> QED  BY <1>4, <1>6 DEF OwedByAll, s, u, after

LEMMA WrittenIsNat ==
  ASSUME NEW book \in Seq(FuelEuRow), NEW column \in Columns, NEW W
  PROVE  /\ \A r \in FuelEuRow : r[column] \in Nat
         /\ WrittenColumn(column, book, W) \in Seq(Nat)
         /\ Len(WrittenColumn(column, book, W)) = Len(book)
         /\ WrittenTo(column, book, W) \in Nat
<1> DEFINE s == WrittenColumn(column, book, W)
<1>1. DOMAIN book = 1..Len(book) /\ Len(book) \in Nat /\ \A i \in 1..Len(book) : book[i] \in FuelEuRow
  OBVIOUS
<1>2. \A r \in FuelEuRow : r[column] \in Nat
  <2>1. \A r \in FuelEuRow : r["energy"] \in Nat /\ r["ghg"] \in Nat
    BY DEF FuelEuRow
  <2> QED  BY <2>1 DEF Columns
<1>3. s \in [1..Len(book) -> Nat]
  <2>1. \A i \in 1..Len(book) : (IF book[i].voyage \in W THEN book[i][column] ELSE 0) \in Nat
    BY <1>1, <1>2
  <2> QED  BY <1>1, <2>1 DEF WrittenColumn
<1> HIDE DEF s
<1>4. s \in Seq(Nat) /\ Len(s) = Len(book)
  BY <1>1, <1>3
<1>5. Total(s) \in Nat
  BY <1>4, TotalIsNat
<1> QED  BY <1>2, <1>4, <1>5 DEF s, WrittenTo

\* One row more is written.
LEMMA WrittenGrows ==
  ASSUME NEW book \in Seq(FuelEuRow), NEW row \in FuelEuRow, NEW column \in Columns, NEW W
  PROVE  WrittenTo(column, Append(book, row), W)
           = WrittenTo(column, book, W) + IF row.voyage \in W THEN row[column] ELSE 0
<1> DEFINE s == WrittenColumn(column, book, W)
           n == IF row.voyage \in W THEN row[column] ELSE 0
           u == WrittenColumn(column, Append(book, row), W)
<1>1. DOMAIN book = 1..Len(book) /\ Len(book) \in Nat
  OBVIOUS
<1>2. s \in Seq(Nat) /\ Len(s) = Len(book) /\ row[column] \in Nat
  BY WrittenIsNat
<1>3. n \in Nat /\ n \in Int
  BY <1>2
<1>4. /\ DOMAIN Append(book, row) = 1..Len(book) + 1
      /\ Append(book, row)[Len(book) + 1] = row
      /\ \A i \in 1..Len(book) : Append(book, row)[i] = book[i]
  BY <1>1
<1>5. u = [i \in 1..Len(book) + 1 |-> IF i = Len(book) + 1 THEN n ELSE s[i]]
  BY <1>1, <1>4 DEF WrittenColumn
<1> HIDE DEF s, n, u
<1>6. s \in Seq(Nat) /\ s \in Seq(Int) /\ Len(s) = Len(book)
  BY <1>2
<1>7. u = Append(s, n)
  <2> DEFINE v == Append(s, n)
  <2>1. v \in Seq(Nat) /\ Len(v) = Len(book) + 1
    BY <1>3, <1>6
  <2>2. \A i \in 1..Len(book) + 1 : v[i] = IF i = Len(book) + 1 THEN n ELSE s[i]
    BY <1>1, <1>3, <1>6
  <2>3. v = [i \in 1..Len(book) + 1 |-> v[i]]
    <3> HIDE DEF v
    <3> QED  BY <2>1
  <2> HIDE DEF v
  <2>4. v = u
    BY <1>5, <2>2, <2>3
  <2> QED  BY <2>4 DEF v
<1>8. Total(s) \in Nat /\ Total(u) = Total(s) + n
  BY <1>3, <1>6, <1>7, TotalIsNat, TotalOfOneMore
<1> QED  BY <1>8 DEF s, n, u, WrittenTo

\* What leaves the FuelEU book alone also leaves what is due, but for voyages cut short.
Quiet ==
  /\ fuelRecords' = fuelRecords /\ halves \subseteq halves'
  /\ \A w \in Clerks : task'[w] # task[w] =>
       /\ task'[w].op # "fueleu"
       /\ task[w].op = "fueleu" => task[w].voyage \in halves'

LEMMA QuietKeepsBalance ==
  ASSUME Balanced, Quiet
  PROVE  Balanced'
<1>1. ASSUME NEW W \in SUBSET Voyages, W \cap halves' = {}, NEW column
      PROVE  Due(column, fuelRecords', task', W) = Due(column, fuelRecords, task, W)
  <2>1. ASSUME NEW w \in Clerks PROVE Owed(column, task'[w], W) = Owed(column, task[w], W)
    BY <1>1 DEF Quiet, Owed
  <2>2. \A k \in DOMAIN Order : Order[k] \in Clerks
    BY ClerksInOrder
  <2>3. OwedColumn(column, task', W) = OwedColumn(column, task, W)
    BY <2>1, <2>2 DEF OwedColumn
  <2> QED  BY <2>3 DEF Due, OwedByAll, Quiet
<1>2. \A W \in SUBSET Voyages : W \cap halves' = {} => W \cap halves = {}
  BY DEF Quiet
<1>3. ASSUME NEW W \in SUBSET Voyages, NEW limit \in Int, W \cap halves' = {},
             \A v \in W : VoyageCompliant(v, limit)
      PROVE  Due("ghg", fuelRecords', task', W) * 1000 <= limit * Due("energy", fuelRecords', task', W)
  <2>1. Due("ghg", fuelRecords, task, W) * 1000 <= limit * Due("energy", fuelRecords, task, W)
    BY <1>2, <1>3 DEF Balanced
  <2>2. /\ Due("ghg", fuelRecords', task', W) = Due("ghg", fuelRecords, task, W)
        /\ Due("energy", fuelRecords', task', W) = Due("energy", fuelRecords, task, W)
    BY <1>1, <1>3
  <2> QED  BY <2>1, <2>2
<1> QED  BY <1>3 DEF Balanced

\* A request owes what is within the limit if its voyage is.
LEMMA RequestKeepsBalance ==
  ASSUME TasksOK, BooksOK, Balanced, NEW w \in Clerks, NEW v \in Voyages, CalculateFuelEu(w, v)
  PROVE  Balanced'
<1> DEFINE t == [op |-> "fueleu", voyage |-> v, left |-> Burnt(v)]
<1>1. /\ task[w] = NoTask /\ Burnt(v) # {} /\ task' = [task EXCEPT ![w] = t]
      /\ fuelRecords' = fuelRecords /\ halves' = halves
  BY DEF CalculateFuelEu, records
<1>2. t \in Task /\ t.voyage = v /\ t.left = Burnt(v) /\ t.op = "fueleu"
  <2>1. Burnt(v) \subseteq Nat
    BY BurntFuels
  <2> QED  BY <2>1 DEF Task
<1>3. task \in [Clerks -> Task] /\ fuelRecords \in Seq(FuelEuRow)
  BY DEF TasksOK, BooksOK
<1> HIDE DEF t
<1>4. ASSUME NEW W \in SUBSET Voyages, NEW column \in Columns
      PROVE  /\ Due(column, fuelRecords, task, W) \in Nat
             /\ Due(column, fuelRecords', task', W)
                  = Due(column, fuelRecords, task, W) + IF v \in W THEN VoyageSum(column, v) ELSE 0
  <2>1. OwedByAll(column, task', W)
          = OwedByAll(column, task, W) + Owed(column, t, W) - Owed(column, task[w], W)
    <3>1. OwedByAll(column, [task EXCEPT ![w] = t], W)
            = OwedByAll(column, task, W) + Owed(column, t, W) - Owed(column, task[w], W)
      <4>1. task \in [Clerks -> Task] /\ t \in Task
        BY <1>2, <1>3
      <4> QED  BY <4>1, OwedChanges, Zenon
    <3> QED  BY <1>1, <3>1
  <2>2. Owed(column, task[w], W) = 0
    BY <1>1 DEF Owed, NoTask
  <2>3. Owed(column, t, W) = (IF v \in W THEN VoyageSum(column, v) ELSE 0) /\ VoyageSum(column, v) \in Nat
    <3>1. Outstanding(column, t) = VoyageSum(column, v) /\ VoyageSum(column, v) \in Nat
      BY <1>2, AllPlacesLeft
    <3> QED  BY <1>2, <3>1 DEF Owed
  <2>4. OwedByAll(column, task, W) \in Nat
    BY <1>3, OwedColumnType
  <2>5. WrittenTo(column, fuelRecords, W) \in Nat
    BY <1>3, WrittenIsNat
  <2>6. WrittenTo(column, fuelRecords', W) = WrittenTo(column, fuelRecords, W)
    BY <1>1
  <2> QED  BY <2>1, <2>2, <2>3, <2>4, <2>5, <2>6 DEF Due
<1>5. ASSUME NEW W \in SUBSET Voyages, NEW limit \in Int, W \cap halves' = {},
             \A x \in W : VoyageCompliant(x, limit)
      PROVE  Due("ghg", fuelRecords', task', W) * 1000 <= limit * Due("energy", fuelRecords', task', W)
  <2>1. Due("ghg", fuelRecords, task, W) * 1000 <= limit * Due("energy", fuelRecords, task, W)
    BY <1>1, <1>5 DEF Balanced
  <2>2. "ghg" \in Columns /\ "energy" \in Columns
    BY DEF Columns
  <2>3. VoyageSum("energy", v) \in Nat /\ VoyageSum("ghg", v) \in Nat /\ VoyageSum("energy", v) > 0
    BY <1>1, <1>2, <2>2, AllPlacesLeft
  <2>4. v \in W => VoyageSum("ghg", v) * 1000 <= limit * VoyageSum("energy", v)
    BY <1>5, <2>3 DEF VoyageCompliant, WithinLimit
  <2>5. \A a, b, g, e \in Int : a * 1000 <= limit * b /\ g * 1000 <= limit * e =>
                               (a + g) * 1000 <= limit * (b + e)
    <3>1. ASSUME NEW a \in Int, NEW b \in Int, NEW g \in Int, NEW e \in Int
          PROVE  limit * (b + e) = limit * b + limit * e /\ limit * b \in Int /\ limit * e \in Int
      OBVIOUS
    <3> QED  BY <3>1
  <2>6. CASE v \in W
    BY <1>4, <2>1, <2>2, <2>3, <2>4, <2>5, <2>6
  <2>7. CASE v \notin W
    <3>1. /\ Due("ghg", fuelRecords', task', W) = Due("ghg", fuelRecords, task, W)
          /\ Due("energy", fuelRecords', task', W) = Due("energy", fuelRecords, task, W)
      BY <1>4, <2>2, <2>7
    <3> QED  BY <2>1, <3>1
  <2> QED  BY <2>6, <2>7
<1> QED  BY <1>5 DEF Balanced

\* What is written is no longer owed.
LEMMA WriteKeepsBalance ==
  ASSUME TasksOK, BooksOK, Balanced, NEW w \in Clerks, WriteFuelRecord(w)
  PROVE  Balanced'
<1> DEFINE t == task[w]
           v == task[w].voyage
           next == Min(task[w].left)
           row == FuelRow(v, v.fuels[next])
<1>1. /\ t \in [op : {"fueleu"}, voyage : Voyages, left : SUBSET Nat]
      /\ t.left # {} /\ t.left \subseteq Burnt(v) /\ t \in Task
  BY TaskKinds DEF WriteFuelRecord, TasksOK
<1>2. /\ fuelRecords' = Append(fuelRecords, row) /\ halves' = halves
      /\ task' = [task EXCEPT ![w] = IF t.left = {next} THEN NoTask ELSE [t EXCEPT !.left = @ \ {next}]]
  BY DEF WriteFuelRecord
<1>3. /\ v \in Voyages /\ next \in t.left /\ next \in Burnt(v) /\ next \in 1..Len(v.fuels)
      /\ row \in FuelEuRow /\ row.voyage = v
  <2>1. v \in Voyages /\ next \in t.left
    BY <1>1, FirstOfPlaces
  <2>2. next \in Burnt(v)
    BY <1>1, <2>1
  <2>3. row \in FuelEuRow
    BY <2>1, <2>2, BurntFuels DEF FuelEuRow
  <2>4. row.voyage = v
    BY DEF FuelRow
  <2>5. DOMAIN v.fuels = 1..Len(v.fuels)
    BY <2>1, LedgerAssumption DEF VoyageType
  <2> QED  BY <2>1, <2>2, <2>3, <2>4, <2>5 DEF Burnt
<1>4. task \in [Clerks -> Task] /\ fuelRecords \in Seq(FuelEuRow)
  BY DEF TasksOK, BooksOK
<1>5. PICK u \in Task :
      /\ \/ t.left = {next} /\ u = NoTask
         \/ t.left # {next} /\ u.op = "fueleu" /\ u.voyage = v /\ u.left = t.left \ {next}
      /\ task' = [task EXCEPT ![w] = u]
  <2> DEFINE less == [t EXCEPT !.left = @ \ {next}]
  <2>1. /\ less \in [op : {"fueleu"}, voyage : Voyages, left : SUBSET Nat]
        /\ less.op = "fueleu" /\ less.voyage = v /\ less.left = t.left \ {next}
    BY <1>1
  <2>2. less \in Task /\ NoTask \in Task
    BY <2>1 DEF Task
  <2>3. task' = [task EXCEPT ![w] = IF t.left = {next} THEN NoTask ELSE less]
    BY <1>2
  <2> HIDE DEF less, next, t, v
  <2>4. CASE t.left = {next}
    BY <2>2, <2>3, <2>4
  <2>5. CASE t.left # {next}
    BY <2>1, <2>2, <2>3, <2>5
  <2> QED  BY <2>4, <2>5
<1> HIDE DEF t, v, next, row
<1>6. ASSUME NEW W \in SUBSET Voyages, NEW column \in Columns
      PROVE  Due(column, fuelRecords', task', W) = Due(column, fuelRecords, task, W)
  <2>1. OwedByAll(column, task', W)
          = OwedByAll(column, task, W) + Owed(column, u, W) - Owed(column, t, W)
    <3>1. OwedByAll(column, [task EXCEPT ![w] = u], W)
            = OwedByAll(column, task, W) + Owed(column, u, W) - Owed(column, task[w], W)
      <4>1. task \in [Clerks -> Task] /\ u \in Task
        BY <1>4, <1>5
      <4> QED  BY <4>1, OwedChanges, Zenon
    <3>2. task' = [task EXCEPT ![w] = u] /\ t = task[w]
      BY <1>5 DEF t
    <3> QED  BY <3>1, <3>2
  <2>2. /\ WrittenTo(column, fuelRecords, W) \in Nat
        /\ WrittenTo(column, fuelRecords', W)
             = WrittenTo(column, fuelRecords, W) + IF v \in W THEN row[column] ELSE 0
    BY <1>2, <1>3, <1>4, WrittenIsNat, WrittenGrows
  <2>3. OwedByAll(column, task, W) \in Nat
    BY <1>4, OwedColumnType
  <2>4. Owed(column, t, W) \in Nat /\ Owed(column, u, W) \in Nat
    BY <1>1, <1>5, OwedIsNat
  <2>5. row[column] \in Nat
    BY <1>3, FuelRowNumbers DEF row
  <2>6. Owed(column, t, W) = Owed(column, u, W) + IF v \in W THEN row[column] ELSE 0
    <3>1. t.op = "fueleu" /\ t.voyage = v
      BY <1>1 DEF v, t
    <3>2. ASSUME NEW z, z.voyage = v, z.left = t.left \ {next}
          PROVE  Outstanding(column, t) = Outstanding(column, z) + row[column]
      BY <1>3, <3>1, <3>2, OnePlaceLess DEF row
    <3>3. CASE u = NoTask /\ t.left = {next}
      <4> DEFINE z == [voyage |-> v, left |-> {}]
      <4>1. z.voyage = v /\ z.left = t.left \ {next}
        BY <3>3
      <4>2. Outstanding(column, z) = 0
        <5> DEFINE s == ColumnOf(column, v, {})
        <5>1. s \in Seq(Int) /\ Len(s) = Len(v.fuels)
          BY <1>3, OutstandingColumn
        <5>2. \A i \in 1..Len(s) : s[i] = 0
          <6>1. DOMAIN v.fuels = 1..Len(v.fuels)
            BY <1>3, FuelRowNumbers
          <6> QED  BY <5>1, <6>1 DEF ColumnOf
        <5> HIDE DEF s
        <5>3. Total(s) = 0
          BY <5>1, <5>2, TotalOfZeros
        <5> QED  BY <5>3 DEF Outstanding, s
      <4> HIDE DEF z
      <4>3. Outstanding(column, t) = row[column]
        BY <2>5, <3>2, <4>1, <4>2
      <4>4. Owed(column, u, W) = 0
        BY <3>3 DEF Owed, NoTask
      <4> QED  BY <2>5, <3>1, <4>3, <4>4 DEF Owed
    <3>4. CASE u.op = "fueleu" /\ u.voyage = v /\ u.left = t.left \ {next}
      <4>1. Outstanding(column, t) = Outstanding(column, u) + row[column]
        BY <3>2, <3>4
      <4> QED  BY <3>1, <3>4, <4>1 DEF Owed
    <3> QED  BY <1>5, <3>3, <3>4
  <2> QED  BY <2>1, <2>2, <2>3, <2>4, <2>5, <2>6 DEF Due
<1>7. ASSUME NEW W \in SUBSET Voyages, NEW limit \in Int, W \cap halves' = {},
             \A x \in W : VoyageCompliant(x, limit)
      PROVE  Due("ghg", fuelRecords', task', W) * 1000 <= limit * Due("energy", fuelRecords', task', W)
  <2>1. Due("ghg", fuelRecords, task, W) * 1000 <= limit * Due("energy", fuelRecords, task, W)
    BY <1>2, <1>7 DEF Balanced
  <2>2. /\ Due("ghg", fuelRecords', task', W) = Due("ghg", fuelRecords, task, W)
        /\ Due("energy", fuelRecords', task', W) = Due("energy", fuelRecords, task, W)
    <3>1. "ghg" \in Columns /\ "energy" \in Columns
      BY DEF Columns
    <3> QED  BY <1>6, <3>1
  <2> QED  BY <2>1, <2>2
<1> QED  BY <1>7 DEF Balanced

LEMMA OneTaskQuiet ==
  ASSUME TasksOK, NEW w \in Clerks, NEW u, task' = [task EXCEPT ![w] = u], u.op # "fueleu",
         fuelRecords' = fuelRecords, halves \subseteq halves',
         task[w].op = "fueleu" => task[w].voyage \in halves'
  PROVE  Quiet
<1>1. task'[w] = u /\ \A x \in Clerks : x # w => task'[x] = task[x]
  BY DEF TasksOK
<1> QED  BY <1>1 DEF Quiet

LEMMA QuietSteps ==
  ASSUME TasksOK, [LedgerNext]_ledgerVars
  PROVE  \/ Quiet
         \/ \E w \in Clerks : WriteFuelRecord(w) \/ EmptyFuelEu(w)
         \/ \E w \in Clerks, v \in Voyages : CalculateFuelEu(w, v)
<1>1. ASSUME task' = task, fuelRecords' = fuelRecords, halves' = halves PROVE Quiet
  BY <1>1 DEF Quiet
<1>2. CASE UNCHANGED ledgerVars
  BY <1>1, <1>2 DEF ledgerVars, records
<1>3. CASE CiiNext
  <2>1. CASE \E y \in Years : CiiFleet(y)
    BY <1>1, <2>1 DEF CiiFleet
  <2>2. CASE \E vessel \in Vessels, y \in Years : CalculateCii(vessel, y)
    BY <1>1, <2>2 DEF CalculateCii
  <2>3. ASSUME NEW vessel \in Vessels, NEW y \in Years, NEW w \in Clerks, GatherDcs(w, vessel, y)
        PROVE  Quiet
    <3> DEFINE u == [op |-> "dcs", vessel |-> vessel, year |-> y,
                     co2 |-> SumOf(assessments, "co2", vessel, y)]
    <3>1. /\ task[w] = NoTask /\ task' = [task EXCEPT ![w] = u]
          /\ fuelRecords' = fuelRecords /\ halves' = halves
      BY <2>3 DEF GatherDcs, records
    <3>2. u.op # "fueleu" /\ task[w].op # "fueleu"
      BY <3>1 DEF NoTask
    <3> HIDE DEF u
    <3> QED  BY <3>1, <3>2, OneTaskQuiet
  <2>4. ASSUME NEW w \in Clerks, LookForReport(w) PROVE Quiet
    <3> DEFINE op == IF SameYear(reports, task[w]) # {} THEN "update" ELSE "insert"
               u == [task[w] EXCEPT !.op = op]
    <3>1. /\ task[w].op = "dcs" /\ task' = [task EXCEPT ![w].op = op]
          /\ fuelRecords' = fuelRecords /\ halves' = halves
      BY <2>4 DEF LookForReport, records
    <3>2. task[w] \in [op : {"dcs", "insert", "update"}, vessel : Vessels, year : Years, co2 : Int]
      BY <3>1, TaskKinds DEF TasksOK
    <3>3. op # "fueleu"
      OBVIOUS
    <3> HIDE DEF op
    <3>4. task' = [task EXCEPT ![w] = u] /\ u.op = op
      BY <3>1, <3>2
    <3> HIDE DEF u
    <3> QED  BY <3>1, <3>3, <3>4, OneTaskQuiet
  <2>5. ASSUME NEW w \in Clerks, WriteReport(w) PROVE Quiet
    <3>1. /\ task[w].op # "fueleu" /\ task' = [task EXCEPT ![w] = NoTask]
          /\ fuelRecords' = fuelRecords /\ halves' = halves /\ NoTask.op # "fueleu"
      BY <2>5 DEF WriteReport, records, NoTask
    <3> QED  BY <3>1, OneTaskQuiet
  <2>6. ASSUME NEW w \in Clerks, SeedCii(w) PROVE Quiet
    <3>1. /\ task[w].op # "fueleu" /\ task' = [task EXCEPT ![w] = NoTask]
          /\ fuelRecords' = fuelRecords /\ halves' = halves /\ NoTask.op # "fueleu"
      BY <2>6 DEF SeedCii, Seeding, NoTask
    <3> QED  BY <3>1, OneTaskQuiet
  <2> QED  BY <1>3, <2>1, <2>2, <2>3, <2>4, <2>5, <2>6 DEF CiiNext
<1>4. CASE EtsNext
  <2>1. CASE \E v \in Voyages : CalculateEts(v)
    BY <1>1, <2>1 DEF CalculateEts
  <2>2. ASSUME NEW w \in Clerks, NEW vessel \in Vessels, NEW y \in Years, Summarise(w, vessel, y)
        PROVE  Quiet
    <3> DEFINE u == [op |-> "summary", vessel |-> vessel, year |-> y, total |-> Allocated(vessel, y)]
    <3>1. /\ task[w] = NoTask /\ task' = [task EXCEPT ![w] = u]
          /\ fuelRecords' = fuelRecords /\ halves' = halves
      BY <2>2 DEF Summarise, records
    <3>2. u.op # "fueleu" /\ task[w].op # "fueleu"
      BY <3>1 DEF NoTask
    <3> HIDE DEF u
    <3> QED  BY <3>1, <3>2, OneTaskQuiet
  <2>3. ASSUME NEW w \in Clerks, LookForSurrender(w) PROVE Quiet
    <3> DEFINE u == IF SameYear(surrender, task[w]) # {} THEN NoTask
                    ELSE [task[w] EXCEPT !.op = "surrender"]
    <3>1. /\ task[w].op = "summary" /\ task' = [task EXCEPT ![w] = u]
          /\ fuelRecords' = fuelRecords /\ halves' = halves
      BY <2>3 DEF LookForSurrender, records
    <3>2. task[w] \in [op : {"summary", "surrender"}, vessel : Vessels, year : Years, total : Int]
      BY <3>1, TaskKinds DEF TasksOK
    <3>3. u.op # "fueleu"
      BY <3>2 DEF NoTask
    <3> HIDE DEF u
    <3> QED  BY <3>1, <3>3, OneTaskQuiet
  <2>4. ASSUME NEW w \in Clerks, WriteSurrender(w) PROVE Quiet
    <3>1. /\ task[w].op # "fueleu" /\ task' = [task EXCEPT ![w] = NoTask]
          /\ fuelRecords' = fuelRecords /\ halves' = halves /\ NoTask.op # "fueleu"
      BY <2>4 DEF WriteSurrender, records, NoTask
    <3> QED  BY <3>1, OneTaskQuiet
  <2> QED  BY <1>4, <2>1, <2>2, <2>3, <2>4 DEF EtsNext
<1>5. CASE FuelEuNext
  BY <1>5 DEF FuelEuNext
<1>6. CASE EfficiencyNext
  <2>1. CASE \E vessel \in Vessels, pct \in Limits : ConfigureEpl(vessel, pct)
    BY <1>1, <2>1 DEF ConfigureEpl
  <2>2. CASE \E vessel \in Vessels, y \in Years : AddMeasure(vessel, y)
    BY <1>1, <2>2 DEF AddMeasure
  <2>3. ASSUME NEW w \in Clerks, WriteEexi(w) PROVE Quiet
    <3>1. /\ task[w].op # "fueleu" /\ task' = [task EXCEPT ![w] = NoTask]
          /\ fuelRecords' = fuelRecords /\ halves' = halves /\ NoTask.op # "fueleu"
      BY <2>3 DEF WriteEexi, records, NoTask
    <3> QED  BY <3>1, OneTaskQuiet
  <2>4. ASSUME NEW w \in Clerks, NEW vessel \in Vessels, LookForEexi(w, vessel) PROVE Quiet
    <3> DEFINE own == {r \in eexi : r.vessel = vessel}
               u == [op |-> "eexi", vessel |-> vessel,
                     update |-> \E r \in own : r.year = ThisYear /\ \A q \in own : q.year <= r.year]
    <3>1. /\ task[w] = NoTask /\ task' = [task EXCEPT ![w] = u]
          /\ fuelRecords' = fuelRecords /\ halves' = halves
      BY <2>4 DEF LookForEexi, records
    <3>2. u.op # "fueleu" /\ task[w].op # "fueleu"
      BY <3>1 DEF NoTask
    <3> HIDE DEF u
    <3> QED  BY <3>1, <3>2, OneTaskQuiet
  <2> QED  BY <1>6, <2>1, <2>2, <2>3, <2>4 DEF EfficiencyNext
<1>7. CASE Elsewhere
  <2>1. CASE NextDay
    BY <1>1, <2>1 DEF NextDay, records
  <2>2. ASSUME NEW w \in Clerks, DropTask(w) PROVE Quiet
    <3>1. /\ task' = [task EXCEPT ![w] = NoTask] /\ fuelRecords' = fuelRecords
          /\ halves \subseteq halves' /\ NoTask.op # "fueleu"
          /\ task[w].op = "fueleu" => task[w].voyage \in halves'
      BY <2>2 DEF DropTask, records, NoTask
    <3> QED  BY <3>1, OneTaskQuiet
  <2>3. ASSUME NEW w \in Clerks, NEW kind \in DOMAIN LedgerDeletes, DemoOnLedger(w, kind)
        PROVE  Quiet
    <3> DEFINE u == [op |-> kind, at |-> 1]
    <3>1. /\ task[w] = NoTask /\ task' = [task EXCEPT ![w] = u]
          /\ fuelRecords' = fuelRecords /\ halves' = halves
      BY <2>3 DEF DemoOnLedger, records
    <3>2. u.op # "fueleu" /\ task[w].op # "fueleu"
      BY <3>1 DEF NoTask, LedgerDeletes
    <3> HIDE DEF u
    <3> QED  BY <3>1, <3>2, OneTaskQuiet
  <2>4. ASSUME NEW w \in Clerks, DemoDelete(w) PROVE Quiet \/ EmptyFuelEu(w)
    <3>1. \/ EmptyFuelEu(w)
          \/ fuelRecords' = fuelRecords /\ halves' = halves
      BY <2>4 DEF DemoDelete, EmptyCii, EmptyEts, EmptyEfficiency, EmptyTotals, EmptyVoyages, records
    <3> QED  BY <2>4, <3>1, DemoDeleteFits, OneTaskQuiet
  <2> QED  BY <1>7, <2>1, <2>2, <2>3, <2>4 DEF Elsewhere
<1> QED  BY <1>2, <1>3, <1>4, <1>5, <1>6, <1>7 DEF LedgerNext

\* A demo job empties the book: what is due for voyages of which no answer is half
\* written is what the requests under way owe, each of them a whole voyage.
LEMMA EmptyingKeepsBalance ==
  ASSUME TasksOK, BooksOK, Balanced, NEW w \in Clerks, EmptyFuelEu(w)
  PROVE  Balanced'
<1>1. PICK t : /\ Fits(t) /\ t.op # "fueleu" /\ task[w].op # "fueleu"
               /\ task' = [task EXCEPT ![w] = t]
  BY DemoDeleteFits DEF DemoDelete
<1>2. /\ fuelRecords' = <<>> /\ halves' = halves \cup HalfAnswered /\ task \in [Clerks -> Task]
      /\ task' \in [Clerks -> Task]
      /\ \A x \in Clerks : task'[x].op = "fueleu" => task'[x] = task[x]
  BY <1>1 DEF EmptyFuelEu, TasksOK, Fits
<1>3. SUFFICES ASSUME NEW W \in SUBSET Voyages, NEW limit \in Int, W \cap halves' = {},
                      \A v \in W : VoyageCompliant(v, limit)
               PROVE  Due("ghg", fuelRecords', task', W) * 1000
                        <= limit * Due("energy", fuelRecords', task', W)
  BY DEF Balanced
<1> DEFINE g == OwedColumn("ghg", task', W)
           e == OwedColumn("energy", task', W)
           n == Len(Order)
           gk == [k \in 1..n |-> g[k] * 1000]
           ek == [k \in 1..n |-> e[k] * limit]
<1>4. /\ g \in Seq(Int) /\ e \in Seq(Int) /\ Len(g) = n /\ Len(e) = n /\ n \in Nat
      /\ DOMAIN Order = 1..n /\ \A k \in 1..n : Order[k] \in Clerks
  BY <1>2, OwedColumnType, ClerksInOrder DEF Columns
<1>5. ASSUME NEW x \in Clerks
      PROVE  Owed("ghg", task'[x], W) * 1000 <= Owed("energy", task'[x], W) * limit
  <2>1. CASE task'[x].op = "fueleu" /\ task'[x].voyage \in W
    <3> DEFINE v == task'[x].voyage
    <3>1. v \in Voyages /\ task'[x].left = Burnt(v) /\ Burnt(v) # {}
      <4>1. task'[x] = task[x] /\ v \notin HalfAnswered /\ v \in Voyages
        BY <1>2, <1>3, <2>1
      <4>2. task[x].left = Burnt(task[x].voyage)
        BY <2>1, <4>1 DEF HalfAnswered
      <4> QED  BY <2>1, <4>1, <4>2 DEF TasksOK
    <3>2. \A column \in Columns : /\ Outstanding(column, task'[x]) = VoyageSum(column, v)
                                   /\ VoyageSum(column, v) \in Nat /\ VoyageSum(column, v) > 0
      BY <3>1, AllPlacesLeft
    <3>3. VoyageSum("ghg", v) * 1000 <= limit * VoyageSum("energy", v)
      BY <1>3, <2>1, <3>2 DEF VoyageCompliant, WithinLimit, Columns
    <3>4. /\ Owed("ghg", task'[x], W) = VoyageSum("ghg", v)
          /\ Owed("energy", task'[x], W) = VoyageSum("energy", v)
      BY <2>1, <3>2 DEF Owed, Columns
    <3>5. VoyageSum("energy", v) \in Nat
      BY <3>2 DEF Columns
    <3> HIDE DEF v
    <3> QED  BY <3>3, <3>4, <3>5
  <2>2. CASE ~(task'[x].op = "fueleu" /\ task'[x].voyage \in W)
    <3>1. Owed("ghg", task'[x], W) = 0 /\ Owed("energy", task'[x], W) = 0
      BY <2>2 DEF Owed
    <3> QED  BY <3>1
  <2> QED  BY <2>1, <2>2
<1>6. \A k \in 1..n : g[k] * 1000 <= e[k] * limit
  BY <1>4, <1>5 DEF OwedColumn
<1> HIDE DEF g, e, n
<1>7. /\ gk \in Seq(Int) /\ ek \in Seq(Int) /\ Len(gk) = n /\ Len(ek) = n
      /\ \A k \in 1..n : gk[k] = g[k] * 1000 /\ ek[k] = e[k] * limit /\ gk[k] <= ek[k]
  <2>1. \A k \in 1..n : g[k] \in Int /\ e[k] \in Int
    BY <1>4
  <2>2. \A a \in Int : a * 1000 \in Int /\ a * limit \in Int
    OBVIOUS
  <2>3. gk \in [1..n -> Int] /\ ek \in [1..n -> Int]
    BY <2>1, <2>2
  <2> QED  BY <1>4, <1>6, <2>3
<1> HIDE DEF gk, ek
<1>8. Total(g) * 1000 <= Total(e) * limit
  <2>1. Total(gk) = Total(g) * 1000
    <3>1. Len(gk) = Len(g) /\ g \in Seq(Int) /\ gk \in Seq(Int)
      BY <1>4, <1>7
    <3>2. ASSUME NEW m \in Int, \A k \in 1..Len(g) : gk[k] = g[k] * m
          PROVE  Total(gk) = Total(g) * m
      BY <3>1, <3>2, TotalOfMultiple, Zenon
    <3>3. 1000 \in Int /\ \A k \in 1..Len(g) : gk[k] = g[k] * 1000
      BY <1>4, <1>7
    <3> QED  BY <3>2, <3>3
  <2>3. Total(ek) = Total(e) * limit
    <3>1. /\ Len(ek) = Len(e) /\ \A k \in 1..Len(e) : ek[k] = e[k] * limit
          /\ e \in Seq(Int) /\ ek \in Seq(Int) /\ limit \in Int
      BY <1>4, <1>7
    <3> QED  BY <3>1, TotalOfMultiple, Zenon
  <2>2. Total(gk) <= Total(ek)
    BY <1>7, TotalIsMonotone
  <2> QED  BY <2>1, <2>2, <2>3
<1>9. /\ Due("ghg", fuelRecords', task', W) = Total(g)
      /\ Due("energy", fuelRecords', task', W) = Total(e)
      /\ Total(g) \in Int /\ Total(e) \in Int
  <2>1. \A column : WrittenTo(column, fuelRecords', W) = 0
    <3>1. Total(<<>>) = 0
      <4>1. <<>> \in Seq(Int) /\ 0 \in Int
        OBVIOUS
      <4> QED  BY <4>1, TotalOfOneMore
    <3> QED  BY <1>2, <3>1 DEF WrittenTo, WrittenColumn
  <2>2. Total(g) \in Int /\ Total(e) \in Int
    <3>1. (\A k \in 1..Len(g) : g[k] <= g[k]) /\ (\A k \in 1..Len(e) : e[k] <= e[k])
      BY <1>4
    <3> QED  BY <1>4, <3>1, TotalIsMonotone
  <2> QED  BY <2>1, <2>2 DEF Due, OwedByAll, g, e
<1>10. Total(g) * 1000 <= limit * Total(e)
  BY <1>8, <1>9
<1> QED  BY <1>9, <1>10

LEMMA BalanceStep ==
  ASSUME BooksOK, TasksOK, Balanced, [LedgerNext]_ledgerVars
  PROVE  Balanced'
<1>1. CASE Quiet
  BY <1>1, QuietKeepsBalance
<1>2. CASE \E w \in Clerks : WriteFuelRecord(w) \/ EmptyFuelEu(w)
  BY <1>2, WriteKeepsBalance, EmptyingKeepsBalance
<1>3. CASE \E w \in Clerks, v \in Voyages : CalculateFuelEu(w, v)
  BY <1>3, RequestKeepsBalance
<1> QED  BY <1>1, <1>2, <1>3, QuietSteps

\* What the rows of a book give is nothing without a row of these voyages, and what is
\* owed is nothing without a request for one.
LEMMA NothingOwed ==
  ASSUME NEW tasks \in [Clerks -> Task], NEW column \in Columns, NEW W,
         \A w \in Clerks : tasks[w].op = "fueleu" => tasks[w].voyage \notin W
  PROVE  OwedByAll(column, tasks, W) = 0
<1> DEFINE s == OwedColumn(column, tasks, W)
<1>1. s \in Seq(Int) /\ Len(s) = Len(Order)
  BY OwedColumnType
<1>2. \A w \in Clerks : Owed(column, tasks[w], W) = 0
  BY DEF Owed
<1>3. \A k \in 1..Len(Order) : Order[k] \in Clerks
  BY ClerksInOrder
<1>4. DOMAIN Order = 1..Len(Order)
  BY ClerksInOrder
<1>5. \A i \in 1..Len(s) : s[i] = 0
  BY <1>1, <1>2, <1>3, <1>4 DEF OwedColumn
<1> HIDE DEF s
<1>6. Total(s) = 0
  BY <1>1, <1>5, TotalOfZeros
<1> QED  BY <1>6 DEF s, OwedByAll

LEMMA BalancedInitially == LedgerInit => Balanced
<1> SUFFICES ASSUME LedgerInit PROVE Balanced
  OBVIOUS
<1>1. task \in [Clerks -> Task] /\ \A w \in Clerks : task[w].op # "fueleu"
  BY DEF LedgerInit, Task, NoTask, Seeding
<1>2. ASSUME NEW W, NEW column \in Columns PROVE Due(column, fuelRecords, task, W) = 0
  <2>1. OwedByAll(column, task, W) = 0
    BY <1>1, NothingOwed
  <2>2. fuelRecords = <<>>
    BY DEF LedgerInit
  <2>3. WrittenColumn(column, fuelRecords, W) = <<>>
    BY <2>2 DEF WrittenColumn
  <2>4. WrittenTo(column, fuelRecords, W) = 0
    <3>1. <<>> \in Seq(Int) /\ 0 \in Int
      OBVIOUS
    <3>2. Total(<<>>) = 0
      BY <3>1, TotalOfOneMore
    <3> QED  BY <2>3, <3>2 DEF WrittenTo
  <2> QED  BY <2>1, <2>4 DEF Due
<1>3. "ghg" \in Columns /\ "energy" \in Columns
  BY DEF Columns
<1>4. \A limit \in Int : 0 * 1000 <= limit * 0
  OBVIOUS
<1> QED  BY <1>2, <1>3, <1>4 DEF Balanced

LEMMA LimitIsNumber ==
  ASSUME NEW y \in Int
  PROVE  TrajectoryLimit(y) \in Int
<1> DEFINE Place(i) == Trajectory[i - 1][1] <= y /\ y <= Trajectory[i][1]
           chosen == CHOOSE i \in 2..Len(Trajectory) : Place(i)
           a == Trajectory[chosen - 1]
           b == Trajectory[chosen]
           span == b[1] - a[1]
           middle == a[2] - (2 * (y - a[1]) * (a[2] - b[2]) + span) \div (2 * span)
<1>1. Len(Trajectory) = 10
  BY DEF Trajectory
<1>2. \A i \in 2..10 : i = 2 \/ i = 3 \/ i = 4 \/ i = 5 \/ i = 6 \/ i = 7 \/ i = 8 \/ i = 9 \/ i = 10
  OBVIOUS
<1>3. \A i \in 1..10 : Trajectory[i][1] \in Int /\ Trajectory[i][2] \in Int
  BY DEF Trajectory
<1>4. \A i \in 2..10 : Trajectory[i][1] - Trajectory[i - 1][1] \in {1, 5}
  BY <1>2 DEF Trajectory
<1>5. y \in 2025..2050 => chosen \in 2..10
  <2> SUFFICES ASSUME y \in 2025..2050 PROVE \E i \in 2..10 : Place(i)
    BY <1>1
  <2>1. CASE y <= 2030
    <3>1. \/ Place(2) \/ Place(3) \/ Place(4) \/ Place(5) \/ Place(6)
      BY <2>1 DEF Trajectory
    <3> QED  BY <3>1
  <2>2. CASE y > 2030
    <3>1. Place(7) \/ Place(8) \/ Place(9) \/ Place(10)
      BY <2>2 DEF Trajectory
    <3> QED  BY <3>1
  <2> QED  BY <2>1, <2>2
<1>6. ASSUME y \in 2025..2050
      PROVE  middle \in Int
  <2>1. a[1] \in Int /\ a[2] \in Int /\ b[2] \in Int /\ b[1] - a[1] \in {1, 5}
    <3> HIDE DEF chosen
    <3> QED  BY <1>3, <1>4, <1>5, <1>6
  <2> HIDE DEF a, b
  <2>2. \A m, n \in Int : m * n \in Int
    OBVIOUS
  <2>3. 2 * (y - a[1]) * (a[2] - b[2]) + span \in Int
    BY <2>1, <2>2
  <2>4. \A m \in Int : m \div 2 \in Int /\ m \div 10 \in Int
    OBVIOUS
  <2>5. 2 * span = 2 \/ 2 * span = 10
    BY <2>1
  <2> QED  BY <2>1, <2>3, <2>4, <2>5
<1>7. TrajectoryLimit(y) = CASE y < 2025           -> 9116
                             [] y > 2050           -> 0
                             [] y \in 2025..2050   -> middle
  BY DEF TrajectoryLimit
<1> HIDE DEF middle
<1>8. CASE y < 2025
  <2>1. ~(y > 2050) /\ y \notin 2025..2050
    BY <1>8
  <2>2. TrajectoryLimit(y) = 9116
    BY <1>7, <1>8, <2>1
  <2> QED  BY <2>2
<1>9. CASE y > 2050
  <2>1. ~(y < 2025) /\ y \notin 2025..2050
    BY <1>9
  <2>2. TrajectoryLimit(y) = 0
    BY <1>7, <1>9, <2>1
  <2> QED  BY <2>2
<1>10. CASE y \in 2025..2050
  <2>1. ~(y < 2025) /\ ~(y > 2050)
    BY <1>10
  <2>2. TrajectoryLimit(y) = middle
    <3>1. middle \in Int
      BY <1>6, <1>10
    <3> QED  BY <1>7, <1>10, <2>1, <3>1
  <2> QED  BY <1>6, <1>10, <2>2
<1>11. y < 2025 \/ y > 2050 \/ y \in 2025..2050
  OBVIOUS
<1> QED  BY <1>8, <1>9, <1>10, <1>11

LEMMA YearsAreNumbers ==
  ASSUME NEW y \in Years
  PROVE  y \in Nat
<1>1. PICK i \in DOMAIN Days : y = FirstYear + Days[i] \div 365
  BY DEF Years, YearOf
<1>2. Days[i] \in Nat /\ FirstYear \in Nat
  BY LedgerAssumption
<1> QED  BY <1>1, <1>2

LEMMA AggregateHolds ==
  ASSUME BooksOK, TasksOK, Balanced
  PROVE  AggregateFollowsVoyages
<1> SUFFICES ASSUME NEW vessel \in Vessels, NEW y \in Years,
                    NEW asked, asked = {v \in {fuelRecords[i].voyage : i \in DOMAIN fuelRecords} :
                                         IsOf(v, vessel, y)},
                    NEW underWay, underWay = {task[w].voyage : w \in {w \in Clerks : task[w].op = "fueleu"}},
                    \A v \in asked : VoyageCompliant(v, TrajectoryLimit(y)),
                    asked \cap (halves \cup underWay) = {}
             PROVE  AnnualCompliant(vessel, y)
  BY DEF AggregateFollowsVoyages
<1>1. fuelRecords \in Seq(FuelEuRow) /\ task \in [Clerks -> Task]
  BY DEF BooksOK, TasksOK
<1>2. asked \in SUBSET Voyages
  <2>1. \A i \in DOMAIN fuelRecords : fuelRecords[i] \in FuelEuRow
    BY <1>1
  <2>2. \A i \in DOMAIN fuelRecords : fuelRecords[i].voyage \in Voyages
    BY <2>1 DEF FuelEuRow
  <2> QED  BY <2>2
<1>3. TrajectoryLimit(y) \in Int
  BY YearsAreNumbers, LimitIsNumber
<1>4. Due("ghg", fuelRecords, task, asked) * 1000
        <= TrajectoryLimit(y) * Due("energy", fuelRecords, task, asked)
  <2>1. asked \cap halves = {}
    OBVIOUS
  <2> QED  BY <1>2, <1>3, <2>1 DEF Balanced
<1>5. ASSUME NEW column \in Columns
      PROVE  Due(column, fuelRecords, task, asked) = AnnualSum(column, vessel, y)
  <2>1. OwedByAll(column, task, asked) = 0
    <3>1. \A w \in Clerks : task[w].op = "fueleu" => task[w].voyage \notin asked
      OBVIOUS
    <3> QED  BY <1>1, <3>1, NothingOwed
  <2>2. \A i \in DOMAIN fuelRecords :
          fuelRecords[i].voyage \in asked <=> IsOf(fuelRecords[i].voyage, vessel, y)
    OBVIOUS
  <2>3. WrittenColumn(column, fuelRecords, asked)
          = [i \in DOMAIN fuelRecords |->
               IF IsOf(fuelRecords[i].voyage, vessel, y) THEN fuelRecords[i][column] ELSE 0]
    BY <2>2 DEF WrittenColumn
  <2>4. WrittenTo(column, fuelRecords, asked) = AnnualSum(column, vessel, y)
    BY <2>3 DEF WrittenTo, AnnualSum
  <2>5. WrittenTo(column, fuelRecords, asked) \in Nat
    BY <1>1, WrittenIsNat
  <2> QED  BY <2>1, <2>4, <2>5 DEF Due
<1>6. /\ AnnualSum("ghg", vessel, y) * 1000 <= TrajectoryLimit(y) * AnnualSum("energy", vessel, y)
  BY <1>4, <1>5 DEF Columns
<1> QED  BY <1>6 DEF AnnualCompliant, WithinLimit

-----------------------------------------------------------------------------
(* The drift alerts.                                                       *)

\* The numbers behind the two ratings of an assessment.
LEMMA AssessmentNumbers ==
  ASSUME NEW vessel \in Vessels, NEW y \in Int
  PROVE  \E co2 \in Nat, work \in Nat :
           /\ Assessment(vessel, y).rating = Rate(co2, work, BoundariesForYear(y))
           /\ Assessment(vessel, y).projected
                = Rate(co2 * 365, work * DaysElapsed(y), BoundariesForYear(y))
           /\ Assessment(vessel, y).year = y
<1> DEFINE own == {v \in Voyages : v.vessel = vessel /\ v.year = y}
           vs == VoyagesOf(vessel, y)
           co2 == [i \in DOMAIN vs |-> vs[i].co2]
           work == [i \in DOMAIN vs |-> vs[i].work]
<1>1. Len(vs) \in Nat /\ DOMAIN vs = 1..Len(vs) /\ \A i \in 1..Len(vs) : vs[i] \in Voyages
  <2>1. IsFiniteSet(own) /\ own \subseteq Voyages
    BY LedgerAssumption, FS_Subset
  <2> HIDE DEF own
  <2>2. SetToSeq(own) \in Seq(own)
    BY <2>1, Listed
  <2>3. SetToSeq(own) \in Seq(Voyages)
    BY <2>1, <2>2
  <2> HIDE DEF vs
  <2>4. vs \in Seq(Voyages)
    BY <2>3 DEF VoyagesOf, own, vs
  <2> QED  BY <2>4
<1> HIDE DEF vs
<1>2. co2 \in [1..Len(vs) -> Nat] /\ work \in [1..Len(vs) -> Nat]
  BY <1>1, VoyageNumbers
<1>3. co2 \in Seq(Nat) /\ work \in Seq(Nat)
  BY <1>1, <1>2
<1> HIDE DEF co2, work
<1>4. Total(co2) \in Nat /\ Total(work) \in Nat
  BY <1>3, TotalIsNat
<1> DEFINE b == BoundariesForYear(y)
<1>5. /\ Assessment(vessel, y).rating = Rate(Total(co2), Total(work), b)
      /\ Assessment(vessel, y).projected = Rate(Total(co2) * 365, Total(work) * DaysElapsed(y), b)
      /\ Assessment(vessel, y).year = y
  BY Zenon DEF Assessment, vs, co2, work
<1> HIDE DEF b
<1> QED  BY <1>4, <1>5 DEF b

LEMMA BoundariesAscend ==
  ASSUME NEW y \in Int
  PROVE  LET b == BoundariesForYear(y)
         IN b.A \in Nat /\ b.B \in Nat /\ b.C \in Nat /\ b.D \in Nat /\ b.A <= b.B /\ b.B <= b.C /\ b.C <= b.D
<1>1. \A k \in 2023..2026 :
        LET b == RatingBoundaries[k]
        IN b.A \in Nat /\ b.B \in Nat /\ b.C \in Nat /\ b.D \in Nat /\ b.A <= b.B /\ b.B <= b.C /\ b.C <= b.D
  <2>1. \A k \in 2023..2026 : k = 2023 \/ k = 2024 \/ k = 2025 \/ k = 2026
    OBVIOUS
  <2> QED  BY <2>1 DEF RatingBoundaries
<1> DEFINE k == IF y \in 2023..2026 THEN y ELSE IF y > 2026 THEN 2026 ELSE 2024
<1>2. k \in 2023..2026
  OBVIOUS
<1>3. BoundariesForYear(y) = RatingBoundaries[k]
  BY DEF BoundariesForYear
<1> HIDE DEF k
<1> QED  BY <1>1, <1>2, <1>3

\* A rating is D or E when it is above the boundary of C.
LEMMA BadRating ==
  ASSUME NEW num \in Nat, NEW den \in Nat, NEW b, b.A \in Nat, b.B \in Nat, b.C \in Nat, b.D \in Nat,
         b.A <= b.B, b.B <= b.C, b.C <= b.D
  PROVE  Rate(num, den, b) \in {"D", "E"} <=> b.C * den < num * 100
<1> DEFINE atA == b.A * den
           atB == b.B * den
           atC == b.C * den
           atD == b.D * den
           n == num * 100
<1>1. \A m, k \in Nat : m * den \in Nat /\ (m <= k => m * den <= k * den)
  OBVIOUS
<1>2. /\ atA \in Nat /\ atB \in Nat /\ atC \in Nat /\ atD \in Nat /\ n \in Nat
      /\ atA <= atB /\ atB <= atC /\ atC <= atD
  BY <1>1
<1>3. Rate(num, den, b) =
        CASE n <= atA            -> "A"
          [] atA < n /\ n <= atB -> "B"
          [] atB < n /\ n <= atC -> "C"
          [] atC < n /\ n <= atD -> "D"
          [] OTHER               -> "E"
  BY DEF Rate
<1> HIDE DEF atA, atB, atC, atD, n
<1> DEFINE rating == Rate(num, den, b)
<1> HIDE DEF rating
<1>4. rating \in {"D", "E"} <=> atC < n
  BY <1>2, <1>3 DEF rating
<1> QED  BY <1>4 DEF atC, n, rating

\* A bad rating stays bad when it is projected over a year from at most a year.
LEMMA ProjectionIsNoBetter ==
  ASSUME NEW co2 \in Nat, NEW work \in Nat, NEW c \in Nat, NEW elapsed \in 1..365,
         c * work < co2 * 100
  PROVE  c * (work * elapsed) < (co2 * 365) * 100
<1> DEFINE p == c * work
<1>1. p \in Nat
  OBVIOUS
<1>2. c * (work * elapsed) = p * elapsed
  OBVIOUS
<1>3. p < co2 * 100
  OBVIOUS
<1> HIDE DEF p
<1>4. p * elapsed <= p * 365
  BY <1>1
<1>5. p * 365 < (co2 * 365) * 100 /\ p * elapsed \in Nat
  BY <1>1, <1>3
<1> QED  BY <1>1, <1>2, <1>4, <1>5

LEMMA DaysOfAYear ==
  ASSUME today \in DOMAIN Days, NEW y \in Int
  PROVE  /\ DaysElapsed(y) \in Nat \ {0}
         /\ y = ThisYear => DaysElapsed(y) <= 365
<1> DEFINE day == Days[today]
<1>1. day \in Nat /\ FirstYear \in Nat
  BY LedgerAssumption
<1> HIDE DEF day
<1>2. DaysElapsed(y) = Max1(day - 365 * (y - FirstYear))
  BY DEF DaysElapsed, day
<1>3. y = ThisYear => day - 365 * (y - FirstYear) <= 365
  <2>1. ThisYear = FirstYear + day \div 365
    BY DEF ThisYear, YearOf, day
  <2>2. day - 365 * (day \div 365) <= 365
    BY <1>1
  <2>3. day \div 365 \in Int
    BY <1>1
  <2> QED  BY <1>1, <2>1, <2>2, <2>3
<1>4. day - 365 * (y - FirstYear) \in Int
  BY <1>1
<1> QED  BY <1>2, <1>3, <1>4 DEF Max1

LEMMA AlertsHold ==
  ASSUME BooksOK
  PROVE  BadRatingsAreAlerted
<1> SUFFICES ASSUME NEW vessel \in Vessels, NEW y \in Years, NEW a, a = Assessment(vessel, y),
                    a.rating \in {"D", "E"}
             PROVE  /\ DriftAlerts(a) # {}
                    /\ a.year = ThisYear => "projected" \in DriftAlerts(a)
  <2>1. \A i \in DOMAIN assessments : assessments[i] \in AssessmentRow
    BY DEF BooksOK
  <2>2. \A i \in DOMAIN assessments : assessments[i].vessel \in Vessels /\ assessments[i].year \in Years
    BY <2>1 DEF AssessmentRow
  <2>3. ASSUME NEW i \in DOMAIN assessments
        PROVE  LET a == Assessment(assessments[i].vessel, assessments[i].year)
               IN /\ a.rating \in {"D", "E"} => DriftAlerts(a) # {}
                  /\ a.year = ThisYear /\ a.rating \in {"D", "E"} => "projected" \in DriftAlerts(a)
    <3> DEFINE a == Assessment(assessments[i].vessel, assessments[i].year)
    <3>1. \A vessel \in Vessels, y \in Years :
            Assessment(vessel, y).rating \in {"D", "E"} =>
              /\ DriftAlerts(Assessment(vessel, y)) # {}
              /\ Assessment(vessel, y).year = ThisYear => "projected" \in DriftAlerts(Assessment(vessel, y))
      OBVIOUS
    <3> QED  BY <2>2, <3>1
  <2> QED  BY <2>3 DEF BadRatingsAreAlerted
<1>1. y \in Int
  BY YearsAreNumbers
<1> DEFINE b == BoundariesForYear(y)
           elapsed == DaysElapsed(y)
<1>2. PICK co2 \in Nat, work \in Nat :
        a.rating = Rate(co2, work, b) /\ a.year = y /\ a.projected = Rate(co2 * 365, work * elapsed, b)
  <2>1. \E co2 \in Nat, work \in Nat :
          /\ Assessment(vessel, y).rating = Rate(co2, work, BoundariesForYear(y))
          /\ Assessment(vessel, y).projected
               = Rate(co2 * 365, work * DaysElapsed(y), BoundariesForYear(y))
          /\ Assessment(vessel, y).year = y
    BY <1>1, AssessmentNumbers, Zenon
  <2> QED  BY <2>1, Zenon
<1>3. elapsed \in Nat \ {0} /\ (y = ThisYear => elapsed <= 365)
  BY <1>1, DaysOfAYear DEF BooksOK
<1>4. b.A \in Nat /\ b.B \in Nat /\ b.C \in Nat /\ b.D \in Nat /\ b.A <= b.B /\ b.B <= b.C /\ b.C <= b.D
  BY <1>1, BoundariesAscend
<1>5. DriftAlerts(a) = (IF a.projected \in {"D", "E"} THEN {"projected"} ELSE {})
                         \cup (IF elapsed > 180 /\ a.rating \in {"D", "E"} THEN {"mid_year"} ELSE {})
                         \cup (IF elapsed > 270 /\ a.projected = "E" THEN {"confirmed"} ELSE {})
  BY <1>2 DEF DriftAlerts
<1> HIDE DEF b, elapsed
<1>6. b.C * work < co2 * 100
  BY <1>2, <1>4, BadRating
<1>7. CASE elapsed <= 365
  <2>1. elapsed \in 1..365
    BY <1>3, <1>7
  <2>2. b.C * (work * elapsed) < (co2 * 365) * 100
    BY <1>4, <1>6, <2>1, ProjectionIsNoBetter
  <2>3. co2 * 365 \in Nat /\ work * elapsed \in Nat
    BY <2>1
  <2>4. a.projected \in {"D", "E"}
    BY <1>2, <1>4, <2>2, <2>3, BadRating
  <2> QED  BY <1>5, <2>4
<1>8. CASE elapsed > 365
  <2>1. elapsed > 180
    BY <1>3, <1>8
  <2>2. "mid_year" \in DriftAlerts(a)
    BY <1>5, <2>1
  <2>3. a.year # ThisYear
    BY <1>2, <1>3, <1>8
  <2> QED  BY <2>2, <2>3
<1> QED  BY <1>3, <1>7, <1>8

-----------------------------------------------------------------------------
(* The improvement reported to SEEMP.                                      *)
FuelOfYear(vessel, y) ==
  Total([i \in DOMAIN VoyagesOf(vessel, y) |-> FuelOf(VoyagesOf(vessel, y)[i])])

\* A row of the CII book carries the fuel of its vessel and year, or nothing if it was
\* seeded.
FuelsOK ==
  \A i \in DOMAIN assessments :
    assessments[i].fuel = IF assessments[i].projected = "none" THEN 0
                          ELSE FuelOfYear(assessments[i].vessel, assessments[i].year)

LEMMA FuelOfYearIsNat ==
  ASSUME NEW vessel, NEW y
  PROVE  FuelOfYear(vessel, y) \in Nat
<1> DEFINE own == {v \in Voyages : v.vessel = vessel /\ v.year = y}
           vs == VoyagesOf(vessel, y)
           fuel == [i \in DOMAIN vs |-> FuelOf(vs[i])]
<1>1. Len(vs) \in Nat /\ DOMAIN vs = 1..Len(vs) /\ \A i \in 1..Len(vs) : vs[i] \in Voyages
  <2>1. IsFiniteSet(own) /\ own \subseteq Voyages
    BY LedgerAssumption, FS_Subset
  <2> HIDE DEF own
  <2>2. SetToSeq(own) \in Seq(own)
    BY <2>1, Listed
  <2>3. SetToSeq(own) \in Seq(Voyages)
    BY <2>1, <2>2
  <2> HIDE DEF vs
  <2>4. vs \in Seq(Voyages)
    BY <2>3 DEF VoyagesOf, own, vs
  <2> QED  BY <2>4
<1> HIDE DEF vs
<1>2. fuel \in [1..Len(vs) -> Nat]
  BY <1>1, VoyageNumbers
<1>3. fuel \in Seq(Nat)
  BY <1>1, <1>2
<1> HIDE DEF fuel
<1>4. Total(fuel) \in Nat
  BY <1>3, TotalIsNat
<1> QED  BY <1>4 DEF FuelOfYear, vs, fuel

LEMMA AssessmentFuel ==
  ASSUME NEW vessel, NEW y
  PROVE  /\ Assessment(vessel, y).fuel = FuelOfYear(vessel, y)
         /\ Assessment(vessel, y).vessel = vessel /\ Assessment(vessel, y).year = y
         /\ Assessment(vessel, y).projected # "none"
<1>1. /\ Assessment(vessel, y).fuel = FuelOfYear(vessel, y)
      /\ Assessment(vessel, y).vessel = vessel /\ Assessment(vessel, y).year = y
  BY Zenon DEF Assessment, FuelOfYear
<1>2. \E num, den : Assessment(vessel, y).projected = Rate(num, den, BoundariesForYear(y))
  BY Zenon DEF Assessment
<1>3. \A num, den, boundaries : Rate(num, den, boundaries) # "none"
  BY DEF Rate
<1> QED  BY <1>1, <1>2, <1>3

LEMMA FuelsStep ==
  ASSUME BooksOK, FuelsOK, [LedgerNext]_ledgerVars
  PROVE  FuelsOK'
<1> DEFINE Good(r) == r.fuel = IF r.projected = "none" THEN 0 ELSE FuelOfYear(r.vessel, r.year)
<1>1. assessments \in Seq(AssessmentRow) /\ \A i \in DOMAIN assessments : Good(assessments[i])
  BY DEF BooksOK, FuelsOK
<1>2. \A vessel, y : Good(Assessment(vessel, y))
  BY AssessmentFuel
<1> HIDE DEF Good
<1>3. SUFFICES \A i \in DOMAIN assessments' : Good(assessments'[i])
  BY <1>3 DEF FuelsOK, Good
<1>4. ASSUME NEW vessel \in Vessels, NEW y \in Years, CalculateCii(vessel, y)
      PROVE  \A i \in DOMAIN assessments' : Good(assessments'[i])
  <2> DEFINE row == Assessment(vessel, y)
  <2>1. assessments' = Append(assessments, row) /\ Good(row)
    BY <1>2, <1>4 DEF CalculateCii
  <2> HIDE DEF row
  <2> QED  BY <1>1, <2>1
<1>5. ASSUME NEW y \in Years, CiiFleet(y)
      PROVE  \A i \in DOMAIN assessments' : Good(assessments'[i])
  <2> DEFINE fleet == SetToSeq({vessel \in Vessels : HasWork(vessel, y)})
             more == [i \in DOMAIN fleet |-> Assessment(fleet[i], y)]
  <2>1. Len(fleet) \in Nat /\ DOMAIN fleet = 1..Len(fleet)
    <3>1. IsFiniteSet({vessel \in Vessels : HasWork(vessel, y)})
      BY LedgerAssumption, FS_Subset
    <3> DEFINE S == {vessel \in Vessels : HasWork(vessel, y)}
    <3> HIDE DEF S
    <3>2. SetToSeq(S) \in Seq(S)
      BY <3>1, Listed DEF S
    <3>3. Len(SetToSeq(S)) \in Nat /\ DOMAIN SetToSeq(S) = 1..Len(SetToSeq(S))
      BY <3>2
    <3> QED  BY <3>3 DEF S
  <2>2. assessments' = assessments \o more
    BY <1>5 DEF CiiFleet
  <2> HIDE DEF fleet
  <2>3. Len(more) = Len(fleet) /\ DOMAIN more = 1..Len(fleet)
    BY <2>1
  <2>4. \A i \in 1..Len(fleet) : Good(more[i])
    BY <1>2, <2>1
  <2>5. more \in Seq({more[i] : i \in 1..Len(fleet)})
    BY <2>1, <2>3
  <2> HIDE DEF more
  <2> QED  BY <1>1, <2>1, <2>2, <2>3, <2>4, <2>5
<1>6. ASSUME NEW w \in Clerks, SeedCii(w)
      PROVE  \A i \in DOMAIN assessments' : Good(assessments'[i])
  <2> DEFINE fleet == SetToSeq(Vessels)
             Row(vessel, figures) ==
               [vessel |-> vessel, year |-> StaticYear, co2 |-> figures[vessel].co2, fuel |-> 0,
                rating |-> figures[vessel].rating, projected |-> "none"]
  <2>1. PICK figures \in [Vessels -> StaticFigures] :
          assessments' = assessments \o [i \in DOMAIN fleet |-> Row(fleet[i], figures)]
    BY <1>6 DEF SeedCii
  <2>2. \A vessel : Good(Row(vessel, figures))
    BY DEF Good
  <2>3. Len(fleet) \in Nat /\ DOMAIN fleet = 1..Len(fleet)
    <3>1. fleet \in Seq(Vessels)
      BY LedgerAssumption, Listed
    <3> HIDE DEF fleet
    <3> QED  BY <3>1
  <2> HIDE DEF Row, fleet
  <2> DEFINE more == [i \in DOMAIN fleet |-> Row(fleet[i], figures)]
  <2>4. /\ Len(more) = Len(fleet) /\ DOMAIN more = 1..Len(fleet)
        /\ \A i \in 1..Len(fleet) : Good(more[i])
        /\ more \in Seq({more[i] : i \in 1..Len(fleet)})
    BY <2>2, <2>3
  <2> HIDE DEF more
  <2>5. assessments' = assessments \o more
    BY <2>1 DEF more
  <2> QED  BY <1>1, <2>3, <2>4, <2>5
<1>7. \/ assessments' = assessments \/ assessments' = <<>>
      \/ \E vessel \in Vessels, y \in Years : CalculateCii(vessel, y)
      \/ \E y \in Years : CiiFleet(y)
      \/ \E w \in Clerks : SeedCii(w)
  BY DEF LedgerNext, CiiNext, EtsNext, FuelEuNext, EfficiencyNext, Elsewhere,
         GatherDcs, LookForReport, WriteReport, CalculateEts, Summarise, LookForSurrender,
         WriteSurrender, WriteFuelRecord, CalculateFuelEu, ConfigureEpl, AddMeasure, WriteEexi,
         LookForEexi, NextDay, DropTask, DemoOnLedger, DemoDelete, EmptyCii, EmptyEts, EmptyFuelEu,
         EmptyEfficiency, EmptyTotals, EmptyVoyages, records, ledgerVars
<1> QED  BY <1>1, <1>4, <1>5, <1>6, <1>7

\* So the fuel reported of a year is its fuel times the number of requests.
LEMMA FuelReportedIs ==
  ASSUME BooksOK, FuelsOK, NEW vessel, NEW y
  PROVE  /\ TimesAsked(vessel, y) \in Nat
         /\ FuelReported(vessel, y) = TimesAsked(vessel, y) * FuelOfYear(vessel, y)
<1> DEFINE n == FuelOfYear(vessel, y)
           P == {i \in DOMAIN assessments : /\ IsOf(assessments[i], vessel, y)
                                             /\ assessments[i].projected # "none"}
           s == [i \in DOMAIN assessments |->
                   IF IsOf(assessments[i], vessel, y) THEN assessments[i].fuel ELSE 0]
<1>1. n \in Nat
  BY FuelOfYearIsNat
<1>2. Len(assessments) \in Nat /\ DOMAIN assessments = 1..Len(assessments)
  BY DEF BooksOK
<1>3. \A i \in DOMAIN assessments : s[i] = IF i \in P THEN n ELSE 0
  BY DEF FuelsOK, IsOf
<1>4. FuelReported(vessel, y) = Total(s)
  BY DEF FuelReported, SumOf
<1>5. TimesAsked(vessel, y) = Cardinality(P)
  BY DEF TimesAsked
<1>6. P \subseteq DOMAIN assessments /\ DOMAIN s = DOMAIN assessments
  OBVIOUS
<1>7. s = [i \in DOMAIN assessments |-> s[i]]
  OBVIOUS
<1> HIDE DEF n, P, s
<1>8. s \in [1..Len(assessments) -> Int]
  BY <1>1, <1>2, <1>3, <1>7
<1>9. s \in Seq(Int) /\ Len(s) = Len(assessments)
  BY <1>2, <1>8
<1>10. {i \in 1..Len(s) : i \in P} = P /\ \A i \in 1..Len(s) : s[i] = IF i \in P THEN n ELSE 0
  BY <1>2, <1>3, <1>6, <1>9
<1>11. Cardinality(P) \in Nat /\ Total(s) = Cardinality(P) * n
  <2>1. /\ Cardinality({i \in 1..Len(s) : i \in P}) \in Nat
        /\ Total(s) = Cardinality({i \in 1..Len(s) : i \in P}) * n
    <3>1. n \in Int
      BY <1>1
    <3> QED  BY <1>9, <1>10, <3>1, TotalOfEqualRows, Zenon
  <2> QED  BY <1>10, <2>1
<1> QED  BY <1>4, <1>5, <1>11 DEF n

LEMMA ImprovementHolds ==
  ASSUME BooksOK, FuelsOK
  PROVE  ImprovementKeepsItsSign
<1> SUFFICES ASSUME NEW vessel \in Vessels, NEW y \in Years,
                    TimesAsked(vessel, y) = TimesAsked(vessel, y - 1)
             PROVE  ImprovementFuel(vessel, y)
                      = TimesAsked(vessel, y)
                          * (Assessment(vessel, y - 1).fuel - Assessment(vessel, y).fuel)
  BY DEF ImprovementKeepsItsSign
<1> DEFINE n == TimesAsked(vessel, y)
           before == FuelOfYear(vessel, y - 1)
           now == FuelOfYear(vessel, y)
<1>1. n \in Nat /\ before \in Nat /\ now \in Nat
  BY FuelOfYearIsNat, FuelReportedIs
<1>2. FuelReported(vessel, y - 1) = n * before /\ FuelReported(vessel, y) = n * now
  BY FuelReportedIs
<1>3. Assessment(vessel, y - 1).fuel = before /\ Assessment(vessel, y).fuel = now
  BY AssessmentFuel
<1>4. ImprovementFuel(vessel, y) = FuelReported(vessel, y - 1) - FuelReported(vessel, y)
  BY DEF ImprovementFuel
<1> HIDE DEF n, before, now
<1>5. n * before - n * now = n * (before - now)
  BY <1>1
<1> QED  BY <1>2, <1>3, <1>4, <1>5 DEF n

-----------------------------------------------------------------------------
AnswersInv == LedgerInv /\ Balanced /\ FuelsOK

LEMMA AnswersInvariant == LedgerSpec => []AnswersInv
<1>1. LedgerInit => AnswersInv
  <2>1. LedgerInit => FuelsOK
    BY DEF LedgerInit, FuelsOK
  <2> QED  BY <2>1, LedgerInitially, BalancedInitially DEF AnswersInv
<1>2. AnswersInv /\ [LedgerNext]_ledgerVars => AnswersInv'
  <2> SUFFICES ASSUME AnswersInv, [LedgerNext]_ledgerVars PROVE AnswersInv'
    OBVIOUS
  <2>1. BooksOK /\ TasksOK /\ Balanced /\ FuelsOK
    BY TypeParts DEF AnswersInv, LedgerInv
  <2>2. LedgerInv'
    BY LedgerInductive DEF AnswersInv
  <2>3. Balanced'
    BY <2>1, BalanceStep
  <2>4. FuelsOK'
    BY <2>1, FuelsStep
  <2> QED  BY <2>2, <2>3, <2>4 DEF AnswersInv
<1> QED  BY <1>1, <1>2, PTL DEF LedgerSpec

\* However often a figure is asked for, wherever a worker stands or was killed and
\* whatever demo jobs seed or delete, the
\* annual answers say of a year what its voyages say: FuelEU voyages within a limit
\* make an annual aggregation within it (fueleu_annual_aggregation), a rating of D or
\* E raises a drift alert (cii_drift_alert), and SEEMP's improvement has the sign of
\* the fuel saved (calculate_improvement).
THEOREM AnnualAnswersHold == LedgerSpec => []AnnualAnswersFollowVoyages
<1>1. AnswersInv => AnnualAnswersFollowVoyages
  BY TypeParts, AggregateHolds, AlertsHold, ImprovementHolds
     DEF AnswersInv, LedgerInv, AnnualAnswersFollowVoyages
<1> QED  BY <1>1, AnswersInvariant, PTL

=============================================================================
