----------------------------- MODULE FiguresProofs -----------------------------
(***************************************************************************)
(* What is read from the analytics database can be told together, for      *)
(* every fleet and every table of days.                                    *)
(*                                                                         *)
(* The charterer's money is that of columns compared row by row; a voyage  *)
(* begins as often as it ends.  The figures of operation: a stay at port   *)
(* ends as often as it starts, and its days are counted as they pass; a    *)
(* mean is neither above all its rows nor below them; emissions keep below *)
(* the cargo carried; the rows of a day fall into five kinds.              *)
(*                                                                         *)
(* A period of a hull has a median and one only; it is itself a day under  *)
(* way, with at most half of them below; so days that do not exceed it are *)
(* clean, and more than half of all, and a median doubles with its days.   *)
(* A mean is within what the rows are within, and a heavy one pulls the    *)
(* other scores down with it.                                              *)
(*                                                                         *)
(*   the charterer's money                  (PortsPaidPerLeg, RowByRow)    *)
(*   the table of days                                  (TableInvariant)   *)
(*   laytime, ratings, the risk of off-hire, the benchmark, utilization    *)
(*   the baseline of a hull                           (BaselineIsMedian)   *)
(*   means, ranks and levels of rows          (MeanAtMost, RankExists)     *)
(*   what is read: windows, days, doubled days   (OneWindow, DoubledLog)   *)
(*   the scores                                           (HeavyIsNotGood) *)
(*   the order of the rows                       (PlaceFacts, ByDateFacts) *)
(*   the statements, the invariant and the theorem                         *)
(***************************************************************************)
EXTENDS CharterFigures, HullCondition, SumsProofs, SequenceTheorems

-----------------------------------------------------------------------------
(* The charterer's money.                                                  *)

\* The numbers of a row: every month is charged at the price of the first quarter.
NumbersOK(d, month) ==
  /\ DayRevenue(d) \in Nat /\ FuelCost(d, month) \in Nat /\ d.fuel \in Nat
  /\ FuelCost(d, month) = d.fuel * 550

LEMMA RowNumbers ==
  ASSUME NEW d \in Rows, NEW month \in 1..12
  PROVE  NumbersOK(d, month)
<1>1. d.cargo \in 0..100 /\ d.fuel \in Nat
  BY CharterAssumption
<1>2. DayRevenue(d) \in Nat
  <2>1. d.cargo \in Nat
    BY <1>1
  <2>2. (d.cargo * 783) * 7 \in Nat
    BY <2>1
  <2>3. \A n \in Nat : n \div 2 \in Nat
    OBVIOUS
  <2> QED  BY <2>2, <2>3 DEF DayRevenue, CargoTonnes
<1>3. FuelCost(d, month) = d.fuel * 550
  <2>1. QuarterFromDate(month, DayFormat) = 1
    BY DEF QuarterFromDate, DayFormat
  <2>2. BunkerPrice[1] = 550
    BY DEF BunkerPrice
  <2> QED  BY <2>1, <2>2 DEF FuelCost
<1>4. d.fuel * 550 \in Nat
  BY <1>1
<1> QED  BY <1>1, <1>2, <1>3, <1>4 DEF NumbersOK

\* The columns that the endpoints add up.
RevenueColumn(rows) == [i \in DOMAIN rows |-> IF InVoyage(rows[i]) THEN DayRevenue(rows[i]) ELSE 0]
FuelColumn(rows) == [i \in DOMAIN rows |-> FuelCost(rows[i], Months[i])]
VoyageFuelColumn(rows) ==
  [i \in DOMAIN rows |-> IF InVoyage(rows[i]) THEN FuelCost(rows[i], Months[i]) ELSE 0]
VoyageOpexColumn(rows) == [i \in DOMAIN rows |-> IF InVoyage(rows[i]) THEN DailyOpex ELSE 0]
OpexColumn(rows) == [i \in DOMAIN rows |-> DailyOpex]
EndColumn(rows) ==
  [i \in DOMAIN rows |-> IF InLeg(rows, i - 1) /\ ~InLeg(rows, i) THEN PortCost ELSE 0]
DailyPortColumn(rows) == [i \in DOMAIN rows |-> IF InVoyage(rows[i]) THEN 0 ELSE PortCost]
BunkerPriceOf(month) ==
  CASE month \in 1..3 -> 550
    [] month \in 4..6 -> 580
    [] month \in 7..9 -> 620
    [] OTHER -> 600
BunkerColumn(rows) == [i \in DOMAIN rows |-> rows[i].fuel * BunkerPriceOf(Months[i])]
StartsAt(rows) == {i \in DOMAIN rows : InVoyage(rows[i]) /\ (i > 1 => ~InVoyage(rows[i - 1]))}
StartColumn(rows) == [i \in DOMAIN rows |-> IF i \in StartsAt(rows) THEN PortCost ELSE 0]

LEMMA Figures ==
  ASSUME NEW rows
  PROVE  /\ VoyageRevenue(rows) = Total(RevenueColumn(rows))
         /\ VoyageFuel(rows) = Total(VoyageFuelColumn(rows))
         /\ VoyageOpex(rows) = Total(VoyageOpexColumn(rows))
         /\ PortsOfEndedLegs(rows) = Total(EndColumn(rows))
         /\ FuelCosts(rows) = Total(FuelColumn(rows))
         /\ BunkerCosts(rows) = Total(BunkerColumn(rows))
         /\ Starts(rows, InVoyage) = Cardinality(StartsAt(rows))
<1>1. VoyageRevenue(rows) = Total(RevenueColumn(rows))
  BY DEF VoyageRevenue, RevenueColumn
<1>2. VoyageFuel(rows) = Total(VoyageFuelColumn(rows))
  BY DEF VoyageFuel, VoyageFuelColumn
<1>3. VoyageOpex(rows) = Total(VoyageOpexColumn(rows))
  BY DEF VoyageOpex, VoyageOpexColumn
<1>4. PortsOfEndedLegs(rows) = Total(EndColumn(rows))
  BY DEF PortsOfEndedLegs, EndColumn
<1>5. FuelCosts(rows) = Total(FuelColumn(rows))
  BY DEF FuelCosts, FuelColumn
<1>6. BunkerCosts(rows) = Total(BunkerColumn(rows))
  BY DEF BunkerCosts, BunkerColumn, BunkerPriceOf
<1>7. Starts(rows, InVoyage) = Cardinality(StartsAt(rows))
  BY DEF Starts, StartsAt
<1> QED  BY <1>1, <1>2, <1>3, <1>4, <1>5, <1>6, <1>7

\* The same of the daily detail.
LEMMA DetailFigures ==
  ASSUME NEW rows
  PROVE  LET detail == VoyagePnlDetail(rows)
         IN /\ detail.revenue = Total(RevenueColumn(rows))
            /\ detail.fuel = Total(FuelColumn(rows))
            /\ detail.ports = Total(DailyPortColumn(rows))
            /\ detail.net = Total(RevenueColumn(rows)) - Total(FuelColumn(rows))
                              - Total(DailyPortColumn(rows)) - DailyOpex * Len(rows)
<1> DEFINE revenue == Total([i \in DOMAIN rows |-> DayPnl(rows[i], Months[i]).revenue])
           fuel == Total([i \in DOMAIN rows |-> DayPnl(rows[i], Months[i]).fuel])
           ports == Total([i \in DOMAIN rows |-> DayPnl(rows[i], Months[i]).ports])
<1>1. revenue = Total(RevenueColumn(rows))
  BY DEF RevenueColumn, DayPnl
<1>2. fuel = Total(FuelColumn(rows))
  BY DEF FuelColumn, DayPnl
<1>3. ports = Total(DailyPortColumn(rows))
  BY DEF DailyPortColumn, DayPnl
<1>4. VoyagePnlDetail(rows) = [revenue |-> revenue, fuel |-> fuel, ports |-> ports,
                               net |-> revenue - fuel - ports - DailyOpex * Len(rows)]
  BY DEF VoyagePnlDetail
<1> HIDE DEF revenue, fuel, ports
<1> QED  BY <1>1, <1>2, <1>3, <1>4

\* What the endpoints take from one row: fuel is never charged above the price of its month.
LEMMA RowFigures ==
  ASSUME NEW rows \in Seq(Rows), Len(rows) <= Len(Months), NEW i \in 1..Len(rows)
  PROVE  /\ DayRevenue(rows[i]) \in Int /\ FuelCost(rows[i], Months[i]) \in Nat
         /\ rows[i].fuel * BunkerPriceOf(Months[i]) \in Int
         /\ FuelCost(rows[i], Months[i]) <= rows[i].fuel * BunkerPriceOf(Months[i])
<1> DEFINE d == rows[i]
           month == Months[i]
           fuel == d.fuel
           price == BunkerPriceOf(month)
<1>1. d \in Rows
  OBVIOUS
<1>2. month \in 1..12
  <2>1. Months \in Seq(1..12)
    BY CharterAssumption
  <2>2. i \in 1..Len(Months)
    BY <2>1
  <2> QED  BY <2>1, <2>2
<1>3. price \in {550, 580, 620, 600}
  BY DEF BunkerPriceOf
<1> HIDE DEF d, month, price
<1>4. DayRevenue(d) \in Nat /\ FuelCost(d, month) \in Nat /\ fuel \in Nat
      /\ FuelCost(d, month) = fuel * 550
  <2>1. NumbersOK(d, month)
    BY <1>1, <1>2, RowNumbers, Zenon
  <2> QED  BY <2>1 DEF NumbersOK
<1> HIDE DEF fuel
<1>5. fuel * 550 \in Int /\ fuel * 580 \in Int /\ fuel * 620 \in Int /\ fuel * 600 \in Int
      /\ fuel * 550 <= fuel * 580 /\ fuel * 550 <= fuel * 620 /\ fuel * 550 <= fuel * 600
  BY <1>4
<1>6. fuel * price \in Int /\ fuel * 550 <= fuel * price
  BY <1>3, <1>4, <1>5
<1>7. DayRevenue(d) \in Int
  BY <1>4
<1>8. FuelCost(d, month) <= fuel * price
  BY <1>4, <1>6
<1> QED  BY <1>4, <1>6, <1>7, <1>8 DEF d, month, price, fuel

\* All of them are columns of numbers, one for each row.
LEMMA ColumnTypes ==
  ASSUME NEW rows \in Seq(Rows), Len(rows) <= Len(Months)
  PROVE  LET Column(c) == c \in Seq(Int) /\ Len(c) = Len(rows)
         IN /\ Column(RevenueColumn(rows)) /\ Column(FuelColumn(rows)) /\ Column(VoyageFuelColumn(rows))
            /\ Column(VoyageOpexColumn(rows)) /\ Column(OpexColumn(rows)) /\ Column(EndColumn(rows))
            /\ Column(DailyPortColumn(rows)) /\ Column(BunkerColumn(rows)) /\ Column(StartColumn(rows))
<1> DEFINE n == Len(rows)
           Column(c) == c \in Seq(Int) /\ Len(c) = n
<1>1. /\ n \in Nat /\ DOMAIN rows = 1..n
      /\ \A i \in 1..n : rows[i] \in Rows /\ Months[i] \in 1..12
  <2>1. n \in Nat /\ DOMAIN rows = 1..n /\ \A i \in 1..n : rows[i] \in Rows
    OBVIOUS
  <2>2. Months \in Seq(1..12)
    BY CharterAssumption
  <2>3. \A i \in 1..n : Months[i] \in 1..12
    BY <2>1, <2>2
  <2> QED  BY <2>1, <2>3
<1> HIDE DEF n
<1>2. ASSUME NEW c \in [1..n -> Int] PROVE Column(c)
  BY <1>1
<1> HIDE DEF Column
<1>3. \A i \in 1..n : /\ DayRevenue(rows[i]) \in Int /\ FuelCost(rows[i], Months[i]) \in Int
                      /\ rows[i].fuel * BunkerPriceOf(Months[i]) \in Int
  <2>1. ASSUME NEW i \in 1..n
        PROVE  /\ DayRevenue(rows[i]) \in Int /\ FuelCost(rows[i], Months[i]) \in Int
               /\ rows[i].fuel * BunkerPriceOf(Months[i]) \in Int
    <3>1. FuelCost(rows[i], Months[i]) \in Nat
      BY RowFigures DEF n
    <3>2. DayRevenue(rows[i]) \in Int /\ rows[i].fuel * BunkerPriceOf(Months[i]) \in Int
      BY RowFigures DEF n
    <3> QED  BY <3>1, <3>2
  <2> QED  BY <2>1
<1>4. DailyOpex \in Int /\ PortCost \in Int
  BY DEF DailyOpex, PortCost
<1>5. Column(RevenueColumn(rows))
  <2>1. \A i \in 1..n : (IF InVoyage(rows[i]) THEN DayRevenue(rows[i]) ELSE 0) \in Int
    BY <1>3
  <2>2. RevenueColumn(rows) \in [1..n -> Int]
    BY <1>1, <2>1 DEF RevenueColumn
  <2> QED  BY <1>2, <2>2
<1>6. Column(FuelColumn(rows))
  <2>1. FuelColumn(rows) \in [1..n -> Int]
    BY <1>1, <1>3 DEF FuelColumn
  <2> QED  BY <1>2, <2>1
<1>7. Column(VoyageFuelColumn(rows))
  <2>1. \A i \in 1..n : (IF InVoyage(rows[i]) THEN FuelCost(rows[i], Months[i]) ELSE 0) \in Int
    BY <1>3
  <2>2. VoyageFuelColumn(rows) \in [1..n -> Int]
    BY <1>1, <2>1 DEF VoyageFuelColumn
  <2> QED  BY <1>2, <2>2
<1>8. Column(VoyageOpexColumn(rows)) /\ Column(OpexColumn(rows))
  <2>1. VoyageOpexColumn(rows) \in [1..n -> Int]
    BY <1>1, <1>4 DEF VoyageOpexColumn
  <2>2. OpexColumn(rows) \in [1..n -> Int]
    BY <1>1, <1>4 DEF OpexColumn
  <2> QED  BY <1>2, <2>1, <2>2
<1>9. Column(EndColumn(rows)) /\ Column(DailyPortColumn(rows)) /\ Column(StartColumn(rows))
  <2>1. EndColumn(rows) \in [1..n -> Int]
    BY <1>1, <1>4 DEF EndColumn
  <2>2. DailyPortColumn(rows) \in [1..n -> Int]
    BY <1>1, <1>4 DEF DailyPortColumn
  <2>3. StartColumn(rows) \in [1..n -> Int]
    BY <1>1, <1>4 DEF StartColumn
  <2> QED  BY <1>2, <2>1, <2>2, <2>3
<1>10. Column(BunkerColumn(rows))
  <2>1. BunkerColumn(rows) \in [1..n -> Int]
    BY <1>1, <1>3 DEF BunkerColumn
  <2> QED  BY <1>2, <2>1
<1> QED  BY <1>5, <1>6, <1>7, <1>8, <1>9, <1>10 DEF Column, n

\* Ports: where a leg starts or ends, what is paid follows where the vessel is.
LEMMA PortsPaidPerLeg ==
  ASSUME NEW rows \in Seq(Rows), Len(rows) <= Len(Months)
  PROVE  /\ Total(EndColumn(rows)) \in Int /\ Cardinality(StartsAt(rows)) \in Nat
         /\ Total(EndColumn(rows)) + (IF InLeg(rows, Len(rows)) THEN PortCost ELSE 0)
              = PortCost * Cardinality(StartsAt(rows))
<1> DEFINE n == Len(rows)
           s == EndColumn(rows)
           t == StartColumn(rows)
           g == [i \in 0..n |-> IF InLeg(rows, i) THEN PortCost ELSE 0]
<1>1. n \in Nat /\ DOMAIN rows = 1..n /\ PortCost \in Int
  BY DEF PortCost
<1>2. s \in Seq(Int) /\ Len(s) = n /\ t \in Seq(Int) /\ Len(t) = n
  BY ColumnTypes
<1>3. g \in [0..n -> Int] /\ \A i \in 0..n : g[i] = IF InLeg(rows, i) THEN PortCost ELSE 0
  BY <1>1
<1>4. ASSUME NEW i \in 1..n
      PROVE  /\ s[i] = (IF InLeg(rows, i - 1) /\ ~InLeg(rows, i) THEN PortCost ELSE 0)
             /\ t[i] = (IF InLeg(rows, i) /\ ~InLeg(rows, i - 1) THEN PortCost ELSE 0)
  <2>1. s[i] = (IF InLeg(rows, i - 1) /\ ~InLeg(rows, i) THEN PortCost ELSE 0)
    BY <1>1 DEF EndColumn
  <2>2. t[i] = (IF i \in StartsAt(rows) THEN PortCost ELSE 0)
    BY <1>1 DEF StartColumn
  <2>3. i - 1 \in 1..n <=> i > 1
    BY <1>1
  <2>4. i \in StartsAt(rows) <=> InLeg(rows, i) /\ ~InLeg(rows, i - 1)
    BY <1>1, <2>3 DEF StartsAt, InLeg
  <2> QED  BY <2>1, <2>2, <2>4
<1>5. ~InLeg(rows, 0)
  BY <1>1 DEF InLeg
<1> HIDE DEF n, s, t, g
<1>6. ASSUME NEW i \in 1..n PROVE t[i] = s[i] + g[i] - g[i - 1]
  <2>1. i \in 0..n /\ i - 1 \in 0..n
    BY <1>1
  <2>2. /\ g[i] = (IF InLeg(rows, i) THEN PortCost ELSE 0)
        /\ g[i - 1] = (IF InLeg(rows, i - 1) THEN PortCost ELSE 0)
    BY <1>3, <2>1
  <2>3. /\ s[i] = (IF InLeg(rows, i - 1) /\ ~InLeg(rows, i) THEN PortCost ELSE 0)
        /\ t[i] = (IF InLeg(rows, i) /\ ~InLeg(rows, i - 1) THEN PortCost ELSE 0)
    BY <1>4
  <2> DEFINE now == InLeg(rows, i)
             before == InLeg(rows, i - 1)
  <2> HIDE DEF now, before
  <2>4. /\ g[i] = (IF now THEN PortCost ELSE 0) /\ g[i - 1] = (IF before THEN PortCost ELSE 0)
        /\ s[i] = (IF before /\ ~now THEN PortCost ELSE 0)
        /\ t[i] = (IF now /\ ~before THEN PortCost ELSE 0)
    BY <2>2, <2>3 DEF now, before
  <2> QED  BY <1>1, <2>4
<1>7. Total(s) \in Int /\ Total(t) = Total(s) + g[n] - g[0]
  <2>1. s \in Seq(Int) /\ t \in Seq(Int) /\ Len(t) = Len(s) /\ Len(s) = n
    BY <1>2
  <2>2. g \in [0..Len(s) -> Int] /\ \A i \in 1..Len(s) : t[i] = s[i] + g[i] - g[i - 1]
    BY <1>3, <1>6, <2>1
  <2>3. Total(s) \in Int /\ Total(t) = Total(s) + g[Len(s)] - g[0]
    BY <2>1, <2>2, TotalOfRises, Zenon
  <2> QED  BY <2>1, <2>3
<1>8. g[0] = 0 /\ g[n] = IF InLeg(rows, n) THEN PortCost ELSE 0
  BY <1>1, <1>3, <1>5
<1>9. /\ Cardinality(StartsAt(rows)) \in Nat
      /\ Total(t) = Cardinality(StartsAt(rows)) * PortCost
  <2> DEFINE P == StartsAt(rows)
             Q == {i \in 1..Len(t) : i \in P}
  <2>1. \A i \in 1..Len(t) : t[i] = IF i \in P THEN PortCost ELSE 0
    BY <1>1, <1>2 DEF t, StartColumn, n
  <2>2. Q = P
    BY <1>1, <1>2 DEF StartsAt
  <2> HIDE DEF P
  <2>3. Cardinality(Q) \in Nat /\ Total(t) = Cardinality(Q) * PortCost
    BY <1>1, <1>2, <2>1, TotalOfEqualRows
  <2> QED  BY <2>2, <2>3 DEF P
<1>10. \A m \in Nat : m * PortCost = PortCost * m
  BY <1>1
<1>11. Total(s) + g[n] = PortCost * Cardinality(StartsAt(rows))
  <2> DEFINE paid == Cardinality(StartsAt(rows)) * PortCost
             last == g[n]
  <2>1. paid \in Int /\ last \in Int /\ Total(s) \in Int /\ paid = Total(s) + last - 0
    BY <1>1, <1>7, <1>8, <1>9
  <2>2. paid = PortCost * Cardinality(StartsAt(rows))
    BY <1>9, <1>10
  <2> HIDE DEF paid, last
  <2>3. Total(s) + last = paid
    BY <2>1
  <2> QED  BY <2>2, <2>3 DEF last
<1> QED  BY <1>7, <1>8, <1>9, <1>11 DEF s, n

\* What is charged of a row by one endpoint is never less than by another.
LEMMA RowByRow ==
  ASSUME NEW rows \in Seq(Rows), Len(rows) <= Len(Months)
  PROVE  /\ Total(VoyageFuelColumn(rows)) <= Total(FuelColumn(rows))
         /\ Total(FuelColumn(rows)) <= Total(BunkerColumn(rows))
         /\ Total(EndColumn(rows)) <= Total(DailyPortColumn(rows))
         /\ Total(VoyageOpexColumn(rows)) <= DailyOpex * Len(rows)
<1> DEFINE n == Len(rows)
<1>1. n \in Nat /\ DOMAIN rows = 1..n
  OBVIOUS
<1>2. \A i \in 1..n : /\ FuelCost(rows[i], Months[i]) \in Nat
                      /\ FuelCost(rows[i], Months[i]) <= rows[i].fuel * BunkerPriceOf(Months[i])
  BY RowFigures DEF n
<1>3. Total(VoyageFuelColumn(rows)) <= Total(FuelColumn(rows))
  <2> DEFINE s == VoyageFuelColumn(rows)
             t == FuelColumn(rows)
  <2>1. s \in Seq(Int) /\ t \in Seq(Int) /\ Len(s) = n /\ Len(t) = n
    BY ColumnTypes
  <2>2. \A i \in 1..n : s[i] <= t[i]
    BY <1>1, <1>2 DEF VoyageFuelColumn, FuelColumn
  <2> HIDE DEF s, t
  <2>3. Total(s) <= Total(t)
    BY <2>1, <2>2, TotalIsMonotone
  <2> QED  BY <2>3 DEF s, t
<1>4. Total(FuelColumn(rows)) <= Total(BunkerColumn(rows))
  <2> DEFINE s == FuelColumn(rows)
             t == BunkerColumn(rows)
  <2>1. s \in Seq(Int) /\ t \in Seq(Int) /\ Len(s) = n /\ Len(t) = n
    BY ColumnTypes
  <2>2. \A i \in 1..n : s[i] <= t[i]
    BY <1>1, <1>2 DEF BunkerColumn, FuelColumn
  <2> HIDE DEF s, t
  <2>3. Total(s) <= Total(t)
    BY <2>1, <2>2, TotalIsMonotone
  <2> QED  BY <2>3 DEF s, t
<1>5. Total(EndColumn(rows)) <= Total(DailyPortColumn(rows))
  <2> DEFINE s == EndColumn(rows)
             t == DailyPortColumn(rows)
  <2>1. s \in Seq(Int) /\ t \in Seq(Int) /\ Len(s) = n /\ Len(t) = n
    BY ColumnTypes
  <2>2. \A i \in 1..n : s[i] <= t[i]
    BY <1>1 DEF EndColumn, DailyPortColumn, InLeg, PortCost
  <2> HIDE DEF s, t
  <2>3. Total(s) <= Total(t)
    BY <2>1, <2>2, TotalIsMonotone
  <2> QED  BY <2>3 DEF s, t
<1>6. Total(VoyageOpexColumn(rows)) <= DailyOpex * n
  <2> DEFINE s == VoyageOpexColumn(rows)
             t == OpexColumn(rows)
  <2>1. s \in Seq(Int) /\ t \in Seq(Int) /\ Len(s) = n /\ Len(t) = n
    BY ColumnTypes
  <2>2. \A i \in 1..n : s[i] <= t[i] /\ t[i] = DailyOpex
    BY <1>1 DEF VoyageOpexColumn, OpexColumn, DailyOpex
  <2>3. DailyOpex = 25000
    BY DEF DailyOpex
  <2> HIDE DEF s, t
  <2>4. Total(s) <= Total(t)
    BY <2>1, <2>2, TotalIsMonotone
  <2>5. Total(t) = n * DailyOpex
    <3> DEFINE Q == {i \in 1..Len(t) : i \in 1..n}
    <3>1. Q = 1..n
      BY <2>1
    <3>2. Cardinality(1..n) = n
      <4>1. n \in Int /\ 1 \in Int
        BY <1>1
      <4>2. IsFiniteSet(1..n) /\ Cardinality(1..n) = IF 1 > n THEN 0 ELSE n - 1 + 1
        BY <4>1, FS_Interval, Zenon
      <4> QED  BY <1>1, <4>2
    <3>3. \A i \in 1..Len(t) : t[i] = IF i \in 1..n THEN DailyOpex ELSE 0
      BY <2>1, <2>2
    <3>4. DailyOpex \in Int
      BY <2>3
    <3>5. Total(t) = Cardinality(Q) * DailyOpex
      BY <2>1, <3>3, <3>4, TotalOfEqualRows, Zenon
    <3> QED  BY <3>1, <3>2, <3>5
  <2>6. n * DailyOpex = DailyOpex * n
    BY <1>1, <2>3
  <2> QED  BY <2>4, <2>5, <2>6 DEF s
<1> QED  BY <1>3, <1>4, <1>5, <1>6


LEMMA MoneyOfRows ==
  ASSUME NEW rows \in Seq(Rows), Len(rows) <= Len(Months)
  PROVE  LET pnl == VoyagePnl(rows)
             detail == VoyagePnlDetail(rows)
             compare == VoyageCompare(rows)
         IN /\ pnl.revenue = detail.revenue /\ detail.revenue = compare.revenue
            /\ pnl.ports = PortCost * Starts(rows, InVoyage)
            /\ detail.net <= pnl.net + PortCost
            /\ compare.net = detail.net + detail.ports
            /\ pnl.fuel <= detail.fuel /\ detail.fuel = compare.fuel
            /\ detail.fuel <= BunkerCosts(rows)
<1> DEFINE revenue == Total(RevenueColumn(rows))
           fuel == Total(FuelColumn(rows))
           voyageFuel == Total(VoyageFuelColumn(rows))
           voyageOpex == Total(VoyageOpexColumn(rows))
           opex == DailyOpex * Len(rows)
           ends == Total(EndColumn(rows))
           last == IF InLeg(rows, Len(rows)) THEN PortCost ELSE 0
           daily == Total(DailyPortColumn(rows))
           bunker == Total(BunkerColumn(rows))
           pnl == VoyagePnl(rows)
           detail == VoyagePnlDetail(rows)
           compare == VoyageCompare(rows)
<1>1. /\ revenue \in Int /\ fuel \in Int /\ voyageFuel \in Int /\ voyageOpex \in Int /\ opex \in Int
      /\ ends \in Int /\ last \in Int /\ last <= PortCost /\ daily \in Int /\ bunker \in Int
      /\ PortCost \in Int
  <2>1. \A c \in Seq(Int) : Total(c) \in Int
    BY TotalOfOneMore
  <2>2. opex \in Int /\ last \in Int /\ last <= PortCost /\ PortCost \in Int
    BY DEF DailyOpex, PortCost
  <2> QED  BY <2>1, <2>2, ColumnTypes
<1>2. /\ pnl.revenue = revenue /\ pnl.fuel = voyageFuel /\ pnl.ports = ends + last
      /\ pnl.net = revenue - voyageFuel - (ends + last) - voyageOpex
  BY Figures DEF VoyagePnl
<1>3. /\ detail.revenue = revenue /\ detail.fuel = fuel /\ detail.ports = daily
      /\ detail.net = revenue - fuel - daily - opex
  BY DetailFigures
<1>4. /\ compare.revenue = revenue /\ compare.fuel = fuel
      /\ compare.net = revenue - fuel - opex
  BY Figures DEF VoyageCompare
<1>5. voyageFuel <= fuel /\ fuel <= bunker /\ ends <= daily /\ voyageOpex <= opex
  BY RowByRow
<1>6. ends + last = PortCost * Starts(rows, InVoyage) /\ BunkerCosts(rows) = bunker
  BY Figures, PortsPaidPerLeg
<1> HIDE DEF revenue, fuel, voyageFuel, voyageOpex, opex, ends, last, daily, bunker, pnl, detail, compare
<1>7. detail.net <= pnl.net + PortCost
  BY <1>1, <1>2, <1>3, <1>5
<1>8. compare.net = detail.net + detail.ports
  BY <1>1, <1>3, <1>4
<1>9. /\ pnl.revenue = detail.revenue /\ detail.revenue = compare.revenue
      /\ pnl.ports = PortCost * Starts(rows, InVoyage)
      /\ pnl.fuel <= detail.fuel /\ detail.fuel = compare.fuel
      /\ detail.fuel <= BunkerCosts(rows)
  BY <1>2, <1>3, <1>4, <1>5, <1>6
<1> QED  BY <1>7, <1>8, <1>9 DEF pnl, detail, compare

\* The table holds rows, of no vessel more than there are months for.
TableOK == CharterTypeOK /\ \A s \in Ships : Len(days[s]) <= MaxDays

LEMMA TableInitially == CharterInit => TableOK
<1> SUFFICES ASSUME CharterInit PROVE TableOK
  OBVIOUS
<1>1. <<>> \in Seq(Rows) /\ Len(<<>>) = 0 /\ 0 <= MaxDays
  BY CharterAssumption
<1>2. days = [s \in Ships |-> <<>>]
  BY DEF CharterInit
<1> QED  BY <1>1, <1>2 DEF TableOK, CharterTypeOK

LEMMA TableGrows ==
  ASSUME TableOK, NEW s \in Ships, NEW row \in Rows, AggregateDay(s, row)
  PROVE  TableOK'
<1> DEFINE order == SetToSeq(Ships)
           column == [k \in DOMAIN order |-> Len(days[order[k]])]
<1>1. days \in [Ships -> Seq(Rows)] /\ \A t \in Ships : Len(days[t]) \in Nat /\ Len(days[t]) <= MaxDays
  BY DEF TableOK, CharterTypeOK
<1>2. /\ order \in Seq(Ships) /\ \E k \in 1..Len(order) : order[k] = s
  BY CharterAssumption, Listed
<1>3. Total(column) < MaxDays /\ days' = [days EXCEPT ![s] = Append(@, row)] /\ MaxDays \in Nat
  BY CharterAssumption DEF AggregateDay, RowsStored
<1> HIDE DEF order
<1>4. Len(order) \in Nat /\ DOMAIN order = 1..Len(order) /\ \A k \in 1..Len(order) : order[k] \in Ships
  BY <1>2
<1>5. column \in [1..Len(order) -> Nat] /\ \A k \in 1..Len(order) : column[k] = Len(days[order[k]])
  BY <1>1, <1>4
<1> HIDE DEF column
<1>6. column \in Seq(Nat) /\ Len(column) = Len(order)
  BY <1>4, <1>5
<1>7. PICK k \in 1..Len(order) : order[k] = s
  BY <1>2
<1>8. Total(column) \in Nat /\ column[k] <= Total(column)
  BY <1>6, RowAtMostTotal
<1>9. Len(days[s]) < MaxDays
  <2>1. column[k] = Len(days[s]) /\ Len(days[s]) \in Nat
    BY <1>1, <1>5, <1>7
  <2> QED  BY <1>3, <1>8, <2>1
<1>10. /\ Append(days[s], row) \in Seq(Rows) /\ Len(Append(days[s], row)) = Len(days[s]) + 1
  BY <1>1
<1>11. days' \in [Ships -> Seq(Rows)]
  BY <1>1, <1>3, <1>10
<1>12. ASSUME NEW t \in Ships PROVE Len(days'[t]) <= MaxDays
  <2>1. CASE t = s
    <3>1. days'[t] = Append(days[s], row)
      BY <1>1, <1>3, <2>1
    <3>2. Len(days[s]) \in Nat
      BY <1>1
    <3> QED  BY <1>3, <1>9, <1>10, <3>1, <3>2
  <2>2. CASE t # s
    <3>1. days'[t] = days[t]
      BY <1>1, <1>3, <2>2
    <3> QED  BY <1>1, <3>1
  <2> QED  BY <2>1, <2>2
<1> QED  BY <1>11, <1>12 DEF TableOK, CharterTypeOK

LEMMA TableInvariant == CharterSpec => []TableOK
<1>1. TableOK /\ [CharterNext]_days => TableOK'
  <2>1. TableOK /\ UNCHANGED days => TableOK'
    BY DEF TableOK, CharterTypeOK
  <2> QED  BY <2>1, TableGrows DEF CharterNext
<1> QED  BY <1>1, TableInitially, PTL DEF CharterSpec

\* Whatever rows the aggregation stores, the four endpoints tell the same money: the
\* revenue of voyage_pnl, voyage_pnl_detail and voyage_compare is one, voyage_pnl pays
\* one port for each leg, the daily detail is more favourable by one port at most, and
\* none of the three charges more for fuel than bunker_costs.
THEOREM MoneyCorrect == CharterSpec => []MoneyAgrees
<1>1. TableOK => MoneyAgrees
  <2> SUFFICES ASSUME TableOK, NEW s \in Ships
               PROVE  LET pnl == VoyagePnl(days[s])
                          detail == VoyagePnlDetail(days[s])
                          compare == VoyageCompare(days[s])
                      IN /\ pnl.revenue = detail.revenue /\ detail.revenue = compare.revenue
                         /\ pnl.ports = PortCost * Starts(days[s], InVoyage)
                         /\ detail.net <= pnl.net + PortCost
                         /\ compare.net = detail.net + detail.ports
                         /\ pnl.fuel <= detail.fuel /\ detail.fuel = compare.fuel
                         /\ detail.fuel <= BunkerCosts(days[s])
    BY Zenon DEF MoneyAgrees
  <2>1. days[s] \in Seq(Rows) /\ Len(days[s]) \in Nat /\ Len(days[s]) <= MaxDays
    BY DEF TableOK, CharterTypeOK
  <2>2. MaxDays \in Nat /\ MaxDays <= Len(Months) /\ Len(Months) \in Nat
    BY CharterAssumption
  <2>3. Len(days[s]) <= Len(Months)
    BY <2>1, <2>2
  <2> QED  BY <2>1, <2>3, MoneyOfRows, Zenon
<1> QED  BY <1>1, TableInvariant, PTL

-----------------------------------------------------------------------------
(* The figures of operation.                                               *)

\* A column is added up as one.
ColumnOf(rows, c) == [i \in DOMAIN rows |-> rows[i][c]]
Numbers == {"sog", "dist", "fuel", "weather", "co2", "sfoc", "alarms", "load", "eeoi", "bog"}

\* The columns of a row are numbers.
LEMMA RowFields ==
  ASSUME NEW d \in Rows
  PROVE  d.cargo \in 0..100 /\ \A c \in Numbers : d[c] \in Nat
BY CharterAssumption DEF Numbers

\* The sum of a column is that of its numbers.
LEMMA ColumnSums ==
  ASSUME NEW rows \in Seq(Rows), NEW c \in Numbers
  PROVE  /\ Len(rows) \in Nat /\ DOMAIN rows = 1..Len(rows)
         /\ ColumnOf(rows, c) \in Seq(Nat) /\ Len(ColumnOf(rows, c)) = Len(rows)
         /\ \A i \in 1..Len(rows) : /\ ColumnOf(rows, c)[i] = rows[i][c] /\ rows[i][c] \in Nat
                                    /\ rows[i] \in Rows
         /\ Sum(rows, c) = Total(ColumnOf(rows, c)) /\ Sum(rows, c) \in Nat
<1>1. Len(rows) \in Nat /\ DOMAIN rows = 1..Len(rows) /\ \A i \in 1..Len(rows) : rows[i] \in Rows
  OBVIOUS
<1>2. \A i \in 1..Len(rows) : rows[i][c] \in Nat
  BY <1>1, RowFields
<1>3. ColumnOf(rows, c) \in [1..Len(rows) -> Nat]
  BY <1>1, <1>2 DEF ColumnOf
<1>4. /\ ColumnOf(rows, c) \in Seq(Nat) /\ Len(ColumnOf(rows, c)) = Len(rows)
      /\ \A i \in 1..Len(rows) : ColumnOf(rows, c)[i] = rows[i][c]
  BY <1>1, <1>3 DEF ColumnOf
<1>5. Sum(rows, c) = Total(ColumnOf(rows, c))
  BY DEF Sum, ColumnOf
<1>6. Total(ColumnOf(rows, c)) \in Nat
  BY <1>4, TotalIsNat
<1> QED  BY <1>1, <1>2, <1>4, <1>5, <1>6

\* And so is its mean.
LEMMA MeanIsNat ==
  ASSUME NEW rows \in Seq(Rows), rows # <<>>, NEW c \in Numbers
  PROVE  Mean(rows, c) \in Nat
<1>1. Sum(rows, c) \in Nat /\ Len(rows) \in Nat /\ Len(rows) # 0
  BY ColumnSums
<1>2. 0 * Len(rows) <= Sum(rows, c) /\ Len(rows) \in Nat \ {0} /\ Sum(rows, c) \in Int
  BY <1>1
<1>3. Sum(rows, c) \div Len(rows) \in Int /\ 0 <= Sum(rows, c) \div Len(rows)
  BY <1>2, DivisionBounds
<1> QED  BY <1>3 DEF Mean

\* So is the mean over the days that have the column.
LEMMA MeanKnownIsNat ==
  ASSUME NEW rows \in Seq(Rows), NEW c \in Numbers
  PROVE  MeanKnown(rows, c) \in Nat
<1>1. Sum(rows, c) \in Nat /\ Len(rows) \in Nat /\ DOMAIN rows = 1..Len(rows)
  BY ColumnSums
<1>2. IsFiniteSet(KnownDays(rows, c))
  <2>1. IsFiniteSet(1..Len(rows)) /\ KnownDays(rows, c) \subseteq 1..Len(rows)
    BY <1>1, FS_Interval DEF KnownDays
  <2> QED  BY <2>1, FS_Subset
<1>3. CASE KnownDays(rows, c) = {}
  BY <1>3 DEF MeanKnown
<1>4. CASE KnownDays(rows, c) # {}
  <2> DEFINE n == Cardinality(KnownDays(rows, c))
  <2>1. n \in Nat \ {0}
    BY <1>2, <1>4, FS_CardinalityType, FS_EmptySet
  <2>2. MeanKnown(rows, c) = Sum(rows, c) \div n
    BY <1>4 DEF MeanKnown
  <2> HIDE DEF n
  <2>3. 0 * n <= Sum(rows, c) /\ Sum(rows, c) \in Int
    BY <1>1, <2>1
  <2>4. Sum(rows, c) \div n \in Int /\ 0 <= Sum(rows, c) \div n
    BY <2>1, <2>3, DivisionBounds
  <2> QED  BY <2>2, <2>4
<1> QED  BY <1>3, <1>4

-----------------------------------------------------------------------------
(* Laytime.                                                                *)

\* The days at port, those a stay starts on, and what is counted on each day.
Stopped(rows) == {i \in 1..Len(rows) : AtPort(rows[i])}
StayStarts(rows) == {i \in Stopped(rows) : i - 1 \notin Stopped(rows)}
StayDays(rows) == [i \in 1..Len(rows) |-> IF i \in StayEnds(rows) THEN CurrentStay(rows, i) ELSE 0]

\* What GET /laytime tells, by the places of the days at port.
LEMMA StayPlaces ==
  ASSUME NEW rows \in Seq(Rows)
  PROVE  /\ Len(rows) \in Nat /\ Stopped(rows) \subseteq 1..Len(rows)
         /\ Cardinality(StayEnds(rows)) \in Nat
         /\ StayDays(rows) \in Seq(Int) /\ Len(StayDays(rows)) = Len(rows)
         /\ Count(rows, AtPort) = Cardinality(Stopped(rows))
         /\ Starts(rows, AtPort) = Cardinality(StayStarts(rows))
         /\ StayEnds(rows) = {i \in Stopped(rows) : i + 1 \notin Stopped(rows)}
         /\ Laytime(rows).port_days = Total(StayDays(rows))
         /\ Laytime(rows).calls = Cardinality(StayEnds(rows))
         /\ Laytime(rows).high <=>
              /\ Cardinality(StayEnds(rows)) > 0
              /\ Total(StayDays(rows)) * 240 > 432 * Cardinality(StayEnds(rows))
<1>1. Len(rows) \in Nat /\ DOMAIN rows = 1..Len(rows)
  OBVIOUS
<1>2. Count(rows, AtPort) = Cardinality(Stopped(rows))
  BY <1>1 DEF Count, Stopped
<1>3. StayEnds(rows) = {i \in Stopped(rows) : i + 1 \notin Stopped(rows)}
  BY <1>1 DEF StayEnds, Stopped
<1>4. Starts(rows, AtPort) = Cardinality(StayStarts(rows))
  <2>1. {i \in DOMAIN rows : AtPort(rows[i]) /\ (i > 1 => ~AtPort(rows[i - 1]))} = StayStarts(rows)
    BY <1>1 DEF StayStarts, Stopped
  <2> QED  BY <2>1 DEF Starts
<1>5. /\ Laytime(rows).port_days = Total(StayDays(rows))
      /\ Laytime(rows).calls = Cardinality(StayEnds(rows))
  BY <1>1 DEF Laytime, StayDays
<1>6. Laytime(rows).high <=>
        /\ Cardinality(StayEnds(rows)) > 0
        /\ Total(StayDays(rows)) * 24 * 10 > LaytimeAllowedHours * 12 * Cardinality(StayEnds(rows))
  BY <1>1 DEF Laytime, StayDays
<1>7. Cardinality(StayEnds(rows)) \in Nat
  <2>1. StayEnds(rows) \subseteq 1..Len(rows)
    BY <1>3 DEF Stopped
  <2> QED  BY <1>1, <2>1, Places
<1>8. StayDays(rows) \in Seq(Int) /\ Len(StayDays(rows)) = Len(rows)
  <2>1. ASSUME NEW i \in 1..Len(rows) PROVE CurrentStay(rows, i) \in Nat
    <3>1. {j \in 1..i : \A k \in j..i : AtPort(rows[k])} \subseteq 1..i /\ i \in Nat
      BY <1>1
    <3> QED  BY <3>1, Places DEF CurrentStay
  <2>2. StayDays(rows) \in [1..Len(rows) -> Int]
    BY <2>1 DEF StayDays
  <2> QED  BY <1>1, <2>2
<1>9. Total(StayDays(rows)) \in Int
  BY <1>8, TotalOfOneMore
<1>10. Laytime(rows).high <=>
         /\ Cardinality(StayEnds(rows)) > 0
         /\ Total(StayDays(rows)) * 240 > 432 * Cardinality(StayEnds(rows))
  <2> DEFINE c == Cardinality(StayEnds(rows))
             t == Total(StayDays(rows))
             h == Laytime(rows).high
  <2>1. h <=> c > 0 /\ t * 24 * 10 > 36 * 12 * c
    BY <1>6 DEF LaytimeAllowedHours
  <2>2. c \in Nat /\ t \in Int
    BY <1>7, <1>9
  <2> HIDE DEF c, t, h
  <2>3. (t * 24 * 10 > 36 * 12 * c) <=> (t * 240 > 432 * c)
    BY <2>2, SMT
  <2>4. h <=> c > 0 /\ t * 240 > 432 * c
    BY <2>1, <2>3
  <2> QED  BY <2>4 DEF c, t, h
<1> QED  BY <1>1, <1>2, <1>3, <1>4, <1>5, <1>7, <1>8, <1>10 DEF Stopped

\* A stay that starts ends, and as often.
LEMMA AsManyEndsAsStarts ==
  ASSUME NEW n \in Nat, NEW S, S \subseteq 1..n
  PROVE  Cardinality({i \in S : i + 1 \notin S}) = Cardinality({i \in S : i - 1 \notin S})
<1> DEFINE E == {i \in S : i + 1 \notin S}
           B == {i \in S : i - 1 \notin S}
           s == [i \in 1..n |-> IF i \in B THEN 1 ELSE 0]
           t == [i \in 1..n |-> IF i \in E THEN 1 ELSE 0]
           g == [i \in 0..n |-> IF i \in S /\ i + 1 \in S THEN -1 ELSE 0]
<1>1. E \subseteq 1..n /\ B \subseteq 1..n
  OBVIOUS
<1>2. /\ s \in Seq(Int) /\ Len(s) = n /\ Total(s) = Cardinality(B)
      /\ t \in Seq(Int) /\ Len(t) = n /\ Total(t) = Cardinality(E)
  <2> HIDE DEF E, B
  <2> QED  BY <1>1, TotalOfPlaces
<1>3. g \in [0..n -> Int]
  OBVIOUS
<1>4. ASSUME NEW i \in 1..n PROVE t[i] = s[i] + g[i] - g[i - 1]
  <2>1. i \in 0..n /\ i - 1 \in 0..n /\ i - 1 + 1 = i
    OBVIOUS
  <2>2. /\ g[i] = IF i \in S /\ i + 1 \in S THEN -1 ELSE 0
        /\ g[i - 1] = IF i - 1 \in S /\ i \in S THEN -1 ELSE 0
    BY <2>1
  <2>3. /\ s[i] = IF i \in S /\ i - 1 \notin S THEN 1 ELSE 0
        /\ t[i] = IF i \in S /\ i + 1 \notin S THEN 1 ELSE 0
    OBVIOUS
  <2> HIDE DEF s, t, g
  <2> QED  BY <2>2, <2>3
<1>5. g[0] = 0 /\ g[n] = 0
  OBVIOUS
<1> HIDE DEF s, t, g, E, B
<1>6. Total(s) \in Int /\ Total(t) = Total(s) + g[n] - g[0]
  <2>1. g \in [0..Len(s) -> Int] /\ \A i \in 1..Len(s) : t[i] = s[i] + g[i] - g[i - 1]
    BY <1>2, <1>3, <1>4
  <2>2. Len(t) = Len(s) /\ Len(s) = n
    BY <1>2
  <2>3. Total(s) \in Int /\ Total(t) = Total(s) + g[Len(s)] - g[0]
    BY <1>2, <2>1, <2>2, TotalOfRises, Zenon
  <2> QED  BY <2>2, <2>3
<1>7. Total(t) = Total(s)
  BY <1>5, <1>6
<1> QED  BY <1>2, <1>7 DEF E, B

\* The current stay on a day counts it and the stay of the day before.
LEMMA CurrentStayCounts ==
  ASSUME NEW rows \in Seq(Rows), NEW i \in 1..Len(rows)
  PROVE  /\ CurrentStay(rows, 0) = 0
         /\ CurrentStay(rows, i) \in Nat
         /\ CurrentStay(rows, i) = IF i \in Stopped(rows) THEN CurrentStay(rows, i - 1) + 1 ELSE 0
<1> DEFINE Days(m) == {j \in 1..m : \A k \in j..m : AtPort(rows[k])}
<1>1. Len(rows) \in Nat /\ i \in Nat /\ i - 1 \in Nat /\ i \in 1..i
  OBVIOUS
<1>2. CurrentStay(rows, 0) = 0
  <2>1. Days(0) = {}
    OBVIOUS
  <2>2. CurrentStay(rows, 0) = Cardinality(Days(0))
    BY DEF CurrentStay
  <2> QED  BY <2>1, <2>2, FS_EmptySet
<1>3. CurrentStay(rows, i) = Cardinality(Days(i)) /\ CurrentStay(rows, i - 1) = Cardinality(Days(i - 1))
  BY DEF CurrentStay
<1>4. i \in Stopped(rows) <=> AtPort(rows[i])
  BY DEF Stopped
<1>5. CASE AtPort(rows[i])
  <2>1. Days(i) = Days(i - 1) \cup {i}
    <3>1. ASSUME NEW j \in Days(i), j # i PROVE j \in Days(i - 1)
      BY <1>1, <3>1
    <3>2. ASSUME NEW j \in Days(i - 1) PROVE j \in Days(i)
      <4>1. j \in 1..(i - 1) /\ \A k \in j..(i - 1) : AtPort(rows[k])
        OBVIOUS
      <4>2. \A k \in j..i : k \in j..(i - 1) \/ k = i
        BY <1>1, <4>1
      <4> QED  BY <1>1, <1>5, <4>1, <4>2
    <3>3. i \in Days(i)
      BY <1>1, <1>5
    <3> QED  BY <3>1, <3>2, <3>3
  <2>2. Days(i - 1) \subseteq 1..(i - 1) /\ i \notin Days(i - 1)
    BY <1>1
  <2> HIDE DEF Days
  <2>3. IsFiniteSet(Days(i - 1)) /\ Cardinality(Days(i - 1)) \in Nat
    BY <1>1, <2>2, Places
  <2>4. Cardinality(Days(i - 1) \cup {i}) = Cardinality(Days(i - 1)) + 1
    BY <2>2, <2>3, FS_AddElement
  <2> QED  BY <1>2, <1>3, <1>4, <1>5, <2>1, <2>3, <2>4
<1>6. CASE ~AtPort(rows[i])
  <2>1. Days(i) = {}
    BY <1>1, <1>6
  <2> HIDE DEF Days
  <2>2. CurrentStay(rows, i) = 0
    BY <1>3, <2>1, FS_EmptySet
  <2> QED  BY <1>2, <1>4, <1>6, <2>2
<1> QED  BY <1>5, <1>6

\* What the closed stays have counted so far are the days at port but for the current stay.
LEMMA PortDaysAreCounted ==
  ASSUME NEW rows \in Seq(Rows)
  PROVE  Total(StayDays(rows)) = Cardinality(Stopped(rows))
<1> DEFINE n == Len(rows)
           S == Stopped(rows)
           open == [i \in 0..n |-> IF i \in S /\ i + 1 \in S THEN -CurrentStay(rows, i) ELSE 0]
           t == StayDays(rows)
           s == [i \in 1..n |-> IF i \in S THEN 1 ELSE 0]
<1>1. n \in Nat /\ S \subseteq 1..n /\ t \in Seq(Int) /\ Len(t) = n
      /\ StayEnds(rows) = {i \in S : i + 1 \notin S}
  BY StayPlaces
<1>2. s \in Seq(Int) /\ Len(s) = n /\ Total(s) = Cardinality(S)
  <2> HIDE DEF n, S
  <2> QED  BY <1>1, TotalOfPlaces
<1>3. \A i \in 0..n : CurrentStay(rows, i) \in Int
  <2>1. \A i \in 1..n : CurrentStay(rows, i) \in Nat
    BY CurrentStayCounts
  <2>2. CurrentStay(rows, 0) \in Int
    <3>1. {j \in 1..0 : \A k \in j..0 : AtPort(rows[k])} = {}
      OBVIOUS
    <3> QED  BY <3>1, FS_EmptySet DEF CurrentStay
  <2> QED  BY <1>1, <2>1, <2>2
<1>4. open \in [0..n -> Int]
  BY <1>3
<1>5. ASSUME NEW i \in 1..n PROVE t[i] = s[i] + open[i] - open[i - 1]
  <2>1. i \in 0..n /\ i - 1 \in 0..n /\ i - 1 + 1 = i
    BY <1>1
  <2> DEFINE now == CurrentStay(rows, i)
             before == CurrentStay(rows, i - 1)
  <2>2. /\ open[i] = IF i \in S /\ i + 1 \in S THEN -now ELSE 0
        /\ open[i - 1] = IF i - 1 \in S /\ i \in S THEN -before ELSE 0
    BY <2>1
  <2>3. s[i] = (IF i \in S THEN 1 ELSE 0) /\ t[i] = (IF i \in S /\ i + 1 \notin S THEN now ELSE 0)
    BY <1>1 DEF StayDays
  <2>4. now \in Int /\ before \in Int /\ now = IF i \in S THEN before + 1 ELSE 0
    BY <1>3, <2>1, CurrentStayCounts
  <2>5. i - 1 \notin S => before = 0
    <3>1. CASE i = 1
      BY <3>1, CurrentStayCounts
    <3>2. CASE i # 1
      <4>1. i - 1 \in 1..n
        BY <1>1, <3>2
      <4>2. before = IF i - 1 \in S THEN CurrentStay(rows, i - 1 - 1) + 1 ELSE 0
        BY <4>1, CurrentStayCounts
      <4> QED  BY <4>2
    <3> QED  BY <3>1, <3>2
  <2> HIDE DEF now, before, open, s, t, S
  <2> QED  BY <2>2, <2>3, <2>4, <2>5
<1>6. open[0] = 0 /\ open[n] = 0
  BY <1>1
<1> HIDE DEF n, S, open, s, t
<1>7. Total(s) \in Int /\ Total(t) = Total(s) + open[n] - open[0]
  <2>1. open \in [0..Len(s) -> Int] /\ \A i \in 1..Len(s) : t[i] = s[i] + open[i] - open[i - 1]
    BY <1>2, <1>4, <1>5
  <2>2. Len(t) = Len(s) /\ Len(s) = n
    BY <1>1, <1>2
  <2>3. Total(s) \in Int /\ Total(t) = Total(s) + open[Len(s)] - open[0]
    BY <1>1, <1>2, <2>1, <2>2, TotalOfRises, Zenon
  <2> QED  BY <2>2, <2>3
<1>8. Total(t) = Total(s)
  BY <1>6, <1>7
<1> QED  BY <1>2, <1>8 DEF t, S

\* Calls are stays, days at port are days of stays, and only a long stay makes a high risk.
LEMMA LaytimeHolds ==
  ASSUME NEW rows \in Seq(Rows)
  PROVE  LaytimeAgrees(rows)
<1> DEFINE n == Len(rows)
           S == Stopped(rows)
           calls == Cardinality(StayEnds(rows))
<1>1. /\ n \in Nat /\ S \subseteq 1..n /\ calls \in Nat
      /\ Count(rows, AtPort) = Cardinality(S)
      /\ Starts(rows, AtPort) = Cardinality(StayStarts(rows))
      /\ StayEnds(rows) = {i \in S : i + 1 \notin S}
      /\ Laytime(rows).port_days = Total(StayDays(rows))
      /\ Laytime(rows).calls = calls
      /\ Laytime(rows).high <=> calls > 0 /\ Total(StayDays(rows)) * 240 > 432 * calls
  BY StayPlaces
<1>2. Total(StayDays(rows)) = Cardinality(S)
  BY PortDaysAreCounted
<1>3. calls = Cardinality(StayStarts(rows))
  <2> HIDE DEF n, S
  <2>1. Cardinality({i \in S : i + 1 \notin S}) = Cardinality({i \in S : i - 1 \notin S})
    BY <1>1, AsManyEndsAsStarts
  <2> QED  BY <1>1, <2>1 DEF S, StayStarts
<1>4. ASSUME Laytime(rows).high PROVE \E i \in 2..n : AtPort(rows[i]) /\ AtPort(rows[i - 1])
  <2> SUFFICES ASSUME \A i \in 2..n : ~(AtPort(rows[i]) /\ AtPort(rows[i - 1])) PROVE FALSE
    OBVIOUS
  <2>1. \A i \in S : i - 1 \notin S
    <3>1. ASSUME NEW i \in S, i - 1 \in S PROVE FALSE
      <4>1. i \in 2..n /\ AtPort(rows[i]) /\ AtPort(rows[i - 1])
        BY <1>1, <3>1 DEF Stopped
      <4> QED  BY <4>1
    <3> QED  BY <3>1
  <2>2. StayStarts(rows) = S
    BY <2>1 DEF StayStarts
  <2>3. Total(StayDays(rows)) = calls
    BY <1>2, <1>3, <2>2
  <2>4. calls > 0 /\ calls * 240 > 432 * calls
    BY <1>1, <1>4, <2>3
  <2> HIDE DEF calls
  <2> QED  BY <1>1, <2>4
<1> QED  BY <1>1, <1>2, <1>3, <1>4 DEF LaytimeAgrees

-----------------------------------------------------------------------------
(* Ratings.                                                                *)

\* The cargo of the rows is that of each, and emissions keep below it.
LEMMA CargoSums ==
  ASSUME NEW rows \in Seq(Rows)
  PROVE  LET c == [i \in DOMAIN rows |-> CargoTonnes(rows[i])]
         IN /\ c \in Seq(Nat) /\ Len(c) = Len(rows) /\ Cargo(rows) = Total(c)
            /\ \A i \in 1..Len(rows) : c[i] = CargoTonnes(rows[i]) /\ c[i] \in Nat
            /\ Cargo(rows) \in Nat
            /\ Sum(rows, "co2") * 100 <= 80 * Cargo(rows)
<1> DEFINE c == [i \in DOMAIN rows |-> CargoTonnes(rows[i])]
           e == ColumnOf(rows, "co2")
           n == Len(rows)
<1>1. n \in Nat /\ DOMAIN rows = 1..n /\ \A i \in 1..n : rows[i] \in Rows
  OBVIOUS
<1>2. \A d \in Rows : /\ CargoTonnes(d) \in Nat /\ d.co2 \in Nat
                      /\ d.co2 * 100 <= 80 * CargoTonnes(d)
  <2>1. ASSUME NEW d \in Rows PROVE CargoTonnes(d) \in Nat /\ d.co2 \in Nat
    <3>1. "co2" \in Numbers
      BY DEF Numbers
    <3>2. d.cargo \in 0..100 /\ d.co2 \in Nat
      BY <3>1, RowFields
    <3>3. PICK x \in 0..100 : x = d.cargo
      BY <3>2, Zenon
    <3>4. x * 783 \in Nat
      OBVIOUS
    <3>5. CargoTonnes(d) = x * 783
      BY <3>3, Zenon DEF CargoTonnes
    <3> QED  BY <3>2, <3>4, <3>5
  <2>2. CiiBoundaries.A = 80
    BY DEF CiiBoundaries
  <2> QED  BY <2>1, <2>2, EmissionAssumption
<1>3. c \in [1..n -> Nat] /\ \A i \in 1..n : c[i] = CargoTonnes(rows[i]) /\ c[i] \in Nat
  BY <1>1, <1>2
<1>4. Cargo(rows) = Total(c)
  BY DEF Cargo
<1>5. /\ e \in Seq(Nat) /\ Len(e) = n /\ Sum(rows, "co2") = Total(e) /\ Sum(rows, "co2") \in Nat
      /\ \A i \in 1..n : e[i] = rows[i].co2 /\ rows[i].co2 \in Nat
  <2>1. "co2" \in Numbers
    BY DEF Numbers
  <2> QED  BY <2>1, ColumnSums
<1>6. \A i \in 1..n : e[i] * 100 <= 80 * c[i]
  BY <1>1, <1>2, <1>3, <1>5
<1> HIDE DEF c, e
<1>7. c \in Seq(Nat) /\ Len(c) = n
  BY <1>1, <1>3
<1>8. Total(c) \in Nat
  BY <1>7, TotalIsNat
<1>9. Total(e) * 100 <= 80 * Total(c)
  <2> DEFINE s == [i \in 1..n |-> e[i] * 100]
             t == [i \in 1..n |-> 80 * c[i]]
  <2>1. /\ s \in Seq(Int) /\ Len(s) = n /\ \A i \in 1..n : s[i] = e[i] * 100
        /\ t \in Seq(Int) /\ Len(t) = n /\ \A i \in 1..n : t[i] = 80 * c[i]
    <3>1. \A i \in 1..n : e[i] * 100 \in Int /\ 80 * c[i] \in Int
      <4>1. ASSUME NEW i \in 1..n PROVE e[i] \in Int /\ c[i] \in Int
        BY <1>3, <1>5
      <4> QED  BY <4>1
    <3>2. s \in [1..n -> Int] /\ t \in [1..n -> Int]
      BY <3>1
    <3> QED  BY <1>1, <3>2
  <2> HIDE DEF s, t
  <2>2. Total(s) <= Total(t)
    BY <1>6, <2>1, TotalIsMonotone
  <2>3. Total(s) = Total(e) * 100
    <3>1. e \in Seq(Int)
      BY <1>5
    <3> QED  BY <1>5, <2>1, <3>1, TotalOfMultiple
  <2>4. Total(t) = Total(c) * 80
    <3>1. \A i \in 1..n : t[i] = c[i] * 80
      BY <1>3, <2>1
    <3>2. c \in Seq(Int)
      BY <1>7
    <3> QED  BY <1>7, <2>1, <3>1, <3>2, TotalOfMultiple
  <2> QED  BY <1>5, <1>8, <2>2, <2>3, <2>4
<1> QED  BY <1>1, <1>3, <1>4, <1>5, <1>7, <1>8, <1>9 DEF c

\* A vessel that sailed has done work enough for its emissions.
LEMMA SailedIsRatedA ==
  ASSUME NEW rows \in Seq(Rows)
  PROVE  CarbonRating(rows) = IF \E i \in DOMAIN rows : rows[i].dist > 0 THEN "A" ELSE "E"
<1> DEFINE n == Len(rows)
           d == ColumnOf(rows, "dist")
           dist == Sum(rows, "dist")
           co2 == Sum(rows, "co2")
           cargo == IF Cargo(rows) = 0 THEN 1 ELSE Cargo(rows)
           work == dist * cargo
<1>1. /\ n \in Nat /\ DOMAIN rows = 1..n /\ d \in Seq(Nat) /\ Len(d) = n /\ dist = Total(d) /\ dist \in Nat
      /\ \A i \in 1..n : d[i] = rows[i].dist /\ rows[i].dist \in Nat
  <2>1. "dist" \in Numbers
    BY DEF Numbers
  <2> QED  BY <2>1, ColumnSums
<1>2. co2 \in Nat /\ Cargo(rows) \in Nat /\ co2 * 100 <= 80 * Cargo(rows)
  <2>1. "co2" \in Numbers
    BY DEF Numbers
  <2> QED  BY <2>1, ColumnSums, CargoSums
<1>3. cargo \in Nat \ {0} /\ Cargo(rows) <= cargo
  BY <1>2
<1>4. CiiScore(rows) = IF work > 0 THEN (co2 * 100 + work - 1) \div work ELSE 99900
  BY DEF CiiScore
<1> HIDE DEF d, dist, co2, cargo, work
<1>5. CASE \E i \in DOMAIN rows : rows[i].dist > 0
  <2>1. PICK i \in 1..n : rows[i].dist > 0
    BY <1>1, <1>5
  <2>2. dist > 0
    BY <1>1, <2>1, TotalIsPositive
  <2>3. work \in Nat \ {0} /\ cargo <= work
    <3>1. \A x, y \in Nat \ {0} : x * y \in Nat \ {0} /\ y <= x * y
      BY ProductIsNoLess
    <3> QED  BY <1>1, <1>3, <2>2, <3>1 DEF work
  <2>4. co2 * 100 + work - 1 \in Int /\ co2 * 100 + work - 1 < 81 * work
    BY <1>2, <1>3, <2>3
  <2>5. CiiScore(rows) \in Int /\ CiiScore(rows) <= 80
    <3> DEFINE x == co2 * 100 + work - 1
               q == x \div work
    <3>1. x \in Int /\ ~(81 * work <= x)
      BY <2>3, <2>4
    <3> HIDE DEF x
    <3>2. q \in Int /\ (q >= 81 => 81 * work <= x)
      BY <2>3, <3>1, DivisionBounds
    <3>3. q <= 80
      <4> HIDE DEF q
      <4> QED  BY <3>1, <3>2
    <3>4. CiiScore(rows) = q
      BY <1>4, <2>3 DEF x
    <3> QED  BY <3>2, <3>3, <3>4
  <2>6. CiiBoundaries.A = 80 /\ CiiBoundaries.B = 89 /\ CiiBoundaries.C = 100 /\ CiiBoundaries.D = 110
    BY DEF CiiBoundaries
  <2>7. CarbonRating(rows) = "A"
    BY <2>5, <2>6 DEF CarbonRating
  <2> QED  BY <1>5, <2>7
<1>6. CASE ~\E i \in DOMAIN rows : rows[i].dist > 0
  <2>1. \A i \in 1..Len(d) : d[i] = 0
    BY <1>1, <1>6
  <2>2. dist = 0
    <3>1. d \in Seq(Int)
      BY <1>1
    <3> QED  BY <1>1, <2>1, <3>1, TotalOfZeros
  <2>3. work = 0
    BY <1>3, <2>2 DEF work
  <2>4. CiiScore(rows) = 99900
    BY <1>4, <2>3
  <2>5. CiiBoundaries.A = 80 /\ CiiBoundaries.B = 89 /\ CiiBoundaries.C = 100 /\ CiiBoundaries.D = 110
    BY DEF CiiBoundaries
  <2> QED  BY <1>6, <2>4, <2>5 DEF CarbonRating
<1> QED  BY <1>5, <1>6

\* If no day was compliant, the mean speed is below the warranted one.
LEMMA NoneCompliant ==
  ASSUME NEW rows \in Seq(Rows), Count(rows, DayCompliant) = 0
  PROVE  CountedCompliant(rows)
<1> DEFINE n == Len(rows)
           c == ColumnOf(rows, "sog")
           t == [i \in 1..n |-> ServiceSpeed]
           P == {i \in DOMAIN rows : DayCompliant(rows[i])}
<1>1. "sog" \in Numbers /\ "weather" \in Numbers
  BY DEF Numbers
<1>2. /\ n \in Nat /\ DOMAIN rows = 1..n /\ c \in Seq(Nat) /\ Len(c) = n /\ Sum(rows, "sog") = Total(c)
      /\ \A i \in 1..n : c[i] = rows[i].sog /\ rows[i].sog \in Nat /\ rows[i] \in Rows
  BY <1>1, ColumnSums
<1>3. ServiceSpeed \in Nat \ {0}
  BY CharterAssumption
<1>4. P = {}
  <2>1. Cardinality(P) = 0
    BY DEF Count
  <2>2. P \subseteq 1..n
    BY <1>2
  <2>3. IsFiniteSet(P)
    BY <1>2, <2>2, Places
  <2> HIDE DEF P
  <2> QED  BY <2>1, <2>3, FS_EmptySet
<1>5. \A i \in 1..n : c[i] <= ServiceSpeed
  <2>1. ASSUME NEW i \in 1..n PROVE rows[i].sog <= ServiceSpeed
    <3>1. rows[i].sog \in Nat /\ rows[i].weather \in Nat
      BY <1>1, <1>2, RowFields
    <3>2. ~((rows[i].sog + rows[i].weather) * 100 >= ServiceSpeed * 95)
      BY <1>2, <1>4 DEF DayCompliant, WeatherCorrectedSpeed
    <3> DEFINE a == rows[i].sog
               b == rows[i].weather
    <3>3. a \in Nat /\ b \in Nat /\ ~((a + b) * 100 >= ServiceSpeed * 95)
      BY <3>1, <3>2
    <3> HIDE DEF a, b
    <3>4. a <= ServiceSpeed
      BY <1>3, <3>3
    <3> QED  BY <3>4 DEF a
  <2> QED  BY <1>2, <2>1
<1>6. t \in Seq(Int) /\ Len(t) = n /\ \A i \in 1..n : t[i] = ServiceSpeed
  <2>1. t \in [1..n -> Int]
    BY <1>3
  <2> QED  BY <1>2, <2>1
<1>7. c \in Seq(Int)
  BY <1>2
<1> HIDE DEF c, t, n
<1>8. Total(c) \in Int /\ Total(c) <= Total(t)
  BY <1>2, <1>5, <1>6, <1>7, TotalIsMonotone
<1>9. Total(t) = n * ServiceSpeed
  BY <1>2, <1>3, <1>6, TotalOfConstant
<1>10. n * ServiceSpeed \in Nat /\ 5 * ServiceSpeed * n \in Nat
  BY <1>2, <1>3
<1>11. (Total(c) - n * ServiceSpeed) * 100 <= 0
  BY <1>8, <1>9, <1>10
<1> QED  BY <1>2, <1>8, <1>10, <1>11 DEF CountedCompliant, n

\* The share of boil-off is a mean: no day's share exceeds all others.
LEMMA BogIsAMean ==
  ASSUME NEW rows \in Seq(Rows), rows # <<>>, \A i \in DOMAIN rows : rows[i].cargo > 0
  PROVE  LET bog == BogImpact(rows)
             Share(i) == rows[i].bog * 24 * (bog.over \div Len(rows))
         IN \E i, j \in DOMAIN rows : /\ Share(i) <= bog.of * CargoTonnes(rows[i])
                                      /\ Share(j) >= bog.of * CargoTonnes(rows[j])
<1> DEFINE n == Len(rows)
           b == ColumnOf(rows, "bog")
           c == [i \in DOMAIN rows |-> CargoTonnes(rows[i])]
           B == Total(b)
           C == Total(c)
           over == BogImpact(rows).over \div n
<1>1. "bog" \in Numbers
  BY DEF Numbers
<1>2. /\ n \in Nat /\ DOMAIN rows = 1..n /\ b \in Seq(Nat) /\ Len(b) = n /\ Sum(rows, "bog") = B
      /\ \A i \in 1..n : b[i] = rows[i].bog /\ rows[i].bog \in Nat
  BY <1>1, ColumnSums
<1>3. /\ c \in Seq(Nat) /\ Len(c) = n /\ Cargo(rows) = C /\ C \in Nat /\ C > 0
      /\ \A i \in 1..n : c[i] = CargoTonnes(rows[i]) /\ CargoTonnes(rows[i]) \in Nat
  <2>1. /\ c \in Seq(Nat) /\ Len(c) = n /\ Cargo(rows) = C /\ C \in Nat
        /\ \A i \in 1..n : c[i] = CargoTonnes(rows[i]) /\ CargoTonnes(rows[i]) \in Nat
    BY CargoSums
  <2>2. 1 \in 1..n
    BY <1>2
  <2>3. c[1] > 0
    <3>1. rows[1] \in Rows /\ rows[1].cargo > 0
      BY <1>2, <2>2
    <3>2. rows[1].cargo \in 0..100
      BY <3>1, RowFields
    <3>3. c[1] = rows[1].cargo * 783
      BY <2>1, <2>2 DEF CargoTonnes
    <3> DEFINE x == rows[1].cargo
    <3>4. x \in 0..100 /\ x > 0 /\ c[1] = x * 783
      BY <3>1, <3>2, <3>3
    <3> HIDE DEF x
    <3>5. x * 783 > 0
      BY <3>4
    <3> HIDE DEF c
    <3> QED  BY <3>4, <3>5
  <2> HIDE DEF c
  <2>4. Total(c) > 0
    BY <2>1, <2>2, <2>3, TotalIsPositive
  <2> QED  BY <2>1, <2>4
<1>4. n \in Nat \ {0} /\ B \in Nat
  <2>1. n # 0
    BY <1>2
  <2> QED  BY <1>2, <2>1, TotalIsNat
<1>5. BogImpact(rows).of = B * 24 /\ BogImpact(rows).over = n * C
  <2>1. Cargo(rows) # 0
    BY <1>3
  <2> QED  BY <1>2, <1>3, <2>1 DEF BogImpact
<1> HIDE DEF b, c, B, C
<1>6. over = C
  <2>1. n * C \in Int /\ C * n = n * C
    BY <1>3, <1>4
  <2>2. (n * C) \div n = C
    BY <1>3, <1>4, <2>1, ExactQuotient
  <2> QED  BY <1>5, <2>2
<1> DEFINE s == [i \in 1..n |-> b[i] * C]
           t == [i \in 1..n |-> c[i] * B]
<1>7. /\ s \in Seq(Int) /\ Len(s) = n /\ \A i \in 1..n : s[i] = b[i] * C
      /\ t \in Seq(Int) /\ Len(t) = n /\ \A i \in 1..n : t[i] = c[i] * B
      /\ \A i \in 1..n : s[i] \in Int /\ t[i] \in Int
  <2>1. \A i \in 1..n : b[i] * C \in Int /\ c[i] * B \in Int
    BY <1>2, <1>3, <1>4
  <2>2. s \in [1..n -> Int] /\ t \in [1..n -> Int]
    BY <2>1
  <2> QED  BY <1>4, <2>2
<1> HIDE DEF s, t
<1>8. Total(s) = B * C /\ Total(t) = C * B /\ B * C = C * B /\ B * C \in Int
  <2>1. b \in Seq(Int) /\ c \in Seq(Int)
    BY <1>2, <1>3
  <2>2. Total(s) = B * C
    <3>1. Len(s) = Len(b) /\ \A i \in 1..Len(b) : s[i] = b[i] * C
      BY <1>2, <1>7
    <3>2. C \in Int /\ s \in Seq(Int)
      BY <1>3, <1>7
    <3>3. Total(s) = Total(b) * C
      BY <2>1, <3>1, <3>2, TotalOfMultiple, Zenon
    <3> QED  BY <3>3 DEF B
  <2>3. Total(t) = C * B
    <3>1. Len(t) = Len(c) /\ \A i \in 1..Len(c) : t[i] = c[i] * B
      BY <1>3, <1>7
    <3>2. B \in Int /\ t \in Seq(Int)
      BY <1>4, <1>7
    <3>3. Total(t) = Total(c) * B
      BY <2>1, <3>1, <3>2, TotalOfMultiple, Zenon
    <3> QED  BY <3>3 DEF C
  <2> QED  BY <1>3, <1>4, <2>2, <2>3
<1>9. /\ \E i \in 1..n : s[i] <= t[i]
      /\ \E j \in 1..n : s[j] >= t[j]
  <2>1. /\ n \in Nat \ {0} /\ s \in Seq(Int) /\ t \in Seq(Int) /\ Len(s) = n /\ Len(t) = n
        /\ Total(s) = Total(t)
    BY <1>4, <1>7, <1>8
  <2> HIDE DEF n
  <2> QED  BY <2>1, SomeAbove, Zenon
<1>10. ASSUME NEW i \in 1..n
       PROVE  /\ s[i] <= t[i] => rows[i].bog * 24 * over <= BogImpact(rows).of * CargoTonnes(rows[i])
              /\ s[i] >= t[i] => rows[i].bog * 24 * over >= BogImpact(rows).of * CargoTonnes(rows[i])
  <2> DEFINE x == rows[i].bog
             y == CargoTonnes(rows[i])
  <2>1. x \in Nat /\ y \in Nat /\ s[i] = x * C /\ t[i] = y * B
    BY <1>2, <1>3, <1>7
  <2> HIDE DEF x, y
  <2>2. x * 24 * C = 24 * (x * C) /\ B * 24 * y = 24 * (y * B) /\ x * C \in Int /\ y * B \in Int
    BY <1>3, <1>4, <2>1
  <2>3. /\ x * C <= y * B => x * 24 * C <= B * 24 * y
        /\ x * C >= y * B => x * 24 * C >= B * 24 * y
    BY <2>2
  <2>4. /\ s[i] <= t[i] => x * 24 * over <= BogImpact(rows).of * y
        /\ s[i] >= t[i] => x * 24 * over >= BogImpact(rows).of * y
    BY <1>5, <1>6, <2>1, <2>3
  <2> QED  BY <2>4 DEF x, y
<1> HIDE DEF over
<1>11. PICK i \in 1..n, j \in 1..n : s[i] <= t[i] /\ s[j] >= t[j]
  BY <1>9
<1>12. /\ rows[i].bog * 24 * over <= BogImpact(rows).of * CargoTonnes(rows[i])
       /\ rows[j].bog * 24 * over >= BogImpact(rows).of * CargoTonnes(rows[j])
  BY <1>10, <1>11
<1>13. i \in DOMAIN rows /\ j \in DOMAIN rows
  BY <1>2
<1> QED  BY <1>12, <1>13 DEF over

-----------------------------------------------------------------------------
(* The risk of off-hire.                                                   *)

\* The first and the last days of a vessel with enough of them are days.
LEMMA RiskRows ==
  ASSUME NEW rows \in Seq(Rows), HasRisk(rows)
  PROVE  /\ FirstRows(rows) \in Seq(Rows) /\ Len(FirstRows(rows)) = RiskWindow
         /\ LastRows(rows) \in Seq(Rows) /\ Len(LastRows(rows)) = RiskWindow
         /\ RiskWindow \in Nat /\ RiskWindow >= 2
<1>1. RiskWindow \in Nat /\ RiskWindow >= 2
  BY CharterAssumption
<1>2. Len(rows) \in Nat /\ Len(rows) >= 2 * RiskWindow /\ \A i \in 1..Len(rows) : rows[i] \in Rows
  BY DEF HasRisk
<1>3. ASSUME NEW m \in 1..Len(rows), NEW n \in m..Len(rows), n - m + 1 = RiskWindow
      PROVE  SubSeq(rows, m, n) \in Seq(Rows) /\ Len(SubSeq(rows, m, n)) = RiskWindow
  <2>1. SubSeq(rows, m, n) = [i \in 1..(n - m + 1) |-> rows[i + m - 1]]
    OBVIOUS
  <2>2. SubSeq(rows, m, n) \in [1..RiskWindow -> Rows]
    BY <1>1, <1>2, <1>3, <2>1
  <2> QED  BY <1>1, <2>2
<1>4. /\ 1 \in 1..Len(rows) /\ RiskWindow \in 1..Len(rows) /\ RiskWindow - 1 + 1 = RiskWindow
      /\ Len(rows) - RiskWindow + 1 \in 1..Len(rows) /\ Len(rows) \in (Len(rows) - RiskWindow + 1)..Len(rows)
      /\ Len(rows) - (Len(rows) - RiskWindow + 1) + 1 = RiskWindow
  BY <1>1, <1>2
<1>5. FirstRows(rows) \in Seq(Rows) /\ Len(FirstRows(rows)) = RiskWindow
  BY <1>3, <1>4 DEF FirstRows
<1>6. LastRows(rows) \in Seq(Rows) /\ Len(LastRows(rows)) = RiskWindow
  BY <1>3, <1>4 DEF LastRows
<1> QED  BY <1>1, <1>5, <1>6

\* A rise and a fall are never negative.
LEMMA RiseIsNat ==
  ASSUME NEW before \in Nat, NEW after \in Int
  PROVE  Rise(before, after) \in Nat /\ Fall(before, after) \in Nat
<1>1. ASSUME NEW a \in Int PROVE Rise(before, a) \in Nat
  <2>1. CASE before = 0
    BY <2>1 DEF Rise
  <2>2. CASE before # 0
    <3> DEFINE x == (a - before) * 100
    <3>1. x \in Int /\ before \in Nat \ {0}
      BY <2>2
    <3> HIDE DEF x
    <3>2. x \div before \in Int
      BY <3>1, DivisionBounds
    <3>3. Rise(before, a) = NotNegative(x \div before)
      BY <2>2 DEF Rise, x
    <3> QED  BY <3>2, <3>3 DEF NotNegative
  <2> QED  BY <2>1, <2>2
<1>2. 2 * before - after \in Int
  OBVIOUS
<1> QED  BY <1>1, <1>2 DEF Fall

\* The deviation of the load is a number.
LEMMA DeviationIsInt ==
  ASSUME NEW rows \in Seq(Rows), Len(rows) >= 2
  PROVE  LoadDeviation(rows) \in Int
<1> DEFINE mean == Mean(rows, "load")
           off(i) == rows[i].load - mean
           squares == [i \in DOMAIN rows |-> off(i) * off(i)]
           variance == Total(squares) \div (Len(rows) - 1)
<1>1. "load" \in Numbers /\ Len(rows) \in Nat /\ DOMAIN rows = 1..Len(rows)
  BY DEF Numbers
<1>2. mean \in Nat
  <2>1. rows # <<>>
    BY <1>1
  <2> QED  BY <1>1, <2>1, MeanIsNat
<1>3. \A i \in 1..Len(rows) : rows[i].load \in Nat
  BY <1>1, ColumnSums
<1> HIDE DEF mean
<1>4. \A i \in 1..Len(rows) : off(i) * off(i) \in Nat
  <2>1. ASSUME NEW x \in Int PROVE x * x \in Nat
    <3>1. CASE x >= 0
      BY <3>1
    <3>2. CASE x < 0
      <4>1. -x \in Nat /\ x * x = (-x) * (-x)
        BY <3>2
      <4> DEFINE y == -x
      <4>2. y \in Nat /\ x * x = y * y
        BY <4>1
      <4> HIDE DEF y
      <4>3. y * y \in Nat
        BY <4>2
      <4> QED  BY <4>2, <4>3
    <3> QED  BY <3>1, <3>2
  <2>2. \A i \in 1..Len(rows) : off(i) \in Int
    BY <1>2, <1>3
  <2> QED  BY <2>1, <2>2
<1> HIDE DEF off
<1>5. squares \in Seq(Nat)
  <2>1. squares \in [1..Len(rows) -> Nat]
    BY <1>1, <1>4
  <2> HIDE DEF squares
  <2> QED  BY <1>1, <2>1
<1> HIDE DEF squares
<1>6. variance \in Nat
  <2>1. Total(squares) \in Nat /\ Len(rows) - 1 \in Nat \ {0}
    BY <1>1, <1>5, TotalIsNat
  <2>2. 0 * (Len(rows) - 1) <= Total(squares) /\ Total(squares) \in Int
    BY <2>1
  <2> QED  BY <2>1, <2>2, DivisionBounds
<1>7. LoadDeviation(rows) =
        CHOOSE root \in 0..variance : root * root <= variance /\ variance < (root + 1) * (root + 1)
  BY DEF LoadDeviation, squares, off, mean
<1> HIDE DEF variance
<1>8. LoadDeviation(rows) \in 0..variance
  BY <1>6, <1>7, SquareRoot
<1> QED  BY <1>6, <1>8

\* Alarms, load and age alone do not make a high risk.
LEMMA HighRiskHasCause ==
  ASSUME NEW rows \in Seq(Rows), HasRisk(rows)
  PROVE  OffhireRisk(rows).level = "high" => OffhireRisk(rows).speed + OffhireRisk(rows).sfoc > 0
<1> DEFINE first == FirstRows(rows)
           last == LastRows(rows)
           speed == Fall(Sum(first, "sog"), Sum(last, "sog"))
           sfoc == Rise(Mean(first, "sfoc"), Mean(last, "sfoc"))
           alarms == AtMost(100, Sum(last, "alarms") * 2)
           load == AtMost(100, LoadDeviation(last) * 10)
           score == speed * 30 + sfoc * 25 + alarms * 20 + load * 15 + 1000
<1>1. /\ first \in Seq(Rows) /\ Len(first) = RiskWindow /\ last \in Seq(Rows) /\ Len(last) = RiskWindow
      /\ RiskWindow \in Nat /\ RiskWindow >= 2 /\ first # <<>> /\ last # <<>>
  <2>1. /\ first \in Seq(Rows) /\ Len(first) = RiskWindow /\ last \in Seq(Rows) /\ Len(last) = RiskWindow
        /\ RiskWindow \in Nat /\ RiskWindow >= 2
    BY RiskRows
  <2> HIDE DEF first, last
  <2> QED  BY <2>1
<1>2. /\ OffhireRisk(rows).speed = speed /\ OffhireRisk(rows).sfoc = sfoc
      /\ OffhireRisk(rows).level = CASE score < 2500 -> "low"
                                     [] score >= 2500 /\ score < 5000 -> "medium"
                                     [] OTHER -> "high"
  BY DEF OffhireRisk
<1>3. "sog" \in Numbers /\ "sfoc" \in Numbers /\ "alarms" \in Numbers
  BY DEF Numbers
<1> HIDE DEF first, last
<1>4. speed \in Nat /\ sfoc \in Nat
  <2>1. Sum(first, "sog") \in Nat /\ Sum(last, "sog") \in Int
    BY <1>1, <1>3, ColumnSums
  <2>2. Mean(first, "sfoc") \in Nat /\ Mean(last, "sfoc") \in Int
    BY <1>1, <1>3, MeanIsNat
  <2> QED  BY <2>1, <2>2, RiseIsNat
<1>5. alarms \in Int /\ alarms <= 100 /\ load \in Int /\ load <= 100
  <2>1. ASSUME NEW x \in Int PROVE AtMost(100, x) \in Int /\ AtMost(100, x) <= 100
    BY DEF AtMost
  <2>2. Sum(last, "alarms") * 2 \in Int
    BY <1>1, <1>3, ColumnSums
  <2>3. LoadDeviation(last) * 10 \in Int
    BY <1>1, DeviationIsInt
  <2> QED  BY <2>1, <2>2, <2>3
<1> HIDE DEF speed, sfoc, alarms, load
<1>6. ASSUME speed = 0, sfoc = 0 PROVE score \in Int /\ score < 5000
  BY <1>5, <1>6
<1>7. ASSUME speed = 0, sfoc = 0 PROVE OffhireRisk(rows).level # "high"
  <2>1. score \in Int /\ score < 5000
    BY <1>6, <1>7
  <2> HIDE DEF score
  <2> QED  BY <1>2, <2>1
<1> QED  BY <1>2, <1>4, <1>7

\* The ratings say what the rows make of them.
LEMMA RatingsHold ==
  ASSUME NEW rows \in Seq(Rows)
  PROVE  RatingsAgree(rows)
<1>1. Count(rows, DayCompliant) = 0 => CountedCompliant(rows)
  BY NoneCompliant
<1>2. CarbonRating(rows) = IF \E i \in DOMAIN rows : rows[i].dist > 0 THEN "A" ELSE "E"
  BY SailedIsRatedA
<1>3. HasRisk(rows) =>
        (OffhireRisk(rows).level = "high" => OffhireRisk(rows).speed + OffhireRisk(rows).sfoc > 0)
  BY HighRiskHasCause
<1>4. LET bog == BogImpact(rows)
          Share(i) == rows[i].bog * 24 * (bog.over \div Len(rows))
      IN rows # <<>> /\ (\A i \in DOMAIN rows : rows[i].cargo > 0) =>
           \E i, j \in DOMAIN rows : /\ Share(i) <= bog.of * CargoTonnes(rows[i])
                                     /\ Share(j) >= bog.of * CargoTonnes(rows[j])
  BY BogIsAMean
<1> QED  BY <1>1, <1>2, <1>3, <1>4, Zenon DEF RatingsAgree

-----------------------------------------------------------------------------
(* The benchmark.                                                          *)

\* Below the market, what is nearer to it scores no less.
LEMMA NearerScoresMore ==
  ASSUME NEW n \in Nat \ {0}, NEW a \in Int, NEW b \in Int, a <= b, b <= n
  PROVE  Score(a, n) \in Int /\ Score(b, n) \in Int /\ Score(a, n) <= Score(b, n)
<1> DEFINE x == (a - n) * 100
           y == (b - n) * 100
           p == x \div n
           q == y \div n
<1>1. x \in Int /\ y \in Int /\ x <= y /\ y <= 0 * n
  OBVIOUS
<1>2. Score(a, n) = NotNegative(100 - Abs(p)) /\ Score(b, n) = NotNegative(100 - Abs(q))
  BY DEF Score
<1> HIDE DEF x, y
<1>3. p \in Int /\ q \in Int /\ q <= 0
  BY <1>1, DivisionBounds
<1>4. p <= q
  <2>1. p * n <= x
    <3> DEFINE k == p
    <3>1. k \in Int /\ x \div n >= k
      BY <1>3
    <3> HIDE DEF k
    <3>2. k * n <= x
      BY <1>1, <3>1, DivisionBounds
    <3> QED  BY <3>2 DEF k
  <2> HIDE DEF p
  <2>2. p * n <= y
    <3>1. p * n \in Int
      BY <1>3
    <3> QED  BY <1>1, <2>1, <3>1
  <2> QED  BY <1>1, <1>3, <2>2, DivisionBounds
<1> HIDE DEF p, q
<1> QED  BY <1>2, <1>3, <1>4 DEF NotNegative, Abs

\* Vessels alike but for their consumption differ in one score alone.
LEMMA BenchmarkHolds == TableOK => BenchmarkAgrees
<1> SUFFICES ASSUME TableOK PROVE BenchmarkAgrees
  OBVIOUS
<1> DEFINE Plain(rows) == [i \in DOMAIN rows |-> [rows[i] EXCEPT !.sfoc = 0]]
<1>1. ASSUME NEW u \in Seq(Rows), NEW v \in Seq(Rows), u # <<>>, Plain(u) = Plain(v),
             MeanKnown(u, "sfoc") <= MeanKnown(v, "sfoc"), MeanKnown(v, "sfoc") <= Market.sfoc
      PROVE  BenchmarkScore(u) <= BenchmarkScore(v)
  <2>1. DOMAIN u = 1..Len(u) /\ DOMAIN v = 1..Len(v) /\ Len(u) \in Nat /\ Len(v) \in Nat
    OBVIOUS
  <2>2. Len(u) = Len(v) /\ v # <<>>
    <3>1. DOMAIN Plain(u) = DOMAIN u /\ DOMAIN Plain(v) = DOMAIN v
      OBVIOUS
    <3>2. DOMAIN u = DOMAIN v
      BY <1>1, <3>1
    <3>3. Len(u) = Len(v)
      <4>1. 1..Len(u) = 1..Len(v)
        BY <2>1, <3>2
      <4>2. \A m, n \in Nat : 1..m = 1..n => m = n
        <5>1. ASSUME NEW m \in Nat, NEW n \in Nat, m < n PROVE 1..m # 1..n
          <6>1. n \in 1..n /\ n \notin 1..m
            BY <5>1
          <6> QED  BY <6>1
        <5> QED  BY <5>1
      <4> QED  BY <2>1, <4>1, <4>2
    <3> QED  BY <1>1, <2>1, <3>3
  <2>3. ASSUME NEW c \in {"eeoi", "bog", "sog"}
        PROVE  /\ Mean(u, c) = Mean(v, c) /\ Mean(u, c) \in Nat
               /\ MeanKnown(u, c) = MeanKnown(v, c) /\ MeanKnown(u, c) \in Nat
    <3>1. c \in Numbers
      BY DEF Numbers
    <3>2. ASSUME NEW i \in 1..Len(u) PROVE u[i][c] = v[i][c]
      <4>1. [u[i] EXCEPT !.sfoc = 0] = [v[i] EXCEPT !.sfoc = 0]
        <5>1. Plain(u)[i] = [u[i] EXCEPT !.sfoc = 0] /\ Plain(v)[i] = [v[i] EXCEPT !.sfoc = 0]
          BY <2>1, <2>2
        <5> QED  BY <1>1, <5>1
      <4>2. u[i] \in Rows /\ v[i] \in Rows
        BY <2>1, <2>2
      <4>3. c \in DOMAIN u[i] /\ c \in DOMAIN v[i] /\ c # "sfoc"
        BY <4>2, CharterAssumption
      <4>4. [u[i] EXCEPT !.sfoc = 0][c] = u[i][c] /\ [v[i] EXCEPT !.sfoc = 0][c] = v[i][c]
        BY <4>3
      <4> QED  BY <4>1, <4>4
    <3>3. ColumnOf(u, c) = ColumnOf(v, c)
      BY <2>1, <2>2, <3>2 DEF ColumnOf
    <3>4. Sum(u, c) = Sum(v, c)
      BY <3>1, <3>3, ColumnSums
    <3>5. Mean(u, c) = Mean(v, c)
      BY <2>2, <3>4 DEF Mean
    <3>6. KnownDays(u, c) = KnownDays(v, c)
      BY <2>1, <2>2, <3>2 DEF KnownDays
    <3>7. MeanKnown(u, c) = MeanKnown(v, c)
      BY <3>4, <3>6 DEF MeanKnown
    <3> QED  BY <1>1, <3>1, <3>5, <3>7, MeanIsNat, MeanKnownIsNat
  <2>4. MeanKnown(u, "sfoc") \in Nat /\ MeanKnown(v, "sfoc") \in Nat /\ "sfoc" \in Numbers
    <3>1. "sfoc" \in Numbers
      BY DEF Numbers
    <3> QED  BY <1>1, <2>2, <3>1, MeanKnownIsNat
  <2>5. Market.sfoc = 162 /\ Market.eeoi = 42 /\ Market.bog = 15 /\ Market.sog = 195
    BY DEF Market
  <2>6. /\ Score(MeanKnown(u, "sfoc"), 162) \in Int /\ Score(MeanKnown(v, "sfoc"), 162) \in Int
        /\ Score(MeanKnown(u, "sfoc"), 162) <= Score(MeanKnown(v, "sfoc"), 162)
    <3>1. /\ MeanKnown(u, "sfoc") \in Int /\ MeanKnown(v, "sfoc") \in Int /\ 162 \in Nat \ {0}
          /\ MeanKnown(u, "sfoc") <= MeanKnown(v, "sfoc") /\ MeanKnown(v, "sfoc") <= 162
      BY <1>1, <2>4, <2>5
    <3> QED  BY <3>1, NearerScoresMore, Zenon
  <2>7. ASSUME NEW x \in Nat, NEW n \in Nat \ {0} PROVE Score(x, n) \in Int
    <3> DEFINE y == (x - n) * 100
    <3>1. y \in Int
      OBVIOUS
    <3> HIDE DEF y
    <3>2. y \div n \in Int
      BY <3>1, DivisionBounds
    <3>3. Score(x, n) = NotNegative(100 - Abs(y \div n))
      BY DEF Score, y
    <3> QED  BY <3>2, <3>3 DEF NotNegative, Abs
  <2>8. /\ 42 \in Nat \ {0} /\ 15 \in Nat \ {0} /\ 195 \in Nat \ {0}
        /\ MeanKnown(u, "eeoi") \in Nat /\ Mean(u, "bog") \in Nat /\ Mean(u, "sog") \in Nat
        /\ MeanKnown(u, "eeoi") = MeanKnown(v, "eeoi") /\ Mean(u, "bog") = Mean(v, "bog")
        /\ Mean(u, "sog") = Mean(v, "sog")
    BY <2>3
  <2>9. /\ Score(MeanKnown(u, "eeoi"), 42) \in Int /\ Score(Mean(u, "bog"), 15) \in Int
        /\ Score(Mean(u, "sog"), 195) \in Int
        /\ Score(MeanKnown(v, "eeoi"), 42) = Score(MeanKnown(u, "eeoi"), 42)
        /\ Score(Mean(v, "bog"), 15) = Score(Mean(u, "bog"), 15)
        /\ Score(Mean(v, "sog"), 195) = Score(Mean(u, "sog"), 195)
    BY <2>7, <2>8, Zenon
  <2>10. BenchmarkScore(u) = Score(MeanKnown(u, "sfoc"), 162) + Score(MeanKnown(u, "eeoi"), 42)
                            + Score(Mean(u, "bog"), 15) + Score(Mean(u, "sog"), 195)
    BY <2>5 DEF BenchmarkScore
  <2>11. BenchmarkScore(v) = Score(MeanKnown(v, "sfoc"), 162) + Score(MeanKnown(u, "eeoi"), 42)
                             + Score(Mean(u, "bog"), 15) + Score(Mean(u, "sog"), 195)
    BY <2>5, <2>9 DEF BenchmarkScore
  <2> QED  BY <2>6, <2>9, <2>10, <2>11
<1>2. \A s \in Ships : days[s] \in Seq(Rows)
  BY DEF TableOK, CharterTypeOK
<1> QED  BY <1>1, <1>2 DEF BenchmarkAgrees

-----------------------------------------------------------------------------
(* Utilization.                                                            *)

\* The rows of a day are under way, at port, idle or, which no count takes, laden and slow.
LEMMA DayIsCounted ==
  ASSUME TableOK, NEW day
  PROVE  LET counts == Timeseries(day)
         IN counts.laden + counts.ballast + counts.port + counts.idle + Vessels(day, LadenIdle)
              = Cardinality(DayRows(day))
<1> DEFINE row(s) == days[s][day]
           D == DayRows(day)
           A == {s \in D : LadenUnderWay(row(s))}
           B == {s \in D : BallastUnderWay(row(s))}
           P == {s \in D : AtPort(row(s))}
           I == {s \in D : Idle(row(s))}
           L == {s \in D : LadenIdle(row(s))}
<1>1. IsFiniteSet(D)
  <2>1. D \subseteq Ships
    BY DEF DayRows
  <2>2. IsFiniteSet(Ships)
    BY CharterAssumption
  <2> QED  BY <2>1, <2>2, FS_Subset
<1>2. ASSUME NEW s \in D
      PROVE  /\ \/ LadenUnderWay(row(s)) \/ BallastUnderWay(row(s)) \/ AtPort(row(s))
                \/ Idle(row(s)) \/ LadenIdle(row(s))
             /\ LadenUnderWay(row(s)) =>
                  ~(BallastUnderWay(row(s)) \/ AtPort(row(s)) \/ Idle(row(s)) \/ LadenIdle(row(s)))
             /\ BallastUnderWay(row(s)) => ~(AtPort(row(s)) \/ Idle(row(s)) \/ LadenIdle(row(s)))
             /\ AtPort(row(s)) => ~(Idle(row(s)) \/ LadenIdle(row(s)))
             /\ Idle(row(s)) => ~LadenIdle(row(s))
  <2>1. row(s) \in Rows
    <3>1. days[s] \in Seq(Rows) /\ day \in DOMAIN days[s]
      BY DEF TableOK, CharterTypeOK, DayRows
    <3> QED  BY <3>1
  <2> DEFINE d == row(s)
             c == d.cargo
             v == d.sog
  <2>2. "sog" \in Numbers
    BY DEF Numbers
  <2>3. c \in 0..100 /\ v \in Nat
    BY <2>1, <2>2, RowFields
  <2>4. /\ LadenUnderWay(d) <=> c > 30 /\ v > 50
        /\ BallastUnderWay(d) <=> c <= 30 /\ v > 50
        /\ AtPort(d) <=> v <= 20
        /\ Idle(d) <=> c <= 30 /\ v <= 50 /\ v > 20
    BY DEF LadenUnderWay, BallastUnderWay, AtPort, Idle
  <2>5. LadenIdle(d) <=> c > 30 /\ Status(d) = "idle"
    BY DEF LadenIdle
  <2>6. Status(d) = "idle" <=> ~LadenUnderWay(d) /\ ~BallastUnderWay(d) /\ ~AtPort(d)
    BY DEF Status
  <2> HIDE DEF d, c, v
  <2>7. /\ \/ LadenUnderWay(d) \/ BallastUnderWay(d) \/ AtPort(d) \/ Idle(d) \/ LadenIdle(d)
        /\ LadenUnderWay(d) => ~(BallastUnderWay(d) \/ AtPort(d) \/ Idle(d) \/ LadenIdle(d))
        /\ BallastUnderWay(d) => ~(AtPort(d) \/ Idle(d) \/ LadenIdle(d))
        /\ AtPort(d) => ~(Idle(d) \/ LadenIdle(d))
        /\ Idle(d) => ~LadenIdle(d)
    BY <2>3, <2>4, <2>5, <2>6
  <2> QED  BY <2>7 DEF d
<1> DEFINE slow == I \cup L
           still == P \cup slow
           others == B \cup still
<1>3. /\ D = A \cup others /\ A \cap others = {} /\ B \cap still = {}
      /\ P \cap slow = {} /\ I \cap L = {}
  <2> HIDE DEF D, row
  <2> QED  BY <1>2
<1>4. /\ Timeseries(day).laden = Cardinality(A) /\ Timeseries(day).ballast = Cardinality(B)
      /\ Timeseries(day).port = Cardinality(P) /\ Timeseries(day).idle = Cardinality(I)
      /\ Vessels(day, LadenIdle) = Cardinality(L)
  BY DEF Timeseries, Vessels
<1> HIDE DEF A, B, P, I, L, D
<1>5. slow = I \cup L /\ still = P \cup slow /\ others = B \cup still
  OBVIOUS
<1> HIDE DEF slow, still, others
<1>6. /\ IsFiniteSet(others) /\ Cardinality(A) \in Nat /\ Cardinality(others) \in Nat
      /\ Cardinality(D) = Cardinality(A) + Cardinality(others)
  <2>1. D = A \cup others /\ IsFiniteSet(A \cup others) /\ A \cap others = {}
    BY <1>1, <1>3
  <2>2. /\ IsFiniteSet(others) /\ Cardinality(A) \in Nat /\ Cardinality(others) \in Nat
        /\ Cardinality(A \cup others) = Cardinality(A) + Cardinality(others)
    BY <2>1, Parts, Zenon
  <2> QED  BY <2>1, <2>2
<1>7. /\ IsFiniteSet(still) /\ Cardinality(B) \in Nat /\ Cardinality(still) \in Nat
      /\ Cardinality(others) = Cardinality(B) + Cardinality(still)
  <2>1. others = B \cup still /\ IsFiniteSet(B \cup still) /\ B \cap still = {}
    BY <1>3, <1>5, <1>6
  <2>2. /\ IsFiniteSet(still) /\ Cardinality(B) \in Nat /\ Cardinality(still) \in Nat
        /\ Cardinality(B \cup still) = Cardinality(B) + Cardinality(still)
    BY <2>1, Parts, Zenon
  <2> QED  BY <2>1, <2>2
<1>8. /\ IsFiniteSet(slow) /\ Cardinality(P) \in Nat /\ Cardinality(slow) \in Nat
      /\ Cardinality(still) = Cardinality(P) + Cardinality(slow)
  <2>1. still = P \cup slow /\ IsFiniteSet(P \cup slow) /\ P \cap slow = {}
    BY <1>3, <1>5, <1>7
  <2>2. /\ IsFiniteSet(slow) /\ Cardinality(P) \in Nat /\ Cardinality(slow) \in Nat
        /\ Cardinality(P \cup slow) = Cardinality(P) + Cardinality(slow)
    BY <2>1, Parts, Zenon
  <2> QED  BY <2>1, <2>2
<1>9. /\ IsFiniteSet(L) /\ Cardinality(I) \in Nat /\ Cardinality(L) \in Nat
      /\ Cardinality(slow) = Cardinality(I) + Cardinality(L)
  <2>1. slow = I \cup L /\ IsFiniteSet(I \cup L) /\ I \cap L = {}
    BY <1>3, <1>5, <1>8
  <2>2. /\ IsFiniteSet(L) /\ Cardinality(I) \in Nat /\ Cardinality(L) \in Nat
        /\ Cardinality(I \cup L) = Cardinality(I) + Cardinality(L)
    BY <2>1, Parts, Zenon
  <2> QED  BY <2>1, <2>2
<1>10. Cardinality(A) + Cardinality(B) + Cardinality(P) + Cardinality(I) + Cardinality(L) = Cardinality(D)
  BY <1>6, <1>7, <1>8, <1>9
<1> QED  BY <1>4, <1>10, Zenon DEF D

\* The newest day of all vessels is the newest of one.
LEMMA LastDayIsLast ==
  ASSUME TableOK, Ships # {}
  PROVE  LastDay \in Nat /\ \A s \in Ships : Len(days[s]) <= LastDay
<1> DEFINE S == {Len(days[s]) : s \in Ships}
<1>1. S \subseteq Nat /\ S # {} /\ MaxDays \in Nat /\ \A m \in S : m <= MaxDays
  <2>1. \A s \in Ships : Len(days[s]) \in Nat /\ Len(days[s]) <= MaxDays
    BY DEF TableOK, CharterTypeOK
  <2>2. MaxDays \in Nat
    BY CharterAssumption
  <2> QED  BY <2>1, <2>2
<1>2. \A n \in S : (\A s \in Ships : Len(days[s]) <= n) <=> (\A m \in S : m <= n)
  OBVIOUS
<1>3. LastDay = CHOOSE n \in S : \A s \in Ships : Len(days[s]) <= n
  BY DEF LastDay
<1>4. \E n \in S : \A s \in Ships : Len(days[s]) <= n
  <2> HIDE DEF S
  <2>1. \E n \in S : \A m \in S : m <= n
    BY <1>1, Greatest
  <2> QED  BY <1>2, <2>1
<1> HIDE DEF S
<1> QED  BY <1>1, <1>3, <1>4

\* The window of a vessel has one day more than the period.
LEMMA WindowIsShort ==
  ASSUME TableOK, NEW s \in Ships
  PROVE  LET w == UtilizationWindow(s, "postgres")
         IN Len(w) \in Nat /\ DOMAIN w = 1..Len(w) /\ Len(w) <= UsePeriod + 1
<1> DEFINE rows == days[s]
           first == NotNegative(LastDay - UsePeriod - 1) + 1
           w == SubSeq(rows, first, Len(rows))
<1>1. rows \in Seq(Rows) /\ Len(rows) \in Nat
  BY DEF TableOK, CharterTypeOK
<1>2. LastDay \in Nat /\ Len(rows) <= LastDay /\ UsePeriod \in Nat
  BY LastDayIsLast, CharterAssumption
<1>3. first \in Nat /\ 1 <= first /\ LastDay - UsePeriod <= first
  BY <1>2 DEF NotNegative
<1>4. UtilizationWindow(s, "postgres") = w
  BY DEF UtilizationWindow
<1> HIDE DEF rows, first
<1>5. w = [i \in 1..(Len(rows) - first + 1) |-> rows[i + first - 1]]
  BY <1>1, <1>3
<1>6. CASE first <= Len(rows)
  <2>1. Len(rows) - first + 1 \in Nat
    BY <1>1, <1>3, <1>6
  <2>2. w \in Seq(Rows) /\ Len(w) = Len(rows) - first + 1
    <3>1. \A i \in 1..(Len(rows) - first + 1) : rows[i + first - 1] \in Rows
      BY <1>1, <1>3
    <3>2. w \in [1..(Len(rows) - first + 1) -> Rows]
      BY <1>5, <3>1
    <3> HIDE DEF w
    <3> QED  BY <2>1, <3>2
  <2> HIDE DEF w
  <2> QED  BY <1>1, <1>2, <1>3, <1>4, <2>1, <2>2
<1>7. CASE ~(first <= Len(rows))
  <2>1. w = <<>>
    <3>1. 1..(Len(rows) - first + 1) = {}
      BY <1>1, <1>3, <1>7
    <3> QED  BY <1>5, <3>1
  <2> HIDE DEF w
  <2> QED  BY <1>2, <1>4, <2>1
<1> QED  BY <1>6, <1>7

\* A day is counted by kinds, and a window of days under way is at most one over the period.
LEMMA UtilizationHolds == TableOK => UtilizationAgrees
<1> SUFFICES ASSUME TableOK PROVE UtilizationAgrees
  OBVIOUS
<1>1. UsePeriod \in Nat \ {0}
  BY CharterAssumption
<1>2. ASSUME NEW s \in Ships, NEW engine
      PROVE  \E S : /\ S \subseteq DOMAIN UtilizationWindow(s, engine)
                    /\ Utilization30d(s, engine) = (Cardinality(S) * 100) \div UsePeriod
  <2> DEFINE w == UtilizationWindow(s, engine)
             S == {i \in DOMAIN w : LadenUnderWay(w[i]) \/ BallastUnderWay(w[i])}
  <2>1. Utilization30d(s, engine) = (Cardinality(S) * 100) \div UsePeriod
    BY DEF Utilization30d, Count
  <2>2. S \subseteq DOMAIN w
    OBVIOUS
  <2> QED  BY <2>1, <2>2
<1>3. ASSUME NEW s \in Ships
      PROVE  Utilization30d(s, "postgres") * UsePeriod <= 100 * (UsePeriod + 1)
  <2> DEFINE n == Len(UtilizationWindow(s, "postgres"))
  <2>1. n \in Nat /\ DOMAIN UtilizationWindow(s, "postgres") = 1..n /\ n <= UsePeriod + 1
    BY WindowIsShort
  <2>2. PICK S : S \subseteq 1..n /\ Utilization30d(s, "postgres") = (Cardinality(S) * 100) \div UsePeriod
    BY <1>2, <2>1
  <2> HIDE DEF n
  <2>3. Cardinality(S) \in Nat /\ Cardinality(S) <= n
    BY <2>1, <2>2, Places
  <2> DEFINE x == Cardinality(S) * 100
             q == x \div UsePeriod
  <2>4. x \in Int /\ x <= 100 * (UsePeriod + 1)
    BY <1>1, <2>1, <2>3
  <2> HIDE DEF x
  <2>5. q \in Int
    BY <1>1, <2>4, DivisionBounds
  <2>6. q * UsePeriod <= x
    <3> DEFINE k == q
    <3>1. k \in Int /\ x \div UsePeriod >= k
      BY <2>5
    <3> HIDE DEF k
    <3>2. k * UsePeriod <= x
      BY <1>1, <2>4, <3>1, DivisionBounds
    <3> QED  BY <3>2 DEF k
  <2>7. Utilization30d(s, "postgres") = q
    BY <2>2 DEF x
  <2> HIDE DEF q
  <2>8. q * UsePeriod \in Int /\ 100 * (UsePeriod + 1) \in Int
    BY <1>1, <2>5
  <2> QED  BY <2>4, <2>6, <2>7, <2>8
<1>4. ASSUME NEW s \in Ships PROVE Utilization30d(s, "sqlite") = 0
  <2>1. DOMAIN UtilizationWindow(s, "sqlite") = {}
    BY DEF UtilizationWindow
  <2>2. PICK S : S \subseteq {} /\ Utilization30d(s, "sqlite") = (Cardinality(S) * 100) \div UsePeriod
    BY <1>2, <2>1
  <2>3. Cardinality(S) = 0
    <3>1. S = {}
      BY <2>2
    <3> QED  BY <3>1, FS_EmptySet
  <2>4. Utilization30d(s, "sqlite") = 0 \div UsePeriod
    BY <2>2, <2>3
  <2>5. (UsePeriod * 0) \div UsePeriod = 0 /\ UsePeriod * 0 = 0
    BY <1>1, ExactQuotient
  <2> QED  BY <2>4, <2>5
<1>5. \A day \in 1..LastDay :
        LET counts == Timeseries(day)
        IN counts.laden + counts.ballast + counts.port + counts.idle + Vessels(day, LadenIdle)
             = Cardinality(DayRows(day))
  BY DayIsCounted, Zenon
<1> QED  BY <1>3, <1>4, <1>5, Zenon DEF UtilizationAgrees

\* The figures of operation told by eight endpoints are consistent: laytime counts every
\* day at port once, the ratings say what their rows make of them, a day's counts miss the
\* laden and slow alone, and the benchmark prefers what is near the market.
THEOREM OperationCorrect == CharterSpec => []OperationAgrees
<1>1. TableOK => OperationAgrees
  <2> SUFFICES ASSUME TableOK PROVE OperationAgrees
    OBVIOUS
  <2>1. \A s \in Ships : days[s] \in Seq(Rows)
    BY DEF TableOK, CharterTypeOK
  <2>2. \A s \in Ships : LaytimeAgrees(days[s]) /\ RatingsAgree(days[s])
    BY <2>1, LaytimeHolds, RatingsHold
  <2> QED  BY <2>2, UtilizationHolds, BenchmarkHolds DEF OperationAgrees
<1> QED  BY <1>1, TableInvariant, PTL

-----------------------------------------------------------------------------
(* The baseline: a list of days under way has a median, and one only.      *)
Below(ks, k) == {i \in UnderWay(ks) : ks[i] < k}
NotAbove(ks, k) == {i \in UnderWay(ks) : ks[i] <= k}
IsMedian(ks, k) ==
  /\ k \in {ks[i] : i \in UnderWay(ks)}
  /\ Cardinality(Below(ks, k)) <= Cardinality(UnderWay(ks)) \div 2
  /\ Cardinality(UnderWay(ks)) \div 2 < Cardinality(NotAbove(ks, k))

\* The days under way are places of the list, their coefficients above zero.
LEMMA DaysUnderWay ==
  ASSUME NEW ks \in Seq(Nat)
  PROVE  /\ UnderWay(ks) \subseteq 1..Len(ks) /\ Len(ks) \in Nat
         /\ \A i \in UnderWay(ks) : ks[i] \in Nat \ {0}
BY DEF UnderWay

\* The least day that half of the days and one more do not exceed is a median.
LEMMA MedianExists ==
  ASSUME NEW ks \in Seq(Nat), UnderWay(ks) # {}
  PROVE  \E k : IsMedian(ks, k)
<1> DEFINE U == UnderWay(ks)
           half == Cardinality(U) \div 2
           High == {k \in {ks[i] : i \in U} : half < Cardinality(NotAbove(ks, k))}
<1>1. /\ U \subseteq 1..Len(ks) /\ Len(ks) \in Nat
      /\ \A i \in U : ks[i] \in Nat \ {0}
  BY DaysUnderWay
<1>2. Cardinality(U) \in Nat \ {0}
  <2>1. IsFiniteSet(U) /\ Cardinality(U) \in Nat
    BY <1>1, Places
  <2> QED  BY <2>1, FS_EmptySet
<1>3. half \in Nat /\ half < Cardinality(U)
  <2> HIDE DEF U
  <2> QED  BY <1>2
<1>4. {ks[i] : i \in U} \subseteq Nat /\ \A k \in {ks[i] : i \in U} : k <= Total(ks)
  <2>1. \A i \in 1..Len(ks) : ks[i] <= Total(ks)
    BY RowAtMostTotal
  <2> QED  BY <1>1, <2>1
<1>5. Total(ks) \in Nat
  BY TotalIsNat
<1>6. High # {}
  <2>1. {ks[i] : i \in U} # {}
    OBVIOUS
  <2> HIDE DEF U, half
  <2>2. PICK top \in {ks[i] : i \in U} : \A k \in {ks[i] : i \in U} : k <= top
    BY <1>4, <1>5, <2>1, Greatest
  <2>3. NotAbove(ks, top) = U
    BY <2>2 DEF NotAbove, U
  <2>4. top \in High
    BY <1>3, <2>2, <2>3
  <2> QED  BY <2>4
<1>7. PICK k \in High : \A l \in High : k <= l
  <2>1. High \subseteq Nat
    BY <1>4
  <2> HIDE DEF High
  <2> QED  BY <1>6, <2>1, Least
<1>8. k \in {ks[i] : i \in U} /\ k \in Nat /\ half < Cardinality(NotAbove(ks, k))
  BY <1>4, <1>7
<1>9. Cardinality(Below(ks, k)) <= half
  <2>1. CASE Below(ks, k) = {}
    BY <1>3, <2>1, FS_EmptySet
  <2>2. CASE Below(ks, k) # {}
    <3> DEFINE Values == {ks[i] : i \in Below(ks, k)}
    <3>1. Values \subseteq Nat /\ Values # {} /\ \A l \in Values : l <= k
      <4>1. PICK i : i \in Below(ks, k)
        BY <2>2
      <4>2. ks[i] \in Values
        BY <4>1
      <4>3. \A j \in Below(ks, k) : ks[j] \in Nat /\ ks[j] <= k
        BY <1>1, <1>8 DEF Below
      <4> QED  BY <4>2, <4>3
    <3>2. PICK below \in Values : \A l \in Values : l <= below
      <4> HIDE DEF Values
      <4> QED  BY <1>8, <3>1, Greatest
    <3>3. below \in {ks[i] : i \in U} /\ below < k
      BY <3>2 DEF Below
    <3>4. Below(ks, k) = NotAbove(ks, below)
      <4>1. ASSUME NEW i \in U, ks[i] < k PROVE ks[i] <= below
        <5>1. ks[i] \in Values
          BY <4>1 DEF Below
        <5> QED  BY <3>2, <5>1
      <4>2. ASSUME NEW i \in U, ks[i] <= below PROVE ks[i] < k
        <5>1. ks[i] \in Nat /\ below \in Nat /\ k \in Nat
          BY <1>1, <1>4, <1>8, <3>3
        <5> HIDE DEF U
        <5> QED  BY <3>3, <4>2, <5>1
      <4> QED  BY <4>1, <4>2 DEF Below, NotAbove
    <3>5. below \notin High
      <4> HIDE DEF High
      <4>1. below \in Nat
        BY <1>4, <3>3
      <4> QED  BY <1>7, <1>8, <3>3, <4>1
    <3>6. ~(half < Cardinality(NotAbove(ks, below)))
      BY <3>3, <3>5
    <3>7. Cardinality(NotAbove(ks, below)) \in Nat
      <4>1. NotAbove(ks, below) \subseteq 1..Len(ks)
        BY <1>1 DEF NotAbove
      <4> QED  BY <1>1, <4>1, Places
    <3> HIDE DEF U, half, High
    <3> QED  BY <1>3, <3>4, <3>6, <3>7
  <2> QED  BY <2>1, <2>2
<1> QED  BY <1>8, <1>9 DEF IsMedian

\* Of two medians the lower would have more than half of the days at or below it, and all
\* these below the higher.
LEMMA MedianIsOne ==
  ASSUME NEW ks \in Seq(Nat), NEW k, NEW l, IsMedian(ks, k), IsMedian(ks, l)
  PROVE  k = l
<1>1. /\ UnderWay(ks) \subseteq 1..Len(ks) /\ Len(ks) \in Nat
      /\ \A i \in UnderWay(ks) : ks[i] \in Nat \ {0}
  BY DaysUnderWay
<1>2. Cardinality(UnderWay(ks)) \div 2 \in Nat
  <2>1. Cardinality(UnderWay(ks)) \in Nat
    BY <1>1, Places
  <2> QED  BY <2>1
<1>3. ASSUME NEW a, NEW b, IsMedian(ks, a), IsMedian(ks, b), a < b
      PROVE  FALSE
  <2>1. a \in Nat /\ b \in Nat
    BY <1>1, <1>3 DEF IsMedian
  <2>2. NotAbove(ks, a) \subseteq Below(ks, b) /\ Below(ks, b) \subseteq 1..Len(ks)
    BY <1>1, <1>3, <2>1 DEF NotAbove, Below
  <2>3. /\ Cardinality(NotAbove(ks, a)) <= Cardinality(Below(ks, b))
        /\ Cardinality(NotAbove(ks, a)) \in Nat /\ Cardinality(Below(ks, b)) \in Nat
    BY <1>1, <2>2, MorePlaces, Places
  <2> QED  BY <1>2, <1>3, <2>3 DEF IsMedian
<1>4. k \in Nat /\ l \in Nat
  BY <1>1 DEF IsMedian
<1>5. ~(k < l) /\ ~(l < k)
  BY <1>3
<1> QED  BY <1>4, <1>5

\* The baseline of a list is its median.
LEMMA BaselineIsMedian ==
  ASSUME NEW ks \in Seq(Nat), UnderWay(ks) # {}
  PROVE  /\ IsMedian(ks, Baseline(ks)) /\ Baseline(ks) \in Nat \ {0}
         /\ \A k : IsMedian(ks, k) => k = Baseline(ks)
<1>1. IsMedian(ks, Baseline(ks))
  <2>1. PICK k : IsMedian(ks, k)
    BY MedianExists
  <2>2. k \in {ks[i] : i \in UnderWay(ks)}
        /\ Cardinality({i \in UnderWay(ks) : ks[i] < k}) <= Cardinality(UnderWay(ks)) \div 2
        /\ Cardinality(UnderWay(ks)) \div 2 < Cardinality({i \in UnderWay(ks) : ks[i] <= k})
    BY <2>1 DEF IsMedian, Below, NotAbove
  <2> QED  BY <2>2 DEF Baseline, IsMedian, Below, NotAbove
<1>2. Baseline(ks) \in Nat \ {0}
  BY <1>1, DaysUnderWay DEF IsMedian
<1> QED  BY <1>1, <1>2, MedianIsOne

-----------------------------------------------------------------------------
(* Rows, their mean deviation, and what it bounds.                         *)
Levels == {"clean", "light", "moderate", "heavy"}
HullRow == [dev : Int, level : Levels, rough : Int, qpc : Int]
DevColumn(rows) == [i \in DOMAIN rows |-> rows[i].dev]

LEMMA RowFacts ==
  ASSUME NEW rows \in Seq(HullRow)
  PROVE  /\ Len(rows) \in Nat /\ DOMAIN rows = 1..Len(rows)
         /\ DevColumn(rows) \in Seq(Int) /\ Len(DevColumn(rows)) = Len(rows)
         /\ \A i \in 1..Len(rows) : /\ DevColumn(rows)[i] = rows[i].dev /\ rows[i].dev \in Int
                                    /\ rows[i].level \in Levels
                                    /\ rows[i].rough \in Int /\ rows[i].qpc \in Int
         /\ Deviating(rows) = {i \in 1..Len(rows) : rows[i].dev # 0}
         /\ IsFiniteSet(Deviating(rows)) /\ Number(rows) \in Nat /\ Number(rows) <= Len(rows)
         /\ Total(DevColumn(rows)) \in Int
<1>1. Len(rows) \in Nat /\ DOMAIN rows = 1..Len(rows)
  BY LenProperties
<1>2. \A i \in 1..Len(rows) : /\ rows[i].dev \in Int /\ rows[i].level \in Levels
                              /\ rows[i].rough \in Int /\ rows[i].qpc \in Int
  <2>1. \A i \in 1..Len(rows) : rows[i] \in HullRow
    OBVIOUS
  <2> QED  BY <2>1 DEF HullRow
<1>3. /\ DevColumn(rows) \in Seq(Int) /\ Len(DevColumn(rows)) = Len(rows)
      /\ \A i \in 1..Len(rows) : DevColumn(rows)[i] = rows[i].dev
  BY <1>1, <1>2 DEF DevColumn
<1>4. Deviating(rows) = {i \in 1..Len(rows) : rows[i].dev # 0}
  BY <1>1 DEF Deviating
<1>5. IsFiniteSet(Deviating(rows)) /\ Number(rows) \in Nat /\ Number(rows) <= Len(rows)
  <2>1. Deviating(rows) \subseteq 1..Len(rows)
    BY <1>4
  <2> QED  BY <1>1, <2>1, Places DEF Number
<1>6. Total(DevColumn(rows)) \in Int
  BY <1>3, TotalOfOneMore
<1> QED  BY <1>1, <1>2, <1>3, <1>4, <1>5, <1>6

\* The mean is a number; it is at most what all rows are at most; and if it is at least
\* some number, so is the sum, as often as there are rows that deviate.
LEMMA MeanOfRows ==
  ASSUME NEW rows \in Seq(HullRow)
  PROVE  /\ MeanDev(rows) \in Int
         /\ Number(rows) = 0 => MeanDev(rows) = 0
         /\ \A least \in Nat \ {0} :
              MeanDev(rows) >= least => /\ Number(rows) >= 1
                                        /\ Total(DevColumn(rows)) >= least * Number(rows)
<1>1. Number(rows) \in Nat /\ Total(DevColumn(rows)) \in Int
  BY RowFacts
<1>2. MeanDev(rows) = IF Number(rows) = 0 THEN 0 ELSE Total(DevColumn(rows)) \div Number(rows)
  BY DEF MeanDev, DevColumn
<1>3. CASE Number(rows) = 0
  BY <1>1, <1>2, <1>3
<1>4. CASE Number(rows) # 0
  <2>1. Number(rows) \in Nat \ {0} /\ MeanDev(rows) = Total(DevColumn(rows)) \div Number(rows)
    BY <1>1, <1>2, <1>4
  <2>2. MeanDev(rows) \in Int
    BY <1>1, <2>1, DivisionBounds
  <2>3. ASSUME NEW least \in Nat \ {0}, MeanDev(rows) >= least
        PROVE  Number(rows) >= 1 /\ Total(DevColumn(rows)) >= least * Number(rows)
    <3>1. least * Number(rows) <= Total(DevColumn(rows))
      BY <1>1, <2>1, <2>3, DivisionBounds
    <3>2. least * Number(rows) \in Int
      BY <2>1
    <3> QED  BY <1>1, <2>1, <3>1, <3>2
  <2> QED  BY <1>4, <2>2, <2>3
<1> QED  BY <1>3, <1>4

LEMMA MeanAtMost ==
  ASSUME NEW rows \in Seq(HullRow), NEW most \in Int, \A i \in 1..Len(rows) : rows[i].dev <= most
  PROVE  Number(rows) = 0 \/ MeanDev(rows) <= most
<1> DEFINE n == Len(rows)
           D == Deviating(rows)
           c == [i \in 1..n |-> IF i \in D THEN most ELSE 0]
<1>1. /\ n \in Nat /\ D = {i \in 1..n : rows[i].dev # 0} /\ Number(rows) \in Nat
      /\ DevColumn(rows) \in Seq(Int) /\ Len(DevColumn(rows)) = n
      /\ \A i \in 1..n : DevColumn(rows)[i] = rows[i].dev /\ rows[i].dev \in Int
      /\ Total(DevColumn(rows)) \in Int
  BY RowFacts
<1> HIDE DEF D
<1>2. c \in Seq(Int) /\ Len(c) = n /\ \A i \in 1..n : c[i] = IF i \in D THEN most ELSE 0
  BY <1>1
<1> HIDE DEF c
<1>3. Total(c) = Number(rows) * most
  <2>1. Total(c) = Cardinality({i \in 1..Len(c) : i \in D}) * most
    BY <1>2, TotalOfEqualRows
  <2>2. {i \in 1..Len(c) : i \in D} = D
    BY <1>1, <1>2
  <2> QED  BY <2>1, <2>2 DEF Number, D
<1>4. Total(DevColumn(rows)) <= Total(c)
  <2>1. \A i \in 1..n : DevColumn(rows)[i] <= c[i]
    <3>1. ASSUME NEW i \in 1..n PROVE DevColumn(rows)[i] <= c[i]
      <4>1. rows[i].dev \in Int /\ rows[i].dev <= most /\ DevColumn(rows)[i] = rows[i].dev
        BY <1>1
      <4>2. CASE i \in D
        BY <1>2, <4>1, <4>2
      <4>3. CASE i \notin D
        BY <1>1, <1>2, <4>1, <4>3
      <4> QED  BY <4>2, <4>3
    <3> QED  BY <3>1
  <2> QED  BY <1>1, <1>2, <2>1, TotalIsMonotone
<1>5. CASE Number(rows) # 0
  <2>1. Number(rows) \in Nat \ {0} /\ Total(DevColumn(rows)) <= most * Number(rows)
    BY <1>1, <1>3, <1>4, <1>5
  <2>2. MeanDev(rows) = Total(DevColumn(rows)) \div Number(rows)
    BY <1>5 DEF MeanDev, DevColumn
  <2> QED  BY <1>1, <2>1, <2>2, DivisionBounds
<1> QED  BY <1>5

\* As many rows deviate, so many have a rank among them.
LEMMA RankExists ==
  ASSUME NEW n \in Nat, NEW S, S \subseteq 1..n, NEW r \in 1..Cardinality(S)
  PROVE  \E i \in S : Cardinality({j \in S : j <= i}) = r
<1> DEFINE Rank(i) == Cardinality({j \in S : j <= i})
           Far == {i \in 0..n : Rank(i) >= r}
<1>0. \A j \in S : j \in Nat /\ j >= 1 /\ j <= n
  OBVIOUS
<1>1. \A i \in 0..n : /\ {j \in S : j <= i} \subseteq 1..n /\ IsFiniteSet({j \in S : j <= i})
                      /\ Rank(i) \in Nat
  <2>1. \A i \in 0..n : {j \in S : j <= i} \subseteq 1..n
    OBVIOUS
  <2> QED  BY <2>1, Places
<1>2. Cardinality(S) \in Nat
  BY Places
<1>3. n \in Far
  <2>1. {j \in S : j <= n} = S
    BY <1>0
  <2> QED  BY <1>2, <2>1
<1>4. PICK i \in Far : \A j \in Far : i <= j
  <2>1. Far \subseteq Nat
    OBVIOUS
  <2> HIDE DEF Far
  <2> QED  BY <1>3, <2>1, Least
<1>5. i # 0
  <2>1. {j \in S : j <= 0} = {}
    <3>1. \A j \in S : ~(j <= 0)
      BY <1>0
    <3> QED  BY <3>1
  <2>2. Rank(0) = 0
    BY <2>1, FS_EmptySet
  <2> QED  BY <2>2
<1>6. i \in 1..n /\ i - 1 \in 0..n /\ i - 1 \notin Far /\ i \in 0..n
  <2>1. i \in 1..n /\ i - 1 \in 0..n
    BY <1>5
  <2> HIDE DEF Far
  <2>2. i - 1 \notin Far
    BY <1>4, <2>1
  <2> QED  BY <2>1, <2>2
<1>7. Rank(i - 1) < r /\ Rank(i) >= r
  <2>1. Rank(i - 1) \in Nat
    BY <1>1, <1>6
  <2>2. ~(Rank(i - 1) >= r) /\ Rank(i) >= r
    BY <1>6
  <2> HIDE DEF Rank
  <2> QED  BY <2>1, <2>2
<1>8. {j \in S : j <= i} = IF i \in S THEN {j \in S : j <= i - 1} \cup {i} ELSE {j \in S : j <= i - 1}
  <2>1. \A j \in S : j <= i <=> j <= i - 1 \/ j = i
    BY <1>0, <1>6
  <2> QED  BY <2>1
<1>9. i \notin {j \in S : j <= i - 1}
  BY <1>6
<1>10. Rank(i) = IF i \in S THEN Rank(i - 1) + 1 ELSE Rank(i - 1)
  <2>1. IsFiniteSet({j \in S : j <= i - 1})
    BY <1>1, <1>6
  <2> QED  BY <1>8, <1>9, <2>1, FS_AddElement
<1>11. Rank(i) \in Nat /\ Rank(i - 1) \in Nat
  BY <1>1, <1>6
<1> HIDE DEF Rank
<1>12. i \in S /\ Rank(i) = r
  BY <1>7, <1>10, <1>11
<1> QED  BY <1>12 DEF Rank

LEMMA NthIsDeviation ==
  ASSUME NEW rows \in Seq(HullRow), NEW r \in 1..Number(rows)
  PROVE  Nth(rows, r) \in Int
<1>1. /\ Len(rows) \in Nat /\ Deviating(rows) = {i \in 1..Len(rows) : rows[i].dev # 0}
      /\ \A i \in 1..Len(rows) : rows[i].dev \in Int
  BY RowFacts
<1>2. \E i \in Deviating(rows) : Cardinality({j \in Deviating(rows) : j <= i}) = r
  <2>1. Deviating(rows) \subseteq 1..Len(rows)
    BY <1>1
  <2> QED  BY <1>1, <2>1, RankExists DEF Number
<1>3. \E i \in 1..Len(rows) : Nth(rows, r) = rows[i].dev
  BY <1>1, <1>2 DEF Nth
<1> QED  BY <1>1, <1>3

\* If every row deviates, the list of deviations is that of the rows.
LEMMA AllDeviate ==
  ASSUME NEW rows \in Seq(HullRow), Number(rows) = Len(rows), NEW r \in 1..Len(rows)
  PROVE  Nth(rows, r) = rows[r].dev
<1>1. /\ Len(rows) \in Nat /\ Deviating(rows) = {i \in 1..Len(rows) : rows[i].dev # 0}
  BY RowFacts
<1>2. Deviating(rows) = 1..Len(rows)
  <2>1. IsFiniteSet(1..Len(rows)) /\ Cardinality(1..Len(rows)) = Len(rows)
    BY <1>1, FS_Interval
  <2>2. Deviating(rows) \in SUBSET (1..Len(rows))
    BY <1>1
  <2> QED  BY <2>1, <2>2, FS_Subset DEF Number
<1>3. ASSUME NEW i \in 1..Len(rows) PROVE Cardinality({j \in 1..Len(rows) : j <= i}) = i
  <2>1. {j \in 1..Len(rows) : j <= i} = 1..i
    BY <1>1
  <2>2. i \in Nat /\ i >= 1 /\ 1 \in Int /\ i \in Int
    BY <1>1
  <2>3. Cardinality(1..i) = IF 1 > i THEN 0 ELSE i - 1 + 1
    BY <2>2, FS_Interval, Zenon
  <2>4. Cardinality(1..i) = i
    BY <2>2, <2>3
  <2> QED  BY <2>1, <2>4
<1>4. (CHOOSE i \in 1..Len(rows) : Cardinality({j \in 1..Len(rows) : j <= i}) = r) = r
  BY <1>3
<1> QED  BY <1>2, <1>4 DEF Nth

-----------------------------------------------------------------------------
(* Days as rows.                                                           *)
LEMMA LevelFacts ==
  ASSUME NEW d \in Int
  PROVE  /\ LevelOf(d) \in Levels
         /\ LevelOf(d) = "clean" <=> d < 300
         /\ LevelOf(d) \in Foul <=> d >= 800
         /\ LevelOf(d) = "heavy" <=> d >= 1500
<1>1. CASE d < 300
  <2>1. LevelOf(d) = "clean"
    BY <1>1 DEF LevelOf, Level
  <2> QED  BY <1>1, <2>1 DEF Levels, Foul
<1>2. CASE 300 <= d /\ d < 800
  <2>1. LevelOf(d) = "light"
    BY <1>2 DEF LevelOf, Level
  <2> QED  BY <1>2, <2>1 DEF Levels, Foul
<1>3. CASE 800 <= d /\ d < 1500
  <2>1. LevelOf(d) = "moderate"
    BY <1>3 DEF LevelOf, Level
  <2> QED  BY <1>3, <2>1 DEF Levels, Foul
<1>4. CASE 1500 <= d
  <2>1. LevelOf(d) = "heavy"
    BY <1>4 DEF LevelOf, Level
  <2> QED  BY <1>4, <2>1 DEF Levels, Foul
<1> QED  BY <1>1, <1>2, <1>3, <1>4

\* A day deviates within the clamp, not upwards if it is below the baseline, and as much
\* if both are doubled.
LEMMA DoubledQuotient ==
  ASSUME NEW x \in Int, NEW b \in Nat \ {0}
  PROVE  (2 * x) \div (2 * b) = x \div b
<1> DEFINE q == x \div b
           p == (2 * x) \div (2 * b)
<1>1. q \in Int /\ q * b <= x /\ x < q * b + b /\ q * b \in Int
  OBVIOUS
<1>2. 2 * b \in Nat \ {0} /\ 2 * x \in Int
  OBVIOUS
<1> HIDE DEF q
<1>3. /\ p \in Int
      /\ q * (2 * b) <= 2 * x => q <= p
      /\ p >= q + 1 => (q + 1) * (2 * b) <= 2 * x
  BY <1>1, <1>2, DivisionBounds
<1> HIDE DEF p
<1>4. q * (2 * b) = 2 * (q * b) /\ (q + 1) * (2 * b) = 2 * (q * b) + 2 * b
  BY <1>1
<1> DEFINE m == q * b
<1>5. m \in Int /\ m <= x /\ x < m + b
  BY <1>1
<1>6. /\ 2 * m <= 2 * x => q <= p
      /\ p >= q + 1 => 2 * m + 2 * b <= 2 * x
  BY <1>3, <1>4
<1> HIDE DEF m
<1>7. q <= p /\ ~(p >= q + 1)
  BY <1>5, <1>6
<1>8. p = q
  BY <1>1, <1>3, <1>7
<1> QED  BY <1>8 DEF p, q

Clamped(k, b) ==
  /\ DevOf(k, b) \in Int /\ -1000 <= DevOf(k, b) /\ DevOf(k, b) <= 2500
  /\ k <= b => DevOf(k, b) <= 0

LEMMA DeviationOfDay ==
  ASSUME NEW k \in Nat, NEW b \in Nat \ {0}
  PROVE  /\ Clamped(k, b)
         /\ DevOf(2 * k, 2 * b) = DevOf(k, b)
<1> DEFINE x == (k - b) * 10000
           q == x \div b
<1>1. x \in Int /\ (k <= b => x <= 0 * b)
  OBVIOUS
<1>2. q \in Int /\ (k <= b => q <= 0)
  <2> HIDE DEF x
  <2> QED  BY <1>1, DivisionBounds
<1>3. (2 * k - 2 * b) * 10000 = 2 * x
  OBVIOUS
<1>4. ((2 * k - 2 * b) * 10000) \div (2 * b) = q
  <2> HIDE DEF x
  <2> QED  BY <1>1, <1>3, DoubledQuotient
<1>5. /\ DevOf(k, b) = IF k = 0 THEN 0 ELSE Between(q, -1000, 2500)
      /\ DevOf(2 * k, 2 * b) = IF 2 * k = 0 THEN 0 ELSE Between(q, -1000, 2500)
  BY <1>4 DEF DevOf
<1> HIDE DEF q
<1>6. /\ Between(q, -1000, 2500) \in Int
      /\ -1000 <= Between(q, -1000, 2500) /\ Between(q, -1000, 2500) <= 2500
      /\ (k <= b => Between(q, -1000, 2500) <= 0)
  BY <1>2 DEF Between, AtLeast
<1>7. k = 0 <=> 2 * k = 0
  OBVIOUS
<1> QED  BY <1>5, <1>6, <1>7 DEF Clamped

\* What the row of a day with coefficient k says, against a baseline b.
DayFacts(r, k, b) ==
  /\ r.dev = DevOf(k, b) /\ r.dev \in Int /\ -1000 <= r.dev /\ r.dev <= 2500
  /\ r.level = LevelOf(r.dev) /\ r.rough = 2000 + 2 * AtLeast(r.dev, 0) /\ r.qpc = 70000
  /\ k <= b => r.dev <= 0

LEMMA ConvertedRows ==
  ASSUME NEW ks \in Seq(Nat)
  PROVE  /\ Converted(ks) \in Seq(HullRow) /\ Len(Converted(ks)) = Len(ks) /\ Len(ks) \in Nat
         /\ \A i \in 1..Len(ks) : DayFacts(Converted(ks)[i], ks[i], Baseline(ks))
<1> DEFINE n == Len(ks)
           Row(i) == [dev |-> DevOf(ks[i], Baseline(ks)), level |-> LevelOf(DevOf(ks[i], Baseline(ks))),
                      rough |-> 2000 + 2 * AtLeast(DevOf(ks[i], Baseline(ks)), 0), qpc |-> 70000]
<1>1. n \in Nat /\ DOMAIN ks = 1..n /\ \A i \in 1..n : ks[i] \in Nat
  OBVIOUS
<1>2. ASSUME NEW i \in 1..n
      PROVE  Clamped(ks[i], Baseline(ks))
  <2>1. CASE ks[i] = 0
    <3>1. DevOf(ks[i], Baseline(ks)) = 0
      BY <2>1 DEF DevOf
    <3> QED  BY <3>1 DEF Clamped
  <2>2. CASE ks[i] # 0
    <3>1. i \in UnderWay(ks) /\ ks[i] \in Nat
      BY <1>1, <2>2 DEF UnderWay
    <3>2. Baseline(ks) \in Nat \ {0}
      BY <3>1, BaselineIsMedian
    <3> QED  BY <3>1, <3>2, DeviationOfDay
  <2> QED  BY <2>1, <2>2
<1>3. Converted(ks) = [i \in 1..n |-> Row(i)]
  BY <1>1 DEF Converted
<1>4. ASSUME NEW i \in 1..n
      PROVE  Row(i) \in HullRow
  <2> DEFINE d == DevOf(ks[i], Baseline(ks))
  <2>1. d \in Int
    BY <1>2 DEF Clamped
  <2> HIDE DEF d
  <2>2. LevelOf(d) \in Levels /\ 2000 + 2 * AtLeast(d, 0) \in Int
    BY <2>1, LevelFacts DEF AtLeast
  <2>3. [dev |-> d, level |-> LevelOf(d), rough |-> 2000 + 2 * AtLeast(d, 0), qpc |-> 70000] \in HullRow
    BY <2>1, <2>2 DEF HullRow
  <2> QED  BY <2>3 DEF d
<1>5. Converted(ks) \in Seq(HullRow) /\ Len(Converted(ks)) = n
  <2> HIDE DEF Row
  <2> QED  BY <1>1, <1>3, <1>4
<1>6. ASSUME NEW i \in 1..n
      PROVE  DayFacts(Converted(ks)[i], ks[i], Baseline(ks))
  <2>1. Converted(ks)[i] = Row(i)
    BY <1>3
  <2> HIDE DEF Row
  <2>2. /\ Row(i).dev = DevOf(ks[i], Baseline(ks))
        /\ Row(i).level = LevelOf(DevOf(ks[i], Baseline(ks)))
        /\ Row(i).rough = 2000 + 2 * AtLeast(DevOf(ks[i], Baseline(ks)), 0)
        /\ Row(i).qpc = 70000
    BY DEF Row
  <2>3. DayFacts(Row(i), ks[i], Baseline(ks))
    BY <1>2, <2>2 DEF DayFacts, Clamped
  <2> QED  BY <2>1, <2>3
<1> QED  BY <1>1, <1>5, <1>6

\* Twice the coefficients, the same rows: the baseline is twice as high.
LEMMA DoubledRows ==
  ASSUME NEW ks \in Seq(Nat), NEW ds \in Seq(Nat), Len(ds) = Len(ks),
         \A i \in 1..Len(ks) : ds[i] = 2 * ks[i]
  PROVE  Converted(ds) = Converted(ks) /\ UnderWay(ds) = UnderWay(ks)
<1> DEFINE b == Baseline(ks)
<1>1. /\ Len(ks) \in Nat /\ DOMAIN ks = 1..Len(ks) /\ DOMAIN ds = 1..Len(ks)
      /\ \A i \in 1..Len(ks) : ks[i] \in Nat
  OBVIOUS
<1>2. UnderWay(ds) = UnderWay(ks)
  <2>1. \A i \in 1..Len(ks) : ds[i] > 0 <=> ks[i] > 0
    BY <1>1
  <2> QED  BY <1>1, <2>1 DEF UnderWay
<1>3. CASE UnderWay(ks) = {}
  <2>1. \A i \in 1..Len(ks) : ks[i] = 0 /\ ds[i] = 0
    <3>1. ASSUME NEW i \in 1..Len(ks) PROVE ks[i] = 0 /\ ds[i] = 0
      <4>1. ks[i] \in Nat /\ ds[i] = 2 * ks[i] /\ ~(ks[i] > 0)
        BY <1>1, <1>3 DEF UnderWay
      <4> QED  BY <4>1
    <3> QED  BY <3>1
  <2>2. \A i \in 1..Len(ks) : DevOf(ks[i], Baseline(ks)) = 0 /\ DevOf(ds[i], Baseline(ds)) = 0
    BY <2>1 DEF DevOf
  <2>3. Converted(ds) = Converted(ks)
    BY <1>1, <2>2 DEF Converted
  <2> QED  BY <1>2, <2>3
<1>4. CASE UnderWay(ks) # {}
  <2>1. IsMedian(ks, b) /\ b \in Nat \ {0}
    BY <1>4, BaselineIsMedian
  <2>2. IsMedian(ds, 2 * b)
    <3>1. \A i \in UnderWay(ks) : ks[i] \in Nat /\ ds[i] = 2 * ks[i]
      BY <1>1 DEF UnderWay
    <3> HIDE DEF b
    <3>2. \A i \in UnderWay(ks) : (ds[i] < 2 * b <=> ks[i] < b) /\ (ds[i] <= 2 * b <=> ks[i] <= b)
      BY <2>1, <3>1
    <3>3. Below(ds, 2 * b) = Below(ks, b) /\ NotAbove(ds, 2 * b) = NotAbove(ks, b)
      BY <1>2, <3>2 DEF Below, NotAbove
    <3>4. 2 * b \in {ds[i] : i \in UnderWay(ds)}
      <4>1. PICK i \in UnderWay(ks) : b = ks[i]
        BY <2>1 DEF IsMedian
      <4> QED  BY <1>2, <3>1, <4>1
    <3> QED  BY <1>2, <2>1, <3>3, <3>4 DEF IsMedian
  <2>3. Baseline(ds) = 2 * b
    BY <1>2, <1>4, <2>2, BaselineIsMedian
  <2>4. ASSUME NEW i \in 1..Len(ks)
        PROVE  DevOf(ds[i], Baseline(ds)) = DevOf(ks[i], Baseline(ks))
    <3>1. ks[i] \in Nat /\ ds[i] = 2 * ks[i]
      BY <1>1
    <3> HIDE DEF b
    <3>2. DevOf(2 * ks[i], 2 * b) = DevOf(ks[i], b)
      <4>1. \A k \in Nat : DevOf(2 * k, 2 * b) = DevOf(k, b)
        BY <2>1, DeviationOfDay
      <4> QED  BY <3>1, <4>1
    <3> QED  BY <2>3, <3>1, <3>2 DEF b
  <2>5. Converted(ds) = Converted(ks)
    BY <1>1, <2>4 DEF Converted
  <2> QED  BY <1>2, <2>5
<1> QED  BY <1>3, <1>4

\* The newest rows of a log: no more than there are.
LEMMA NewestRows ==
  ASSUME NEW S, NEW log \in Seq(S), NEW limit \in Nat
  PROVE  /\ NewestFirst(log, limit) \in Seq(S) /\ Len(log) \in Nat
         /\ Len(NewestFirst(log, limit)) = IF limit < Len(log) THEN limit ELSE Len(log)
         /\ \A i \in 1..Len(NewestFirst(log, limit)) :
              /\ Len(log) - i + 1 \in 1..Len(log)
              /\ NewestFirst(log, limit)[i] = log[Len(log) - i + 1]
         /\ Len(log) <= limit => NewestFirst(log, limit) = NewestFirst(log, Len(log))
<1> DEFINE m == IF limit < Len(log) THEN limit ELSE Len(log)
<1>1. Len(log) \in Nat /\ m \in Nat /\ m <= Len(log)
  OBVIOUS
<1>2. NewestFirst(log, limit) = [i \in 1..m |-> log[Len(log) - i + 1]]
  BY DEF NewestFirst
<1>3. Len(log) <= limit => NewestFirst(log, limit) = NewestFirst(log, Len(log))
  <2>1. Len(log) <= limit => m = (IF Len(log) < Len(log) THEN Len(log) ELSE Len(log))
    BY <1>1
  <2> HIDE DEF m
  <2> QED  BY <1>2, <2>1 DEF NewestFirst
<1>4. \A i \in 1..m : Len(log) - i + 1 \in 1..Len(log) /\ log[Len(log) - i + 1] \in S
  <2> HIDE DEF m
  <2>1. \A i \in 1..m : Len(log) - i + 1 \in 1..Len(log)
    BY <1>1
  <2> QED  BY <2>1, ElementOfSeq
<1> HIDE DEF m
<1>5. NewestFirst(log, limit) \in Seq(S) /\ Len(NewestFirst(log, limit)) = m
  BY <1>1, <1>2, <1>4
<1> QED  BY <1>1, <1>2, <1>3, <1>4, <1>5 DEF m

-----------------------------------------------------------------------------
(* The rows back to the last clean one.                                    *)
CleanRows(rows) == {i \in DOMAIN rows : rows[i].level = "clean"}
Since(rows) ==
  IF CleanRows(rows) = {} THEN Len(rows)
  ELSE (CHOOSE i \in CleanRows(rows) : \A j \in CleanRows(rows) : i <= j) - 1

\* The newest clean row is no further back than rows are not clean.
LEMMA SinceFacts ==
  ASSUME NEW rows \in Seq(HullRow)
  PROVE  /\ Since(rows) \in Nat /\ Cardinality(CleanRows(rows)) \in Nat
         /\ CleanRows(rows) \subseteq 1..Len(rows)
         /\ Since(rows) + Cardinality(CleanRows(rows)) <= Len(rows)
         /\ rows # <<>> /\ rows[1].level # "clean" => Since(rows) > 0
<1> DEFINE n == Len(rows)
           C == CleanRows(rows)
<1>1. n \in Nat /\ C \subseteq 1..n /\ C = {i \in 1..n : rows[i].level = "clean"}
  BY LenProperties DEF CleanRows
<1>2. IsFiniteSet(C) /\ Cardinality(C) \in Nat
  BY <1>1, Places
<1>3. CASE C = {}
  <2>1. Since(rows) = n /\ Cardinality(C) = 0
    BY <1>3, FS_EmptySet DEF Since
  <2>2. rows # <<>> => n > 0
    BY <1>1, EmptySeq
  <2> QED  BY <1>1, <2>1, <2>2
<1>4. CASE C # {}
  <2> DEFINE first == CHOOSE i \in C : \A j \in C : i <= j
  <2>1. C \subseteq Nat
    BY <1>1
  <2>2. first \in C /\ \A j \in C : first <= j
    <3> HIDE DEF C
    <3>1. \E i \in C : \A j \in C : i <= j
      BY <1>4, <2>1, Least
    <3> QED  BY <3>1
  <2>3. Since(rows) = first - 1
    BY <1>4 DEF Since
  <2> HIDE DEF C, first
  <2>4. first \in 1..n /\ C \subseteq first..n /\ (rows[1].level # "clean" => first # 1)
    BY <1>1, <2>2
  <2>5. Cardinality(C) <= n - first + 1
    <3>1. first \in Int /\ n \in Int /\ first <= n
      BY <1>1, <2>4
    <3>2. IsFiniteSet(first..n) /\ Cardinality(first..n) = IF first > n THEN 0 ELSE n - first + 1
      BY <3>1, FS_Interval, Zenon
    <3>3. Cardinality(C) <= Cardinality(first..n)
      BY <2>4, <3>2, FS_Subset
    <3> QED  BY <1>2, <3>1, <3>2, <3>3
  <2>6. Since(rows) \in Nat /\ Since(rows) + Cardinality(C) <= n /\ (rows[1].level # "clean" => Since(rows) > 0)
    BY <1>1, <1>2, <2>3, <2>4, <2>5
  <2> QED  BY <1>1, <1>2, <2>6 DEF C
<1> QED  BY <1>3, <1>4

-----------------------------------------------------------------------------
(* What an endpoint reads.                                                 *)
Generated(r) ==
  /\ r.level = Level(r.dev, 500, 1000, r.dev + 1)
  /\ r.rough = 3000 + r.dev /\ r.qpc = 85000 - r.dev
IsVessel(v) ==
  /\ v.rows \in Seq(HullRow) /\ v.days \in Seq(Nat)
  /\ v.rows = StaticRows \/ \A i \in 1..Len(v.rows) : Generated(v.rows[i])

\* The rows an endpoint reads are rows; of rows of the application the newest is first,
\* whatever the limit; telemetry within the limit is read as a whole.
LEMMA RowsRead ==
  ASSUME NEW v, IsVessel(v), NEW limit \in Nat \ {0}
  PROVE  /\ Latest(v, limit) \in Seq(HullRow)
         /\ Whole(v, limit) \in Seq(HullRow)
         /\ Latest(v, limit) = IF v.rows # <<>> THEN NewestFirst(v.rows, limit)
                               ELSE Converted(NewestFirst(v.days, limit))
         /\ Whole(v, limit) = IF v.rows # <<>> THEN NewestFirst(v.rows, Len(v.rows))
                              ELSE Converted(NewestFirst(v.days, limit))
         /\ v.rows # <<>> => /\ Latest(v, limit) # <<>> /\ Whole(v, limit) # <<>>
                             /\ Latest(v, limit)[1] = v.rows[Len(v.rows)]
                             /\ Whole(v, limit)[1] = v.rows[Len(v.rows)]
         /\ Len(v.rows) <= limit => Latest(v, limit) = Whole(v, limit)
         /\ v.rows = <<>> => /\ Latest(v, limit) = Whole(v, limit)
                             /\ v.days # <<>> => Latest(v, limit) # <<>>
<1>1. v.rows \in Seq(HullRow) /\ v.days \in Seq(Nat) /\ limit \in Nat
  BY DEF IsVessel
<1>2. /\ Latest(v, limit) = IF v.rows # <<>> THEN NewestFirst(v.rows, limit)
                            ELSE Converted(NewestFirst(v.days, limit))
      /\ Whole(v, limit) = IF v.rows # <<>> THEN NewestFirst(v.rows, Len(v.rows))
                           ELSE Converted(NewestFirst(v.days, limit))
  BY DEF Latest, Whole, Recorded
<1>3. CASE v.rows # <<>>
  <2>1. Len(v.rows) \in Nat \ {0}
    BY <1>1, <1>3, EmptySeq, LenProperties
  <2>2. ASSUME NEW m \in Nat \ {0}
        PROVE  /\ NewestFirst(v.rows, m) \in Seq(HullRow) /\ NewestFirst(v.rows, m) # <<>>
               /\ NewestFirst(v.rows, m)[1] = v.rows[Len(v.rows)]
    <3> DEFINE s == NewestFirst(v.rows, m)
               n == Len(v.rows)
    <3>1. /\ s \in Seq(HullRow) /\ Len(s) = IF m < n THEN m ELSE n
          /\ \A i \in 1..Len(s) : s[i] = v.rows[n - i + 1]
      BY <1>1, NewestRows
    <3> HIDE DEF s, n
    <3>2. n \in Nat \ {0}
      BY <2>1 DEF n
    <3>3. Len(s) \in Nat \ {0}
      BY <3>1, <3>2
    <3>4. s[1] = v.rows[n - 1 + 1] /\ n - 1 + 1 = n
      BY <3>1, <3>2, <3>3
    <3>5. s # <<>>
      BY <3>1, <3>3, EmptySeq
    <3> QED  BY <3>1, <3>4, <3>5 DEF s, n
  <2>3. Len(v.rows) <= limit => NewestFirst(v.rows, limit) = NewestFirst(v.rows, Len(v.rows))
    BY <1>1, NewestRows
  <2> QED  BY <1>2, <1>3, <2>1, <2>2, <2>3
<1>4. CASE v.rows = <<>>
  <2> DEFINE ks == NewestFirst(v.days, limit)
  <2>1. /\ ks \in Seq(Nat) /\ Len(v.days) \in Nat
        /\ Len(ks) = IF limit < Len(v.days) THEN limit ELSE Len(v.days)
    BY <1>1, NewestRows
  <2> HIDE DEF ks
  <2>2. Converted(ks) \in Seq(HullRow) /\ Len(Converted(ks)) = Len(ks)
    BY <2>1, ConvertedRows
  <2>3. v.days # <<>> => Converted(ks) # <<>>
    <3>1. v.days # <<>> => Len(v.days) # 0
      BY <1>1, EmptySeq
    <3>2. v.days # <<>> => Len(Converted(ks)) # 0
      BY <2>1, <2>2, <3>1
    <3>3. Len(<<>>) = 0
      OBVIOUS
    <3> QED  BY <3>2, <3>3
  <2>4. Latest(v, limit) = Converted(ks) /\ Whole(v, limit) = Converted(ks)
    BY <1>2, <1>4 DEF ks
  <2> QED  BY <1>2, <1>4, <2>2, <2>3, <2>4
<1> QED  BY <1>3, <1>4

LEMMA Windows ==
  /\ FoulingWindow \in Nat \ {0} /\ IndexWindow \in Nat \ {0} /\ TrendWindow \in Nat \ {0}
  /\ IndexTrend \in Nat \ {0}
  /\ FoulingWindow <= IndexWindow /\ FoulingWindow <= TrendWindow
BY HullAssumption DEF HullAssumption

\* Rows that fit one window are read as a whole, whatever the window.
LEMMA OneWindow ==
  ASSUME NEW v, IsVessel(v), InOneWindow(v), NEW limit \in Nat \ {0}, FoulingWindow <= limit
  PROVE  /\ Latest(v, limit) = Latest(v, FoulingWindow)
         /\ Whole(v, limit) = Latest(v, FoulingWindow)
         /\ Len(Latest(v, FoulingWindow)) = Len(Data(v)) /\ Len(Data(v)) \in Nat \ {0}
         /\ Latest(v, FoulingWindow) # <<>>
<1>1. v.rows \in Seq(HullRow) /\ v.days \in Seq(Nat)
  BY DEF IsVessel
<1>2. FoulingWindow \in Nat \ {0} /\ limit \in Nat \ {0} /\ FoulingWindow <= limit
  BY Windows
<1>3. /\ Latest(v, FoulingWindow) \in Seq(HullRow)
      /\ \A l \in {limit, FoulingWindow} :
           /\ Latest(v, l) = IF v.rows # <<>> THEN NewestFirst(v.rows, l)
                             ELSE Converted(NewestFirst(v.days, l))
           /\ Whole(v, l) = IF v.rows # <<>> THEN NewestFirst(v.rows, Len(v.rows))
                            ELSE Converted(NewestFirst(v.days, l))
  BY <1>2, RowsRead
<1>4. Len(Data(v)) \in 1..FoulingWindow
  BY DEF InOneWindow
<1>5. CASE v.rows # <<>>
  <2>1. Data(v) = v.rows
    BY <1>5 DEF Data
  <2> DEFINE n == Len(v.rows)
  <2>2. n \in Nat \ {0} /\ n <= FoulingWindow /\ n <= limit
    <3>1. n \in 1..FoulingWindow
      BY <1>4, <2>1
    <3> HIDE DEF n
    <3> QED  BY <1>2, <3>1
  <2>3. /\ NewestFirst(v.rows, FoulingWindow) = NewestFirst(v.rows, n)
        /\ NewestFirst(v.rows, limit) = NewestFirst(v.rows, n)
        /\ Len(NewestFirst(v.rows, n)) = n
    <3>1. \A l \in Nat : Len(v.rows) <= l => NewestFirst(v.rows, l) = NewestFirst(v.rows, Len(v.rows))
      BY <1>1, NewestRows, Zenon
    <3>2. \A l \in Nat : Len(NewestFirst(v.rows, l)) = IF l < Len(v.rows) THEN l ELSE Len(v.rows)
      BY <1>1, NewestRows, Zenon
    <3>3. FoulingWindow \in Nat /\ limit \in Nat /\ n \in Nat /\ ~(n < n)
      BY <1>2, <2>2
    <3> QED  BY <2>2, <3>1, <3>2, <3>3
  <2>4. Len(Latest(v, FoulingWindow)) = n
    BY <1>3, <1>5, <2>3
  <2>5. Latest(v, FoulingWindow) # <<>>
    BY <1>3, <2>2, <2>4, EmptySeq
  <2> QED  BY <1>3, <1>5, <2>1, <2>2, <2>3, <2>4, <2>5
<1>6. CASE v.rows = <<>>
  <2>1. Data(v) = v.days
    BY <1>6 DEF Data
  <2> DEFINE n == Len(v.days)
             ks == NewestFirst(v.days, n)
  <2>2. n \in Nat \ {0} /\ n <= FoulingWindow /\ n <= limit
    <3>1. n \in 1..FoulingWindow
      BY <1>4, <2>1
    <3> HIDE DEF n
    <3> QED  BY <1>2, <3>1
  <2>3. /\ NewestFirst(v.days, FoulingWindow) = ks
        /\ NewestFirst(v.days, limit) = ks
        /\ Len(ks) = n /\ ks \in Seq(Nat)
    BY <1>1, <1>2, <2>2, NewestRows
  <2> HIDE DEF ks
  <2>4. Len(Converted(ks)) = n
    BY <2>3, ConvertedRows
  <2>5. /\ Latest(v, FoulingWindow) = Converted(ks) /\ Latest(v, limit) = Converted(ks)
        /\ Whole(v, limit) = Converted(ks)
    BY <1>3, <1>6, <2>3
  <2>6. Latest(v, FoulingWindow) # <<>>
    BY <1>3, <2>2, <2>4, <2>5, EmptySeq
  <2> QED  BY <2>1, <2>2, <2>4, <2>5, <2>6
<1> QED  BY <1>5, <1>6

\* Fleet comparison and cleaning estimate read one newest row.
LEMMA NewestRowHolds ==
  ASSUME NEW v, IsVessel(v)
  PROVE  NewestRowDecides(v)
<1> SUFFICES ASSUME v.rows # <<>> \/ InOneWindow(v)
             PROVE  /\ Cleaning(v).level = Compared(v)
                    /\ NeedsCleaning(v) <=> Cleaning(v).level \in Foul
                    /\ NeedsCleaning(v) => Cleaning(v).since > 0
  BY DEF NewestRowDecides
<1>0. IsVessel(v)
  OBVIOUS
<1> DEFINE rows == Whole(v, IndexWindow)
<1>1. /\ FoulingWindow \in Nat \ {0} /\ IndexWindow \in Nat \ {0} /\ FoulingWindow <= IndexWindow
  BY Windows
<1>2. /\ rows \in Seq(HullRow) /\ rows # <<>>
      /\ Latest(v, FoulingWindow) # <<>> /\ rows[1].level = Latest(v, FoulingWindow)[1].level
  <2>1. rows \in Seq(HullRow)
    BY <1>0, <1>1, RowsRead
  <2>2. CASE v.rows # <<>>
    <3>1. /\ rows # <<>> /\ rows[1] = v.rows[Len(v.rows)]
          /\ Latest(v, FoulingWindow) # <<>>
          /\ Latest(v, FoulingWindow)[1] = v.rows[Len(v.rows)]
      BY <1>0, <1>1, <2>2, RowsRead
    <3> QED  BY <2>1, <3>1
  <2>3. CASE InOneWindow(v)
    BY <1>0, <1>1, <2>1, <2>3, OneWindow
  <2> QED  BY <2>2, <2>3
<1>3. Cleaning(v).level = rows[1].level /\ Cleaning(v).since = Since(rows)
  BY DEF Cleaning, Since, CleanRows
<1>4. Compared(v) = Latest(v, FoulingWindow)[1].level
  BY DEF Compared
<1>5. NeedsCleaning(v) <=> Compared(v) \in Foul
  BY <1>2 DEF NeedsCleaning
<1>6. rows[1].level \in Foul => Since(rows) > 0
  <2>1. "clean" \notin Foul
    BY DEF Foul
  <2> HIDE DEF rows
  <2> QED  BY <1>2, <2>1, SinceFacts
<1> QED  BY <1>2, <1>3, <1>4, <1>5, <1>6

\* The days the twin reads: all of them, as long as the window holds as many.
LEMMA DaysReadFacts ==
  ASSUME NEW ks \in Seq(Nat)
  PROVE  /\ DaysRead(ks) \in Nat /\ DaysRead(ks) <= Len(ks)
         /\ Len(ks) <= IndexWindow => DaysRead(ks) = Len(ks)
<1> DEFINE U == UnderWay(ks)
           len == Len(ks)
           Sailing(n) == Cardinality({i \in U : i > len - n})
           Ends(n) == Sailing(n) <= IndexWindow /\ (n < len => Sailing(n + 1) > IndexWindow)
           Few == {n \in 0..len : Sailing(n) <= IndexWindow}
<1>1. U \subseteq 1..len /\ len \in Nat /\ IndexWindow \in Nat
  BY DaysUnderWay, Windows
<1>2. ASSUME NEW n PROVE Sailing(n) \in Nat /\ Sailing(n) <= len
  <2>1. {i \in U : i > len - n} \subseteq 1..len
    BY <1>1
  <2> HIDE DEF U, len
  <2> QED  BY <1>1, <2>1, Places
<1>3. 0 \in Few
  <2>1. {i \in U : i > len - 0} = {}
    <3>1. \A i \in U : ~(i > len - 0)
      <4>1. \A i \in 1..len : ~(i > len - 0)
        <5> HIDE DEF len
        <5> QED  BY <1>1
      <4> QED  BY <1>1, <4>1
    <3> HIDE DEF U, len
    <3> QED  BY <3>1
  <2>2. Sailing(0) = 0
    BY <2>1, FS_EmptySet
  <2> HIDE DEF Sailing, len
  <2> QED  BY <1>1, <2>2
<1>4. PICK n \in Few : \A m \in Few : m <= n
  <2>1. Few \subseteq Nat /\ \A m \in Few : m <= len
    <3> HIDE DEF Sailing, len
    <3> QED  BY <1>1
  <2> HIDE DEF Few, len
  <2> QED  BY <1>1, <1>3, <2>1, Greatest
<1>5. n \in 0..len /\ Ends(n)
  <2>1. n \in 0..len /\ Sailing(n) <= IndexWindow
    OBVIOUS
  <2>2. ASSUME n < len PROVE Sailing(n + 1) > IndexWindow
    <3>1. n + 1 \notin Few
      <4> HIDE DEF Few, len
      <4> QED  BY <1>1, <1>4, <2>1
    <3>2. n + 1 \in 0..len /\ Sailing(n + 1) \in Nat
      <4>1. Sailing(n + 1) \in Nat
        BY <1>2
      <4> HIDE DEF Sailing, len
      <4> QED  BY <1>1, <2>1, <2>2, <4>1
    <3>3. ~(Sailing(n + 1) <= IndexWindow)
      BY <3>1, <3>2
    <3> HIDE DEF Sailing, len
    <3> QED  BY <1>1, <3>2, <3>3
  <2> HIDE DEF Sailing, len
  <2> QED  BY <2>1, <2>2
<1>6. DaysRead(ks) = CHOOSE m \in 0..len : Ends(m)
  BY DEF DaysRead
<1>7. DaysRead(ks) \in 0..len /\ Ends(DaysRead(ks))
  <2> HIDE DEF Ends, len
  <2> QED  BY <1>5, <1>6
<1>8. Len(ks) <= IndexWindow => DaysRead(ks) = Len(ks)
  <2> SUFFICES ASSUME len <= IndexWindow PROVE ~(DaysRead(ks) < len)
    BY <1>1, <1>7
  <2>1. Sailing(DaysRead(ks) + 1) \in Nat /\ Sailing(DaysRead(ks) + 1) <= len
    BY <1>2
  <2>2. DaysRead(ks) < len => Sailing(DaysRead(ks) + 1) > IndexWindow
    BY <1>7
  <2> HIDE DEF Sailing, len
  <2> QED  BY <1>1, <2>1, <2>2
<1> QED  BY <1>1, <1>7, <1>8

\* The rows the twin reads; in one window they are those of the assessment.
LEMMA TwinReads ==
  ASSUME NEW v, IsVessel(v)
  PROVE  /\ TwinRows(v) \in Seq(HullRow)
         /\ TwinRows(v) = IF v.rows # <<>> THEN NewestFirst(v.rows, IndexWindow)
                          ELSE Converted(NewestFirst(v.days, DaysRead(v.days)))
         /\ InOneWindow(v) => TwinRows(v) = Latest(v, FoulingWindow)
<1>1. v.rows \in Seq(HullRow) /\ v.days \in Seq(Nat)
  BY DEF IsVessel
<1>2. /\ IndexWindow \in Nat \ {0} /\ FoulingWindow \in Nat \ {0} /\ FoulingWindow <= IndexWindow
  BY Windows
<1>3. TwinRows(v) = IF v.rows # <<>> THEN NewestFirst(v.rows, IndexWindow)
                    ELSE Converted(NewestFirst(v.days, DaysRead(v.days)))
  BY DEF TwinRows, Recorded
<1>4. /\ DaysRead(v.days) \in Nat
      /\ Len(v.days) <= IndexWindow => DaysRead(v.days) = Len(v.days)
  BY <1>1, DaysReadFacts
<1>5. TwinRows(v) \in Seq(HullRow)
  <2>1. NewestFirst(v.rows, IndexWindow) \in Seq(HullRow)
    BY <1>1, <1>2, NewestRows
  <2>2. NewestFirst(v.days, DaysRead(v.days)) \in Seq(Nat)
    BY <1>1, <1>4, NewestRows
  <2>3. Converted(NewestFirst(v.days, DaysRead(v.days))) \in Seq(HullRow)
    BY <2>2, ConvertedRows
  <2> QED  BY <1>3, <2>1, <2>3
<1>6. ASSUME InOneWindow(v) PROVE TwinRows(v) = Latest(v, FoulingWindow)
  <2>1. Latest(v, IndexWindow) = Latest(v, FoulingWindow)
    BY <1>2, <1>6, OneWindow
  <2>2. CASE v.rows # <<>>
    BY <1>2, <1>3, <2>1, <2>2, RowsRead
  <2>3. CASE v.rows = <<>>
    <3>1. Data(v) = v.days
      BY <2>3 DEF Data
    <3>2. Len(v.days) \in Nat /\ Len(v.days) <= IndexWindow
      BY <1>2, <1>6, <3>1 DEF InOneWindow
    <3>3. NewestFirst(v.days, DaysRead(v.days)) = NewestFirst(v.days, IndexWindow)
      BY <1>1, <1>2, <1>4, <3>2, NewestRows
    <3>4. Latest(v, IndexWindow) = Converted(NewestFirst(v.days, IndexWindow))
      BY <1>2, <2>3, RowsRead
    <3> QED  BY <1>3, <2>1, <2>3, <3>3, <3>4
  <2> QED  BY <2>2, <2>3
<1> QED  BY <1>3, <1>5, <1>6

\* Twice the coefficients of a log: the same days read, and rows, as far as one reads.
LEMMA DoubledLog ==
  ASSUME NEW ks \in Seq(Nat), NEW ds \in Seq(Nat), Len(ds) = Len(ks),
         \A i \in 1..Len(ks) : ds[i] = 2 * ks[i]
  PROVE  /\ DaysRead(ds) = DaysRead(ks)
         /\ \A l \in Nat : Converted(NewestFirst(ds, l)) = Converted(NewestFirst(ks, l))
<1>1. DaysRead(ds) = DaysRead(ks)
  <2>1. UnderWay(ds) = UnderWay(ks)
    BY DoubledRows
  <2> QED  BY <2>1 DEF DaysRead
<1>2. ASSUME NEW l \in Nat
      PROVE  Converted(NewestFirst(ds, l)) = Converted(NewestFirst(ks, l))
  <2> DEFINE s == NewestFirst(ks, l)
             t == NewestFirst(ds, l)
             n == Len(ks)
  <2>1. /\ s \in Seq(Nat) /\ n \in Nat /\ Len(s) = (IF l < n THEN l ELSE n)
        /\ \A i \in 1..Len(s) : n - i + 1 \in 1..n /\ s[i] = ks[n - i + 1]
    BY NewestRows
  <2>2. /\ t \in Seq(Nat) /\ Len(t) = (IF l < n THEN l ELSE n)
        /\ \A i \in 1..Len(t) : t[i] = ds[n - i + 1]
    <3>1. /\ t \in Seq(Nat) /\ Len(t) = (IF l < Len(ds) THEN l ELSE Len(ds))
          /\ \A i \in 1..Len(t) : t[i] = ds[Len(ds) - i + 1]
      BY NewestRows
    <3> QED  BY <3>1
  <2> HIDE DEF s, t, n
  <2>3. Len(t) = Len(s)
    BY <2>1, <2>2
  <2>4. \A i \in 1..Len(s) : t[i] = 2 * s[i]
    <3>1. ASSUME NEW i \in 1..Len(s) PROVE t[i] = 2 * s[i]
      <4>1. s[i] = ks[n - i + 1] /\ t[i] = ds[n - i + 1] /\ n - i + 1 \in 1..n
        BY <2>1, <2>2, <2>3
      <4>2. ds[n - i + 1] = 2 * ks[n - i + 1]
        BY <4>1 DEF n
      <4> QED  BY <4>1, <4>2
    <3> QED  BY <3>1
  <2>5. Converted(t) = Converted(s)
    BY <2>1, <2>2, <2>3, <2>4, DoubledRows
  <2> QED  BY <2>5 DEF s, t
<1> QED  BY <1>1, <1>2

\* The verdicts are the verdicts on the rows read.
LEMMA SameRowsSameVerdicts ==
  ASSUME NEW v, NEW w, TwinRows(w) = TwinRows(v),
         \A l \in Nat : Latest(w, l) = Latest(v, l) /\ Whole(w, l) = Whole(v, l)
  PROVE  /\ Fouling(v) = Fouling(w) /\ Trend(v) = Trend(w) /\ Cleaning(v) = Cleaning(w)
         /\ Twin(v) = Twin(w) /\ IndexTrendOf(v) = IndexTrendOf(w)
<1>1. /\ Latest(w, FoulingWindow) = Latest(v, FoulingWindow)
      /\ Latest(w, IndexWindow) = Latest(v, IndexWindow)
      /\ Whole(w, IndexWindow) = Whole(v, IndexWindow)
      /\ Whole(w, TrendWindow) = Whole(v, TrendWindow)
  BY Windows
<1>2. Fouling(v) = Fouling(w)
  BY <1>1 DEF Fouling
<1>3. Trend(v) = Trend(w)
  BY <1>1 DEF Trend
<1>4. Cleaning(v) = Cleaning(w)
  BY <1>1 DEF Cleaning
<1>5. Twin(v) = Twin(w)
  BY DEF Twin
<1>6. IndexTrendOf(v) = IndexTrendOf(w)
  BY <1>1 DEF IndexTrendOf
<1> QED  BY <1>2, <1>3, <1>4, <1>5, <1>6

LEMMA SteadyFoulingHolds ==
  ASSUME NEW rs, NEW ks, IsVessel([rows |-> rs, days |-> ks])
  PROVE  SteadyFoulingIsUnseen([rows |-> rs, days |-> ks])
<1> DEFINE v == [rows |-> rs, days |-> ks]
           ds == [i \in DOMAIN ks |-> 2 * ks[i]]
           w == [v EXCEPT !.days = [i \in DOMAIN v.days |-> 2 * v.days[i]]]
<1>1. v.rows = rs /\ v.days = ks /\ w.rows = rs /\ w.days = ds
  OBVIOUS
<1>2. rs \in Seq(HullRow) /\ ks \in Seq(Nat)
  BY DEF IsVessel
<1>3. ds \in Seq(Nat) /\ Len(ds) = Len(ks) /\ \A i \in 1..Len(ks) : ds[i] = 2 * ks[i]
  <2>1. Len(ks) \in Nat /\ DOMAIN ks = 1..Len(ks) /\ \A i \in 1..Len(ks) : ks[i] \in Nat
    BY <1>2
  <2> QED  BY <2>1
<1> HIDE DEF v, w, ds
<1>4. /\ DaysRead(ds) = DaysRead(ks) /\ DaysRead(ks) \in Nat
      /\ \A l \in Nat : Converted(NewestFirst(ds, l)) = Converted(NewestFirst(ks, l))
  BY <1>2, <1>3, DoubledLog, DaysReadFacts
<1>5. TwinRows(w) = TwinRows(v)
  BY <1>1, <1>4 DEF TwinRows, Recorded
<1>6. \A l \in Nat : Latest(w, l) = Latest(v, l) /\ Whole(w, l) = Whole(v, l)
  BY <1>1, <1>4 DEF Latest, Whole, Recorded
<1>7. /\ Fouling(v) = Fouling(w) /\ Trend(v) = Trend(w) /\ Cleaning(v) = Cleaning(w)
      /\ Twin(v) = Twin(w) /\ IndexTrendOf(v) = IndexTrendOf(w)
  BY <1>5, <1>6, SameRowsSameVerdicts
<1> QED  BY <1>7 DEF SteadyFoulingIsUnseen, v, w

-----------------------------------------------------------------------------
(* The scores.                                                             *)
\* The mean of a column keeps to whole bounds of its sum.
LEMMA AverageBounds ==
  ASSUME NEW s \in Seq(Int), s # <<>>, NEW b \in Int
  PROVE  /\ Average(s) \in Int
         /\ b * Len(s) <= Total(s) => b <= Average(s)
         /\ Total(s) <= b * Len(s) => Average(s) <= b
<1>1. Len(s) \in Nat \ {0}
  BY EmptySeq, LenProperties
<1>2. Total(s) \in Int
  BY TotalOfOneMore
<1>3. Average(s) = Total(s) \div Len(s)
  BY DEF Average
<1> QED  BY <1>1, <1>2, <1>3, DivisionBounds

LEMMA ColumnFacts ==
  ASSUME NEW rows \in Seq(HullRow), rows # <<>>
  PROVE  /\ Len(rows) \in Nat \ {0}
         /\ LET R == [i \in DOMAIN rows |-> rows[i].rough]
            IN /\ R \in Seq(Int) /\ R # <<>> /\ Len(R) = Len(rows)
               /\ \A i \in 1..Len(rows) : R[i] = rows[i].rough
         /\ LET Q == [i \in DOMAIN rows |-> rows[i].qpc]
            IN /\ Q \in Seq(Int) /\ Q # <<>> /\ Len(Q) = Len(rows)
               /\ \A i \in 1..Len(rows) : Q[i] = rows[i].qpc
<1>1. /\ Len(rows) \in Nat \ {0} /\ DOMAIN rows = 1..Len(rows)
      /\ \A i \in 1..Len(rows) : rows[i].rough \in Int /\ rows[i].qpc \in Int
  BY RowFacts, EmptySeq
<1> DEFINE R == [i \in 1..Len(rows) |-> rows[i].rough]
           Q == [i \in 1..Len(rows) |-> rows[i].qpc]
<1>2. R \in Seq(Int) /\ Len(R) = Len(rows) /\ \A i \in 1..Len(rows) : R[i] = rows[i].rough
  BY <1>1
<1>3. Q \in Seq(Int) /\ Len(Q) = Len(rows) /\ \A i \in 1..Len(rows) : Q[i] = rows[i].qpc
  BY <1>1
<1>4. Len(<<>>) = 0
  OBVIOUS
<1>5. R # <<>> /\ Q # <<>>
  <2> HIDE DEF R, Q
  <2> QED  BY <1>1, <1>2, <1>3, <1>4
<1>6. R = [i \in DOMAIN rows |-> rows[i].rough] /\ Q = [i \in DOMAIN rows |-> rows[i].qpc]
  BY <1>1
<1> HIDE DEF R, Q
<1> QED  BY <1>1, <1>2, <1>3, <1>5, <1>6

LEMMA ScoreFacts ==
  ASSUME NEW rows \in Seq(HullRow), rows # <<>>
  PROVE  /\ PowerScore(rows) \in Nat
         /\ MeanDev(rows) <= 2000 => PowerScore(rows) = 10000 - 5 * MeanDev(rows)
         /\ MeanDev(rows) > 2000 => PowerScore(rows) = 0
         /\ RoughScore(rows) \in Nat /\ RoughScore(rows) <= 10000
         /\ QpcScore(rows) \in Nat /\ QpcScore(rows) <= 10000
         /\ StabilityScore(rows) \in Nat /\ StabilityScore(rows) <= 10000
<1>1. MeanDev(rows) \in Int /\ Number(rows) \in Nat
  BY MeanOfRows, RowFacts
<1>2. /\ PowerScore(rows) \in Nat
      /\ MeanDev(rows) <= 2000 => PowerScore(rows) = 10000 - 5 * MeanDev(rows)
      /\ MeanDev(rows) > 2000 => PowerScore(rows) = 0
  BY <1>1 DEF PowerScore, AtLeast
<1>3. /\ Average([i \in DOMAIN rows |-> rows[i].rough]) \in Int
      /\ Average([i \in DOMAIN rows |-> rows[i].qpc]) \in Int
  <2>1. \A s \in Seq(Int) : s # <<>> => Average(s) \in Int
    <3>1. ASSUME NEW s \in Seq(Int), s # <<>> PROVE Average(s) \in Int
      <4>1. 0 \in Int
        OBVIOUS
      <4> QED  BY <3>1, <4>1, AverageBounds
    <3> QED  BY <3>1
  <2> QED  BY <2>1, ColumnFacts
<1>4. RoughScore(rows) \in Nat /\ RoughScore(rows) <= 10000
  <2> DEFINE a == Average([i \in DOMAIN rows |-> rows[i].rough])
  <2>1. RoughScore(rows) = Between(12000 - a, 0, 10000) /\ a \in Int
    BY <1>3 DEF RoughScore
  <2> HIDE DEF a
  <2> QED  BY <2>1 DEF Between, AtLeast
<1>5. QpcScore(rows) \in Nat /\ QpcScore(rows) <= 10000
  <2> DEFINE a == Average([i \in DOMAIN rows |-> rows[i].qpc])
             q == (2 * (a - 75000)) \div 3
  <2>1. QpcScore(rows) = Between(q, 0, 10000) /\ a \in Int
    BY <1>3 DEF QpcScore
  <2> HIDE DEF a
  <2>2. q \in Int
    BY <2>1
  <2> HIDE DEF q
  <2> QED  BY <2>1, <2>2 DEF Between, AtLeast
<1>6. StabilityScore(rows) \in Nat /\ StabilityScore(rows) <= 10000
  <2>1. CASE Number(rows) < 2
    BY <2>1 DEF StabilityScore
  <2>2. CASE ~(Number(rows) < 2)
    <3>1. 1 \in 1..Number(rows) /\ Number(rows) \in 1..Number(rows)
      BY <1>1, <2>2
    <3>2. Nth(rows, 1) \in Int /\ Nth(rows, Number(rows)) \in Int
      BY <3>1, NthIsDeviation
    <3>3. DevSpread(rows) \in Nat
      BY <3>2 DEF DevSpread, FirstAboveLast
    <3>4. StabilityScore(rows) = AtLeast(10000 - 3 * DevSpread(rows), 0)
      BY <2>2 DEF StabilityScore
    <3> QED  BY <3>3, <3>4 DEF AtLeast
  <2> QED  BY <2>1, <2>2
<1> QED  BY <1>2, <1>4, <1>5, <1>6

\* What a limit of the index says of the weighted sum.
Weighted(rows) ==
  40 * PowerScore(rows) + 25 * RoughScore(rows) + 20 * QpcScore(rows) + 15 * StabilityScore(rows)

LEMMA IndexFacts ==
  ASSUME NEW v, Latest(v, IndexWindow) \in Seq(HullRow), Latest(v, IndexWindow) # <<>>
  PROVE  /\ Index(v) \in Int
         /\ Weighted(Latest(v, IndexWindow)) \in Nat
         /\ Index(v) >= 7000 => Weighted(Latest(v, IndexWindow)) >= 700000
         /\ Index(v) >= 8500 => Weighted(Latest(v, IndexWindow)) >= 850000
<1> DEFINE w == Weighted(Latest(v, IndexWindow))
<1>1. w \in Nat
  <2> DEFINE rows == Latest(v, IndexWindow)
  <2>1. /\ PowerScore(rows) \in Nat /\ RoughScore(rows) \in Nat
        /\ QpcScore(rows) \in Nat /\ StabilityScore(rows) \in Nat
    BY ScoreFacts
  <2>2. w = 40 * PowerScore(rows) + 25 * RoughScore(rows) + 20 * QpcScore(rows)
              + 15 * StabilityScore(rows)
    BY DEF Weighted
  <2> HIDE DEF rows, w
  <2> QED  BY <2>1, <2>2, SMTT(30)
<1>2. Index(v) = Between(w \div 100, 0, 10000)
  BY DEF Index, Weighted
<1> HIDE DEF w
<1> DEFINE q == w \div 100
<1>3. q \in Int /\ (q >= 7000 => w >= 700000) /\ (q >= 8500 => w >= 850000)
  BY <1>1
<1> HIDE DEF q
<1>4. Index(v) = Between(q, 0, 10000)
  BY <1>2 DEF q
<1>5. Index(v) \in Int /\ (Index(v) >= 7000 => q >= 7000) /\ (Index(v) >= 8500 => q >= 8500)
  BY <1>3, <1>4 DEF Between, AtLeast
<1> QED  BY <1>1, <1>3, <1>5, SMTT(30) DEF w

\* Telemetry has one qpc, below what scores.
LEMMA QpcOfTelemetry ==
  ASSUME NEW rows \in Seq(HullRow), rows # <<>>, \A i \in 1..Len(rows) : rows[i].qpc = 70000
  PROVE  QpcScore(rows) = 0
<1> DEFINE Q == [i \in DOMAIN rows |-> rows[i].qpc]
           n == Len(rows)
<1>1. n \in Nat \ {0} /\ Q \in Seq(Int) /\ Q # <<>> /\ Len(Q) = n /\ \A i \in 1..n : Q[i] = 70000
  <2>1. /\ n \in Nat \ {0} /\ Q \in Seq(Int) /\ Q # <<>> /\ Len(Q) = n
        /\ \A i \in 1..n : Q[i] = rows[i].qpc
    BY ColumnFacts
  <2> HIDE DEF Q
  <2>2. \A i \in 1..n : Q[i] = 70000
    BY <2>1
  <2> QED  BY <2>1, <2>2
<1>2. QpcScore(rows) = Between((2 * (Average(Q) - 75000)) \div 3, 0, 10000)
  BY DEF QpcScore
<1> HIDE DEF Q, n
<1>3. Total(Q) = n * 70000
  BY <1>1, TotalOfConstant
<1>4. Average(Q) \in Int /\ Average(Q) <= 70000
  BY <1>1, <1>3, AverageBounds
<1>5. (2 * (Average(Q) - 75000)) \div 3 \in Int /\ (2 * (Average(Q) - 75000)) \div 3 < 0
  BY <1>4
<1> QED  BY <1>2, <1>5 DEF Between, AtLeast

-----------------------------------------------------------------------------
(* The statements.                                                         *)
\* A day that does not sail, or no faster than the baseline, is clean: they are more
\* than half of all days.
LEMMA MostDaysAreClean ==
  ASSUME NEW ks \in Seq(Nat), ks # <<>>
  PROVE  2 * Cardinality(CleanRows(Converted(ks))) > Len(ks)
<1> DEFINE n == Len(ks)
           U == UnderWay(ks)
           b == Baseline(ks)
           Still == (1..n) \ U
           C == CleanRows(Converted(ks))
<1>1. n \in Nat \ {0} /\ DOMAIN ks = 1..n /\ U \subseteq 1..n /\ \A i \in 1..n : ks[i] \in Nat
  BY EmptySeq, DaysUnderWay
<1>2. /\ DOMAIN Converted(ks) = 1..n
      /\ \A i \in 1..n : DayFacts(Converted(ks)[i], ks[i], b)
  <2>1. Converted(ks) \in Seq(HullRow) /\ Len(Converted(ks)) = n
    BY ConvertedRows
  <2> QED  BY <2>1, ConvertedRows
<1>3. ASSUME NEW i \in 1..n, ks[i] = 0 \/ ks[i] <= b
      PROVE  i \in C
  <2>1. DayFacts(Converted(ks)[i], ks[i], b)
    BY <1>2
  <2> HIDE DEF b
  <2>2. Converted(ks)[i].dev \in Int /\ Converted(ks)[i].dev <= 0
    <3>1. CASE ks[i] = 0
      <4>1. Converted(ks)[i].dev = 0
        BY <2>1, <3>1 DEF DayFacts, DevOf
      <4> QED  BY <4>1
    <3>2. CASE ks[i] <= b
      BY <2>1, <3>2 DEF DayFacts
    <3> QED  BY <1>3, <3>1, <3>2
  <2>3. Converted(ks)[i].level = LevelOf(Converted(ks)[i].dev)
    BY <2>1 DEF DayFacts
  <2>4. Converted(ks)[i].level = "clean"
    BY <2>2, <2>3, LevelFacts
  <2> QED  BY <1>2, <2>4 DEF CleanRows
<1>4. Still \cup NotAbove(ks, b) \subseteq C /\ C \subseteq 1..n
  <2>1. ASSUME NEW i \in Still PROVE i \in C
    <3>1. i \in 1..n /\ ~(ks[i] > 0) /\ ks[i] \in Nat
      BY <1>1 DEF UnderWay
    <3>2. ks[i] = 0
      BY <3>1
    <3> QED  BY <1>3, <3>1, <3>2
  <2>2. ASSUME NEW i \in NotAbove(ks, b) PROVE i \in C
    <3>1. i \in 1..n /\ ks[i] <= b
      BY <1>1 DEF NotAbove
    <3> QED  BY <1>3, <3>1
  <2>3. C \subseteq 1..n
    BY <1>2 DEF CleanRows
  <2> HIDE DEF C, Still
  <2> QED  BY <2>1, <2>2, <2>3
<1>5. NotAbove(ks, b) \subseteq U /\ Still \cap NotAbove(ks, b) = {}
  BY DEF NotAbove
<1> HIDE DEF U, b, C
<1>6. /\ Cardinality(U) \in Nat /\ Cardinality(U) <= n /\ Cardinality(Still) = n - Cardinality(U)
  <2>1. IsFiniteSet(1..n) /\ Cardinality(1..n) = n
    BY <1>1, FS_Interval
  <2>2. IsFiniteSet(U) /\ Cardinality(U) \in Nat /\ Cardinality(U) <= n
    BY <1>1, Places
  <2>3. (1..n) \cap U = U
    BY <1>1
  <2>4. Cardinality(Still) = Cardinality(1..n) - Cardinality((1..n) \cap U)
    BY <2>1, FS_Difference
  <2> QED  BY <2>1, <2>2, <2>3, <2>4
<1>7. /\ Cardinality(Still \cup NotAbove(ks, b)) = Cardinality(Still) + Cardinality(NotAbove(ks, b))
      /\ Cardinality(NotAbove(ks, b)) \in Nat
      /\ Cardinality(Still \cup NotAbove(ks, b)) <= Cardinality(C) /\ Cardinality(C) \in Nat
  <2>1. Still \subseteq 1..n /\ NotAbove(ks, b) \subseteq 1..n
    BY <1>1, <1>5
  <2>2. IsFiniteSet(Still) /\ IsFiniteSet(NotAbove(ks, b)) /\ Cardinality(NotAbove(ks, b)) \in Nat
    BY <1>1, <2>1, Places
  <2>3. Cardinality(C) \in Nat /\ Cardinality(Still \cup NotAbove(ks, b)) <= Cardinality(C)
    BY <1>1, <1>4, Places, MorePlaces
  <2>4. /\ Cardinality(Still \cup NotAbove(ks, b))
             = Cardinality(Still) + Cardinality(NotAbove(ks, b)) - Cardinality(Still \cap NotAbove(ks, b))
    BY <2>2, FS_Union
  <2>5. Cardinality(Still \cap NotAbove(ks, b)) = 0
    BY <1>5, FS_EmptySet
  <2>6. Cardinality(Still) \in Nat
    BY <2>2, FS_CardinalityType
  <2> QED  BY <2>2, <2>3, <2>4, <2>5, <2>6
<1>8. 2 * Cardinality(NotAbove(ks, b)) > Cardinality(U) \/ Cardinality(U) = 0
  <2>1. CASE U = {}
    BY <2>1, FS_EmptySet
  <2>2. CASE U # {}
    <3>1. Cardinality(U) \div 2 < Cardinality(NotAbove(ks, b))
      BY <2>2, BaselineIsMedian DEF U, b, IsMedian
    <3> QED  BY <1>6, <1>7, <3>1
  <2> QED  BY <2>1, <2>2
<1> HIDE DEF Still, n
<1>9. 2 * Cardinality(C) > n
  BY <1>1, <1>6, <1>7, <1>8
<1> QED  BY <1>9 DEF C, n

LEMMA HalfTheDaysHold ==
  ASSUME NEW v, IsVessel(v)
  PROVE  HalfTheDaysAreClean(v)
<1> DEFINE rows == Latest(v, IndexWindow)
<1> SUFFICES ASSUME v.rows = <<>>, v.days # <<>>
             PROVE  /\ 2 * Cardinality(CleanRows(rows)) > Len(rows)
                    /\ 2 * Cleaning(v).since < Len(rows)
                    /\ Rating(Index(v)) = "excellent" => MeanDev(rows) <= -250
  BY DEF HalfTheDaysAreClean, CleanRows
<1> DEFINE ks == NewestFirst(v.days, IndexWindow)
<1>1. IndexWindow \in Nat \ {0} /\ v.days \in Seq(Nat)
  BY Windows DEF IsVessel
<1>2. rows \in Seq(HullRow) /\ rows # <<>> /\ rows = Converted(ks) /\ Whole(v, IndexWindow) = rows
  BY <1>1, RowsRead
<1>3. ks \in Seq(Nat) /\ Len(ks) = Len(rows) /\ ks # <<>>
  <2>1. ks \in Seq(Nat)
    BY <1>1, NewestRows
  <2> HIDE DEF ks
  <2>2. Len(rows) = Len(ks) /\ Len(rows) \in Nat \ {0}
    <3>1. Len(rows) \in Nat \ {0}
      BY <1>2, ColumnFacts
    <3> QED  BY <1>2, <2>1, <3>1, ConvertedRows
  <2> QED  BY <2>1, <2>2
<1>4. 2 * Cardinality(CleanRows(rows)) > Len(rows)
  BY <1>2, <1>3, MostDaysAreClean
<1>5. 2 * Cleaning(v).since < Len(rows)
  <2>1. Cleaning(v).since = Since(rows)
    BY <1>2 DEF Cleaning, Since, CleanRows
  <2>2. /\ Since(rows) \in Nat /\ Cardinality(CleanRows(rows)) \in Nat /\ Len(rows) \in Nat
        /\ Since(rows) + Cardinality(CleanRows(rows)) <= Len(rows)
    BY <1>2, SinceFacts, RowFacts
  <2> QED  BY <1>4, <2>1, <2>2
<1>6. ASSUME Rating(Index(v)) = "excellent" PROVE MeanDev(rows) <= -250
  <2>1. Index(v) \in Int /\ (Index(v) >= 8500 => Weighted(rows) >= 850000)
    BY <1>2, IndexFacts
  <2>2. Index(v) >= 8500
    BY <1>6, <2>1 DEF Rating
  <2>3. \A i \in 1..Len(rows) : rows[i].qpc = 70000
    BY <1>2, <1>3, ConvertedRows DEF DayFacts
  <2>4. QpcScore(rows) = 0
    BY <1>2, <2>3, QpcOfTelemetry
  <2> HIDE DEF rows
  <2>5. /\ PowerScore(rows) \in Nat /\ MeanDev(rows) \in Int
        /\ MeanDev(rows) <= 2000 => PowerScore(rows) = 10000 - 5 * MeanDev(rows)
        /\ MeanDev(rows) > 2000 => PowerScore(rows) = 0
        /\ RoughScore(rows) \in Nat /\ RoughScore(rows) <= 10000
        /\ StabilityScore(rows) \in Nat /\ StabilityScore(rows) <= 10000
    BY <1>2, ScoreFacts, MeanOfRows
  <2>6. 40 * PowerScore(rows) + 25 * RoughScore(rows) + 15 * StabilityScore(rows) >= 850000
    <3>1. Weighted(rows) >= 850000
      BY <2>1, <2>2
    <3>2. Weighted(rows) = 40 * PowerScore(rows) + 25 * RoughScore(rows) + 20 * 0
                             + 15 * StabilityScore(rows)
      BY <2>4, SMT DEF Weighted
    <3> QED  BY <2>5, <3>1, <3>2, SMT
  <2> DEFINE p == PowerScore(rows)
             m == MeanDev(rows)
             r == RoughScore(rows)
             t == StabilityScore(rows)
  <2>7. /\ p \in Nat /\ m \in Int /\ r \in Nat /\ t \in Nat /\ r <= 10000 /\ t <= 10000
        /\ m <= 2000 => p = 10000 - 5 * m
        /\ m > 2000 => p = 0
        /\ 40 * p + 25 * r + 15 * t >= 850000
    BY <2>5, <2>6, SMT
  <2> HIDE DEF p, m, r, t
  <2>8. m <= -250
    BY <2>7, SMT
  <2> QED  BY <2>8, SMT DEF m
<1> QED  BY <1>4, <1>5, <1>6

\* Rows of the application read back are rows of the application.
LEMMA RowsReadAreRows ==
  ASSUME NEW v, IsVessel(v), v.rows # <<>>, NEW limit \in Nat \ {0}
  PROVE  /\ v.rows = StaticRows =>
              \A i \in 1..Len(Latest(v, limit)) : Latest(v, limit)[i].dev = StaticDeviation
         /\ v.rows = StaticRows =>
              \A i \in 1..Len(Whole(v, limit)) : Whole(v, limit)[i].dev = StaticDeviation
         /\ v.rows # StaticRows => \A i \in 1..Len(Latest(v, limit)) : Generated(Latest(v, limit)[i])
         /\ v.rows # StaticRows => \A i \in 1..Len(Whole(v, limit)) : Generated(Whole(v, limit)[i])
<1>1. v.rows \in Seq(HullRow) /\ Len(v.rows) \in Nat
  BY LenProperties DEF IsVessel
<1>2. /\ Latest(v, limit) = NewestFirst(v.rows, limit)
      /\ Whole(v, limit) = NewestFirst(v.rows, Len(v.rows))
  BY RowsRead
<1>3. ASSUME NEW m \in Nat, NEW i \in 1..Len(NewestFirst(v.rows, m))
      PROVE  \E j \in 1..Len(v.rows) : NewestFirst(v.rows, m)[i] = v.rows[j]
  BY <1>1, NewestRows
<1>4. v.rows = StaticRows => \A j \in 1..Len(v.rows) : v.rows[j].dev = StaticDeviation
  <2>1. Len(StaticRows) = 4 /\ \A j \in 1..4 : StaticRows[j].dev = StaticDeviation
    BY DEF StaticRows
  <2> QED  BY <2>1
<1>5. v.rows # StaticRows => \A j \in 1..Len(v.rows) : Generated(v.rows[j])
  BY DEF IsVessel
<1>6. ASSUME NEW m \in Nat
      PROVE  /\ v.rows = StaticRows => \A i \in 1..Len(NewestFirst(v.rows, m)) :
                  NewestFirst(v.rows, m)[i].dev = StaticDeviation
             /\ v.rows # StaticRows => \A i \in 1..Len(NewestFirst(v.rows, m)) :
                  Generated(NewestFirst(v.rows, m)[i])
  <2>1. ASSUME NEW i \in 1..Len(NewestFirst(v.rows, m))
        PROVE  /\ v.rows = StaticRows => NewestFirst(v.rows, m)[i].dev = StaticDeviation
               /\ v.rows # StaticRows => Generated(NewestFirst(v.rows, m)[i])
    <3>1. PICK j \in 1..Len(v.rows) : NewestFirst(v.rows, m)[i] = v.rows[j]
      BY <1>3
    <3> QED  BY <1>4, <1>5, <3>1
  <2> QED  BY <2>1
<1> QED  BY <1>1, <1>2, <1>6

\* Generated rows that deviate much score little: roughness and qpc follow the deviation.
LEMMA ScoresOfGenerated ==
  ASSUME NEW rows \in Seq(HullRow), rows # <<>>, \A i \in 1..Len(rows) : Generated(rows[i]),
         MeanDev(rows) >= 1500
  PROVE  RoughScore(rows) <= 9000 /\ QpcScore(rows) <= 6667
<1> DEFINE n == Len(rows)
           D == DevColumn(rows)
           R == [i \in DOMAIN rows |-> rows[i].rough]
           Q == [i \in DOMAIN rows |-> rows[i].qpc]
           A == [i \in 1..n |-> 3000]
           B == [i \in 1..n |-> 85000]
<1>1. /\ n \in Nat \ {0}
      /\ R \in Seq(Int) /\ R # <<>> /\ Len(R) = n /\ \A i \in 1..n : R[i] = rows[i].rough
      /\ Q \in Seq(Int) /\ Q # <<>> /\ Len(Q) = n /\ \A i \in 1..n : Q[i] = rows[i].qpc
  BY ColumnFacts
<1>2. /\ D \in Seq(Int) /\ Len(D) = n /\ \A i \in 1..n : D[i] = rows[i].dev /\ rows[i].dev \in Int
      /\ Total(D) \in Int
  BY RowFacts
<1>3. /\ RoughScore(rows) = Between(12000 - Average(R), 0, 10000)
      /\ QpcScore(rows) = Between((2 * (Average(Q) - 75000)) \div 3, 0, 10000)
  BY DEF RoughScore, QpcScore
<1>4. \A i \in 1..n : rows[i].rough = 3000 + rows[i].dev /\ rows[i].qpc = 85000 - rows[i].dev
  BY SMT DEF Generated
<1>5. Total(D) >= 0
  <2>1. Number(rows) \in Nat /\ Total(D) >= 1500 * Number(rows)
    <3>1. 1500 \in Nat \ {0}
      OBVIOUS
    <3> QED  BY <3>1, MeanOfRows, RowFacts
  <2> QED  BY <1>2, <2>1
<1> HIDE DEF D, R, Q, n
<1>6. A \in Seq(Int) /\ Len(A) = n /\ \A i \in 1..n : A[i] = 3000
  BY <1>1
<1>7. B \in Seq(Int) /\ Len(B) = n /\ \A i \in 1..n : B[i] = 85000
  BY <1>1, SMT
<1> HIDE DEF A, B
<1>8. Total(A) = n * 3000 /\ Total(B) = n * 85000
  BY <1>1, <1>6, <1>7, TotalOfConstant, SMT
<1>9. Total(R) = Total(A) + Total(D)
  <2>1. \A i \in 1..Len(A) : R[i] = A[i] + D[i]
    <3>1. ASSUME NEW i \in 1..n PROVE R[i] = A[i] + D[i]
      <4>1. /\ A[i] = 3000 /\ R[i] = rows[i].rough /\ D[i] = rows[i].dev
            /\ rows[i].rough = 3000 + rows[i].dev
        BY <1>1, <1>2, <1>4, <1>6
      <4> QED  BY <4>1
    <3> QED  BY <1>6, <3>1
  <2>2. /\ A \in Seq(Int) /\ D \in Seq(Int) /\ R \in Seq(Int)
        /\ Len(D) = Len(A) /\ Len(R) = Len(A)
    BY <1>1, <1>2, <1>6
  <2>3. IsSum(R, A, D)
    BY <2>1, <2>2 DEF IsSum
  <2> QED  BY <2>3, TotalOfSum
<1>10. Total(B) = Total(Q) + Total(D) /\ Total(Q) \in Int
  <2>1. \A i \in 1..Len(Q) : B[i] = Q[i] + D[i]
    <3>1. ASSUME NEW i \in 1..n PROVE B[i] = Q[i] + D[i]
      <4>1. /\ B[i] = 85000 /\ Q[i] = rows[i].qpc /\ D[i] = rows[i].dev
            /\ rows[i].qpc = 85000 - rows[i].dev /\ rows[i].dev \in Int
        <5>1. B[i] = 85000
          BY <1>7, SMT
        <5>2. Q[i] = rows[i].qpc
          BY <1>1
        <5>3. D[i] = rows[i].dev /\ rows[i].dev \in Int
          BY <1>2
        <5>4. rows[i].qpc = 85000 - rows[i].dev
          BY <1>4, SMT
        <5> QED  BY <5>1, <5>2, <5>3, <5>4, SMT
      <4> QED  BY <4>1, SMT
    <3> QED  BY <1>1, <3>1
  <2>2. /\ B \in Seq(Int) /\ D \in Seq(Int) /\ Q \in Seq(Int)
        /\ Len(D) = Len(Q) /\ Len(B) = Len(Q)
    <3>1. B \in Seq(Int) /\ Len(B) = n
      BY <1>7, SMT
    <3> QED  BY <1>1, <1>2, <3>1
  <2>3. IsSum(B, Q, D)
    BY <2>1, <2>2 DEF IsSum
  <2> QED  BY <2>3, TotalOfSum
<1>11. 3000 * Len(R) <= Total(R) /\ Total(Q) <= 85000 * Len(Q)
  BY <1>1, <1>2, <1>5, <1>8, <1>9, <1>10, SMT
<1>12. Average(R) \in Int /\ 3000 <= Average(R)
  <2> DEFINE b == 3000
  <2>1. b \in Int /\ b * Len(R) <= Total(R)
    BY <1>11
  <2>2. R \in Seq(Int) /\ R # <<>>
    BY <1>1
  <2> HIDE DEF b
  <2>3. Average(R) \in Int /\ b <= Average(R)
    BY <2>1, <2>2, AverageBounds
  <2> QED  BY <2>3 DEF b
<1>13. Average(Q) \in Int /\ Average(Q) <= 85000
  <2> DEFINE b == 85000
  <2>1. b \in Int /\ Total(Q) <= b * Len(Q)
    BY <1>11, SMT
  <2>2. Q \in Seq(Int) /\ Q # <<>>
    BY <1>1
  <2> HIDE DEF b
  <2>3. Average(Q) \in Int /\ Average(Q) <= b
    BY <2>1, <2>2, AverageBounds
  <2> QED  BY <2>3, SMT DEF b
<1>14. RoughScore(rows) <= 9000
  BY <1>3, <1>12 DEF Between, AtLeast
<1>15. QpcScore(rows) <= 6667
  <2> DEFINE q == (2 * (Average(Q) - 75000)) \div 3
  <2>1. q \in Int /\ q <= 6667
    BY <1>13, SMT
  <2> HIDE DEF q
  <2>2. QpcScore(rows) = Between(q, 0, 10000)
    BY <1>3 DEF q
  <2> QED  BY <2>1, <2>2 DEF Between, AtLeast
<1> QED  BY <1>14, <1>15

\* A heavily fouled hull is not rated better than fair, whoever wrote its rows.
LEMMA HeavyIsNotGood ==
  ASSUME NEW v, IsVessel(v), Latest(v, IndexWindow) # <<>>, MeanDev(Latest(v, IndexWindow)) >= 1500
  PROVE  Index(v) \in Int /\ Index(v) < 7000
<1> DEFINE rows == Latest(v, IndexWindow)
<1>1. IndexWindow \in Nat \ {0}
  BY Windows
<1>2. rows \in Seq(HullRow) /\ rows # <<>> /\ MeanDev(rows) \in Int
  BY <1>1, RowsRead, MeanOfRows
<1>3. 25 * RoughScore(rows) + 20 * QpcScore(rows) <= 400000
  <2>1. CASE v.rows = <<>>
    <3> DEFINE ks == NewestFirst(v.days, IndexWindow)
    <3>1. ks \in Seq(Nat) /\ rows = Converted(ks)
      <4>1. v.days \in Seq(Nat)
        BY DEF IsVessel
      <4>2. ks \in Seq(Nat)
        BY <1>1, <4>1, NewestRows
      <4>3. rows = Converted(ks)
        BY <1>1, <2>1, RowsRead
      <4> QED  BY <4>2, <4>3
    <3>2. \A i \in 1..Len(rows) : rows[i].qpc = 70000
      <4> HIDE DEF ks
      <4> QED  BY <3>1, ConvertedRows DEF DayFacts
    <3>3. QpcScore(rows) = 0
      BY <1>2, <3>2, QpcOfTelemetry
    <3> QED  BY <1>2, <3>3, ScoreFacts, SMT
  <2>2. CASE v.rows # <<>> /\ v.rows = StaticRows
    <3>1. \A i \in 1..Len(rows) : rows[i].dev = StaticDeviation
      BY <1>1, <2>2, RowsReadAreRows
    <3>2. StaticDeviation \in Int /\ StaticDeviation <= 1499
      BY HullAssumption DEF HullAssumption
    <3> HIDE DEF rows
    <3>3. Number(rows) = 0 \/ MeanDev(rows) <= 1499
      <4>1. 1499 \in Int /\ \A i \in 1..Len(rows) : rows[i].dev <= 1499
        BY <3>1, <3>2
      <4> QED  BY <1>2, <4>1, MeanAtMost
    <3>4. MeanDev(rows) <= 1499
      BY <1>2, <3>3, MeanOfRows
    <3>5. MeanDev(rows) >= 1500
      BY DEF rows
    <3> QED  BY <1>2, <3>4, <3>5, SMT
  <2>3. CASE v.rows # <<>> /\ v.rows # StaticRows
    <3>1. \A i \in 1..Len(rows) : Generated(rows[i])
      BY <1>1, <2>3, RowsReadAreRows
    <3>2. RoughScore(rows) <= 9000 /\ QpcScore(rows) <= 6667
      BY <1>2, <3>1, ScoresOfGenerated
    <3> HIDE DEF rows
    <3>3. RoughScore(rows) \in Nat /\ QpcScore(rows) \in Nat
      BY <1>2, ScoreFacts
    <3> QED  BY <3>2, <3>3
  <2> QED  BY <2>1, <2>2, <2>3
<1>4. Index(v) \in Int /\ (Index(v) >= 7000 => Weighted(rows) >= 700000)
  BY <1>2, IndexFacts, SMT
<1>5. Weighted(rows) < 700000
  <2>1. MeanDev(rows) >= 1500
    OBVIOUS
  <2> HIDE DEF rows
  <2>2. /\ PowerScore(rows) \in Nat /\ PowerScore(rows) <= 2500
        /\ RoughScore(rows) \in Nat /\ QpcScore(rows) \in Nat
        /\ StabilityScore(rows) \in Nat /\ StabilityScore(rows) <= 10000
    BY <1>2, <2>1, ScoreFacts
  <2> DEFINE p == PowerScore(rows)
             r == RoughScore(rows)
             q == QpcScore(rows)
             s == StabilityScore(rows)
  <2>3. /\ p \in Nat /\ p <= 2500 /\ r \in Nat /\ q \in Nat /\ s \in Nat /\ s <= 10000
        /\ 25 * r + 20 * q <= 400000
    BY <1>3, <2>2, SMT
  <2>4. Weighted(rows) = 40 * p + 25 * r + 20 * q + 15 * s
    BY SMT DEF Weighted
  <2> HIDE DEF p, r, q, s
  <2> QED  BY <2>3, <2>4, SMT
<1>6. Weighted(rows) \in Nat
  BY <1>2, IndexFacts
<1> QED  BY <1>4, <1>5, <1>6, SMT

\* Assessment and twin take the mean of the same deviations.
LEMMA AgreementHolds ==
  ASSUME NEW v, IsVessel(v)
  PROVE  AssessmentAndTwinAgree(v)
<1> SUFFICES ASSUME InOneWindow(v)
             PROVE  /\ Twin(v).status = "Good" <=> Fouling(v).level = "clean"
                    /\ Fouling(v).cleaning => Twin(v).cleaning
                    /\ Twin(v).cleaning => Fouling(v).level # "clean"
                    /\ Fouling(v).level = "heavy" =>
                         Twin(v).due = 0 /\ Rating(Index(v)) \notin {"excellent", "good"}
  BY DEF AssessmentAndTwinAgree
<1> DEFINE rows == Latest(v, FoulingWindow)
           mean == MeanDev(rows)
           index == Between(10000 - 5 * mean, 0, 10000)
           due == (30 * (1500 - mean)) \div 100
<1>1. /\ FoulingWindow \in Nat \ {0} /\ IndexWindow \in Nat \ {0} /\ FoulingWindow <= IndexWindow
  BY Windows
<1>2. rows \in Seq(HullRow) /\ rows # <<>> /\ TwinRows(v) = rows /\ Latest(v, IndexWindow) = rows
  BY <1>1, RowsRead, TwinReads, OneWindow
<1>3. mean \in Int
  BY <1>2, MeanOfRows
<1>4. /\ Fouling(v).level = LevelOf(mean)
      /\ Fouling(v).cleaning <=> LevelOf(mean) \in Foul
  BY DEF Fouling
<1>5. /\ Twin(v).status = HealthStatus(index)
      /\ Twin(v).cleaning <=> index < 7000
      /\ Twin(v).due = AtLeast(due, 0)
  <2> DEFINE i == Between(10000 - 5 * MeanDev(TwinRows(v)), 0, 10000)
             d == (30 * (1500 - MeanDev(TwinRows(v)))) \div 100
  <2>1. MeanDev(TwinRows(v)) = mean
    BY <1>2
  <2> HIDE DEF mean
  <2>2. i = index /\ d = due
    BY <2>1
  <2> DEFINE t == IF Number(TwinRows(v)) >= 5 /\ FirstAboveLast(TwinRows(v)) THEN "degrading" ELSE "stable"
             c == i < 7000
  <2>3. Twin(v) = [status |-> HealthStatus(i), cleaning |-> i < 7000, due |-> AtLeast(d, 0), trend |-> t]
    BY DEF Twin
  <2>4. c \in BOOLEAN
    OBVIOUS
  <2> HIDE DEF i, d, t, c, index, due
  <2>5. Twin(v) = [status |-> HealthStatus(i), cleaning |-> c, due |-> AtLeast(d, 0), trend |-> t]
    BY <2>3 DEF c
  <2>6. /\ Twin(v).status = HealthStatus(i)
        /\ Twin(v).cleaning <=> i < 7000
        /\ Twin(v).due = AtLeast(d, 0)
    <3>1. Twin(v).cleaning = c
      BY <2>5
    <3>2. Twin(v).cleaning <=> c
      BY <2>4, <3>1
    <3>3. Twin(v).status = HealthStatus(i) /\ Twin(v).due = AtLeast(d, 0)
      BY <2>5
    <3> QED  BY <3>2, <3>3 DEF c
  <2> QED  BY <2>2, <2>6
<1>6. mean >= 1500 => Index(v) \in Int /\ Index(v) < 7000
  BY <1>2, HeavyIsNotGood
<1> HIDE DEF rows, mean
<1>7. /\ LevelOf(mean) = "clean" <=> mean < 300
      /\ LevelOf(mean) \in Foul <=> mean >= 800
      /\ LevelOf(mean) = "heavy" <=> mean >= 1500
  BY <1>3, LevelFacts
<1>8. /\ index \in Int /\ (index > 8500 <=> mean < 300)
      /\ mean >= 800 => index < 7000
      /\ index < 7000 => mean >= 300
  BY <1>3 DEF Between, AtLeast
<1>9. mean >= 1500 => AtLeast(due, 0) = 0
  <2>1. due \in Int /\ (mean >= 1500 => due <= 0)
    BY <1>3
  <2> HIDE DEF due
  <2> QED  BY <2>1 DEF AtLeast
<1> HIDE DEF index, due
<1>10. Twin(v).status = "Good" <=> index > 8500
  BY <1>5, <1>8 DEF HealthStatus
<1>11. Index(v) \in Int /\ Index(v) < 7000 => Rating(Index(v)) \notin {"excellent", "good"}
  BY DEF Rating
<1>12. Twin(v).status = "Good" <=> Fouling(v).level = "clean"
  BY <1>4, <1>7, <1>8, <1>10
<1>13. Fouling(v).cleaning => Twin(v).cleaning
  BY <1>4, <1>5, <1>7, <1>8
<1>14. Twin(v).cleaning => Fouling(v).level # "clean"
  BY <1>3, <1>4, <1>5, <1>7, <1>8
<1>15. Fouling(v).level = "heavy" =>
         Twin(v).due = 0 /\ Rating(Index(v)) \notin {"excellent", "good"}
  BY <1>4, <1>5, <1>6, <1>7, <1>9, <1>11
<1> QED  BY <1>12, <1>13, <1>14, <1>15

\* The rows hull_trend forecasts from: a newest one below eight percent is not foul, unless
\* it is a static one, which has not changed.
LEMMA ForecastIsNotFoul ==
  ASSUME NEW v, IsVessel(v), Data(v) # <<>>, Trend(v).forecast
  PROVE  Whole(v, TrendWindow)[1].level \notin Foul
<1> DEFINE rows == Whole(v, TrendWindow)
<1>1. TrendWindow \in Nat \ {0} /\ v.rows \in Seq(HullRow) /\ v.days \in Seq(Nat)
  BY Windows DEF IsVessel
<1>2. rows \in Seq(HullRow) /\ rows # <<>>
  <2>1. CASE v.rows # <<>>
    BY <1>1, <2>1, RowsRead
  <2>2. CASE v.rows = <<>>
    <3>1. v.days # <<>>
      BY <2>2 DEF Data
    <3> QED  BY <1>1, <2>2, <3>1, RowsRead
  <2> QED  BY <2>1, <2>2
<1>3. rows[1].dev > rows[Len(rows)].dev /\ rows[1].dev < 800
  BY DEF Trend
<1>4. /\ Len(rows) \in Nat \ {0} /\ 1 \in 1..Len(rows) /\ Len(rows) \in 1..Len(rows)
      /\ rows[1].dev \in Int
  BY <1>2, RowFacts, EmptySeq
<1>5. CASE v.rows = <<>>
  <2> DEFINE ks == NewestFirst(v.days, TrendWindow)
  <2>1. ks \in Seq(Nat) /\ rows = Converted(ks)
    BY <1>1, <1>5, RowsRead, NewestRows
  <2> HIDE DEF ks, rows
  <2>2. rows[1].level = LevelOf(rows[1].dev)
    BY <1>4, <2>1, ConvertedRows DEF DayFacts
  <2>3. rows[1].level \notin Foul
    BY <1>3, <1>4, <2>2, LevelFacts
  <2> QED  BY <2>3 DEF rows
<1>6. CASE v.rows # <<>> /\ v.rows = StaticRows
  <2>1. \A i \in 1..Len(rows) : rows[i].dev = StaticDeviation
    BY <1>1, <1>6, RowsReadAreRows
  <2> HIDE DEF rows
  <2>2. rows[1].dev = StaticDeviation /\ rows[Len(rows)].dev = StaticDeviation
    BY <1>4, <2>1
  <2>3. ~(StaticDeviation > StaticDeviation)
    BY HullAssumption DEF HullAssumption
  <2> QED  BY <1>3, <2>2, <2>3
<1>7. CASE v.rows # <<>> /\ v.rows # StaticRows
  <2>1. Generated(rows[1])
    BY <1>1, <1>4, <1>7, RowsReadAreRows
  <2> HIDE DEF rows
  <2>2. rows[1].level = Level(rows[1].dev, 500, 1000, rows[1].dev + 1)
    BY <2>1 DEF Generated
  <2>3. \A d \in Int : d < 800 => Level(d, 500, 1000, d + 1) \notin Foul
    <3>1. ASSUME NEW d \in Int, d < 800 PROVE Level(d, 500, 1000, d + 1) \in {"clean", "light"}
      BY <3>1 DEF Level
    <3> QED  BY <3>1 DEF Foul
  <2>4. rows[1].level \notin Foul
    <3> DEFINE d == rows[1].dev
    <3>1. d \in Int /\ d < 800
      BY <1>3, <1>4
    <3> HIDE DEF d
    <3>2. Level(d, 500, 1000, d + 1) \notin Foul
      BY <2>3, <3>1
    <3> QED  BY <2>2, <3>2 DEF d
  <2> QED  BY <2>4 DEF rows
<1> QED  BY <1>5, <1>6, <1>7

\* The trends compare the ends of one list, in one order or the other.
LEMMA TrendsHold ==
  ASSUME NEW v, IsVessel(v)
  PROVE  TrendsAreOneStory(v)
<1> DEFINE rows == Latest(v, FoulingWindow)
           number == Number(rows)
<1>1. /\ FoulingWindow \in Nat \ {0} /\ IndexWindow \in Nat \ {0} /\ FoulingWindow <= IndexWindow
      /\ TrendWindow \in Nat \ {0} /\ FoulingWindow <= TrendWindow /\ IndexTrend \in Nat \ {0}
  BY Windows
<1>2. rows \in Seq(HullRow) /\ number \in Nat
  <2>1. rows \in Seq(HullRow)
    BY <1>1, RowsRead
  <2> QED  BY <2>1, RowFacts
<1>3. InOneWindow(v) => /\ TwinRows(v) = rows /\ Latest(v, IndexWindow) = rows
                        /\ Whole(v, TrendWindow) = rows
                        /\ Len(rows) = Len(Data(v)) /\ Len(rows) \in Nat \ {0}
  <2>1. InOneWindow(v) => TwinRows(v) = rows
    BY TwinReads
  <2>2. InOneWindow(v) => /\ Latest(v, IndexWindow) = rows /\ Whole(v, TrendWindow) = rows
                          /\ Len(rows) = Len(Data(v)) /\ Len(Data(v)) \in Nat \ {0}
    BY <1>1, OneWindow
  <2> QED  BY <2>1, <2>2
<1>4. Fouling(v).trend = "increasing" <=> number >= 3 /\ FirstAboveLast(rows)
  BY DEF Fouling
<1>5. ASSUME Twin(v).trend = "degrading", InOneWindow(v) PROVE Fouling(v).trend = "increasing"
  <2>1. Number(TwinRows(v)) >= 5 /\ FirstAboveLast(TwinRows(v))
    BY <1>5 DEF Twin
  <2> HIDE DEF rows
  <2> QED  BY <1>2, <1>3, <1>4, <1>5, <2>1
<1>6. ASSUME InOneWindow(v), number <= IndexTrend
      PROVE  IndexTrendOf(v) = "improving" <=> Fouling(v).trend = "increasing"
  <2> HIDE DEF rows
  <2>1. (IF number >= IndexTrend THEN IndexTrend ELSE number) = number
    BY <1>1, <1>2, <1>6
  <2>2. IndexTrendOf(v) =
          CASE number >= 3 /\ Nth(rows, number) < Nth(rows, 1) -> "improving"
            [] number >= 3 /\ Nth(rows, number) > Nth(rows, 1) -> "worsening"
            [] OTHER                                           -> "stable"
    BY <1>3, <1>6, <2>1 DEF IndexTrendOf
  <2>3. number >= 3 => Nth(rows, 1) \in Int /\ Nth(rows, number) \in Int
    <3>1. number >= 3 => 1 \in 1..number /\ number \in 1..number
      BY <1>2
    <3> QED  BY <1>2, <3>1, NthIsDeviation
  <2> DEFINE first == Nth(rows, 1)
             last == Nth(rows, number)
  <2>4. FirstAboveLast(rows) <=> first > last
    BY DEF FirstAboveLast
  <2> HIDE DEF first, last, number
  <2>5. CASE number >= 3 /\ last < first
    BY <1>4, <2>2, <2>3, <2>4, <2>5 DEF first, last
  <2>6. CASE ~(number >= 3 /\ last < first)
    <3>1. IndexTrendOf(v) # "improving"
      <4>1. IndexTrendOf(v) = CASE number >= 3 /\ last > first -> "worsening" [] OTHER -> "stable"
        BY <2>2, <2>6 DEF first, last
      <4> QED  BY <4>1
    <3> QED  BY <1>4, <2>3, <2>4, <2>6, <3>1 DEF first, last
  <2> QED  BY <2>5, <2>6
<1>7. ASSUME InOneWindow(v), number = Len(Data(v))
      PROVE  Trend(v).trend = "increasing" <=> Fouling(v).trend = "increasing"
  <2>1. number = Len(rows) /\ Whole(v, TrendWindow) = rows /\ Len(rows) \in Nat \ {0}
    BY <1>3, <1>7
  <2>2. Nth(rows, 1) = rows[1].dev /\ Nth(rows, number) = rows[Len(rows)].dev
    <3>1. 1 \in 1..Len(rows) /\ Len(rows) \in 1..Len(rows)
      BY <2>1
    <3> HIDE DEF rows
    <3> QED  BY <1>2, <2>1, <3>1, AllDeviate
  <2>3. rows[1].dev \in Int /\ rows[Len(rows)].dev \in Int
    <3>1. 1 \in 1..Len(rows) /\ Len(rows) \in 1..Len(rows)
      BY <2>1
    <3> HIDE DEF rows
    <3> QED  BY <1>2, <3>1, RowFacts
  <2> DEFINE current == rows[1].dev
             initial == rows[Len(rows)].dev
             len == Len(rows)
  <2>4. Trend(v).trend = CASE len < 3                          -> "stable"
                           [] len >= 3 /\ current > initial    -> "increasing"
                           [] len >= 3 /\ current <= initial   -> "decreasing"
    BY <2>1 DEF Trend
  <2>5. FirstAboveLast(rows) <=> current > initial
    BY <2>2 DEF FirstAboveLast
  <2>6. number = len /\ len \in Nat
    BY <2>1
  <2>7. current \in Int /\ initial \in Int
    BY <2>3
  <2> HIDE DEF current, initial, len, number, rows
  <2>8. CASE len < 3
    BY <1>4, <2>4, <2>6, <2>8
  <2>9. CASE len >= 3 /\ current > initial
    <3>1. ~(len < 3) /\ ~(current <= initial)
      BY <2>6, <2>7, <2>9
    <3>2. Trend(v).trend = "increasing"
      BY <2>4, <2>9, <3>1
    <3> QED  BY <1>4, <2>5, <2>6, <2>9, <3>2
  <2>10. CASE len >= 3 /\ current <= initial
    <3>1. Trend(v).trend = "decreasing"
      BY <2>4, <2>6, <2>7, <2>10
    <3> QED  BY <1>4, <2>5, <2>7, <2>10, <3>1
  <2> QED  BY <2>6, <2>7, <2>8, <2>9, <2>10
<1>8. Data(v) # <<>> /\ Trend(v).forecast => Whole(v, TrendWindow)[1].level \notin Foul
  BY ForecastIsNotFoul
<1> QED  BY <1>5, <1>6, <1>7, <1>8 DEF TrendsAreOneStory

-----------------------------------------------------------------------------
(* The order of the rows.  A log whose dates come once a call can be       *)
(* sorted: every place is taken, by one entry.                             *)
Entry == [day : Nat, call : Nat, row : HullRow]
CallsDiffer(log) ==
  \A i, j \in 1..Len(log) :
    i # j /\ log[i].day = log[j].day =>
      log[i].call # log[j].call /\ log[i].call \in 1..Calls

LEMMA EntryFacts ==
  ASSUME NEW log \in Seq(Entry)
  PROVE  /\ Len(log) \in Nat /\ DOMAIN log = 1..Len(log)
         /\ \A i \in 1..Len(log) : /\ log[i].day \in Nat /\ log[i].call \in Nat
                                   /\ log[i].row \in HullRow
<1>1. Len(log) \in Nat /\ DOMAIN log = 1..Len(log)
  BY LenProperties
<1>2. \A i \in 1..Len(log) : log[i] \in Entry
  BY <1>1, ElementOfSeq
<1> QED  BY <1>1, <1>2 DEF Entry

\* A tie is broken one way: of two entries one comes first.
LEMMA TieBroken ==
  ASSUME NEW log \in Seq(Entry), CallsDiffer(log), NEW tie \in [Shared(log) -> Rankings],
         NEW i \in 1..Len(log), NEW j \in 1..Len(log), i # j, log[i].day = log[j].day
  PROVE  /\ log[i].day \in Shared(log)
         /\ tie[log[i].day][log[i].call] \in Nat /\ tie[log[i].day][log[j].call] \in Nat
         /\ tie[log[i].day][log[i].call] # tie[log[i].day][log[j].call]
<1>1. /\ log[i].call # log[j].call /\ log[i].call \in 1..Calls /\ log[j].call \in 1..Calls
      /\ DOMAIN log = 1..Len(log)
  BY EntryFacts DEF CallsDiffer
<1>2. log[i].day \in Shared(log)
  <2>1. i \in {k \in DOMAIN log : \E m \in DOMAIN log : m # k /\ log[m].day = log[k].day}
    BY <1>1
  <2> QED  BY <2>1 DEF Shared
<1>3. tie[log[i].day] \in Rankings
  BY <1>2
<1> DEFINE rank == tie[log[i].day]
<1>4. /\ rank \in [1..Calls -> 1..Calls]
      /\ \A c, d \in 1..Calls : rank[c] = rank[d] => c = d
  BY <1>3 DEF Rankings
<1>5. Calls \in Nat
  BY HullAssumption DEF HullAssumption
<1> HIDE DEF rank
<1>6. rank[log[i].call] \in 1..Calls /\ rank[log[j].call] \in 1..Calls
      /\ rank[log[i].call] # rank[log[j].call]
  BY <1>1, <1>4
<1>7. rank[log[i].call] \in Nat /\ rank[log[j].call] \in Nat
  BY <1>5, <1>6
<1> QED  BY <1>2, <1>6, <1>7 DEF rank

LEMMA OneComesFirst ==
  ASSUME NEW log \in Seq(Entry), CallsDiffer(log), NEW tie \in [Shared(log) -> Rankings],
         NEW i \in 1..Len(log), NEW j \in 1..Len(log)
  PROVE  /\ NotAfter(log, tie, i, j) \/ NotAfter(log, tie, j, i)
         /\ i # j => ~(NotAfter(log, tie, i, j) /\ NotAfter(log, tie, j, i))
<1>1. log[i].day \in Nat /\ log[j].day \in Nat
  BY EntryFacts
<1>2. CASE i = j
  BY <1>1, <1>2 DEF NotAfter
<1>3. CASE i # j /\ log[i].day = log[j].day
  <2> DEFINE x == tie[log[i].day][log[i].call]
             y == tie[log[i].day][log[j].call]
  <2>1. x \in Nat /\ y \in Nat /\ x # y
    BY <1>3, TieBroken
  <2>2. /\ NotAfter(log, tie, i, j) <=> x < y
        /\ NotAfter(log, tie, j, i) <=> y < x
    <3> HIDE DEF x, y
    <3>1. ~(log[i].day > log[j].day) /\ ~(log[j].day > log[i].day)
      BY <1>1, <1>3
    <3> QED  BY <1>3, <3>1 DEF NotAfter, x, y
  <2> HIDE DEF x, y
  <2> QED  BY <2>1, <2>2
<1>4. CASE log[i].day # log[j].day
  BY <1>1, <1>4 DEF NotAfter
<1> QED  BY <1>2, <1>3, <1>4

LEMMA FirstOfThree ==
  ASSUME NEW log \in Seq(Entry), CallsDiffer(log), NEW tie \in [Shared(log) -> Rankings],
         NEW i \in 1..Len(log), NEW j \in 1..Len(log), NEW k \in 1..Len(log),
         NotAfter(log, tie, i, j), NotAfter(log, tie, j, k)
  PROVE  NotAfter(log, tie, i, k)
<1>1. log[i].day \in Nat /\ log[j].day \in Nat /\ log[k].day \in Nat
  BY EntryFacts
<1>2. CASE i = j \/ j = k
  BY <1>2
<1>3. CASE i = k
  BY <1>3 DEF NotAfter
<1>4. CASE i # j /\ j # k /\ i # k
  <2>1. CASE log[i].day = log[j].day /\ log[j].day = log[k].day
    <3> DEFINE x == tie[log[i].day][log[i].call]
               y == tie[log[i].day][log[j].call]
               z == tie[log[i].day][log[k].call]
    <3>1. x \in Nat /\ y \in Nat /\ z \in Nat
      BY <1>4, <2>1, TieBroken
    <3>2. x < y /\ y < z
      <4> HIDE DEF x, y, z
      <4>1. ~(log[i].day > log[j].day) /\ ~(log[j].day > log[k].day)
        BY <1>1, <2>1
      <4> QED  BY <1>4, <2>1, <4>1 DEF NotAfter, x, y, z
    <3>3. x < z
      <4> HIDE DEF x, y, z
      <4> QED  BY <3>1, <3>2
    <3> QED  BY <2>1, <3>3 DEF NotAfter
  <2>2. CASE ~(log[i].day = log[j].day /\ log[j].day = log[k].day)
    <3>1. log[i].day >= log[j].day /\ log[j].day >= log[k].day
      BY <1>1 DEF NotAfter
    <3>2. log[i].day > log[k].day
      BY <1>1, <2>2, <3>1
    <3> QED  BY <3>2 DEF NotAfter
  <2> QED  BY <2>1, <2>2
<1> QED  BY <1>2, <1>3, <1>4

\* Every entry has a place of its own, and so every place an entry.
LEMMA PlaceFacts ==
  ASSUME NEW log \in Seq(Entry), CallsDiffer(log), NEW tie \in [Shared(log) -> Rankings]
  PROVE  /\ \A k \in 1..Len(log) : Place(log, tie, k) \in 1..Len(log)
         /\ \A r \in 1..Len(log) : \E k \in 1..Len(log) : Place(log, tie, k) = r
         /\ \A k \in 1..Len(log) : Place(log, tie, k) = Len(log) =>
              \A j \in 1..Len(log) : NotAfter(log, tie, j, k)
<1> DEFINE n == Len(log)
           Before(k) == {j \in 1..n : NotAfter(log, tie, j, k)}
           place == [k \in 1..n |-> Cardinality(Before(k))]
<1>1. n \in Nat /\ DOMAIN log = 1..n
  BY EntryFacts
<1>2. \A k : Place(log, tie, k) = Cardinality(Before(k))
  BY <1>1 DEF Place
<1>3. \A k \in 1..n : k \in Before(k) /\ Before(k) \subseteq 1..n
  BY OneComesFirst
<1>4. ASSUME NEW j \in 1..n, NEW k \in 1..n, j # k, NotAfter(log, tie, j, k)
      PROVE  Before(j) \subseteq Before(k) /\ k \notin Before(j)
  <2>1. k \notin Before(j)
    BY <1>4, OneComesFirst
  <2>2. ASSUME NEW i \in Before(j) PROVE i \in Before(k)
    <3>1. i \in 1..n /\ NotAfter(log, tie, i, j)
      OBVIOUS
    <3> QED  BY <1>4, <3>1, FirstOfThree
  <2> QED  BY <2>1, <2>2
<1> HIDE DEF n, Before
<1>5. IsFiniteSet(1..n) /\ Cardinality(1..n) = n
  BY <1>1, FS_Interval
<1>6. ASSUME NEW k \in 1..n
      PROVE  /\ IsFiniteSet(Before(k)) /\ Cardinality(Before(k)) \in 1..n
             /\ Cardinality(Before(k)) = n => Before(k) = 1..n
  <2>1. Before(k) \subseteq 1..n /\ k \in Before(k)
    BY <1>3
  <2>2. IsFiniteSet(Before(k)) /\ Cardinality(Before(k)) \in Nat /\ Cardinality(Before(k)) <= n
    BY <1>1, <2>1, Places
  <2>3. Cardinality(Before(k)) # 0
    BY <2>1, <2>2, FS_EmptySet
  <2>4. Cardinality(Before(k)) = n => Before(k) = 1..n
    BY <1>5, <2>1, FS_Subset
  <2> QED  BY <1>1, <2>2, <2>3, <2>4
<1>7. ASSUME NEW j \in 1..n, NEW k \in 1..n, j # k, Before(j) \subseteq Before(k), k \notin Before(j)
      PROVE  Cardinality(Before(j)) # Cardinality(Before(k))
  <2>1. IsFiniteSet(Before(k)) /\ k \in Before(k)
    BY <1>3, <1>6
  <2> QED  BY <1>7, <2>1, FS_Subset
<1>8. \A j, k \in 1..n : j # k => Cardinality(Before(j)) # Cardinality(Before(k))
  <2>1. ASSUME NEW j \in 1..n, NEW k \in 1..n, j # k
        PROVE  Cardinality(Before(j)) # Cardinality(Before(k))
    <3>1. NotAfter(log, tie, j, k) \/ NotAfter(log, tie, k, j)
      BY OneComesFirst DEF n
    <3> QED  BY <1>4, <1>7, <2>1, <3>1
  <2> QED  BY <2>1
<1>9. ASSUME NEW r \in 1..n, \A k \in 1..n : Cardinality(Before(k)) # r
      PROVE  FALSE
  <2> DEFINE T == (1..n) \ {r}
  <2>1. IsFiniteSet(T) /\ Cardinality(T) < n
    <3>1. IsFiniteSet(T) /\ Cardinality(T) = Cardinality(1..n) - 1
      BY <1>5, <1>9, FS_RemoveElement
    <3> QED  BY <1>1, <1>5, <3>1
  <2>2. place \in [1..n -> T]
    BY <1>6, <1>9
  <2> HIDE DEF T
  <2>3. \E j, k \in 1..n : j # k /\ place[j] = place[k]
    <3> HIDE DEF place
    <3> QED  BY <1>5, <2>1, <2>2, FS_PigeonHole
  <2> QED  BY <1>8, <2>3
<1>10. \A k \in 1..n : Cardinality(Before(k)) \in 1..n
  BY <1>6
<1>11. \A r \in 1..n : \E k \in 1..n : Cardinality(Before(k)) = r
  BY <1>9
<1>12. \A k \in 1..n : Cardinality(Before(k)) = n => \A j \in 1..n : NotAfter(log, tie, j, k)
  <2>1. ASSUME NEW k \in 1..n, Cardinality(Before(k)) = n, NEW j \in 1..n
        PROVE  NotAfter(log, tie, j, k)
    <3>1. j \in Before(k)
      BY <1>6, <2>1
    <3> QED  BY <3>1 DEF Before
  <2> QED  BY <2>1
<1> QED  BY <1>2, <1>10, <1>11, <1>12 DEF n

\* A reading is the rows of the log, the newest last.
LEMMA ByDateFacts ==
  ASSUME NEW log \in Seq(Entry), CallsDiffer(log), NEW tie \in [Shared(log) -> Rankings]
  PROVE  /\ ByDate(log, tie) \in Seq(HullRow) /\ Len(ByDate(log, tie)) = Len(log)
         /\ \A i \in 1..Len(log) : \E k \in 1..Len(log) :
              /\ ByDate(log, tie)[i] = log[k].row
              /\ i = Len(log) => \A j \in 1..Len(log) : log[k].day <= log[j].day
<1> DEFINE n == Len(log)
           place == [k \in DOMAIN log |-> Place(log, tie, k)]
           At(i) == CHOOSE k \in DOMAIN log : place[k] = i
<1>1. n \in Nat /\ DOMAIN log = 1..n
  BY EntryFacts
<1>2. ByDate(log, tie) = [i \in 1..n |-> log[At(i)].row]
  BY DEF ByDate
<1>3. ASSUME NEW i \in 1..n
      PROVE  At(i) \in 1..n /\ Place(log, tie, At(i)) = i
  <2>1. \E k \in DOMAIN log : place[k] = i
    <3>1. PICK k \in 1..n : Place(log, tie, k) = i
      BY PlaceFacts
    <3> QED  BY <1>1, <3>1
  <2>2. At(i) \in DOMAIN log /\ place[At(i)] = i
    <3> HIDE DEF place
    <3> QED  BY <2>1
  <2> HIDE DEF At
  <2> QED  BY <1>1, <2>2
<1> HIDE DEF At
<1>4. \A i \in 1..n : log[At(i)].row \in HullRow
  BY <1>3, EntryFacts
<1>5. ByDate(log, tie) \in Seq(HullRow) /\ Len(ByDate(log, tie)) = n
  <2> HIDE DEF n
  <2> QED  BY <1>1, <1>2, <1>4
<1>6. ASSUME NEW i \in 1..n
      PROVE  \E k \in 1..n : /\ ByDate(log, tie)[i] = log[k].row
                             /\ i = n => \A j \in 1..n : log[k].day <= log[j].day
  <2>1. ByDate(log, tie)[i] = log[At(i)].row
    BY <1>2
  <2>2. ASSUME i = n, NEW j \in 1..n PROVE log[At(i)].day <= log[j].day
    <3>1. NotAfter(log, tie, j, At(i))
      BY <1>3, <2>2, PlaceFacts
    <3>2. log[At(i)].day \in Nat /\ log[j].day \in Nat
      BY <1>3, EntryFacts
    <3> QED  BY <3>1, <3>2 DEF NotAfter
  <2> QED  BY <1>3, <2>1, <2>2
<1> QED  BY <1>5, <1>6

-----------------------------------------------------------------------------
(* The rows of a vessel are the static ones, or some that its generator    *)
(* wrote one after the other: n rows further on is n days further back, or *)
(* in the next call, or more than a call away.                             *)
Cursor == [call : Nat \ {0}, day : 0..RecordDays - 1]
After(e, f, n) ==
  /\ e.call <= f.call
  /\ f.call = e.call => f.day = e.day + n
  /\ f.call = e.call + 1 => f.day + RecordDays = e.day + n
  /\ f.call > e.call + 1 => n > RecordDays
WrittenBy(e) ==
  /\ e.day \in 0..RecordDays - 1 /\ e.call \in 1..Calls
  /\ Generated(e.row) /\ (e.day = 0 => e.row.level \notin Foul)
HasToday(log) == \E k \in 1..Len(log) : log[k].day = 0
InARow(log) == \A i, j \in 1..Len(log) : i < j => After(log[i], log[j], j - i)
UpTo(log, at) == \A i \in 1..Len(log) : After(log[i], at, Len(log) + 1 - i)
OneCall(log) == \A i \in 1..Len(log) : log[i].call = log[1].call \/ HasToday(log)
GeneratedLog(log, at) ==
  /\ \A i \in 1..Len(log) : WrittenBy(log[i])
  /\ InARow(log) /\ UpTo(log, at) /\ OneCall(log)
HullInv ==
  /\ performance \in [Hulls -> Seq(Entry)] /\ writing \in [Hulls -> Cursor]
  /\ telemetry \in [Hulls -> Seq(Nat)]
  /\ \A h \in Hulls : \/ performance[h] = StaticLog /\ writing[h].call > Calls
                      \/ GeneratedLog(performance[h], writing[h])

LEMMA Generator ==
  /\ RecordDays \in Nat \ {0} /\ Calls \in Nat \ {0} /\ Growth \in Nat
  /\ FoulingWindow \in Nat /\ FoulingWindow <= RecordDays
  /\ \A noise \in Noise : noise \in Int /\ -430 <= noise /\ noise <= 430
BY HullAssumption DEF HullAssumption

LEMMA LevelsAreFour ==
  ASSUME NEW d, NEW l, NEW m, NEW h
  PROVE  Level(d, l, m, h) \in Levels
BY DEF Level, Levels

LEMMA StaticRowsAreRows ==
  /\ StaticRows \in Seq(HullRow) /\ Len(StaticRows) = 4
  /\ \E r \in HullRow : \A i \in 1..4 : StaticRows[i] = r
<1>1. /\ StaticDeviation \in Int /\ StaticRoughness \in Int /\ StaticQpc \in Int
  BY HullAssumption DEF HullAssumption
<1> DEFINE r == [dev |-> StaticDeviation,
                 level |-> Level(StaticDeviation, 500, 1500, StaticDeviation + 1),
                 rough |-> StaticRoughness, qpc |-> StaticQpc]
<1>2. r \in HullRow
  BY <1>1, LevelsAreFour DEF HullRow
<1>3. StaticRows = [i \in 1..4 |-> r]
  BY DEF StaticRows
<1> HIDE DEF r
<1> QED  BY <1>2, <1>3

\* The static rows have four dates, so one order, and all orders are one.
LEMMA StaticLogFacts ==
  /\ StaticLog \in Seq(Entry) /\ Len(StaticLog) = 4 /\ Shared(StaticLog) = {}
  /\ \A i \in 1..4 : StaticLog[i].row = StaticRows[i]
<1> DEFINE E(i) == [day |-> 30 * (i - 1), call |-> 1, row |-> StaticRows[i]]
<1>1. StaticLog = [i \in 1..4 |-> E(i)]
  BY DEF StaticLog
<1>2. ASSUME NEW i \in 1..4
      PROVE  E(i) \in Entry /\ E(i).day = 30 * (i - 1) /\ E(i).row = StaticRows[i]
  <2>1. StaticRows[i] \in HullRow
    BY StaticRowsAreRows
  <2> QED  BY <2>1 DEF Entry
<1> HIDE DEF E
<1>3. /\ StaticLog \in Seq(Entry) /\ Len(StaticLog) = 4 /\ DOMAIN StaticLog = 1..4
      /\ \A i \in 1..4 : StaticLog[i].row = StaticRows[i] /\ StaticLog[i].day = 30 * (i - 1)
  BY <1>1, <1>2
<1>4. \A i, j \in 1..4 : StaticLog[i].day = StaticLog[j].day => i = j
  <2>1. ASSUME NEW i \in 1..4, NEW j \in 1..4, StaticLog[i].day = StaticLog[j].day
        PROVE  i = j
    <3>1. 30 * (i - 1) = 30 * (j - 1)
      BY <1>3, <2>1
    <3> QED  BY <3>1
  <2> QED  BY <2>1
<1>5. Shared(StaticLog) = {}
  BY <1>3, <1>4 DEF Shared
<1> QED  BY <1>3, <1>5

\* Rows of one date are of different calls, a whole call apart, and behind one of today.
LEMMA SharedDates ==
  ASSUME NEW log \in Seq(Entry), NEW at, GeneratedLog(log, at),
         NEW i \in 1..Len(log), NEW j \in 1..Len(log), i # j, log[i].day = log[j].day
  PROVE  log[i].call # log[j].call /\ Len(log) > RecordDays /\ HasToday(log)
<1>1. RecordDays \in Nat \ {0} /\ Len(log) \in Nat
  BY Generator, EntryFacts
<1>2. ASSUME NEW a \in 1..Len(log), NEW b \in 1..Len(log), a < b, log[a].day = log[b].day
      PROVE  log[a].call # log[b].call /\ Len(log) > RecordDays
  <2>1. After(log[a], log[b], b - a)
    BY <1>2 DEF GeneratedLog, InARow
  <2>2. /\ log[a].day \in Nat /\ log[b].day \in Nat /\ log[a].call \in Nat /\ log[b].call \in Nat
    BY EntryFacts
  <2> DEFINE d == log[a].day
             c == log[a].call
             f == log[b].call
  <2>3. /\ d \in Nat /\ c \in Nat /\ f \in Nat /\ c <= f
        /\ f = c => d = d + (b - a)
        /\ f = c + 1 => d + RecordDays = d + (b - a)
        /\ f > c + 1 => b - a > RecordDays
    BY <1>2, <2>1, <2>2 DEF After
  <2> HIDE DEF d, c, f
  <2>4. c # f /\ b - a >= RecordDays
    BY <1>1, <1>2, <2>3
  <2> QED  BY <1>1, <1>2, <2>4 DEF c, f
<1>3. log[i].call # log[j].call /\ Len(log) > RecordDays
  <2>1. i < j \/ j < i
    BY <1>1
  <2> QED  BY <1>2, <2>1
<1>4. HasToday(log)
  <2>1. \A k \in 1..Len(log) : log[k].call = log[1].call \/ HasToday(log)
    BY DEF GeneratedLog, OneCall
  <2> QED  BY <1>3, <2>1
<1> QED  BY <1>3, <1>4

\* So dates are shared by rows that no window holds together, and rows of today are there.
LEMMA OrderFacts ==
  ASSUME NEW log \in Seq(Entry), NEW at, GeneratedLog(log, at)
  PROVE  /\ CallsDiffer(log)
         /\ Shared(log) # {} => Len(log) > FoulingWindow /\ HasToday(log)
<1>1. CallsDiffer(log)
  <2>1. \A i \in 1..Len(log) : log[i].call \in 1..Calls
    BY DEF GeneratedLog, WrittenBy
  <2> QED  BY <2>1, SharedDates DEF CallsDiffer
<1>2. ASSUME Shared(log) # {}
      PROVE  Len(log) > FoulingWindow /\ HasToday(log)
  <2>1. DOMAIN log = 1..Len(log) /\ Len(log) \in Nat
    BY EntryFacts
  <2>2. PICK i \in 1..Len(log) : \E j \in 1..Len(log) : j # i /\ log[j].day = log[i].day
    BY <1>2, <2>1 DEF Shared
  <2>3. PICK j \in 1..Len(log) : j # i /\ log[j].day = log[i].day
    BY <2>2
  <2>4. Len(log) > RecordDays /\ HasToday(log)
    BY <2>3, SharedDates
  <2> QED  BY <2>1, <2>4, Generator
<1> QED  BY <1>1, <1>2

\* What is read of a vessel is its rows and days.
LEMMA ReadingFacts ==
  ASSUME HullInv, NEW h \in Hulls, NEW v \in Readings(h)
  PROVE  /\ IsVessel(v) /\ v.days = telemetry[h] /\ Len(v.rows) = Len(performance[h])
         /\ v = [rows |-> v.rows, days |-> v.days]
         /\ Shared(performance[h]) = {} => Readings(h) = {v}
         /\ Len(v.rows) > 0 /\ GeneratedLog(performance[h], writing[h]) =>
              \E k \in 1..Len(v.rows) :
                /\ v.rows[Len(v.rows)] = performance[h][k].row
                /\ \A j \in 1..Len(v.rows) : performance[h][k].day <= performance[h][j].day
<1> DEFINE log == performance[h]
<1>1. /\ log \in Seq(Entry) /\ telemetry[h] \in Seq(Nat)
      /\ log = StaticLog \/ GeneratedLog(log, writing[h])
  BY DEF HullInv
<1>2. PICK tie \in [Shared(log) -> Rankings] : v = [rows |-> ByDate(log, tie), days |-> telemetry[h]]
  BY DEF Readings
<1>3. v.rows = ByDate(log, tie) /\ v.days = telemetry[h] /\ v = [rows |-> v.rows, days |-> v.days]
  BY <1>2
<1>4. CallsDiffer(log)
  <2>1. CASE log = StaticLog
    <3>1. Shared(log) = {} /\ DOMAIN log = 1..Len(log)
      BY <1>1, <2>1, StaticLogFacts, EntryFacts
    <3> HIDE DEF log
    <3> QED  BY <3>1 DEF Shared, CallsDiffer
  <2>2. CASE GeneratedLog(log, writing[h])
    BY <1>1, <2>2, OrderFacts
  <2> QED  BY <1>1, <2>1, <2>2
<1>5. Shared(log) = {} => Readings(h) = {v}
  <2>1. ASSUME Shared(log) = {}, NEW other \in [Shared(log) -> Rankings] PROVE other = tie
    BY <2>1
  <2> QED  BY <1>2, <2>1 DEF Readings
<1> HIDE DEF log
<1>6. /\ v.rows \in Seq(HullRow) /\ Len(v.rows) = Len(log) /\ Len(log) \in Nat
      /\ \A i \in 1..Len(log) : \E k \in 1..Len(log) :
           /\ v.rows[i] = log[k].row
           /\ i = Len(log) => \A j \in 1..Len(log) : log[k].day <= log[j].day
  BY <1>1, <1>3, <1>4, ByDateFacts, EntryFacts
<1>7. v.rows = StaticRows \/ \A i \in 1..Len(v.rows) : Generated(v.rows[i])
  <2>1. CASE log = StaticLog
    <3>1. PICK r \in HullRow : \A i \in 1..4 : StaticRows[i] = r
      BY StaticRowsAreRows
    <3>2. Len(log) = 4 /\ \A k \in 1..4 : log[k].row = r
      BY <2>1, <3>1, StaticLogFacts
    <3>3. \A i \in 1..4 : v.rows[i] = r
      BY <1>6, <3>2
    <3>4. Len(v.rows) = 4
      BY <1>6, <3>2
    <3>5. Len(StaticRows) = 4 /\ StaticRows \in Seq(HullRow)
      BY StaticRowsAreRows
    <3>6. v.rows = StaticRows
      BY <1>6, <3>1, <3>3, <3>4, <3>5, SeqEqual
    <3> QED  BY <3>6
  <2>2. CASE GeneratedLog(log, writing[h])
    <3>1. \A k \in 1..Len(log) : Generated(log[k].row)
      BY <2>2 DEF GeneratedLog, WrittenBy
    <3> QED  BY <1>6, <3>1
  <2> QED  BY <1>1, <2>1, <2>2 DEF log
<1>8. IsVessel(v)
  BY <1>1, <1>3, <1>6, <1>7 DEF IsVessel
<1>9. ASSUME Len(v.rows) > 0
      PROVE  \E k \in 1..Len(v.rows) : /\ v.rows[Len(v.rows)] = log[k].row
                                       /\ \A j \in 1..Len(v.rows) : log[k].day <= log[j].day
  <2>1. Len(log) \in 1..Len(log) /\ Len(v.rows) = Len(log)
    BY <1>6, <1>9
  <2> QED  BY <1>6, <2>1
<1> QED  BY <1>3, <1>5, <1>6, <1>8, <1>9 DEF log

\* A newest row of today is not foul, in whatever order the rows come.
LEMMA TodayIsNotFoul ==
  ASSUME HullInv, NEW h \in Hulls, NEW v \in Readings(h),
         GeneratedLog(performance[h], writing[h]), HasToday(performance[h])
  PROVE  ~NeedsCleaning(v)
<1> DEFINE log == performance[h]
<1>1. IsVessel(v) /\ Len(v.rows) = Len(log)
  BY ReadingFacts
<1>2. PICK today \in 1..Len(log) : log[today].day = 0
  BY DEF HasToday
<1>3. log \in Seq(Entry) /\ Len(log) \in Nat /\ Len(log) > 0
  <2>1. log \in Seq(Entry)
    BY DEF HullInv
  <2>2. Len(log) \in Nat
    BY <2>1, EntryFacts
  <2> HIDE DEF log
  <2> QED  BY <1>2, <2>1, <2>2
<1>4. PICK k \in 1..Len(log) : /\ v.rows[Len(v.rows)] = log[k].row
                               /\ \A j \in 1..Len(log) : log[k].day <= log[j].day
  BY <1>1, <1>3, ReadingFacts
<1>5. log[k].day = 0
  <2>1. log[k].day \in Nat /\ log[k].day <= log[today].day
    BY <1>2, <1>3, <1>4, EntryFacts
  <2> QED  BY <1>2, <2>1
<1>6. log[k].row.level \notin Foul
  BY <1>5 DEF GeneratedLog, WrittenBy
<1> HIDE DEF log
<1>7. v.rows # <<>>
  BY <1>1, <1>3
<1>8. FoulingWindow \in Nat \ {0}
  BY Windows
<1>9. Latest(v, FoulingWindow)[1] = v.rows[Len(v.rows)]
  BY <1>1, <1>7, <1>8, RowsRead
<1> QED  BY <1>4, <1>6, <1>9 DEF NeedsCleaning, Compared

\* Either one order, or rows of today.
LEMMA OrderHolds ==
  ASSUME HullInv, NEW h \in Hulls
  PROVE  OrderIsImmaterial(h)
<1> DEFINE log == performance[h]
<1>1. log \in Seq(Entry) /\ (log = StaticLog \/ GeneratedLog(log, writing[h]))
  BY DEF HullInv
<1>2. CASE Shared(log) = {}
  <2>1. \A v \in Readings(h) : Readings(h) = {v}
    BY <1>2, ReadingFacts
  <2>2. {v \in Readings(h) : NeedsCleaning(v)} \in {{}, Readings(h)}
    BY <2>1
  <2> QED  BY <2>1, <2>2 DEF OrderIsImmaterial
<1>3. CASE Shared(log) # {}
  <2>1. /\ GeneratedLog(log, writing[h]) /\ Len(log) > FoulingWindow /\ HasToday(log)
        /\ Len(log) \in Nat /\ FoulingWindow \in Nat
    BY <1>1, <1>3, StaticLogFacts, OrderFacts, EntryFacts, Generator
  <2>2. {v \in Readings(h) : NeedsCleaning(v)} = {}
    BY <2>1, TodayIsNotFoul
  <2>3. ASSUME NEW v \in Readings(h) PROVE ~InOneWindow(v)
    <3>1. Len(v.rows) = Len(log) /\ IsVessel(v)
      BY ReadingFacts
    <3>2. v.rows # <<>>
      BY <2>1, <3>1
    <3>3. Len(Data(v)) = Len(log)
      BY <3>1, <3>2 DEF Data
    <3> QED  BY <2>1, <3>3 DEF InOneWindow
  <2> QED  BY <2>2, <2>3 DEF OrderIsImmaterial
<1> QED  BY <1>2, <1>3

\* The row a call adds is generated, and that of today not foul.
LEMMA RowOfDay ==
  ASSUME NEW day \in 0..RecordDays - 1, NEW noise \in Noise
  PROVE  LET row == GeneratedRow(300 + Growth * day + noise)
         IN row \in HullRow /\ Generated(row) /\ (day = 0 => row.level \notin Foul)
<1> DEFINE dev == 300 + Growth * day + noise
<1>1. day \in Nat /\ Growth \in Nat /\ noise \in Int /\ noise <= 430
  BY Generator
<1>2. dev \in Int /\ (day = 0 => dev < 1000)
  <2>1. Growth * day \in Int
    BY <1>1
  <2>2. day = 0 => Growth * day = 0
    BY <1>1
  <2> DEFINE grown == Growth * day
  <2> HIDE DEF grown
  <2>3. /\ 300 + grown + noise \in Int
        /\ grown = 0 => 300 + grown + noise < 1000
    BY <1>1, <2>1 DEF grown
  <2> QED  BY <2>2, <2>3 DEF grown
<1> HIDE DEF dev
<1> DEFINE row == GeneratedRow(dev)
<1>3. 3000 + dev \in Int /\ 85000 - dev \in Int
  BY <1>2, SMT
<1>4. row \in HullRow /\ Generated(row)
  BY <1>2, <1>3, LevelsAreFour, SMT DEF HullRow, Generated, GeneratedRow
<1>5. row.level = Level(dev, 500, 1000, dev + 1)
  BY SMT DEF GeneratedRow
<1> HIDE DEF row
<1>6. dev < 1000 => row.level \notin Foul
  <2>1. ASSUME dev < 1000 PROVE Level(dev, 500, 1000, dev + 1) \in {"clean", "light"}
    BY <1>2, <2>1 DEF Level
  <2> QED  BY <1>5, <2>1 DEF Foul
<1> QED  BY <1>2, <1>4, <1>6 DEF row, dev

\* One row more keeps a generated log one: the generator's next row is one day further
\* back, or the first of the next call.
LEMMA OneRowMore ==
  ASSUME NEW log \in Seq(Entry), NEW at \in Cursor, GeneratedLog(log, at), at.call <= Calls,
         NEW new \in Entry, new.day = at.day, new.call = at.call,
         Generated(new.row), new.day = 0 => new.row.level \notin Foul,
         NEW next, next = IF at.day + 1 < RecordDays THEN [call |-> at.call, day |-> at.day + 1]
                          ELSE [call |-> at.call + 1, day |-> 0]
  PROVE  /\ next \in Cursor /\ Append(log, new) \in Seq(Entry)
         /\ GeneratedLog(Append(log, new), next)
<1> DEFINE n == Len(log)
           more == Append(log, new)
<1>1. /\ RecordDays \in Nat \ {0} /\ n \in Nat /\ Calls \in Nat
      /\ at.call \in Nat \ {0} /\ at.day \in Nat /\ at.day < RecordDays
  BY Generator, EntryFacts DEF Cursor
<1>2. /\ more \in Seq(Entry) /\ Len(more) = n + 1
      /\ \A i \in 1..n : more[i] = log[i]
      /\ more[n + 1] = new
  BY AppendProperties
<1>3. /\ next \in Cursor /\ next.call \in Nat /\ next.day \in Nat
      /\ \/ next.call = at.call /\ next.day = at.day + 1
         \/ next.call = at.call + 1 /\ next.day = 0 /\ at.day + 1 = RecordDays
  <2>1. CASE at.day + 1 < RecordDays
    BY <1>1, <2>1 DEF Cursor
  <2>2. CASE ~(at.day + 1 < RecordDays)
    BY <1>1, <2>2 DEF Cursor
  <2> QED  BY <2>1, <2>2
<1> HIDE DEF n, more
<1>4. \A i \in 1..n : /\ log[i].call \in Nat /\ log[i].day \in Nat /\ log[i].day < RecordDays
                      /\ WrittenBy(log[i])
  <2>1. ASSUME NEW i \in 1..n
        PROVE  /\ log[i].call \in Nat /\ log[i].day \in Nat /\ log[i].day < RecordDays
               /\ WrittenBy(log[i])
    <3>1. WrittenBy(log[i])
      BY DEF GeneratedLog, n
    <3>2. log[i].call \in Nat /\ log[i].day \in Nat
      BY EntryFacts DEF n
    <3> QED  BY <1>1, <3>1, <3>2 DEF WrittenBy
  <2> QED  BY <2>1
<1>5. \A i \in 1..n + 1 : WrittenBy(more[i])
  <2>1. WrittenBy(new)
    BY <1>1 DEF WrittenBy
  <2>2. ASSUME NEW i \in 1..n + 1 PROVE WrittenBy(more[i])
    <3>1. i = n + 1 \/ i \in 1..n
      BY <1>1
    <3> QED  BY <1>2, <1>4, <2>1, <3>1
  <2> QED  BY <2>2
<1>6. \A i \in 1..n : After(log[i], at, n + 1 - i)
  BY DEF GeneratedLog, UpTo, n
<1>7. InARow(more)
  <2>1. ASSUME NEW i \in 1..n + 1, NEW j \in 1..n + 1, i < j
        PROVE  After(more[i], more[j], j - i)
    <3>1. i \in 1..n /\ more[i] = log[i]
      BY <1>1, <1>2, <2>1
    <3>2. CASE j \in 1..n
      <4>1. more[j] = log[j]
        BY <1>2, <3>2
      <4> QED  BY <2>1, <3>1, <3>2, <4>1 DEF GeneratedLog, InARow, n
    <3>3. CASE j = n + 1
      <4>1. After(log[i], at, n + 1 - i)
        BY <1>6, <3>1
      <4>2. After(log[i], new, n + 1 - i)
        BY <4>1 DEF After
      <4>3. more[j] = new
        BY <1>2, <3>3
      <4>4. j - i = n + 1 - i
        BY <1>1, <3>1, <3>3
      <4>5. After(log[i], new, j - i)
        BY <4>2, <4>4
      <4> QED  BY <3>1, <4>3, <4>5
    <3>4. j \in 1..n \/ j = n + 1
      BY <1>1
    <3> QED  BY <3>2, <3>3, <3>4
  <2> QED  BY <1>2, <2>1 DEF InARow
<1>8. UpTo(more, next)
  <2>1. ASSUME NEW i \in 1..n PROVE After(log[i], next, n + 2 - i)
    <3> DEFINE c == log[i].call
               d == log[i].day
               m == n + 1 - i
    <3>1. After(log[i], at, m)
      BY <1>6
    <3>2. c \in Nat /\ d \in Nat /\ d < RecordDays /\ m \in Nat /\ m >= 1 /\ n + 2 - i = m + 1
      BY <1>1, <1>4
    <3>3. /\ c <= at.call
          /\ at.call = c => at.day = d + m
          /\ at.call = c + 1 => at.day + RecordDays = d + m
          /\ at.call > c + 1 => m > RecordDays
      BY <3>1 DEF After
    <3> HIDE DEF c, d, m
    <3>4. /\ c <= next.call
          /\ next.call = c => next.day = d + (m + 1)
          /\ next.call = c + 1 => next.day + RecordDays = d + (m + 1)
          /\ next.call > c + 1 => m + 1 > RecordDays
      <4> DEFINE x == at.call
                 y == at.day
                 u == next.call
                 w == next.day
                 last == RecordDays
      <4>1. /\ x \in Nat /\ y \in Nat /\ u \in Nat /\ w \in Nat /\ last \in Nat /\ y < last
            /\ (u = x /\ w = y + 1) \/ (u = x + 1 /\ w = 0 /\ y + 1 = last)
            /\ c \in Nat /\ d \in Nat /\ d < last /\ m \in Nat /\ m >= 1
            /\ c <= x
            /\ x = c => y = d + m
            /\ x = c + 1 => y + last = d + m
            /\ x > c + 1 => m > last
        BY <1>1, <1>3, <3>2, <3>3
      <4> HIDE DEF x, y, u, w, last
      <4>2. CASE u = x /\ w = y + 1
        BY <4>1, <4>2 DEF u, w, last
      <4>3. CASE u = x + 1 /\ w = 0 /\ y + 1 = last
        <5>1. /\ c <= u
              /\ u = c + 1 => w + last = d + (m + 1)
              /\ u > c + 1 => m + 1 > last
          BY <4>1, <4>3
        <5>2. u # c
          BY <4>1, <4>3
        <5> QED  BY <5>1, <5>2 DEF u, w, last
      <4> QED  BY <4>1, <4>2, <4>3
    <3> QED  BY <3>2, <3>4 DEF After, c, d
  <2>2. After(new, next, 1)
    <3>1. /\ at.call <= next.call
          /\ next.call = at.call => next.day = at.day + 1
          /\ next.call = at.call + 1 => next.day + RecordDays = at.day + 1
          /\ ~(next.call > at.call + 1)
      BY <1>1, <1>3
    <3> QED  BY <3>1 DEF After
  <2>3. ASSUME NEW i \in 1..n + 1 PROVE After(more[i], next, (n + 1) + 1 - i)
    <3>1. CASE i \in 1..n
      <4>1. (n + 1) + 1 - i = n + 2 - i
        BY <1>1
      <4> QED  BY <1>2, <2>1, <3>1, <4>1
    <3>2. CASE i = n + 1
      <4>1. (n + 1) + 1 - i = 1
        BY <1>1, <3>2
      <4> QED  BY <1>2, <2>2, <3>2, <4>1
    <3>3. i \in 1..n \/ i = n + 1
      BY <1>1
    <3> QED  BY <3>1, <3>2, <3>3
  <2> QED  BY <1>2, <2>3 DEF UpTo
<1>9. OneCall(more)
  <2>1. HasToday(log) => HasToday(more)
    <3>1. ASSUME NEW k \in 1..n, log[k].day = 0 PROVE k \in 1..n + 1 /\ more[k].day = 0
      BY <1>1, <1>2, <3>1
    <3> QED  BY <1>2, <3>1 DEF HasToday, n
  <2>2. \A i \in 1..n : log[i].call = log[1].call \/ HasToday(log)
    BY DEF GeneratedLog, OneCall, n
  <2>3. ASSUME n >= 1 PROVE new.call = log[1].call \/ HasToday(more)
    <3>1. n \in 1..n /\ After(log[n], at, 1)
      <4>1. n \in 1..n /\ n + 1 - n = 1
        BY <1>1, <2>3
      <4> QED  BY <1>6, <4>1
    <3>2. log[n].call \in Nat /\ log[n].day \in Nat /\ log[n].day < RecordDays
      BY <1>4, <3>1
    <3>3. at.call = log[n].call \/ at.day = 0
      BY <1>1, <3>1, <3>2 DEF After
    <3>4. CASE at.call = log[n].call
      BY <2>1, <2>2, <3>1, <3>4
    <3>5. CASE at.day = 0
      <4>1. n + 1 \in 1..n + 1 /\ more[n + 1].day = 0
        BY <1>1, <1>2, <3>5
      <4> QED  BY <1>2, <4>1 DEF HasToday
    <3> QED  BY <3>3, <3>4, <3>5
  <2>4. ASSUME NEW i \in 1..n + 1 PROVE more[i].call = more[1].call \/ HasToday(more)
    <3>1. CASE n = 0
      BY <1>1, <3>1
    <3>2. CASE n >= 1
      <4>1. more[1] = log[1]
        BY <1>1, <1>2, <3>2
      <4>2. CASE i \in 1..n
        BY <1>2, <2>1, <2>2, <4>1, <4>2
      <4>3. CASE i = n + 1
        BY <1>2, <2>3, <3>2, <4>1, <4>3
      <4> QED  BY <1>1, <4>2, <4>3
    <3> QED  BY <1>1, <3>1, <3>2
  <2> QED  BY <1>2, <2>4 DEF OneCall
<1>10. GeneratedLog(more, next)
  BY <1>2, <1>5, <1>7, <1>8, <1>9 DEF GeneratedLog
<1> QED  BY <1>2, <1>3, <1>10 DEF more

\* Each writer keeps the rows it finds to one kind.
LEMMA EmptyLogIsGenerated ==
  ASSUME NEW at
  PROVE  <<>> \in Seq(Entry) /\ GeneratedLog(<<>>, at)
<1>1. <<>> \in Seq(Entry) /\ Len(<<>>) = 0 /\ \A i \in 1..0 : FALSE
  OBVIOUS
<1> QED  BY <1>1 DEF GeneratedLog, InARow, UpTo, OneCall

LEMMA HullStep == HullInv /\ [HullNext]_hullVars => HullInv'
<1> SUFFICES ASSUME HullInv, [HullNext]_hullVars PROVE HullInv'
  OBVIOUS
<1>0. /\ performance \in [Hulls -> Seq(Entry)] /\ writing \in [Hulls -> Cursor]
      /\ telemetry \in [Hulls -> Seq(Nat)]
      /\ \A h \in Hulls : \/ performance[h] = StaticLog /\ writing[h].call > Calls
                          \/ GeneratedLog(performance[h], writing[h])
  BY DEF HullInv
<1>1. CASE SeedHull
  <2> DEFINE done == [call |-> Calls + 1, day |-> 0]
  <2>1. /\ performance' = [h \in Hulls |-> StaticLog] /\ telemetry' = telemetry
        /\ writing' = [h \in Hulls |-> done]
    BY <1>1 DEF SeedHull
  <2>2. done \in Cursor /\ done.call > Calls
    BY Generator DEF Cursor
  <2> HIDE DEF done
  <2> QED  BY <1>0, <2>1, <2>2, StaticLogFacts DEF HullInv
<1>2. CASE ClearHull
  <2>1. performance' = [h \in Hulls |-> <<>>] /\ telemetry' = telemetry /\ writing' = writing
    BY <1>2 DEF ClearHull
  <2> QED  BY <1>0, <2>1, EmptyLogIsGenerated DEF HullInv
<1>3. ASSUME NEW h \in Hulls, NEW noise \in Noise, RecordHull(h, noise)
      PROVE  HullInv'
  <2> DEFINE at == writing[h]
             log == performance[h]
             new == [day |-> at.day, call |-> at.call,
                     row |-> GeneratedRow(300 + Growth * at.day + noise)]
             next == IF at.day + 1 < RecordDays THEN [call |-> at.call, day |-> at.day + 1]
                     ELSE [call |-> at.call + 1, day |-> 0]
  <2>1. /\ at.call <= Calls /\ telemetry' = telemetry
        /\ performance' = [performance EXCEPT ![h] = Append(log, new)]
        /\ writing' = [writing EXCEPT ![h] = next]
    BY <1>3 DEF RecordHull
  <2>2. /\ at \in Cursor /\ log \in Seq(Entry) /\ GeneratedLog(log, at)
        /\ at.day \in 0..RecordDays - 1 /\ at.call \in Nat
    <3>1. at \in Cursor /\ log \in Seq(Entry) /\ at.day \in 0..RecordDays - 1 /\ at.call \in Nat
      BY <1>0 DEF Cursor
    <3>2. ~(at.call > Calls)
      BY <2>1, <3>1, Generator
    <3> QED  BY <1>0, <3>1, <3>2
  <2>3. /\ new \in Entry /\ new.day = at.day /\ new.call = at.call
        /\ Generated(new.row) /\ (new.day = 0 => new.row.level \notin Foul)
    <3> DEFINE row == GeneratedRow(300 + Growth * at.day + noise)
    <3>1. row \in HullRow /\ Generated(row) /\ (at.day = 0 => row.level \notin Foul)
      BY <2>2, RowOfDay
    <3>2. at.day \in Nat
      BY <2>2, Generator
    <3>3. new = [day |-> at.day, call |-> at.call, row |-> row]
      OBVIOUS
    <3> HIDE DEF row, at, new
    <3>4. new.day = at.day /\ new.call = at.call /\ new.row = row
      BY <3>3
    <3>5. new \in Entry
      BY <2>2, <3>1, <3>2, <3>3 DEF Entry
    <3> QED  BY <3>1, <3>4, <3>5
  <2> HIDE DEF at, log, new, next
  <2>4. next \in Cursor /\ Append(log, new) \in Seq(Entry) /\ GeneratedLog(Append(log, new), next)
    BY <2>1, <2>2, <2>3, OneRowMore DEF next
  <2>5. performance' \in [Hulls -> Seq(Entry)] /\ writing' \in [Hulls -> Cursor]
    BY <1>0, <2>1, <2>4
  <2>6. ASSUME NEW g \in Hulls
        PROVE  \/ performance'[g] = StaticLog /\ writing'[g].call > Calls
               \/ GeneratedLog(performance'[g], writing'[g])
    <3>1. CASE g = h
      <4>1. performance'[g] = Append(log, new) /\ writing'[g] = next
        BY <1>0, <2>1, <3>1
      <4> QED  BY <2>4, <4>1
    <3>2. CASE g # h
      <4>1. performance'[g] = performance[g] /\ writing'[g] = writing[g]
        BY <1>0, <2>1, <3>2
      <4> QED  BY <1>0, <4>1
    <3> QED  BY <3>1, <3>2
  <2> QED  BY <1>0, <2>1, <2>5, <2>6 DEF HullInv
<1>4. ASSUME NEW h \in Hulls, NEW k \in Coefficients, AddHullDay(h, k)
      PROVE  HullInv'
  <2>1. /\ performance' = performance /\ writing' = writing
        /\ telemetry' = [telemetry EXCEPT ![h] = Append(telemetry[h], k)]
    BY <1>4 DEF AddHullDay
  <2>2. k \in Nat
    BY HullAssumption DEF HullAssumption
  <2>3. Append(telemetry[h], k) \in Seq(Nat)
    BY <1>0, <2>2, AppendProperties
  <2>4. telemetry' \in [Hulls -> Seq(Nat)]
    BY <1>0, <2>1, <2>3
  <2> QED  BY <1>0, <2>1, <2>4 DEF HullInv
<1>5. CASE UNCHANGED hullVars
  BY <1>0, <1>5 DEF HullInv, hullVars
<1> QED  BY <1>1, <1>2, <1>3, <1>4, <1>5 DEF HullNext

\* What the invariant says of a vessel is all the statements need.
LEMMA HullVerdicts == HullInv => HullVerdictsAgree
<1> SUFFICES ASSUME HullInv, NEW h \in Hulls
             PROVE  /\ OrderIsImmaterial(h)
                    /\ \A v \in Readings(h) :
                         /\ AssessmentAndTwinAgree(v) /\ TrendsAreOneStory(v) /\ NewestRowDecides(v)
                         /\ SteadyFoulingIsUnseen(v) /\ HalfTheDaysAreClean(v)
  BY DEF HullVerdictsAgree
<1>1. OrderIsImmaterial(h)
  BY OrderHolds
<1>2. ASSUME NEW v \in Readings(h)
      PROVE  /\ AssessmentAndTwinAgree(v) /\ TrendsAreOneStory(v) /\ NewestRowDecides(v)
             /\ SteadyFoulingIsUnseen(v) /\ HalfTheDaysAreClean(v)
  <2>1. IsVessel(v) /\ v = [rows |-> v.rows, days |-> v.days]
    BY ReadingFacts
  <2>2. SteadyFoulingIsUnseen(v)
    BY <2>1, SteadyFoulingHolds
  <2>3. AssessmentAndTwinAgree(v) /\ TrendsAreOneStory(v) /\ NewestRowDecides(v) /\ HalfTheDaysAreClean(v)
    BY <2>1, AgreementHolds, TrendsHold, NewestRowHolds, HalfTheDaysHold
  <2> QED  BY <2>2, <2>3
<1> QED  BY <1>1, <1>2

\* Whatever the vessels, coefficients, windows and calls of the generator, and wherever its
\* rows vanish, the five endpoints and the twin tell of one hull what can be told together
\* (modules/hull_machinery.py, modules/digital_twin.py, demo/generate_data.py).
THEOREM HullVerdictsHold == HullSpec => []HullVerdictsAgree
<1>1. HullInit => HullInv
  <2> SUFFICES ASSUME HullInit PROVE HullInv
    OBVIOUS
  <2>1. /\ performance = [h \in Hulls |-> <<>>] /\ telemetry = [h \in Hulls |-> <<>>]
        /\ writing = [h \in Hulls |-> Fresh]
    BY DEF HullInit
  <2>2. <<>> \in Seq(Nat)
    OBVIOUS
  <2>3. Fresh \in Cursor
    BY Generator DEF Fresh, Cursor
  <2> QED  BY <2>1, <2>2, <2>3, EmptyLogIsGenerated DEF HullInv
<1> QED  BY <1>1, HullStep, HullVerdicts, PTL DEF HullSpec
=============================================================================
