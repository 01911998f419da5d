---------------------------- MODULE AnalyticsProofs ----------------------------
(***************************************************************************)
(* Theorems about VoyageSimulator for every route, weather, rate and       *)
(* demand.  A step is one generator after the other, so each generator has *)
(* a lemma that says which books it keeps and which it leaves; the books   *)
(* balance because of what the boil-off takes (BogBook) and because the    *)
(* level never falls below the heel, which is what makes "dry" hold        *)
(* whenever the tanks give less than is burnt.  The aggregates follow the  *)
(* voyage because the rows of a run are the log of a counter that only     *)
(* rises (OdometerInv): what its periods miss are the steps between them.  *)
(*                                                                         *)
(* The composition with CharterFigures and HullCondition, whose theorems   *)
(* are in FiguresProofs, closes the module.                                *)
(***************************************************************************)
EXTENDS MCAnalytics, FiguresProofs

\* The books of a vessel that a generator leaves alone.
SameBooks(s, t) == t.aux = s.aux /\ t.burnt = s.burnt /\ t.emitted = s.emitted

\* The way it has made.
SameCourse(s, t) ==
  /\ t.phase = s.phase /\ t.leg = s.leg /\ t.progress = s.progress /\ t.port_timer = s.port_timer
  /\ t.sailed = s.sailed

\* A vessel with one field replaced is a vessel.
LEMMA SetField ==
  ASSUME NEW s \in ShipType
  PROVE  /\ \A x \in Phases : [s EXCEPT !.phase = x] \in ShipType
         /\ \A x \in {"laden", "ballast"} : [s EXCEPT !.leg = x] \in ShipType
         /\ \A x \in 0..Route : [s EXCEPT !.progress = x] \in ShipType
         /\ \A x \in Nat : /\ [s EXCEPT !.port_timer = x] \in ShipType
                           /\ [s EXCEPT !.sog = x] \in ShipType
                           /\ [s EXCEPT !.aux = x] \in ShipType
                           /\ [s EXCEPT !.to_engine = x] \in ShipType
                           /\ [s EXCEPT !.to_gcu = x] \in ShipType
                           /\ [s EXCEPT !.sailed = x] \in ShipType
         /\ \A x \in BOOLEAN : /\ [s EXCEPT !.running = x] \in ShipType
                               /\ [s EXCEPT !.on_mgo = x] \in ShipType
         /\ \A x \in 0..100 : /\ [s EXCEPT !.level = x] \in ShipType
                              /\ [s EXCEPT !.operation = x] \in ShipType
         /\ \A x \in Fuel : /\ [s EXCEPT !.burnt = x] \in ShipType
                            /\ [s EXCEPT !.emitted = x] \in ShipType
<1> USE DEF ShipType
<1>1. \A x \in Phases : [s EXCEPT !.phase = x] \in ShipType
  OBVIOUS
<1>2. \A x \in {"laden", "ballast"} : [s EXCEPT !.leg = x] \in ShipType
  OBVIOUS
<1>3. \A x \in 0..Route : [s EXCEPT !.progress = x] \in ShipType
  OBVIOUS
<1>4. \A x \in Nat : [s EXCEPT !.port_timer = x] \in ShipType
  OBVIOUS
<1>5. \A x \in Nat : [s EXCEPT !.sog = x] \in ShipType
  OBVIOUS
<1>6. \A x \in Nat : [s EXCEPT !.aux = x] \in ShipType
  OBVIOUS
<1>7. \A x \in Nat : [s EXCEPT !.to_engine = x] \in ShipType
  OBVIOUS
<1>8. \A x \in Nat : [s EXCEPT !.to_gcu = x] \in ShipType
  OBVIOUS
<1>9. \A x \in Nat : [s EXCEPT !.sailed = x] \in ShipType
  OBVIOUS
<1>10. \A x \in BOOLEAN : [s EXCEPT !.running = x] \in ShipType
  OBVIOUS
<1>11. \A x \in BOOLEAN : [s EXCEPT !.on_mgo = x] \in ShipType
  OBVIOUS
<1>12. \A x \in 0..100 : [s EXCEPT !.level = x] \in ShipType
  OBVIOUS
<1>13. \A x \in 0..100 : [s EXCEPT !.operation = x] \in ShipType
  OBVIOUS
<1>14. \A x \in Fuel : [s EXCEPT !.burnt = x] \in ShipType
  OBVIOUS
<1>15. \A x \in Fuel : [s EXCEPT !.emitted = x] \in ShipType
  OBVIOUS
<1> HIDE DEF ShipType
<1> QED
  BY <1>1, <1>2, <1>3, <1>4, <1>5, <1>6, <1>7, <1>8, <1>9, <1>10, <1>11, <1>12, <1>13, <1>14, <1>15

LEMMA SetCargo ==
  ASSUME NEW s \in ShipType, NEW x \in 0..100, NEW y \in 0..100
  PROVE  [s EXCEPT !.level = x, !.operation = y] \in ShipType
BY DEF ShipType

\* What a vessel's fields are.
LEMMA Fields ==
  ASSUME NEW s \in ShipType
  PROVE  /\ s.phase \in Phases /\ s.leg \in {"laden", "ballast"} /\ s.progress \in 0..Route
         /\ s.port_timer \in Nat /\ s.sog \in Nat /\ s.sailed \in Nat /\ s.aux \in Nat
         /\ s.to_engine \in Nat /\ s.to_gcu \in Nat
         /\ s.running \in BOOLEAN /\ s.on_mgo \in BOOLEAN
         /\ s.level \in 0..100 /\ s.operation \in 0..100
         /\ s.burnt \in Fuel /\ s.emitted \in Fuel
  BY DEF ShipType

-----------------------------------------------------------------------------
\* VoyageGenerator moves the vessel, not its cargo or fuel.
LEMMA VoyageBook ==
  ASSUME NEW s \in ShipType, NEW speed \in Speeds, NEW even \in BOOLEAN
  PROVE  LET t == VoyageStep(s, speed, even)
         IN t \in ShipType /\ SameBooks(s, t) /\ t.level = s.level
<1>1. speed \in Nat /\ Route \in Nat /\ SlowDown \in Nat
  BY SimulatorAssumption
<1>2. CASE s.phase = "sea_passage"
  <2> DEFINE along == LeastOf(Route, s.progress + speed)
             phase == IF s.progress + speed >= Route THEN "arrival" ELSE s.phase
             timer == IF s.progress + speed >= Route THEN 0 ELSE s.port_timer
  <2>1. along \in 0..Route /\ phase \in Phases /\ timer \in Nat /\ s.sailed + speed \in Nat
    BY <1>1, Fields DEF LeastOf, Phases
  <2>2. VoyageStep(s, speed, even) =
          [s EXCEPT !.running = TRUE, !.sog = speed, !.sailed = @ + speed,
                    !.progress = along, !.phase = phase, !.port_timer = timer]
    BY <1>2 DEF VoyageStep, SeaPassage
  <2> HIDE DEF along, phase, timer
  <2>3. VoyageStep(s, speed, even) \in ShipType
    <3>1. [s EXCEPT !.running = TRUE, !.sog = speed] \in ShipType
      BY <1>1, SetField
    <3>2. [s EXCEPT !.running = TRUE, !.sog = speed, !.sailed = @ + speed, !.progress = along]
            \in ShipType
      BY <2>1, <3>1, SetField
    <3>3. [s EXCEPT !.running = TRUE, !.sog = speed, !.sailed = @ + speed,
                    !.progress = along, !.phase = phase, !.port_timer = timer] \in ShipType
      BY <2>1, <3>2, SetField
    <3> QED  BY <2>2, <3>3
  <2> QED  BY <2>2, <2>3 DEF ShipType, SameBooks
<1>3. CASE s.phase = "arrival"
  <2> DEFINE slower == AboveZero(s.sog - SlowDown)
             running == s.running /\ slower > 0
             stopped == [s EXCEPT !.sog = slower, !.port_timer = @ + 1, !.running = running]
             next == IF s.leg = "laden" THEN "discharging" ELSE "loading"
  <2>1. slower \in Nat /\ running \in BOOLEAN /\ s.port_timer + 1 \in Nat /\ next \in Phases
    BY <1>1, Fields DEF AboveZero, Phases
  <2>2. stopped \in ShipType /\ stopped.leg = s.leg /\ SameBooks(s, stopped) /\ stopped.level = s.level
    <3> HIDE DEF slower, running
    <3>1. stopped \in ShipType
      BY <2>1, SetField
    <3> QED  BY <3>1 DEF ShipType, SameBooks
  <2>3. VoyageStep(s, speed, even) =
          IF stopped.port_timer < Approach THEN stopped
          ELSE [stopped EXCEPT !.port_timer = 0, !.sog = 0, !.operation = 0, !.phase = next]
    BY <1>3 DEF VoyageStep, Arrival
  <2> HIDE DEF stopped, next
  <2>4. VoyageStep(s, speed, even) \in ShipType
    <3>1. [stopped EXCEPT !.port_timer = 0, !.sog = 0] \in ShipType
      BY <2>2, SetField
    <3>2. 0 \in 0..100
      OBVIOUS
    <3>3. [stopped EXCEPT !.port_timer = 0, !.sog = 0, !.operation = 0, !.phase = next] \in ShipType
      BY <2>1, <3>1, <3>2, SetField
    <3> QED  BY <2>2, <2>3, <3>3
  <2>5. SameBooks(stopped, VoyageStep(s, speed, even)) /\ VoyageStep(s, speed, even).level = stopped.level
    BY <2>2, <2>3 DEF ShipType, SameBooks
  <2> QED  BY <2>2, <2>4, <2>5 DEF SameBooks
<1>4. CASE s.phase \in {"loading", "discharging"}
  <2> DEFINE ended == s.operation > 95 \/ (s.operation = 95 /\ even)
             phase == IF ended THEN "port_stay" ELSE s.phase
             timer == IF ended THEN 0 ELSE s.port_timer
  <2>1. phase \in Phases /\ timer \in Nat
    BY Fields DEF Phases
  <2>2. VoyageStep(s, speed, even) =
          [s EXCEPT !.sog = 0, !.running = FALSE, !.phase = phase, !.port_timer = timer]
    BY <1>4 DEF VoyageStep, CargoOps
  <2> HIDE DEF phase, timer
  <2>3. VoyageStep(s, speed, even) \in ShipType
    <3>1. [s EXCEPT !.sog = 0, !.running = FALSE] \in ShipType
      BY <2>1, SetField
    <3>2. [s EXCEPT !.sog = 0, !.running = FALSE, !.phase = phase, !.port_timer = timer]
            \in ShipType
      BY <2>1, <3>1, SetField
    <3> QED  BY <2>2, <3>2
  <2> QED  BY <2>2, <2>3 DEF ShipType, SameBooks
<1>5. CASE s.phase = "port_stay"
  <2> DEFINE over == s.port_timer + 1 >= PortStay
             phase == IF over THEN "departure" ELSE s.phase
             timer == IF over THEN 0 ELSE s.port_timer + 1
  <2>1. over \in BOOLEAN /\ phase \in Phases /\ timer \in Nat
    BY Fields DEF Phases
  <2>2. VoyageStep(s, speed, even) =
          [s EXCEPT !.sog = 0, !.running = over, !.phase = phase, !.port_timer = timer]
    BY <1>5 DEF VoyageStep, InPort
  <2> HIDE DEF over, phase, timer
  <2>3. VoyageStep(s, speed, even) \in ShipType
    <3>1. [s EXCEPT !.sog = 0, !.running = over] \in ShipType
      BY <2>1, SetField
    <3>2. [s EXCEPT !.sog = 0, !.running = over, !.phase = phase, !.port_timer = timer]
            \in ShipType
      BY <2>1, <3>1, SetField
    <3> QED  BY <2>2, <3>2
  <2> QED  BY <2>2, <2>3 DEF ShipType, SameBooks
<1>6. CASE s.phase = "departure"
  <2> DEFINE leg == IF s.leg = "laden" THEN "ballast" ELSE "laden"
  <2>1. leg \in {"laden", "ballast"} /\ s.port_timer + 1 \in Nat /\ 0 \in 0..Route
    BY <1>1, Fields
  <2>2. VoyageStep(s, speed, even) =
          IF s.port_timer + 1 < Departure THEN [s EXCEPT !.port_timer = @ + 1]
          ELSE [s EXCEPT !.port_timer = 0, !.progress = 0, !.phase = "sea_passage", !.leg = leg]
    BY <1>6 DEF VoyageStep, Departing
  <2> HIDE DEF leg
  <2>3. VoyageStep(s, speed, even) \in ShipType
    <3>1. [s EXCEPT !.port_timer = @ + 1] \in ShipType
      BY <2>1, SetField
    <3>2. [s EXCEPT !.port_timer = 0, !.progress = 0] \in ShipType
      BY <2>1, SetField
    <3>3. [s EXCEPT !.port_timer = 0, !.progress = 0, !.phase = "sea_passage", !.leg = leg] \in ShipType
      BY <2>1, <3>2, SetField DEF Phases
    <3> QED  BY <2>2, <3>1, <3>3
  <2> QED  BY <2>2, <2>3 DEF ShipType, SameBooks
<1> QED  BY <1>2, <1>3, <1>4, <1>5, <1>6, Fields DEF Phases

\* CargoGenerator only moves the level, and never below the heel; how far the operation
\* is follows the level.
LEMMA CargoBook ==
  ASSUME NEW s \in ShipType, s.level >= HeelFraction
  PROVE  LET t == CargoStep(s)
         IN /\ t \in ShipType /\ SameBooks(s, t) /\ t.level >= HeelFraction
            /\ t.running = s.running /\ SameCourse(s, t)
            /\ s.phase = "loading" =>
                 /\ t.operation = t.level
                 /\ t.level = s.level + LeastOf(AboveZero(MaxFill - s.level), LoadRate)
            /\ s.phase = "discharging" =>
                 /\ t.operation = 100 - t.level
                 /\ t.level = s.level - LeastOf(AboveZero(s.level - DischargeHeel), DischargeRate)
            /\ s.phase \notin {"loading", "discharging"} => t = s
<1> DEFINE added == LeastOf(AboveZero(MaxFill - s.level), LoadRate)
           removed == LeastOf(AboveZero(s.level - DischargeHeel), DischargeRate)
<1>1. /\ s.level \in 3..100 /\ LoadRate \in Nat /\ DischargeRate \in Nat
  <2>1. s.level \in 0..100
    BY Fields
  <2>2. LoadRate \in Nat /\ DischargeRate \in Nat
    BY SimulatorAssumption
  <2> QED  BY <2>1, <2>2 DEF HeelFraction
<1>2. added \in Nat /\ s.level + added \in 3..100
  <2> DEFINE room == AboveZero(MaxFill - s.level)
  <2>1. room \in Nat /\ s.level + room <= 100
    BY <1>1 DEF AboveZero, MaxFill
  <2> HIDE DEF room
  <2>2. added \in Nat /\ added <= room
    BY <1>1, <2>1 DEF LeastOf, room
  <2> HIDE DEF added, removed
  <2> QED  BY <1>1, <2>1, <2>2
<1>3. removed \in Nat /\ s.level - removed \in 3..100
  <2> DEFINE above == AboveZero(s.level - DischargeHeel)
  <2>1. above \in Nat /\ s.level - above >= 3 /\ above <= s.level
    BY <1>1 DEF AboveZero, DischargeHeel
  <2> HIDE DEF above
  <2>2. removed \in Nat /\ removed <= above
    BY <1>1, <2>1 DEF LeastOf, above
  <2> HIDE DEF added, removed
  <2>3. s.level \in Nat /\ s.level <= 100
    BY <1>1
  <2> QED  BY <2>1, <2>2, <2>3
<1> HIDE DEF added, removed
<1>4. CASE s.phase = "loading"
  <2>1. CargoStep(s) = [s EXCEPT !.level = @ + added, !.operation = s.level + added]
    BY <1>4 DEF CargoStep, added
  <2>2. s.level + added \in 0..100
    BY <1>2
  <2>3. [s EXCEPT !.level = @ + added, !.operation = s.level + added] \in ShipType
    BY <2>2, SetCargo
  <2>4. CargoStep(s) \in ShipType
    BY <2>1, <2>3
  <2>5. /\ CargoStep(s).level = s.level + added /\ CargoStep(s).operation = s.level + added
        /\ SameCourse(s, CargoStep(s)) /\ SameBooks(s, CargoStep(s)) /\ CargoStep(s).running = s.running
    BY <2>1, <2>4 DEF ShipType, SameBooks, SameCourse
  <2> QED  BY <1>2, <1>4, <2>4, <2>5 DEF HeelFraction, added
<1>5. CASE s.phase = "discharging"
  <2>1. CargoStep(s) = [s EXCEPT !.level = @ - removed, !.operation = 100 - (s.level - removed)]
    BY <1>5 DEF CargoStep, removed
  <2>2. s.level - removed \in 0..100 /\ 100 - (s.level - removed) \in 0..100
    BY <1>3
  <2>3. [s EXCEPT !.level = @ - removed, !.operation = 100 - (s.level - removed)] \in ShipType
    BY <2>2, SetCargo
  <2>4. CargoStep(s) \in ShipType
    BY <2>1, <2>3
  <2>5. /\ CargoStep(s).level = s.level - removed
        /\ CargoStep(s).operation = 100 - (s.level - removed)
        /\ SameCourse(s, CargoStep(s)) /\ SameBooks(s, CargoStep(s)) /\ CargoStep(s).running = s.running
    <3>1. /\ s.level - removed \in 0..100
          /\ CargoStep(s) = [s EXCEPT !.level = s.level - removed,
                                      !.operation = 100 - (s.level - removed)]
      BY <2>1, <2>2
    <3> DEFINE new == s.level - removed
    <3> HIDE DEF new
    <3>2. CargoStep(s) = [s EXCEPT !.level = new, !.operation = 100 - new]
      BY <3>1 DEF new
    <3>3. CargoStep(s).level = new /\ CargoStep(s).operation = 100 - new
      BY <3>2 DEF ShipType
    <3>4. SameCourse(s, CargoStep(s)) /\ CargoStep(s).running = s.running
      BY <3>2 DEF ShipType, SameCourse
    <3>5. SameBooks(s, CargoStep(s))
      BY <3>2 DEF ShipType, SameBooks
    <3> QED  BY <3>3, <3>4, <3>5 DEF new
  <2> QED  BY <1>3, <1>5, <2>4, <2>5 DEF HeelFraction, removed
<1>6. CASE s.phase \notin {"loading", "discharging"}
  BY <1>6 DEF CargoStep, SameBooks, SameCourse
<1> QED  BY <1>4, <1>5, <1>6

\* BOGGenerator: the tanks give what the engine takes and the gas combustion unit
\* burns, unless that brings them down to the heel; above it they always give some.
LEMMA BogBook ==
  ASSUME NEW s \in ShipType, s.level >= HeelFraction
  PROVE  LET t == BogStep(s)
         IN /\ t \in ShipType /\ SameBooks(s, t) /\ t.level >= HeelFraction
            /\ s.level - t.level <= t.to_gcu + t.to_engine
            /\ t.level # HeelFraction => s.level - t.level = t.to_gcu + t.to_engine
            /\ ~t.running \/ t.on_mgo => t.to_engine = 0
            /\ SameCourse(s, t) /\ t.operation = s.operation
            /\ t.level <= s.level /\ (s.level > HeelFraction => t.level < s.level)
            /\ \A most \in Nat : BoilOff[s.level] <= most /\ Wanted(s) <= most => s.level - most <= t.level
<1> DEFINE boil == BoilOff[s.level]
           taken == IF Gas(s) > 0 THEN Wanted(s) ELSE 0
           forced == AboveZero(taken - boil)
           burnt == AboveZero(boil - taken)
           gone == LeastOf(Gas(s), boil + forced)
           left == IF Gas(s) = 0 THEN s.level ELSE s.level - gone
           on_mgo == Gas(s) = 0 /\ s.running
<1>1. s.level \in 3..100 /\ boil \in Nat \ {0} /\ Wanted(s) \in Nat /\ s.running \in BOOLEAN
  <2>1. s.level \in 3..100 /\ s.level \in 0..100 /\ s.phase \in Phases /\ s.running \in BOOLEAN
    BY Fields DEF HeelFraction
  <2> QED  BY <2>1, SimulatorAssumption DEF Wanted
<1>2. Gas(s) = s.level - 3 /\ Gas(s) \in Nat
  BY <1>1 DEF Gas, AboveZero, HeelFraction
<1>3. taken \in Nat /\ (~s.running \/ Gas(s) = 0 => taken = 0) /\ taken <= Wanted(s)
  BY <1>1, <1>2 DEF Wanted
<1> HIDE DEF boil, taken
<1>4. /\ forced \in Nat /\ burnt \in Nat /\ boil + forced = burnt + taken
      /\ boil + forced \in {boil, taken}
  BY <1>1, <1>3 DEF AboveZero
<1> HIDE DEF forced, burnt
<1>5. gone \in Nat /\ gone <= Gas(s) /\ gone <= boil + forced /\ gone \in {Gas(s), boil + forced}
  BY <1>1, <1>2, <1>4 DEF LeastOf
<1> HIDE DEF gone
<1>6. /\ left \in 3..100 /\ s.level - left <= burnt + taken
      /\ left # 3 => s.level - left = burnt + taken
      /\ left <= s.level /\ (s.level > 3 => left < s.level)
      /\ \A most \in Nat : boil <= most /\ Wanted(s) <= most => s.level - most <= left
  <2>1. CASE Gas(s) = 0
    <3>1. left = s.level /\ s.level = 3
      BY <1>1, <1>2, <2>1
    <3> QED  BY <1>3, <1>4, <3>1
  <2>2. CASE Gas(s) # 0
    <3>1. left = s.level - gone
      BY <2>2
    <3>2. left \in 3..100 /\ left <= s.level
      BY <1>1, <1>2, <1>5, <3>1, SMTT(30)
    <3>3. gone > 0
      BY <1>1, <1>2, <1>3, <1>4, <1>5, <2>2
    <3>4. gone <= burnt + taken /\ (gone # Gas(s) => gone = burnt + taken)
      BY <1>4, <1>5
    <3>5. \A most \in Nat : boil <= most /\ Wanted(s) <= most => gone <= most
      BY <1>1, <1>3, <1>4, <1>5
    <3> HIDE DEF left
    <3>6. \A most \in Nat : boil <= most /\ Wanted(s) <= most => s.level - most <= left
      BY <1>1, <1>5, <3>1, <3>5
    <3>7. s.level - left <= burnt + taken /\ (left # 3 => s.level - left = burnt + taken)
      BY <1>1, <1>2, <1>3, <1>4, <1>5, <3>1, <3>4
    <3>8. s.level > 3 => left < s.level
      BY <1>1, <1>5, <3>1, <3>3
    <3> QED  BY <3>2, <3>6, <3>7, <3>8
  <2> QED  BY <2>1, <2>2
<1>7. BogStep(s) = [s EXCEPT !.on_mgo = on_mgo, !.to_engine = taken, !.to_gcu = burnt, !.level = left]
  BY DEF BogStep, boil, taken, forced, burnt, gone
<1>8. on_mgo \in BOOLEAN /\ left \in 0..100 /\ (~s.running \/ on_mgo => taken = 0)
  BY <1>1, <1>3, <1>6
<1> HIDE DEF left, on_mgo
<1>9. BogStep(s) \in ShipType
  <2>1. [s EXCEPT !.on_mgo = on_mgo, !.to_engine = taken] \in ShipType
    BY <1>3, <1>8, SetField
  <2>2. [s EXCEPT !.on_mgo = on_mgo, !.to_engine = taken, !.to_gcu = burnt, !.level = left]
          \in ShipType
    BY <1>4, <1>8, <2>1, SetField
  <2> QED  BY <1>7, <2>2
<1>10. /\ BogStep(s).level = left /\ BogStep(s).to_gcu = burnt /\ BogStep(s).to_engine = taken
       /\ BogStep(s).on_mgo = on_mgo /\ BogStep(s).running = s.running
       /\ SameBooks(s, BogStep(s)) /\ SameCourse(s, BogStep(s)) /\ BogStep(s).operation = s.operation
  BY <1>7, <1>9 DEF ShipType, SameBooks, SameCourse
<1> QED  BY <1>6, <1>8, <1>9, <1>10 DEF HeelFraction, boil

\* FuelGenerator, the auxiliary loads and EmissionsGenerator count the same gas,
\* and the generators' MGO at the load before and after.
LEMMA FuelBook ==
  ASSUME NEW s \in ShipType, ~s.running \/ s.on_mgo => s.to_engine = 0
  PROVE  LET t == EmissionsStep(UpdateAuxLoads(FuelStep(s)))
         IN /\ t \in ShipType /\ t.level = s.level /\ t.operation = s.operation /\ SameCourse(s, t)
            /\ t.burnt.lng = s.burnt.lng + s.to_gcu + s.to_engine
            /\ t.emitted.lng - t.burnt.lng = s.emitted.lng - s.burnt.lng
            /\ t.emitted.mgo - t.burnt.mgo - t.aux = s.emitted.mgo - s.burnt.mgo - s.aux
<1> DEFINE mgo == s.burnt.mgo + s.aux + PilotMgo(s) + MainMgo(s)
           lng == s.burnt.lng + s.to_gcu + (IF s.running /\ ~s.on_mgo THEN s.to_engine ELSE 0)
           u == FuelStep(s)
           v == UpdateAuxLoads(u)
           w == EmissionsStep(v)
<1>1. /\ s.to_gcu \in Nat /\ s.to_engine \in Nat /\ s.aux \in Nat /\ s.phase \in Phases
      /\ s.running \in BOOLEAN /\ s.on_mgo \in BOOLEAN
      /\ s.burnt.lng \in Nat /\ s.burnt.mgo \in Int /\ s.emitted.lng \in Nat /\ s.emitted.mgo \in Int
  BY Fields DEF Fuel
<1>2. PilotMgo(s) \in Nat /\ MainMgo(s) \in Nat /\ AuxLoad[s.phase] \in Nat
  BY <1>1, SimulatorAssumption DEF PilotMgo, MainMgo, Wanted
<1>3. lng = s.burnt.lng + s.to_gcu + s.to_engine /\ lng \in Nat /\ mgo \in Int
  BY <1>1, <1>2
<1>4. /\ u \in ShipType /\ u.level = s.level /\ u.phase = s.phase /\ u.running = s.running
      /\ u.on_mgo = s.on_mgo /\ u.to_gcu = s.to_gcu /\ u.to_engine = s.to_engine
      /\ u.emitted = s.emitted /\ u.burnt.lng = lng /\ u.burnt.mgo = mgo
      /\ u.operation = s.operation /\ SameCourse(s, u)
  <2> DEFINE fuel == [lng |-> lng, mgo |-> mgo]
  <2>1. u = [s EXCEPT !.burnt = fuel]
    <3>1. FuelStep(s) = [s EXCEPT !.burnt = [lng |-> s.burnt.lng + s.to_gcu
                                               + (IF s.running /\ ~s.on_mgo THEN s.to_engine ELSE 0),
                                             mgo |-> mgo]]
      BY Zenon DEF FuelStep
    <3> QED  BY <3>1, Zenon
  <2>2. fuel \in Fuel /\ fuel.lng = lng /\ fuel.mgo = mgo
    BY <1>3 DEF Fuel
  <2> HIDE DEF u, fuel
  <2>3. u \in ShipType
    BY <2>1, <2>2, SetField
  <2> QED  BY <2>1, <2>2, <2>3 DEF ShipType, SameCourse
<1> HIDE DEF u, mgo, lng
<1>5. /\ v \in ShipType /\ v.level = s.level /\ v.phase = s.phase /\ v.running = s.running
      /\ v.on_mgo = s.on_mgo /\ v.to_gcu = s.to_gcu /\ v.to_engine = s.to_engine
      /\ v.emitted = s.emitted /\ v.burnt = u.burnt /\ v.aux = AuxLoad[s.phase]
      /\ v.operation = s.operation /\ SameCourse(s, v)
  <2>1. v = [u EXCEPT !.aux = AuxLoad[s.phase]]
    BY <1>4 DEF UpdateAuxLoads
  <2> HIDE DEF v
  <2>2. v \in ShipType
    BY <1>2, <1>4, <2>1, SetField
  <2> QED  BY <1>4, <2>1, <2>2 DEF ShipType, SameCourse
<1> HIDE DEF v
<1>6. PilotMgo(v) = PilotMgo(s) /\ MainMgo(v) = MainMgo(s)
  BY <1>5 DEF PilotMgo, MainMgo, Wanted
<1>7. /\ w \in ShipType /\ w.level = s.level /\ w.operation = s.operation /\ SameCourse(s, w)
      /\ w.burnt = u.burnt /\ w.aux = AuxLoad[s.phase]
      /\ w.emitted.lng = s.emitted.lng + s.to_gcu + s.to_engine
      /\ w.emitted.mgo = s.emitted.mgo + AuxLoad[s.phase] + PilotMgo(s) + MainMgo(s)
  <2> DEFINE air == [lng |-> s.emitted.lng + s.to_gcu + s.to_engine,
                     mgo |-> s.emitted.mgo + AuxLoad[s.phase] + PilotMgo(s) + MainMgo(s)]
  <2>1. w = [v EXCEPT !.emitted = air]
    <3> DEFINE counted == [lng |-> v.emitted.lng + v.to_gcu + (IF v.on_mgo THEN 0 ELSE v.to_engine),
                           mgo |-> v.emitted.mgo + v.aux + PilotMgo(v) + MainMgo(v)]
    <3>1. w = [v EXCEPT !.emitted = counted]
      BY Zenon DEF EmissionsStep
    <3>2. v.emitted.lng + v.to_gcu + (IF v.on_mgo THEN 0 ELSE v.to_engine)
            = s.emitted.lng + s.to_gcu + s.to_engine
      BY <1>1, <1>5
    <3>3. v.emitted.mgo + v.aux + PilotMgo(v) + MainMgo(v)
            = s.emitted.mgo + AuxLoad[s.phase] + PilotMgo(s) + MainMgo(s)
      BY <1>5, <1>6
    <3> QED  BY <3>1, <3>2, <3>3
  <2>2. /\ air \in Fuel /\ air.lng = s.emitted.lng + s.to_gcu + s.to_engine
        /\ air.mgo = s.emitted.mgo + AuxLoad[s.phase] + PilotMgo(s) + MainMgo(s)
    BY <1>1, <1>2 DEF Fuel
  <2> HIDE DEF w, air
  <2>3. w \in ShipType
    BY <1>5, <2>1, <2>2, SetField
  <2> QED  BY <1>5, <2>1, <2>2, <2>3 DEF ShipType, SameCourse
<1>8. /\ w.burnt.lng = s.burnt.lng + s.to_gcu + s.to_engine
      /\ w.emitted.lng - w.burnt.lng = s.emitted.lng - s.burnt.lng
      /\ w.emitted.mgo - w.burnt.mgo - w.aux = s.emitted.mgo - s.burnt.mgo - s.aux
  BY <1>1, <1>2, <1>3, <1>4, <1>7 DEF mgo
<1> QED  BY <1>7, <1>8 DEF u, v

\* PortGenerator only stops and starts the engine.
LEMMA PortBook ==
  ASSUME NEW s \in ShipType
  PROVE  LET t == PortStep(s)
         IN /\ t \in ShipType /\ SameBooks(s, t) /\ t.level = s.level
            /\ SameCourse(s, t) /\ t.operation = s.operation
<1>1. CASE s.phase \in Stationary
  <2>1. PortStep(s) = [s EXCEPT !.sog = 0, !.running = FALSE]
    BY <1>1 DEF PortStep, Stationary
  <2>2. PortStep(s) \in ShipType
    BY <2>1, SetField
  <2> QED  BY <2>1, <2>2 DEF ShipType, SameBooks, SameCourse
<1>2. CASE s.phase = "departure"
  <2>1. PortStep(s) = [s EXCEPT !.running = TRUE]
    BY <1>2 DEF PortStep, Stationary
  <2>2. [s EXCEPT !.running = TRUE] \in ShipType
    BY SetField
  <2> QED  BY <2>1, <2>2 DEF ShipType, SameBooks, SameCourse
<1>3. CASE s.phase \notin Stationary /\ s.phase # "departure"
  BY <1>3 DEF PortStep, SameBooks, SameCourse
<1> QED  BY <1>1, <1>2, <1>3

-----------------------------------------------------------------------------
RowType == [at : Nat, sailed : Nat]

\* The invariant: the level never falls below the heel, which is what makes "dry" say
\* when the tanks stop giving.
SimInv ==
  /\ SimTypeOK /\ BooksBalance /\ ship.level >= HeelFraction
  /\ buffer \in Seq(RowType) /\ raw \in Seq(Seq(RowType))

\* A new vessel carries the initial fill and has burnt nothing.
LEMMA NewShipBooks ==
  /\ NewShip \in ShipType /\ NewShip.level = InitialFill /\ NewShip.level >= HeelFraction
  /\ NewShip.burnt = [lng |-> 0, mgo |-> 0] /\ NewShip.emitted = NewShip.burnt
  /\ NewShip.aux = InitialAux
<1>1. InitialFill \in 0..100 /\ InitialFill >= HeelFraction /\ InitialAux \in Nat /\ 0 \in 0..Route
  BY SimulatorAssumption DEF InitialFill, HeelFraction
<1>2. [lng |-> 0, mgo |-> 0] \in Fuel
  BY DEF Fuel
<1> QED  BY <1>1, <1>2 DEF NewShip, ShipType, Phases

\* The arithmetic of the books: f the fill, m and n the cargo moved before and after,
\* l, b, k the levels before the step, with the cargo moved and after it, g and h the
\* gas burnt before and after, x what the step burns.
LEMMA TankArithmetic ==
  ASSUME NEW f \in Int, NEW m \in Int, NEW n \in Int, NEW l \in Int, NEW b \in Int, NEW k \in Int,
         NEW g \in Int, NEW h \in Int, NEW x \in Int, n = m + b - l, h = g + x
  PROVE  /\ f + m - l <= g /\ b - k <= x => f + n - k <= h
         /\ f + m - l = g /\ b - k = x => f + n - k = h
  OBVIOUS

\* e and o the gas and the MGO counted as CO2, g and p the gas and the MGO burnt,
\* a the load of the generators; the second letter of a pair is after the step.
LEMMA AirArithmetic ==
  ASSUME NEW e \in Int, NEW ee \in Int, NEW g \in Int, NEW gg \in Int, NEW o \in Int, NEW oo \in Int,
         NEW p \in Int, NEW pp \in Int, NEW a \in Int, NEW aa \in Int, NEW first \in Int,
         e = g, o - p = a - first, ee - gg = e - g, oo - pp - aa = o - p - a
  PROVE  ee = gg /\ oo - pp = aa - first
  OBVIOUS

\* A run's rows can be appended to its table, the last of the tables.
LEMMA WriteRows ==
  ASSUME NEW tables \in Seq(Seq(RowType)), NEW rows \in Seq(RowType), Len(tables) >= 1
  PROVE  LET t == [tables EXCEPT ![Len(tables)] = @ \o rows]
         IN t \in Seq(Seq(RowType)) /\ Len(t) = Len(tables)
<1>1. Len(tables) \in 1..Len(tables)
  BY LenProperties
<1>2. tables[Len(tables)] \in Seq(RowType)
  BY <1>1, ElementOfSeq
<1>3. tables[Len(tables)] \o rows \in Seq(RowType)
  BY <1>2, ConcatProperties
<1> QED  BY <1>1, <1>3, ExceptSeq

\* One step of TelemetrySimulator.run.
LEMMA StepKeepsInv ==
  ASSUME SimInv, NEW speed \in Speeds, NEW even \in BOOLEAN, Step(speed, even)
  PROVE  SimInv'
<1> DEFINE a == VoyageStep(ship, speed, even)
           b == CargoStep(a)
           c == BogStep(b)
           d == EmissionsStep(UpdateAuxLoads(FuelStep(c)))
<1>1. ship \in ShipType /\ ship.level >= HeelFraction
  BY DEF SimInv, SimTypeOK
<1>2. a \in ShipType /\ SameBooks(ship, a) /\ a.level = ship.level
  BY <1>1, VoyageBook
<1>3. b \in ShipType /\ SameBooks(a, b) /\ b.level >= HeelFraction
  <2> HIDE DEF a
  <2> QED  BY <1>1, <1>2, CargoBook
<1>4. /\ c \in ShipType /\ SameBooks(b, c) /\ c.level >= HeelFraction
      /\ b.level - c.level <= c.to_gcu + c.to_engine
      /\ c.level # HeelFraction => b.level - c.level = c.to_gcu + c.to_engine
      /\ ~c.running \/ c.on_mgo => c.to_engine = 0
  <2> HIDE DEF b
  <2> QED  BY <1>3, BogBook
<1>5. /\ d \in ShipType /\ d.level = c.level
      /\ d.burnt.lng = c.burnt.lng + c.to_gcu + c.to_engine
      /\ d.emitted.lng - d.burnt.lng = c.emitted.lng - c.burnt.lng
      /\ d.emitted.mgo - d.burnt.mgo - d.aux = c.emitted.mgo - c.burnt.mgo - c.aux
  <2> HIDE DEF c
  <2> QED  BY <1>4, FuelBook
<1>6. /\ ship' \in ShipType /\ SameBooks(d, ship') /\ ship'.level = d.level
  <2>1. ship' = PortStep(d)
    BY DEF Step, Sailed
  <2> HIDE DEF d
  <2> QED  BY <1>5, <2>1, PortBook
<1>7. /\ moved' = moved + b.level - ship.level
      /\ dry' = (dry \/ ship'.level = HeelFraction)
  BY <1>2 DEF Step
<1> HIDE DEF a, b, c, d
<1>8. BooksBalance' /\ ship'.level >= HeelFraction /\ moved' \in Int
  <2>1. /\ ship.level \in 0..100 /\ ship.aux \in Nat /\ ship.burnt \in Fuel /\ ship.emitted \in Fuel
    BY <1>1, Fields
  <2>2. b.level \in 0..100
    BY <1>3, Fields
  <2>3. c.level \in 0..100 /\ c.to_gcu \in Nat /\ c.to_engine \in Nat
    BY <1>4, Fields
  <2>4. /\ ship'.level \in 0..100 /\ ship'.aux \in Nat /\ ship'.burnt \in Fuel
        /\ ship'.emitted \in Fuel
    BY <1>6, Fields
  <2>5. c.burnt = ship.burnt /\ c.emitted = ship.emitted /\ c.aux = ship.aux
    BY <1>2, <1>3, <1>4 DEF SameBooks
  <2>6. ship'.burnt = d.burnt /\ ship'.emitted = d.emitted /\ ship'.aux = d.aux
    BY <1>6 DEF SameBooks
  <2>7. /\ ship'.burnt.lng = ship.burnt.lng + c.to_gcu + c.to_engine
        /\ ship'.emitted.lng - ship'.burnt.lng = ship.emitted.lng - ship.burnt.lng
        /\ ship'.emitted.mgo - ship'.burnt.mgo - ship'.aux
             = ship.emitted.mgo - ship.burnt.mgo - ship.aux
        /\ ship'.level = c.level
    BY <1>5, <1>6, <2>5, <2>6
  <2>8. /\ InitialFill + moved - ship.level <= ship.burnt.lng
        /\ ~dry => InitialFill + moved - ship.level = ship.burnt.lng
        /\ ship.emitted.lng = ship.burnt.lng
        /\ ship.emitted.mgo - ship.burnt.mgo = ship.aux - InitialAux
    BY DEF SimInv, BooksBalance
  <2>9. /\ moved \in Int /\ InitialFill \in Nat /\ InitialAux \in Nat /\ HeelFraction \in Nat
    BY SimulatorAssumption DEF SimInv, SimTypeOK, InitialFill, HeelFraction
  <2>10. /\ ship.burnt.lng \in Nat /\ ship.burnt.mgo \in Int /\ ship.emitted.lng \in Nat
         /\ ship.emitted.mgo \in Int /\ ship'.burnt.lng \in Nat /\ ship'.burnt.mgo \in Int
         /\ ship'.emitted.lng \in Nat /\ ship'.emitted.mgo \in Int
    BY <2>1, <2>4 DEF Fuel
  <2>11. /\ InitialFill \in Int /\ moved \in Int /\ moved' \in Int /\ ship.level \in Int
         /\ b.level \in Int /\ ship'.level \in Int /\ ship.burnt.lng \in Int
         /\ ship'.burnt.lng \in Int /\ c.to_gcu + c.to_engine \in Int
         /\ moved' = moved + b.level - ship.level
         /\ ship'.burnt.lng = ship.burnt.lng + (c.to_gcu + c.to_engine)
    BY <1>7, <2>1, <2>2, <2>3, <2>4, <2>7, <2>9, <2>10
  <2>12. /\ InitialFill + moved' - ship'.level <= ship'.burnt.lng
         /\ ~dry' => InitialFill + moved' - ship'.level = ship'.burnt.lng
    <3>1. InitialFill + moved' - ship'.level <= ship'.burnt.lng
      <4>1. b.level - ship'.level <= c.to_gcu + c.to_engine
        BY <1>4, <2>7
      <4> QED  BY <2>8, <2>11, <4>1, TankArithmetic
    <3>2. ASSUME ~dry' PROVE InitialFill + moved' - ship'.level = ship'.burnt.lng
      <4>1. ~dry /\ ship'.level # HeelFraction
        BY <1>7, <3>2, Zenon
      <4>2. b.level - ship'.level = c.to_gcu + c.to_engine
        BY <1>4, <2>7, <4>1
      <4>3. InitialFill + moved - ship.level = ship.burnt.lng
        BY <2>8, <4>1
      <4>4. InitialFill + moved' - ship'.level
              = (InitialFill + moved - ship.level) + (b.level - ship'.level)
        BY <2>11
      <4> QED  BY <2>11, <4>2, <4>3, <4>4
    <3> QED  BY <3>1, <3>2
  <2>13. /\ ship'.emitted.lng = ship'.burnt.lng
         /\ ship'.emitted.mgo - ship'.burnt.mgo = ship'.aux - InitialAux
    <3>1. /\ ship.emitted.lng \in Int /\ ship'.emitted.lng \in Int
          /\ ship.aux \in Int /\ ship'.aux \in Int /\ InitialAux \in Int
      BY <2>1, <2>4, <2>9, <2>10
    <3> QED  BY <2>7, <2>8, <2>10, <2>11, <3>1, AirArithmetic
  <2>14. moved' \in Int /\ ship'.level >= HeelFraction
    <3>1. ship'.level >= HeelFraction
      BY <1>4, <2>7, Zenon
    <3> QED  BY <2>11, <3>1, Zenon
  <2> QED  BY <2>12, <2>13, <2>14 DEF BooksBalance
<1>9. /\ buffer' \in Seq(RowType) /\ Len(buffer') < BufferSize /\ raw' \in Seq(Seq(RowType))
      /\ Len(raw') = Len(raw)
  <2> DEFINE row == [at |-> clock, sailed |-> ship'.sailed]
             rows == Append(buffer, row)
  <2>1. row \in RowType
    <3>1. ship'.sailed \in Nat /\ clock \in Nat
      BY <1>6, Fields DEF SimInv, SimTypeOK
    <3> QED  BY <3>1 DEF RowType
  <2>2. /\ buffer \in Seq(RowType) /\ raw \in Seq(Seq(RowType)) /\ Len(raw) >= 1
        /\ BufferSize \in Nat \ {0}
    BY SimulatorAssumption DEF SimInv, SimTypeOK
  <2>3. IF Len(rows) >= BufferSize THEN Write(rows) /\ buffer' = <<>>
                                   ELSE buffer' = rows /\ UNCHANGED raw
    BY DEF Step
  <2> HIDE DEF row
  <2>4. rows \in Seq(RowType) /\ Len(rows) \in Nat
    BY <2>1, <2>2, AppendProperties, LenProperties
  <2> HIDE DEF rows
  <2>5. CASE Len(rows) >= BufferSize
    <3>1. raw' = [raw EXCEPT ![Len(raw)] = @ \o rows] /\ buffer' = <<>>
      BY <2>3, <2>5 DEF Write
    <3>2. raw' \in Seq(Seq(RowType)) /\ Len(raw') = Len(raw)
      BY <2>2, <2>4, <3>1, WriteRows
    <3>3. buffer' \in Seq(RowType) /\ Len(buffer') = 0
      BY <3>1, EmptySeq
    <3> QED  BY <2>2, <3>2, <3>3
  <2>6. CASE ~(Len(rows) >= BufferSize)
    BY <2>2, <2>3, <2>4, <2>6
  <2> QED  BY <2>5, <2>6
<1>10. clock' \in Nat /\ up' \in BOOLEAN /\ dry' \in BOOLEAN /\ since' \in Nat
  BY DEF Step, SimInv, SimTypeOK
<1>11. Len(raw') \in 1..Len(RunSteps)
  BY <1>9 DEF SimInv, SimTypeOK
<1> QED  BY <1>6, <1>8, <1>9, <1>10, <1>11 DEF SimInv, SimTypeOK

\* A vessel at the start of a run has balanced books.
LEMMA FreshBooks ==
  ASSUME NEW s, s = NewShip, NEW m, m = 0, NEW d \in BOOLEAN
  PROVE  /\ InitialFill + m - s.level <= s.burnt.lng
         /\ ~d => InitialFill + m - s.level = s.burnt.lng
         /\ s.emitted.lng = s.burnt.lng
         /\ s.emitted.mgo - s.burnt.mgo = s.aux - InitialAux
<1>1. /\ s.level = InitialFill /\ s.burnt.lng = 0 /\ s.burnt.mgo = 0 /\ s.aux = InitialAux
      /\ s.emitted.lng = 0 /\ s.emitted.mgo = 0
  BY NewShipBooks
<1>2. InitialFill \in Int /\ InitialAux \in Int
  BY SimulatorAssumption DEF InitialFill
<1> QED  BY <1>1, <1>2

\* The invariant is inductive.
LEMMA SimInductive ==
  /\ SimInit => SimInv
  /\ SimInv /\ [SimNext]_simVars => SimInv'
<1>0. /\ Len(RunSteps) \in Nat \ {0} /\ BufferSize \in Nat \ {0}
      /\ <<>> \in Seq(RowType) /\ Len(<<>>) = 0
  BY EmptySeq, SimulatorAssumption
<1>1. ASSUME SimInit PROVE SimInv
  <2>1. ship = NewShip /\ moved = 0 /\ dry = FALSE /\ buffer = <<>> /\ raw = <<<<>>>>
    BY <1>1 DEF SimInit
  <2>2. BooksBalance
    BY <2>1, FreshBooks DEF BooksBalance
  <2>3. raw \in Seq(Seq(RowType)) /\ Len(raw) = 1
    BY <1>0, <2>1
  <2>4. clock \in Nat /\ up \in BOOLEAN /\ since \in Nat
    BY <1>1 DEF SimInit
  <2>5. /\ ship \in ShipType /\ ship.level >= HeelFraction /\ moved \in Int /\ dry \in BOOLEAN
        /\ buffer \in Seq(RowType) /\ Len(buffer) < BufferSize /\ Len(raw) \in 1..Len(RunSteps)
    <3>1. buffer \in Seq(RowType) /\ Len(buffer) < BufferSize /\ Len(raw) \in 1..Len(RunSteps)
      BY <1>0, <2>1, <2>3
    <3>2. ship \in ShipType /\ ship.level >= HeelFraction
      BY <2>1, NewShipBooks
    <3>3. moved \in Int
      BY <2>1
    <3>4. dry \in BOOLEAN
      BY <2>1, Zenon
    <3> QED  BY <3>1, <3>2, <3>3, <3>4
  <2> QED  BY <2>2, <2>3, <2>4, <2>5 DEF SimInv, SimTypeOK
<1>2. ASSUME SimInv, [SimNext]_simVars PROVE SimInv'
  <2>0. /\ raw \in Seq(Seq(RowType)) /\ buffer \in Seq(RowType) /\ Len(raw) \in 1..Len(RunSteps)
        /\ ship \in ShipType /\ ship.level >= HeelFraction /\ BooksBalance
        /\ clock \in Nat /\ up \in BOOLEAN /\ dry \in BOOLEAN /\ moved \in Int /\ since \in Nat
        /\ Len(buffer) < BufferSize
    BY <1>2 DEF SimInv, SimTypeOK
  <2>1. CASE UNCHANGED simVars
    BY <1>2, <2>1 DEF simVars, SimInv, SimTypeOK, BooksBalance
  <2>2. ASSUME UNCHANGED <<ship, clock, moved, dry, since>>, up' = FALSE, buffer' = <<>>,
               raw' \in Seq(Seq(RowType)), Len(raw') = Len(raw)
        PROVE  SimInv'
    <3>1. BooksBalance'
      BY <2>0, <2>2 DEF BooksBalance
    <3>2. buffer' \in Seq(RowType) /\ Len(buffer') < BufferSize
      BY <1>0, <2>2
    <3> QED  BY <2>0, <2>2, <3>1, <3>2 DEF SimInv, SimTypeOK
  <2>3. CASE Finish
    <3>1. raw' = [raw EXCEPT ![Len(raw)] = @ \o buffer]
      BY <2>3 DEF Finish, Write
    <3>2. raw' \in Seq(Seq(RowType)) /\ Len(raw') = Len(raw)
      BY <2>0, <3>1, WriteRows
    <3> QED  BY <2>2, <2>3, <3>2 DEF Finish
  <2>4. CASE Interrupt
    BY <2>0, <2>2, <2>4 DEF Interrupt
  <2>5. CASE Restart
    <3>1. /\ raw' = Append(raw, <<>>) /\ Len(raw) < Len(RunSteps) /\ ship' = NewShip
          /\ moved' = 0 /\ dry' = FALSE /\ buffer' = <<>>
      BY <2>5 DEF Restart
    <3>2. raw' \in Seq(Seq(RowType)) /\ Len(raw') = Len(raw) + 1
      BY <1>0, <2>0, <3>1, AppendProperties
    <3>3. BooksBalance'
      BY <3>1, FreshBooks DEF BooksBalance
    <3>4. clock' \in Nat /\ up' \in BOOLEAN /\ since' \in Nat
      BY <2>5 DEF Restart
    <3>5. Len(raw') \in 1..Len(RunSteps)
      BY <1>0, <2>0, <3>1, <3>2
    <3>6. /\ ship' \in ShipType /\ ship'.level >= HeelFraction /\ moved' \in Int /\ dry' \in BOOLEAN
          /\ buffer' \in Seq(RowType) /\ Len(buffer') < BufferSize
      <4>1. buffer' \in Seq(RowType) /\ Len(buffer') < BufferSize
        BY <1>0, <3>1
      <4>2. ship' \in ShipType /\ ship'.level >= HeelFraction
        BY <3>1, NewShipBooks
      <4>3. moved' \in Int
        BY <3>1
      <4>4. dry' \in BOOLEAN
        BY <3>1, Zenon
      <4> QED  BY <4>1, <4>2, <4>3, <4>4
    <3> QED  BY <3>2, <3>3, <3>4, <3>5, <3>6 DEF SimInv, SimTypeOK
  <2>6. ASSUME NEW speed \in Speeds, NEW even \in BOOLEAN, Step(speed, even) PROVE SimInv'
    BY <1>2, <2>6, StepKeepsInv
  <2> QED  BY <1>2, <2>1, <2>3, <2>4, <2>5, <2>6 DEF SimNext
<1> QED  BY <1>1, <1>2

\* The type invariant: whatever the route, the weather and the rates, a vessel keeps its
\* tanks between empty and full, and the buffer is written before it is full.
THEOREM SimTypeCorrect == SimSpec => []SimTypeOK
<1>1. SimInv => SimTypeOK
  BY DEF SimInv
<1> QED  BY <1>1, SimInductive, PTL DEF SimSpec

\* The books of boil-off, fuel and CO2 balance after any number of steps of any voyage.
THEOREM BooksAlwaysBalance == SimSpec => []BooksBalance
<1>1. SimInv => BooksBalance
  BY DEF SimInv
<1> QED  BY <1>1, SimInductive, PTL DEF SimSpec

-----------------------------------------------------------------------------
\* The slowest weather makes some way, and no weather less.
LEMMA SlowestSpeed ==
  Min(Speeds) \in Nat \ {0} /\ \A speed \in Speeds : Min(Speeds) <= speed
<1>1. Speeds \subseteq Nat /\ Speeds \subseteq Nat \ {0} /\ Speeds # {}
  BY SimulatorAssumption
<1>2. \E x \in Speeds : \A y \in Speeds : x <= y
  <2>1. \E x \in Speeds : \A y \in Speeds : <<y, x>> \notin OpToRel(<, Nat)
    BY <1>1, NatLessThanWellFounded, WFMin
  <2>2. ASSUME NEW x \in Speeds, NEW y \in Speeds, <<y, x>> \notin OpToRel(<, Nat)
        PROVE  x <= y
    BY <1>1, <2>2 DEF OpToRel
  <2> QED  BY <2>1, <2>2
<1>3. Min(Speeds) \in Speeds /\ \A y \in Speeds : Min(Speeds) <= y
  BY <1>2 DEF Min
<1> QED  BY <1>1, <1>3

\* What fits into n at a rate fits less often than n divided by the rate, rounded up.
LEMMA RoundedUp ==
  ASSUME NEW n \in Nat, NEW rate \in Nat \ {0}
  PROVE  /\ Ceil(n, rate) \in Nat /\ n <= Ceil(n, rate) * rate
         /\ n > 0 => Ceil(n, rate) > 0
         /\ \A k \in Nat : k * rate < n => k < Ceil(n, rate)
<1> DEFINE q == Ceil(n, rate)
<1>1. q \in Nat /\ n + rate - 1 - rate < q * rate /\ q * rate \in Nat
  BY DEF Ceil
<1>2. n <= q * rate
  BY <1>1
<1>3. ASSUME NEW k \in Nat, k * rate < n PROVE k < q
  <2>1. SUFFICES ASSUME q <= k PROVE FALSE
    BY <1>1
  <2>2. q * rate <= k * rate
    BY <1>1, <2>1
  <2> QED  BY <1>1, <1>2, <1>3, <2>2
<1>4. n > 0 => q > 0
  <2>1. 0 * rate = 0
    OBVIOUS
  <2> QED  BY <1>1, <1>3, <2>1
<1> QED  BY <1>1, <1>2, <1>3, <1>4

\* VoyageGenerator, phase by phase: when a phase ends and what the next one starts with.
LEMMA VoyageCourse ==
  ASSUME NEW s \in ShipType, NEW speed \in Speeds, NEW even \in BOOLEAN
  PROVE  LET t == VoyageStep(s, speed, even)
         IN /\ s.phase # "departure" => t.leg = s.leg
            /\ s.phase = "sea_passage" =>
                 IF s.progress + speed >= Route THEN t.phase = "arrival" /\ t.port_timer = 0
                 ELSE t.phase = s.phase /\ t.progress = s.progress + speed
            /\ s.phase = "arrival" =>
                 IF s.port_timer + 1 < Approach
                 THEN t.phase = s.phase /\ t.port_timer = s.port_timer + 1
                 ELSE t.phase = (IF s.leg = "laden" THEN "discharging" ELSE "loading")
            /\ s.phase \in {"loading", "discharging"} =>
                 /\ t.operation = s.operation /\ ~t.running
                 /\ \/ t.phase = s.phase /\ s.operation <= 95
                    \/ t.phase = "port_stay" /\ t.port_timer = 0 /\ s.operation >= 95
            /\ s.phase = "port_stay" =>
                 IF s.port_timer + 1 < PortStay
                 THEN t.phase = s.phase /\ t.port_timer = s.port_timer + 1
                 ELSE t.phase = "departure" /\ t.port_timer = 0
            /\ s.phase = "departure" =>
                 IF s.port_timer + 1 < Departure
                 THEN t.phase = s.phase /\ t.port_timer = s.port_timer + 1 /\ t.leg = s.leg
                 ELSE /\ t.phase = "sea_passage" /\ t.progress = 0
                      /\ t.leg = (IF s.leg = "laden" THEN "ballast" ELSE "laden")
<1> DEFINE t == VoyageStep(s, speed, even)
<1>0. /\ s.phase \in Phases /\ s.leg \in {"laden", "ballast"} /\ s.progress \in Nat
      /\ s.port_timer \in Nat /\ s.operation \in 0..100 /\ speed \in Nat /\ Route \in Nat
      /\ PortStay \in Nat /\ Departure \in Nat /\ Approach \in Nat
  <2>1. /\ speed \in Nat /\ Route \in Nat /\ PortStay \in Nat /\ Departure \in Nat
        /\ Approach \in Nat
    BY SimulatorAssumption
  <2>2. /\ s.phase \in Phases /\ s.leg \in {"laden", "ballast"} /\ s.progress \in 0..Route
        /\ s.port_timer \in Nat /\ s.operation \in 0..100
    BY Fields
  <2> QED  BY <2>1, <2>2
<1>1. CASE s.phase = "sea_passage"
  <2>1. t = SeaPassage(s, speed)
    BY <1>1 DEF VoyageStep
  <2>2. /\ t.leg = s.leg /\ t.progress = LeastOf(Route, s.progress + speed)
        /\ t.phase = (IF s.progress + speed >= Route THEN "arrival" ELSE s.phase)
        /\ t.port_timer = (IF s.progress + speed >= Route THEN 0 ELSE s.port_timer)
    BY <2>1 DEF SeaPassage, ShipType
  <2> QED  BY <1>0, <1>1, <2>2 DEF LeastOf
<1>2. CASE s.phase = "arrival"
  <2> DEFINE slower == AboveZero(s.sog - SlowDown)
             stopped == [s EXCEPT !.sog = slower, !.port_timer = @ + 1, !.running = @ /\ slower > 0]
  <2>1. t = IF stopped.port_timer < Approach THEN stopped
            ELSE [stopped EXCEPT !.port_timer = 0, !.sog = 0, !.operation = 0,
                                 !.phase = IF s.leg = "laden" THEN "discharging" ELSE "loading"]
    BY <1>2 DEF VoyageStep, Arrival
  <2>2. /\ stopped.port_timer = s.port_timer + 1 /\ stopped.phase = s.phase /\ stopped.leg = s.leg
        /\ DOMAIN stopped = DOMAIN s
    BY DEF ShipType
  <2>3. "phase" \in DOMAIN s /\ "leg" \in DOMAIN s
    BY DEF ShipType
  <2> HIDE DEF stopped, t
  <2>4. ASSUME s.port_timer + 1 < Approach
        PROVE  t.leg = s.leg /\ t.phase = s.phase /\ t.port_timer = s.port_timer + 1
    BY <2>1, <2>2, <2>4
  <2>5. ASSUME ~(s.port_timer + 1 < Approach)
        PROVE  t.leg = s.leg /\ t.phase = (IF s.leg = "laden" THEN "discharging" ELSE "loading")
    BY <2>1, <2>2, <2>3, <2>5
  <2>6. s.phase # "sea_passage" /\ s.phase \notin {"loading", "discharging"} /\ s.phase # "port_stay"
        /\ s.phase # "departure"
    BY <1>2
  <2> QED  BY <2>4, <2>5, <2>6 DEF t
<1>3. CASE s.phase \in {"loading", "discharging"}
  <2> DEFINE ended == s.operation > 95 \/ (s.operation = 95 /\ even)
  <2>1. t = CargoOps(s, even)
    BY <1>3 DEF VoyageStep
  <2>2. /\ t.leg = s.leg /\ t.operation = s.operation /\ t.running = FALSE
        /\ t.phase = (IF ended THEN "port_stay" ELSE s.phase)
        /\ t.port_timer = (IF ended THEN 0 ELSE s.port_timer)
    BY <2>1 DEF CargoOps, ShipType
  <2> QED  BY <1>0, <1>3, <2>2
<1>4. CASE s.phase = "port_stay"
  <2>1. t = InPort(s)
    BY <1>4 DEF VoyageStep
  <2>2. /\ t.leg = s.leg
        /\ t.phase = (IF s.port_timer + 1 >= PortStay THEN "departure" ELSE s.phase)
        /\ t.port_timer = (IF s.port_timer + 1 >= PortStay THEN 0 ELSE s.port_timer + 1)
    BY <2>1 DEF InPort, ShipType
  <2> QED  BY <1>0, <1>4, <2>2
<1>5. CASE s.phase = "departure"
  <2>1. t = Departing(s)
    BY <1>5 DEF VoyageStep
  <2>2. CASE s.port_timer + 1 < Departure
    <3>1. t = [s EXCEPT !.port_timer = @ + 1]
      BY <2>1, <2>2 DEF Departing
    <3>2. t.port_timer = s.port_timer + 1 /\ t.phase = s.phase /\ t.leg = s.leg
      BY <3>1 DEF ShipType
    <3> QED  BY <1>5, <2>2, <3>2
  <2>3. CASE ~(s.port_timer + 1 < Departure)
    <3>1. t = [s EXCEPT !.port_timer = 0, !.progress = 0, !.phase = "sea_passage",
                        !.leg = IF @ = "laden" THEN "ballast" ELSE "laden"]
      BY <2>1, <2>3 DEF Departing
    <3>2. /\ t.progress = 0 /\ t.phase = "sea_passage"
          /\ t.leg = (IF s.leg = "laden" THEN "ballast" ELSE "laden")
      BY <3>1 DEF ShipType
    <3> QED  BY <1>5, <2>3, <3>2
  <2> QED  BY <2>2, <2>3
<1> QED  BY <1>0, <1>1, <1>2, <1>3, <1>4, <1>5 DEF Phases

\* How long each phase may last.
LEMMA Lengths ==
  /\ Longest["sea_passage"] = Ceil(Route, Min(Speeds)) /\ Longest["arrival"] = Approach
  /\ Longest["discharging"] = Ceil(93, DischargeRate) + 1 /\ Longest["loading"] = LoadSteps + 1
  /\ Longest["port_stay"] = PortStay /\ Longest["departure"] = Departure
  BY DEF Longest, MaxFill, DischargeHeel

\* What one step of the discharge leaves: after n steps before it, the level is what n
\* steps have left, or below the heel of the discharge.
LEMMA UnloadArithmetic ==
  ASSUME NEW level \in 3..98, NEW n \in Nat, NEW rate \in Nat \ {0},
         level <= 98 - n * rate \/ level < 5
  PROVE  LET left == level - LeastOf(AboveZero(level - 5), rate)
         IN left \in 3..98 /\ 100 - left >= LeastOf(95, 2 + (n + 1) * rate)
<1>1. (n + 1) * rate = n * rate + rate /\ n * rate \in Nat
  OBVIOUS
<1> QED  BY <1>1 DEF LeastOf, AboveZero

\* What one step of the loading brings: n steps before it, each of which lost what a
\* tank may lose.
LEMMA LoadArithmetic ==
  ASSUME NEW level \in 3..98, NEW n \in Nat, NEW rate \in Nat \ {0}, NEW lost \in Nat,
         level >= 3 + n * rate - n * lost
  PROVE  LET full == level + LeastOf(AboveZero(98 - level), rate)
         IN full \in 3..98 /\ full >= LeastOf(98, 3 + (n + 1) * rate - n * lost)
<1> DEFINE full == level + LeastOf(AboveZero(98 - level), rate)
<1>1. full \in 3..98 /\ (full = 98 \/ full = level + rate)
  BY DEF LeastOf, AboveZero
<1>2. (n + 1) * rate = n * rate + rate /\ n * rate \in Nat /\ n * lost \in Nat
  OBVIOUS
<1> HIDE DEF full
<1>3. full >= LeastOf(98, 3 + (n + 1) * rate - n * lost)
  <2> DEFINE aim == 3 + n * rate - n * lost
  <2>1. aim \in Int /\ level >= aim /\ 3 + (n + 1) * rate - n * lost = aim + rate
    BY <1>2
  <2> HIDE DEF aim
  <2>2. full >= LeastOf(98, aim + rate)
    BY <1>1, <2>1 DEF LeastOf
  <2> QED  BY <2>1, <2>2
<1> QED  BY <1>1, <1>3 DEF full

\* A level that has lost no more than it may since the operation had its share.
LEMMA LossArithmetic ==
  ASSUME NEW level \in Int, NEW operation \in Int, NEW loss \in Int, NEW loaded \in Int, NEW lost \in Int,
         NEW more \in Int, operation - loss <= level, 3 + loaded - lost <= operation, more = lost + loss
  PROVE  level >= 3 + loaded - more
  OBVIOUS

\* A loading that is not over after LoadSteps steps would have lost more than it may.
LEMMA LoadingEnds ==
  ASSUME NEW k \in Nat, k < LoadSteps + 1, 3 + (k + 1) * LoadRate - k * Bearable <= 95
  PROVE  k + 1 < LoadSteps + 1
<1>1. /\ LoadRate \in Nat \ {0} /\ LoadSteps \in Nat \ {0} /\ 95 <= LoadSteps * LoadRate
      /\ LoadSteps * LoadRate \in Nat
  <2>1. LoadRate \in Nat \ {0} /\ 95 \in Nat /\ LoadSteps = Ceil(95, LoadRate)
    BY SimulatorAssumption DEF LoadSteps, MaxFill, HeelFraction
  <2>2. /\ Ceil(95, LoadRate) \in Nat /\ 95 <= Ceil(95, LoadRate) * LoadRate
        /\ 95 > 0 => Ceil(95, LoadRate) > 0
    BY <2>1, RoundedUp
  <2>3. LoadSteps \in Nat \ {0}
    BY <2>1, <2>2
  <2>4. 95 <= LoadSteps * LoadRate
    BY <2>1, <2>2
  <2>5. LoadSteps * LoadRate \in Nat
    BY <2>1, <2>3
  <2> QED  BY <2>1, <2>3, <2>4, <2>5
<1>2. Bearable \in Nat /\ LoadSteps * Bearable <= LoadRate + 2 /\ LoadSteps * Bearable \in Nat
  <2>1. \A n \in Nat, m \in Nat \ {0} : n \div m \in Nat /\ m * (n \div m) <= n /\ m * (n \div m) \in Nat
    OBVIOUS
  <2>2. LoadRate + 2 \in Nat
    BY <1>1
  <2> QED  BY <1>1, <2>1, <2>2 DEF Bearable
<1>3. SUFFICES ASSUME k = LoadSteps PROVE FALSE
  BY <1>1
<1>4. (LoadSteps + 1) * LoadRate = LoadSteps * LoadRate + LoadRate
  BY <1>1
<1> QED  BY <1>1, <1>2, <1>3, <1>4

\* What a step of the simulator changes of the course and of the level.
LEMMA StepCourse ==
  ASSUME SimInv, NEW speed \in Speeds, NEW even \in BOOLEAN, Step(speed, even)
  PROVE  LET a == VoyageStep(ship, speed, even)
             b == CargoStep(a)
         IN /\ SameCourse(a, ship') /\ ship'.operation = b.operation
            /\ a.level = ship.level /\ b.level \in 0..100 /\ ship'.level \in 0..100
            /\ a.phase = "loading" =>
                 /\ b.operation = b.level
                 /\ b.level = ship.level + LeastOf(AboveZero(98 - ship.level), LoadRate)
            /\ a.phase = "discharging" =>
                 /\ b.operation = 100 - b.level
                 /\ b.level = ship.level - LeastOf(AboveZero(ship.level - 5), DischargeRate)
            /\ a.phase \notin {"loading", "discharging"} => b.level = ship.level
            /\ 3 <= ship'.level /\ ship'.level <= b.level /\ (b.level > 3 => ship'.level < b.level)
            /\ a.phase = "loading" => b.level - Bearable <= ship'.level
            /\ since' = IF ship'.phase = ship.phase THEN since + 1 ELSE 0
<1> DEFINE a == VoyageStep(ship, speed, even)
           b == CargoStep(a)
           c == BogStep(b)
           d == EmissionsStep(UpdateAuxLoads(FuelStep(c)))
<1>1. ship \in ShipType /\ ship.level >= HeelFraction
  BY DEF SimInv, SimTypeOK
<1>2. a \in ShipType /\ a.level = ship.level
  BY <1>1, VoyageBook
<1>3. /\ b \in ShipType /\ b.level >= HeelFraction /\ SameCourse(a, b)
      /\ a.phase = "loading" =>
           /\ b.operation = b.level
           /\ b.level = ship.level + LeastOf(AboveZero(MaxFill - ship.level), LoadRate)
      /\ a.phase = "discharging" =>
           /\ b.operation = 100 - b.level
           /\ b.level = ship.level - LeastOf(AboveZero(ship.level - DischargeHeel), DischargeRate)
      /\ a.phase \notin {"loading", "discharging"} => b.level = ship.level
  <2> HIDE DEF a
  <2> QED  BY <1>1, <1>2, CargoBook
<1>4. /\ c \in ShipType /\ SameCourse(b, c) /\ c.operation = b.operation /\ c.level >= HeelFraction
      /\ ~c.running \/ c.on_mgo => c.to_engine = 0
      /\ c.level <= b.level /\ (b.level > HeelFraction => c.level < b.level)
      /\ \A most \in Nat : BoilOff[b.level] <= most /\ Wanted(b) <= most => b.level - most <= c.level
  <2> HIDE DEF b
  <2> QED  BY <1>3, BogBook
<1>5. d \in ShipType /\ d.level = c.level /\ d.operation = c.operation /\ SameCourse(c, d)
  <2> HIDE DEF c
  <2> QED  BY <1>4, FuelBook
<1>6. ship'.level = d.level /\ ship'.operation = d.operation /\ SameCourse(d, ship')
  <2>1. ship' = PortStep(d)
    BY DEF Step, Sailed
  <2> HIDE DEF d
  <2> QED  BY <1>5, <2>1, PortBook
<1>7. since' = IF ship'.phase = ship.phase THEN since + 1 ELSE 0
  BY DEF Step
<1> HIDE DEF a, b, c, d
<1>8. SameCourse(a, ship') /\ ship'.operation = b.operation /\ ship'.level = c.level
  BY <1>3, <1>4, <1>5, <1>6 DEF SameCourse
<1>9. b.level \in 0..100 /\ c.level \in 0..100
  BY <1>3, <1>4, Fields
<1>10. ASSUME a.phase = "loading" PROVE b.level - Bearable <= c.level
  <2>1. b.phase = "loading" /\ Demand["loading"] \in Nat /\ BoilOff[b.level] \in Nat
    BY <1>3, <1>9, <1>10, SimulatorAssumption DEF SameCourse, Phases
  <2>2. Demand["loading"] <= Bearable /\ BoilOff[b.level] <= Bearable
    BY <1>9, LoadingAssumption
  <2>3. Bearable \in Int
    <3>1. LoadRate \in Nat \ {0} /\ 95 \in Nat /\ LoadSteps = Ceil(95, LoadRate)
      BY SimulatorAssumption DEF LoadSteps, MaxFill, HeelFraction
    <3>2. LoadSteps \in Nat \ {0}
      BY <3>1, RoundedUp
    <3> QED  BY <3>1, <3>2 DEF Bearable
  <2>4. Wanted(b) <= Bearable /\ Bearable \in Nat
    BY <2>1, <2>2, <2>3 DEF Wanted
  <2> QED  BY <1>4, <2>2, <2>4
<1> QED  BY <1>2, <1>3, <1>4, <1>7, <1>8, <1>9, <1>10 DEF a, b, MaxFill, DischargeHeel, HeelFraction

\* What the invariant says of the vessel before a step, in the terms of the arithmetic.
LEMMA VoyageFacts ==
  ASSUME SimInv, VoyageInv
  PROVE  /\ ship.level \in 3..98 /\ ship.operation \in 0..100 /\ since \in Nat
         /\ ship.progress \in Nat /\ ship.port_timer \in Nat
         /\ ship.phase \in Phases /\ ship.leg \in {"laden", "ballast"}
<1>1. ship \in ShipType /\ since \in Nat
  BY DEF SimInv, SimTypeOK
<1>2. ship.level \in 0..100 /\ HeelFraction <= ship.level /\ ship.level <= MaxFill
  BY <1>1, Fields DEF VoyageInv
<1> QED  BY <1>1, <1>2, Fields DEF HeelFraction, MaxFill

\* The level and the progress of the cargo, kept by every step.
LEMMA CargoInductive ==
  ASSUME SimInv, VoyageInv, NEW speed \in Speeds, NEW even \in BOOLEAN, Step(speed, even)
  PROVE  /\ (HeelFraction <= ship.level /\ ship.level <= MaxFill)'
         /\ CargoLeaves' /\ CargoArrives'
<1> DEFINE a == VoyageStep(ship, speed, even)
           b == CargoStep(a)
<1>1. /\ SameCourse(a, ship') /\ ship'.operation = b.operation
      /\ b.level \in 0..100 /\ ship'.level \in 0..100
      /\ a.phase = "loading" =>
           /\ b.operation = b.level
           /\ b.level = ship.level + LeastOf(AboveZero(98 - ship.level), LoadRate)
      /\ a.phase = "discharging" =>
           /\ b.operation = 100 - b.level
           /\ b.level = ship.level - LeastOf(AboveZero(ship.level - 5), DischargeRate)
      /\ a.phase \notin {"loading", "discharging"} => b.level = ship.level
      /\ 3 <= ship'.level /\ ship'.level <= b.level /\ (b.level > 3 => ship'.level < b.level)
      /\ a.phase = "loading" => b.level - Bearable <= ship'.level
      /\ since' = IF ship'.phase = ship.phase THEN since + 1 ELSE 0
  BY StepCourse
<1>2. /\ ship.phase = "sea_passage" => a.phase \in {"sea_passage", "arrival"}
      /\ ship.phase \in {"loading", "discharging"} =>
           (a.phase = ship.phase /\ ship.operation <= 95) \/ a.phase = "port_stay"
      /\ ship.phase \in {"port_stay", "departure"} =>
           a.phase \in {"port_stay", "departure", "sea_passage"}
  <2>1. ship \in ShipType
    BY DEF SimInv, SimTypeOK
  <2> HIDE DEF a
  <2> QED  BY <2>1, VoyageCourse DEF a
<1> HIDE DEF a, b
<1>3. ship'.phase = a.phase
  BY <1>1 DEF SameCourse
<1>4. /\ ship.level \in 3..98 /\ ship.operation \in 0..100 /\ since \in Nat /\ since' \in Nat
      /\ ship.phase \in Phases
  BY <1>1, VoyageFacts
<1>5. DischargeRate \in Nat \ {0} /\ LoadRate \in Nat \ {0} /\ LoadSteps \in Nat \ {0} /\ Bearable \in Nat
  <2>1. LoadRate \in Nat \ {0} /\ DischargeRate \in Nat \ {0} /\ 95 \in Nat /\ LoadSteps = Ceil(95, LoadRate)
    BY SimulatorAssumption DEF LoadSteps, MaxFill, HeelFraction
  <2>2. LoadSteps \in Nat \ {0}
    BY <2>1, RoundedUp
  <2> QED  BY <2>1, <2>2 DEF Bearable
<1> DEFINE D == Ceil(93, DischargeRate)
<1>6. /\ D \in Nat \ {0} /\ Longest.discharging = D + 1 /\ Longest.loading = LoadSteps + 1
      /\ \A k \in Nat : k * DischargeRate < 93 => k < D
  <2>1. D \in Nat \ {0} /\ \A k \in Nat : k * DischargeRate < 93 => k < D
    BY <1>5, RoundedUp
  <2> QED  BY <2>1, Lengths
<1> HIDE DEF D
<1>7. ASSUME a.phase = "discharging" PROVE CargoLeaves' /\ ship'.level <= MaxFill
  <2>1. /\ since' < D + 1 /\ (ship.level <= 98 - since' * DischargeRate \/ ship.level < 5)
        /\ since' = D => ship.level < 5
    <3>1. CASE ship.phase = "discharging"
      <4>1. /\ ship.level <= 100 - ship.operation
            /\ ship.operation >= LeastOf(95, 2 + (since + 1) * DischargeRate)
            /\ ship.operation >= 95 => ship.level < 5
            /\ since < D + 1 /\ (since = D => ship.operation > 95)
        <5>1. /\ ship.operation >= LeastOf(95, 100 - 98 + (since + 1) * DischargeRate)
              /\ since = (D + 1) - 1 => ship.operation > 95
              /\ since < D + 1 /\ (ship.operation >= 95 => ship.level < 5)
              /\ ship.level <= 100 - ship.operation
          BY <1>6, <3>1 DEF VoyageInv, CargoLeaves, MaxFill, DischargeHeel
        <5>2. 100 - 98 = 2 /\ (D + 1) - 1 = D
          BY <1>6
        <5> QED  BY <5>1, <5>2
      <4>2. since' = since + 1 /\ ship.operation <= 95
        BY <1>1, <1>2, <1>3, <1>7, <3>1
      <4>3. CASE ship.operation = 95
        BY <1>4, <1>6, <4>1, <4>2, <4>3
      <4>4. CASE ship.operation < 95
        <5>1. (since + 1) * DischargeRate \in Nat
          BY <1>4, <1>5
        <5>2. ship.operation >= 2 + (since + 1) * DischargeRate
          BY <1>4, <4>1, <4>4, <5>1 DEF LeastOf
        <5>3. since + 1 < D
          BY <1>4, <1>6, <4>4, <5>1, <5>2
        <5> QED  BY <1>4, <1>6, <4>1, <4>2, <5>1, <5>2, <5>3
      <4> QED  BY <1>4, <4>2, <4>3, <4>4
    <3>2. CASE ship.phase # "discharging"
      <4>1. since' = 0 /\ 0 * DischargeRate = 0
        BY <1>1, <1>3, <1>5, <1>7, <3>2
      <4> QED  BY <1>4, <1>6, <4>1
    <3> QED  BY <3>1, <3>2
  <2>2. b.level \in 3..98 /\ 100 - b.level >= LeastOf(95, 2 + (since' + 1) * DischargeRate)
    <3> DEFINE left == ship.level - LeastOf(AboveZero(ship.level - 5), DischargeRate)
    <3>1. since' \in Nat /\ (ship.level <= 98 - since' * DischargeRate \/ ship.level < 5)
      BY <1>4, <2>1
    <3>2. left \in 3..98 /\ 100 - left >= LeastOf(95, 2 + (since' + 1) * DischargeRate)
      BY <1>4, <1>5, <3>1, UnloadArithmetic
    <3>3. b.level = left
      BY <1>1, <1>7
    <3> HIDE DEF left
    <3> QED  BY <3>2, <3>3
  <2>3. ship'.operation = 100 - b.level /\ ship'.level <= b.level
    BY <1>1, <1>7
  <2>4. (ship'.operation >= 95 => ship'.level < 5) /\ (since' = D => ship'.operation > 95)
    <3>1. ship.level < 5 => b.level < 5
      BY <1>1, <1>4, <1>5, <1>7 DEF LeastOf, AboveZero
    <3> QED  BY <1>1, <2>1, <2>2, <2>3, <3>1
  <2>5. ship'.level <= 100 - ship'.operation /\ ship'.level <= 98
    BY <1>1, <2>2, <2>3
  <2>6. 100 - MaxFill = 2 /\ Longest.discharging - 1 = D
    BY <1>6 DEF MaxFill
  <2> QED  BY <1>6, <2>1, <2>2, <2>3, <2>4, <2>5, <2>6 DEF CargoLeaves, MaxFill, DischargeHeel
<1>8. ASSUME a.phase = "loading" PROVE CargoArrives' /\ ship'.level <= MaxFill
  <2>1. since' < LoadSteps + 1 /\ ship.level >= 3 + since' * LoadRate - since' * Bearable
    <3>1. CASE ship.phase = "loading"
      <4>1. /\ ship.operation - Bearable <= ship.level /\ since < LoadSteps + 1
            /\ ship.operation >= LeastOf(98, 3 + (since + 1) * LoadRate - since * Bearable)
        BY <1>6, <3>1 DEF VoyageInv, CargoArrives, MaxFill, HeelFraction
      <4>2. since' = since + 1 /\ ship.operation <= 95
        BY <1>1, <1>2, <1>3, <1>8, <3>1
      <4>3. /\ (since + 1) * LoadRate \in Nat /\ since * Bearable \in Nat
            /\ (since + 1) * Bearable = since * Bearable + Bearable
        BY <1>4, <1>5
      <4>4. 3 + (since + 1) * LoadRate - since * Bearable <= ship.operation
        BY <1>4, <4>1, <4>2, <4>3 DEF LeastOf
      <4>5. since + 1 < LoadSteps + 1
        BY <1>4, <4>1, <4>2, <4>3, <4>4, LoadingEnds
      <4>6. ship.level >= 3 + (since + 1) * LoadRate - (since + 1) * Bearable
        <5>1. /\ ship.level \in Int /\ ship.operation \in Int /\ Bearable \in Int
              /\ (since + 1) * LoadRate \in Int /\ since * Bearable \in Int
              /\ (since + 1) * Bearable \in Int /\ ship.operation - Bearable <= ship.level
          BY <1>4, <1>5, <4>1
        <5> QED  BY <4>3, <4>4, <5>1, LossArithmetic
      <4> QED  BY <4>2, <4>5, <4>6
    <3>2. CASE ship.phase # "loading"
      <4>1. since' = 0 /\ 0 * LoadRate = 0 /\ 0 * Bearable = 0
        BY <1>1, <1>3, <1>5, <1>8, <3>2
      <4> QED  BY <1>4, <1>5, <4>1
    <3> QED  BY <3>1, <3>2
  <2>2. b.level \in 3..98 /\ b.level >= LeastOf(98, 3 + (since' + 1) * LoadRate - since' * Bearable)
    <3> DEFINE full == ship.level + LeastOf(AboveZero(98 - ship.level), LoadRate)
    <3>1. full \in 3..98 /\ full >= LeastOf(98, 3 + (since' + 1) * LoadRate - since' * Bearable)
      <4>1. since' \in Nat /\ ship.level >= 3 + since' * LoadRate - since' * Bearable
        BY <1>4, <2>1
      <4> QED  BY <1>4, <1>5, <4>1, LoadArithmetic
    <3>2. b.level = full
      BY <1>1, <1>8
    <3> HIDE DEF full
    <3> QED  BY <3>1, <3>2
  <2>3. ship'.operation = b.level /\ ship'.level <= b.level /\ b.level - Bearable <= ship'.level
    BY <1>1, <1>8
  <2>4. ship'.level <= 98
    BY <1>1, <2>2, <2>3
  <2> QED  BY <1>6, <2>1, <2>2, <2>3, <2>4 DEF CargoArrives, MaxFill, HeelFraction
<1>9. ASSUME a.phase \notin {"loading", "discharging"} PROVE ship'.level <= MaxFill
  BY <1>1, <1>4, <1>9 DEF MaxFill
<1>10. (a.phase # "discharging" => CargoLeaves') /\ (a.phase # "loading" => CargoArrives')
  BY <1>3 DEF CargoLeaves, CargoArrives
<1> QED  BY <1>1, <1>7, <1>8, <1>9, <1>10 DEF HeelFraction

\* The way, the timers and the load of each leg, kept by every step.
LEMMA CourseInductive ==
  ASSUME SimInv, VoyageInv, NEW speed \in Speeds, NEW even \in BOOLEAN, Step(speed, even)
  PROVE  PassageAdvances' /\ TimerCounts' /\ LoadFitsLeg'
<1> DEFINE a == VoyageStep(ship, speed, even)
           b == CargoStep(a)
<1>1. /\ SameCourse(a, ship') /\ ship'.level <= b.level /\ b.level \in 0..100 /\ ship'.level \in 0..100
      /\ a.phase \notin {"loading", "discharging"} => b.level = ship.level
      /\ since' = IF ship'.phase = ship.phase THEN since + 1 ELSE 0
  BY StepCourse
<1>2. /\ ship.phase # "departure" => a.leg = ship.leg
      /\ ship.phase = "sea_passage" =>
           IF ship.progress + speed >= Route THEN a.phase = "arrival" /\ a.port_timer = 0
           ELSE a.phase = ship.phase /\ a.progress = ship.progress + speed
      /\ ship.phase = "arrival" =>
           IF ship.port_timer + 1 < Approach
           THEN a.phase = ship.phase /\ a.port_timer = ship.port_timer + 1
           ELSE a.phase = (IF ship.leg = "laden" THEN "discharging" ELSE "loading")
      /\ ship.phase \in {"loading", "discharging"} =>
           \/ a.phase = ship.phase
           \/ a.phase = "port_stay" /\ a.port_timer = 0 /\ ship.operation >= 95
      /\ ship.phase = "port_stay" =>
           IF ship.port_timer + 1 < PortStay
           THEN a.phase = ship.phase /\ a.port_timer = ship.port_timer + 1
           ELSE a.phase = "departure" /\ a.port_timer = 0
      /\ ship.phase = "departure" =>
           IF ship.port_timer + 1 < Departure
           THEN a.phase = ship.phase /\ a.port_timer = ship.port_timer + 1 /\ a.leg = ship.leg
           ELSE /\ a.phase = "sea_passage" /\ a.progress = 0
                /\ a.leg = (IF ship.leg = "laden" THEN "ballast" ELSE "laden")
  <2>1. ship \in ShipType
    BY DEF SimInv, SimTypeOK
  <2> HIDE DEF a
  <2> QED  BY <2>1, VoyageCourse DEF a
<1> HIDE DEF a, b
<1>3. /\ ship'.phase = a.phase /\ ship'.leg = a.leg /\ ship'.progress = a.progress
      /\ ship'.port_timer = a.port_timer
  BY <1>1 DEF SameCourse
<1>4. /\ ship.level \in 3..98 /\ ship.operation \in 0..100 /\ since \in Nat
      /\ ship.progress \in Nat /\ ship.port_timer \in Nat
      /\ ship.phase \in Phases /\ ship.leg \in {"laden", "ballast"}
  BY VoyageFacts
<1>5. /\ Approach \in Nat \ {0} /\ PortStay \in Nat \ {0} /\ Departure \in Nat \ {0}
      /\ Route \in Nat \ {0} /\ speed \in Nat \ {0}
  BY SimulatorAssumption
<1>6. PassageAdvances'
  <2>1. SUFFICES ASSUME a.phase = "sea_passage"
                 PROVE  since' * Min(Speeds) <= a.progress /\ a.progress < Route
    BY <1>3 DEF PassageAdvances
  <2>2. Min(Speeds) \in Nat \ {0} /\ Min(Speeds) <= speed
    BY SlowestSpeed
  <2>3. CASE ship.phase = "sea_passage"
    <3>1. /\ ship.progress + speed < Route /\ a.progress = ship.progress + speed /\ since' = since + 1
      BY <1>1, <1>2, <1>3, <1>4, <1>5, <2>1, <2>3
    <3>2. since * Min(Speeds) <= ship.progress
      BY <2>3 DEF VoyageInv, PassageAdvances
    <3>3. (since + 1) * Min(Speeds) = since * Min(Speeds) + Min(Speeds) /\ since * Min(Speeds) \in Nat
      BY <1>4, <2>2
    <3>4. (since + 1) * Min(Speeds) <= ship.progress + speed
      BY <1>4, <1>5, <2>2, <3>2, <3>3
    <3> QED  BY <3>1, <3>4
  <2>4. CASE ship.phase # "sea_passage"
    <3>1. since' = 0 /\ a.progress = 0
      BY <1>1, <1>2, <1>3, <1>4, <2>1, <2>4 DEF Phases
    <3>2. 0 * Min(Speeds) = 0
      BY <2>2
    <3> QED  BY <1>5, <3>1, <3>2
  <2> QED  BY <2>3, <2>4
<1>7. TimerCounts'
  <2>1. ship.phase \in {"arrival", "port_stay", "departure"} => ship.port_timer = since
    BY DEF VoyageInv, TimerCounts
  <2>2. ASSUME a.phase = "arrival" PROVE a.port_timer = since' /\ since' < Approach
    BY <1>1, <1>2, <1>3, <1>4, <1>5, <2>1, <2>2 DEF Phases
  <2>3. ASSUME a.phase = "port_stay" PROVE a.port_timer = since' /\ since' < PortStay
    BY <1>1, <1>2, <1>3, <1>4, <1>5, <2>1, <2>3 DEF Phases
  <2>4. ASSUME a.phase = "departure" PROVE a.port_timer = since' /\ since' < Departure
    BY <1>1, <1>2, <1>3, <1>4, <1>5, <2>1, <2>4 DEF Phases
  <2> QED  BY <1>3, <2>2, <2>3, <2>4, Lengths DEF TimerCounts
<1>8. LoadFitsLeg'
  <2>1. /\ ship.phase = "discharging" => ship.leg = "laden"
        /\ ship.phase = "loading" => ship.leg = "ballast"
        /\ ship.leg = "ballast" /\ ship.phase \in {"sea_passage", "arrival"} => ship.level <= 5
        /\ ship.leg = "laden" /\ ship.phase \in {"port_stay", "departure"} => ship.level <= 5
        /\ ship.phase = "discharging" /\ ship.operation >= 95 => ship.level < 5
    BY DEF VoyageInv, LoadFitsLeg, CargoLeaves, DischargeHeel
  <2>2. a.phase \notin {"loading", "discharging"} => ship'.level <= ship.level
    BY <1>1
  <2>3. (a.phase = "discharging" => a.leg = "laden") /\ (a.phase = "loading" => a.leg = "ballast")
    BY <1>2, <1>4, <2>1 DEF Phases
  <2>4. ASSUME a.phase \in {"sea_passage", "arrival", "port_stay", "departure"},
               a.leg = "ballast" <=> a.phase \in {"sea_passage", "arrival"}
        PROVE  ship.level <= 5
    BY <1>2, <1>4, <2>1, <2>4 DEF Phases
  <2>5. a.phase \in Phases /\ a.leg \in {"laden", "ballast"}
    BY <1>2, <1>4 DEF Phases
  <2> QED  BY <1>1, <1>3, <1>4, <2>2, <2>3, <2>4, <2>5 DEF LoadFitsLeg, DischargeHeel, Phases
<1> QED  BY <1>6, <1>7, <1>8

\* A vessel at the start of a run has its first passage before it.
LEMMA FreshVoyage ==
  ASSUME NEW s, s = NewShip
  PROVE  /\ s.level = 95 /\ s.phase = "sea_passage" /\ s.leg = "laden" /\ s.progress = 0
         /\ 0 * Min(Speeds) = 0 /\ 0 < Route
<1>1. Min(Speeds) \in Nat /\ Route \in Nat \ {0}
  BY SlowestSpeed, SimulatorAssumption
<1> QED  BY <1>1 DEF NewShip, InitialFill

\* The invariant of the voyage is inductive.
LEMMA VoyageInductive ==
  /\ SimInit => VoyageInv
  /\ SimInv /\ VoyageInv /\ [SimNext]_simVars => VoyageInv'
<1>1. ASSUME SimInit PROVE VoyageInv
  BY <1>1, FreshVoyage DEF SimInit, VoyageInv, PassageAdvances, TimerCounts, CargoLeaves, CargoArrives,
     LoadFitsLeg, HeelFraction, MaxFill
<1>2. ASSUME SimInv, VoyageInv, [SimNext]_simVars PROVE VoyageInv'
  <2>1. ASSUME UNCHANGED <<ship, since>> PROVE VoyageInv'
    BY <1>2, <2>1 DEF VoyageInv, PassageAdvances, TimerCounts, CargoLeaves, CargoArrives, LoadFitsLeg
  <2>2. CASE Restart
    <3>1. ship' = NewShip /\ since' = 0
      BY <2>2 DEF Restart
    <3> QED  BY <3>1, FreshVoyage DEF VoyageInv, PassageAdvances, TimerCounts, CargoLeaves,
             CargoArrives, LoadFitsLeg, HeelFraction, MaxFill
  <2>3. ASSUME NEW speed \in Speeds, NEW even \in BOOLEAN, Step(speed, even) PROVE VoyageInv'
    BY <1>2, <2>3, CargoInductive, CourseInductive DEF VoyageInv
  <2> QED  BY <1>2, <2>1, <2>2, <2>3 DEF SimNext, simVars, Finish, Interrupt
<1> QED  BY <1>1, <1>2

\* No phase keeps a vessel longer than its length says, and the load fits the leg.
LEMMA InvariantBounds == SimInv /\ VoyageInv => VoyagesGoOn
<1> SUFFICES ASSUME SimInv, VoyageInv PROVE VoyagesGoOn
  OBVIOUS
<1>1. /\ ship.level \in 3..98 /\ since \in Nat /\ ship.phase \in Phases /\ ship.progress \in Nat
  BY VoyageFacts
<1>2. ASSUME ship.phase = "sea_passage" PROVE since < Longest[ship.phase]
  <2>1. Min(Speeds) \in Nat \ {0} /\ Route \in Nat
    BY SlowestSpeed, SimulatorAssumption
  <2>2. since * Min(Speeds) <= ship.progress /\ ship.progress < Route
    BY <1>2 DEF VoyageInv, PassageAdvances
  <2>3. since * Min(Speeds) < Route
    BY <1>1, <2>1, <2>2
  <2>4. since < Ceil(Route, Min(Speeds))
    BY <1>1, <2>1, <2>3, RoundedUp
  <2> QED  BY <1>2, <2>4, Lengths
<1>3. ASSUME ship.phase \in {"arrival", "port_stay", "departure"} PROVE since < Longest[ship.phase]
  BY <1>3 DEF VoyageInv, TimerCounts
<1>4. ASSUME ship.phase \in {"discharging", "loading"} PROVE since < Longest[ship.phase]
  BY <1>4 DEF VoyageInv, CargoLeaves, CargoArrives
<1>5. since < Longest[ship.phase]
  BY <1>1, <1>2, <1>3, <1>4 DEF Phases
<1> QED  BY <1>5 DEF VoyageInv, LoadFitsLeg, VoyagesGoOn

\* Every phase of every voyage ends, as soon as its route, its timers and its rates say,
\* and a vessel carries what its leg needs: laden to the discharge, no more than the heel
\* back.
THEOREM VoyagesAlwaysGoOn == SimSpec => []VoyagesGoOn
  BY SimInductive, VoyageInductive, InvariantBounds, PTL DEF SimSpec

-----------------------------------------------------------------------------
(* What the aggregates keep of a voyage.                                   *)

\* The greatest of a set of numbers is what no other exceeds; likewise the least.
LEMMA Extremes ==
  ASSUME NEW S, S \subseteq Int
  PROVE  /\ \A x \in S : (\A y \in S : y <= x) => Max(S) = x
         /\ \A x \in S : (\A y \in S : x <= y) => Min(S) = x
<1>1. ASSUME NEW x \in S, \A y \in S : y <= x PROVE Max(S) = x
  <2>1. \A y \in S : x >= y
    BY <1>1
  <2>2. \A z \in S : (\A y \in S : z >= y) => z = x
    BY <1>1
  <2> QED  BY <2>1, <2>2 DEF Max
<1>2. ASSUME NEW x \in S, \A y \in S : x <= y PROVE Min(S) = x
  <2>1. \A z \in S : (\A y \in S : z <= y) => z = x
    BY <1>2
  <2> QED  BY <1>2, <2>1 DEF Min
<1> QED  BY <1>1, <1>2

\* No weather makes more way than the fastest.
LEMMA FastestSpeed ==
  Max(Speeds) \in Nat /\ \A speed \in Speeds : speed <= Max(Speeds)
<1>1. Speeds \subseteq Nat /\ Speeds \subseteq Int /\ Speeds # {} /\ IsFiniteSet(Speeds)
  <2>1. Speeds \subseteq Nat \ {0} /\ Speeds # {} /\ IsFiniteSet(Speeds)
    BY SimulatorAssumption, Zenon
  <2> QED  BY <2>1
<1>2. PICK s \in Seq(Speeds) : \A x \in Speeds : \E k \in 1..Len(s) : s[k] = x
  BY <1>1, Listed
<1>3. \A x \in Speeds : x <= Total(s)
  <2>1. s \in Seq(Nat)
    BY <1>1, SeqMonotonic
  <2>2. ASSUME NEW x \in Speeds PROVE x <= Total(s)
    <3>1. PICK k \in 1..Len(s) : s[k] = x
      BY <1>2
    <3>2. s[k] <= Total(s)
      BY <2>1, RowAtMostTotal
    <3> QED  BY <3>1, <3>2
  <2> QED  BY <2>2
<1>4. Total(s) \in Nat
  <2>1. s \in Seq(Nat)
    BY <1>1, SeqMonotonic
  <2> QED  BY <2>1, TotalIsNat
<1>5. PICK fastest \in Speeds : \A y \in Speeds : y <= fastest
  BY <1>1, <1>3, <1>4, Greatest
<1>6. Max(Speeds) = fastest
  BY <1>1, <1>5, Extremes
<1> QED  BY <1>1, <1>5, <1>6

\* A step adds the miles of its weather to the counter, or none.
LEMMA VoyageOdometer ==
  ASSUME NEW s \in ShipType, NEW speed \in Speeds, NEW even \in BOOLEAN
  PROVE  VoyageStep(s, speed, even).sailed \in {s.sailed, s.sailed + speed}
<1> DEFINE t == VoyageStep(s, speed, even)
<1>1. CASE s.phase = "sea_passage"
  <2>1. t = SeaPassage(s, speed)
    BY <1>1 DEF VoyageStep
  <2> HIDE DEF t
  <2>2. t.sailed = s.sailed + speed
    BY <2>1 DEF SeaPassage, ShipType
  <2> QED  BY <2>2 DEF t
<1>2. CASE s.phase = "arrival"
  <2>1. t = Arrival(s)
    BY <1>2 DEF VoyageStep
  <2> HIDE DEF t
  <2>2. t.sailed = s.sailed
    BY <2>1 DEF Arrival, ShipType
  <2> QED  BY <2>2 DEF t
<1>3. CASE s.phase \in {"loading", "discharging"}
  <2>1. t = CargoOps(s, even)
    BY <1>3 DEF VoyageStep
  <2> HIDE DEF t
  <2>2. t.sailed = s.sailed
    BY <2>1 DEF CargoOps, ShipType
  <2> QED  BY <2>2 DEF t
<1>4. CASE s.phase = "port_stay"
  <2>1. t = InPort(s)
    BY <1>4 DEF VoyageStep
  <2> HIDE DEF t
  <2>2. t.sailed = s.sailed
    BY <2>1 DEF InPort, ShipType
  <2> QED  BY <2>2 DEF t
<1>5. CASE s.phase = "departure"
  <2>1. t = Departing(s)
    BY <1>5 DEF VoyageStep
  <2> HIDE DEF t
  <2>2. t.sailed = s.sailed
    BY <2>1 DEF Departing, ShipType
  <2> QED  BY <2>2 DEF t
<1> QED  BY <1>1, <1>2, <1>3, <1>4, <1>5, Fields DEF Phases

\* So does the whole step: no other generator touches the counter.
LEMMA StepOdometer ==
  ASSUME SimInv, NEW speed \in Speeds, NEW even \in BOOLEAN, Step(speed, even)
  PROVE  /\ ship.sailed \in Nat /\ ship'.sailed \in Nat
         /\ ship.sailed <= ship'.sailed /\ ship'.sailed <= ship.sailed + Max(Speeds)
<1> DEFINE a == VoyageStep(ship, speed, even)
           b == CargoStep(a)
           c == BogStep(b)
           d == EmissionsStep(UpdateAuxLoads(FuelStep(c)))
<1>1. ship \in ShipType /\ ship.level >= HeelFraction
  BY DEF SimInv, SimTypeOK
<1>2. a \in ShipType /\ a.level = ship.level /\ a.sailed \in {ship.sailed, ship.sailed + speed}
  BY <1>1, VoyageBook, VoyageOdometer
<1>3. b \in ShipType /\ b.level >= HeelFraction /\ b.sailed = a.sailed
  <2> HIDE DEF a
  <2> QED  BY <1>1, <1>2, CargoBook DEF SameCourse
<1>4. /\ c \in ShipType /\ c.sailed = b.sailed
      /\ ~c.running \/ c.on_mgo => c.to_engine = 0
  <2> HIDE DEF b
  <2> QED  BY <1>3, BogBook DEF SameCourse
<1>5. d \in ShipType /\ d.sailed = c.sailed
  <2> HIDE DEF c
  <2> QED  BY <1>4, FuelBook DEF SameCourse
<1>6. ship'.sailed = d.sailed
  <2>1. ship' = PortStep(d)
    BY DEF Step, Sailed
  <2> HIDE DEF d
  <2> QED  BY <1>5, <2>1, PortBook DEF SameCourse
<1> HIDE DEF a, b, c, d
<1>7. ship'.sailed \in {ship.sailed, ship.sailed + speed}
  BY <1>2, <1>3, <1>4, <1>5, <1>6
<1>8. ship.sailed \in Nat
  BY <1>1, Fields
<1>9. speed \in Nat /\ speed <= Max(Speeds) /\ Max(Speeds) \in Nat
  BY FastestSpeed, SimulatorAssumption
<1> QED  BY <1>7, <1>8, <1>9

\* A log with the row of the next step is a log.
LEMMA LogGrows ==
  ASSUME NEW rows \in Seq(RowType), NEW row \in RowType, IsLog(rows), row.at = Len(rows),
         Len(rows) > 0 => /\ rows[Len(rows)].sailed <= row.sailed
                          /\ row.sailed <= rows[Len(rows)].sailed + Max(Speeds)
  PROVE  IsLog(Append(rows, row))
<1> DEFINE n == Len(rows)
           longer == Append(rows, row)
<1>1. n \in Nat /\ DOMAIN rows = 1..n
  BY LenProperties
<1>2. /\ longer \in Seq(RowType) /\ Len(longer) = n + 1
      /\ \A i \in 1..n : longer[i] = rows[i]
      /\ longer[n + 1] = row
  BY AppendProperties
<1>3. DOMAIN longer = 1..(n + 1)
  BY <1>2, LenProperties
<1> HIDE DEF longer
<1>4. ASSUME NEW i \in 1..(n + 1)
      PROVE  /\ longer[i].at = i - 1
             /\ i > 1 => /\ longer[i - 1].sailed <= longer[i].sailed
                         /\ longer[i].sailed <= longer[i - 1].sailed + Max(Speeds)
  <2>1. CASE i \in 1..n
    <3>1. longer[i] = rows[i] /\ (i > 1 => i - 1 \in 1..n /\ longer[i - 1] = rows[i - 1])
      BY <1>1, <1>2, <2>1
    <3>2. /\ rows[i].at = i - 1
          /\ i > 1 => /\ rows[i - 1].sailed <= rows[i].sailed
                      /\ rows[i].sailed <= rows[i - 1].sailed + Max(Speeds)
      BY <1>1, <2>1 DEF IsLog
    <3> QED  BY <3>1, <3>2
  <2>2. CASE i = n + 1
    <3>1. longer[i] = row /\ (i > 1 => i - 1 = n /\ n \in 1..n /\ longer[i - 1] = rows[n])
      BY <1>1, <1>2, <2>2
    <3>2. row.at = i - 1
      BY <1>1, <2>2
    <3>3. i > 1 => n > 0
      BY <1>1, <2>2
    <3> QED  BY <3>1, <3>2, <3>3
  <2> QED  BY <1>1, <2>1, <2>2
<1> QED  BY <1>3, <1>4 DEF IsLog, longer

\* The rows of a log that have been written are one.
LEMMA LogBegins ==
  ASSUME NEW rows \in Seq(RowType), NEW held \in Seq(RowType), IsLog(rows \o held)
  PROVE  IsLog(rows)
<1> DEFINE n == Len(rows)
           log == rows \o held
<1>1. n \in Nat /\ DOMAIN rows = 1..n /\ Len(held) \in Nat
  BY LenProperties
<1>2. /\ log \in Seq(RowType) /\ Len(log) = n + Len(held)
      /\ \A i \in 1..n : log[i] = rows[i]
  <2>1. /\ log \in Seq(RowType) /\ Len(log) = n + Len(held)
        /\ \A i \in 1..n + Len(held) : log[i] = IF i <= n THEN rows[i] ELSE held[i - n]
    BY ConcatProperties
  <2> QED  BY <1>1, <2>1
<1>3. \A i \in 1..n : i \in DOMAIN log
  <2>1. DOMAIN log = 1..(n + Len(held))
    BY <1>2, LenProperties
  <2> QED  BY <1>1, <2>1
<1> HIDE DEF log
<1>4. ASSUME NEW i \in 1..n
      PROVE  /\ rows[i].at = i - 1
             /\ i > 1 => /\ rows[i - 1].sailed <= rows[i].sailed
                         /\ rows[i].sailed <= rows[i - 1].sailed + Max(Speeds)
  <2>1. log[i] = rows[i] /\ (i > 1 => i - 1 \in 1..n /\ log[i - 1] = rows[i - 1])
    <3>1. n \in Nat /\ \A j \in 1..n : j \in 1..(n + Len(held))
      BY <1>1
    <3>2. \A j \in 1..n : log[j] = rows[j]
      BY <1>2, <3>1
    <3> QED  BY <3>1, <3>2
  <2>2. /\ log[i].at = i - 1
        /\ i > 1 => /\ log[i - 1].sailed <= log[i].sailed
                    /\ log[i].sailed <= log[i - 1].sailed + Max(Speeds)
    <3>1. IsLog(log) /\ i \in DOMAIN log
      BY <1>3 DEF log
    <3> QED  BY <3>1 DEF IsLog
  <2> QED  BY <2>1, <2>2
<1> QED  BY <1>1, <1>4 DEF IsLog

\* What the last table of a program that runs is followed by in the buffer.
Log == raw[Len(raw)] \o buffer

\* A step adds its row to the log, whether or not it writes the buffer.
LEMMA StepLogs ==
  ASSUME SimInv, NEW speed \in Speeds, NEW even \in BOOLEAN, Step(speed, even)
  PROVE  /\ Log' = Append(Log, [at |-> clock, sailed |-> ship'.sailed])
         /\ Len(raw') = Len(raw) /\ DOMAIN raw' = DOMAIN raw
         /\ \A run \in DOMAIN raw : run # Len(raw) => raw'[run] = raw[run]
         /\ raw'[Len(raw)] \in Seq(RowType) /\ buffer' \in Seq(RowType)
<1> DEFINE row == [at |-> clock, sailed |-> ship'.sailed]
           rows == Append(buffer, row)
           last == raw[Len(raw)]
<1>1. /\ buffer \in Seq(RowType) /\ raw \in Seq(Seq(RowType)) /\ Len(raw) \in 1..Len(raw)
      /\ DOMAIN raw = 1..Len(raw) /\ last \in Seq(RowType)
  <2>1. /\ buffer \in Seq(RowType) /\ raw \in Seq(Seq(RowType)) /\ Len(raw) \in 1..Len(RunSteps)
    BY DEF SimInv, SimTypeOK
  <2>2. Len(raw) \in Nat /\ DOMAIN raw = 1..Len(raw)
    BY <2>1, LenProperties
  <2>3. Len(raw) \in 1..Len(raw)
    BY <2>1, <2>2
  <2> QED  BY <2>1, <2>2, <2>3, ElementOfSeq
<1>2. row \in RowType
  <2>1. ship'.sailed \in Nat /\ clock \in Nat
    BY StepOdometer DEF SimInv, SimTypeOK
  <2> QED  BY <2>1 DEF RowType
<1>3. IF Len(rows) >= BufferSize THEN Write(rows) /\ buffer' = <<>>
                                 ELSE buffer' = rows /\ UNCHANGED raw
  BY DEF Step
<1> HIDE DEF row
<1>4. rows \in Seq(RowType) /\ rows = buffer \o <<row>> /\ <<row>> \in Seq(RowType)
  <2>1. rows \in Seq(RowType)
    BY <1>1, <1>2, AppendProperties
  <2>2. rows = buffer \o <<row>>
    BY <1>1, <1>2, AppendIsConcat
  <2>3. <<row>> \in Seq(RowType)
    BY <1>2
  <2> QED  BY <2>1, <2>2, <2>3
<1>5. last \o rows = Append(last \o buffer, row)
  <2>1. last \o buffer \in Seq(RowType)
    BY <1>1, ConcatProperties
  <2>2. Append(last \o buffer, row) = (last \o buffer) \o <<row>>
    BY <1>2, <2>1, AppendIsConcat
  <2>3. (last \o buffer) \o <<row>> = last \o (buffer \o <<row>>)
    <3>1. last \in Seq(RowType) /\ buffer \in Seq(RowType) /\ <<row>> \in Seq(RowType)
      BY <1>1, <1>4
    <3> HIDE DEF last
    <3> QED  BY <3>1, ConcatAssociative
  <2> QED  BY <1>4, <2>2, <2>3
<1> HIDE DEF rows
<1>6. CASE Len(rows) >= BufferSize
  <2>1. raw' = [raw EXCEPT ![Len(raw)] = @ \o rows] /\ buffer' = <<>>
    BY <1>3, <1>6 DEF Write
  <2>2. last \o rows \in Seq(RowType)
    BY <1>1, <1>4, ConcatProperties
  <2>3. /\ Len(raw') = Len(raw) /\ DOMAIN raw' = DOMAIN raw /\ raw'[Len(raw)] = last \o rows
        /\ \A run \in DOMAIN raw : run # Len(raw) => raw'[run] = raw[run]
    <3>1. raw' = [raw EXCEPT ![Len(raw)] = last \o rows]
      BY <2>1
    <3> HIDE DEF last
    <3>2. /\ raw' \in Seq(Seq(RowType)) /\ Len(raw') = Len(raw)
          /\ \A j \in 1..Len(raw) : raw'[j] = IF j = Len(raw) THEN last \o rows ELSE raw[j]
      BY <1>1, <2>2, <3>1, ExceptSeq
    <3>3. DOMAIN raw' = 1..Len(raw')
      BY <3>2, LenProperties
    <3> QED  BY <1>1, <3>2, <3>3
  <2>4. Log' = last \o rows
    <3>1. Log' = (last \o rows) \o <<>>
      BY <2>1, <2>3 DEF Log
    <3> HIDE DEF last
    <3> QED  BY <2>2, <3>1, ConcatEmptySeq
  <2>5. buffer' \in Seq(RowType)
    BY <2>1, EmptySeq
  <2> QED  BY <1>5, <2>2, <2>3, <2>4, <2>5 DEF Log, row
<1>7. CASE ~(Len(rows) >= BufferSize)
  <2>1. buffer' = rows /\ raw' = raw
    BY <1>3, <1>7
  <2>2. Log' = last \o rows
    BY <2>1 DEF Log
  <2> QED  BY <1>1, <1>4, <1>5, <2>1, <2>2 DEF Log, row
<1> QED  BY <1>6, <1>7

\* The odometer's invariant is inductive: a new run starts a log of its own, and an
\* interrupted one keeps what it has written.
LEMMA OdometerInductive ==
  /\ SimInit => OdometerInv
  /\ SimInv /\ OdometerInv /\ [SimNext]_simVars => OdometerInv'
<1>0. /\ <<>> \in Seq(RowType) /\ Len(<<>>) = 0 /\ DOMAIN <<>> = {}
      /\ IsLog(<<>>)
  <2>1. DOMAIN <<>> = {}
    OBVIOUS
  <2> QED  BY <2>1, EmptySeq DEF IsLog
<1>1. ASSUME SimInit PROVE OdometerInv
  <2>1. raw = <<<<>>>> /\ buffer = <<>> /\ clock = 0
    BY <1>1 DEF SimInit
  <2>2. DOMAIN raw = {1} /\ Len(raw) = 1 /\ raw[1] = <<>>
    BY <2>1
  <2>3. raw[Len(raw)] \o buffer = <<>>
    BY <1>0, <2>1, <2>2, ConcatEmptySeq
  <2> QED  BY <1>0, <2>1, <2>2, <2>3 DEF OdometerInv
<1>2. ASSUME SimInv, OdometerInv, [SimNext]_simVars PROVE OdometerInv'
  <2>0. /\ raw \in Seq(Seq(RowType)) /\ buffer \in Seq(RowType) /\ Len(raw) \in 1..Len(raw)
        /\ DOMAIN raw = 1..Len(raw) /\ raw[Len(raw)] \in Seq(RowType) /\ clock \in Nat
    <3>1. /\ raw \in Seq(Seq(RowType)) /\ buffer \in Seq(RowType) /\ Len(raw) \in 1..Len(RunSteps)
          /\ clock \in Nat
      BY <1>2 DEF SimInv, SimTypeOK
    <3>2. DOMAIN raw = 1..Len(raw) /\ Len(raw) \in 1..Len(raw)
      BY <3>1, LenProperties
    <3> QED  BY <3>1, <3>2, ElementOfSeq
  <2>1. /\ \A run \in DOMAIN raw : IsLog(raw[run])
        /\ up => /\ IsLog(Log) /\ Len(Log) = clock
                 /\ Log # <<>> => Log[Len(Log)].sailed = ship.sailed
    BY <1>2 DEF OdometerInv, Log
  <2>2. CASE UNCHANGED simVars
    BY <1>2, <2>2 DEF simVars, OdometerInv
  <2>3. CASE Finish
    <3>1. raw' = [raw EXCEPT ![Len(raw)] = raw[Len(raw)] \o buffer] /\ ~up' /\ up
      BY <2>3 DEF Finish, Write
    <3>2. raw[Len(raw)] \o buffer \in Seq(RowType)
      BY <2>0, ConcatProperties
    <3>3. /\ raw' \in Seq(Seq(RowType)) /\ Len(raw') = Len(raw)
          /\ \A j \in 1..Len(raw) : raw'[j] = IF j = Len(raw) THEN raw[Len(raw)] \o buffer ELSE raw[j]
      BY <2>0, <3>1, <3>2, ExceptSeq
    <3>4. DOMAIN raw' = 1..Len(raw)
      BY <3>3, LenProperties
    <3>5. \A run \in DOMAIN raw' : IsLog(raw'[run])
      BY <2>0, <2>1, <3>1, <3>3, <3>4 DEF Log
    <3> QED  BY <3>1, <3>5 DEF OdometerInv
  <2>4. CASE Interrupt
    BY <2>1, <2>4 DEF Interrupt, OdometerInv
  <2>5. CASE Restart
    <3>1. raw' = Append(raw, <<>>) /\ buffer' = <<>> /\ clock' = 0
      BY <2>5 DEF Restart
    <3>2. /\ raw' \in Seq(Seq(RowType)) /\ Len(raw') = Len(raw) + 1
          /\ \A i \in 1..Len(raw) : raw'[i] = raw[i]
          /\ raw'[Len(raw) + 1] = <<>>
      BY <1>0, <2>0, <3>1, AppendProperties
    <3>3. DOMAIN raw' = 1..(Len(raw) + 1)
      BY <3>2, LenProperties
    <3>4. ASSUME NEW run \in DOMAIN raw' PROVE IsLog(raw'[run])
      <4>1. run \in 1..Len(raw) \/ run = Len(raw) + 1
        BY <2>0, <3>3
      <4> QED  BY <1>0, <2>0, <2>1, <3>2, <4>1
    <3>5. raw'[Len(raw')] \o buffer' = <<>>
      BY <1>0, <3>1, <3>2, ConcatEmptySeq
    <3> QED  BY <1>0, <3>1, <3>4, <3>5 DEF OdometerInv
  <2>6. ASSUME NEW speed \in Speeds, NEW even \in BOOLEAN, Step(speed, even) PROVE OdometerInv'
    <3> DEFINE row == [at |-> clock, sailed |-> ship'.sailed]
    <3>1. /\ ship.sailed \in Nat /\ ship'.sailed \in Nat /\ clock \in Nat
          /\ ship.sailed <= ship'.sailed /\ ship'.sailed <= ship.sailed + Max(Speeds)
      BY <1>2, <2>0, <2>6, StepOdometer
    <3>2. row \in RowType /\ row.at = clock /\ row.sailed = ship'.sailed
      BY <3>1 DEF RowType
    <3>3. /\ Log' = Append(Log, row) /\ Len(raw') = Len(raw) /\ DOMAIN raw' = DOMAIN raw
          /\ \A run \in DOMAIN raw : run # Len(raw) => raw'[run] = raw[run]
          /\ raw'[Len(raw)] \in Seq(RowType) /\ buffer' \in Seq(RowType)
      BY <1>2, <2>6, StepLogs
    <3>4. up /\ clock' = clock + 1 /\ up' = up
      BY <2>6 DEF Step
    <3> HIDE DEF row
    <3>5. Log \in Seq(RowType)
      BY <2>0, ConcatProperties DEF Log
    <3>6. Len(Log) > 0 => Log # <<>>
      BY <1>0
    <3>7. IsLog(Log')
      <4>1. row.at = Len(Log) /\ IsLog(Log)
        BY <2>1, <3>2, <3>4
      <4>2. Len(Log) > 0 => /\ Log[Len(Log)].sailed <= row.sailed
                            /\ row.sailed <= Log[Len(Log)].sailed + Max(Speeds)
        BY <2>1, <3>1, <3>2, <3>4, <3>6
      <4> QED  BY <3>2, <3>3, <3>5, <4>1, <4>2, LogGrows
    <3>8. Len(Log') = clock' /\ Log'[Len(Log')].sailed = ship'.sailed
      <4>1. Len(Append(Log, row)) = Len(Log) + 1 /\ Append(Log, row)[Len(Log) + 1] = row
        BY <3>2, <3>5, AppendProperties
      <4> QED  BY <2>1, <3>2, <3>3, <3>4, <4>1
    <3>9. IsLog(raw'[Len(raw)])
      <4>1. IsLog(raw'[Len(raw)] \o buffer')
        BY <3>3, <3>7 DEF Log
      <4> QED  BY <3>3, <4>1, LogBegins
    <3>10. \A run \in DOMAIN raw' : IsLog(raw'[run])
      BY <2>1, <3>3, <3>9
    <3> QED  BY <3>4, <3>7, <3>8, <3>10 DEF OdometerInv, Log
  <2> QED  BY <1>2, <2>2, <2>3, <2>4, <2>5, <2>6 DEF SimNext
<1> QED  BY <1>1, <1>2

\* The counter of a log never falls.
LEMMA CountsUp ==
  ASSUME NEW rows \in Seq(RowType), IsLog(rows)
  PROVE  \A i, j \in 1..Len(rows) : i <= j => rows[i].sailed <= rows[j].sailed
<1> DEFINE n == Len(rows)
           Falls(i, j) == i <= j /\ ~(rows[i].sailed <= rows[j].sailed)
           Bad == {j \in 1..n : \E i \in 1..n : Falls(i, j)}
<1>1. n \in Nat /\ DOMAIN rows = 1..n /\ \A i \in 1..n : rows[i].sailed \in Nat
  <2>1. n \in Nat /\ DOMAIN rows = 1..n /\ \A i \in 1..n : rows[i] \in RowType
    BY LenProperties, ElementOfSeq
  <2> QED  BY <2>1 DEF RowType
<1>2. SUFFICES ASSUME Bad # {} PROVE FALSE
  OBVIOUS
<1>3. PICK j \in Bad : \A k \in Bad : j <= k
  <2>1. Bad \subseteq Nat
    OBVIOUS
  <2> HIDE DEF Bad
  <2> QED  BY <1>2, <2>1, Least
<1>4. PICK i \in 1..n : Falls(i, j)
  BY <1>3
<1>5. j \in 1..n /\ j > 1 /\ i <= j - 1 /\ j - 1 \in 1..n
  BY <1>1, <1>3, <1>4
<1>6. rows[j - 1].sailed <= rows[j].sailed
  BY <1>1, <1>5 DEF IsLog
<1>7. ~Falls(i, j - 1)
  BY <1>3, <1>4, <1>5
<1> QED  BY <1>1, <1>4, <1>5, <1>6, <1>7

\* The rows of a period are those from its first to its last.
FirstRow(p, length) == p * length + 1
LastRow(n, p, length) == LeastOf(n, (p + 1) * length)

LEMMA Quotient ==
  ASSUME NEW m \in Nat, NEW length \in Nat \ {0}, NEW p \in Nat
  PROVE  m \div length = p <=> p * length <= m /\ m < (p + 1) * length
<1> DEFINE q == m \div length
<1>1. q \in Nat /\ q * length <= m /\ m < q * length + length /\ q * length \in Nat
  OBVIOUS
<1>2. p * length \in Nat /\ (p + 1) * length = p * length + length
  OBVIOUS
<1> HIDE DEF q
<1>3. ASSUME p < q PROVE (p + 1) * length <= q * length
  BY <1>1, <1>3
<1>4. ASSUME q < p PROVE (q + 1) * length <= p * length /\ (q + 1) * length = q * length + length
  BY <1>1, <1>4
<1>5. CASE q = p
  BY <1>1, <1>2, <1>5 DEF q
<1>6. CASE p < q
  BY <1>1, <1>2, <1>3, <1>6 DEF q
<1>7. CASE q < p
  BY <1>1, <1>2, <1>4, <1>7 DEF q
<1> QED  BY <1>1, <1>5, <1>6, <1>7

PeriodIsInterval(n, length, p) ==
  /\ Ceil(n, length) \in Nat \ {0}
  /\ FirstRow(p, length) \in 1..n /\ LastRow(n, p, length) \in 1..n
  /\ FirstRow(p, length) <= LastRow(n, p, length)
  /\ \A i \in 1..n : (i - 1) \div length = p
                       <=> FirstRow(p, length) <= i /\ i <= LastRow(n, p, length)
  /\ p + 1 < Ceil(n, length) => FirstRow(p + 1, length) = LastRow(n, p, length) + 1
  /\ p + 1 = Ceil(n, length) => LastRow(n, p, length) = n

LEMMA PeriodRows ==
  ASSUME NEW n \in Nat \ {0}, NEW length \in Nat \ {0}, NEW p \in 0..(Ceil(n, length) - 1)
  PROVE  PeriodIsInterval(n, length, p)
<1> DEFINE K == Ceil(n, length)
           low == p * length
           high == (p + 1) * length
<1>1. K \in Nat \ {0} /\ n <= K * length /\ p \in Nat /\ p + 1 <= K
  <2>1. n \in Nat /\ n > 0
    OBVIOUS
  <2>2. K \in Nat /\ n <= K * length /\ (n > 0 => K > 0)
    BY <2>1, RoundedUp
  <2>3. p \in 0..(K - 1)
    OBVIOUS
  <2> HIDE DEF K
  <2> QED  BY <2>1, <2>2, <2>3
<1>2. low \in Nat /\ high = low + length
  BY <1>1
<1>3. low < n
  <2>1. K * length <= n + length - 1
    BY DEF Ceil
  <2>2. (p + 1) * length <= K * length
    BY <1>1
  <2> QED  BY <1>1, <1>2, <2>1, <2>2
<1>4. p + 1 < K => high < n
  <2>1. SUFFICES ASSUME p + 1 < K PROVE high < n
    OBVIOUS
  <2>2. K * length <= n + length - 1
    BY DEF Ceil
  <2>3. (p + 1 + 1) * length <= K * length /\ (p + 1 + 1) * length = high + length
    BY <1>1, <2>1
  <2>4. K * length \in Nat
    BY <1>1
  <2> HIDE DEF high
  <2> QED  BY <1>2, <2>2, <2>3, <2>4
<1>5. \A i \in 1..n : (i - 1) \div length = p <=> low + 1 <= i /\ i <= high
  <2>1. ASSUME NEW i \in 1..n PROVE (i - 1) \div length = p <=> low + 1 <= i /\ i <= high
    <3>1. i - 1 \in Nat
      OBVIOUS
    <3>2. (i - 1) \div length = p <=> low <= i - 1 /\ i - 1 < high
      BY <1>1, <3>1, Quotient
    <3> HIDE DEF low, high
    <3> QED  BY <1>2, <3>1, <3>2
  <2> QED  BY <2>1
<1>6. p + 1 = K => n <= high
  BY <1>1
<1>7. FirstRow(p, length) = low + 1 /\ LastRow(n, p, length) = LeastOf(n, high)
      /\ FirstRow(p + 1, length) = high + 1
  BY DEF FirstRow, LastRow
<1> HIDE DEF K, low, high
<1>8. LeastOf(n, high) \in 1..n /\ low + 1 <= LeastOf(n, high)
      /\ (p + 1 < K => LeastOf(n, high) = high) /\ (p + 1 = K => LeastOf(n, high) = n)
      /\ \A i \in 1..n : i <= high <=> i <= LeastOf(n, high)
  BY <1>1, <1>2, <1>3, <1>4, <1>6 DEF LeastOf
<1>9. low + 1 \in 1..n
  BY <1>2, <1>3
<1> QED  BY <1>1, <1>5, <1>7, <1>8, <1>9 DEF K, PeriodIsInterval

\* What the counter rises from the first row of each period to its last.
PeriodColumn(rows, length) ==
  [k \in 1..Ceil(Len(rows), length) |->
     rows[LastRow(Len(rows), k - 1, length)].sailed - rows[FirstRow(k - 1, length)].sailed]

\* A log of some rows, and its counter.
IsOdometer(rows) ==
  /\ Len(rows) \in Nat /\ DOMAIN rows = 1..Len(rows)
  /\ \A i \in 1..Len(rows) : rows[i].at = i - 1 /\ rows[i].sailed \in Nat
  /\ \A i, j \in 1..Len(rows) : i <= j => rows[i].sailed <= rows[j].sailed
  /\ \A i \in 1..Len(rows) : i > 1 => rows[i].sailed <= rows[i - 1].sailed + Max(Speeds)

LEMMA LogFacts ==
  ASSUME NEW rows \in Seq(RowType), IsLog(rows)
  PROVE  IsOdometer(rows)
<1>1. Len(rows) \in Nat /\ DOMAIN rows = 1..Len(rows)
  BY LenProperties
<1>2. \A i \in 1..Len(rows) : rows[i].sailed \in Nat
  <2>1. \A i \in 1..Len(rows) : rows[i] \in RowType
    BY ElementOfSeq
  <2> QED  BY <2>1 DEF RowType
<1>3. \A i \in 1..Len(rows) :
        rows[i].at = i - 1 /\ (i > 1 => rows[i].sailed <= rows[i - 1].sailed + Max(Speeds))
  BY <1>1 DEF IsLog
<1>4. \A i, j \in 1..Len(rows) : i <= j => rows[i].sailed <= rows[j].sailed
  BY CountsUp
<1> QED  BY <1>1, <1>2, <1>3, <1>4 DEF IsOdometer

\* The spread of a period is what the counter rises there.
LEMMA SpreadOfPeriod ==
  ASSUME NEW rows \in Seq(RowType), IsLog(rows), Len(rows) > 0, NEW length \in Nat \ {0},
         NEW p \in 0..(Ceil(Len(rows), length) - 1)
  PROVE  Spread(RowsIn(rows, p, length)) = PeriodColumn(rows, length)[p + 1]
<1> DEFINE n == Len(rows)
           low == FirstRow(p, length)
           high == LastRow(n, p, length)
           inside == {i \in 1..n : low <= i /\ i <= high}
           values == {rows[i].sailed : i \in inside}
<1>1. /\ n \in Nat \ {0} /\ DOMAIN rows = 1..n
      /\ \A i \in 1..n : rows[i].at = i - 1 /\ rows[i].sailed \in Nat
      /\ \A i, j \in 1..n : i <= j => rows[i].sailed <= rows[j].sailed
  <2>1. IsOdometer(rows)
    BY LogFacts
  <2> QED  BY <2>1 DEF IsOdometer
<1>2. /\ low \in 1..n /\ high \in 1..n /\ low <= high
      /\ \A i \in 1..n : (i - 1) \div length = p <=> low <= i /\ i <= high
      /\ Ceil(n, length) \in Nat \ {0}
  <2>1. PeriodIsInterval(n, length, p)
    BY <1>1, PeriodRows, Zenon
  <2> QED  BY <2>1 DEF PeriodIsInterval
<1>3. PeriodColumn(rows, length)[p + 1] = rows[high].sailed - rows[low].sailed
  <2>1. p + 1 \in 1..Ceil(n, length) /\ p + 1 - 1 = p
    BY <1>2
  <2> QED  BY <2>1 DEF PeriodColumn
<1>4. RowsIn(rows, p, length) = values
  <2>1. {i \in DOMAIN rows : rows[i].at \div length = p} = inside
    <3> HIDE DEF low, high, n
    <3>1. \A i \in 1..n : rows[i].at \div length = p <=> low <= i /\ i <= high
      <4>1. ASSUME NEW i \in 1..n PROVE rows[i].at \div length = (i - 1) \div length
        BY <1>1
      <4> QED  BY <1>2, <4>1
    <3>2. DOMAIN rows = 1..n
      BY <1>1
    <3> QED  BY <3>1, <3>2, Zenon
  <2> QED  BY <2>1 DEF RowsIn
<1>5. Max(values) = rows[high].sailed /\ Min(values) = rows[low].sailed /\ values # {}
  <2> HIDE DEF low, high, n
  <2>1. values \subseteq Int /\ rows[high].sailed \in values /\ rows[low].sailed \in values
    BY <1>1, <1>2
  <2>2. \A y \in values : rows[low].sailed <= y /\ y <= rows[high].sailed
    BY <1>1, <1>2
  <2> HIDE DEF values
  <2>3. Max(values) = rows[high].sailed
    BY <2>1, <2>2, Extremes
  <2>4. Min(values) = rows[low].sailed
    BY <2>1, <2>2, Extremes
  <2> QED  BY <2>1, <2>3, <2>4
<1> QED  BY <1>3, <1>4, <1>5 DEF Spread

\* Its periods are all from the first to the last.
LEMMA PeriodsOfLog ==
  ASSUME NEW rows \in Seq(RowType), IsLog(rows), Len(rows) > 0, NEW length \in Nat \ {0}
  PROVE  {rows[i].at \div length : i \in DOMAIN rows} = 0..(Ceil(Len(rows), length) - 1)
<1> DEFINE n == Len(rows)
           K == Ceil(n, length)
<1>1. n \in Nat \ {0} /\ DOMAIN rows = 1..n /\ \A i \in 1..n : rows[i].at = i - 1
  BY LogFacts DEF IsOdometer
<1>2. K \in Nat /\ \A k \in Nat : k * length < n => k < K
  BY <1>1, RoundedUp
<1>3. ASSUME NEW i \in 1..n PROVE (i - 1) \div length \in 0..(K - 1)
  <2> DEFINE q == (i - 1) \div length
  <2>1. i - 1 \in Nat /\ q \in Nat
    BY <1>1
  <2>2. q * length <= i - 1
    BY <2>1, Quotient
  <2>3. q * length < n
    BY <1>1, <2>1, <2>2
  <2> HIDE DEF q, K
  <2>4. q < K
    BY <1>2, <2>1, <2>3
  <2> QED  BY <1>2, <2>1, <2>4 DEF q
<1>4. ASSUME NEW p \in 0..(K - 1) PROVE \E i \in 1..n : (i - 1) \div length = p
  <2>1. PeriodIsInterval(n, length, p)
    BY <1>1, PeriodRows, Zenon
  <2> QED  BY <2>1 DEF PeriodIsInterval
<1> HIDE DEF K
<1> QED  BY <1>1, <1>3, <1>4 DEF K, n

\* The column of the periods is one of numbers.
LEMMA PeriodColumnType ==
  ASSUME NEW rows \in Seq(RowType), IsLog(rows), Len(rows) > 0, NEW length \in Nat \ {0}
  PROVE  LET c == PeriodColumn(rows, length)
             K == Ceil(Len(rows), length)
         IN /\ K \in Nat \ {0} /\ c \in Seq(Int) /\ Len(c) = K
            /\ \A k \in 1..K : /\ PeriodIsInterval(Len(rows), length, k - 1)
                               /\ c[k] = rows[LastRow(Len(rows), k - 1, length)].sailed
                                           - rows[FirstRow(k - 1, length)].sailed
<1> DEFINE n == Len(rows)
           K == Ceil(n, length)
           Gap(k) == rows[LastRow(n, k - 1, length)].sailed - rows[FirstRow(k - 1, length)].sailed
<1>1. n \in Nat \ {0} /\ \A i \in 1..n : rows[i].sailed \in Nat
  BY LogFacts DEF IsOdometer
<1>2. K \in Nat \ {0}
  <2>1. K \in Nat /\ (n > 0 => K > 0)
    BY <1>1, RoundedUp
  <2> HIDE DEF K
  <2> QED  BY <1>1, <2>1
<1>3. ASSUME NEW k \in 1..K PROVE PeriodIsInterval(n, length, k - 1)
  <2>1. k - 1 \in 0..(K - 1)
    BY <1>2
  <2> QED  BY <1>1, <2>1, PeriodRows, Zenon
<1>4. ASSUME NEW k \in 1..K PROVE Gap(k) \in Int
  <2>1. LastRow(n, k - 1, length) \in 1..n /\ FirstRow(k - 1, length) \in 1..n
    BY <1>3 DEF PeriodIsInterval
  <2> QED  BY <1>1, <2>1
<1>5. PeriodColumn(rows, length) = [k \in 1..K |-> Gap(k)]
  BY DEF PeriodColumn
<1> DEFINE c == PeriodColumn(rows, length)
<1> HIDE DEF K, Gap, c
<1>6. c \in [1..K -> Int] /\ \A k \in 1..K : c[k] = Gap(k)
  BY <1>4, <1>5 DEF c
<1>7. c \in Seq(Int) /\ Len(c) = K
  BY <1>2, <1>6
<1> QED  BY <1>2, <1>3, <1>6, <1>7 DEF K, Gap, c

\* Periods miss what is sailed from the last row of one to the first of the next, which
\* is a step each, and nothing else.
LEMMA PeriodsMissSteps ==
  ASSUME NEW rows \in Seq(RowType), IsLog(rows), Len(rows) > 0, NEW length \in Nat \ {0}
  PROVE  LET total == Total(PeriodColumn(rows, length))
             whole == rows[Len(rows)].sailed - rows[1].sailed
         IN /\ total \in Int /\ total <= whole
            /\ whole <= total + (Ceil(Len(rows), length) - 1) * Max(Speeds)
<1> DEFINE n == Len(rows)
           K == Ceil(n, length)
           M == Max(Speeds)
           c == PeriodColumn(rows, length)
           From(k) == FirstRow(k - 1, length)
           Till(k) == LastRow(n, k - 1, length)
           g == [k \in 0..K |-> IF k = 0 THEN rows[1].sailed ELSE rows[Till(k)].sailed]
           h == [k \in 0..K |-> IF k = 0 THEN rows[1].sailed ELSE rows[Till(k)].sailed - (k - 1) * M]
<1>1. /\ n \in Nat \ {0} /\ M \in Nat /\ \A i \in 1..n : rows[i].sailed \in Nat
      /\ \A i, j \in 1..n : i <= j => rows[i].sailed <= rows[j].sailed
      /\ \A i \in 1..n : i > 1 => rows[i].sailed <= rows[i - 1].sailed + M
  BY LogFacts, FastestSpeed DEF IsOdometer
<1>2. /\ K \in Nat \ {0} /\ c \in Seq(Int) /\ Len(c) = K
      /\ \A k \in 1..K : /\ PeriodIsInterval(n, length, k - 1)
                         /\ c[k] = rows[Till(k)].sailed - rows[From(k)].sailed
  BY PeriodColumnType
<1>3. ASSUME NEW k \in 1..K
      PROVE  /\ From(k) \in 1..n /\ Till(k) \in 1..n
             /\ k < K => From(k + 1) = Till(k) + 1
             /\ k = K => Till(k) = n
  <2>1. k - 1 + 1 = k /\ k + 1 - 1 = k
    BY <1>2
  <2>2. PeriodIsInterval(n, length, k - 1)
    BY <1>2
  <2> QED  BY <2>1, <2>2 DEF PeriodIsInterval
<1>4. From(1) = 1 /\ Till(K) = n
  <2>1. From(1) = 1
    BY DEF FirstRow
  <2>2. K \in 1..K
    BY <1>2
  <2> HIDE DEF K, n, Till
  <2> QED  BY <1>3, <2>1, <2>2
<1>5. \A k \in 0..K : /\ g[k] = IF k = 0 THEN rows[1].sailed ELSE rows[Till(k)].sailed
                      /\ h[k] = IF k = 0 THEN rows[1].sailed ELSE rows[Till(k)].sailed - (k - 1) * M
  OBVIOUS
<1>6. g \in [0..K -> Int] /\ h \in [0..K -> Int]
  <2> HIDE DEF n, K, M, Till
  <2>1. \A k \in 0..K : (IF k = 0 THEN rows[1].sailed ELSE rows[Till(k)].sailed) \in Int
    <3>1. rows[1].sailed \in Int /\ \A k \in 1..K : rows[Till(k)].sailed \in Int
      BY <1>1, <1>3
    <3> QED  BY <1>2, <3>1
  <2>2. \A k \in 0..K : (IF k = 0 THEN rows[1].sailed ELSE rows[Till(k)].sailed - (k - 1) * M) \in Int
    <3>1. \A k \in 0..K : (k - 1) * M \in Int
      BY <1>1, <1>2
    <3>2. \A x, y \in Int : x - y \in Int
      OBVIOUS
    <3> QED  BY <2>1, <3>1, <3>2
  <2> QED  BY <2>1, <2>2
<1> HIDE DEF g, h, c, K, n, M, From, Till
<1>7. ASSUME NEW k \in 1..K
      PROVE  c[k] <= g[k] - g[k - 1] /\ h[k] - h[k - 1] <= c[k]
  <2> DEFINE last == rows[Till(k)].sailed
             first == rows[From(k)].sailed
  <2>1. c[k] = last - first /\ last \in Nat /\ first \in Nat
    BY <1>1, <1>2, <1>3
  <2>2. k \in 0..K /\ k - 1 \in 0..K /\ k # 0
    BY <1>2
  <2>3. g[k] = last /\ h[k] = last - (k - 1) * M
    BY <1>5, <2>2
  <2> HIDE DEF last
  <2>4. CASE k = 1
    <3>1. g[k - 1] = first /\ h[k - 1] = first /\ (k - 1) * M = 0
      BY <1>1, <1>4, <1>5, <2>2, <2>4
    <3> HIDE DEF first
    <3> QED  BY <2>1, <2>3, <3>1
  <2>5. CASE k # 1
    <3> DEFINE before == rows[Till(k - 1)].sailed
               lost == (k - 1 - 1) * M
    <3>1. k - 1 \in 1..K /\ k - 1 < K /\ k - 1 # 0 /\ k - 1 + 1 = k
      BY <1>2, <2>5
    <3>2. From(k) = Till(k - 1) + 1 /\ Till(k - 1) \in 1..n /\ From(k) \in 1..n
      BY <1>3, <3>1
    <3>3. From(k) > 1 /\ From(k) - 1 = Till(k - 1) /\ Till(k - 1) <= From(k)
      BY <1>1, <3>2
    <3>4. before <= first /\ first <= before + M /\ before \in Nat
      BY <1>1, <3>2, <3>3
    <3>5. g[k - 1] = before /\ h[k - 1] = before - lost
      BY <1>5, <2>2, <3>1
    <3>6. (k - 1) * M = lost + M /\ lost \in Int
      <4>1. K \in Nat /\ k \in Int /\ M \in Int
        BY <1>1, <1>2
      <4> QED  BY <4>1 DEF lost
    <3> HIDE DEF first, before, lost
    <3>7. c[k] <= g[k] - g[k - 1]
      BY <2>1, <2>3, <3>4, <3>5
    <3>8. h[k] - h[k - 1] <= c[k]
      <4>1. h[k] = last - (lost + M)
        BY <2>3, <3>6
      <4> QED  BY <1>1, <2>1, <3>4, <3>5, <3>6, <4>1
    <3> QED  BY <3>7, <3>8
  <2> QED  BY <2>4, <2>5
<1>8. g[0] = rows[1].sailed /\ h[0] = rows[1].sailed /\ g[K] = rows[n].sailed
      /\ h[K] = rows[n].sailed - (K - 1) * M
  <2>1. 0 \in 0..K /\ K \in 0..K /\ K # 0
    BY <1>2
  <2> QED  BY <1>4, <1>5, <2>1
<1>9. Total(c) \in Int /\ Total(c) <= g[K] - g[0] /\ h[K] - h[0] <= Total(c)
  <2>1. g \in [0..Len(c) -> Int] /\ h \in [0..Len(c) -> Int]
    BY <1>2, <1>6
  <2>2. Total(c) \in Int /\ ((\A k \in 1..Len(c) : c[k] <= g[k] - g[k - 1]) => Total(c) <= g[Len(c)] - g[0])
    BY <1>2, <2>1, TotalWithinRises
  <2>3. (\A k \in 1..Len(c) : h[k] - h[k - 1] <= c[k]) => h[Len(c)] - h[0] <= Total(c)
    BY <1>2, <2>1, TotalWithinRises
  <2> QED  BY <1>2, <1>7, <2>2, <2>3
<1>10. rows[1].sailed \in Nat /\ rows[n].sailed \in Nat /\ (K - 1) * M \in Int
  <2>1. 1 \in 1..n /\ n \in 1..n
    BY <1>1
  <2> QED  BY <1>1, <1>2, <2>1
<1>11. /\ Total(c) <= rows[n].sailed - rows[1].sailed
       /\ rows[n].sailed - rows[1].sailed <= Total(c) + (K - 1) * M
  <2> DEFINE a == rows[1].sailed
             b == rows[n].sailed
             gaps == (K - 1) * M
             total == Total(c)
  <2>1. a \in Int /\ b \in Int /\ gaps \in Int /\ total \in Int /\ total <= b - a
        /\ (b - gaps) - a <= total
    BY <1>8, <1>9, <1>10
  <2> HIDE DEF a, b, gaps, total
  <2>2. total <= b - a /\ b - a <= total + gaps
    BY <2>1
  <2> QED  BY <2>2 DEF a, b, gaps, total
<1> QED  BY <1>9, <1>11 DEF n, K, M, c

\* The day of an hour, q hours to a day: an hour's rows are all of that day; the next hour
\* is of the same day, or it is the first of the next; the last hour is of the last day.
DayOf(k, q) == (k - 1) \div q

HoursOK(n, a, q, b) ==
  /\ b \in Nat \ {0}
  /\ Ceil(n, a) \in Nat \ {0} /\ Ceil(n, b) \in Nat \ {0}
  /\ \A k \in 1..Ceil(n, a) : DayOf(k, q) \in 0..(Ceil(n, b) - 1)
  /\ DayOf(1, q) = 0
  /\ DayOf(Ceil(n, a), q) = Ceil(n, b) - 1
  /\ \A k \in 2..Ceil(n, a) :
       \/ DayOf(k, q) = DayOf(k - 1, q)
       \/ /\ DayOf(k, q) = DayOf(k - 1, q) + 1
          /\ FirstRow(k - 1, a) = FirstRow(DayOf(k, q), b)

LEMMA HoursOfDays ==
  ASSUME NEW n \in Nat \ {0}, NEW a \in Nat \ {0}, NEW q \in Nat \ {0}, NEW b, b = q * a
  PROVE  HoursOK(n, a, q, b)
<1> DEFINE H == Ceil(n, a)
           D == Ceil(n, b)
<1>1. b \in Nat \ {0}
  OBVIOUS
<1>2. H \in Nat \ {0} /\ n <= H * a
  <2>1. H \in Nat /\ n <= H * a /\ (n > 0 => H > 0)
    BY RoundedUp
  <2> HIDE DEF H
  <2> QED  BY <2>1
<1>3. D \in Nat \ {0} /\ \A k \in Nat : k * b < n => k < D
  <2>1. D \in Nat /\ (n > 0 => D > 0) /\ \A k \in Nat : k * b < n => k < D
    BY <1>1, RoundedUp
  <2> HIDE DEF D
  <2> QED  BY <2>1
<1>4. (H - 1) * a < n /\ (D - 1) * b < n
  <2>1. H * a <= n + a - 1 /\ H * a \in Nat
    BY DEF Ceil
  <2>2. D * b <= n + b - 1 /\ D * b \in Nat
    BY <1>1 DEF Ceil
  <2>3. (H - 1) * a = H * a - a
    BY <1>2
  <2>4. (D - 1) * b = D * b - b
    BY <1>1, <1>3
  <2> HIDE DEF H, D
  <2> QED  BY <1>1, <2>1, <2>2, <2>3, <2>4
<1>5. ASSUME NEW k \in Nat \ {0}
      PROVE  /\ DayOf(k, q) \in Nat
             /\ DayOf(k, q) * q <= k - 1 /\ k - 1 < (DayOf(k, q) + 1) * q
  <2>1. k - 1 \in Nat
    OBVIOUS
  <2>2. (k - 1) \div q \in Nat
    BY <2>1
  <2> QED  BY <2>1, <2>2, Quotient DEF DayOf
<1>6. \A x, y \in Nat : x <= y => x * a <= y * a
  OBVIOUS
<1>7. \A x \in Nat : (x * q) * a = x * b
  OBVIOUS
<1>8. ASSUME NEW k \in 1..H PROVE DayOf(k, q) \in 0..(D - 1)
  <2> DEFINE e == DayOf(k, q)
  <2>1. e \in Nat /\ e * q <= k - 1 /\ k - 1 \in Nat /\ e * q \in Nat
    BY <1>2, <1>5
  <2>2. (k - 1) * a <= (H - 1) * a
    <3>1. k - 1 \in Nat /\ H - 1 \in Nat /\ k - 1 <= H - 1
      BY <1>2
    <3> HIDE DEF H
    <3> QED  BY <1>6, <3>1
  <2>3. e * b <= (k - 1) * a
    <3> HIDE DEF e, H
    <3>1. (e * q) * a <= (k - 1) * a
      BY <1>6, <2>1
    <3> QED  BY <1>7, <2>1, <3>1
  <2>4. e * b < n
    <3>1. e * b \in Int /\ (k - 1) * a \in Int /\ (H - 1) * a \in Int
      BY <1>1, <1>2, <2>1
    <3> HIDE DEF e, H
    <3> QED  BY <1>4, <2>2, <2>3, <3>1
  <2> HIDE DEF e, D
  <2>5. e < D
    BY <1>3, <2>1, <2>4
  <2> QED  BY <1>3, <2>1, <2>5 DEF e
<1>9. DayOf(1, q) = 0
  <2>1. 0 \div q = 0
    OBVIOUS
  <2> QED  BY <2>1 DEF DayOf
<1>10. DayOf(H, q) = D - 1
  <2> DEFINE e == DayOf(H, q)
  <2>1. e \in 0..(D - 1) /\ H - 1 < (e + 1) * q
    <3>1. H \in 1..H
      BY <1>2
    <3> HIDE DEF H, D
    <3> QED  BY <1>2, <1>5, <1>8, <3>1
  <2>2. H <= (e + 1) * q /\ (e + 1) * q \in Nat /\ e + 1 \in Nat
    <3>1. (e + 1) * q \in Nat /\ e + 1 \in Nat
      BY <2>1
    <3> HIDE DEF e, H
    <3> QED  BY <1>2, <2>1, <3>1
  <2>3. n <= (e + 1) * b
    <3> HIDE DEF e, H
    <3>1. H * a <= ((e + 1) * q) * a
      BY <1>2, <1>6, <2>2
    <3>2. ((e + 1) * q) * a = (e + 1) * b
      BY <1>7, <2>2
    <3>3. H * a \in Nat /\ (e + 1) * b \in Nat
      BY <1>1, <1>2, <2>2
    <3> QED  BY <1>2, <3>1, <3>2, <3>3
  <2>4. D - 1 < e + 1
    <3>1. SUFFICES ASSUME e + 1 <= D - 1 PROVE FALSE
      <4> HIDE DEF e, D
      <4> QED  BY <1>3, <2>1
    <3> HIDE DEF e, D
    <3>2. (e + 1) * b <= (D - 1) * b
      BY <1>1, <1>3, <2>1, <3>1
    <3>3. (e + 1) * b \in Nat /\ (D - 1) * b \in Nat
      BY <1>1, <1>3, <2>2
    <3> QED  BY <1>4, <2>3, <3>2, <3>3
  <2> HIDE DEF e, D
  <2> QED  BY <1>3, <2>1, <2>4 DEF e
<1>11. ASSUME NEW k \in 2..H
       PROVE  \/ DayOf(k, q) = DayOf(k - 1, q)
              \/ /\ DayOf(k, q) = DayOf(k - 1, q) + 1
                 /\ FirstRow(k - 1, a) = FirstRow(DayOf(k, q), b)
  <2> DEFINE e == DayOf(k - 1, q)
             d == DayOf(k, q)
  <2>1. k \in Nat \ {0} /\ k - 1 \in Nat \ {0} /\ k - 1 - 1 = k - 2
    BY <1>2
  <2>2. e \in Nat /\ e * q <= k - 2 /\ k - 2 < (e + 1) * q /\ (e + 1) * q \in Nat
        /\ (e + 1) * q = e * q + q /\ e * q \in Nat
    BY <1>5, <2>1
  <2>3. CASE k - 1 < (e + 1) * q
    <3>1. e * q <= k - 1
      BY <2>1, <2>2
    <3>2. (k - 1) \div q = e
      <4>1. k - 1 \in Nat
        BY <2>1
      <4> HIDE DEF e
      <4> QED  BY <2>2, <2>3, <3>1, <4>1, Quotient
    <3> QED  BY <3>2 DEF DayOf
  <2>4. CASE ~(k - 1 < (e + 1) * q)
    <3>1. k - 1 = (e + 1) * q
      <4> HIDE DEF e
      <4> QED  BY <2>1, <2>2, <2>4
    <3>2. (k - 1) \div q = e + 1
      <4>1. k - 1 \in Nat /\ (e + 1) * q <= k - 1 /\ k - 1 < (e + 1 + 1) * q /\ e + 1 \in Nat
        <5>1. (e + 1 + 1) * q = (e + 1) * q + q
          BY <2>2
        <5> HIDE DEF e
        <5> QED  BY <2>1, <2>2, <3>1, <5>1
      <4> HIDE DEF e
      <4> QED  BY <4>1, Quotient
    <3>3. (k - 1) * a = (e + 1) * b
      <4> HIDE DEF e
      <4> QED  BY <1>7, <2>2, <3>1
    <3> QED  BY <3>2, <3>3 DEF DayOf, FirstRow
  <2> QED  BY <2>3, <2>4
<1> HIDE DEF H, D
<1> QED  BY <1>1, <1>2, <1>3, <1>8, <1>9, <1>10, <1>11 DEF H, D, HoursOK

\* Hours lose at least what days lose.
LEMMA HoursWithinDays ==
  ASSUME NEW rows \in Seq(RowType), IsLog(rows), Len(rows) > 0,
         NEW a \in Nat \ {0}, NEW q \in Nat \ {0}, NEW b, b = q * a
  PROVE  Total(PeriodColumn(rows, a)) <= Total(PeriodColumn(rows, b))
<1> DEFINE n == Len(rows)
           H == Ceil(n, a)
           D == Ceil(n, b)
           hourly == PeriodColumn(rows, a)
           cd == PeriodColumn(rows, b)
           At(i) == rows[i].sailed
           From(k) == FirstRow(k - 1, a)
           Till(k) == LastRow(n, k - 1, a)
           Dawn(d) == FirstRow(d, b)
           Dusk(d) == LastRow(n, d, b)
           DayAt(k) == DayOf(k, q)
<1>1. /\ n \in Nat \ {0} /\ \A i \in 1..n : At(i) \in Nat
      /\ \A i, j \in 1..n : i <= j => At(i) <= At(j)
  BY LogFacts DEF IsOdometer
<1>2. /\ b \in Nat \ {0} /\ H \in Nat \ {0} /\ D \in Nat \ {0}
      /\ \A k \in 1..H : DayAt(k) \in 0..(D - 1)
      /\ DayAt(1) = 0 /\ DayAt(H) = D - 1
      /\ \A k \in 2..H : \/ DayAt(k) = DayAt(k - 1)
                         \/ DayAt(k) = DayAt(k - 1) + 1 /\ FirstRow(k - 1, a) = FirstRow(DayAt(k), b)
  <2>1. HoursOK(n, a, q, b)
    BY <1>1, HoursOfDays, Zenon
  <2> QED  BY <2>1 DEF HoursOK
<1>3. /\ hourly \in Seq(Int) /\ Len(hourly) = H
      /\ \A k \in 1..H : PeriodIsInterval(n, a, k - 1) /\ hourly[k] = At(Till(k)) - At(From(k))
  BY PeriodColumnType
<1>4. /\ cd \in Seq(Int) /\ Len(cd) = D
      /\ \A d \in 1..D : PeriodIsInterval(n, b, d - 1) /\ cd[d] = At(Dusk(d - 1)) - At(Dawn(d - 1))
  <2> HIDE DEF H
  <2> QED  BY <1>2, PeriodColumnType
<1>5. ASSUME NEW k \in 1..H
      PROVE  /\ From(k) \in 1..n /\ Till(k) \in 1..n /\ From(k) <= Till(k)
             /\ k < H => From(k + 1) = Till(k) + 1
             /\ k = H => Till(k) = n
  <2>1. k - 1 + 1 = k /\ k + 1 - 1 = k
    BY <1>2
  <2>2. PeriodIsInterval(n, a, k - 1)
    BY <1>3
  <2> QED  BY <2>1, <2>2 DEF PeriodIsInterval
<1>6. ASSUME NEW d \in 0..(D - 1)
      PROVE  /\ Dawn(d) \in 1..n /\ Dusk(d) \in 1..n
             /\ d + 1 < D => Dawn(d + 1) = Dusk(d) + 1
             /\ d + 1 = D => Dusk(d) = n
             /\ cd[d + 1] = At(Dusk(d)) - At(Dawn(d))
  <2>1. d + 1 \in 1..D /\ d + 1 - 1 = d
    BY <1>2
  <2>2. PeriodIsInterval(n, b, d) /\ cd[d + 1] = At(Dusk(d)) - At(Dawn(d))
    <3>1. PeriodIsInterval(n, b, d + 1 - 1) /\ cd[d + 1] = At(Dusk(d + 1 - 1)) - At(Dawn(d + 1 - 1))
      BY <1>4, <2>1
    <3> HIDE DEF cd, Dusk, Dawn, At, n
    <3> QED  BY <2>1, <3>1
  <2> QED  BY <2>2 DEF PeriodIsInterval
<1>7. From(1) = 1 /\ Dawn(0) = 1
  BY <1>2 DEF FirstRow
<1> HIDE DEF n, H, D, hourly, cd, At, From, Till, Dawn, Dusk, DayAt
<1>8. PICK f \in [0..D -> Int] : Sums(f, cd)
  BY <1>4, SumsExist
<1>9. /\ f[0] = 0 /\ Total(cd) = f[D]
      /\ \A d \in 0..(D - 1) : f[d] \in Int /\ f[d + 1] \in Int /\ f[d + 1] = f[d] + cd[d + 1]
  <2>1. \A i \in 0..D : f[i] = IF i = 0 THEN 0 ELSE f[i - 1] + cd[i]
    <3>1. f = [i \in 0..D |-> IF i = 0 THEN 0 ELSE f[i - 1] + cd[i]]
      BY <1>4, <1>8 DEF Sums
    <3> QED  BY <3>1, Zenon
  <2>2. Total(cd) = f[D]
    BY <1>4, <1>8, TotalIsLastSum
  <2>3. ASSUME NEW d \in 0..(D - 1)
        PROVE  f[d] \in Int /\ f[d + 1] \in Int /\ f[d + 1] = f[d] + cd[d + 1]
    <3>1. d \in 0..D /\ d + 1 \in 0..D /\ d + 1 # 0 /\ d + 1 - 1 = d
      BY <1>2
    <3> QED  BY <1>8, <2>1, <3>1
  <2>4. 0 \in 0..D
    BY <1>2
  <2> QED  BY <2>1, <2>2, <2>3, <2>4
<1> DEFINE So(k) == f[DayAt(k)] + At(Till(k)) - At(Dawn(DayAt(k)))
           g == [k \in 0..H |-> IF k = 0 THEN 0 ELSE So(k)]
<1>10. ASSUME NEW k \in 1..H PROVE So(k) \in Int
  <2>1. Till(k) \in 1..n /\ DayAt(k) \in 0..(D - 1)
    BY <1>2, <1>5
  <2>2. At(Till(k)) \in Nat /\ f[DayAt(k)] \in Int /\ Dawn(DayAt(k)) \in 1..n
    BY <1>1, <1>6, <1>9, <2>1
  <2>3. At(Dawn(DayAt(k))) \in Nat
    BY <1>1, <2>2
  <2> QED  BY <2>2, <2>3
<1>11. g \in [0..H -> Int] /\ g[0] = 0 /\ \A k \in 1..H : g[k] = So(k)
  <2> HIDE DEF So
  <2>1. \A k \in 0..H : (IF k = 0 THEN 0 ELSE So(k)) \in Int
    BY <1>2, <1>10
  <2>2. 0 \in 0..H /\ \A k \in 1..H : k \in 0..H /\ k # 0
    BY <1>2
  <2> QED  BY <2>1, <2>2
<1> HIDE DEF g
<1>12. ASSUME NEW k \in 1..H PROVE hourly[k] <= g[k] - g[k - 1]
  <2> DEFINE last == At(Till(k))
             first == At(From(k))
             dawn == At(Dawn(DayAt(k)))
             daily == f[DayAt(k)]
  <2>1. /\ last \in Nat /\ first \in Nat /\ dawn \in Nat /\ daily \in Int
        /\ hourly[k] = last - first /\ g[k] = daily + last - dawn
    BY <1>1, <1>2, <1>3, <1>5, <1>6, <1>9, <1>11
  <2>2. CASE k = 1
    <3>1. daily = 0 /\ dawn = first /\ g[k - 1] = 0
      BY <1>2, <1>7, <1>9, <1>11, <2>2
    <3> HIDE DEF last, first, dawn, daily
    <3> QED  BY <2>1, <3>1
  <2>3. CASE k # 1
    <3> DEFINE before == At(Till(k - 1))
               oldDawn == At(Dawn(DayAt(k - 1)))
               oldDays == f[DayAt(k - 1)]
    <3>1. k - 1 \in 1..H /\ k - 1 < H /\ k - 1 + 1 = k /\ k \in 2..H
      BY <1>2, <2>3
    <3>2. Till(k - 1) \in 1..n /\ From(k) \in 1..n /\ From(k) = Till(k - 1) + 1
      BY <1>5, <3>1
    <3>3. /\ before \in Nat /\ before <= first /\ oldDawn \in Nat /\ oldDays \in Int
          /\ g[k - 1] = oldDays + before - oldDawn
      <4>1. before \in Nat /\ before <= first
        BY <1>1, <3>2
      <4>2. oldDawn \in Nat /\ oldDays \in Int
        BY <1>1, <1>2, <1>6, <1>9, <3>1
      <4>3. g[k - 1] = oldDays + before - oldDawn
        BY <1>11, <3>1
      <4> QED  BY <4>1, <4>2, <4>3
    <3>4. CASE DayAt(k) = DayAt(k - 1)
      <4>1. daily = oldDays /\ dawn = oldDawn
        BY <3>4
      <4> HIDE DEF last, first, dawn, daily, before, oldDawn, oldDays
      <4> QED  BY <2>1, <3>3, <4>1
    <3>5. CASE DayAt(k) = DayAt(k - 1) + 1 /\ FirstRow(k - 1, a) = FirstRow(DayAt(k), b)
      <4> DEFINE e == DayAt(k - 1)
      <4>1. e \in 0..(D - 1) /\ e + 1 = DayAt(k) /\ e + 1 < D
        BY <1>2, <3>1, <3>5, SMTT(30)
      <4>2. Dawn(e + 1) = From(k)
        BY <3>5, <4>1 DEF Dawn, From
      <4>3. Dawn(e + 1) = Dusk(e) + 1 /\ Dusk(e) \in 1..n /\ cd[e + 1] = At(Dusk(e)) - oldDawn
        BY <1>6, <4>1
      <4>4. Dusk(e) = Till(k - 1)
        BY <3>2, <4>2, <4>3
      <4>5. cd[e + 1] = before - oldDawn
        BY <4>3, <4>4
      <4>6. daily = oldDays + cd[e + 1]
        BY <1>9, <4>1
      <4>7. dawn = first
        BY <4>1, <4>2
      <4> HIDE DEF last, first, dawn, daily, before, oldDawn, oldDays, e
      <4> QED  BY <2>1, <3>3, <4>5, <4>6, <4>7
    <3> QED  BY <1>2, <3>1, <3>4, <3>5 DEF DayAt
  <2> QED  BY <2>2, <2>3
<1>13. Total(hourly) <= g[H] - g[0]
  <2>1. g \in [0..Len(hourly) -> Int] /\ \A k \in 1..Len(hourly) : hourly[k] <= g[k] - g[k - 1]
    BY <1>3, <1>11, <1>12
  <2>2. Total(hourly) <= g[Len(hourly)] - g[0]
    BY <1>3, <2>1, TotalWithinRises
  <2> QED  BY <1>3, <2>2
<1>14. g[H] = Total(cd)
  <2>1. H \in 1..H /\ D - 1 \in 0..(D - 1) /\ D - 1 + 1 = D
    BY <1>2
  <2>2. g[H] = f[D - 1] + At(n) - At(Dawn(D - 1))
    BY <1>2, <1>5, <1>11, <2>1
  <2>3. f[D] = f[D - 1] + cd[D] /\ f[D - 1] \in Int
    BY <1>9, <2>1
  <2>4. cd[D] = At(n) - At(Dawn(D - 1)) /\ At(n) \in Nat /\ At(Dawn(D - 1)) \in Nat
    BY <1>1, <1>6, <2>1
  <2> DEFINE end == At(n)
             dawn == At(Dawn(D - 1))
  <2> HIDE DEF end, dawn
  <2> QED  BY <1>9, <2>2, <2>3, <2>4
<1>15. Total(hourly) \in Int /\ Total(cd) \in Int /\ g[0] = 0
  BY <1>3, <1>4, <1>11, TotalOfOneMore
<1> QED  BY <1>13, <1>14, <1>15 DEF hourly, cd

\* The spread of a set of counters is from its least to its greatest; a set that holds
\* another has no smaller spread.
LEMMA SpreadOf ==
  ASSUME NEW S, S \subseteq Nat, S # {}, NEW bound \in Nat, \A m \in S : m <= bound
  PROVE  \E low, high \in S : /\ Spread(S) = high - low
                              /\ \A m \in S : low <= m /\ m <= high
<1>1. PICK low \in S : \A m \in S : low <= m
  BY Least
<1>2. PICK high \in S : \A m \in S : m <= high
  BY Greatest
<1>3. S \subseteq Int
  OBVIOUS
<1>4. Max(S) = high /\ Min(S) = low
  BY <1>1, <1>2, <1>3, Extremes
<1>5. Spread(S) = high - low
  BY <1>4 DEF Spread
<1> QED  BY <1>1, <1>2, <1>5

LEMMA SpreadGrows ==
  ASSUME NEW B, B \subseteq Nat, NEW A, A \subseteq B, NEW bound \in Nat, \A m \in B : m <= bound
  PROVE  Spread(A) \in Nat /\ Spread(B) \in Nat /\ Spread(A) <= Spread(B)
<1>1. CASE A # {}
  <2>1. PICK low, high \in A : Spread(A) = high - low /\ \A m \in A : low <= m /\ m <= high
    <3>1. A \subseteq Nat /\ \A m \in A : m <= bound
      OBVIOUS
    <3> QED  BY <1>1, <3>1, SpreadOf
  <2>2. PICK from, to \in B : Spread(B) = to - from /\ \A m \in B : from <= m /\ m <= to
    <3>1. B # {}
      BY <1>1
    <3> QED  BY <3>1, SpreadOf
  <2>3. from <= low /\ low <= high /\ high <= to
    BY <2>1, <2>2
  <2> QED  BY <2>1, <2>2, <2>3
<1>2. CASE A = {} /\ B # {}
  <2>1. PICK from, to \in B : Spread(B) = to - from /\ \A m \in B : from <= m /\ m <= to
    BY <1>2, SpreadOf
  <2>2. Spread(A) = 0
    BY <1>2 DEF Spread
  <2> QED  BY <2>1, <2>2
<1>3. CASE A = {} /\ B = {}
  BY <1>3 DEF Spread
<1> QED  BY <1>1, <1>2, <1>3

\* Whatever the runs are, none sails further in a period than all of them together.
LEMMA RunWithinDay ==
  ASSUME raw \in Seq(Seq(RowType)), \A run \in DOMAIN raw : IsLog(raw[run]),
         NEW run \in DOMAIN raw, NEW p, NEW length
  PROVE  Spread(RowsIn(raw[run], p, length)) <= Spread(RowsOf(p, length))
<1> DEFINE n == Len(raw)
           Final(r) == IF Len(raw[r]) = 0 THEN 0 ELSE raw[r][Len(raw[r])].sailed
           finals == [r \in 1..n |-> Final(r)]
           A == RowsIn(raw[run], p, length)
           B == RowsOf(p, length)
<1>1. n \in Nat /\ DOMAIN raw = 1..n /\ \A r \in 1..n : raw[r] \in Seq(RowType)
  BY LenProperties, ElementOfSeq
<1>2. ASSUME NEW r \in 1..n, NEW i \in DOMAIN raw[r]
      PROVE  raw[r][i].sailed \in Nat /\ raw[r][i].sailed <= Final(r)
  <2>1. IsOdometer(raw[r])
    BY <1>1, LogFacts
  <2>2. Len(raw[r]) \in Nat /\ i \in 1..Len(raw[r])
    BY <2>1 DEF IsOdometer
  <2>3. Len(raw[r]) # 0 /\ Len(raw[r]) \in 1..Len(raw[r]) /\ i <= Len(raw[r])
    BY <2>2
  <2>4. raw[r][i].sailed \in Nat /\ raw[r][i].sailed <= raw[r][Len(raw[r])].sailed
    BY <2>1, <2>2, <2>3 DEF IsOdometer
  <2> QED  BY <2>3, <2>4
<1>3. ASSUME NEW r \in 1..n PROVE Final(r) \in Nat
  <2>1. IsOdometer(raw[r])
    BY <1>1, LogFacts
  <2>2. CASE Len(raw[r]) # 0
    <3>1. Len(raw[r]) \in 1..Len(raw[r])
      BY <2>1, <2>2 DEF IsOdometer
    <3> QED  BY <2>1, <2>2, <3>1 DEF IsOdometer
  <2>3. CASE Len(raw[r]) = 0
    BY <2>3
  <2> QED  BY <2>2, <2>3
<1> HIDE DEF Final, n
<1>4. finals \in Seq(Nat) /\ Len(finals) = n /\ \A r \in 1..n : finals[r] = Final(r)
  <2>1. finals \in [1..n -> Nat]
    BY <1>3
  <2> QED  BY <1>1, <2>1
<1> HIDE DEF finals
<1>5. Total(finals) \in Nat /\ \A r \in 1..n : Final(r) <= Total(finals)
  <2>1. Total(finals) \in Nat
    BY <1>4, TotalIsNat
  <2>2. ASSUME NEW r \in 1..n PROVE Final(r) <= Total(finals)
    BY <1>4, <2>2, RowAtMostTotal
  <2> QED  BY <2>1, <2>2
<1>6. ASSUME NEW m \in B PROVE m \in Nat /\ m <= Total(finals)
  <2>0. PICK r \in 1..n : m \in RowsIn(raw[r], p, length)
    BY <1>1 DEF RowsOf
  <2>1. PICK i \in DOMAIN raw[r] : m = raw[r][i].sailed
    BY <2>0 DEF RowsIn
  <2>2. m \in Nat /\ m <= Final(r) /\ Final(r) \in Nat /\ Final(r) <= Total(finals)
    BY <1>2, <1>3, <1>5, <2>1
  <2> QED  BY <1>5, <2>2
<1>7. A \subseteq B
  BY DEF RowsOf
<1> HIDE DEF A, B
<1>8. B \subseteq Nat /\ \A m \in B : m <= Total(finals)
  BY <1>6
<1>9. Spread(A) <= Spread(B)
  BY <1>5, <1>7, <1>8, SpreadGrows
<1> QED  BY <1>9 DEF A, B

\* A table of one run: its periods are those of the log, and so are their distances.
LEMMA OneRun ==
  ASSUME raw \in Seq(Seq(RowType)), Len(raw) = 1, IsLog(raw[1]), Len(raw[1]) > 0,
         NEW length \in Nat \ {0}
  PROVE  /\ Periods(length) = 0..(Ceil(Len(raw[1]), length) - 1)
         /\ TotalDistance([p \in Periods(length) |-> Spread(RowsOf(p, length))])
              = Total(PeriodColumn(raw[1], length))
<1> DEFINE rows == raw[1]
           K == Ceil(Len(rows), length)
           distance == [p \in Periods(length) |-> Spread(RowsOf(p, length))]
           column == PeriodColumn(rows, length)
<1>1. DOMAIN raw = {1} /\ rows \in Seq(RowType)
  <2>1. DOMAIN raw = 1..1
    BY LenProperties
  <2>2. 1 \in 1..Len(raw)
    OBVIOUS
  <2> QED  BY <2>1, <2>2, ElementOfSeq
<1>2. K \in Nat \ {0} /\ column = [k \in 1..K |-> column[k]]
  <2>1. K \in Nat \ {0}
    BY <1>1, PeriodColumnType
  <2> QED  BY <2>1 DEF PeriodColumn
<1>3. Periods(length) = 0..(K - 1)
  <2>1. Periods(length) = {rows[i].at \div length : i \in DOMAIN rows}
    BY <1>1 DEF Periods
  <2> HIDE DEF K, rows
  <2>2. {rows[i].at \div length : i \in DOMAIN rows} = 0..(K - 1)
    BY <1>1, PeriodsOfLog DEF K, rows
  <2> QED  BY <2>1, <2>2
<1>4. ASSUME NEW p \in 0..(K - 1) PROVE distance[p] = column[p + 1]
  <2>1. RowsOf(p, length) = RowsIn(rows, p, length)
    BY <1>1 DEF RowsOf
  <2>2. Spread(RowsIn(rows, p, length)) = column[p + 1]
    BY <1>1, SpreadOfPeriod
  <2>3. p \in Periods(length)
    BY <1>3
  <2> QED  BY <2>1, <2>2, <2>3
<1>5. DOMAIN distance = 0..(K - 1)
  BY <1>3
<1> HIDE DEF K, distance, column
<1>6. Max(DOMAIN distance \cup {0}) = K - 1
  <2> DEFINE S == DOMAIN distance \cup {0}
  <2>1. S \subseteq Int /\ K - 1 \in S /\ \A y \in S : y <= K - 1
    BY <1>2, <1>5
  <2> HIDE DEF S
  <2>2. Max(S) = K - 1
    BY <2>1, Extremes
  <2> QED  BY <2>2 DEF S
<1>7. TotalDistance(distance) = Total(column)
  <2> DEFINE c == [k \in 1..K |-> IF k - 1 \in DOMAIN distance THEN distance[k - 1] ELSE 0]
  <2>1. ASSUME NEW k \in 1..K
        PROVE  (IF k - 1 \in DOMAIN distance THEN distance[k - 1] ELSE 0) = column[k]
    <3>1. k - 1 \in 0..(K - 1) /\ k - 1 + 1 = k
      BY <1>2
    <3>2. distance[k - 1] = column[k]
      BY <1>4, <3>1
    <3> QED  BY <1>5, <3>1, <3>2
  <2>2. c = column
    BY <1>2, <2>1
  <2>3. K - 1 + 1 = K
    BY <1>2
  <2>4. TotalDistance(distance) = Total(c)
    BY <1>6, <2>3 DEF TotalDistance
  <2> QED  BY <2>2, <2>4
<1> QED  BY <1>3, <1>7 DEF K, distance, column

\* A table without a row.
LEMMA NoRows ==
  ASSUME raw \in Seq(Seq(RowType)), Len(raw) = 1, Len(raw[1]) = 0, NEW length
  PROVE  /\ Periods(length) = {}
         /\ TotalDistance([p \in Periods(length) |-> Spread(RowsOf(p, length))]) = 0
<1> DEFINE distance == [p \in Periods(length) |-> Spread(RowsOf(p, length))]
           c == [k \in 1..1 |-> IF k - 1 \in DOMAIN distance THEN distance[k - 1] ELSE 0]
<1>1. DOMAIN raw = {1} /\ DOMAIN raw[1] = {}
  <2>1. DOMAIN raw = 1..1
    BY LenProperties
  <2>2. 1 \in 1..Len(raw)
    OBVIOUS
  <2>3. raw[1] \in Seq(RowType)
    BY <2>2, ElementOfSeq
  <2>4. DOMAIN raw[1] = 1..0
    BY <2>3, LenProperties
  <2> QED  BY <2>1, <2>4
<1>2. Periods(length) = {}
  BY <1>1 DEF Periods
<1>3. DOMAIN distance = {}
  BY <1>2
<1> HIDE DEF distance
<1>4. Max(DOMAIN distance \cup {0}) + 1 = 1
  <2>1. {0} \subseteq Int /\ \A y \in {0} : y <= 0
    OBVIOUS
  <2>2. Max({0}) = 0
    BY <2>1, Extremes
  <2>3. DOMAIN distance \cup {0} = {0}
    BY <1>3
  <2>4. Max(DOMAIN distance \cup {0}) = 0
    BY <2>2, <2>3, Zenon
  <2> QED  BY <2>4
<1>5. TotalDistance(distance) = Total(c)
  BY <1>4 DEF TotalDistance
<1>6. c \in Seq(Int) /\ \A i \in 1..Len(c) : c[i] = 0
  <2>1. c = [k \in 1..1 |-> 0]
    BY <1>3
  <2> HIDE DEF c
  <2>2. c \in [1..1 -> Int] /\ \A i \in 1..1 : c[i] = 0
    BY <2>1
  <2>3. c \in Seq(Int) /\ Len(c) = 1
    <3>1. PICK n \in Nat : n = 1
      OBVIOUS
    <3>2. c \in [1..n -> Int]
      BY <2>2, <3>1
    <3>3. c \in Seq(Int) /\ Len(c) = n
      BY <3>2
    <3> QED  BY <3>1, <3>3
  <2> QED  BY <2>2, <2>3
<1> HIDE DEF c
<1>7. Total(c) = 0
  BY <1>6, TotalOfZeros
<1> QED  BY <1>2, <1>5, <1>7 DEF distance

\* What a log sails is from its first row to its last.
LEMMA WholeLog ==
  ASSUME NEW rows \in Seq(RowType), IsLog(rows), Len(rows) > 0
  PROVE  Spread({rows[i].sailed : i \in DOMAIN rows}) = rows[Len(rows)].sailed - rows[1].sailed
<1> DEFINE n == Len(rows)
           values == {rows[i].sailed : i \in 1..n}
<1>1. IsOdometer(rows)
  BY LogFacts
<1>2. /\ n \in Nat \ {0} /\ DOMAIN rows = 1..n /\ 1 \in 1..n /\ n \in 1..n
      /\ \A i \in 1..n : rows[i].sailed \in Nat
      /\ \A i \in 1..n : rows[1].sailed <= rows[i].sailed /\ rows[i].sailed <= rows[n].sailed
  <2>1. n \in Nat \ {0} /\ DOMAIN rows = 1..n /\ \A i \in 1..n : rows[i].sailed \in Nat
    BY <1>1 DEF IsOdometer
  <2>2. 1 \in 1..n /\ n \in 1..n /\ \A i \in 1..n : 1 <= i /\ i <= n
    BY <2>1
  <2>3. \A i, j \in 1..n : i <= j => rows[i].sailed <= rows[j].sailed
    BY <1>1 DEF IsOdometer
  <2> HIDE DEF n
  <2> QED  BY <2>1, <2>2, <2>3
<1> HIDE DEF n
<1>3. /\ values \subseteq Int /\ rows[1].sailed \in values /\ rows[n].sailed \in values
      /\ \A y \in values : rows[1].sailed <= y /\ y <= rows[n].sailed
  BY <1>2
<1> HIDE DEF values
<1>4. Max(values) = rows[n].sailed /\ Min(values) = rows[1].sailed /\ values # {}
  BY <1>3, Extremes
<1>5. {rows[i].sailed : i \in DOMAIN rows} = values
  BY <1>2 DEF values
<1> QED  BY <1>4, <1>5 DEF Spread, n

\* The bounds of the aggregates, from the odometer's invariant.
LEMMA OdometerBounds == SimInv /\ OdometerInv => AggregatesFollowVoyage
<1> SUFFICES ASSUME SimInv, OdometerInv PROVE AggregatesFollowVoyage
  OBVIOUS
<1> DEFINE RunSpread(run) == Spread({raw[run][i].sailed : i \in DOMAIN raw[run]})
           rows == raw[1]
           M == Max(Speeds)
           hourly == TotalDistance(HourlyDistance)
           daily == TotalDistance(DailyDistance)
<1>1. raw \in Seq(Seq(RowType)) /\ Len(raw) \in Nat /\ Len(raw) >= 1
  <2>1. raw \in Seq(Seq(RowType)) /\ Len(raw) \in 1..Len(RunSteps)
    BY DEF SimInv, SimTypeOK
  <2>2. Len(raw) \in Nat
    BY <2>1, LenProperties
  <2> QED  BY <2>1, <2>2
<1>2. \A run \in DOMAIN raw : IsLog(raw[run])
  BY DEF OdometerInv
<1>3. \A run \in DOMAIN raw, p \in Periods(PerDay) :
        Spread(RowsIn(raw[run], p, PerDay)) <= DailyDistance[p]
  <2>1. ASSUME NEW run \in DOMAIN raw, NEW p \in Periods(PerDay)
        PROVE  Spread(RowsIn(raw[run], p, PerDay)) <= DailyDistance[p]
    <3>1. DailyDistance[p] = Spread(RowsOf(p, PerDay))
      BY DEF DailyDistance
    <3>2. Spread(RowsIn(raw[run], p, PerDay)) <= Spread(RowsOf(p, PerDay))
      BY <1>1, <1>2, RunWithinDay
    <3> QED  BY <3>1, <3>2
  <2> QED  BY <2>1
<1>4. PerHour \in Nat \ {0} /\ PerDay \in Nat \ {0} /\ PerDay % PerHour = 0
  BY SimulatorAssumption
<1>5. PICK q \in Nat \ {0} : PerDay = q * PerHour
  <2>1. PerDay = (PerDay \div PerHour) * PerHour /\ PerDay \div PerHour \in Nat
    BY <1>4
  <2>2. PerDay \div PerHour # 0
    BY <1>4, <2>1
  <2> QED  BY <2>1, <2>2
<1>6. M \in Nat
  BY FastestSpeed
<1>7. CASE Len(raw) = 1 /\ Len(rows) = 0
  <2>1. Periods(PerDay) = {} /\ daily = 0 /\ hourly = 0
    BY <1>1, <1>7, NoRows DEF DailyDistance, HourlyDistance
  <2>2. RunSpread(1) = 0
    <3>1. DOMAIN rows = {}
      <4>1. 1 \in 1..Len(raw)
        BY <1>7
      <4>2. rows \in Seq(RowType)
        BY <1>1, <4>1, ElementOfSeq
      <4>3. DOMAIN rows = 1..0
        BY <1>7, <4>2, LenProperties
      <4> QED  BY <4>3
    <3> QED  BY <3>1 DEF Spread
  <2>3. AboveZero(Cardinality(Periods(PerDay)) - 1) * M = 0
    <3>1. Cardinality(Periods(PerDay)) = 0
      BY <2>1, FS_EmptySet
    <3>2. AboveZero(0 - 1) = 0
      BY DEF AboveZero
    <3>3. 0 * M = 0
      BY <1>6
    <3> QED  BY <3>1, <3>2, <3>3
  <2> HIDE DEF hourly, daily, RunSpread, M
  <2>4. /\ hourly <= daily /\ daily <= RunSpread(1)
        /\ RunSpread(1) <= daily + AboveZero(Cardinality(Periods(PerDay)) - 1) * M
    BY <2>1, <2>2, <2>3
  <2> QED  BY <1>3, <2>4 DEF AggregatesFollowVoyage, hourly, daily, RunSpread, M
<1>8. CASE Len(raw) = 1 /\ Len(rows) # 0
  <2> DEFINE K == Ceil(Len(rows), PerDay)
  <2>1. rows \in Seq(RowType) /\ IsLog(rows) /\ Len(rows) > 0
    <3>1. 1 \in 1..Len(raw) /\ 1 \in DOMAIN raw
      BY <1>1, <1>8, LenProperties
    <3>2. rows \in Seq(RowType) /\ Len(rows) \in Nat
      BY <1>1, <3>1, ElementOfSeq, LenProperties
    <3> QED  BY <1>2, <1>8, <3>1, <3>2
  <2>2. /\ hourly = Total(PeriodColumn(rows, PerHour)) /\ daily = Total(PeriodColumn(rows, PerDay))
        /\ Periods(PerDay) = 0..(K - 1)
    BY <1>1, <1>4, <1>8, <2>1, OneRun DEF DailyDistance, HourlyDistance
  <2>3. hourly <= daily
    <3>1. Total(PeriodColumn(rows, PerHour)) <= Total(PeriodColumn(rows, PerDay))
      BY <1>4, <1>5, <2>1, HoursWithinDays
    <3> HIDE DEF hourly, daily
    <3> QED  BY <2>2, <3>1
  <2>4. RunSpread(1) = rows[Len(rows)].sailed - rows[1].sailed
    BY <2>1, WholeLog
  <2>5. K \in Nat \ {0}
    BY <1>4, <2>1, PeriodColumnType
  <2> HIDE DEF K
  <2>6. AboveZero(Cardinality(Periods(PerDay)) - 1) = K - 1
    <3>1. Cardinality(0..(K - 1)) = K
      <4>1. Cardinality(0..(K - 1)) = IF 0 > K - 1 THEN 0 ELSE K - 1 - 0 + 1
        BY <2>5, FS_Interval
      <4> QED  BY <2>5, <4>1
    <3> QED  BY <2>2, <2>5, <3>1 DEF AboveZero
  <2>7. daily <= RunSpread(1) /\ RunSpread(1) <= daily + (K - 1) * M
    <3>1. /\ Total(PeriodColumn(rows, PerDay)) <= rows[Len(rows)].sailed - rows[1].sailed
          /\ rows[Len(rows)].sailed - rows[1].sailed <= Total(PeriodColumn(rows, PerDay)) + (K - 1) * M
      BY <1>4, <2>1, PeriodsMissSteps DEF K
    <3> HIDE DEF hourly, daily, RunSpread, M
    <3> QED  BY <2>2, <2>4, <3>1
  <2> HIDE DEF hourly, daily, RunSpread, M
  <2>8. /\ hourly <= daily /\ daily <= RunSpread(1)
        /\ RunSpread(1) <= daily + AboveZero(Cardinality(Periods(PerDay)) - 1) * M
    BY <2>3, <2>6, <2>7
  <2> QED  BY <1>3, <2>8 DEF AggregatesFollowVoyage, hourly, daily, RunSpread, M
<1>9. CASE Len(raw) # 1
  <2>1. Len(raw) > 1
    <3>1. \A n \in Nat : n >= 1 /\ n # 1 => n > 1
      OBVIOUS
    <3> QED  BY <1>1, <1>9, <3>1, Zenon
  <2> DEFINE Bounds == /\ daily <= RunSpread(1)
                       /\ RunSpread(1) <= daily + AboveZero(Cardinality(Periods(PerDay)) - 1) * M
  <2>2. (hourly <= daily \/ Len(raw) > 1) /\ (Len(raw) = 1 => Bounds)
    BY <1>9, <2>1, Zenon
  <2> HIDE DEF hourly, daily, RunSpread, M
  <2> QED  BY <1>3, <2>2 DEF AggregatesFollowVoyage, hourly, daily, RunSpread, M
<1> QED  BY <1>7, <1>8, <1>9

\* The aggregates follow the voyage, whatever the weather, the lengths of the phases, the
\* size of the buffer and the number of runs: of a single run hours lose more miles than
\* days, and days no more than a step across each midnight; no run sails further on a day
\* than the table says.
THEOREM AggregatesAlwaysFollow == SimSpec => []AggregatesFollowVoyage
<1>1. SimInit => SimInv
  BY SimInductive
<1>2. SimInv /\ [SimNext]_simVars => SimInv'
  BY SimInductive
<1>3. SimInit => OdometerInv
  BY OdometerInductive
<1>4. SimInv /\ OdometerInv /\ [SimNext]_simVars => OdometerInv'
  BY OdometerInductive
<1>5. SimInv /\ OdometerInv => AggregatesFollowVoyage
  BY OdometerBounds
<1> QED  BY <1>1, <1>2, <1>3, <1>4, <1>5, PTL DEF SimSpec

-----------------------------------------------------------------------------
(* The analytics database.                                                 *)

\* What TLC explores of the two ends of the database is a behaviour of each: the figures
\* read from it, the condition of the hulls, and the generator that fills it.
THEOREM AnalyticsImplementsItsEnds == AnalyticsSpec => CharterSpec /\ HullSpec /\ SimSpec
<1>1. AnalyticsInit => CharterInit /\ HullInit /\ SimInit
  BY DEF AnalyticsInit
<1>2. ASSUME [AnalyticsNext]_analyticsVars
      PROVE  [CharterNext]_days /\ [HullNext]_hullVars /\ [SimNext]_simVars
  <2>1. CASE UNCHANGED analyticsVars
    BY <2>1 DEF analyticsVars
  <2>2. CASE AnalyticsNext
    <3>1. \/ CharterNext /\ UNCHANGED hullVars /\ UNCHANGED simVars
          \/ HullNext /\ UNCHANGED days /\ UNCHANGED simVars
          \/ SimNext /\ UNCHANGED days /\ UNCHANGED hullVars
      BY <2>2 DEF AnalyticsNext
    <3> QED  BY <3>1
  <2> QED  BY <1>2, <2>1, <2>2
<1> QED  BY <1>1, <1>2, PTL DEF AnalyticsSpec, CharterSpec, HullSpec, SimSpec

\* Books balance, aggregates follow the voyage, the charterer's figures tell one sum of
\* money and agree about operation, and the hull's endpoints tell one story: in one database, whoever writes next.
THEOREM AnalyticsKeepsItsPromises ==
  AnalyticsSpec => /\ []BooksBalance /\ []VoyagesGoOn /\ []AggregatesFollowVoyage
                   /\ []MoneyAgrees /\ []OperationAgrees /\ []HullVerdictsAgree
<1>1. AnalyticsSpec => CharterSpec /\ HullSpec /\ SimSpec
  BY AnalyticsImplementsItsEnds
<1>2. SimSpec => []BooksBalance
  BY BooksAlwaysBalance
<1>3. SimSpec => []VoyagesGoOn
  BY VoyagesAlwaysGoOn
<1>4. SimSpec => []AggregatesFollowVoyage
  BY AggregatesAlwaysFollow
<1>5. CharterSpec => []MoneyAgrees
  BY MoneyCorrect
<1>6. CharterSpec => []OperationAgrees
  BY OperationCorrect
<1>7. HullSpec => []HullVerdictsAgree
  BY HullVerdictsHold
<1> QED  BY <1>1, <1>2, <1>3, <1>4, <1>5, <1>6, <1>7, PTL
=============================================================================
