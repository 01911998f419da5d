---------------------------- MODULE VoyageSimulator ----------------------------
(***************************************************************************)
(* The data generator (lng-data-generator): one vessel sails a route back  *)
(* and forth, step by step, and every step appends a row to a table that   *)
(* aggregate.py later reduces to hours and days.  A step calls one         *)
(* generator after the other on the same vessel state, and what they agree *)
(* on (cargo, fuel burnt, CO2) they each keep in a counter of their own.   *)
(*                                                                         *)
(* Cargo is counted in hundredths of the tanks (the tanks, alike but for a *)
(* few cubic metres, are one), LNG likewise, MGO in a unit of its own,     *)
(* distances in miles, durations in steps.  CO2 is kept as the fuel it was *)
(* counted for.  Position, weather as such, engine temperatures, stability,*)
(* alarms and key figures feed nothing back and are left out.  The phases  *)
(* emergency_stop, engine_failure, engine_restart, anchorage, berthing and *)
(* canal_transit are entered by nothing in the program.                    *)
(***************************************************************************)
EXTENDS Integers, Sequences, FiniteSets, FiniteSetsExt, Sums

CONSTANTS Speeds, Route,                  \* miles of a step, by weather; miles of the route
          Approach, PortStay, Departure,  \* 4 h, 24 h and 4 h
          SlowDown,                       \* what a step of the approach takes off the speed
          LoadRate, DischargeRate,
          BoilOff,                        \* natural boil-off of a step, by cargo level
          Demand,                         \* gas the running main engine takes in a phase
          Pilot, AuxLoad, InitialAux,     \* MGO of a step: pilot flame; generators, by phase
          BufferSize, PerHour, PerDay,
          RunSteps                        \* bound: steps of each run of the program

Phases == {"sea_passage", "arrival", "discharging", "loading", "port_stay", "departure"}
Stationary == {"port_stay", "loading", "discharging"}
MaxFill == 98      \* percent: IGC limit, initial fill, heel kept ashore and at sea
InitialFill == 95
DischargeHeel == 5
HeelFraction == 3

ASSUME SimulatorAssumption ==
  /\ Speeds \subseteq Nat \ {0} /\ Speeds # {} /\ IsFiniteSet(Speeds) /\ Route \in Nat \ {0}
  /\ {Approach, PortStay, Departure, LoadRate, DischargeRate} \subseteq Nat \ {0}
  /\ BoilOff \in [0..100 -> Nat \ {0}] /\ Demand \in [Phases -> Nat \ {0}]
  /\ AuxLoad \in [Phases -> Nat] /\ {Pilot, InitialAux, SlowDown} \subseteq Nat
  /\ {BufferSize, PerHour, PerDay} \subseteq Nat \ {0} /\ PerDay % PerHour = 0
  /\ RunSteps \in Seq(Nat) /\ RunSteps # <<>>

\* Loading ends because it outruns the boil-off: what a whole loading boils off, or an
\* engine still turning takes alongside, is less than the load of one step and the two
\* hundredths by which 95 percent is short of 98 (12,000 m3 an hour against some two).
Ceil(n, rate) == (n + rate - 1) \div rate
LoadSteps == Ceil(MaxFill - HeelFraction, LoadRate)
Bearable == (LoadRate + 2) \div LoadSteps
ASSUME LoadingAssumption ==
  /\ \A level \in 0..100 : BoilOff[level] <= Bearable
  /\ Demand["loading"] <= Bearable

VARIABLES ship,     \* VesselState
          clock,    \* steps this run has made
          buffer,   \* rows not written yet
          raw,      \* the table, a sequence of rows for each run
          up,       \* whether the program runs
          moved,    \* history: cargo loaded less cargo discharged in this run
          dry,      \* history: the tanks have been down to the heel in this run
          since     \* history: steps the vessel has been in its phase

simVars == <<ship, clock, buffer, raw, up, moved, dry, since>>

Fuel == [lng : Nat, mgo : Int]
ShipType ==
  [phase : Phases, leg : {"laden", "ballast"}, progress : 0..Route, port_timer : Nat, sog : Nat,
   running : BOOLEAN, on_mgo : BOOLEAN, level : 0..100, operation : 0..100, aux : Nat,
   to_engine : Nat, to_gcu : Nat, burnt : Fuel, emitted : Fuel, sailed : Nat]

LeastOf(a, b) == IF a < b THEN a ELSE b
AboveZero(n) == IF n < 0 THEN 0 ELSE n

-----------------------------------------------------------------------------
\* initialize_voyage, initialize_tanks, generate_aux_engines.
NewShip ==
  [phase |-> "sea_passage", leg |-> "laden", progress |-> 0, port_timer |-> 0,
   sog |-> 0, running |-> TRUE, on_mgo |-> FALSE, level |-> InitialFill, operation |-> 0,
   aux |-> InitialAux, to_engine |-> 0, to_gcu |-> 0,
   burnt |-> [lng |-> 0, mgo |-> 0], emitted |-> [lng |-> 0, mgo |-> 0], sailed |-> 0]

\* VoyageGenerator.step, one handler per phase.
SeaPassage(s, speed) ==
  LET arrived == s.progress + speed >= Route
  IN [s EXCEPT !.running = TRUE, !.sog = speed, !.sailed = @ + speed,
               !.progress = LeastOf(Route, @ + speed),
               !.phase = IF arrived THEN "arrival" ELSE @,
               !.port_timer = IF arrived THEN 0 ELSE @]

\* The engine stops if the vessel is still before the approach is over.
Arrival(s) ==
  LET slower == AboveZero(s.sog - SlowDown)
      stopped == [s EXCEPT !.sog = slower, !.port_timer = @ + 1, !.running = @ /\ slower > 0]
  IN IF stopped.port_timer < Approach THEN stopped
     ELSE [stopped EXCEPT !.port_timer = 0, !.sog = 0, !.operation = 0,
                          !.phase = IF s.leg = "laden" THEN "discharging" ELSE "loading"]

\* Mutant of CargoOps: an operation ends when its tanks are full, or empty.
CargoOpsToTheEnd(s, even) ==
  [s EXCEPT !.sog = 0, !.running = FALSE,
            !.phase = IF s.operation >= MaxFill THEN "port_stay" ELSE @,
            !.port_timer = IF s.operation >= MaxFill THEN 0 ELSE @]

\* Exactly 95 percent is a sum of floating-point quotients: either side of 95.0.
CargoOps(s, even) ==
  LET ended == s.operation > 95 \/ (s.operation = 95 /\ even)
  IN [s EXCEPT !.sog = 0, !.running = FALSE,
               !.phase = IF ended THEN "port_stay" ELSE @,
               !.port_timer = IF ended THEN 0 ELSE @]

InPort(s) ==
  LET over == s.port_timer + 1 >= PortStay
  IN [s EXCEPT !.sog = 0, !.running = over,
               !.phase = IF over THEN "departure" ELSE @,
               !.port_timer = IF over THEN 0 ELSE @ + 1]

\* The return leg starts where this one ended, with the other kind of load.
Departing(s) ==
  IF s.port_timer + 1 < Departure THEN [s EXCEPT !.port_timer = @ + 1]
  ELSE [s EXCEPT !.port_timer = 0, !.progress = 0, !.phase = "sea_passage",
                 !.leg = IF @ = "laden" THEN "ballast" ELSE "laden"]

VoyageStep(s, speed, even) ==
  CASE s.phase = "sea_passage"                -> SeaPassage(s, speed)
    [] s.phase = "arrival"                    -> Arrival(s)
    [] s.phase \in {"loading", "discharging"} -> CargoOps(s, even)
    [] s.phase = "port_stay"                  -> InPort(s)
    [] s.phase = "departure"                  -> Departing(s)

\* CargoGenerator.step.
CargoStep(s) ==
  LET added == LeastOf(AboveZero(MaxFill - s.level), LoadRate)
      removed == LeastOf(AboveZero(s.level - DischargeHeel), DischargeRate)
  IN CASE s.phase = "loading"     -> [s EXCEPT !.level = @ + added, !.operation = s.level + added]
       [] s.phase = "discharging" -> [s EXCEPT !.level = @ - removed,
                                               !.operation = 100 - (s.level - removed)]
       [] OTHER                   -> s

\* BOGGenerator.step: the engine is fed gas while there is any above the heel, and
\* changes over to MGO when there is none; what it does not take is burnt.
Gas(s) == AboveZero(s.level - HeelFraction)
Wanted(s) == IF s.running THEN Demand[s.phase] ELSE 0
BogStep(s) ==
  LET taken == IF Gas(s) > 0 THEN Wanted(s) ELSE 0
      forced == AboveZero(taken - BoilOff[s.level])
  IN [s EXCEPT !.on_mgo = Gas(s) = 0 /\ s.running,
               !.to_engine = taken,
               !.to_gcu = AboveZero(BoilOff[s.level] - taken),
               !.level = IF Gas(s) = 0 THEN @
                         ELSE @ - LeastOf(Gas(s), BoilOff[s.level] + forced)]

\* FuelGenerator.step, then update_aux_loads.
MainMgo(s) == IF s.on_mgo THEN Wanted(s) ELSE 0
PilotMgo(s) == IF s.running THEN Pilot ELSE 0
FuelStep(s) ==
  [s EXCEPT !.burnt =
     [lng |-> @.lng + s.to_gcu + (IF s.running /\ ~s.on_mgo THEN s.to_engine ELSE 0),
      mgo |-> @.mgo + s.aux + PilotMgo(s) + MainMgo(s)]]
UpdateAuxLoads(s) == [s EXCEPT !.aux = AuxLoad[s.phase]]

\* Mutant of EmissionsStep: the CO2 of the gas combustion unit is forgotten.
EmissionsOfEnginesOnly(s) ==
  [s EXCEPT !.emitted = [lng |-> @.lng + (IF s.on_mgo THEN 0 ELSE s.to_engine),
                         mgo |-> @.mgo + s.aux + PilotMgo(s) + MainMgo(s)]]

\* EmissionsGenerator.step.
EmissionsStep(s) ==
  [s EXCEPT !.emitted = [lng |-> @.lng + s.to_gcu + (IF s.on_mgo THEN 0 ELSE s.to_engine),
                         mgo |-> @.mgo + s.aux + PilotMgo(s) + MainMgo(s)]]

\* PortGenerator.step.
PortStep(s) ==
  CASE s.phase \in Stationary  -> [s EXCEPT !.sog = 0, !.running = FALSE]
    [] s.phase = "departure"   -> [s EXCEPT !.running = TRUE]
    [] OTHER                   -> s

-----------------------------------------------------------------------------
\* One step of TelemetrySimulator.run: the generators in their order, the row, the
\* write of a full buffer.
Sailed(s, speed, even) ==
  PortStep(EmissionsStep(UpdateAuxLoads(FuelStep(BogStep(CargoStep(VoyageStep(s, speed, even)))))))

Write(rows) == raw' = [raw EXCEPT ![Len(raw)] = @ \o rows]

Step(speed, even) ==
  /\ up /\ clock < RunSteps[Len(raw)]
  /\ ship' = Sailed(ship, speed, even)
  /\ clock' = clock + 1
  /\ LET rows == Append(buffer, [at |-> clock, sailed |-> ship'.sailed])
     IN IF Len(rows) >= BufferSize THEN Write(rows) /\ buffer' = <<>>
                                   ELSE buffer' = rows /\ UNCHANGED raw
  /\ LET sailing == VoyageStep(ship, speed, even)
     IN /\ moved' = moved + CargoStep(sailing).level - sailing.level
        /\ dry' = (dry \/ ship'.level = HeelFraction)
        /\ since' = IF ship'.phase = ship.phase THEN since + 1 ELSE 0
  /\ UNCHANGED up

\* _flush_all and _finalize.
Finish ==
  /\ up /\ clock = RunSteps[Len(raw)]
  /\ Write(buffer) /\ buffer' = <<>> /\ up' = FALSE
  /\ UNCHANGED <<ship, clock, moved, dry, since>>

\* The program is interrupted: rows in the buffer are gone, the table stays.
Interrupt ==
  /\ up /\ up' = FALSE /\ buffer' = <<>>
  /\ UNCHANGED <<ship, clock, raw, moved, dry, since>>

\* The next run starts at time 0 and, CREATE TABLE IF NOT EXISTS, appends.
Restart ==
  /\ ~up /\ Len(raw) < Len(RunSteps)
  /\ up' = TRUE /\ ship' = NewShip /\ clock' = 0 /\ buffer' = <<>>
  /\ raw' = Append(raw, <<>>) /\ moved' = 0 /\ dry' = FALSE /\ since' = 0

SimInit ==
  /\ ship = NewShip /\ clock = 0 /\ buffer = <<>> /\ raw = <<<<>>>> /\ up = TRUE
  /\ moved = 0 /\ dry = FALSE /\ since = 0

SimNext == Finish \/ Interrupt \/ Restart \/ \E speed \in Speeds, even \in BOOLEAN : Step(speed, even)
SimSpec == SimInit /\ [][SimNext]_simVars

-----------------------------------------------------------------------------
\* aggregate.py: the distance of a period is MAX - MIN of a counter over the rows
\* that fall into it, whichever run wrote them.
RowsIn(table, period, length) ==
  {table[i].sailed : i \in {i \in DOMAIN table : table[i].at \div length = period}}
RowsOf(period, length) == UNION {RowsIn(raw[run], period, length) : run \in DOMAIN raw}
Periods(length) ==
  UNION {{raw[run][i].at \div length : i \in DOMAIN raw[run]} : run \in DOMAIN raw}
SpreadFromZero(values) == IF values = {} THEN 0 ELSE Max(values)  \* mutant of Spread
Spread(values) == IF values = {} THEN 0 ELSE Max(values) - Min(values)

HourlyDistance == [p \in Periods(PerHour) |-> Spread(RowsOf(p, PerHour))]
DailyDistance == [p \in Periods(PerDay) |-> Spread(RowsOf(p, PerDay))]
TotalDistance(distance) ==
  Total([k \in 1..Max(DOMAIN distance \cup {0}) + 1 |->
           IF k - 1 \in DOMAIN distance THEN distance[k - 1] ELSE 0])

-----------------------------------------------------------------------------
SimTypeOK ==
  /\ ship \in ShipType
  /\ clock \in Nat /\ up \in BOOLEAN /\ dry \in BOOLEAN /\ moved \in Int /\ since \in Nat
  /\ Len(buffer) < BufferSize /\ Len(raw) \in 1..Len(RunSteps)

\* Three books of the same fuel.  The tanks lose to boil-off exactly the gas the
\* fuel generator says was burnt, until they reach the heel: from then on gas is
\* burnt that no tank gives.  CO2 is counted for exactly the fuel burnt, except
\* that of the generators it counts the load one step ahead: the two books differ
\* by the load now less the load at the start, however long the voyage.
BooksBalance ==
  /\ InitialFill + moved - ship.level <= ship.burnt.lng
  /\ ~dry => InitialFill + moved - ship.level = ship.burnt.lng
  /\ ship.emitted.lng = ship.burnt.lng
  /\ ship.emitted.mgo - ship.burnt.mgo = ship.aux - InitialAux

\* "Tank mass removal: natural evaporation + forced vaporization": all gas that is
\* burnt has left the tanks.  At the heel it has not: evaporation goes on, the gas
\* combustion unit burns it, and the tanks keep their level.
GasComesFromTheTanks == InitialFill + moved - ship.level = ship.burnt.lng

\* No phase keeps a vessel longer than it should: the sea passage as long as the
\* slowest weather needs, a load as long as its rate needs.  Discharging ends at 95
\* percent with a heel of 5 percent left: if the quotients fall short of 95, it is
\* the boil-off of one more step that ends it.  And the load fits the leg: a vessel
\* in ballast never carries more than the heel, a laden one is never overfull.
Longest ==
  [sea_passage |-> Ceil(Route, Min(Speeds)), arrival |-> Approach,
   discharging |-> Ceil(MaxFill - DischargeHeel, DischargeRate) + 1,
   loading |-> LoadSteps + 1,
   port_stay |-> PortStay, departure |-> Departure]
VoyagesGoOn ==
  /\ since < Longest[ship.phase]
  /\ HeelFraction <= ship.level /\ ship.level <= MaxFill
  /\ ship.leg = "ballast" /\ ship.phase \in {"sea_passage", "arrival"} => ship.level <= DischargeHeel

\* What the aggregates keep of a single run: hours lose more than days, and days no
\* more than the step across each midnight.  A second run into the same table can
\* make a day longer than either vessel sailed on it, never shorter.
AggregatesFollowVoyage ==
  LET RunSpread(run) == Spread({raw[run][i].sailed : i \in DOMAIN raw[run]})
  IN /\ \A run \in DOMAIN raw, p \in Periods(PerDay) :
          Spread(RowsIn(raw[run], p, PerDay)) <= DailyDistance[p]
     /\ TotalDistance(HourlyDistance) <= TotalDistance(DailyDistance) \/ Len(raw) > 1
     /\ Len(raw) = 1 =>
          /\ TotalDistance(DailyDistance) <= RunSpread(1)
          /\ RunSpread(1) <= TotalDistance(DailyDistance) + AboveZero(Cardinality(Periods(PerDay)) - 1) * Max(Speeds)

-----------------------------------------------------------------------------
\* Why voyages go on, phase by phase: what the steps spent in a phase have brought
\* forward (helpers; VoyageInv is the invariant the proofs use).
PassageAdvances ==
  ship.phase = "sea_passage" => since * Min(Speeds) <= ship.progress /\ ship.progress < Route
TimerCounts ==
  ship.phase \in {"arrival", "port_stay", "departure"} =>
     ship.port_timer = since /\ since < Longest[ship.phase]
CargoLeaves ==
  ship.phase = "discharging" =>
    /\ ship.level <= 100 - ship.operation
    /\ ship.operation >= LeastOf(95, 100 - MaxFill + (since + 1) * DischargeRate)
    /\ ship.operation >= 95 => ship.level < DischargeHeel
    /\ since < Longest.discharging
    /\ since = Longest.discharging - 1 => ship.operation > 95
CargoArrives ==
  ship.phase = "loading" =>
    /\ ship.operation - Bearable <= ship.level
    /\ ship.operation >= LeastOf(MaxFill, HeelFraction + (since + 1) * LoadRate - since * Bearable)
    /\ since < Longest.loading
LoadFitsLeg ==
  /\ ship.phase = "discharging" => ship.leg = "laden"
  /\ ship.phase = "loading" => ship.leg = "ballast"
  /\ ship.leg = "ballast" /\ ship.phase \in {"sea_passage", "arrival"} => ship.level <= DischargeHeel
  /\ ship.leg = "laden" /\ ship.phase \in {"port_stay", "departure"} => ship.level <= DischargeHeel
VoyageInv ==
  /\ HeelFraction <= ship.level /\ ship.level <= MaxFill
  /\ PassageAdvances /\ TimerCounts /\ CargoLeaves /\ CargoArrives /\ LoadFitsLeg

\* Why aggregates follow the voyage: what a run has written, with what it still holds, is
\* its log, a row for every step from its start, and on the counter of miles no step goes
\* backwards or further than the weather allows (helpers for the proofs).
IsLog(rows) ==
  \A i \in DOMAIN rows :
    /\ rows[i].at = i - 1
    /\ i > 1 => /\ rows[i - 1].sailed <= rows[i].sailed
                /\ rows[i].sailed <= rows[i - 1].sailed + Max(Speeds)
OdometerInv ==
  /\ \A run \in DOMAIN raw : IsLog(raw[run])
  /\ up => LET log == raw[Len(raw)] \o buffer
           IN /\ IsLog(log) /\ Len(log) = clock
              /\ log # <<>> => log[Len(log)].sailed = ship.sailed
=============================================================================
