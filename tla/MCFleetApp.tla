----------------------------- MODULE MCFleetApp -----------------------------
(***************************************************************************)
(* FleetApp with its bounds.  Its parts share nothing but the dialect and  *)
(* no property speaks of two of them, so instead of every interleaving of  *)
(* their steps each behaviour explores one part, and of the ledger one     *)
(* book, while the others rest: `focus' says which.                        *)
(***************************************************************************)
EXTENDS FleetApp, TLC

VARIABLE focus

mcVars == <<appVars, focus>>

MCBudgets ==
  {[workers |-> 1, requests |-> 2, records |-> 1, crashes |-> 1],
   [workers |-> 2, requests |-> 2, records |-> 0, crashes |-> 0],
   [workers |-> 2, requests |-> 1, records |-> 1, crashes |-> 0]}
MCSymmetry == Permutations(Workers)
MCStatic == <<"IAPP", "ISGOTT">>
MCVoyage(year, co2, load, discharge, fuels) ==
  [vessel |-> "v", year |-> year, co2 |-> co2, work |-> 10, cargo |-> 1,
   load_in_eu |-> load, discharge_in_eu |-> discharge, fuels |-> fuels]
MCVoyages ==
  {MCVoyage(2029, 66, TRUE, TRUE, <<<<"VLSFO", 1>>, <<"MGO", 0>>, <<"LNG", 9>>>>),
   MCVoyage(2030, 80, TRUE, FALSE, <<<<"HFO", 2>>, <<"LNG", 8>>>>)}
MCDays == <<200, 400>>
MCStaticFigures == {[co2 |-> 7, rating |-> "D"]}
MCMaxRows == [cii |-> 2, ets |-> 2, fueleu |-> 4, efficiency |-> 2]

\* A part that rests has one initial state.
AtRest(component) ==
  /\ component # "demo" => budget = CHOOSE b \in Budgets : TRUE
  /\ component # "certificates" => desk = [w \in Registrars |-> Free]
  /\ component \in {"demo", "users", "certificates"} => task = [w \in Clerks |-> NoTask]

MCInit ==
  /\ AppInit
  /\ focus \in {"demo", "users", "certificates", "cii", "ets", "fueleu", "efficiency"}
  /\ AtRest(focus)

\* Bound: one demo job at a time works on the ledger.
OneDemoJob == Cardinality({w \in Clerks : task[w].op \in DOMAIN LedgerDeletes}) <= 1

\* Bound: DCS reports are asked for one year.
OneReportYear == \A w \in Clerks : task[w].op = "dcs" => task[w].year = StaticYear

InLedger == focus \in {"cii", "ets", "fueleu", "efficiency"}

MCNext ==
  /\ focus' = focus
  /\ \/ focus = "demo" /\ DemoNext /\ UNCHANGED <<usersOnly, certOnly, ledgerOnly>>
     \/ focus = "users" /\ UsersNext /\ UNCHANGED <<demoOnly, certOnly, ledgerOnly>>
     \/ focus = "certificates" /\ CertNext /\ UNCHANGED <<demoOnly, usersOnly, ledgerOnly>>
     \/ focus = "cii" /\ CiiNext /\ OneReportYear' /\ UNCHANGED <<demoOnly, usersOnly, certOnly>>
     \/ focus = "ets" /\ EtsNext /\ UNCHANGED <<demoOnly, usersOnly, certOnly>>
     \/ focus = "fueleu" /\ FuelEuNext /\ UNCHANGED <<demoOnly, usersOnly, certOnly>>
     \/ focus = "efficiency" /\ EfficiencyNext /\ UNCHANGED <<demoOnly, usersOnly, certOnly>>
     \/ InLedger /\ Elsewhere /\ OneDemoJob' /\ UNCHANGED <<demoOnly, usersOnly, certOnly>>

MCSpec == MCInit /\ [][MCNext]_mcVars
=============================================================================
