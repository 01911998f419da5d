------------------------------- MODULE DemoData -------------------------------
(***************************************************************************)
(* The demo data of the fleet performance application: the seeding every   *)
(* worker attempts when it starts (demo/seed_render.py), the generator     *)
(* behind POST /api/demo/generate (demo/generate_data.py) and the reset    *)
(* behind POST /api/demo/reset (api/demo.py).  Each of them is a list of   *)
(* SQL statements that commit one by one; several gunicorn workers run     *)
(* them against one database, and a worker may be killed between two.      *)
(*                                                                         *)
(* A row is abstracted to its table, a key, the rows it refers to and the  *)
(* job that wrote it.  The loops over vessels, voyages and days are taken  *)
(* once: every DELETE of the source empties its table, so one row stands   *)
(* for all the rows of its batch.  The static fleet carries the explicit   *)
(* keys 1..50, which the first sequence values of the generator collide    *)
(* with: key 0 stands for that overlap (it ends after ten generations).    *)
(***************************************************************************)
EXTENDS FleetSchema, Naturals, Sequences, FiniteSets

CONSTANTS Workers,      \* the gunicorn workers
          Recorded,     \* tables the other handlers append to
          Budgets       \* bounds of an exploration: workers up at once, generate
                        \* and reset requests, appended rows, workers killed

\* Nothing inserts into engine_cylinder_data, which is only read.
ASSUME DemoAssumption ==
  /\ Budgets \subseteq [workers : Nat, requests : Nat, records : Nat, crashes : Nat]
  /\ Recorded \subseteq DOMAIN SqliteSchema \ {"engine_cylinder_data"}

VARIABLES rows,      \* what the database holds
          job,       \* what each worker is executing
          batches,   \* jobs begun so far; numbers the rows they write
          budget,    \* what is left of the exploration's bounds
          outcome    \* the job that ended in the last step, if one did

demoVars == <<dialect, rows, job, batches, budget, outcome>>

-----------------------------------------------------------------------------
\* Statements.
Stmt(op, table) == [op |-> op, table |-> table]
Each(op, tables) == [i \in DOMAIN tables |-> Stmt(op, tables[i])]

\* _clear_existing_data: every failure but the last two is swallowed.
ClearStatements ==
  Each("try_delete",
    <<"charter_party_audit", "digital_twin_assessments", "digital_twin_parameters",
      "voyage_eca_events", "voyage_fuel_switch_log", "cargo_records",
      "bor_daily_summary", "eu_ets_surrender", "certificate_expiry_log",
      "igc_compliance_log", "egr_data", "seemp_reports", "seemp_measures",
      "epl_config", "eexi_assessment", "certificates", "predictive_alerts",
      "scr_data", "scrubber_data", "fueleu_records", "eu_ets_records",
      "cii_assessment", "auxiliary_engines", "engine_performance",
      "engine_cylinder_data", "hull_performance", "emissions_log", "eca_events",
      "fuel_switch_log", "charter_party", "charter_performance",
      "off_hire_events", "digital_twin_state", "maintenance_events",
      "weather_data", "sensor_readings", "bunkering_records",
      "voyage_weather_data", "voyage_waypoints", "voyages">>)
  \o Each("delete", <<"vessel_tanks", "vessels">>)

\* What generate_all fills, a group of statements for each of its helpers.
ZoneStatements == <<Stmt("replace", "eca_zones")>>
VesselStatements == <<Stmt("find", "vessels"), Stmt("save", "vessels")>>
TankStatements == <<Stmt("replace", "vessel_tanks")>>
VoyageStatements == <<Stmt("insert", "voyages")>>
WaypointStatements == <<Stmt("insert", "voyage_waypoints")>>
CargoStatements == <<Stmt("read", "vessel_tanks"), Stmt("insert", "cargo_records")>>
BorStatements == <<Stmt("insert", "bor_daily_summary")>>
EngineStatements == <<Stmt("insert", "engine_performance")>>
HullStatements == <<Stmt("insert", "hull_performance")>>
CharterStatements == <<Stmt("insert", "charter_party"), Stmt("insert", "charter_performance")>>
CertificateStatements ==
  <<Stmt("insert_returning", "certificates"), Stmt("insert", "certificate_expiry_log")>>
SeempStatements == <<Stmt("insert", "seemp_measures")>>

\* generate_all after the clearing, for one vessel and one voyage.
FillStatements ==
  ZoneStatements \o VesselStatements \o TankStatements \o VoyageStatements
    \o WaypointStatements \o CargoStatements \o BorStatements \o EngineStatements
    \o HullStatements \o CharterStatements \o CertificateStatements \o SeempStatements

GenerateStatements == ClearStatements \o FillStatements

\* reset_database: the first failure ends the request.
ResetStatements ==
  Each("delete",
    <<"voyage_waypoints", "voyages", "engine_performance", "auxiliary_engines",
      "cii_assessment", "eu_ets_records", "fueleu_records", "scrubber_data",
      "scr_data", "predictive_alerts", "certificates", "eexi_assessment",
      "epl_config", "seemp_measures", "seemp_reports", "egr_data",
      "igc_compliance_log", "certificate_expiry_log", "eu_ets_surrender",
      "cargo_records", "bor_daily_summary", "vessel_tanks",
      "digital_twin_parameters", "digital_twin_assessments",
      "charter_party_audit", "voyage_weather_data", "voyage_fuel_switch_log",
      "voyage_eca_events">>)

\* What seed_if_empty fills on a connection of its own, a bulk INSERT for each
\* generator of static rows.
StaticZones == <<Stmt("seed", "eca_zones")>>
StaticVessels == <<Stmt("seed", "vessels")>>
StaticTanks == <<Stmt("seed", "vessel_tanks")>>
StaticVoyages == <<Stmt("seed", "voyages")>>
StaticWaypoints == <<Stmt("map", "voyages"), Stmt("seed", "voyage_waypoints")>>
StaticCertificates == <<Stmt("seed", "certificates")>>
StaticCii == <<Stmt("seed", "cii_assessment")>>
StaticHull == <<Stmt("seed", "hull_performance")>>
StaticTwin == <<Stmt("seed", "digital_twin_state")>>
StaticAlerts == <<Stmt("seed", "predictive_alerts")>>
StaticCharter == <<Stmt("read", "voyages"), Stmt("seed", "charter_party")>>

\* seed_if_empty: COUNT(*), then the bulk INSERTs.
SeedStatements ==
  <<Stmt("count", "vessels")>> \o StaticZones \o StaticVessels \o StaticTanks
    \o StaticVoyages \o StaticWaypoints \o StaticCertificates \o StaticCii
    \o StaticHull \o StaticTwin \o StaticAlerts \o StaticCharter

Statements(kind) ==
  CASE kind = "start"    -> SeedStatements
    [] kind = "generate" -> GenerateStatements
    [] kind = "reset"    -> ResetStatements

-----------------------------------------------------------------------------
\* The database.
Row(table, id, up, by) == [table |-> table, id |-> id, up |-> up, by |-> by]
In(table) == {r \in rows : r.table = table}
Exists(ref) == \E r \in rows : r.table = ref[1] /\ r.id = ref[2]
ReferredTo(r) == \E q \in rows : <<r.table, r.id>> \in q.up

\* The rows with r's unique columns.  A vessel's IMO number and a voyage's number
\* tell the generator's rows from the static ones; a tank's name does not.
Twins(r) ==
  {q \in In(r.table) : /\ Schema(dialect)[r.table].unique # {}
                       /\ q.up = r.up
                       /\ r.table \in {"vessels", "voyages"} => q.by = r.by}

\* Mutant of Deletable: foreign keys are not enforced (PRAGMA foreign_keys left off).
DeletableRegardless(table) == table \in DOMAIN Schema(dialect)

Deletable(table) ==
  /\ table \in DOMAIN Schema(dialect)
  /\ \A r \in In(table) : ~ReferredTo(r)

ReferencesHold(new) == \A r \in new : \A ref \in r.up : Exists(ref)

\* insert_returning_id asks PostgreSQL for the column <table>_id.
ReturnsKey(table) ==
  dialect = "postgres" => Schema(dialect)[table].key = table \o "_id"

-----------------------------------------------------------------------------
\* Workers.
NoJob(kind) ==
  [kind |-> kind, pc |-> 0, batch |-> 0, vessel |-> 0, read |-> {}, alone |-> FALSE]
NoOutcome == [kind |-> "none", ok |-> TRUE, alone |-> FALSE, table |-> "none", batch |-> 0]

Busy(w) == job[w].kind \notin {"down", "idle"}
Current(w) == Statements(job[w].kind)[job[w].pc]
At(w, op) == Busy(w) /\ Current(w).op = op

\* The jobs of the other workers once w touches the database.
Disturbed(w) ==
  [x \in Workers |-> IF x # w /\ Busy(x) THEN [job[x] EXCEPT !.alone = FALSE] ELSE job[x]]

Begin(w, kind) ==
  /\ batches' = batches + 1
  /\ job' = [Disturbed(w) EXCEPT ![w] =
               [NoJob(kind) EXCEPT !.pc = 1, !.batch = batches + 1,
                                   !.alone = \A x \in Workers \ {w} : ~Busy(x)]]
  /\ outcome' = NoOutcome

\* The job of w ends, answering success or an error raised at its statement.
\* A failed seeding is caught: the worker serves all the same.
Finish(w, ok) ==
  /\ job' = [job EXCEPT ![w] = NoJob("idle")]
  /\ outcome' = [kind |-> job[w].kind, ok |-> ok, alone |-> job[w].alone,
                 table |-> Current(w).table, batch |-> job[w].batch]

\* The statement of w succeeded and left `new` rows; the job keeps what it learnt.
Proceed(w, new, vessel, read) ==
  /\ rows' = new
  /\ IF job[w].pc = Len(Statements(job[w].kind))
       THEN Finish(w, TRUE)
       ELSE /\ job' = [job EXCEPT ![w].pc = @ + 1, ![w].vessel = vessel, ![w].read = read]
            /\ outcome' = NoOutcome

Continue(w, new) == Proceed(w, new, job[w].vessel, job[w].read)
Fail(w) == Finish(w, FALSE) /\ UNCHANGED rows
Others == UNCHANGED <<dialect, batches, budget>>

-----------------------------------------------------------------------------
\* Deleting.
TryDelete(w) ==
  /\ At(w, "try_delete")
  /\ LET t == Current(w).table
     IN Continue(w, IF Deletable(t) THEN rows \ In(t) ELSE rows)
  /\ Others

Delete(w) ==
  /\ At(w, "delete")
  /\ LET t == Current(w).table
     IN IF Deletable(t) THEN Continue(w, rows \ In(t)) ELSE Fail(w)
  /\ Others

-----------------------------------------------------------------------------
\* Generating.
\* Vessel.save: SELECT by IMO number, and in a later statement UPDATE or INSERT.
FindVessel(w) ==
  /\ At(w, "find")
  /\ Proceed(w, rows, 0, {r.id : r \in {q \in In("vessels") : q.by = "generate"}})
  /\ Others

\* On PostgreSQL a refused INSERT writes nothing and the key comes from lastval().
SaveVessel(w) ==
  /\ At(w, "save")
  /\ LET new == Row("vessels", job[w].batch, {}, "generate")
     IN \/ \E id \in job[w].read : Proceed(w, rows, id, {})
        \/ /\ job[w].read = {} /\ In("vessels") = {}
           /\ Proceed(w, rows \cup {new}, job[w].batch, {})
        \/ /\ job[w].read = {} /\ In("vessels") # {}
           /\ IF dialect = "postgres" THEN Proceed(w, rows, 0, {}) ELSE Fail(w)
  /\ Others

\* INSERT OR REPLACE: SQLite puts a new row in the place of the old one, which
\* must not be referred to; on PostgreSQL the old row stays.
Replace(w) ==
  /\ At(w, "replace")
  /\ LET t == Current(w).table
         up == {<<p, job[w].vessel>> : p \in Schema(dialect)[t].refs}
         new == Row(t, job[w].batch, up, "generate")
         old == Twins(new)
     IN CASE ~ReferencesHold({new}) -> Fail(w)
          [] old # {} /\ dialect = "postgres" -> Continue(w, rows)
          [] dialect = "sqlite" /\ (\E q \in old : ReferredTo(q)) -> Fail(w)
          [] OTHER -> Continue(w, (rows \ old) \cup {new})
  /\ Others

ReadTanks(w) ==
  /\ At(w, "read") /\ job[w].kind = "generate"
  /\ Proceed(w, rows, job[w].vessel,
             {r.id : r \in {q \in In("vessel_tanks") : <<"vessels", job[w].vessel>> \in q.up}})
  /\ Others

\* What an INSERT of the generator writes: a row per tank read for the cargo
\* records, else one row under the job's vessel, voyage and certificate.
NewRows(w, t) ==
  LET refs == Schema(dialect)[t].refs
                \cup (IF t = "certificate_expiry_log" THEN {"certificates"} ELSE {})
      up == {<<p, IF p = "vessels" THEN job[w].vessel ELSE job[w].batch>>
               : p \in refs \ {"vessel_tanks"}}
  IN IF t = "cargo_records"
       THEN {Row(t, job[w].batch, up \cup {<<"vessel_tanks", k>>}, "generate") : k \in job[w].read}
       ELSE {Row(t, job[w].batch, up, "generate")}

Insert(w) ==
  /\ At(w, "insert") \/ At(w, "insert_returning")
  /\ LET t == Current(w).table
         new == NewRows(w, t)
         taken == \E r \in new : Twins(r) # {}
     IN CASE Current(w).op = "insert_returning" /\ ~ReturnsKey(t) -> Fail(w)
          [] ~ReferencesHold(new) -> Fail(w)
          [] taken /\ dialect = "sqlite" -> Fail(w)
          [] taken /\ dialect = "postgres" -> Continue(w, rows)
          [] OTHER -> Continue(w, rows \cup new)
  /\ Others

-----------------------------------------------------------------------------
\* Seeding.
\* Mutant of Count: a table that has its rows is no reason to stop.
CountNothing(w) ==
  /\ At(w, "count")
  /\ IF dialect # "postgres" THEN Finish(w, TRUE) /\ UNCHANGED rows ELSE Continue(w, rows)
  /\ Others

\* SELECT COUNT(*) FROM vessels; nothing is seeded without PostgreSQL.
Count(w) ==
  /\ At(w, "count")
  /\ IF In("vessels") # {} \/ dialect # "postgres"
       THEN Finish(w, TRUE) /\ UNCHANGED rows
       ELSE Continue(w, rows)
  /\ Others

\* The static vessels carry their keys: an equal IMO number is skipped, a key
\* taken by a generated vessel is an error.
SeedVessels(w) ==
  /\ At(w, "seed") /\ Current(w).table = "vessels"
  /\ IF \E r \in In("vessels") : r.by = "generate"
       THEN Fail(w)
       ELSE Continue(w, IF In("vessels") = {} THEN rows \cup {Row("vessels", 0, {}, "start")}
                                             ELSE rows)
  /\ Others

\* The SELECTs that give the voyages their waypoints and charter parties.
ReadVoyages(w) ==
  /\ \/ At(w, "map")
     \/ At(w, "read") /\ job[w].kind = "start"
  /\ Proceed(w, rows, 0,
             {r.id : r \in {q \in In("voyages") : Current(w).op = "map" => q.by = "start"}})
  /\ Others

\* A bulk INSERT: ON CONFLICT ... DO NOTHING on the tables with unique columns.
Seed(w) ==
  /\ At(w, "seed") /\ Current(w).table # "vessels"
  /\ LET t == Current(w).table
         parents == IF t \in {"voyage_waypoints", "charter_party"}
                      THEN {{<<"voyages", v>>} : v \in job[w].read}
                      ELSE {{<<p, 0>> : p \in Schema(dialect)[t].refs}}
         new == {Row(t, job[w].batch, up, "start") : up \in parents}
     IN IF ReferencesHold(new)
          THEN Continue(w, rows \cup {r \in new : Twins(r) = {}})
          ELSE Fail(w)
  /\ Others

-----------------------------------------------------------------------------
\* Requests, starts and crashes.
Start(w) ==
  /\ job[w].kind = "down"
  /\ Cardinality({x \in Workers : job[x].kind # "down"}) < budget.workers
  /\ Begin(w, "start")
  /\ UNCHANGED <<dialect, rows, budget>>

Request(w, kind) ==
  /\ job[w].kind = "idle" /\ budget.requests > 0
  /\ Begin(w, kind)
  /\ budget' = [budget EXCEPT !.requests = @ - 1]
  /\ UNCHANGED <<dialect, rows>>

Generate(w) == Request(w, "generate")
Reset(w) == Request(w, "reset")

\* Another handler appends a row under an existing vessel or voyage.
Record(w) ==
  /\ job[w].kind = "idle" /\ budget.records > 0
  /\ \E t \in Recorded : \E p \in Schema(dialect)[t].refs : \E r \in In(p) :
       LET new == Row(t, 0, {<<p, r.id>>}, "other")
       IN Twins(new) = {} /\ rows' = rows \cup {new}
  /\ budget' = [budget EXCEPT !.records = @ - 1]
  /\ job' = Disturbed(w)
  /\ outcome' = NoOutcome
  /\ UNCHANGED <<dialect, batches>>

Crash(w) ==
  /\ job[w].kind # "down" /\ budget.crashes > 0
  /\ job' = [job EXCEPT ![w] = NoJob("down")]
  /\ budget' = [budget EXCEPT !.crashes = @ - 1]
  /\ outcome' = NoOutcome
  /\ UNCHANGED <<dialect, rows, batches>>

-----------------------------------------------------------------------------
DemoInit ==
  /\ dialect \in Dialects
  /\ rows = {}
  /\ job = [w \in Workers |-> NoJob("down")]
  /\ batches = 0
  /\ budget \in Budgets
  /\ outcome = NoOutcome

DemoNext ==
  \E w \in Workers :
    \/ TryDelete(w) \/ Delete(w)
    \/ FindVessel(w) \/ SaveVessel(w) \/ Replace(w) \/ ReadTanks(w) \/ Insert(w)
    \/ Count(w) \/ SeedVessels(w) \/ ReadVoyages(w) \/ Seed(w)
    \/ Start(w) \/ Generate(w) \/ Reset(w) \/ Record(w) \/ Crash(w)

DemoSpec == DemoInit /\ [][DemoNext]_demoVars

-----------------------------------------------------------------------------
Kinds == {"start", "generate", "reset"}

\* Every row lies in a table of the schema and refers to rows that exist, every
\* job is at one of its statements.
DemoTypeOK ==
  /\ dialect \in Dialects
  /\ \A r \in rows : r.table \in DOMAIN Schema(dialect) /\ (\A ref \in r.up : Exists(ref))
  /\ \A w \in Workers : \/ job[w].kind \in {"down", "idle"}
                        \/ /\ job[w].kind \in Kinds
                           /\ job[w].pc \in DOMAIN Statements(job[w].kind)
                           /\ job[w].batch \in 1..batches

\* POST /api/demo/generate, when no other job runs beside it, gets through its
\* forty-two DELETEs whatever crashed seedings, half-done resets and appended
\* records left behind; the only thing that stops it is add_certificate on
\* PostgreSQL, which asks for a column the certificates table does not have.
LoneGenerateStopsOnlyAtCertificates ==
  outcome.kind = "generate" /\ outcome.alone /\ ~outcome.ok
    => dialect = "postgres" /\ outcome.table = "certificates"

\* When such a generate answers "5 vessels, 20 voyages, full telemetry seeded",
\* every table it fills holds its rows, and no older vessel is left beside them.
AnsweredFleetIsWhole ==
  outcome.kind = "generate" /\ outcome.alone /\ outcome.ok
    => /\ {r.id : r \in In("vessels")} = {outcome.batch}
       /\ \A i \in DOMAIN FillStatements :
            \E r \in In(FillStatements[i].table) : r.id = outcome.batch

\* POST /api/demo/reset never answers "Database reset successfully": it deletes
\* voyages before their children, and its last tables are not in the schema.
ResetStopsShort == outcome.kind = "reset" => ~outcome.ok

\* seed_if_empty only looks at the vessels, and yet a seeding that no other job
\* disturbs finds no row of an earlier one beside its own: the foreign keys do
\* not let the vessels go before their children.  The static rows can be doubled
\* only by workers that start together.
LoneSeedFindsNoOlderRows ==
  \A w \in Workers : job[w].kind = "start" /\ job[w].alone /\ job[w].pc > 1
    => \A r \in rows : r.up # {} => r.id = job[w].batch

\* The demo data is sound in the sense of the four statements above.
DemoDataIsSound ==
  /\ LoneGenerateStopsOnlyAtCertificates /\ AnsweredFleetIsWhole
  /\ ResetStopsShort /\ LoneSeedFindsNoOlderRows
=============================================================================
