----------------------------- MODULE FleetSchema -----------------------------
(***************************************************************************)
(* The tables of the fleet performance database (database/schema.py): for  *)
(* each one its key column, the tables its rows must refer to, the tables  *)
(* they may refer to, and the columns that are unique.  The source writes  *)
(* the schema twice, once for SQLite and once for PostgreSQL.  No foreign  *)
(* key says ON DELETE, so a row that is referred to cannot be deleted, and *)
(* a key value is never given out twice (AUTOINCREMENT, SERIAL).  Columns  *)
(* of data, indexes and CHECKs are left out.                               *)
(***************************************************************************)
EXTENDS Sequences

VARIABLE dialect   \* the deployment's database: DATABASE_URL, read at import

Table(key, refs, optional, unique) ==
  [key |-> key, refs |-> refs, optional |-> optional, unique |-> unique]

\* The tables of all the groups; no two groups share a table.
TablesOf(groups) ==
  [t \in UNION {DOMAIN g : g \in groups} |-> (CHOOSE g \in groups : t \in DOMAIN g)[t]]

-----------------------------------------------------------------------------
\* SCHEMA_SQL: the SQLite dialect.
\* The vessels and their tanks.
SqliteVesselTables ==
  [vessels |-> Table("vessel_id", {}, {}, {<<"imo_number">>}),
   vessel_tanks |-> Table("tank_id", {"vessels"}, {}, {<<"vessel_id", "tank_name">>})]

\* The voyages and their waypoints.
SqliteVoyageTables ==
  [voyages |-> Table("voyage_id", {"vessels"}, {}, {<<"vessel_id", "voyage_number">>}),
   voyage_waypoints |-> Table("waypoint_id", {"voyages"}, {}, {})]

\* Cargo and boil-off records.
SqliteCargoTables ==
  [cargo_records |-> Table("cargo_id", {"voyages", "vessel_tanks"}, {}, {}),
   bor_daily_summary |-> Table("bor_id", {"voyages"}, {}, {})]

\* Engine, cylinder, auxiliary and hull records.
SqliteMachineryTables ==
  [engine_performance |-> Table("engine_id", {"voyages"}, {}, {}),
   engine_cylinder_data |-> Table("cyl_id", {"engine_performance"}, {}, {}),
   auxiliary_engines |-> Table("aux_id", {"voyages"}, {}, {}),
   hull_performance |-> Table("hull_id", {"vessels"}, {}, {})]

\* CII, EU ETS and FuelEU records.
SqliteAssessmentTables ==
  [cii_assessment |-> Table("cii_id", {"vessels"}, {}, {}),
   eu_ets_records |-> Table("ets_id", {"voyages"}, {}, {}),
   fueleu_records |-> Table("fueleu_id", {"voyages"}, {}, {})]

\* Emissions, ECA events and fuel switches.
SqliteEmissionTables ==
  [emissions_log |-> Table("emission_id", {"voyages"}, {}, {}),
   eca_events |-> Table("event_id", {"vessels"}, {"voyages"}, {}),
   fuel_switch_log |-> Table("switch_id", {"vessels"}, {"voyages"}, {})]

\* Charter parties, their performance records and off-hire events.
SqliteCharterTables ==
  [charter_party |-> Table("cp_id", {"voyages"}, {}, {}),
   charter_performance |-> Table("perf_id", {"voyages"}, {"charter_party"}, {}),
   off_hire_events |-> Table("off_hire_id", {"voyages"}, {}, {})]

\* Digital twin states, maintenance and alerts.
SqliteTwinTables ==
  [digital_twin_state |-> Table("twin_id", {"vessels"}, {}, {}),
   maintenance_events |-> Table("maintenance_id", {"vessels"}, {}, {}),
   predictive_alerts |-> Table("alert_id", {"vessels"}, {}, {})]

\* Scrubber, SCR, weather, sensor and audit records.
SqliteExhaustTables ==
  [scrubber_data |-> Table("scrubber_id", {"voyages"}, {}, {}),
   scr_data |-> Table("scr_id", {"voyages"}, {}, {}),
   weather_data |-> Table("weather_id", {}, {"voyages"}, {}),
   sensor_readings |-> Table("reading_id", {"vessels"}, {}, {}),
   audit_log |-> Table("log_id", {}, {}, {})]

\* Certificates, bunkering, zones and rating boundaries.
SqliteCertificateTables ==
  [certificates |-> Table("cert_id", {"vessels"}, {}, {}),
   bunkering_records |-> Table("bunker_id", {"vessels"}, {"voyages"}, {}),
   eca_zones |-> Table("zone_id", {}, {}, {<<"zone_name">>}),
   cii_rating_boundaries |-> Table("boundary_id", {}, {}, {<<"ship_type", "year">>})]

\* EEXI, engine power limits and SEEMP.
SqliteEfficiencyTables ==
  [eexi_assessment |-> Table("assessment_id", {"vessels"}, {}, {<<"vessel_id", "assessment_year">>}),
   epl_config |-> Table("epl_id", {"vessels"}, {}, {}),
   seemp_measures |-> Table("measure_id", {"vessels"}, {}, {}),
   seemp_reports |-> Table("report_id", {"vessels"}, {}, {<<"vessel_id", "assessment_year">>})]

\* EGR, IGC and expiry logs, surrendered allowances, users.
SqliteLogTables ==
  [egr_data |-> Table("egr_id", {"voyages"}, {}, {}),
   igc_compliance_log |-> Table("igc_id", {"vessels"}, {"vessel_tanks"}, {}),
   certificate_expiry_log |-> Table("log_id", {"vessels"}, {"certificates"}, {}),
   eu_ets_surrender |-> Table("surrender_id", {"vessels"}, {}, {<<"vessel_id", "compliance_year">>}),
   users |-> Table("user_id", {}, {}, {<<"username">>, <<"email">>})]

SqliteSchema ==
  TablesOf({SqliteVesselTables, SqliteVoyageTables, SqliteCargoTables,
            SqliteMachineryTables, SqliteAssessmentTables, SqliteEmissionTables,
            SqliteCharterTables, SqliteTwinTables, SqliteExhaustTables,
            SqliteCertificateTables, SqliteEfficiencyTables, SqliteLogTables})

-----------------------------------------------------------------------------
\* PG_SCHEMA_SQL: the PostgreSQL dialect.
\* The vessels and their tanks.
PgVesselTables ==
  [vessels |-> Table("vessel_id", {}, {}, {<<"imo_number">>}),
   vessel_tanks |-> Table("tank_id", {"vessels"}, {}, {<<"vessel_id", "tank_name">>})]

\* The voyages and their waypoints.
PgVoyageTables ==
  [voyages |-> Table("voyage_id", {"vessels"}, {}, {<<"vessel_id", "voyage_number">>}),
   voyage_waypoints |-> Table("waypoint_id", {"voyages"}, {}, {})]

\* Cargo and boil-off records.
PgCargoTables ==
  [cargo_records |-> Table("cargo_id", {"voyages", "vessel_tanks"}, {}, {}),
   bor_daily_summary |-> Table("bor_id", {"voyages"}, {}, {})]

\* Engine, cylinder, auxiliary and hull records.
PgMachineryTables ==
  [engine_performance |-> Table("engine_id", {"voyages"}, {}, {}),
   engine_cylinder_data |-> Table("cyl_id", {"engine_performance"}, {}, {}),
   auxiliary_engines |-> Table("aux_id", {"voyages"}, {}, {}),
   hull_performance |-> Table("hull_id", {"vessels"}, {}, {})]

\* CII, EU ETS and FuelEU records.
PgAssessmentTables ==
  [cii_assessment |-> Table("cii_id", {"vessels"}, {}, {}),
   eu_ets_records |-> Table("ets_id", {"voyages"}, {}, {}),
   fueleu_records |-> Table("fueleu_id", {"voyages"}, {}, {})]

\* Emissions, ECA events and fuel switches.
PgEmissionTables ==
  [emissions_log |-> Table("emission_id", {"voyages"}, {}, {}),
   eca_events |-> Table("event_id", {"vessels"}, {"voyages"}, {}),
   fuel_switch_log |-> Table("switch_id", {"vessels"}, {"voyages"}, {})]

\* Charter parties, their performance records and off-hire events.
PgCharterTables ==
  [charter_party |-> Table("cp_id", {"voyages"}, {}, {}),
   charter_performance |-> Table("perf_id", {"voyages"}, {"charter_party"}, {}),
   off_hire_events |-> Table("off_hire_id", {"voyages"}, {}, {})]

\* Digital twin states, maintenance and alerts.
PgTwinTables ==
  [digital_twin_state |-> Table("twin_id", {"vessels"}, {}, {}),
   maintenance_events |-> Table("maintenance_id", {"vessels"}, {}, {}),
   predictive_alerts |-> Table("alert_id", {"vessels"}, {}, {})]

\* Scrubber, SCR, weather, sensor and audit records.
PgExhaustTables ==
  [scrubber_data |-> Table("scrubber_id", {"voyages"}, {}, {}),
   scr_data |-> Table("scr_id", {"voyages"}, {}, {}),
   weather_data |-> Table("weather_id", {}, {"voyages"}, {}),
   sensor_readings |-> Table("reading_id", {"vessels"}, {}, {}),
   audit_log |-> Table("log_id", {}, {}, {})]

\* Certificates, bunkering, zones and rating boundaries.
PgCertificateTables ==
  [certificates |-> Table("cert_id", {"vessels"}, {}, {}),
   bunkering_records |-> Table("bunker_id", {"vessels"}, {"voyages"}, {}),
   eca_zones |-> Table("zone_id", {}, {}, {<<"zone_name">>}),
   cii_rating_boundaries |-> Table("boundary_id", {}, {}, {<<"ship_type", "year">>})]

\* EEXI, engine power limits and SEEMP.
PgEfficiencyTables ==
  [eexi_assessment |-> Table("assessment_id", {"vessels"}, {}, {<<"vessel_id", "assessment_year">>}),
   epl_config |-> Table("epl_id", {"vessels"}, {}, {}),
   seemp_measures |-> Table("measure_id", {"vessels"}, {}, {}),
   seemp_reports |-> Table("report_id", {"vessels"}, {}, {<<"vessel_id", "assessment_year">>})]

\* EGR, IGC and expiry logs, surrendered allowances, users.
PgLogTables ==
  [egr_data |-> Table("egr_id", {"voyages"}, {}, {}),
   igc_compliance_log |-> Table("igc_id", {"vessels"}, {"vessel_tanks"}, {}),
   certificate_expiry_log |-> Table("log_id", {"vessels"}, {"certificates"}, {}),
   eu_ets_surrender |-> Table("surrender_id", {"vessels"}, {}, {<<"vessel_id", "compliance_year">>}),
   users |-> Table("user_id", {}, {}, {<<"username">>, <<"email">>})]

PgSchema ==
  TablesOf({PgVesselTables, PgVoyageTables, PgCargoTables,
            PgMachineryTables, PgAssessmentTables, PgEmissionTables,
            PgCharterTables, PgTwinTables, PgExhaustTables,
            PgCertificateTables, PgEfficiencyTables, PgLogTables})

-----------------------------------------------------------------------------
Dialects == {"sqlite", "postgres"}

\* create_all_tables: the tables of the deployment's database.
Schema(d) == IF d = "postgres" THEN PgSchema ELSE SqliteSchema

\* The two texts declare the same keys, references and unique columns.
ASSUME DialectsAgree == SqliteSchema = PgSchema

\* The key of certificates is not named after the table.
ASSUME CertificateKey ==
  PgSchema["certificates"].key = "cert_id" /\ "cert_id" # "certificates" \o "_id"
=============================================================================
