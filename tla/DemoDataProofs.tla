---------------------------- MODULE DemoDataProofs ----------------------------
(***************************************************************************)
(* Proofs about the demo data: what the interleaved statements of any      *)
(* number of workers can and cannot leave in the database, for every set   *)
(* of recorded tables and every bound.  The invariant DemoInv says that    *)
(* references hold and jobs are where they should be, and follows a        *)
(* generation that runs alone through its fifty-eight statements: what it  *)
(* has emptied (Cleared), and what it has filled and under which vessel    *)
(* (Filled).  Another worker's statement ends that loneliness, so only the *)
(* generation's own statements have to keep the second half.               *)
(*                                                                         *)
(*   schema and statement lists, read once                                 *)
(*   what each statement does to the database          (StatementEffect)   *)
(*   what each step leaves of the other workers' jobs  (EveryStepLeaves)   *)
(*   a lone seeding, a reset, a lone generation        (LoneStep)          *)
(*   the invariant and the theorems                                        *)
(***************************************************************************)
EXTENDS DemoData, SequenceTheorems, TLAPS

-----------------------------------------------------------------------------
\* The schema, read once: what each table refers to.
Roots == {"vessels", "weather_data", "audit_log", "eca_zones", "cii_rating_boundaries", "users"}
OfVessels ==
  {"vessel_tanks", "voyages", "hull_performance", "cii_assessment", "eca_events", "fuel_switch_log",
   "digital_twin_state", "maintenance_events", "predictive_alerts", "sensor_readings",
   "certificates", "bunkering_records", "eexi_assessment", "epl_config", "seemp_measures",
   "seemp_reports", "igc_compliance_log", "certificate_expiry_log", "eu_ets_surrender"}
OfVoyages ==
  {"voyage_waypoints", "bor_daily_summary", "engine_performance", "auxiliary_engines",
   "eu_ets_records", "fueleu_records", "emissions_log", "charter_party", "charter_performance",
   "off_hire_events", "scrubber_data", "scr_data", "egr_data"}
WithUniqueColumns ==
  {"vessels", "vessel_tanks", "voyages", "eca_zones", "cii_rating_boundaries", "eexi_assessment",
   "seemp_reports", "eu_ets_surrender", "users"}
AsRead(t, table) ==
  /\ \/ t \in Roots /\ table.refs = {}
     \/ t \in OfVessels /\ table.refs = {"vessels"}
     \/ t \in OfVoyages /\ table.refs = {"voyages"}
     \/ t = "cargo_records" /\ table.refs = {"voyages", "vessel_tanks"}
     \/ t = "engine_cylinder_data" /\ table.refs = {"engine_performance"}
  /\ t \notin WithUniqueColumns => table.unique = {}

\* Groups put together hold each table as one of them declares it.
LEMMA Joined ==
  ASSUME NEW groups, \A g \in groups : \A t \in DOMAIN g : AsRead(t, g[t])
  PROVE  /\ DOMAIN TablesOf(groups) = UNION {DOMAIN g : g \in groups}
         /\ \A t \in DOMAIN TablesOf(groups) : AsRead(t, TablesOf(groups)[t])
<1>1. DOMAIN TablesOf(groups) = UNION {DOMAIN g : g \in groups}
  BY DEF TablesOf
<1>2. ASSUME NEW t \in UNION {DOMAIN g : g \in groups}
      PROVE  AsRead(t, TablesOf(groups)[t])
  <2> DEFINE g == CHOOSE h \in groups : t \in DOMAIN h
  <2>1. g \in groups /\ t \in DOMAIN g
    BY <1>2
  <2>2. TablesOf(groups)[t] = g[t]
    BY DEF TablesOf
  <2> HIDE DEF g
  <2>3. AsRead(t, g[t])
    BY <2>1
  <2> QED  BY <2>2, <2>3
<1> QED  BY <1>1, <1>2

\* Every group of tables as it is declared.
LEMMA Groups ==
  /\ \A t \in DOMAIN SqliteVesselTables : AsRead(t, SqliteVesselTables[t])
  /\ \A t \in DOMAIN SqliteVoyageTables : AsRead(t, SqliteVoyageTables[t])
  /\ \A t \in DOMAIN SqliteCargoTables : AsRead(t, SqliteCargoTables[t])
  /\ \A t \in DOMAIN SqliteMachineryTables : AsRead(t, SqliteMachineryTables[t])
  /\ \A t \in DOMAIN SqliteAssessmentTables : AsRead(t, SqliteAssessmentTables[t])
  /\ \A t \in DOMAIN SqliteEmissionTables : AsRead(t, SqliteEmissionTables[t])
  /\ \A t \in DOMAIN SqliteCharterTables : AsRead(t, SqliteCharterTables[t])
  /\ \A t \in DOMAIN SqliteTwinTables : AsRead(t, SqliteTwinTables[t])
  /\ \A t \in DOMAIN SqliteExhaustTables : AsRead(t, SqliteExhaustTables[t])
  /\ \A t \in DOMAIN SqliteCertificateTables : AsRead(t, SqliteCertificateTables[t])
  /\ \A t \in DOMAIN SqliteEfficiencyTables : AsRead(t, SqliteEfficiencyTables[t])
  /\ \A t \in DOMAIN SqliteLogTables : AsRead(t, SqliteLogTables[t])
<1>1. \A t \in DOMAIN SqliteVesselTables : AsRead(t, SqliteVesselTables[t])
  BY DEF SqliteVesselTables, Table, AsRead, Roots, OfVessels, OfVoyages, WithUniqueColumns
<1>2. \A t \in DOMAIN SqliteVoyageTables : AsRead(t, SqliteVoyageTables[t])
  BY DEF SqliteVoyageTables, Table, AsRead, Roots, OfVessels, OfVoyages, WithUniqueColumns
<1>3. \A t \in DOMAIN SqliteCargoTables : AsRead(t, SqliteCargoTables[t])
  BY DEF SqliteCargoTables, Table, AsRead, Roots, OfVessels, OfVoyages, WithUniqueColumns
<1>4. \A t \in DOMAIN SqliteMachineryTables : AsRead(t, SqliteMachineryTables[t])
  BY DEF SqliteMachineryTables, Table, AsRead, Roots, OfVessels, OfVoyages, WithUniqueColumns
<1>5. \A t \in DOMAIN SqliteAssessmentTables : AsRead(t, SqliteAssessmentTables[t])
  BY DEF SqliteAssessmentTables, Table, AsRead, Roots, OfVessels, OfVoyages, WithUniqueColumns
<1>6. \A t \in DOMAIN SqliteEmissionTables : AsRead(t, SqliteEmissionTables[t])
  BY DEF SqliteEmissionTables, Table, AsRead, Roots, OfVessels, OfVoyages, WithUniqueColumns
<1>7. \A t \in DOMAIN SqliteCharterTables : AsRead(t, SqliteCharterTables[t])
  BY DEF SqliteCharterTables, Table, AsRead, Roots, OfVessels, OfVoyages, WithUniqueColumns
<1>8. \A t \in DOMAIN SqliteTwinTables : AsRead(t, SqliteTwinTables[t])
  BY DEF SqliteTwinTables, Table, AsRead, Roots, OfVessels, OfVoyages, WithUniqueColumns
<1>9. \A t \in DOMAIN SqliteExhaustTables : AsRead(t, SqliteExhaustTables[t])
  BY DEF SqliteExhaustTables, Table, AsRead, Roots, OfVessels, OfVoyages, WithUniqueColumns
<1>10. \A t \in DOMAIN SqliteCertificateTables : AsRead(t, SqliteCertificateTables[t])
  BY DEF SqliteCertificateTables, Table, AsRead, Roots, OfVessels, OfVoyages, WithUniqueColumns
<1>11. \A t \in DOMAIN SqliteEfficiencyTables : AsRead(t, SqliteEfficiencyTables[t])
  BY DEF SqliteEfficiencyTables, Table, AsRead, Roots, OfVessels, OfVoyages, WithUniqueColumns
<1>12. \A t \in DOMAIN SqliteLogTables : AsRead(t, SqliteLogTables[t])
  BY DEF SqliteLogTables, Table, AsRead, Roots, OfVessels, OfVoyages, WithUniqueColumns
<1> QED  BY <1>1, <1>2, <1>3, <1>4, <1>5, <1>6, <1>7, <1>8, <1>9, <1>10, <1>11, <1>12

\* The tables the generator and the seeding write.
Written ==
  {"eca_zones", "vessels", "vessel_tanks", "voyages", "voyage_waypoints", "cargo_records",
   "bor_daily_summary", "engine_performance", "hull_performance", "charter_party",
   "charter_performance", "certificates", "certificate_expiry_log", "seemp_measures",
   "cii_assessment", "digital_twin_state", "predictive_alerts"}

\* The schema of either dialect.
LEMMA SchemaAsRead ==
  ASSUME NEW d \in Dialects
  PROVE  /\ \A t \in DOMAIN Schema(d) : AsRead(t, Schema(d)[t])
         /\ Written \subseteq DOMAIN Schema(d) /\ Schema(d) = SqliteSchema
<1> DEFINE groups == {SqliteVesselTables, SqliteVoyageTables, SqliteCargoTables,
                       SqliteMachineryTables, SqliteAssessmentTables, SqliteEmissionTables,
                       SqliteCharterTables, SqliteTwinTables, SqliteExhaustTables,
                       SqliteCertificateTables, SqliteEfficiencyTables, SqliteLogTables}
<1>1. Schema(d) = SqliteSchema /\ SqliteSchema = TablesOf(groups)
  <2>1. Schema(d) = SqliteSchema
    BY DialectsAgree DEF Schema
  <2> QED  BY <2>1 DEF SqliteSchema
<1>2. \A g \in groups : \A t \in DOMAIN g : AsRead(t, g[t])
  BY Groups
<1>3. Written \subseteq UNION {DOMAIN g : g \in groups}
  <2>1. ASSUME NEW t \in Written PROVE \E g \in groups : t \in DOMAIN g
    BY DEF Written, SqliteVesselTables, SqliteVoyageTables, SqliteCargoTables,
           SqliteMachineryTables, SqliteAssessmentTables, SqliteEmissionTables,
           SqliteCharterTables, SqliteTwinTables, SqliteExhaustTables, SqliteCertificateTables,
           SqliteEfficiencyTables, SqliteLogTables
  <2> QED  BY <2>1
<1> HIDE DEF groups
<1>4. /\ DOMAIN TablesOf(groups) = UNION {DOMAIN g : g \in groups}
      /\ \A t \in DOMAIN TablesOf(groups) : AsRead(t, TablesOf(groups)[t])
  BY <1>2, Joined
<1> QED  BY <1>1, <1>3, <1>4

-----------------------------------------------------------------------------
\* The statements of a job, one by one.
ClearedOneByOne ==
  <<"charter_party_audit", "digital_twin_assessments", "digital_twin_parameters",
    "voyage_eca_events", "voyage_fuel_switch_log", "cargo_records", "bor_daily_summary",
    "eu_ets_surrender", "certificate_expiry_log", "igc_compliance_log", "egr_data",
    "seemp_reports", "seemp_measures", "epl_config", "eexi_assessment", "certificates",
    "predictive_alerts", "scr_data", "scrubber_data", "fueleu_records", "eu_ets_records",
    "cii_assessment", "auxiliary_engines", "engine_performance", "engine_cylinder_data",
    "hull_performance", "emissions_log", "eca_events", "fuel_switch_log", "charter_party",
    "charter_performance", "off_hire_events", "digital_twin_state", "maintenance_events",
    "weather_data", "sensor_readings", "bunkering_records", "voyage_weather_data",
    "voyage_waypoints", "voyages">>
ResetOneByOne ==
  <<"voyage_waypoints", "voyages", "engine_performance", "auxiliary_engines",
    "cii_assessment", "eu_ets_records", "fueleu_records", "scrubber_data", "scr_data",
    "predictive_alerts", "certificates", "eexi_assessment", "epl_config", "seemp_measures",
    "seemp_reports", "egr_data", "igc_compliance_log", "certificate_expiry_log",
    "eu_ets_surrender", "cargo_records", "bor_daily_summary", "vessel_tanks",
    "digital_twin_parameters", "digital_twin_assessments", "charter_party_audit",
    "voyage_weather_data", "voyage_fuel_switch_log", "voyage_eca_events">>
Named == Written \cup {ClearedOneByOne[i] : i \in 1..40} \cup {ResetOneByOne[i] : i \in 1..28}
Operations ==
  {"try_delete", "delete", "find", "save", "replace", "read", "insert", "insert_returning",
   "count", "seed", "map"}
Statement == [op : Operations, table : Named]

\* The same operation on each table of a list.
LEMMA EachStatement ==
  ASSUME NEW op \in Operations, NEW tables \in Seq(Named)
  PROVE  /\ Each(op, tables) \in Seq(Statement)
         /\ Len(Each(op, tables)) = Len(tables)
         /\ \A i \in 1..Len(tables) : Each(op, tables)[i] = Stmt(op, tables[i])
<1>1. /\ Len(tables) \in Nat /\ DOMAIN tables = 1..Len(tables)
      /\ \A i \in 1..Len(tables) : tables[i] \in Named
  BY LenProperties, ElementOfSeq
<1>2. \A i \in 1..Len(tables) : Stmt(op, tables[i]) \in Statement
  BY <1>1 DEF Stmt, Statement
<1>3. Each(op, tables) \in [1..Len(tables) -> Statement]
  BY <1>1, <1>2 DEF Each
<1>4. Each(op, tables) \in Seq(Statement)
  BY <1>1, <1>3, SeqDef
<1>5. Len(Each(op, tables)) = Len(tables)
  <2>1. /\ Len(Each(op, tables)) \in Nat
        /\ 1..Len(Each(op, tables)) = 1..Len(tables)
    BY <1>3, <1>4, LenProperties
  <2> QED  BY <1>1, <2>1
<1> QED  BY <1>1, <1>4, <1>5 DEF Each

\* One list of statements after another.
Cat(s, t) == s \o t
LEMMA OneAfterAnother ==
  ASSUME NEW s \in Seq(Statement), NEW t \in Seq(Statement)
  PROVE  /\ Cat(s, t) \in Seq(Statement) /\ Len(Cat(s, t)) = Len(s) + Len(t)
         /\ \A i \in 1..Len(s) : Cat(s, t)[i] = s[i]
         /\ \A i \in 1..Len(t) : Cat(s, t)[Len(s) + i] = t[i]
<1> DEFINE m == Len(s)
           n == Len(t)
<1>1. /\ s \o t \in Seq(Statement)
      /\ Len(s \o t) = Len(s) + Len(t)
      /\ \A i \in 1..Len(s) + Len(t) : (s \o t)[i] = IF i <= Len(s) THEN s[i] ELSE t[i - Len(s)]
  BY ConcatProperties
<1>2. m \in Nat /\ n \in Nat
  BY LenProperties
<1>3. Cat(s, t) \in Seq(Statement) /\ Len(Cat(s, t)) = m + n
  BY <1>1 DEF Cat
<1>4. \A i \in 1..m + n : Cat(s, t)[i] = IF i <= m THEN s[i] ELSE t[i - m]
  BY <1>1 DEF Cat
<1> HIDE DEF m, n
<1>5. ASSUME NEW i \in 1..m PROVE Cat(s, t)[i] = s[i]
  BY <1>2, <1>4
<1>6. ASSUME NEW i \in 1..n PROVE Cat(s, t)[m + i] = t[i]
  <2>1. m + i \in 1..m + n /\ ~(m + i <= m) /\ (m + i) - m = i
    BY <1>2
  <2> QED  BY <1>4, <2>1
<1> QED  BY <1>3, <1>5, <1>6 DEF m, n

\* The clearing tries forty tables and then insists on the last two.
LEMMA ClearPositions ==
  /\ ClearStatements \in Seq(Statement) /\ Len(ClearStatements) = 42
  /\ \A i \in 1..40 : ClearStatements[i] = Stmt("try_delete", ClearedOneByOne[i])
  /\ ClearStatements[41] = Stmt("delete", "vessel_tanks")
  /\ ClearStatements[42] = Stmt("delete", "vessels")
<1> DEFINE tried == Each("try_delete", ClearedOneByOne)
           insisted == Each("delete", <<"vessel_tanks", "vessels">>)
<1>1. ClearedOneByOne \in Seq(Named) /\ Len(ClearedOneByOne) = 40
  <2>1. Len(ClearedOneByOne) = 40 /\ DOMAIN ClearedOneByOne = 1..40
    BY DEF ClearedOneByOne
  <2>2. \A i \in 1..40 : ClearedOneByOne[i] \in Named
    BY DEF Named
  <2>3. ClearedOneByOne = [i \in 1..40 |-> ClearedOneByOne[i]]
    BY DEF ClearedOneByOne
  <2>4. ClearedOneByOne \in [1..40 -> Named]
    BY <2>2, <2>3
  <2>5. 40 \in Nat
    OBVIOUS
  <2> QED  BY <2>1, <2>4, <2>5, SeqDef
<1>2. /\ tried \in Seq(Statement) /\ Len(tried) = 40
      /\ \A i \in 1..40 : tried[i] = Stmt("try_delete", ClearedOneByOne[i])
  <2>1. "try_delete" \in Operations
    BY DEF Operations
  <2>2. /\ Each("try_delete", ClearedOneByOne) \in Seq(Statement)
        /\ Len(Each("try_delete", ClearedOneByOne)) = Len(ClearedOneByOne)
        /\ \A i \in 1..Len(ClearedOneByOne) :
             Each("try_delete", ClearedOneByOne)[i] = Stmt("try_delete", ClearedOneByOne[i])
    BY <1>1, <2>1, EachStatement
  <2> QED  BY <1>1, <2>2
<1>3. /\ insisted \in Seq(Statement) /\ Len(insisted) = 2
      /\ insisted[1] = Stmt("delete", "vessel_tanks") /\ insisted[2] = Stmt("delete", "vessels")
  <2> DEFINE last == <<"vessel_tanks", "vessels">>
  <2>1. "vessel_tanks" \in Named /\ "vessels" \in Named
    BY DEF Named, Written
  <2>2. /\ last \in Seq(Named) /\ Len(last) = 2
        /\ last[1] = "vessel_tanks" /\ last[2] = "vessels"
    BY <2>1
  <2>3. "delete" \in Operations
    BY DEF Operations
  <2> HIDE DEF last
  <2>4. /\ Each("delete", last) \in Seq(Statement) /\ Len(Each("delete", last)) = 2
        /\ \A i \in 1..2 : Each("delete", last)[i] = Stmt("delete", last[i])
    BY <2>2, <2>3, EachStatement
  <2> QED  BY <2>2, <2>4 DEF last
<1>4. ClearStatements = Cat(tried, insisted)
  BY DEF ClearStatements, ClearedOneByOne, Cat
<1> HIDE DEF tried, insisted
<1>5. /\ Cat(tried, insisted) \in Seq(Statement)
      /\ Len(Cat(tried, insisted)) = Len(tried) + Len(insisted)
      /\ \A i \in 1..Len(tried) : Cat(tried, insisted)[i] = tried[i]
      /\ \A i \in 1..Len(insisted) : Cat(tried, insisted)[Len(tried) + i] = insisted[i]
  <2>1. tried \in Seq(Statement) /\ insisted \in Seq(Statement)
    BY <1>2, <1>3
  <2> QED  BY <2>1, OneAfterAnother
<1>6. /\ ClearStatements \in Seq(Statement) /\ Len(ClearStatements) = 42
      /\ \A i \in 1..40 : ClearStatements[i] = tried[i]
      /\ \A i \in 1..2 : ClearStatements[40 + i] = insisted[i]
  <2>1. Len(tried) = 40 /\ Len(insisted) = 2
    BY <1>2, <1>3
  <2> QED  BY <1>4, <1>5, <2>1
<1>7. \A i \in 1..40 : ClearStatements[i] = Stmt("try_delete", ClearedOneByOne[i])
  <2>1. \A i \in 1..40 : tried[i] = Stmt("try_delete", ClearedOneByOne[i])
    BY <1>2
  <2> QED  BY <1>6, <2>1
<1>8. ClearStatements[41] = insisted[1] /\ ClearStatements[42] = insisted[2]
  BY <1>6
<1> QED  BY <1>3, <1>6, <1>7, <1>8

\* The reset's twenty-eight tables; the last of them is not in the schema.
LEMMA ResetPositions ==
  /\ ResetStatements \in Seq(Statement) /\ Len(ResetStatements) = 28
  /\ \A i \in 1..28 : ResetStatements[i].op = "delete"
  /\ ResetStatements[28].table = "voyage_eca_events"
<1>1. /\ ResetOneByOne \in Seq(Named) /\ Len(ResetOneByOne) = 28
      /\ ResetOneByOne[28] = "voyage_eca_events"
  <2>1. Len(ResetOneByOne) = 28 /\ ResetOneByOne[28] = "voyage_eca_events"
    BY DEF ResetOneByOne
  <2>2. \A i \in 1..28 : ResetOneByOne[i] \in Named
    BY DEF Named
  <2>3. ResetOneByOne = [i \in 1..28 |-> ResetOneByOne[i]]
    BY DEF ResetOneByOne
  <2>4. ResetOneByOne \in [1..28 -> Named]
    BY <2>2, <2>3
  <2> QED  BY <2>1, <2>4, SeqDef
<1>2. ResetStatements = Each("delete", ResetOneByOne)
  BY DEF ResetStatements, ResetOneByOne
<1>3. "delete" \in Operations
  BY DEF Operations
<1>4. \A i \in 1..28 : ResetStatements[i] = Stmt("delete", ResetOneByOne[i])
  BY <1>1, <1>2, <1>3, EachStatement
<1>5. ResetStatements \in Seq(Statement) /\ Len(ResetStatements) = 28
  BY <1>1, <1>2, <1>3, EachStatement
<1>6. \A i \in 1..28 : ResetStatements[i].op = "delete"
  BY <1>4 DEF Stmt
<1>7. ResetStatements[28].table = "voyage_eca_events"
  <2>1. ResetStatements[28] = Stmt("delete", ResetOneByOne[28])
    BY <1>4
  <2>2. ResetOneByOne[28] = "voyage_eca_events"
    BY <1>1
  <2> QED  BY <2>1, <2>2 DEF Stmt
<1> QED  BY <1>5, <1>6, <1>7

\* The sixteen statements that fill the tables, the job's step of each.
LEMMA FillPositions ==
  /\ FillStatements \in Seq(Statement) /\ Len(FillStatements) = 16
  /\ FillStatements[1] = Stmt("replace", "eca_zones")
  /\ FillStatements[2] = Stmt("find", "vessels")
  /\ FillStatements[3] = Stmt("save", "vessels")
  /\ FillStatements[4] = Stmt("replace", "vessel_tanks")
  /\ FillStatements[5] = Stmt("insert", "voyages")
  /\ FillStatements[6] = Stmt("insert", "voyage_waypoints")
  /\ FillStatements[7] = Stmt("read", "vessel_tanks")
  /\ FillStatements[8] = Stmt("insert", "cargo_records")
  /\ FillStatements[9] = Stmt("insert", "bor_daily_summary")
  /\ FillStatements[10] = Stmt("insert", "engine_performance")
  /\ FillStatements[11] = Stmt("insert", "hull_performance")
  /\ FillStatements[12] = Stmt("insert", "charter_party")
  /\ FillStatements[13] = Stmt("insert", "charter_performance")
  /\ FillStatements[14] = Stmt("insert_returning", "certificates")
  /\ FillStatements[15] = Stmt("insert", "certificate_expiry_log")
  /\ FillStatements[16] = Stmt("insert", "seemp_measures")
<1> USE DEF ZoneStatements, VesselStatements, TankStatements, VoyageStatements,
            WaypointStatements, CargoStatements, BorStatements, EngineStatements, HullStatements,
            CharterStatements, CertificateStatements, SeempStatements
<1>1. /\ ZoneStatements \in Seq(Statement) /\ VesselStatements \in Seq(Statement)
      /\ TankStatements \in Seq(Statement) /\ VoyageStatements \in Seq(Statement)
      /\ WaypointStatements \in Seq(Statement) /\ CargoStatements \in Seq(Statement)
      /\ BorStatements \in Seq(Statement) /\ EngineStatements \in Seq(Statement)
      /\ HullStatements \in Seq(Statement) /\ CharterStatements \in Seq(Statement)
      /\ CertificateStatements \in Seq(Statement) /\ SeempStatements \in Seq(Statement)
  BY DEF Stmt, Statement, Named, Operations, Written
<1>2. FillStatements \in Seq(Statement)
  BY ONLY <1>1 DEF FillStatements
<1> QED  BY <1>2 DEF FillStatements, Stmt

\* A generation clears first and fills then.
LEMMA GeneratePositions ==
  /\ GenerateStatements \in Seq(Statement) /\ Len(GenerateStatements) = 58
  /\ \A i \in 1..42 : GenerateStatements[i] = ClearStatements[i]
  /\ \A i \in 1..16 : GenerateStatements[42 + i] = FillStatements[i]
<1>1. GenerateStatements = Cat(ClearStatements, FillStatements)
  BY DEF GenerateStatements, Cat
<1>2. /\ Cat(ClearStatements, FillStatements) \in Seq(Statement)
      /\ Len(Cat(ClearStatements, FillStatements)) = Len(ClearStatements) + Len(FillStatements)
      /\ \A i \in 1..Len(ClearStatements) :
           Cat(ClearStatements, FillStatements)[i] = ClearStatements[i]
      /\ \A i \in 1..Len(FillStatements) :
           Cat(ClearStatements, FillStatements)[Len(ClearStatements) + i] = FillStatements[i]
  <2>1. ClearStatements \in Seq(Statement) /\ FillStatements \in Seq(Statement)
    BY ClearPositions, FillPositions
  <2> QED  BY <2>1, OneAfterAnother
<1>3. Len(ClearStatements) = 42 /\ Len(FillStatements) = 16
  BY ClearPositions, FillPositions
<1> QED  BY <1>1, <1>2, <1>3

\* The seeding counts, reads and seeds; it deletes nothing.
SeedingKind == [op : {"count", "seed", "map", "read"}, table : Written]
LEMMA SeedPositions ==
  /\ SeedStatements \in Seq(SeedingKind) /\ Len(SeedStatements) > 0
  /\ Len(SeedStatements) \in Nat /\ SeedStatements[1] = Stmt("count", "vessels")
<1> USE DEF StaticZones, StaticVessels, StaticTanks, StaticVoyages, StaticWaypoints,
            StaticCertificates, StaticCii, StaticHull, StaticTwin, StaticAlerts, StaticCharter
<1>1. /\ <<Stmt("count", "vessels")>> \in Seq(SeedingKind)
      /\ StaticZones \in Seq(SeedingKind) /\ StaticVessels \in Seq(SeedingKind)
      /\ StaticTanks \in Seq(SeedingKind) /\ StaticVoyages \in Seq(SeedingKind)
      /\ StaticWaypoints \in Seq(SeedingKind) /\ StaticCertificates \in Seq(SeedingKind)
      /\ StaticCii \in Seq(SeedingKind) /\ StaticHull \in Seq(SeedingKind)
      /\ StaticTwin \in Seq(SeedingKind) /\ StaticAlerts \in Seq(SeedingKind)
      /\ StaticCharter \in Seq(SeedingKind)
  BY DEF Stmt, SeedingKind, Written
<1>2. SeedStatements \in Seq(SeedingKind)
  BY ONLY <1>1 DEF SeedStatements
<1>3. Len(SeedStatements) = 14 /\ SeedStatements[1] = Stmt("count", "vessels")
  BY DEF SeedStatements, Stmt
<1> QED  BY <1>2, <1>3

\* What a job of each kind may be at.
AtStart(s) == s.op \in {"count", "seed", "map", "read"} /\ s.table \in Written
AtGenerate(s) ==
  \/ s.op \in {"try_delete", "delete"}
  \/ s.op \in {"find", "save", "replace", "read", "insert", "insert_returning"} /\ s.table \in Written
AtReset(s) == s.op = "delete"
LEMMA StatementFacts ==
  ASSUME NEW kind \in Kinds
  PROVE  /\ Len(Statements(kind)) \in Nat /\ Len(Statements(kind)) > 0
         /\ DOMAIN Statements(kind) = 1..Len(Statements(kind))
         /\ \A i \in 1..Len(Statements(kind)) :
              /\ kind = "start" => AtStart(Statements(kind)[i])
              /\ kind = "generate" => AtGenerate(Statements(kind)[i])
              /\ kind = "reset" => AtReset(Statements(kind)[i])
<1>1. CASE kind = "start"
  <2>1. Statements(kind) = SeedStatements
    BY <1>1 DEF Statements
  <2>2. \A s \in SeedingKind : AtStart(s)
    BY DEF SeedingKind, AtStart
  <2>3. /\ SeedStatements \in Seq(SeedingKind) /\ Len(SeedStatements) > 0
    BY SeedPositions
  <2>4. /\ Len(SeedStatements) \in Nat /\ DOMAIN SeedStatements = 1..Len(SeedStatements)
        /\ \A i \in 1..Len(SeedStatements) : SeedStatements[i] \in SeedingKind
    BY <2>3, LenProperties, ElementOfSeq
  <2> QED  BY <1>1, <2>1, <2>2, <2>3, <2>4
<1>2. CASE kind = "generate"
  <2>1. Statements(kind) = GenerateStatements
    BY <1>2 DEF Statements
  <2>2. DOMAIN GenerateStatements = 1..58 /\ Len(GenerateStatements) = 58
    BY GeneratePositions, LenProperties
  <2>3. ASSUME NEW i \in 1..42 PROVE AtGenerate(GenerateStatements[i])
    <3>1. GenerateStatements[i] = ClearStatements[i]
      BY GeneratePositions
    <3>2. ClearStatements[i].op \in {"try_delete", "delete"}
      <4>1. /\ \A j \in 1..40 : ClearStatements[j] = Stmt("try_delete", ClearedOneByOne[j])
            /\ ClearStatements[41] = Stmt("delete", "vessel_tanks")
            /\ ClearStatements[42] = Stmt("delete", "vessels")
        BY ClearPositions
      <4>2. i \in 1..40 \/ i = 41 \/ i = 42
        OBVIOUS
      <4> QED  BY <4>1, <4>2 DEF Stmt
    <3>3. \A s : s.op \in {"try_delete", "delete"} => AtGenerate(s)
      BY DEF AtGenerate
    <3> QED  BY <3>1, <3>2, <3>3
  <2>4. ASSUME NEW i \in 1..16 PROVE AtGenerate(FillStatements[i])
    <3> DEFINE fill == {"find", "save", "replace", "read", "insert", "insert_returning"}
    <3>1. \A op \in fill : \A t \in Written : AtGenerate(Stmt(op, t))
      BY DEF AtGenerate, Stmt
    <3>2. \E op \in fill : \E t \in Written : FillStatements[i] = Stmt(op, t)
      BY FillPositions DEF Written
    <3> QED  BY <3>1, <3>2
  <2>5. ASSUME NEW i \in 1..58 PROVE AtGenerate(GenerateStatements[i])
    <3>1. CASE i \in 1..42
      BY <2>3, <3>1
    <3>2. CASE i \in 43..58
      <4>1. PICK j \in 1..16 : i = 42 + j
        <5>1. i - 42 \in 1..16 /\ i = 42 + (i - 42)
          BY <3>2
        <5> QED  BY <5>1
      <4>2. GenerateStatements[42 + j] = FillStatements[j]
        BY GeneratePositions
      <4> QED  BY <2>4, <4>1, <4>2
    <3>3. i \in 1..42 \/ i \in 43..58
      OBVIOUS
    <3> QED  BY <3>1, <3>2, <3>3
  <2>6. kind # "start" /\ kind # "reset"
    BY <1>2
  <2> QED  BY <2>1, <2>2, <2>5, <2>6
<1>3. CASE kind = "reset"
  <2>1. Statements(kind) = ResetStatements
    BY <1>3 DEF Statements
  <2>2. DOMAIN ResetStatements = 1..28 /\ Len(ResetStatements) = 28
    BY ResetPositions, LenProperties
  <2>3. \A i \in 1..28 : ResetStatements[i].op = "delete"
    BY ResetPositions
  <2>4. \A i \in 1..28 : AtReset(ResetStatements[i])
    BY <2>3 DEF AtReset
  <2>5. kind # "start" /\ kind # "generate"
    BY <1>3
  <2> QED  BY <2>1, <2>2, <2>4, <2>5
<1> QED  BY <1>1, <1>2, <1>3 DEF Kinds

-----------------------------------------------------------------------------
\* The inductive invariant.
Tables == DOMAIN SqliteSchema \ {"engine_cylinder_data"}
Parents(t) ==
  SqliteSchema[t].refs \cup (IF t = "certificate_expiry_log" THEN {"certificates"} ELSE {})

\* A row lies in a table that something writes, refers to parents that exist, and to
\* one of them at least when its table has parents.
DatabaseOK ==
  \A r \in rows :
    /\ r.table \in Tables /\ r.id \in Nat
    /\ \A ref \in r.up : ref = <<ref[1], ref[2]>> /\ ref[1] \in Parents(r.table) /\ Exists(ref)
    /\ Parents(r.table) # {} => r.up # {}

\* A busy worker is at one of its statements, and alone if it believes it is.
Jobs == [kind : Kinds \cup {"down", "idle"}, pc : Nat, batch : Nat, vessel : Nat,
         read : SUBSET Nat, alone : BOOLEAN]
JobsOK ==
  /\ dialect \in Dialects /\ batches \in Nat /\ job \in [Workers -> Jobs]
  /\ \A w \in Workers : Busy(w) =>
       /\ job[w].pc \in 1..Len(Statements(job[w].kind))
       /\ job[w].batch \in 1..batches
       /\ job[w].alone => \A x \in Workers \ {w} : ~Busy(x)

\* A lone generation at statement p has emptied the tables it passed ...
Cleared(p) == \A i \in 1..42 : i < p => In(GenerateStatements[i].table) = {}
\* ... and then filled those it passed, under one vessel and one voyage.
HasRow(t, b) == \E r \in In(t) : r.id = b
Filled(p, b, vessel, read) ==
  /\ p <= 45 => In("vessels") = {}
  /\ p = 45 => read = {}
  /\ p <= 46 => In("vessel_tanks") = {}
  /\ p <= 47 => In("voyages") = {}
  /\ p >= 46 => vessel = b /\ \A r \in In("vessels") : r.id = b
  /\ p >= 47 => \E r \in In("vessel_tanks") : r.id = b /\ <<"vessels", b>> \in r.up
  /\ p = 50 => b \in read /\ \A k \in read : Exists(<<"vessel_tanks", k>>)
  /\ p >= 57 => dialect = "sqlite"
  /\ p >= 44 /\ dialect = "sqlite" => HasRow("eca_zones", b)
  /\ \A i \in 3..16 : 42 + i < p /\ FillStatements[i].op # "read"
                        => HasRow(FillStatements[i].table, b)
LoneGeneration(w) ==
  /\ job[w].pc <= 43 => Cleared(job[w].pc)
  /\ job[w].pc >= 43 => Filled(job[w].pc, job[w].batch, job[w].vessel, job[w].read)

DemoInv ==
  /\ DatabaseOK /\ JobsOK /\ LoneSeedFindsNoOlderRows
  /\ \A w \in Workers : job[w].kind = "generate" /\ job[w].alone => LoneGeneration(w)

-----------------------------------------------------------------------------
\* What the rows of a table refer to.
LEMMA ParentFacts ==
  ASSUME NEW t \in Tables
  PROVE  /\ t \in Roots => Parents(t) = {}
         /\ t \in OfVessels \ {"certificate_expiry_log"} => Parents(t) = {"vessels"}
         /\ t = "certificate_expiry_log" => Parents(t) = {"vessels", "certificates"}
         /\ t \in OfVoyages => Parents(t) = {"voyages"}
         /\ t = "cargo_records" => Parents(t) = {"voyages", "vessel_tanks"}
         /\ t \in Roots \cup OfVessels \cup OfVoyages \cup {"cargo_records"}
<1>1. AsRead(t, SqliteSchema[t])
  <2>1. "sqlite" \in Dialects
    BY DEF Dialects
  <2> QED  BY <2>1, SchemaAsRead DEF Tables
<1>2. t # "engine_cylinder_data"
  BY DEF Tables
<1> DEFINE refs == SqliteSchema[t].refs
<1>3. \/ t \in Roots /\ refs = {}
      \/ t \in OfVessels /\ refs = {"vessels"}
      \/ t \in OfVoyages /\ refs = {"voyages"}
      \/ t = "cargo_records" /\ refs = {"voyages", "vessel_tanks"}
  BY <1>1, <1>2 DEF AsRead
<1>4. Parents(t) = refs \cup (IF t = "certificate_expiry_log" THEN {"certificates"} ELSE {})
  BY DEF Parents
<1> HIDE DEF refs
<1>5. CASE t \in Roots /\ refs = {}
  BY <1>4, <1>5 DEF Roots, OfVessels, OfVoyages
<1>6. CASE t \in OfVessels /\ refs = {"vessels"}
  BY <1>4, <1>6 DEF Roots, OfVessels, OfVoyages
<1>7. CASE t \in OfVoyages /\ refs = {"voyages"}
  BY <1>4, <1>7 DEF Roots, OfVessels, OfVoyages
<1>8. CASE t = "cargo_records" /\ refs = {"voyages", "vessel_tanks"}
  BY <1>4, <1>8 DEF Roots, OfVessels, OfVoyages
<1> QED  BY <1>3, <1>5, <1>6, <1>7, <1>8

\* The tables the jobs write are among them, and no table is its own parent.
LEMMA TableFacts ==
  /\ Written \subseteq Tables
  /\ "voyage_eca_events" \notin DOMAIN SqliteSchema
  /\ \A t \in Tables : t \notin Parents(t)
  /\ \A d \in Dialects : Schema(d) = SqliteSchema
  /\ \A t \in Tables \ WithUniqueColumns : SqliteSchema[t].unique = {}
<1>1. /\ \A t \in DOMAIN SqliteSchema : AsRead(t, SqliteSchema[t])
      /\ Written \subseteq DOMAIN SqliteSchema /\ \A d \in Dialects : Schema(d) = SqliteSchema
  <2>1. "sqlite" \in Dialects
    BY DEF Dialects
  <2> QED  BY <2>1, SchemaAsRead
<1>2. Written \subseteq Tables
  BY <1>1 DEF Tables, Written
<1>3. "voyage_eca_events" \notin DOMAIN SqliteSchema
  <2>1. \A table : ~AsRead("voyage_eca_events", table)
    BY DEF AsRead, Roots, OfVessels, OfVoyages
  <2> QED  BY <1>1, <2>1
<1>4. ASSUME NEW t \in Tables PROVE t \notin Parents(t)
  <2>1. t \in Roots => Parents(t) = {}
    BY ParentFacts
  <2>2. Parents(t) \subseteq {"vessels", "voyages", "vessel_tanks", "certificates"}
    BY ParentFacts
  <2>3. t \in {"voyages", "vessel_tanks", "certificates"} => Parents(t) = {"vessels"}
    <3>1. {"voyages", "vessel_tanks", "certificates"} \subseteq OfVessels \ {"certificate_expiry_log"}
      BY DEF OfVessels
    <3> QED  BY <3>1, ParentFacts
  <2>4. "vessels" \in Roots
    BY DEF Roots
  <2> QED  BY <2>1, <2>2, <2>3, <2>4
<1>5. \A t \in Tables \ WithUniqueColumns : SqliteSchema[t].unique = {}
  BY <1>1 DEF Tables, AsRead
<1> QED  BY <1>1, <1>2, <1>3, <1>4, <1>5

\* Without vessels no row refers to anything: every chain of references ends at one.
LEMMA NothingWithoutVessels ==
  ASSUME DatabaseOK, In("vessels") = {}
  PROVE  \A r \in rows : r.up = {}
<1>1. ASSUME NEW r \in rows, NEW ref \in r.up
      PROVE  /\ ref[1] \in Parents(r.table)
             /\ \E q \in rows : q.table = ref[1]
  BY <1>1 DEF DatabaseOK, Exists
<1>2. \A r \in rows : r.table # "vessels"
  BY DEF In
<1>3. ASSUME NEW r \in rows, r.table \in {"voyages", "vessel_tanks", "certificates"}
      PROVE  FALSE
  <2>1. r.table \in Tables
    BY <1>3 DEF DatabaseOK
  <2>2. Parents(r.table) = {"vessels"}
    <3>1. r.table \in OfVessels \ {"certificate_expiry_log"}
      BY <1>3 DEF OfVessels
    <3> QED  BY <2>1, <3>1, ParentFacts
  <2>3. PICK ref \in r.up : TRUE
    <3>1. r.table \in Tables /\ r.up # {}
      BY <1>3, <2>2 DEF DatabaseOK
    <3> QED  BY <3>1
  <2> QED  BY <1>1, <1>2, <2>2, <2>3
<1>4. ASSUME NEW t \in Tables
      PROVE  Parents(t) \subseteq {"vessels", "voyages", "vessel_tanks", "certificates"}
  BY ParentFacts
<1>5. ASSUME NEW r \in rows, NEW ref \in r.up PROVE FALSE
  <2>1. r.table \in Tables
    BY DEF DatabaseOK
  <2>2. ref[1] \in {"vessels", "voyages", "vessel_tanks", "certificates"}
    BY <1>1, <1>4, <1>5, <2>1
  <2> QED  BY <1>1, <1>2, <1>3, <1>5, <2>2
<1> QED  BY <1>5

\* A table none of whose rows is referred to can be emptied.
LEMMA DeletingKeepsReferences ==
  ASSUME DatabaseOK, NEW gone, \A r \in gone : ~ReferredTo(r),
         gone \subseteq rows, rows' = rows \ gone
  PROVE  DatabaseOK'
<1> SUFFICES ASSUME NEW r \in rows, r \notin gone, NEW ref \in r.up PROVE Exists(ref)'
  BY DEF DatabaseOK
<1>1. ref = <<ref[1], ref[2]>> /\ Exists(ref)
  BY DEF DatabaseOK
<1>2. PICK q \in rows : q.table = ref[1] /\ q.id = ref[2]
  BY <1>1 DEF Exists
<1>3. <<q.table, q.id>> \in r.up
  BY <1>1, <1>2
<1>4. ReferredTo(q)
  BY <1>3 DEF ReferredTo
<1>5. q \in rows'
  BY <1>2, <1>4
<1> QED  BY <1>2, <1>5 DEF Exists

\* A row is sound if its references are.
RowOK(r) ==
  /\ r.table \in Tables /\ r.id \in Nat
  /\ \A ref \in r.up : ref = <<ref[1], ref[2]>> /\ ref[1] \in Parents(r.table)
  /\ Parents(r.table) # {} => r.up # {}
LEMMA AddingKeepsReferences ==
  ASSUME DatabaseOK, NEW new, rows' = rows \cup new, ReferencesHold(new),
         \A r \in new : RowOK(r)
  PROVE  DatabaseOK'
<1>1. ASSUME NEW ref, Exists(ref) PROVE Exists(ref)'
  BY <1>1 DEF Exists
<1>2. ASSUME NEW r \in rows PROVE \A ref \in r.up : Exists(ref)'
  BY <1>1, <1>2 DEF DatabaseOK
<1>3. ASSUME NEW r \in new PROVE \A ref \in r.up : Exists(ref)'
  BY <1>1, <1>3 DEF ReferencesHold
<1> QED  BY <1>2, <1>3 DEF DatabaseOK, RowOK

-----------------------------------------------------------------------------
\* The workers' jobs.
LEMMA BusyKind ==
  ASSUME JobsOK, NEW w \in Workers
  PROVE  /\ Busy(w) <=> job[w].kind \in Kinds
         /\ job[w] \in Jobs
BY DEF JobsOK, Jobs, Busy, Kinds

\* A job with one field replaced.
LEMMA JobFields ==
  ASSUME NEW j \in Jobs
  PROVE  /\ \A pc \in Nat : [j EXCEPT !.pc = pc] \in Jobs
         /\ \A batch \in Nat : [j EXCEPT !.batch = batch] \in Jobs
         /\ \A vessel \in Nat : [j EXCEPT !.vessel = vessel] \in Jobs
         /\ \A read \in SUBSET Nat : [j EXCEPT !.read = read] \in Jobs
         /\ \A alone \in BOOLEAN : [j EXCEPT !.alone = alone] \in Jobs
<1>1. ASSUME NEW pc \in Nat PROVE [j EXCEPT !.pc = pc] \in Jobs
  BY DEF Jobs
<1>2. ASSUME NEW batch \in Nat PROVE [j EXCEPT !.batch = batch] \in Jobs
  BY DEF Jobs
<1>3. ASSUME NEW vessel \in Nat PROVE [j EXCEPT !.vessel = vessel] \in Jobs
  BY DEF Jobs
<1>4. ASSUME NEW read \in SUBSET Nat PROVE [j EXCEPT !.read = read] \in Jobs
  BY DEF Jobs
<1>5. ASSUME NEW alone \in BOOLEAN PROVE [j EXCEPT !.alone = alone] \in Jobs
  BY DEF Jobs
<1> QED  BY <1>1, <1>2, <1>3, <1>4, <1>5

\* A job that ends leaves its worker idle and the others where they are.
LEMMA FinishKeepsJobs ==
  ASSUME JobsOK, NEW w \in Workers, NEW ok, Finish(w, ok), UNCHANGED <<dialect, batches>>
  PROVE  JobsOK' /\ (\A x \in Workers \ {w} : job'[x] = job[x]) /\ job'[w] = NoJob("idle")
<1>1. NoJob("idle") \in Jobs /\ NoJob("idle").kind = "idle"
  BY DEF NoJob, Jobs
<1>2. /\ job' \in [Workers -> Jobs] /\ job'[w] = NoJob("idle")
      /\ \A x \in Workers \ {w} : job'[x] = job[x]
  BY <1>1 DEF Finish, JobsOK
<1>3. \A x \in Workers \ {w} : Busy(x)' <=> Busy(x)
  BY <1>2 DEF Busy
<1>4. ~Busy(w)'
  BY <1>1, <1>2 DEF Busy
<1>5. ASSUME NEW x \in Workers, Busy(x)'
      PROVE  /\ job'[x].pc \in 1..Len(Statements(job'[x].kind))
             /\ job'[x].batch \in 1..batches'
             /\ job'[x].alone => \A y \in Workers \ {x} : ~Busy(y)'
  <2>1. x # w /\ Busy(x) /\ job'[x] = job[x]
    BY <1>2, <1>3, <1>4, <1>5
  <2> QED  BY <1>3, <1>4, <2>1 DEF JobsOK
<1> QED  BY <1>2, <1>5 DEF JobsOK

\* A statement that succeeds moves its own job on, or ends it.
LEMMA ProceedKeepsJobs ==
  ASSUME JobsOK, NEW w \in Workers, Busy(w), NEW vessel \in Nat, NEW read \in SUBSET Nat,
         Proceed(w, rows', vessel, read), UNCHANGED <<dialect, batches>>
  PROVE  /\ JobsOK'
         /\ \A x \in Workers \ {w} : job'[x] = job[x]
         /\ \/ job'[w] = NoJob("idle") /\ job[w].pc = Len(Statements(job[w].kind)) /\ Finish(w, TRUE)
            \/ /\ job'[w] = [job[w] EXCEPT !.pc = @ + 1, !.vessel = vessel, !.read = read]
               /\ job[w].pc # Len(Statements(job[w].kind)) /\ outcome' = NoOutcome
<1>1. CASE job[w].pc = Len(Statements(job[w].kind))
  <2>1. Finish(w, TRUE)
    BY <1>1 DEF Proceed
  <2> QED  BY <1>1, <2>1, FinishKeepsJobs
<1>2. CASE job[w].pc # Len(Statements(job[w].kind))
  <2> DEFINE next == [job[w] EXCEPT !.pc = @ + 1, !.vessel = vessel, !.read = read]
  <2>1. /\ job' = [job EXCEPT ![w] = next] /\ outcome' = NoOutcome
    BY <1>2 DEF Proceed
  <2>2. job[w] \in Jobs /\ job[w].kind \in Kinds
    BY BusyKind
  <2>3. /\ next \in Jobs /\ next.kind = job[w].kind /\ next.pc = job[w].pc + 1
        /\ next.batch = job[w].batch /\ next.alone = job[w].alone
    <3> DEFINE j == job[w]
    <3>1. j \in Jobs /\ j.pc + 1 \in Nat
      BY <2>2 DEF Jobs
    <3>2. next.kind = j.kind /\ next.pc = j.pc + 1 /\ next.batch = j.batch /\ next.alone = j.alone
      BY <3>1 DEF Jobs
    <3> HIDE DEF j
    <3>3. [j EXCEPT !.pc = @ + 1] \in Jobs
      BY <3>1, JobFields
    <3>4. [[j EXCEPT !.pc = @ + 1] EXCEPT !.vessel = vessel] \in Jobs
      BY <3>3, JobFields
    <3>5. [[[j EXCEPT !.pc = @ + 1] EXCEPT !.vessel = vessel] EXCEPT !.read = read] \in Jobs
      BY <3>4, JobFields
    <3> QED  BY <3>2, <3>5 DEF j
  <2> HIDE DEF next
  <2>4. /\ job' \in [Workers -> Jobs] /\ job'[w] = next
        /\ \A x \in Workers \ {w} : job'[x] = job[x]
    BY <2>1, <2>3 DEF JobsOK
  <2>5. \A x \in Workers : Busy(x)' <=> Busy(x)
    BY <2>3, <2>4 DEF Busy
  <2>6. job'[w].pc \in 1..Len(Statements(job'[w].kind))
    <3>1. job[w].pc \in 1..Len(Statements(job[w].kind)) /\ Len(Statements(job[w].kind)) \in Nat
      BY <2>2, StatementFacts DEF JobsOK
    <3> QED  BY <1>2, <2>3, <2>4, <3>1
  <2>7. ASSUME NEW x \in Workers, Busy(x)'
        PROVE  /\ job'[x].pc \in 1..Len(Statements(job'[x].kind))
               /\ job'[x].batch \in 1..batches'
               /\ job'[x].alone => \A y \in Workers \ {x} : ~Busy(y)'
    <3>1. CASE x = w
      BY <2>3, <2>4, <2>5, <2>6, <2>7, <3>1 DEF JobsOK
    <3>2. CASE x # w
      BY <2>4, <2>5, <2>7, <3>2 DEF JobsOK
    <3> QED  BY <3>1, <3>2
  <2>8. JobsOK'
    BY <2>4, <2>7 DEF JobsOK
  <2> QED  BY <1>2, <2>1, <2>4, <2>8 DEF next
<1> QED  BY <1>1, <1>2

\* What w disturbs stays where it is, but no longer alone.
LEMMA DisturbedJobs ==
  ASSUME JobsOK, NEW w \in Workers
  PROVE  /\ Disturbed(w) \in [Workers -> Jobs] /\ Disturbed(w)[w] = job[w]
         /\ \A x \in Workers : ~Busy(x) => Disturbed(w)[x] = job[x]
         /\ \A x \in Workers : /\ Disturbed(w)[x].kind = job[x].kind
                               /\ Disturbed(w)[x].pc = job[x].pc
                               /\ Disturbed(w)[x].batch = job[x].batch
                               /\ x # w /\ Busy(x) => ~Disturbed(w)[x].alone
<1>1. ASSUME NEW x \in Workers PROVE [job[x] EXCEPT !.alone = FALSE] \in Jobs
  BY BusyKind DEF Jobs
<1>2. \A x \in Workers : job[x] \in Jobs
  BY BusyKind
<1>3. Disturbed(w) \in [Workers -> Jobs]
  BY <1>1, <1>2 DEF Disturbed
<1>4. ASSUME NEW x \in Workers
      PROVE  /\ [job[x] EXCEPT !.alone = FALSE].kind = job[x].kind
             /\ [job[x] EXCEPT !.alone = FALSE].pc = job[x].pc
             /\ [job[x] EXCEPT !.alone = FALSE].batch = job[x].batch
             /\ ~[job[x] EXCEPT !.alone = FALSE].alone
  BY <1>2 DEF Jobs
<1> QED  BY <1>3, <1>4 DEF Disturbed

\* A job begins at its first statement, and disturbs the others.
LEMMA BeginKeepsJobs ==
  ASSUME JobsOK, NEW w \in Workers, ~Busy(w), NEW kind \in Kinds, Begin(w, kind), UNCHANGED dialect
  PROVE  /\ JobsOK' /\ job'[w].pc = 1
         /\ \A x \in Workers \ {w} : Busy(x)' => ~job'[x].alone
         /\ outcome' = NoOutcome
<1> DEFINE first == [NoJob(kind) EXCEPT !.pc = 1, !.batch = batches + 1,
                                        !.alone = \A x \in Workers \ {w} : ~Busy(x)]
<1>1. /\ job' = [Disturbed(w) EXCEPT ![w] = first] /\ batches' = batches + 1
      /\ outcome' = NoOutcome
  BY DEF Begin
<1>2. /\ first \in Jobs /\ first.kind = kind /\ first.pc = 1 /\ first.batch = batches + 1
      /\ first.alone <=> \A x \in Workers \ {w} : ~Busy(x)
  <2> DEFINE quiet == \A x \in Workers \ {w} : ~Busy(x)
             n == NoJob(kind)
  <2>1. batches + 1 \in Nat /\ 1 \in Nat /\ quiet \in BOOLEAN
    BY DEF JobsOK
  <2>2. n \in Jobs /\ n.kind = kind
    BY DEF NoJob, Jobs
  <2>3. first = [n EXCEPT !.pc = 1, !.batch = batches + 1, !.alone = quiet]
    OBVIOUS
  <2> HIDE DEF first, quiet, n
  <2>4. [n EXCEPT !.pc = 1] \in Jobs
    BY <2>1, <2>2, JobFields
  <2>5. [[n EXCEPT !.pc = 1] EXCEPT !.batch = batches + 1] \in Jobs
    BY <2>1, <2>4, JobFields
  <2>6. [[[n EXCEPT !.pc = 1] EXCEPT !.batch = batches + 1] EXCEPT !.alone = quiet] \in Jobs
    BY <2>1, <2>5, JobFields
  <2>7. first.kind = kind /\ first.pc = 1 /\ first.batch = batches + 1 /\ first.alone = quiet
    BY <2>2, <2>3 DEF Jobs
  <2> QED  BY <2>3, <2>6, <2>7 DEF quiet
<1> HIDE DEF first
<1>3. /\ job' \in [Workers -> Jobs] /\ job'[w] = first
      /\ \A x \in Workers \ {w} : job'[x] = Disturbed(w)[x]
  BY <1>1, <1>2, DisturbedJobs
<1>4. \A x \in Workers \ {w} : Busy(x)' <=> Busy(x)
  BY <1>3, DisturbedJobs DEF Busy
<1>5. \A x \in Workers \ {w} : Busy(x)' => ~job'[x].alone
  BY <1>3, <1>4, DisturbedJobs
<1>6. ASSUME NEW x \in Workers, Busy(x)'
      PROVE  /\ job'[x].pc \in 1..Len(Statements(job'[x].kind))
             /\ job'[x].batch \in 1..batches'
             /\ job'[x].alone => \A y \in Workers \ {x} : ~Busy(y)'
  <2>1. CASE x = w
    <3>1. 1 \in 1..Len(Statements(kind))
      BY StatementFacts
    <3>2. batches + 1 \in 1..batches + 1
      BY DEF JobsOK
    <3>3. job'[x].alone => \A y \in Workers \ {x} : ~Busy(y)'
      BY <1>2, <1>3, <1>4, <2>1
    <3> QED  BY <1>1, <1>2, <1>3, <2>1, <3>1, <3>2, <3>3
  <2>2. CASE x # w
    <3>1. Busy(x) /\ ~job'[x].alone /\ job'[x].pc = job[x].pc /\ job'[x].kind = job[x].kind
          /\ job'[x].batch = job[x].batch
      BY <1>3, <1>4, <1>5, <1>6, <2>2, DisturbedJobs
    <3> QED  BY <1>1, <3>1 DEF JobsOK
  <2> QED  BY <2>1, <2>2
<1> QED  BY <1>1, <1>2, <1>3, <1>5, <1>6 DEF JobsOK

-----------------------------------------------------------------------------
\* What a statement does to the database.
LEMMA CurrentFacts ==
  ASSUME JobsOK, NEW w \in Workers, Busy(w)
  PROVE  /\ job[w].kind = "start" => AtStart(Current(w))
         /\ job[w].kind = "generate" => AtGenerate(Current(w))
         /\ job[w].kind = "reset" => AtReset(Current(w))
         /\ job[w].kind \in Kinds
<1>1. job[w].kind \in Kinds /\ job[w].pc \in 1..Len(Statements(job[w].kind))
  BY BusyKind DEF JobsOK
<1> QED  BY <1>1, StatementFacts DEF Current

\* Each kind of statement belongs to one kind of job and to the tables it writes.
LEMMA WhoseStatement ==
  ASSUME JobsOK, NEW w \in Workers, Busy(w)
  PROVE  /\ Current(w).op \in {"find", "save", "replace", "insert", "insert_returning", "try_delete"}
              => job[w].kind = "generate"
         /\ Current(w).op \in {"count", "seed", "map"} => job[w].kind = "start"
         /\ Current(w).op \notin {"try_delete", "delete"} => Current(w).table \in Written
  BY CurrentFacts DEF AtStart, AtGenerate, AtReset, Kinds

\* A statement's references and the parents of its table.
LEMMA RefsFacts ==
  ASSUME NEW t \in Tables
  PROVE  /\ SqliteSchema[t].refs \subseteq Parents(t)
         /\ Parents(t) # {} => SqliteSchema[t].refs # {}
         /\ Parents(t) # {} => Parents(t) \ {"vessel_tanks"} # {}
<1>1. SqliteSchema[t].refs \subseteq Parents(t)
  BY DEF Parents
<1>2. Parents(t) # {} => Parents(t) \ {"vessel_tanks"} # {}
  BY ParentFacts
<1>3. Parents(t) # {} => SqliteSchema[t].refs # {}
  <2>1. CASE t = "certificate_expiry_log"
    <3>1. AsRead(t, SqliteSchema[t])
      <4>1. "sqlite" \in Dialects
        BY DEF Dialects
      <4> QED  BY <4>1, SchemaAsRead DEF Tables
    <3> QED  BY <2>1, <3>1 DEF AsRead, Roots, OfVessels, OfVoyages
  <2>2. CASE t # "certificate_expiry_log"
    BY <2>2 DEF Parents
  <2> QED  BY <2>1, <2>2
<1> QED  BY <1>1, <1>2, <1>3

\* The effect of one statement of w, whatever it is.
Effect(w) ==
  /\ Busy(w) /\ UNCHANGED <<dialect, batches>> /\ DatabaseOK'
  /\ \A r \in rows' \ rows : r.up = {} \/ r.id = job[w].batch
  /\ \/ \E vessel \in Nat, read \in SUBSET Nat : Proceed(w, rows', vessel, read)
     \/ rows' = rows /\ \E ok \in BOOLEAN : Finish(w, ok)

LEMMA StoppingEffect ==
  ASSUME DatabaseOK, NEW w \in Workers, Busy(w), UNCHANGED <<dialect, batches, rows>>,
         NEW ok \in BOOLEAN, Finish(w, ok)
  PROVE  Effect(w)
BY DEF Effect, DatabaseOK, Exists

LEMMA GoingOnEffect ==
  ASSUME JobsOK, NEW w \in Workers, Busy(w), UNCHANGED <<dialect, batches>>, DatabaseOK', NEW new,
         \A r \in new \ rows : r.up = {} \/ r.id = job[w].batch, Continue(w, new)
  PROVE  Effect(w)
<1>1. job[w].vessel \in Nat /\ job[w].read \in SUBSET Nat
  BY BusyKind DEF Jobs
<1>2. rows' = new /\ Proceed(w, rows', job[w].vessel, job[w].read)
  BY DEF Continue, Proceed
<1> QED  BY <1>1, <1>2 DEF Effect

LEMMA ReadingEffect ==
  ASSUME DatabaseOK, NEW w \in Workers, Busy(w), UNCHANGED <<dialect, batches>>,
         NEW vessel \in Nat, NEW read \in SUBSET Nat, Proceed(w, rows, vessel, read)
  PROVE  Effect(w)
<1>1. rows' = rows
  BY DEF Proceed
<1>2. DatabaseOK'
  BY <1>1 DEF DatabaseOK, Exists
<1> QED  BY <1>1, <1>2 DEF Effect

\* Deleting.
LEMMA DeletingEffect ==
  ASSUME DatabaseOK, JobsOK, NEW w \in Workers, TryDelete(w) \/ Delete(w)
  PROVE  Effect(w)
<1> DEFINE t == Current(w).table
<1>1. Busy(w) /\ UNCHANGED <<dialect, batches>>
  BY DEF TryDelete, Delete, At, Others
<1>2. ASSUME Continue(w, rows \ In(t)), Deletable(t) PROVE Effect(w)
  <2>1. rows' = rows \ In(t)
    BY <1>2 DEF Continue, Proceed
  <2>2. In(t) \subseteq rows /\ \A r \in In(t) : ~ReferredTo(r)
    BY <1>2 DEF In, Deletable
  <2>3. DatabaseOK'
    BY <2>1, <2>2, DeletingKeepsReferences
  <2> QED  BY <1>1, <1>2, <2>3, GoingOnEffect
<1>3. ASSUME Continue(w, rows) PROVE Effect(w)
  <2>1. rows' = rows
    BY <1>3 DEF Continue, Proceed
  <2>2. DatabaseOK'
    BY <2>1 DEF DatabaseOK, Exists
  <2> QED  BY <1>1, <1>3, <2>2, GoingOnEffect
<1>4. ASSUME Fail(w) PROVE Effect(w)
  BY <1>1, <1>4, StoppingEffect DEF Fail
<1>5. \/ Deletable(t) /\ Continue(w, rows \ In(t))
      \/ Continue(w, rows) \/ Fail(w)
  BY DEF TryDelete, Delete
<1> QED  BY <1>2, <1>3, <1>4, <1>5

\* The SELECTs of a generation and of a seeding, and the seeding's COUNT.
LEMMA LookingEffect ==
  ASSUME DatabaseOK, JobsOK, NEW w \in Workers,
         FindVessel(w) \/ ReadTanks(w) \/ ReadVoyages(w) \/ Count(w)
  PROVE  Effect(w)
<1>1. Busy(w) /\ UNCHANGED <<dialect, batches>>
  BY DEF FindVessel, ReadTanks, ReadVoyages, Count, At, Others
<1>2. job[w].vessel \in Nat /\ 0 \in Nat
  BY BusyKind DEF Jobs
<1>3. \A r \in rows : r.id \in Nat
  BY DEF DatabaseOK
<1>4. ASSUME FindVessel(w) PROVE Effect(w)
  <2> DEFINE read == {r.id : r \in {q \in In("vessels") : q.by = "generate"}}
  <2>1. read \in SUBSET Nat
    BY <1>3 DEF In
  <2>2. Proceed(w, rows, 0, read)
    BY <1>4 DEF FindVessel
  <2> HIDE DEF read
  <2> QED  BY <1>1, <1>2, <2>1, <2>2, ReadingEffect
<1>5. ASSUME ReadTanks(w) PROVE Effect(w)
  <2> DEFINE read == {r.id : r \in {q \in In("vessel_tanks") : <<"vessels", job[w].vessel>> \in q.up}}
  <2>1. read \in SUBSET Nat
    BY <1>3 DEF In
  <2>2. Proceed(w, rows, job[w].vessel, read)
    BY <1>5 DEF ReadTanks
  <2> HIDE DEF read
  <2> QED  BY <1>1, <1>2, <2>1, <2>2, ReadingEffect
<1>6. ASSUME ReadVoyages(w) PROVE Effect(w)
  <2> DEFINE read == {r.id : r \in {q \in In("voyages") : Current(w).op = "map" => q.by = "start"}}
  <2>1. read \in SUBSET Nat
    BY <1>3 DEF In
  <2>2. Proceed(w, rows, 0, read)
    BY <1>6 DEF ReadVoyages
  <2> HIDE DEF read
  <2> QED  BY <1>1, <1>2, <2>1, <2>2, ReadingEffect
<1>7. ASSUME Count(w) PROVE Effect(w)
  <2>1. CASE Finish(w, TRUE) /\ UNCHANGED rows
    BY <1>1, <2>1, StoppingEffect
  <2>2. CASE Continue(w, rows)
    <3>1. rows' = rows
      BY <2>2 DEF Continue, Proceed
    <3>2. DatabaseOK'
      BY <3>1 DEF DatabaseOK, Exists
    <3> QED  BY <1>1, <2>2, <3>2, GoingOnEffect
  <2> QED  BY <1>7, <2>1, <2>2 DEF Count
<1> QED  BY <1>4, <1>5, <1>6, <1>7

\* The generator's vessel.
LEMMA SavingEffect ==
  ASSUME DatabaseOK, JobsOK, NEW w \in Workers, SaveVessel(w)
  PROVE  Effect(w)
<1> DEFINE new == Row("vessels", job[w].batch, {}, "generate")
<1>1. Busy(w) /\ UNCHANGED <<dialect, batches>>
  BY DEF SaveVessel, At, Others
<1>2. job[w].read \in SUBSET Nat /\ job[w].batch \in Nat /\ {} \in SUBSET Nat /\ 0 \in Nat
  BY BusyKind DEF Jobs
<1>3. ASSUME NEW id \in job[w].read, Proceed(w, rows, id, {}) PROVE Effect(w)
  <2>1. id \in Nat
    BY <1>2, <1>3
  <2> QED  BY <1>1, <1>2, <1>3, <2>1, ReadingEffect
<1>4. ASSUME Proceed(w, rows \cup {new}, job[w].batch, {}) PROVE Effect(w)
  <2>1. RowOK(new)
    <3>1. "vessels" \in Tables /\ Parents("vessels") = {}
      <4>1. "vessels" \in Written /\ "vessels" \in Roots
        BY DEF Written, Roots
      <4> QED  BY <4>1, TableFacts, ParentFacts
    <3> QED  BY <1>2, <3>1 DEF RowOK, Row
  <2>2. ReferencesHold({new}) /\ new.id = job[w].batch
    BY DEF ReferencesHold, Row
  <2> HIDE DEF new
  <2>3. rows' = rows \cup {new}
    BY <1>4 DEF Proceed
  <2>4. DatabaseOK'
    BY <2>1, <2>2, <2>3, AddingKeepsReferences
  <2> QED  BY <1>1, <1>2, <1>4, <2>2, <2>3, <2>4 DEF Effect
<1>5. ASSUME Proceed(w, rows, 0, {}) PROVE Effect(w)
  BY <1>1, <1>2, <1>5, ReadingEffect
<1>6. ASSUME Fail(w) PROVE Effect(w)
  BY <1>1, <1>6, StoppingEffect DEF Fail
<1> QED  BY <1>3, <1>4, <1>5, <1>6 DEF SaveVessel

\* INSERT OR REPLACE of the zones and tanks.
LEMMA ReplacingEffect ==
  ASSUME DatabaseOK, JobsOK, NEW w \in Workers, Replace(w)
  PROVE  Effect(w)
<1> DEFINE t == Current(w).table
           up == {<<p, job[w].vessel>> : p \in Schema(dialect)[t].refs}
           new == Row(t, job[w].batch, up, "generate")
           old == Twins(new)
<1>1. Busy(w) /\ UNCHANGED <<dialect, batches>> /\ Current(w).op = "replace"
  BY DEF Replace, At, Others
<1>2. job[w].vessel \in Nat /\ job[w].batch \in Nat
  BY BusyKind DEF Jobs
<1>3. t \in Tables /\ Schema(dialect) = SqliteSchema
  BY <1>1, WhoseStatement, TableFacts DEF JobsOK
<1>4. new.table = t /\ new.id = job[w].batch /\ new.up = up
  BY DEF Row
<1>5. RowOK(new)
  <2>1. \A ref \in up : ref = <<ref[1], ref[2]>> /\ ref[1] \in SqliteSchema[t].refs
    BY <1>3
  <2>2. SqliteSchema[t].refs # {} => up # {}
    BY <1>3
  <2> HIDE DEF up, new
  <2> QED  BY <1>2, <1>3, <1>4, <2>1, <2>2, RefsFacts DEF RowOK
<1> HIDE DEF up, new
<1>6. \A q \in old : q \in rows /\ q.table = t
  BY <1>4 DEF Twins, In
<1> HIDE DEF old
<1>7. ASSUME ReferencesHold({new}), \A q \in old : ~ReferredTo(q), Continue(w, (rows \ old) \cup {new})
      PROVE  Effect(w)
  <2>1. rows' = (rows \ old) \cup {new}
    BY <1>7 DEF Continue, Proceed
  <2>2. ASSUME NEW r \in rows, r \notin old, NEW ref \in r.up PROVE Exists(ref)'
    <3>1. ref = <<ref[1], ref[2]>> /\ Exists(ref)
      BY <2>2 DEF DatabaseOK
    <3>2. PICK q \in rows : q.table = ref[1] /\ q.id = ref[2]
      BY <3>1 DEF Exists
    <3>3. ReferredTo(q)
      BY <2>2, <3>1, <3>2 DEF ReferredTo
    <3> QED  BY <1>7, <2>1, <3>2, <3>3 DEF Exists
  <2>3. ASSUME NEW ref \in new.up PROVE Exists(ref)'
    <3>1. PICK q \in rows : q.table = ref[1] /\ q.id = ref[2]
      BY <1>7, <2>3 DEF ReferencesHold, Exists
    <3>2. ref[1] \in Parents(t) /\ t \notin Parents(t)
      BY <1>3, <1>4, <1>5, <2>3, TableFacts DEF RowOK
    <3>3. q \notin old
      BY <1>6, <3>1, <3>2
    <3> QED  BY <2>1, <3>1, <3>3 DEF Exists
  <2>4. DatabaseOK'
    BY <1>5, <2>1, <2>2, <2>3 DEF DatabaseOK, RowOK
  <2> QED  BY <1>1, <1>4, <1>7, <2>1, <2>4, GoingOnEffect
<1>8. ASSUME Continue(w, rows) PROVE Effect(w)
  <2>1. rows' = rows
    BY <1>8 DEF Continue, Proceed
  <2>2. DatabaseOK'
    BY <2>1 DEF DatabaseOK, Exists
  <2> QED  BY <1>1, <1>8, <2>2, GoingOnEffect
<1>9. ASSUME Fail(w) PROVE Effect(w)
  BY <1>1, <1>9, StoppingEffect DEF Fail
<1>10. \/ Fail(w) \/ Continue(w, rows)
       \/ /\ ReferencesHold({new}) /\ Continue(w, (rows \ old) \cup {new})
          /\ ~(old # {} /\ dialect = "postgres")
          /\ ~(dialect = "sqlite" /\ \E q \in old : ReferredTo(q))
  BY DEF Replace, old, new, up
<1>11. dialect \in {"sqlite", "postgres"}
  BY DEF JobsOK, Dialects
<1>12. ASSUME ~(old # {} /\ dialect = "postgres"),
              ~(dialect = "sqlite" /\ \E q \in old : ReferredTo(q))
       PROVE  \A q \in old : ~ReferredTo(q)
  BY <1>11, <1>12
<1> QED  BY <1>7, <1>8, <1>9, <1>10, <1>12

\* What an INSERT writes is sound, wherever the rows it refers to exist.
LEMMA NewRowsOK ==
  ASSUME DatabaseOK, JobsOK, NEW w \in Workers, NEW t \in Tables
  PROVE  \A r \in NewRows(w, t) : RowOK(r) /\ r.id = job[w].batch /\ r.table = t
<1> DEFINE refs == SqliteSchema[t].refs
                     \cup (IF t = "certificate_expiry_log" THEN {"certificates"} ELSE {})
           up == {<<p, IF p = "vessels" THEN job[w].vessel ELSE job[w].batch>>
                    : p \in refs \ {"vessel_tanks"}}
           perTank == {Row(t, job[w].batch, up \cup {<<"vessel_tanks", k>>}, "generate")
                         : k \in job[w].read}
           single == Row(t, job[w].batch, up, "generate")
<1>1. job[w].batch \in Nat
  BY BusyKind DEF Jobs
<1>2. Schema(dialect) = SqliteSchema
  BY TableFacts DEF JobsOK
<1>3. NewRows(w, t) = IF t = "cargo_records" THEN perTank ELSE {single}
  BY <1>2 DEF NewRows
<1>4. refs = Parents(t)
  BY DEF Parents
<1> HIDE DEF refs
<1>5. \A ref \in up : ref = <<ref[1], ref[2]>> /\ ref[1] \in Parents(t)
  BY <1>4
<1>6. Parents(t) # {} => up # {}
  <2>1. Parents(t) # {} => \E p : p \in refs \ {"vessel_tanks"}
    BY <1>4, RefsFacts
  <2> QED  BY <2>1
<1> HIDE DEF up
<1>7. RowOK(single) /\ single.id = job[w].batch /\ single.table = t
  BY <1>1, <1>5, <1>6 DEF RowOK, Row
<1>8. ASSUME t = "cargo_records", NEW r \in perTank
      PROVE  RowOK(r) /\ r.id = job[w].batch /\ r.table = t
  <2>1. PICK k \in job[w].read : r = Row(t, job[w].batch, up \cup {<<"vessel_tanks", k>>}, "generate")
    BY <1>8
  <2>2. "vessel_tanks" \in Parents(t)
    BY <1>8, ParentFacts
  <2>3. r.up = up \cup {<<"vessel_tanks", k>>} /\ r.id = job[w].batch /\ r.table = t
    BY <2>1 DEF Row
  <2>4. ASSUME NEW ref \in r.up PROVE ref = <<ref[1], ref[2]>> /\ ref[1] \in Parents(t)
    <3>1. CASE ref \in up
      BY <1>5, <3>1
    <3>2. CASE ref = <<"vessel_tanks", k>>
      BY <2>2, <3>2
    <3> QED  BY <2>3, <2>4, <3>1, <3>2
  <2>5. r.up # {}
    BY <2>3
  <2> QED  BY <1>1, <2>3, <2>4, <2>5 DEF RowOK
<1> HIDE DEF single, perTank
<1> QED  BY <1>3, <1>7, <1>8

LEMMA InsertingEffect ==
  ASSUME DatabaseOK, JobsOK, NEW w \in Workers, Insert(w)
  PROVE  Effect(w)
<1> DEFINE t == Current(w).table
           new == NewRows(w, t)
<1>1. Busy(w) /\ UNCHANGED <<dialect, batches>> /\ Current(w).op \in {"insert", "insert_returning"}
  BY DEF Insert, At, Others
<1>2. t \in Tables
  BY <1>1, WhoseStatement, TableFacts
<1>3. \A r \in new : RowOK(r) /\ r.id = job[w].batch
  BY <1>2, NewRowsOK
<1> HIDE DEF new
<1>4. ASSUME ReferencesHold(new), Continue(w, rows \cup new) PROVE Effect(w)
  <2>1. rows' = rows \cup new
    BY <1>4 DEF Continue, Proceed
  <2>2. DatabaseOK'
    BY <1>3, <1>4, <2>1, AddingKeepsReferences
  <2> QED  BY <1>1, <1>3, <1>4, <2>2, GoingOnEffect
<1>5. ASSUME Continue(w, rows) PROVE Effect(w)
  <2>1. rows' = rows
    BY <1>5 DEF Continue, Proceed
  <2>2. DatabaseOK'
    BY <2>1 DEF DatabaseOK, Exists
  <2> QED  BY <1>1, <1>5, <2>2, GoingOnEffect
<1>6. ASSUME Fail(w) PROVE Effect(w)
  BY <1>1, <1>6, StoppingEffect DEF Fail
<1>7. \/ Fail(w) \/ Continue(w, rows)
      \/ ReferencesHold(new) /\ Continue(w, rows \cup new)
  BY DEF Insert, new
<1> QED  BY <1>4, <1>5, <1>6, <1>7

\* The bulk INSERTs of the static fleet.
LEMMA SeedingEffect ==
  ASSUME DatabaseOK, JobsOK, NEW w \in Workers, SeedVessels(w) \/ Seed(w)
  PROVE  Effect(w)
<1>1. Busy(w) /\ UNCHANGED <<dialect, batches>> /\ Current(w).op = "seed"
  BY DEF SeedVessels, Seed, At, Others
<1>2. job[w].batch \in Nat /\ job[w].read \in SUBSET Nat
  BY BusyKind DEF Jobs
<1>3. ASSUME Fail(w) PROVE Effect(w)
  BY <1>1, <1>3, StoppingEffect DEF Fail
<1>4. ASSUME NEW new, ReferencesHold(new), Continue(w, rows \cup new),
             \A r \in new : RowOK(r) /\ (r.up = {} \/ r.id = job[w].batch)
      PROVE  Effect(w)
  <2>1. rows' = rows \cup new
    BY <1>4 DEF Continue, Proceed
  <2>2. DatabaseOK'
    BY <1>4, <2>1, AddingKeepsReferences
  <2> QED  BY <1>1, <1>4, <2>2, GoingOnEffect
<1>5. ASSUME SeedVessels(w) PROVE Effect(w)
  <2> DEFINE vessel == Row("vessels", 0, {}, "start")
             new == IF In("vessels") = {} THEN {vessel} ELSE {}
  <2>1. RowOK(vessel) /\ vessel.up = {}
    <3>1. "vessels" \in Tables /\ Parents("vessels") = {}
      <4>1. "vessels" \in Written /\ "vessels" \in Roots
        BY DEF Written, Roots
      <4> QED  BY <4>1, TableFacts, ParentFacts
    <3> QED  BY <3>1 DEF RowOK, Row
  <2>2. ReferencesHold(new)
    BY <2>1 DEF ReferencesHold
  <2>3. Fail(w) \/ Continue(w, IF In("vessels") = {} THEN rows \cup {vessel} ELSE rows)
    BY <1>5 DEF SeedVessels
  <2>4. (IF In("vessels") = {} THEN rows \cup {vessel} ELSE rows) = rows \cup new
    OBVIOUS
  <2>5. \A r \in new : RowOK(r) /\ (r.up = {} \/ r.id = job[w].batch)
    BY <2>1
  <2> HIDE DEF new
  <2> QED  BY <1>3, <1>4, <2>2, <2>3, <2>4, <2>5
<1>6. ASSUME Seed(w) PROVE Effect(w)
  <2> DEFINE t == Current(w).table
             byVoyage == {{<<"voyages", v>>} : v \in job[w].read}
             byKey == {{<<p, 0>> : p \in SqliteSchema[t].refs}}
             parents == IF t \in {"voyage_waypoints", "charter_party"} THEN byVoyage ELSE byKey
             all == {Row(t, job[w].batch, up, "start") : up \in parents}
             new == {r \in all : Twins(r) = {}}
  <2>1. t \in Tables /\ Schema(dialect) = SqliteSchema
    BY <1>1, WhoseStatement, TableFacts DEF JobsOK
  <2>2. ASSUME NEW up \in parents
        PROVE  /\ \A ref \in up : ref = <<ref[1], ref[2]>> /\ ref[1] \in Parents(t)
               /\ Parents(t) # {} => up # {}
    <3>1. CASE t \in {"voyage_waypoints", "charter_party"}
      <4>1. Parents(t) = {"voyages"}
        <5>1. t \in OfVoyages
          BY <3>1 DEF OfVoyages
        <5> QED  BY <2>1, <5>1, ParentFacts
      <4>2. PICK v \in job[w].read : up = {<<"voyages", v>>}
        BY <2>2, <3>1
      <4> HIDE DEF parents
      <4> QED  BY <4>1, <4>2
    <3>2. CASE t \notin {"voyage_waypoints", "charter_party"}
      <4>1. up = {<<p, 0>> : p \in SqliteSchema[t].refs}
        BY <2>2, <3>2
      <4>2. \A ref \in up : ref = <<ref[1], ref[2]>> /\ ref[1] \in SqliteSchema[t].refs
        BY <4>1
      <4>3. SqliteSchema[t].refs # {} => up # {}
        BY <4>1
      <4> QED  BY <2>1, <4>2, <4>3, RefsFacts
    <3> QED  BY <3>1, <3>2
  <2>3. Fail(w) \/ (ReferencesHold(all) /\ Continue(w, rows \cup new))
    BY <1>6, <2>1 DEF Seed
  <2> HIDE DEF parents
  <2>4. \A r \in all : RowOK(r) /\ r.id = job[w].batch
    BY <1>2, <2>1, <2>2 DEF RowOK, Row
  <2> HIDE DEF all
  <2>5. ReferencesHold(all) => ReferencesHold(new)
    BY DEF ReferencesHold
  <2>6. \A r \in new : RowOK(r) /\ (r.up = {} \/ r.id = job[w].batch)
    BY <2>4
  <2> HIDE DEF new
  <2> QED  BY <1>3, <1>4, <2>3, <2>5, <2>6
<1> QED  BY <1>5, <1>6

\* What a worker does in a statement.
Execute(w) ==
  \/ TryDelete(w) \/ Delete(w)
  \/ FindVessel(w) \/ SaveVessel(w) \/ Replace(w) \/ ReadTanks(w) \/ Insert(w)
  \/ Count(w) \/ SeedVessels(w) \/ ReadVoyages(w) \/ Seed(w)
LEMMA StatementEffect ==
  ASSUME DatabaseOK, JobsOK, NEW w \in Workers, Execute(w)
  PROVE  Effect(w)
BY DeletingEffect, LookingEffect, SavingEffect, ReplacingEffect, InsertingEffect, SeedingEffect
   DEF Execute

-----------------------------------------------------------------------------
\* What a step of x leaves behind: the worker's own job, and the lone jobs of others.
Advances(x) ==
  /\ Busy(x) /\ job'[x].kind = job[x].kind /\ job'[x].batch = job[x].batch
  /\ job'[x].alone = job[x].alone /\ job'[x].pc = job[x].pc + 1
  /\ \A r \in rows' \ rows : r.up = {} \/ r.id = job[x].batch
Leaves(x) ==
  /\ DatabaseOK' /\ JobsOK' /\ dialect' = dialect
  /\ \A w \in Workers \ {x} : Busy(w)' /\ job'[w].alone => rows' = rows /\ job'[w] = job[w]
  /\ Busy(x)' => (Execute(x) /\ Advances(x)) \/ job'[x].pc = 1

LEMMA ExecuteLeaves ==
  ASSUME DatabaseOK, JobsOK, NEW x \in Workers, Execute(x)
  PROVE  Leaves(x)
<1>1. Effect(x)
  BY StatementEffect
<1>2. /\ Busy(x) /\ UNCHANGED <<dialect, batches>> /\ DatabaseOK'
      /\ \A r \in rows' \ rows : r.up = {} \/ r.id = job[x].batch
  BY <1>1 DEF Effect
<1>3. ASSUME JobsOK', \A w \in Workers \ {x} : job'[w] = job[w]
      PROVE  \A w \in Workers \ {x} : Busy(w)' /\ job'[w].alone => rows' = rows /\ job'[w] = job[w]
  <2> SUFFICES ASSUME NEW w \in Workers \ {x}, Busy(w)', job'[w].alone PROVE FALSE
    OBVIOUS
  <2>1. Busy(w) /\ job[w].alone
    BY <1>3 DEF Busy
  <2> QED  BY <1>2, <2>1 DEF JobsOK
<1>4. CASE rows' = rows /\ \E ok \in BOOLEAN : Finish(x, ok)
  <2>1. JobsOK' /\ (\A w \in Workers \ {x} : job'[w] = job[w]) /\ job'[x] = NoJob("idle")
    BY <1>2, <1>4, FinishKeepsJobs
  <2>2. ~Busy(x)'
    BY <2>1 DEF Busy, NoJob
  <2> QED  BY <1>2, <1>3, <2>1, <2>2 DEF Leaves
<1>5. CASE \E vessel \in Nat, read \in SUBSET Nat : Proceed(x, rows', vessel, read)
  <2>1. PICK vessel \in Nat, read \in SUBSET Nat : Proceed(x, rows', vessel, read)
    BY <1>5
  <2>2. /\ JobsOK'
        /\ \A w \in Workers \ {x} : job'[w] = job[w]
        /\ \/ job'[x] = NoJob("idle") /\ job[x].pc = Len(Statements(job[x].kind)) /\ Finish(x, TRUE)
           \/ /\ job'[x] = [job[x] EXCEPT !.pc = @ + 1, !.vessel = vessel, !.read = read]
              /\ job[x].pc # Len(Statements(job[x].kind)) /\ outcome' = NoOutcome
    BY <1>2, <2>1, ProceedKeepsJobs
  <2>3. CASE job'[x] = NoJob("idle")
    <3>1. ~Busy(x)'
      BY <2>3 DEF Busy, NoJob
    <3> QED  BY <1>2, <1>3, <2>2, <3>1 DEF Leaves
  <2>4. CASE job'[x] = [job[x] EXCEPT !.pc = @ + 1, !.vessel = vessel, !.read = read]
    <3>1. job[x] \in Jobs
      BY BusyKind
    <3>2. /\ job'[x].kind = job[x].kind /\ job'[x].batch = job[x].batch
          /\ job'[x].alone = job[x].alone /\ job'[x].pc = job[x].pc + 1
      BY <2>4, <3>1 DEF Jobs
    <3>3. Advances(x)
      BY <1>2, <3>2 DEF Advances
    <3> QED  BY <1>2, <1>3, <2>2, <3>3 DEF Leaves
  <2> QED  BY <2>2, <2>3, <2>4
<1> QED  BY <1>1, <1>4, <1>5 DEF Effect

\* A start of a worker or a request to it.
LEMMA BeginLeaves ==
  ASSUME DatabaseOK, JobsOK, NEW x \in Workers, Start(x) \/ Generate(x) \/ Reset(x)
  PROVE  Leaves(x) /\ outcome' = NoOutcome
<1>1. \E kind \in Kinds : Begin(x, kind)
  BY DEF Start, Generate, Reset, Request, Kinds
<1>2. ~Busy(x) /\ UNCHANGED <<dialect, rows>>
  BY DEF Start, Generate, Reset, Request, Busy
<1>3. /\ JobsOK' /\ job'[x].pc = 1 /\ outcome' = NoOutcome
      /\ \A w \in Workers \ {x} : Busy(w)' => ~job'[w].alone
  BY <1>1, <1>2, BeginKeepsJobs
<1>4. DatabaseOK'
  BY <1>2 DEF DatabaseOK, Exists
<1> QED  BY <1>2, <1>3, <1>4 DEF Leaves

\* A row appended by another handler.
LEMMA RecordLeaves ==
  ASSUME DatabaseOK, JobsOK, NEW x \in Workers, Record(x)
  PROVE  Leaves(x) /\ outcome' = NoOutcome
<1>1. /\ job' = Disturbed(x) /\ outcome' = NoOutcome /\ UNCHANGED <<dialect, batches>> /\ ~Busy(x)
  BY DEF Record, Busy
<1>2. /\ job' \in [Workers -> Jobs] /\ job'[x] = job[x]
      /\ \A w \in Workers : /\ job'[w].kind = job[w].kind /\ job'[w].pc = job[w].pc
                            /\ job'[w].batch = job[w].batch
                            /\ w # x /\ Busy(w) => ~job'[w].alone
  BY <1>1, DisturbedJobs
<1>3. \A w \in Workers : Busy(w)' <=> Busy(w)
  BY <1>2 DEF Busy
<1>4. \A w \in Workers : Busy(w)' => w # x /\ ~job'[w].alone
  BY <1>1, <1>2, <1>3
<1>5. JobsOK'
  BY <1>1, <1>2, <1>3, <1>4 DEF JobsOK
<1>6. PICK t \in Recorded : \E p \in SqliteSchema[t].refs : \E r \in In(p) :
        rows' = rows \cup {Row(t, 0, {<<p, r.id>>}, "other")}
  <2>1. Schema(dialect) = SqliteSchema
    BY TableFacts DEF JobsOK
  <2> QED  BY <2>1 DEF Record
<1>7. PICK p \in SqliteSchema[t].refs : \E r \in In(p) :
        rows' = rows \cup {Row(t, 0, {<<p, r.id>>}, "other")}
  BY <1>6
<1> PICK r \in In(p) : rows' = rows \cup {Row(t, 0, {<<p, r.id>>}, "other")}
  BY <1>7
<1> DEFINE new == Row(t, 0, {<<p, r.id>>}, "other")
<1>8. t \in Tables
  BY DemoAssumption DEF Tables
<1>9. RowOK(new)
  <2>1. p \in Parents(t)
    BY <1>8, RefsFacts
  <2>2. new.table = t /\ new.id = 0 /\ new.up = {<<p, r.id>>}
    BY DEF Row
  <2>3. \A ref \in new.up : ref = <<ref[1], ref[2]>> /\ ref[1] \in Parents(t)
    BY <2>1, <2>2
  <2> HIDE DEF new
  <2> QED  BY <1>8, <2>2, <2>3 DEF RowOK
<1>10. ReferencesHold({new})
  BY DEF ReferencesHold, Exists, In, Row
<1> HIDE DEF new
<1>11. DatabaseOK'
  <2>1. rows' = rows \cup {new}
    BY <1>7 DEF new
  <2> QED  BY <1>9, <1>10, <2>1, AddingKeepsReferences
<1> QED  BY <1>1, <1>3, <1>4, <1>5, <1>11 DEF Leaves

\* A worker killed between two statements.
LEMMA CrashLeaves ==
  ASSUME DatabaseOK, JobsOK, NEW x \in Workers, Crash(x)
  PROVE  Leaves(x) /\ outcome' = NoOutcome
<1>1. /\ job' = [job EXCEPT ![x] = NoJob("down")] /\ outcome' = NoOutcome
      /\ UNCHANGED <<dialect, rows, batches>>
  BY DEF Crash
<1>2. NoJob("down") \in Jobs /\ NoJob("down").kind = "down"
  BY DEF NoJob, Jobs
<1>3. /\ job' \in [Workers -> Jobs] /\ job'[x] = NoJob("down")
      /\ \A w \in Workers \ {x} : job'[w] = job[w]
  BY <1>1, <1>2 DEF JobsOK
<1>4. ~Busy(x)' /\ \A w \in Workers \ {x} : Busy(w)' <=> Busy(w)
  BY <1>2, <1>3 DEF Busy
<1>5. ASSUME NEW w \in Workers, Busy(w)'
      PROVE  /\ job'[w].pc \in 1..Len(Statements(job'[w].kind))
             /\ job'[w].batch \in 1..batches'
             /\ job'[w].alone => \A y \in Workers \ {w} : ~Busy(y)'
  <2>1. w # x /\ Busy(w) /\ job'[w] = job[w]
    BY <1>3, <1>4, <1>5
  <2> QED  BY <1>1, <1>4, <2>1 DEF JobsOK
<1>6. JobsOK'
  BY <1>1, <1>3, <1>5 DEF JobsOK
<1>7. DatabaseOK'
  BY <1>1 DEF DatabaseOK, Exists
<1> QED  BY <1>1, <1>3, <1>4, <1>6, <1>7 DEF Leaves

\* Every step is one of these, by one worker.
LEMMA EveryStepLeaves ==
  ASSUME DatabaseOK, JobsOK, DemoNext
  PROVE  \E x \in Workers : Leaves(x) /\ (Execute(x) \/ outcome' = NoOutcome)
<1>1. PICK x \in Workers :
        \/ Execute(x) \/ Start(x) \/ Generate(x) \/ Reset(x) \/ Record(x) \/ Crash(x)
  BY DEF DemoNext, Execute
<1>2. CASE Execute(x)
  BY <1>2, ExecuteLeaves
<1>3. CASE Start(x) \/ Generate(x) \/ Reset(x)
  BY <1>3, BeginLeaves
<1>4. CASE Record(x)
  BY <1>4, RecordLeaves
<1>5. CASE Crash(x)
  BY <1>5, CrashLeaves
<1> QED  BY <1>1, <1>2, <1>3, <1>4, <1>5

-----------------------------------------------------------------------------
\* A lone seeding starts on a database without references.
LEMMA SeedingKept ==
  ASSUME DatabaseOK, JobsOK, LoneSeedFindsNoOlderRows, NEW x \in Workers, Leaves(x)
  PROVE  LoneSeedFindsNoOlderRows'
<1> SUFFICES ASSUME NEW w \in Workers, job'[w].kind = "start", job'[w].alone, job'[w].pc > 1,
                    NEW r \in rows', r.up # {}
             PROVE  r.id = job'[w].batch
  BY DEF LoneSeedFindsNoOlderRows
<1>1. Busy(w)'
  BY DEF Busy
<1>2. CASE w # x
  <2>1. rows' = rows /\ job'[w] = job[w]
    BY <1>1, <1>2 DEF Leaves
  <2> QED  BY <2>1 DEF LoneSeedFindsNoOlderRows
<1>3. CASE w = x
  <2>1. Execute(x) /\ Advances(x)
    BY <1>1, <1>3 DEF Leaves
  <2>2. /\ Busy(x) /\ job[x].kind = "start" /\ job[x].alone /\ job'[x].batch = job[x].batch
        /\ r \in rows \/ r.id = job[x].batch
    BY <1>3, <2>1 DEF Advances
  <2>3. CASE job[x].pc > 1
    BY <1>3, <2>2, <2>3 DEF LoneSeedFindsNoOlderRows
  <2>4. CASE ~(job[x].pc > 1)
    <3>1. job[x].pc = 1
      <4>1. job[x].pc \in 1..Len(SeedStatements) /\ Len(SeedStatements) \in Nat
        BY <2>2, SeedPositions DEF JobsOK, Statements
      <4> QED  BY <2>4, <4>1
    <3>2. Current(x).op = "count"
      <4>1. Current(x) = SeedStatements[1]
        BY <2>2, <3>1 DEF Current, Statements
      <4>2. SeedStatements[1] = Stmt("count", "vessels")
        BY SeedPositions
      <4> QED  BY <4>1, <4>2 DEF Stmt
    <3>3. Count(x)
      BY <2>1, <3>2 DEF Execute, TryDelete, Delete, FindVessel, SaveVessel, Replace, ReadTanks,
                        Insert, SeedVessels, ReadVoyages, Seed, At
    <3>4. ~Finish(x, TRUE)
      <4>1. Finish(x, TRUE) => job'[x] = NoJob("idle")
        BY DEF Finish, JobsOK
      <4>2. job'[x] = NoJob("idle") => job'[x].kind = "idle"
        BY DEF NoJob
      <4>3. job'[x].kind = "start"
        BY <1>3
      <4> QED  BY <4>1, <4>2, <4>3
    <3>5. In("vessels") = {} /\ Continue(x, rows)
      BY <3>3, <3>4 DEF Count
    <3>6. rows' = rows
      BY <3>5 DEF Continue, Proceed
    <3>7. r.up = {}
      BY <3>5, <3>6, NothingWithoutVessels
    <3> QED  BY <3>7
  <2> QED  BY <2>3, <2>4
<1> QED  BY <1>2, <1>3

\* The outcome of a step is that of the job it ends.
LEMMA OutcomeOf ==
  ASSUME NEW x \in Workers, Effect(x)
  PROVE  outcome' = NoOutcome \/ \E ok \in BOOLEAN : Finish(x, ok)
  BY DEF Effect, Proceed

\* A reset ends at the first table that is missing or still referred to.
LEMMA ResetFails ==
  ASSUME DatabaseOK, JobsOK, DemoNext
  PROVE  ResetStopsShort'
<1>1. PICK x \in Workers : Leaves(x) /\ (Execute(x) \/ outcome' = NoOutcome)
  BY EveryStepLeaves
<1>2. NoOutcome.kind # "reset"
  BY DEF NoOutcome
<1>3. CASE outcome' = NoOutcome
  BY <1>2, <1>3 DEF ResetStopsShort
<1>4. CASE Execute(x) /\ outcome' # NoOutcome
  <2>1. Effect(x)
    BY <1>4, StatementEffect
  <2>2. PICK ok \in BOOLEAN : Finish(x, ok)
    BY <1>4, <2>1, OutcomeOf
  <2>3. outcome'.kind = job[x].kind /\ Busy(x)
    BY <2>1, <2>2 DEF Finish, Effect
  <2>4. CASE job[x].kind = "reset"
    <3>1. Current(x).op = "delete" /\ job[x].pc \in 1..28
      <4>1. Len(ResetStatements) = 28
        BY ResetPositions
      <4> QED  BY <2>3, <2>4, <4>1, CurrentFacts DEF AtReset, JobsOK, Statements
    <3>2. Delete(x)
      BY <1>4, <3>1 DEF Execute, TryDelete, Count, FindVessel, SaveVessel, Replace, ReadTanks,
                        Insert, SeedVessels, ReadVoyages, Seed, At
    <3>3. CASE Fail(x)
      BY <3>3 DEF Fail, Finish, ResetStopsShort
    <3>4. CASE Deletable(Current(x).table) /\ Continue(x, rows \ In(Current(x).table))
      <4>1. job[x].pc = Len(Statements(job[x].kind))
        BY <1>4, <3>4 DEF Continue, Proceed
      <4>2. Len(ResetStatements) = 28 /\ ResetStatements[28].table = "voyage_eca_events"
        BY ResetPositions
      <4>3. Current(x).table = "voyage_eca_events"
        BY <2>4, <4>1, <4>2 DEF Current, Statements
      <4>4. Current(x).table \in DOMAIN SqliteSchema
        BY <3>4, TableFacts DEF Deletable, JobsOK
      <4> QED  BY <4>3, <4>4, TableFacts
    <3> QED  BY <3>2, <3>3, <3>4 DEF Delete
  <2>5. CASE job[x].kind # "reset"
    BY <2>3, <2>5 DEF ResetStopsShort
  <2> QED  BY <2>4, <2>5
<1> QED  BY <1>1, <1>3, <1>4

-----------------------------------------------------------------------------
\* A generation that runs alone.
Lone(x) == Busy(x) /\ job[x].kind = "generate" /\ job[x].alone
\* What its next statement must not break: its own course, and what it answers.
Good(x) ==
  /\ Busy(x)' => LoneGeneration(x)'
  /\ LoneGenerateStopsOnlyAtCertificates' /\ AnsweredFleetIsWhole'

LEMMA LoneAt ==
  ASSUME JobsOK, NEW x \in Workers, Lone(x)
  PROVE  /\ job[x].pc \in 1..58 /\ job[x].batch \in Nat /\ job[x].vessel \in Nat
         /\ job[x].read \in SUBSET Nat
         /\ Len(Statements(job[x].kind)) = 58
         /\ Current(x) = GenerateStatements[job[x].pc]
<1>1. Statements(job[x].kind) = GenerateStatements
  BY DEF Lone, Statements
<1>2. Len(GenerateStatements) = 58
  BY GeneratePositions
<1>3. job[x].pc \in 1..Len(Statements(job[x].kind))
  BY DEF Lone, JobsOK
<1>4. job[x] \in Jobs
  BY BusyKind
<1> QED  BY <1>1, <1>2, <1>3, <1>4 DEF Current, Jobs

LEMMA LoneFilling ==
  ASSUME JobsOK, NEW x \in Workers, Lone(x), NEW i \in 1..16, job[x].pc = 42 + i
  PROVE  Current(x) = FillStatements[i]
<1>1. \A j \in 1..16 : GenerateStatements[42 + j] = FillStatements[j]
  BY GeneratePositions
<1> QED  BY <1>1, LoneAt

\* A statement that is not the last one answers nothing.
LEMMA LoneGoesOn ==
  ASSUME JobsOK, NEW x \in Workers, Lone(x), NEW p \in 1..57, job[x].pc = p,
         NEW b \in Nat, job[x].batch = b, UNCHANGED <<dialect, batches>>,
         NEW vessel \in Nat, NEW read \in SUBSET Nat, Proceed(x, rows', vessel, read),
         p + 1 <= 43 => Cleared(p + 1)',
         p + 1 >= 43 => Filled(p + 1, b, vessel, read)'
  PROVE  Good(x)
<1>1. Busy(x) /\ job[x] \in Jobs
  BY BusyKind DEF Lone
<1>2. /\ job' = [job EXCEPT ![x].pc = @ + 1, ![x].vessel = vessel, ![x].read = read]
      /\ outcome' = NoOutcome
  <2>1. Len(Statements(job[x].kind)) = 58
    BY LoneAt
  <2>2. job[x].pc # Len(Statements(job[x].kind))
    BY <2>1
  <2> QED  BY <2>2 DEF Proceed
<1>3. /\ job'[x].pc = p + 1 /\ job'[x].batch = b
      /\ job'[x].vessel = vessel /\ job'[x].read = read
  BY <1>1, <1>2 DEF Jobs, JobsOK
<1>4. LoneGeneration(x)'
  BY <1>3 DEF LoneGeneration
<1>5. LoneGenerateStopsOnlyAtCertificates' /\ AnsweredFleetIsWhole'
  BY <1>2 DEF NoOutcome, LoneGenerateStopsOnlyAtCertificates, AnsweredFleetIsWhole
<1> QED  BY <1>4, <1>5 DEF Good

-----------------------------------------------------------------------------
\* Clearing.
\* Every table is cleared after the tables whose rows refer to it.
ClearedBefore(c, p) == \E i \in 1..42 : i < p /\ GenerateStatements[i].table = c

LEMMA ChildrenFirst ==
  ASSUME NEW p \in 1..42, NEW c \in Tables, GenerateStatements[p].table \in Parents(c)
  PROVE  ClearedBefore(c, p)
<1>1. /\ \A i \in 1..40 : GenerateStatements[i].table = ClearedOneByOne[i]
      /\ GenerateStatements[41].table = "vessel_tanks"
      /\ GenerateStatements[42].table = "vessels"
  <2>1. \A i \in 1..42 : GenerateStatements[i] = ClearStatements[i]
    BY GeneratePositions
  <2>2. /\ \A i \in 1..40 : ClearStatements[i] = Stmt("try_delete", ClearedOneByOne[i])
        /\ ClearStatements[41] = Stmt("delete", "vessel_tanks")
        /\ ClearStatements[42] = Stmt("delete", "vessels")
    BY ClearPositions
  <2>3. \A t : Stmt("try_delete", t).table = t /\ Stmt("delete", t).table = t
    BY DEF Stmt
  <2>4. ASSUME NEW i \in 1..40 PROVE GenerateStatements[i].table = ClearedOneByOne[i]
    <3>1. i \in 1..42
      OBVIOUS
    <3> QED  BY <2>1, <2>2, <2>3, <3>1
  <2>5. GenerateStatements[41] = ClearStatements[41] /\ GenerateStatements[42] = ClearStatements[42]
    <3>1. 41 \in 1..42 /\ 42 \in 1..42
      OBVIOUS
    <3> QED  BY <2>1, <3>1
  <2> QED  BY <2>2, <2>3, <2>4, <2>5
<1>2. GenerateStatements[p].table \in {"vessels", "voyages", "vessel_tanks", "certificates"}
  BY ParentFacts
<1>3. \/ p = 16 /\ GenerateStatements[p].table = "certificates"
      \/ p = 40 /\ GenerateStatements[p].table = "voyages"
      \/ p = 41 /\ GenerateStatements[p].table = "vessel_tanks"
      \/ p = 42 /\ GenerateStatements[p].table = "vessels"
  <2>1. p \in 1..40 \/ p = 41 \/ p = 42
    OBVIOUS
  <2>2. ASSUME NEW i \in 1..40,
               ClearedOneByOne[i] \in {"vessels", "voyages", "vessel_tanks", "certificates"}
        PROVE  \/ i = 16 /\ ClearedOneByOne[i] = "certificates"
               \/ i = 40 /\ ClearedOneByOne[i] = "voyages"
    <3>1. i = 1 \/ i = 2 \/ i = 3 \/ i = 4 \/ i = 5 \/ i = 6 \/ i = 7 \/ i = 8 \/ i = 9 \/ i =
          10 \/ i = 11 \/ i = 12 \/ i = 13 \/ i = 14 \/ i = 15 \/ i = 16 \/ i = 17 \/ i = 18
          \/ i = 19 \/ i = 20 \/ i = 21 \/ i = 22 \/ i = 23 \/ i = 24 \/ i = 25 \/ i = 26 \/ i
          = 27 \/ i = 28 \/ i = 29 \/ i = 30 \/ i = 31 \/ i = 32 \/ i = 33 \/ i = 34 \/ i = 35
          \/ i = 36 \/ i = 37 \/ i = 38 \/ i = 39 \/ i = 40
      OBVIOUS
    <3> QED  BY <2>2, <3>1 DEF ClearedOneByOne
  <2> QED  BY <1>1, <1>2, <2>1, <2>2
<1>4. ASSUME NEW i \in 1..40, i < p, ClearedOneByOne[i] = c PROVE ClearedBefore(c, p)
  <2>1. GenerateStatements[i].table = c
    BY <1>1, <1>4
  <2>2. i \in 1..42
    OBVIOUS
  <2> QED  BY <1>4, <2>1, <2>2 DEF ClearedBefore
<1>5. CASE p = 16 /\ GenerateStatements[p].table = "certificates"
  <2>1. c = "certificate_expiry_log"
    BY <1>5, ParentFacts
  <2>2. ClearedOneByOne[9] = "certificate_expiry_log"
    BY DEF ClearedOneByOne
  <2>3. 9 \in 1..40 /\ 9 < p
    BY <1>5
  <2> QED  BY <1>4, <2>1, <2>2, <2>3
<1>6. CASE p = 41 /\ GenerateStatements[p].table = "vessel_tanks"
  <2>1. c = "cargo_records"
    BY <1>6, ParentFacts
  <2>2. ClearedOneByOne[6] = "cargo_records"
    BY DEF ClearedOneByOne
  <2>3. 6 \in 1..40 /\ 6 < p
    BY <1>6
  <2> QED  BY <1>4, <2>1, <2>2, <2>3
<1>7. CASE p = 40 /\ GenerateStatements[p].table = "voyages"
  <2>1. c \in OfVoyages \cup {"cargo_records"}
    BY <1>7, ParentFacts
  <2>2. PICK i \in 1..39 : ClearedOneByOne[i] = c
    BY <2>1 DEF ClearedOneByOne, OfVoyages
  <2>3. i \in 1..40 /\ i < p
    BY <1>7
  <2> QED  BY <1>4, <2>2, <2>3
<1>8. CASE p = 42 /\ GenerateStatements[p].table = "vessels"
  <2>1. c \in OfVessels
    BY <1>8, ParentFacts
  <2>2. c = "vessel_tanks" \/ \E i \in 1..40 : ClearedOneByOne[i] = c
    BY <2>1 DEF ClearedOneByOne, OfVessels
  <2>3. CASE c = "vessel_tanks"
    <3>1. 41 \in 1..42 /\ 41 < p
      BY <1>8
    <3> QED  BY <1>1, <2>3, <3>1 DEF ClearedBefore
  <2>4. ASSUME NEW i \in 1..40, ClearedOneByOne[i] = c PROVE ClearedBefore(c, p)
    <3>1. i < p
      BY <1>8
    <3> QED  BY <1>4, <2>4, <3>1
  <2> QED  BY <2>2, <2>3, <2>4
<1> QED  BY <1>3, <1>5, <1>6, <1>7, <1>8

\* The tables of the clearing, in the order that matters.
LEMMA ClearedTables ==
  /\ \A i \in 1..40 : GenerateStatements[i].op = "try_delete"
  /\ GenerateStatements[40].table = "voyages"
  /\ GenerateStatements[41] = Stmt("delete", "vessel_tanks")
  /\ GenerateStatements[42] = Stmt("delete", "vessels")
<1>1. \A i \in 1..42 : GenerateStatements[i] = ClearStatements[i]
  BY GeneratePositions
<1>2. /\ \A i \in 1..40 : ClearStatements[i] = Stmt("try_delete", ClearedOneByOne[i])
      /\ ClearStatements[41] = Stmt("delete", "vessel_tanks")
      /\ ClearStatements[42] = Stmt("delete", "vessels")
  BY ClearPositions
<1>3. \A i \in 1..40 : GenerateStatements[i] = Stmt("try_delete", ClearedOneByOne[i])
  <2>1. ASSUME NEW i \in 1..40 PROVE i \in 1..42
    OBVIOUS
  <2> QED  BY <1>1, <1>2, <2>1
<1>4. ClearedOneByOne[40] = "voyages"
  BY DEF ClearedOneByOne
<1>5. 40 \in 1..40 /\ 41 \in 1..42 /\ 42 \in 1..42
  OBVIOUS
<1>6. \A t : Stmt("try_delete", t).op = "try_delete" /\ Stmt("try_delete", t).table = t
  BY DEF Stmt
<1> QED  BY <1>1, <1>2, <1>3, <1>4, <1>5, <1>6

\* Nothing refers to what is cleared next.
LEMMA NothingRefersHere ==
  ASSUME DatabaseOK, NEW p \in 1..42, Cleared(p), NEW r \in In(GenerateStatements[p].table)
  PROVE  ~ReferredTo(r)
<1> DEFINE t == GenerateStatements[p].table
<1> SUFFICES ASSUME NEW q \in rows, <<r.table, r.id>> \in q.up PROVE FALSE
  BY DEF ReferredTo
<1>1. r.table = t
  BY DEF In
<1>2. q.table \in Tables /\ t \in Parents(q.table)
  <2>1. <<r.table, r.id>>[1] \in Parents(q.table) /\ q.table \in Tables
    BY DEF DatabaseOK
  <2> QED  BY <1>1, <2>1
<1>3. PICK i \in 1..42 : i < p /\ GenerateStatements[i].table = q.table
  BY <1>2, ChildrenFirst DEF ClearedBefore
<1>4. In(q.table) = {}
  BY <1>3 DEF Cleared
<1> QED  BY <1>4 DEF In

\* Every DELETE of a lone generation empties its table.
LEMMA LoneClears ==
  ASSUME DatabaseOK, JobsOK, NEW x \in Workers, Lone(x), LoneGeneration(x), Execute(x),
         NEW p \in 1..42, job[x].pc = p
  PROVE  Good(x)
<1> DEFINE t == GenerateStatements[p].table
<1>1. Current(x) = GenerateStatements[p] /\ job[x].batch \in Nat /\ job[x].vessel \in Nat
      /\ job[x].read \in SUBSET Nat
  BY LoneAt
<1>2. Cleared(p)
  BY DEF LoneGeneration
<1>3. \/ Current(x).op = "try_delete"
      \/ Current(x).op = "delete" /\ t \in Written
  <2>1. p \in 1..40 \/ p = 41 \/ p = 42
    OBVIOUS
  <2> QED  BY <1>1, <2>1, ClearedTables DEF Stmt, Written
<1>4. t \in DOMAIN SqliteSchema => Deletable(t)
  <2>1. \A r \in In(t) : ~ReferredTo(r)
    BY <1>2, NothingRefersHere
  <2>2. Schema(dialect) = SqliteSchema
    BY TableFacts DEF JobsOK
  <2> QED  BY <2>1, <2>2 DEF Deletable
<1>5. t \notin DOMAIN SqliteSchema => In(t) = {}
  BY DEF DatabaseOK, In, Tables
<1>6. UNCHANGED <<dialect, batches>> /\ (TryDelete(x) \/ Delete(x))
  BY <1>3 DEF Execute, TryDelete, Delete, Count, FindVessel, SaveVessel, Replace, ReadTanks,
              Insert, SeedVessels, ReadVoyages, Seed, At, Others
<1>7. Continue(x, rows \ In(t))
  <2>1. CASE TryDelete(x)
    <3>1. Continue(x, IF Deletable(t) THEN rows \ In(t) ELSE rows)
      BY <1>1, <2>1 DEF TryDelete
    <3>2. (IF Deletable(t) THEN rows \ In(t) ELSE rows) = rows \ In(t)
      BY <1>4, <1>5
    <3> QED  BY <3>1, <3>2
  <2>2. CASE Delete(x)
    <3>1. Current(x).op = "delete"
      BY <2>2 DEF Delete, At
    <3>2. t \in DOMAIN SqliteSchema
      BY <1>3, <3>1, TableFacts DEF Tables
    <3> QED  BY <1>1, <1>4, <2>2, <3>2 DEF Delete
  <2> QED  BY <1>6, <2>1, <2>2
<1>8. rows' = rows \ In(t) /\ Proceed(x, rows', job[x].vessel, job[x].read)
  BY <1>7 DEF Continue, Proceed
<1>9. Cleared(p + 1)'
  <2> SUFFICES ASSUME NEW i \in 1..42, i < p + 1 PROVE In(GenerateStatements[i].table)' = {}
    BY DEF Cleared
  <2>1. CASE i = p
    BY <1>8, <2>1 DEF In
  <2>2. CASE i < p
    <3>1. In(GenerateStatements[i].table) = {}
      BY <1>2, <2>2 DEF Cleared
    <3> QED  BY <1>8, <3>1 DEF In
  <2> QED  BY <2>1, <2>2
<1>10. PICK b \in Nat : b = job[x].batch
  BY <1>1
<1>11. PICK vessel \in Nat : vessel = job[x].vessel
  BY <1>1
<1>12. PICK read \in SUBSET Nat : read = job[x].read
  BY <1>1
<1>13. p + 1 >= 43 => Filled(p + 1, b, vessel, read)'
  <2> SUFFICES ASSUME p = 42 PROVE Filled(43, b, vessel, read)'
    OBVIOUS
  <2>1. /\ In(GenerateStatements[40].table)' = {} /\ In(GenerateStatements[41].table)' = {}
        /\ In(GenerateStatements[42].table)' = {}
    BY <1>9 DEF Cleared
  <2>2. In("voyages")' = {} /\ In("vessel_tanks")' = {} /\ In("vessels")' = {}
    BY <2>1, ClearedTables DEF Stmt
  <2> QED  BY <2>2 DEF Filled
<1>14. Proceed(x, rows', vessel, read) /\ p \in 1..57 /\ job[x].batch = b
  BY <1>8, <1>10, <1>11, <1>12
<1> QED  BY <1>6, <1>9, <1>13, <1>14, LoneGoesOn

-----------------------------------------------------------------------------
\* Filling.
\* What is filled stays filled while rows are only added.
LEMMA FilledNext ==
  ASSUME NEW p \in 46..57, NEW b \in Nat, NEW vessel, NEW read, NEW next, NEW i \in 1..16,
         p = 42 + i, Filled(p, b, vessel, read), dialect' = dialect, rows \subseteq rows',
         \A r \in rows' \ rows : r.table # "vessels" /\ (p = 46 => r.table # "voyages"),
         FillStatements[i].op # "read" => HasRow(FillStatements[i].table, b)',
         p = 46 => (\E r \in In("vessel_tanks") : r.id = b /\ <<"vessels", b>> \in r.up)',
         p = 49 => b \in next /\ (\A k \in next : Exists(<<"vessel_tanks", k>>)'),
         p = 56 => dialect = "sqlite"
  PROVE  Filled(p + 1, b, vessel, next)'
<1>1. \A t : HasRow(t, b) => HasRow(t, b)'
  BY DEF HasRow, In
<1>2. p + 1 <= 47 => In("voyages")' = {}
  BY DEF Filled, In
<1>3. vessel = b /\ (\A r \in In("vessels") : r.id = b)'
  BY DEF Filled, In
<1>4. (\E r \in In("vessel_tanks") : r.id = b /\ <<"vessels", b>> \in r.up)'
  BY DEF Filled, In
<1>5. p + 1 = 50 => b \in next /\ (\A k \in next : Exists(<<"vessel_tanks", k>>)')
  OBVIOUS
<1>6. p + 1 >= 57 => dialect' = "sqlite"
  BY DEF Filled
<1>7. dialect' = "sqlite" => HasRow("eca_zones", b)'
  BY <1>1 DEF Filled
<1>8. ASSUME NEW j \in 3..16, 42 + j < p + 1, FillStatements[j].op # "read"
      PROVE  HasRow(FillStatements[j].table, b)'
  <2>1. CASE j = i
    BY <1>8, <2>1
  <2>2. CASE j # i
    <3>1. 42 + j < p
      BY <1>8, <2>2
    <3>2. HasRow(FillStatements[j].table, b)
      BY <1>8, <3>1 DEF Filled
    <3> QED  BY <1>1, <3>2
  <2> QED  BY <2>1, <2>2
<1>9. p + 1 > 46 /\ p + 1 # 45
  OBVIOUS
<1> QED  BY <1>2, <1>3, <1>4, <1>5, <1>6, <1>7, <1>8, <1>9 DEF Filled

\* The statements of a fill that insert.
LEMMA InsertedTables ==
  ASSUME NEW i \in 5..16, i # 7
  PROVE  LET t == FillStatements[i].table
         IN /\ FillStatements[i].op = IF i = 14 THEN "insert_returning" ELSE "insert"
            /\ t \in Written \ {"vessels", "vessel_tanks"}
            /\ t = "cargo_records" <=> i = 8
            /\ i = 14 => t = "certificates"
            /\ t \in WithUniqueColumns => i = 5 /\ t = "voyages"
            /\ \A q \in Parents(t) \ {"vessel_tanks"} :
                 q = "vessels" \/ (q = "voyages" /\ i > 5) \/ (q = "certificates" /\ i > 14)
<1> DEFINE t == FillStatements[i].table
<1>1. \/ (i = 5 /\ t = "voyages") \/ (i = 6 /\ t = "voyage_waypoints") \/ (i = 8 /\ t = "cargo_records")
      \/ (i = 9 /\ t = "bor_daily_summary") \/ (i = 10 /\ t = "engine_performance")
      \/ (i = 11 /\ t = "hull_performance") \/ (i = 12 /\ t = "charter_party")
      \/ (i = 13 /\ t = "charter_performance") \/ (i = 14 /\ t = "certificates")
      \/ (i = 15 /\ t = "certificate_expiry_log") \/ (i = 16 /\ t = "seemp_measures")
  <2>1. i = 5 \/ i = 6 \/ i = 8 \/ i = 9 \/ i = 10 \/ i = 11 \/ i = 12 \/ i = 13 \/ i = 14
        \/ i = 15 \/ i = 16
    OBVIOUS
  <2> QED  BY <2>1, FillPositions DEF Stmt
<1>2. FillStatements[i].op = IF i = 14 THEN "insert_returning" ELSE "insert"
  <2>1. i = 5 \/ i = 6 \/ i = 8 \/ i = 9 \/ i = 10 \/ i = 11 \/ i = 12 \/ i = 13 \/ i = 14
        \/ i = 15 \/ i = 16
    OBVIOUS
  <2>2. \A j \in {5, 6, 8, 9, 10, 11, 12, 13, 15, 16} : FillStatements[j].op = "insert"
    BY FillPositions DEF Stmt
  <2>3. FillStatements[14].op = "insert_returning"
    BY FillPositions DEF Stmt
  <2>4. CASE i = 14
    BY <2>3, <2>4
  <2>5. CASE i \in {5, 6, 8, 9, 10, 11, 12, 13, 15, 16}
    BY <2>2, <2>5
  <2> QED  BY <2>1, <2>4, <2>5
<1> HIDE DEF t
<1>3. t \in Written \ {"vessels", "vessel_tanks"}
  BY <1>1 DEF Written
<1>4. t \in WithUniqueColumns => i = 5 /\ t = "voyages"
  BY <1>1 DEF WithUniqueColumns
<1>5. t = "cargo_records" <=> i = 8
  BY <1>1
<1>6. i = 14 => t = "certificates"
  BY <1>1
<1>7. t \in Tables
  BY <1>3, TableFacts
<1>8. \/ (i = 8 /\ t = "cargo_records") \/ (i = 15 /\ t = "certificate_expiry_log")
      \/ (i > 5 /\ t \in OfVoyages) \/ t \in OfVessels \ {"certificate_expiry_log"}
  <2>1. i > 5 /\ t \in {"voyage_waypoints", "bor_daily_summary", "engine_performance",
                       "charter_party", "charter_performance"} => t \in OfVoyages
    BY DEF OfVoyages
  <2>2. t \in {"voyages", "hull_performance", "certificates", "seemp_measures"}
          => t \in OfVessels \ {"certificate_expiry_log"}
    BY DEF OfVessels
  <2> QED  BY <1>1, <2>1, <2>2
<1>9. \A q \in Parents(t) \ {"vessel_tanks"} :
        q = "vessels" \/ (q = "voyages" /\ i > 5) \/ (q = "certificates" /\ i > 14)
  <2>1. CASE i = 8 /\ t = "cargo_records"
    BY <1>7, <2>1, ParentFacts
  <2>2. CASE i = 15 /\ t = "certificate_expiry_log"
    BY <1>7, <2>2, ParentFacts
  <2>3. CASE i > 5 /\ t \in OfVoyages
    BY <1>7, <2>3, ParentFacts
  <2>4. CASE t \in OfVessels \ {"certificate_expiry_log"}
    BY <1>7, <2>4, ParentFacts
  <2> QED  BY <1>8, <2>1, <2>2, <2>3, <2>4
<1> QED  BY <1>2, <1>3, <1>4, <1>5, <1>6, <1>9 DEF t

\* What a lone generation inserts refers to what it inserted before, and is new.
LEMMA LoneRows ==
  ASSUME DatabaseOK, JobsOK, NEW x \in Workers, Lone(x), NEW i \in 5..16, i # 7,
         NEW b \in Nat, b = job[x].batch, NEW read \in SUBSET Nat, read = job[x].read,
         Filled(42 + i, b, job[x].vessel, read), NEW t, t = FillStatements[i].table
  PROVE  /\ ReferencesHold(NewRows(x, t)) /\ NewRows(x, t) # {}
         /\ \A r \in NewRows(x, t) : r.table = t /\ r.id = b /\ Twins(r) = {}
<1>1. /\ t \in Written \ {"vessels", "vessel_tanks"}
      /\ t = "cargo_records" <=> i = 8
      /\ t \in WithUniqueColumns => i = 5 /\ t = "voyages"
      /\ \A q \in Parents(t) \ {"vessel_tanks"} :
           q = "vessels" \/ (q = "voyages" /\ i > 5) \/ (q = "certificates" /\ i > 14)
  BY InsertedTables
<1>2. t \in Tables
  BY <1>1, TableFacts
<1>3. \A r \in NewRows(x, t) : r.table = t /\ r.id = b
  BY <1>2, NewRowsOK
<1>4. job[x].vessel = b
  BY DEF Filled
<1>5. Schema(dialect) = SqliteSchema
  BY TableFacts DEF JobsOK
<1>6. ASSUME NEW r \in NewRows(x, t) PROVE Twins(r) = {}
  <2>1. r.table = t
    BY <1>3
  <2>2. CASE t \in WithUniqueColumns
    <3>1. In(t) = {}
      BY <1>1, <2>2 DEF Filled
    <3> QED  BY <2>1, <3>1 DEF Twins
  <2>3. CASE t \notin WithUniqueColumns
    <3>1. SqliteSchema[t].unique = {}
      BY <1>2, <2>3, TableFacts
    <3> QED  BY <1>5, <2>1, <3>1 DEF Twins
  <2> QED  BY <2>2, <2>3
<1> DEFINE refs == SqliteSchema[t].refs
                     \cup (IF t = "certificate_expiry_log" THEN {"certificates"} ELSE {})
           up == {<<p, IF p = "vessels" THEN job[x].vessel ELSE job[x].batch>>
                    : p \in refs \ {"vessel_tanks"}}
           perTank == {Row(t, job[x].batch, up \cup {<<"vessel_tanks", k>>}, "generate")
                         : k \in job[x].read}
           single == Row(t, job[x].batch, up, "generate")
<1>7. NewRows(x, t) = IF t = "cargo_records" THEN perTank ELSE {single}
  BY <1>5 DEF NewRows
<1>8. refs = Parents(t)
  BY DEF Parents
<1> HIDE DEF refs
<1>9. ASSUME NEW ref \in up PROVE Exists(ref)
  <2>1. PICK q \in Parents(t) \ {"vessel_tanks"} : ref = <<q, b>>
    BY <1>4, <1>8
  <2>2. HasRow(q, b)
    <3>1. /\ FillStatements[3] = Stmt("save", "vessels")
          /\ FillStatements[5] = Stmt("insert", "voyages")
          /\ FillStatements[14] = Stmt("insert_returning", "certificates")
      BY FillPositions
    <3>2. \A j \in 3..16 : 42 + j < 42 + i /\ FillStatements[j].op # "read"
                             => HasRow(FillStatements[j].table, b)
      BY DEF Filled
    <3>3. CASE q = "vessels"
      BY <3>1, <3>2, <3>3 DEF Stmt
    <3>4. CASE q = "voyages" /\ i > 5
      BY <3>1, <3>2, <3>4 DEF Stmt
    <3>5. CASE q = "certificates" /\ i > 14
      BY <3>1, <3>2, <3>5 DEF Stmt
    <3> QED  BY <1>1, <3>3, <3>4, <3>5
  <2> QED  BY <2>1, <2>2 DEF HasRow, In, Exists
<1> HIDE DEF up
<1>10. CASE i # 8
  <2>1. NewRows(x, t) = {single}
    BY <1>1, <1>7, <1>10
  <2>2. single.up = up
    BY DEF Row
  <2> HIDE DEF single
  <2>3. ReferencesHold({single})
    BY <1>9, <2>2 DEF ReferencesHold
  <2> QED  BY <1>3, <1>6, <2>1, <2>3
<1>11. CASE i = 8
  <2>1. NewRows(x, t) = perTank
    BY <1>1, <1>7, <1>11
  <2>2. b \in read /\ \A k \in read : Exists(<<"vessel_tanks", k>>)
    BY <1>11 DEF Filled
  <2>3. ASSUME NEW r \in perTank PROVE \A ref \in r.up : Exists(ref)
    <3>1. PICK k \in job[x].read : r = Row(t, job[x].batch, up \cup {<<"vessel_tanks", k>>}, "generate")
      OBVIOUS
    <3>2. r.up = up \cup {<<"vessel_tanks", k>>}
      BY <3>1 DEF Row
    <3> QED  BY <1>9, <2>2, <3>2
  <2>4. perTank # {}
    BY <2>2
  <2> HIDE DEF perTank
  <2>5. ReferencesHold(perTank)
    BY <2>3 DEF ReferencesHold
  <2> QED  BY <1>3, <1>6, <2>1, <2>4, <2>5
<1> QED  BY <1>10, <1>11

\* A generation that ends has answered, whatever comes next on its worker.
LEMMA LoneEnds ==
  ASSUME JobsOK, NEW x \in Workers, Lone(x), NEW ok \in BOOLEAN, Finish(x, ok)
  PROVE  /\ ~Busy(x)'
         /\ outcome'.kind = "generate" /\ outcome'.ok = ok /\ outcome'.batch = job[x].batch
         /\ outcome'.table = Current(x).table
<1>1. job'[x] = NoJob("idle")
  BY DEF Finish, JobsOK
<1>2. ~Busy(x)'
  BY <1>1 DEF Busy, NoJob
<1> QED  BY <1>2 DEF Finish, Lone

\* The last statement answers for a fleet that is whole.
LEMMA LoneAnswers ==
  ASSUME JobsOK, NEW x \in Workers, Lone(x), NEW b \in Nat, b = job[x].batch, Finish(x, TRUE),
         NEW vessel, NEW read, Filled(58, b, vessel, read), dialect' = dialect, rows \subseteq rows',
         \A r \in rows' \ rows : r.table # "vessels",
         HasRow(FillStatements[16].table, b)'
  PROVE  Good(x)
<1>1. ~Busy(x)' /\ outcome'.ok = TRUE /\ outcome'.batch = b
  BY LoneEnds
<1>2. \A t : HasRow(t, b) => HasRow(t, b)'
  BY DEF HasRow, In
<1>3. \A j \in 3..15 : FillStatements[j].op # "read" => HasRow(FillStatements[j].table, b)
  BY DEF Filled
<1>4. HasRow("eca_zones", b) /\ HasRow("vessel_tanks", b) /\ HasRow("vessels", b)
  <2>1. dialect = "sqlite" /\ HasRow("eca_zones", b) /\ HasRow("vessel_tanks", b)
    BY DEF Filled, HasRow
  <2>2. FillStatements[3] = Stmt("save", "vessels")
    BY FillPositions
  <2>3. HasRow("vessels", b)
    BY <1>3, <2>2 DEF Stmt
  <2> QED  BY <2>1, <2>3
<1>5. ASSUME NEW j \in 1..16 PROVE HasRow(FillStatements[j].table, b)'
  <2>1. /\ FillStatements[1].table = "eca_zones" /\ FillStatements[2].table = "vessels"
        /\ FillStatements[7].table = "vessel_tanks"
    BY FillPositions DEF Stmt
  <2>2. j = 1 \/ j = 2 \/ j = 7 \/ j = 16 \/ j \in (3..15) \ {7}
    OBVIOUS
  <2>3. j \in (3..15) \ {7} => FillStatements[j].op # "read"
    <3>1. j \in (3..15) \ {7} => j = 3 \/ j = 4 \/ j \in (5..16) \ {7}
      OBVIOUS
    <3>2. FillStatements[3].op = "save" /\ FillStatements[4].op = "replace"
      BY FillPositions DEF Stmt
    <3>3. j \in (5..16) \ {7} => FillStatements[j].op # "read"
      BY InsertedTables
    <3> QED  BY <3>1, <3>2, <3>3
  <2> QED  BY <1>2, <1>3, <1>4, <2>1, <2>2, <2>3
<1>6. {r.id : r \in In("vessels")}' = {b}
  <2>1. In("vessels")' = In("vessels")
    BY DEF In
  <2>2. (\A r \in In("vessels") : r.id = b) /\ \E r \in In("vessels") : r.id = b
    BY <1>4 DEF Filled, HasRow
  <2> QED  BY <2>1, <2>2
<1>7. DOMAIN FillStatements = 1..16
  BY FillPositions, LenProperties
<1>8. AnsweredFleetIsWhole'
  BY <1>1, <1>5, <1>6, <1>7 DEF AnsweredFleetIsWhole, HasRow
<1> QED  BY <1>1, <1>8 DEF Good, LoneGenerateStopsOnlyAtCertificates

\* The certificates stop a lone generation on PostgreSQL; no other INSERT does.
LEMMA LoneInserts ==
  ASSUME DatabaseOK, JobsOK, NEW x \in Workers, Lone(x), NEW i \in 5..16, i # 7,
         job[x].pc = 42 + i, LoneGeneration(x), Insert(x)
  PROVE  Good(x)
<1>1. PICK b \in Nat : b = job[x].batch
  BY LoneAt
<1>2. PICK vessel \in Nat : vessel = job[x].vessel
  BY LoneAt
<1>3. PICK read \in SUBSET Nat : read = job[x].read
  BY LoneAt
<1>4. PICK t : t = FillStatements[i].table
  OBVIOUS
<1>5. Filled(42 + i, b, vessel, read)
  BY <1>1, <1>2, <1>3 DEF LoneGeneration
<1>6. PICK new : new = NewRows(x, t)
  OBVIOUS
<1>7. /\ ReferencesHold(new) /\ new # {}
      /\ \A r \in new : r.table = t /\ r.id = b /\ Twins(r) = {}
  BY <1>1, <1>2, <1>3, <1>4, <1>5, <1>6, LoneRows
<1>8. /\ Current(x) = FillStatements[i] /\ Current(x).table = t
      /\ Current(x).op = IF i = 14 THEN "insert_returning" ELSE "insert"
      /\ i = 14 => t = "certificates"
      /\ t # "vessels" /\ t # "vessel_tanks"
  BY <1>4, InsertedTables, LoneFilling
<1>9. UNCHANGED <<dialect, batches>>
  BY DEF Insert, Others
<1>10. CASE i = 14 /\ ~ReturnsKey(t) /\ Fail(x)
  <2>1. Finish(x, FALSE)
    BY <1>10 DEF Fail
  <2>2. ~Busy(x)' /\ ~outcome'.ok /\ outcome'.table = "certificates"
    BY <1>8, <1>10, <2>1, LoneEnds
  <2>3. dialect' = "postgres"
    BY <1>9, <1>10 DEF ReturnsKey
  <2> QED  BY <2>2, <2>3 DEF Good, LoneGenerateStopsOnlyAtCertificates, AnsweredFleetIsWhole
<1>11. CASE Continue(x, rows \cup new) /\ (i = 14 => ReturnsKey(t))
  <2>1. rows' = rows \cup new /\ Proceed(x, rows', vessel, read)
    BY <1>2, <1>3, <1>11 DEF Continue, Proceed
  <2>2. \A r \in rows' \ rows : r.table # "vessels"
    BY <1>7, <1>8, <2>1
  <2>3. HasRow(FillStatements[i].table, b)'
    BY <1>4, <1>7, <2>1 DEF HasRow, In
  <2>4. CASE i = 16
    <3>1. Len(Statements(job[x].kind)) = 58
      BY LoneAt
    <3>2. Finish(x, TRUE)
      <4>1. job[x].pc = Len(Statements(job[x].kind))
        BY <2>4, <3>1
      <4> QED  BY <2>1, <4>1 DEF Proceed
    <3>3. Filled(58, b, vessel, read)
      BY <1>5, <2>4
    <3> QED  BY <1>1, <1>9, <2>1, <2>2, <2>3, <2>4, <3>2, <3>3, LoneAnswers
  <2>5. CASE i # 16
    <3>1. PICK p \in 46..57 : p = 42 + i
      BY <2>5
    <3>2. p # 46 /\ p # 49
      BY <3>1
    <3>3. p = 56 => dialect = "sqlite"
      <4>1. i = 14 => SqliteSchema["certificates"].key # "certificates" \o "_id"
        BY DialectsAgree, CertificateKey
      <4>2. Schema(dialect) = SqliteSchema /\ dialect \in {"sqlite", "postgres"}
        BY TableFacts DEF JobsOK, Dialects
      <4> QED  BY <1>8, <1>11, <3>1, <4>1, <4>2 DEF ReturnsKey
    <3>4. Filled(p, b, vessel, read) /\ i \in 1..16
      BY <1>5, <3>1
    <3>5. Filled(p + 1, b, vessel, read)'
      BY <1>9, <2>1, <2>2, <2>3, <3>1, <3>2, <3>3, <3>4, FilledNext
    <3>6. job[x].pc = p /\ p \in 1..57 /\ ~(p + 1 <= 43)
      BY <3>1
    <3> QED  BY <1>1, <1>9, <2>1, <3>5, <3>6, LoneGoesOn
  <2> QED  BY <2>4, <2>5
<1>12. \/ i = 14 /\ ~ReturnsKey(t) /\ Fail(x)
       \/ Continue(x, rows \cup new) /\ (i = 14 => ReturnsKey(t))
  <2>1. ~(\E r \in new : Twins(r) # {})
    BY <1>7
  <2>2. CASE i = 14
    <3>1. Current(x).op = "insert_returning"
      BY <1>8, <2>2
    <3> QED  BY <1>6, <1>7, <1>8, <2>1, <2>2, <3>1 DEF Insert
  <2>3. CASE i # 14
    <3>1. Current(x).op # "insert_returning"
      BY <1>8, <2>3
    <3> QED  BY <1>6, <1>7, <1>8, <2>1, <2>3, <3>1 DEF Insert
  <2> QED  BY <2>2, <2>3
<1> QED  BY <1>10, <1>11, <1>12

\* The zones, before there is a vessel: nothing refers to a zone.
LEMMA LoneZones ==
  ASSUME DatabaseOK, JobsOK, NEW x \in Workers, Lone(x), job[x].pc = 43, LoneGeneration(x),
         Replace(x)
  PROVE  Good(x)
<1>1. PICK b \in Nat : b = job[x].batch
  BY LoneAt
<1>2. PICK vessel \in Nat : vessel = job[x].vessel
  BY LoneAt
<1>3. PICK read \in SUBSET Nat : read = job[x].read
  BY LoneAt
<1>4. Filled(43, b, vessel, read)
  BY <1>1, <1>2, <1>3 DEF LoneGeneration
<1>5. Current(x).table = "eca_zones"
  <2>1. Current(x) = FillStatements[1]
    BY LoneFilling
  <2> QED  BY <2>1, FillPositions DEF Stmt
<1>6. UNCHANGED <<dialect, batches>> /\ dialect \in {"sqlite", "postgres"}
  BY DEF Replace, Others, JobsOK, Dialects
<1>7. "eca_zones" \in Tables /\ Parents("eca_zones") = {} /\ Schema(dialect) = SqliteSchema
  <2>1. "eca_zones" \in Written /\ "eca_zones" \in Roots
    BY DEF Written, Roots
  <2>2. "eca_zones" \in Tables /\ Schema(dialect) = SqliteSchema
    BY <2>1, TableFacts DEF JobsOK
  <2> QED  BY <2>1, <2>2, ParentFacts
<1> DEFINE up == {<<p, job[x].vessel>> : p \in Schema(dialect)["eca_zones"].refs}
           new == Row("eca_zones", job[x].batch, up, "generate")
           old == Twins(new)
<1>8. up = {}
  BY <1>7, RefsFacts
<1>9. new.table = "eca_zones" /\ new.id = b /\ new.up = {}
  BY <1>1, <1>8 DEF Row
<1>10. \/ Fail(x) /\ ~ReferencesHold({new})
       \/ Fail(x) /\ \E q \in old : ReferredTo(q)
       \/ Continue(x, rows) /\ dialect = "postgres"
       \/ Continue(x, (rows \ old) \cup {new})
  BY <1>5 DEF Replace
<1> HIDE DEF up, new
<1>11. ReferencesHold({new})
  BY <1>9 DEF ReferencesHold
<1>12. \A q \in old : q.table = "eca_zones" /\ ~ReferredTo(q)
  <2> SUFFICES ASSUME NEW q \in old PROVE q.table = "eca_zones" /\ ~ReferredTo(q)
    OBVIOUS
  <2>1. q.table = "eca_zones"
    BY <1>9 DEF Twins, In
  <2>2. ASSUME NEW r \in rows, <<q.table, q.id>> \in r.up PROVE FALSE
    <3>1. <<q.table, q.id>>[1] \in Parents(r.table) /\ r.table \in Tables
      BY <2>2 DEF DatabaseOK
    <3>2. "eca_zones" \in Parents(r.table)
      BY <2>1, <3>1
    <3> QED  BY <3>1, <3>2, ParentFacts
  <2> QED  BY <2>1, <2>2 DEF ReferredTo
<1> HIDE DEF old
<1>13. ASSUME NEW kept, Continue(x, kept), rows \subseteq kept \cup old,
              \A r \in kept \ rows : r.table = "eca_zones",
              dialect = "sqlite" => \E r \in kept : r.table = "eca_zones" /\ r.id = b
       PROVE  Good(x)
  <2>1. rows' = kept /\ Proceed(x, rows', vessel, read)
    BY <1>2, <1>3, <1>13 DEF Continue, Proceed
  <2>2. In("vessels")' = {} /\ In("vessel_tanks")' = {} /\ In("voyages")' = {}
    BY <1>4, <1>13, <2>1 DEF Filled, In
  <2>3. dialect' = "sqlite" => HasRow("eca_zones", b)'
    BY <1>6, <1>13, <2>1 DEF HasRow, In
  <2>4. PICK p \in 1..57 : p = 43
    OBVIOUS
  <2>5. Filled(p + 1, b, vessel, read)'
    BY <2>2, <2>3, <2>4 DEF Filled
  <2> QED  BY <1>1, <1>6, <2>1, <2>4, <2>5, LoneGoesOn
<1>14. CASE Continue(x, rows) /\ dialect = "postgres"
  BY <1>13, <1>14
<1>15. CASE Continue(x, (rows \ old) \cup {new})
  <2>1. rows \subseteq ((rows \ old) \cup {new}) \cup old
    OBVIOUS
  <2> QED  BY <1>9, <1>13, <1>15, <2>1
<1> QED  BY <1>10, <1>11, <1>12, <1>14, <1>15

\* There is no vessel to be found, and so one is inserted.
LEMMA LoneVessel ==
  ASSUME DatabaseOK, JobsOK, NEW x \in Workers, Lone(x), LoneGeneration(x),
         \/ job[x].pc = 44 /\ FindVessel(x)
         \/ job[x].pc = 45 /\ SaveVessel(x)
  PROVE  Good(x)
<1>1. PICK b \in Nat : b = job[x].batch
  BY LoneAt
<1>2. PICK vessel \in Nat : vessel = job[x].vessel
  BY LoneAt
<1>3. PICK read \in SUBSET Nat : read = job[x].read
  BY LoneAt
<1>4. PICK p \in {44, 45} : p = job[x].pc
  OBVIOUS
<1>5. Filled(p, b, vessel, read)
  BY <1>1, <1>2, <1>3, <1>4 DEF LoneGeneration
<1>6. UNCHANGED <<dialect, batches>>
  BY DEF FindVessel, SaveVessel, Others
<1>7. /\ In("vessels") = {} /\ In("vessel_tanks") = {} /\ In("voyages") = {}
      /\ dialect = "sqlite" => HasRow("eca_zones", b)
  BY <1>5 DEF Filled
<1>8. p \in 1..57 /\ ~(p + 1 <= 43) /\ job[x].pc = p /\ 0 \in Nat /\ {} \in SUBSET Nat
  BY <1>4
<1>9. CASE p = 44 /\ FindVessel(x)
  <2>1. Proceed(x, rows, 0, {})
    BY <1>7, <1>9 DEF FindVessel
  <2>2. rows' = rows /\ Proceed(x, rows', 0, {})
    BY <2>1 DEF Proceed
  <2>3. Filled(p + 1, b, 0, {})'
    BY <1>6, <1>7, <1>9, <2>2 DEF Filled, In, HasRow
  <2> QED  BY <1>1, <1>6, <1>8, <2>2, <2>3, LoneGoesOn
<1>10. CASE p = 45 /\ SaveVessel(x)
  <2> DEFINE new == Row("vessels", b, {}, "generate")
  <2>1. read = {}
    BY <1>5, <1>10 DEF Filled
  <2>2. Proceed(x, rows \cup {new}, b, {})
    BY <1>1, <1>3, <1>7, <1>10, <2>1 DEF SaveVessel
  <2>3. new.table = "vessels" /\ new.id = b
    BY DEF Row
  <2> HIDE DEF new
  <2>4. rows' = rows \cup {new} /\ Proceed(x, rows', b, {})
    BY <2>2 DEF Proceed
  <2>5. In("vessel_tanks")' = {} /\ In("voyages")' = {} /\ In("vessels")' = {new}
    BY <1>7, <2>3, <2>4 DEF In
  <2>6. dialect' = "sqlite" => HasRow("eca_zones", b)'
    BY <1>6, <1>7, <2>4 DEF HasRow, In
  <2>7. FillStatements[3].table = "vessels" /\ HasRow("vessels", b)'
    BY <2>3, <2>5, FillPositions DEF HasRow, Stmt
  <2>8. ASSUME NEW j \in 3..16, 42 + j < p + 1 PROVE HasRow(FillStatements[j].table, b)'
    <3>1. j = 3
      BY <1>10, <2>8
    <3> QED  BY <2>7, <3>1
  <2>9. Filled(p + 1, b, b, {})'
    BY <1>10, <2>3, <2>5, <2>6, <2>8 DEF Filled
  <2> QED  BY <1>1, <1>6, <1>8, <2>4, <2>9, LoneGoesOn
<1> QED  BY <1>4, <1>9, <1>10

\* The tanks of the vessel just inserted.
LEMMA LoneTanks ==
  ASSUME DatabaseOK, JobsOK, NEW x \in Workers, Lone(x), job[x].pc = 46, LoneGeneration(x),
         Replace(x)
  PROVE  Good(x)
<1>1. PICK b \in Nat : b = job[x].batch
  BY LoneAt
<1>2. PICK vessel \in Nat : vessel = job[x].vessel
  BY LoneAt
<1>3. PICK read \in SUBSET Nat : read = job[x].read
  BY LoneAt
<1>4. Filled(46, b, vessel, read)
  BY <1>1, <1>2, <1>3 DEF LoneGeneration
<1>5. Current(x).table = "vessel_tanks"
  <2>1. Current(x) = FillStatements[4]
    BY LoneFilling
  <2> QED  BY <2>1, FillPositions DEF Stmt
<1>6. UNCHANGED <<dialect, batches>>
  BY DEF Replace, Others
<1>7. SqliteSchema["vessel_tanks"].refs = {"vessels"} /\ Schema(dialect) = SqliteSchema
  <2>1. "vessel_tanks" \in Written /\ "vessel_tanks" \in OfVessels \ {"certificate_expiry_log"}
    BY DEF Written, OfVessels
  <2>2. "vessel_tanks" \in Tables /\ Schema(dialect) = SqliteSchema
    BY <2>1, TableFacts DEF JobsOK
  <2>3. Parents("vessel_tanks") = {"vessels"}
    BY <2>1, <2>2, ParentFacts
  <2> QED  BY <2>2, <2>3 DEF Parents
<1> DEFINE up == {<<p, job[x].vessel>> : p \in Schema(dialect)["vessel_tanks"].refs}
           new == Row("vessel_tanks", job[x].batch, up, "generate")
           old == Twins(new)
<1>8. vessel = b /\ HasRow("vessels", b) /\ In("vessel_tanks") = {} /\ In("voyages") = {}
  <2>1. /\ vessel = b /\ In("vessel_tanks") = {} /\ In("voyages") = {}
        /\ FillStatements[3].op # "read" => HasRow(FillStatements[3].table, b)
    BY <1>4 DEF Filled
  <2> QED  BY <2>1, FillPositions DEF Stmt
<1>9. new.table = "vessel_tanks" /\ new.id = b /\ new.up = {<<"vessels", b>>}
  <2>1. up = {<<"vessels", b>>}
    BY <1>2, <1>7, <1>8
  <2> QED  BY <1>1, <2>1 DEF Row
<1>10. \/ Fail(x) /\ ~ReferencesHold({new})
       \/ Fail(x) /\ \E q \in old : ReferredTo(q)
       \/ Continue(x, rows) /\ old # {}
       \/ Continue(x, (rows \ old) \cup {new})
  BY <1>5 DEF Replace
<1> HIDE DEF up, new
<1>11. ReferencesHold({new})
  BY <1>8, <1>9 DEF ReferencesHold, Exists, HasRow, In
<1>12. old = {}
  BY <1>8, <1>9 DEF Twins
<1> HIDE DEF old
<1>13. Continue(x, rows \cup {new})
  <2>1. (rows \ old) \cup {new} = rows \cup {new}
    BY <1>12
  <2> QED  BY <1>10, <1>11, <1>12, <2>1
<1>14. rows' = rows \cup {new} /\ Proceed(x, rows', vessel, read)
  BY <1>2, <1>3, <1>13 DEF Continue, Proceed
<1>15. PICK p \in 46..57 : p = 46
  OBVIOUS
<1>16. \A r \in rows' \ rows : r.table # "vessels" /\ (p = 46 => r.table # "voyages")
  BY <1>9, <1>14
<1>17. (\E r \in In("vessel_tanks") : r.id = b /\ <<"vessels", b>> \in r.up)'
  BY <1>9, <1>14 DEF In
<1>18. HasRow(FillStatements[4].table, b)'
  <2>1. FillStatements[4].table = "vessel_tanks"
    BY FillPositions DEF Stmt
  <2> QED  BY <1>17, <2>1 DEF HasRow
<1>19. PICK i \in 1..16 : i = 4
  OBVIOUS
<1>20. /\ p = 42 + i /\ Filled(p, b, vessel, read) /\ dialect' = dialect /\ rows \subseteq rows'
       /\ HasRow(FillStatements[i].table, b)' /\ p # 49 /\ p # 56
  BY <1>4, <1>6, <1>14, <1>15, <1>18, <1>19
<1>21. Filled(p + 1, b, vessel, read)'
  BY <1>16, <1>17, <1>20, FilledNext
<1>22. p \in 1..57 /\ ~(p + 1 <= 43) /\ job[x].pc = p
  BY <1>15
<1> QED  BY <1>1, <1>6, <1>14, <1>21, <1>22, LoneGoesOn

\* The tanks that the cargo records refer to are those of this vessel.
LEMMA LoneReads ==
  ASSUME DatabaseOK, JobsOK, NEW x \in Workers, Lone(x), job[x].pc = 49, LoneGeneration(x),
         ReadTanks(x)
  PROVE  Good(x)
<1>1. PICK b \in Nat : b = job[x].batch
  BY LoneAt
<1>2. PICK vessel \in Nat : vessel = job[x].vessel
  BY LoneAt
<1>3. PICK read \in SUBSET Nat : read = job[x].read
  BY LoneAt
<1>4. Filled(49, b, vessel, read)
  BY <1>1, <1>2, <1>3 DEF LoneGeneration
<1>5. UNCHANGED <<dialect, batches>>
  BY DEF ReadTanks, Others
<1> DEFINE tanks == {q \in In("vessel_tanks") : <<"vessels", vessel>> \in q.up}
<1>6. PICK next : next = {r.id : r \in tanks}
  OBVIOUS
<1>7. rows' = rows /\ Proceed(x, rows', vessel, next)
  BY <1>2, <1>6 DEF ReadTanks, Proceed
<1>8. vessel = b /\ \E r \in tanks : r.id = b
  BY <1>4 DEF Filled
<1>9. next \in SUBSET Nat /\ \A k \in next : Exists(<<"vessel_tanks", k>>)
  BY <1>6 DEF DatabaseOK, In, Exists
<1>10. b \in next
  BY <1>6, <1>8
<1> HIDE DEF tanks
<1>11. \A k \in next : Exists(<<"vessel_tanks", k>>)'
  BY <1>7, <1>9 DEF Exists
<1>12. FillStatements[7].op = "read"
  BY FillPositions DEF Stmt
<1>13. PICK p \in 46..57 : p = 49
  OBVIOUS
<1>14. PICK i \in 1..16 : i = 7
  OBVIOUS
<1>15. /\ p = 42 + i /\ Filled(p, b, vessel, read) /\ dialect' = dialect /\ rows \subseteq rows'
       /\ FillStatements[i].op = "read" /\ p # 46 /\ p # 56 /\ rows' \ rows = {}
  <2>1. p = 42 + i /\ p # 46 /\ p # 56
    BY <1>13, <1>14
  <2>2. Filled(p, b, vessel, read) /\ FillStatements[i].op = "read"
    BY <1>4, <1>12, <1>13, <1>14
  <2>3. dialect' = dialect /\ rows' = rows
    BY <1>5, <1>7
  <2> QED  BY <2>1, <2>2, <2>3
<1>16. Filled(p + 1, b, vessel, next)'
  <2>1. \A r \in rows' \ rows : r.table # "vessels" /\ (p = 46 => r.table # "voyages")
    BY <1>15
  <2>2. p = 49 => b \in next /\ (\A k \in next : Exists(<<"vessel_tanks", k>>)')
    BY <1>10, <1>11
  <2>3. b \in Nat
    BY <1>1, LoneAt
  <2> QED  BY <1>15, <2>1, <2>2, <2>3, FilledNext
<1>17. p \in 1..57 /\ ~(p + 1 <= 43) /\ job[x].pc = p
  BY <1>13
<1> QED  BY <1>1, <1>5, <1>7, <1>9, <1>16, <1>17, LoneGoesOn

\* Whatever it is at, a lone generation's next statement is as it should be.
LEMMA LoneStep ==
  ASSUME DatabaseOK, JobsOK, NEW x \in Workers, Lone(x), LoneGeneration(x), Execute(x)
  PROVE  Good(x)
<1>1. PICK p \in 1..58 : p = job[x].pc
  BY LoneAt
<1>2. CASE p \in 1..42
  BY <1>1, <1>2, LoneClears
<1>3. CASE p \in 43..58
  <2>1. PICK i \in 1..16 : p = 42 + i
    <3>1. p - 42 \in 1..16 /\ p = 42 + (p - 42)
      BY <1>3
    <3> QED  BY <3>1
  <2>2. Current(x) = FillStatements[i] /\ job[x].kind = "generate"
    BY <1>1, <2>1, LoneFilling DEF Lone
  <2>3. \A op : At(x, op) => Current(x).op = op
    BY DEF At
  <2>4. CASE i = 1 \/ i = 4
    <3>1. Current(x).op = "replace"
      BY <2>2, <2>4, FillPositions DEF Stmt
    <3>2. Replace(x)
      BY <2>3, <3>1 DEF Execute, TryDelete, Delete, Count, FindVessel, SaveVessel, ReadTanks,
                        Insert, SeedVessels, ReadVoyages, Seed
    <3>3. job[x].pc = 43 \/ job[x].pc = 46
      BY <1>1, <2>1, <2>4
    <3> QED  BY <3>2, <3>3, LoneZones, LoneTanks
  <2>5. CASE i = 2
    <3>1. Current(x).op = "find"
      BY <2>2, <2>5, FillPositions DEF Stmt
    <3>2. FindVessel(x)
      BY <2>3, <3>1 DEF Execute, TryDelete, Delete, Count, Replace, SaveVessel, ReadTanks,
                        Insert, SeedVessels, ReadVoyages, Seed
    <3>3. job[x].pc = 44
      BY <1>1, <2>1, <2>5
    <3> QED  BY <3>2, <3>3, LoneVessel
  <2>6. CASE i = 3
    <3>1. Current(x).op = "save"
      BY <2>2, <2>6, FillPositions DEF Stmt
    <3>2. SaveVessel(x)
      BY <2>3, <3>1 DEF Execute, TryDelete, Delete, Count, Replace, FindVessel, ReadTanks,
                        Insert, SeedVessels, ReadVoyages, Seed
    <3>3. job[x].pc = 45
      BY <1>1, <2>1, <2>6
    <3> QED  BY <3>2, <3>3, LoneVessel
  <2>7. CASE i = 7
    <3>1. Current(x).op = "read"
      BY <2>2, <2>7, FillPositions DEF Stmt
    <3>2. ReadTanks(x)
      BY <2>2, <2>3, <3>1 DEF Execute, TryDelete, Delete, Count, Replace, FindVessel, SaveVessel,
                              Insert, SeedVessels, ReadVoyages, Seed
    <3>3. job[x].pc = 49
      BY <1>1, <2>1, <2>7
    <3> QED  BY <3>2, <3>3, LoneReads
  <2>8. CASE i \in 5..16 /\ i # 7
    <3>1. Current(x).op \in {"insert", "insert_returning"}
      BY <2>2, <2>8, InsertedTables
    <3>2. Insert(x)
      BY <2>3, <3>1 DEF Execute, TryDelete, Delete, Count, Replace, FindVessel, SaveVessel,
                        ReadTanks, SeedVessels, ReadVoyages, Seed
    <3> QED  BY <1>1, <2>1, <2>8, <3>2, LoneInserts
  <2> QED  BY <2>4, <2>5, <2>6, <2>7, <2>8
<1> QED  BY <1>2, <1>3

-----------------------------------------------------------------------------
\* The invariant is inductive, and every step's answer is as the statements say.
LEMMA InitHolds ==
  ASSUME DemoInit
  PROVE  DemoInv /\ DemoDataIsSound
<1>1. /\ rows = {} /\ job = [w \in Workers |-> NoJob("down")] /\ batches = 0
      /\ outcome = NoOutcome /\ dialect \in Dialects
  BY DEF DemoInit
<1>2. NoJob("down") \in Jobs /\ NoJob("down").kind = "down"
  BY DEF NoJob, Jobs
<1>3. /\ job \in [Workers -> Jobs] /\ \A w \in Workers : job[w].kind = "down"
  BY <1>1, <1>2
<1>4. \A w \in Workers : ~Busy(w)
  BY <1>3 DEF Busy
<1>5. DatabaseOK /\ JobsOK
  BY <1>1, <1>3, <1>4 DEF DatabaseOK, JobsOK
<1>6. LoneSeedFindsNoOlderRows
  BY <1>3 DEF LoneSeedFindsNoOlderRows
<1>7. LoneGenerateStopsOnlyAtCertificates /\ AnsweredFleetIsWhole /\ ResetStopsShort
  BY <1>1 DEF NoOutcome, LoneGenerateStopsOnlyAtCertificates, AnsweredFleetIsWhole,
              ResetStopsShort
<1> QED  BY <1>3, <1>5, <1>6, <1>7 DEF DemoInv, DemoDataIsSound

LEMMA StepHolds ==
  ASSUME DemoInv, DemoNext
  PROVE  DemoInv' /\ DemoDataIsSound'
<1>1. DatabaseOK /\ JobsOK /\ LoneSeedFindsNoOlderRows
  BY DEF DemoInv
<1>2. PICK x \in Workers : Leaves(x) /\ (Execute(x) \/ outcome' = NoOutcome)
  BY <1>1, EveryStepLeaves
<1>3. Lone(x) /\ Execute(x) => Good(x)
  BY <1>1, LoneStep DEF DemoInv, Lone
<1>4. ASSUME NEW w \in Workers, job'[w].kind = "generate", job'[w].alone
      PROVE  LoneGeneration(w)'
  <2>1. Busy(w)'
    BY <1>4 DEF Busy
  <2>2. CASE w # x
    <3>1. rows' = rows /\ job'[w] = job[w] /\ dialect' = dialect
      BY <1>2, <1>4, <2>1, <2>2 DEF Leaves
    <3>2. LoneGeneration(w)
      BY <1>4, <3>1 DEF DemoInv
    <3> QED  BY <3>1, <3>2 DEF LoneGeneration, Cleared, Filled, HasRow, In, Exists
  <2>3. CASE w = x /\ Execute(x) /\ Advances(x)
    <3>1. Lone(x)
      BY <1>4, <2>3 DEF Advances, Lone
    <3> QED  BY <1>3, <2>1, <2>3, <3>1 DEF Good
  <2>4. CASE w = x /\ job'[x].pc = 1
    BY <2>4 DEF LoneGeneration, Cleared
  <2> QED  BY <1>2, <2>1, <2>2, <2>3, <2>4 DEF Leaves
<1>5. LoneSeedFindsNoOlderRows'
  BY <1>1, <1>2, SeedingKept
<1>6. DemoInv'
  BY <1>2, <1>4, <1>5 DEF Leaves, DemoInv
<1>7. ResetStopsShort'
  BY <1>1, ResetFails
<1>8. LoneGenerateStopsOnlyAtCertificates' /\ AnsweredFleetIsWhole'
  <2>1. CASE outcome' = NoOutcome
    BY <2>1 DEF NoOutcome, LoneGenerateStopsOnlyAtCertificates, AnsweredFleetIsWhole
  <2>2. CASE Execute(x) /\ Lone(x)
    BY <1>3, <2>2 DEF Good
  <2>3. CASE Execute(x) /\ ~Lone(x) /\ outcome' # NoOutcome
    <3>1. Effect(x)
      BY <1>1, <2>3, StatementEffect
    <3>2. PICK ok \in BOOLEAN : Finish(x, ok)
      BY <2>3, <3>1, OutcomeOf
    <3>3. outcome'.kind = job[x].kind /\ outcome'.alone = job[x].alone /\ Busy(x)
      BY <3>1, <3>2 DEF Finish, Effect
    <3>4. ~(outcome'.kind = "generate" /\ outcome'.alone)
      BY <2>3, <3>3 DEF Lone
    <3> QED  BY <3>4 DEF LoneGenerateStopsOnlyAtCertificates, AnsweredFleetIsWhole
  <2> QED  BY <1>2, <2>1, <2>2, <2>3
<1> QED  BY <1>5, <1>6, <1>7, <1>8 DEF DemoDataIsSound

LEMMA StutterHolds ==
  ASSUME DemoInv, DemoDataIsSound, UNCHANGED demoVars
  PROVE  DemoInv' /\ DemoDataIsSound'
<1>1. UNCHANGED <<dialect, rows, job, batches, budget, outcome>>
  BY DEF demoVars
<1>2. DatabaseOK'
  BY <1>1 DEF DemoInv, DatabaseOK, Exists
<1>3. JobsOK'
  BY <1>1 DEF DemoInv, JobsOK, Busy
<1>4. LoneSeedFindsNoOlderRows'
  BY <1>1 DEF DemoInv, LoneSeedFindsNoOlderRows
<1>5. ASSUME NEW w \in Workers, job'[w].kind = "generate", job'[w].alone
      PROVE  LoneGeneration(w)'
  <2>1. LoneGeneration(w)
    BY <1>1, <1>5 DEF DemoInv
  <2> QED  BY <1>1, <2>1 DEF LoneGeneration, Cleared, Filled, HasRow, In, Exists
<1>6. LoneGenerateStopsOnlyAtCertificates' /\ AnsweredFleetIsWhole' /\ ResetStopsShort'
  BY <1>1 DEF DemoDataIsSound, LoneGenerateStopsOnlyAtCertificates, AnsweredFleetIsWhole,
              ResetStopsShort, In
<1> QED  BY <1>2, <1>3, <1>4, <1>5, <1>6 DEF DemoInv, DemoDataIsSound

LEMMA DemoInvariant == DemoSpec => [](DemoInv /\ DemoDataIsSound)
<1>1. DemoInit => DemoInv /\ DemoDataIsSound
  BY InitHolds
<1>2. (DemoInv /\ DemoDataIsSound) /\ [DemoNext]_demoVars => (DemoInv /\ DemoDataIsSound)'
  BY StepHolds, StutterHolds
<1> QED  BY <1>1, <1>2, PTL DEF DemoSpec

-----------------------------------------------------------------------------
\* Every row of the demo data lies in a table of the schema and refers to rows that
\* exist, and every job is at one of its statements, however the workers' statements
\* interleave and whichever of them are killed.
THEOREM DemoTypeCorrect == DemoSpec => []DemoTypeOK
<1>1. DemoInv => DemoTypeOK
  <2> SUFFICES ASSUME DemoInv PROVE DemoTypeOK
    OBVIOUS
  <2>1. DatabaseOK /\ JobsOK
    BY DEF DemoInv
  <2>2. \A r \in rows : r.table \in DOMAIN Schema(dialect) /\ \A ref \in r.up : Exists(ref)
    BY <2>1, TableFacts DEF DatabaseOK, JobsOK, Tables
  <2>3. ASSUME NEW w \in Workers, job[w].kind \notin {"down", "idle"}
        PROVE  /\ job[w].kind \in Kinds /\ job[w].pc \in DOMAIN Statements(job[w].kind)
               /\ job[w].batch \in 1..batches
    <3>1. Busy(w) /\ job[w].kind \in Kinds
      BY <2>1, <2>3, BusyKind DEF Busy
    <3>2. DOMAIN Statements(job[w].kind) = 1..Len(Statements(job[w].kind))
      BY <3>1, StatementFacts
    <3> QED  BY <2>1, <3>1, <3>2 DEF JobsOK
  <2> QED  BY <2>1, <2>2, <2>3 DEF DemoTypeOK, JobsOK
<1> QED  BY <1>1, DemoInvariant, PTL

\* POST /api/demo/generate, when nothing runs beside it, fails only at add_certificate on
\* PostgreSQL and otherwise answers for a fleet that is whole and alone in the database;
\* POST /api/demo/reset never succeeds; and a lone seeding finds no rows of an older one.
THEOREM DemoDataSound == DemoSpec => []DemoDataIsSound
BY DemoInvariant, PTL
=============================================================================
