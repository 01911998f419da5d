------------------------------- MODULE FleetApp -------------------------------
(***************************************************************************)
(* The fleet performance application: demo data, accounts, certificates    *)
(* and ledger in one database, served by the same workers.  The demo jobs  *)
(* are the handlers that work on the tables of several parts.  Each part   *)
(* takes their statements on its own tables as steps of its own, in the    *)
(* order of the source (DemoJobsAgree) and stopping wherever a statement   *)
(* on another table may stop them, so a part needs nothing of the others   *)
(* but the dialect.  A statement that two parts model, as DELETE FROM      *)
(* certificates, is a step of the one and then of the other, with          *)
(* anything in between.                                                    *)
(***************************************************************************)
EXTENDS DemoData, Users, Certificates, Ledger

demoOnly == <<rows, job, batches, budget, outcome>>
usersOnly == <<users, nextId, tokens, clock, request, removedAt>>
certOnly == <<certTables, desk, now, lost, wiped>>
ledgerOnly == <<records, yearly, demoed, task, today, halves>>
appVars == <<dialect, demoOnly, usersOnly, certOnly, ledgerOnly>>

-----------------------------------------------------------------------------
\* The tables of a list of statements, in order: those among `tables' that one of
\* the operations `ops' names.
TablesNamed(statements, ops, tables) ==
  LET named == SelectSeq(statements, LAMBDA s : s.op \in ops /\ s.table \in tables)
  IN [i \in DOMAIN named |-> named[i].table]

CertificateTables == {"certificates", "certificate_expiry_log"}
LedgerTables ==
  {"cii_assessment", "eu_ets_records", "eu_ets_surrender", "fueleu_records", "eexi_assessment",
   "epl_config", "seemp_measures", "seemp_reports"}

\* What Certificates and Ledger take of a demo job is what DemoData says it does.
ASSUME DemoJobsAgree ==
  /\ \A kind \in {"generate", "reset"} :
       LET Deletes(tables) == TablesNamed(Statements(kind), {"try_delete", "delete"}, tables)
       IN /\ CertificateDeletes[kind] = Deletes(CertificateTables)
          /\ LedgerDeletes[kind] = Deletes(LedgerTables \cup {"voyages"})
  /\ TablesNamed(FillStatements, {"insert", "insert_returning", "replace"},
                 CertificateTables \cup LedgerTables)
       = <<"certificates", "certificate_expiry_log", "seemp_measures">>
  /\ TablesNamed(SeedStatements, {"seed"}, CertificateTables \cup LedgerTables)
       = <<"certificates", "cii_assessment">>

-----------------------------------------------------------------------------
AppInit == DemoInit /\ UsersInit /\ CertInit /\ LedgerInit

AppNext ==
  \/ DemoNext /\ UNCHANGED <<usersOnly, certOnly, ledgerOnly>>
  \/ UsersNext /\ UNCHANGED <<demoOnly, certOnly, ledgerOnly>>
  \/ CertNext /\ UNCHANGED <<demoOnly, usersOnly, ledgerOnly>>
  \/ LedgerNext /\ UNCHANGED <<demoOnly, usersOnly, certOnly>>

AppSpec == AppInit /\ [][AppNext]_appVars

\* Every component's rows and requests keep their shape.
AppTypeOK == DemoTypeOK /\ UsersTypeOK /\ CertTypeOK /\ LedgerTypeOK
=============================================================================
