---------------------------- MODULE Certificates ----------------------------
(***************************************************************************)
(* The certificates of one vessel (modules/certificate_manager.py): adding *)
(* one is two statements, and three reads judge them: the list, the expiry *)
(* alerts and the voyage clearance.  The demo jobs work on the same two    *)
(* tables, statement by statement: the seeding fills one, generate and     *)
(* reset empty both, each in its own order (demo/seed_render.py,           *)
(* demo/generate_data.py, api/demo.py).  The certificates generate adds go *)
(* through add_certificate like any other.  What a demo job does in other  *)
(* tables decides here only whether it gets as far as these two: it may    *)
(* start at any time and stop at any statement.  When the vessel itself is *)
(* deleted, a vessel with a new key takes its place: another behaviour.    *)
(*                                                                         *)
(* A certificate's number, dates of issue, authority and the wording of    *)
(* messages are left out.  Time is counted in half days, so that the       *)
(* rounding of (expiry - now).days shows.                                  *)
(***************************************************************************)
EXTENDS FleetSchema, Integers, Sequences, FiniteSets

CONSTANTS Registrars,              \* the workers that serve these requests
          Required, Optional,      \* CERT_TYPES by their "required" flag
          BadDate,                 \* a text that is not a date (the value is not checked)
          StaticTypes,             \* the types demo/static_data.py seeds, in order
          Dates,                   \* expiry dates, in half days
          Critical, Soon,          \* 30 and 90 days
          Thresholds,              \* values of ?threshold=
          MaxCertificates, LastDay \* bounds of the exploration

CertTypes == Required \cup Optional

ASSUME CertificatesAssumption ==
  /\ Dates \subseteq Int /\ Thresholds \subseteq Int
  /\ Critical \in Nat /\ Soon \in Nat /\ Critical < Soon
  /\ MaxCertificates \in Nat /\ LastDay \in Nat
  /\ BadDate \notin Dates /\ StaticTypes \in Seq(CertTypes)

VARIABLES certificates,  \* rows of the table
          expiryLog,     \* rows of certificate_expiry_log
          nextKey,       \* the next value of cert_id, never given out twice
          desk,          \* what each worker still has to execute
          now,
          lost,          \* history: keys whose second statement never ran
          wiped          \* history: keys whose log row a demo job deleted

certTables == <<certificates, expiryLog, nextKey>>
certVars == <<dialect, certTables, desk, now, lost, wiped>>

Certificate ==
  [id : Nat, type : CertTypes, expiry : Dates \cup {BadDate}, status : {"active", "valid", "expired"}]

Dated(c) == c.expiry # BadDate
DaysLeft(c) == (c.expiry - now) \div 2     \* (exp - now).days rounds down
Active == {c \in certificates : c.status = "active"}

-----------------------------------------------------------------------------
\* list_certificates: an unreadable date counts as 999 days.
ListStatus(c) ==
  CASE Dated(c) /\ DaysLeft(c) < 0         -> "expired"
    [] Dated(c) /\ DaysLeft(c) \in 0..Critical -> "critical"
    [] Dated(c) /\ DaysLeft(c) \in (Critical + 1)..Soon -> "expiring_soon"
    [] OTHER                               -> "valid"

\* Mutant of Severity: the last day still counts as critical, as in the list.
SeverityAsListed(c, threshold) ==
  CASE DaysLeft(c) < 0         -> "expired"
    [] DaysLeft(c) \in 0..Critical -> "critical"
    [] DaysLeft(c) > Critical /\ DaysLeft(c) <= threshold -> "warning"
    [] OTHER                   -> "none"

\* check_expiry_alerts: active certificates only, an unreadable date is skipped.
Severity(c, threshold) ==
  CASE DaysLeft(c) <= 0         -> "expired"
    [] DaysLeft(c) \in 1..Critical -> "critical"
    [] DaysLeft(c) > Critical /\ DaysLeft(c) <= threshold -> "warning"
    [] OTHER                    -> "none"

Alerts(threshold) ==
  {[type |-> c.type, severity |-> Severity(c, threshold)] :
     c \in {c \in Active : Dated(c) /\ Severity(c, threshold) # "none"}}

\* validate_voyage_certs: of several active rows of a type the last one read
\* counts (SQLite reads them by key), an unreadable date counts as expired.
Chosen(type) ==
  CHOOSE c \in Active : c.type = type /\ \A d \in Active : d.type = type => d.id <= c.id

Validation(type) ==
  IF \A c \in Active : c.type # type THEN "missing"
  ELSE IF ~Dated(Chosen(type)) \/ DaysLeft(Chosen(type)) <= 0 THEN "expired"
  ELSE IF DaysLeft(Chosen(type)) \in 1..Critical THEN "expiring_soon"
  ELSE "valid"

VoyageClearance == \A type \in Required : Validation(type) \notin {"missing", "expired"}

-----------------------------------------------------------------------------
\* add_certificate, first statement.  On PostgreSQL insert_returning_id raises
\* before anything is written.
Free == [op |-> "free"]
Unfinished(w) == desk[w].op = "adding"
UnderWay == {desk[w].id : w \in {w \in Registrars : Unfinished(w)}}
Release(w) == desk' = [desk EXCEPT ![w] = Free]

AddCertificate(w, type, expiry) ==
  /\ desk[w] = Free
  /\ nextKey <= MaxCertificates
  /\ Schema(dialect)["certificates"].key = "certificates_id" \/ dialect = "sqlite"
  /\ certificates' = certificates \cup
       {[id |-> nextKey, type |-> type, expiry |-> expiry, status |-> "active"]}
  /\ nextKey' = nextKey + 1
  /\ desk' = [desk EXCEPT ![w] = [op |-> "adding", id |-> nextKey]]
  /\ UNCHANGED <<dialect, expiryLog, now, lost, wiped>>

\* Mutant of LogExpiry: only a certificate that is due soon is logged.
LogExpiryWhenDue(w) ==
  /\ Unfinished(w)
  /\ \E c \in certificates :
       /\ c.id = desk[w].id
       /\ expiryLog' = IF Dated(c) /\ DaysLeft(c) <= Soon
                       THEN expiryLog \cup {[cert |-> c.id, days |-> DaysLeft(c), alert_90 |-> TRUE,
                                             alert_30 |-> DaysLeft(c) <= Critical]}
                       ELSE expiryLog
  /\ Release(w)
  /\ UNCHANGED <<dialect, certificates, nextKey, now, lost, wiped>>

\* Second statement: what is left and which alerts are already due.
LogExpiry(w) ==
  /\ Unfinished(w)
  /\ \E c \in certificates :
       /\ c.id = desk[w].id
       /\ LET days == IF Dated(c) THEN DaysLeft(c) ELSE 999
          IN expiryLog' = expiryLog \cup
               {[cert |-> c.id, days |-> days, alert_90 |-> days <= Soon, alert_30 |-> days <= Critical]}
  /\ Release(w)
  /\ UNCHANGED <<dialect, certificates, nextKey, now, lost, wiped>>

\* A demo job has deleted the certificate meanwhile: the foreign key refuses the row.
LogRefused(w) ==
  /\ Unfinished(w)
  /\ \A c \in certificates : c.id # desk[w].id
  /\ Release(w)
  /\ UNCHANGED <<dialect, certTables, now, lost, wiped>>

-----------------------------------------------------------------------------
\* The demo jobs.  generate_all_certificate_rows: the static rows PostgreSQL starts
\* with are "valid" while their date is ahead, a status the reads above never ask
\* for.
StaticRows(expiry) ==
  {[id |-> nextKey + i - 1, type |-> StaticTypes[i], expiry |-> expiry,
    status |-> IF (expiry - now) \div 2 > 0 THEN "valid" ELSE "expired"] : i \in DOMAIN StaticTypes}

SeedCertificates(w) ==
  /\ desk[w].op = "seeding"
  /\ \E expiry \in Dates : certificates' = certificates \cup StaticRows(expiry)
  /\ nextKey' = nextKey + Len(StaticTypes)
  /\ Release(w)
  /\ UNCHANGED <<dialect, expiryLog, now, lost, wiped>>

\* The DELETEs of _clear_existing_data and of reset_database on these tables.
CertificateDeletes ==
  [generate |-> <<"certificate_expiry_log", "certificates">>,
   reset    |-> <<"certificates", "certificate_expiry_log">>]

DemoOnCertificates(w, kind) ==
  /\ desk[w] = Free
  /\ desk' = [desk EXCEPT ![w] = [op |-> kind, at |-> 1]]
  /\ UNCHANGED <<dialect, certTables, now, lost, wiped>>

Deleting(w, table) ==
  desk[w].op \in DOMAIN CertificateDeletes /\ CertificateDeletes[desk[w].op][desk[w].at] = table

AfterDelete(w) ==
  desk' = [desk EXCEPT ![w] = IF @.at = 2 THEN Free ELSE [desk[w] EXCEPT !.at = 2]]

EmptyLog(w) ==
  /\ Deleting(w, "certificate_expiry_log")
  /\ expiryLog' = {}
  /\ wiped' = wiped \cup {l.cert : l \in expiryLog}
  /\ AfterDelete(w)
  /\ UNCHANGED <<dialect, certificates, nextKey, now, lost>>

\* A certificate that the log refers to cannot be deleted.
EmptyCertificates(w) ==
  /\ Deleting(w, "certificates")
  /\ expiryLog = {}
  /\ certificates' = {} /\ lost' = {} /\ wiped' = {}
  /\ AfterDelete(w)
  /\ UNCHANGED <<dialect, expiryLog, nextKey, now>>

\* Then generate goes on with its next table and reset ends.  The row that is in the
\* way may belong to another vessel.
DeleteRefused(w) ==
  /\ Deleting(w, "certificates") /\ dialect = "sqlite"
  /\ IF desk[w].op = "generate" THEN AfterDelete(w) ELSE Release(w)
  /\ UNCHANGED <<dialect, certTables, now, lost, wiped>>

-----------------------------------------------------------------------------
\* A worker dies between two statements, or a statement on another table ends its
\* demo job.
Abandon(w) ==
  /\ desk[w] # Free
  /\ lost' = IF Unfinished(w) THEN lost \cup ({desk[w].id} \cap {c.id : c \in certificates})
                              ELSE lost
  /\ Release(w)
  /\ UNCHANGED <<dialect, certTables, now, wiped>>

HalfDay ==
  /\ now < LastDay
  /\ now' = now + 1
  /\ UNCHANGED <<dialect, certTables, desk, lost, wiped>>

\* The workers that started together and found no vessel are about to seed.
CertInit ==
  /\ dialect \in Dialects
  /\ certificates = {} /\ expiryLog = {} /\ nextKey = 1 /\ now = 0
  /\ desk \in [Registrars -> {Free} \cup (IF dialect = "postgres" THEN {[op |-> "seeding"]} ELSE {})]
  /\ lost = {} /\ wiped = {}

CertNext ==
  \/ HalfDay
  \/ \E w \in Registrars :
       \/ \E type \in CertTypes, expiry \in Dates \cup {BadDate} : AddCertificate(w, type, expiry)
       \/ LogExpiry(w) \/ LogRefused(w) \/ Abandon(w)
       \/ SeedCertificates(w) \/ \E kind \in DOMAIN CertificateDeletes : DemoOnCertificates(w, kind)
       \/ EmptyLog(w) \/ EmptyCertificates(w) \/ DeleteRefused(w)

CertSpec == CertInit /\ [][CertNext]_certVars

-----------------------------------------------------------------------------
Desk ==
  {Free, [op |-> "seeding"]}
  \cup [op : {"adding"}, id : Nat]
  \cup [op : DOMAIN CertificateDeletes, at : 1..2]

CertTypeOK ==
  /\ dialect \in Dialects
  /\ certificates \subseteq Certificate
  /\ expiryLog \subseteq [cert : Nat, days : Int, alert_90 : BOOLEAN, alert_30 : BOOLEAN]
  /\ nextKey \in Nat \ {0}
  /\ desk \in [Registrars -> Desk]
  /\ now \in 0..LastDay
  /\ lost \subseteq Nat /\ wiped \subseteq Nat

\* The log has one row for every certificate that was added, written with the days
\* then left.  A certificate lacks it only while it is being added, if its worker
\* died between the two statements, or if a demo job emptied the log under it and
\* did not get to delete it too: generate takes the log seven statements before the
\* certificates, and a row logged in between keeps them all.  A row whose
\* certificate is gone is never written; on PostgreSQL no certificate is added.
LogFollowsCertificates ==
  /\ {l.cert : l \in expiryLog} = {c.id : c \in Active} \ (lost \cup wiped \cup UnderWay)
  /\ Cardinality(expiryLog) = Cardinality({l.cert : l \in expiryLog})
  /\ dialect = "postgres" => Active = {}

\* A vessel is cleared only while each required type has an active certificate
\* with at least a full day left, and then no alert of any threshold calls the
\* certificate that decided expired.
ClearanceIsSound ==
  VoyageClearance =>
    \A type \in Required :
      /\ \E c \in Active : c.type = type /\ Dated(c) /\ DaysLeft(c) >= 1
      /\ \A threshold \in Thresholds : Severity(Chosen(type), threshold) # "expired"

\* The three reads judge an active certificate alike, except on its last day: the
\* list still says critical while the alerts and the clearance say expired.
ViewsDifferOnlyOnTheLastDay ==
  \A c \in Active, threshold \in Thresholds : Dated(c) /\ DaysLeft(c) # 0 =>
    /\ ListStatus(c) = "expired" <=> Severity(c, threshold) = "expired"
    /\ ListStatus(c) = "critical" <=> Severity(c, threshold) = "critical"
    /\ c.type \in Required /\ c = Chosen(c.type) =>
         /\ Validation(c.type) = "expired" <=> ListStatus(c) = "expired"
         /\ Validation(c.type) = "expiring_soon" <=> ListStatus(c) = "critical"

\* A certificate that stops a voyage because it ran out is also among the alerts,
\* whatever the threshold asked for; one with an unreadable date stops the voyage
\* in silence.
RefusalsAreAlerted ==
  \A type \in Required, threshold \in Thresholds :
    Validation(type) = "expired" /\ Dated(Chosen(type))
      => [type |-> type, severity |-> "expired"] \in Alerts(threshold)

\* The three reads of the certificates can be told together, in the sense of the
\* three statements above.
ClearanceAndAlertsAgree == ClearanceIsSound /\ ViewsDifferOnlyOnTheLastDay /\ RefusalsAreAlerted
=============================================================================
