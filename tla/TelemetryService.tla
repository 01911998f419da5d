-------------------------- MODULE TelemetryService --------------------------
(***************************************************************************)
(* Telemetry ingestion and the latest-position lookup of the API server:   *)
(* lng-fleet-system/internal/services/telemetry_service.go, for one        *)
(* vessel (rows and cache key are per vessel).                             *)
(*                                                                         *)
(* Every HTTP request runs in a goroutine of its own.  Ingest hands the    *)
(* record to Kafka, stores it in Postgres and caches it in Redis, each a   *)
(* call that may fail; a call that failed may have taken effect, because   *)
(* the request's context is cancelled when its client goes away.  Latest   *)
(* asks the cache and then the database.                                   *)
(***************************************************************************)
EXTENDS Integers, FiniteSets

CONSTANTS
    Ingests,      \* ingest requests
    Readers,      \* requests for the latest telemetry
    Stamps,       \* values of recorded_at, chosen by the sender
    TTL,          \* ticks in the five minutes a cached record lives
    None          \* no record

ASSUME TelemetryAssumption ==
    /\ Stamps \subseteq Int
    /\ TTL \in Nat \ {0}
    /\ None \notin Ingests

VARIABLES
    ipc,          \* where each ingest request is
    stamp,        \* recorded_at of each request's record
    topic,        \* records Kafka took
    rows,         \* table telemetry; a record is known by its request
    cache,        \* telemetry:latest:<vessel>
    cacheAge,     \* ticks since it was set
    rpc,          \* where each reader is
    answer,       \* what each reader was given
    known,        \* history: records acknowledged when each reader asked
    disturbed     \* history: a fault, an overlap or a late record happened

storeVars == <<topic, rows, cache, cacheAge>>
readerVars == <<rpc, answer, known>>
telemetryVars == <<ipc, stamp, storeVars, readerVars, disturbed>>

InFlight == {i \in Ingests : ipc[i] \in {"publish", "store", "cache"}}
NewestOf(S) == {r \in S : \A q \in S : stamp[q] <= stamp[r]}

TelemetryTypeOK ==
    /\ ipc \in [Ingests -> {"idle", "publish", "store", "cache", "created", "error"}]
    /\ stamp \in [Ingests -> Stamps]
    /\ topic \in SUBSET Ingests /\ rows \in SUBSET Ingests
    /\ cache \in Ingests \cup {None}
    /\ cacheAge \in 0 .. TTL - 1
    /\ rpc \in [Readers -> {"idle", "get", "query", "found", "missing"}]
    /\ answer \in [Readers -> Ingests \cup {None}]
    /\ known \in [Readers -> SUBSET Ingests]
    /\ disturbed \in BOOLEAN

TelemetryInit ==
    /\ ipc = [i \in Ingests |-> "idle"]
    /\ stamp \in [Ingests -> Stamps]
    /\ topic = {} /\ rows = {} /\ cache = None /\ cacheAge = 0
    /\ rpc = [r \in Readers |-> "idle"] /\ answer = [r \in Readers |-> None]
    /\ known = [r \in Readers |-> {}]
    /\ disturbed = FALSE

----------------------------------------------------------------------------
(* Ingest.                                                                   *)
Begin(i) ==
    /\ ipc[i] = "idle"
    /\ ipc' = [ipc EXCEPT ![i] = "publish"]
    /\ disturbed' = (\/ disturbed \/ InFlight # {}
                     \/ \E q \in rows : stamp[q] > stamp[i])
    /\ UNCHANGED <<stamp, storeVars, readerVars>>

(* WriteMessages: its error is logged only.  The writer is asynchronous, so  *)
(* success does not mean the record was taken either.                        *)
Publish(i) ==
    /\ ipc[i] = "publish"
    /\ topic' \in {topic, topic \cup {i}}
    /\ ipc' = [ipc EXCEPT ![i] = "store"]
    /\ UNCHANGED <<stamp, rows, cache, cacheAge, readerVars, disturbed>>

StoreSucceeds(i) ==
    /\ ipc[i] = "store"
    /\ rows' = rows \cup {i}
    /\ ipc' = [ipc EXCEPT ![i] = "cache"]
    /\ UNCHANGED <<stamp, topic, cache, cacheAge, readerVars, disturbed>>

(* Mutant: a failed insert is logged like a failed publish.                  *)
StoreFailsQuietly(i) ==
    /\ ipc[i] = "store"
    /\ rows' \in {rows, rows \cup {i}}
    /\ ipc' = [ipc EXCEPT ![i] = "cache"]
    /\ disturbed' = TRUE
    /\ UNCHANGED <<stamp, topic, cache, cacheAge, readerVars>>

(* Status 500, whether the insert was committed or not.                      *)
StoreFails(i) ==
    /\ ipc[i] = "store"
    /\ rows' \in {rows, rows \cup {i}}
    /\ ipc' = [ipc EXCEPT ![i] = "error"]
    /\ disturbed' = TRUE
    /\ UNCHANGED <<stamp, topic, cache, cacheAge, readerVars>>

(* Mutant: SETNX, which leaves a cached record in place.                     *)
CacheSucceedsIfEmpty(i) ==
    /\ ipc[i] = "cache"
    /\ cache' = IF cache = None THEN i ELSE cache
    /\ cacheAge' = IF cache = None THEN 0 ELSE cacheAge
    /\ ipc' = [ipc EXCEPT ![i] = "created"]
    /\ UNCHANGED <<stamp, topic, rows, readerVars, disturbed>>

CacheSucceeds(i) ==
    /\ ipc[i] = "cache"
    /\ cache' = i /\ cacheAge' = 0
    /\ ipc' = [ipc EXCEPT ![i] = "created"]
    /\ UNCHANGED <<stamp, topic, rows, readerVars, disturbed>>

(* An error or the two seconds of cacheCtx; SET may have been carried out.   *)
CacheFails(i) ==
    /\ ipc[i] = "cache"
    /\ \/ UNCHANGED <<cache, cacheAge>>
       \/ cache' = i /\ cacheAge' = 0
    /\ ipc' = [ipc EXCEPT ![i] = "created"]
    /\ disturbed' = TRUE
    /\ UNCHANGED <<stamp, topic, rows, readerVars>>

IngestStep(i) ==
    \/ Publish(i)
    \/ StoreSucceeds(i) \/ StoreFails(i)
    \/ CacheSucceeds(i) \/ CacheFails(i)
----------------------------------------------------------------------------
(* Latest.                                                                   *)
Ask(r) ==
    /\ rpc[r] = "idle"
    /\ rpc' = [rpc EXCEPT ![r] = "get"]
    /\ known' = [known EXCEPT ![r] = {i \in Ingests : ipc[i] = "created"}]
    /\ UNCHANGED <<ipc, stamp, storeVars, answer, disturbed>>

GetHits(r) ==
    /\ rpc[r] = "get" /\ cache # None
    /\ answer' = [answer EXCEPT ![r] = cache]
    /\ rpc' = [rpc EXCEPT ![r] = "found"]
    /\ UNCHANGED <<ipc, stamp, storeVars, known, disturbed>>

(* Mutant: a miss is reported without asking the database.                   *)
GetMissesForGood(r) ==
    /\ rpc[r] = "get"
    /\ rpc' = [rpc EXCEPT ![r] = "missing"]
    /\ UNCHANGED <<ipc, stamp, storeVars, answer, known, disturbed>>

(* A miss, or an error of Redis, leads to the database.                      *)
GetMisses(r) ==
    /\ rpc[r] = "get"
    /\ rpc' = [rpc EXCEPT ![r] = "query"]
    /\ disturbed' = (disturbed \/ cache # None)
    /\ UNCHANGED <<ipc, stamp, storeVars, answer, known>>

(* ORDER BY recorded_at DESC LIMIT 1; between equals the database chooses.   *)
QueryFinds(r) ==
    /\ rpc[r] = "query"
    /\ \E q \in NewestOf(rows) : answer' = [answer EXCEPT ![r] = q]
    /\ rpc' = [rpc EXCEPT ![r] = "found"]
    /\ UNCHANGED <<ipc, stamp, storeVars, known, disturbed>>

(* No rows, or a failed query: status 404 in both cases.                     *)
QueryFails(r) ==
    /\ rpc[r] = "query"
    /\ rpc' = [rpc EXCEPT ![r] = "missing"]
    /\ disturbed' = (disturbed \/ rows # {})
    /\ UNCHANGED <<ipc, stamp, storeVars, answer, known>>

ReaderStep(r) == GetHits(r) \/ GetMisses(r) \/ QueryFinds(r) \/ QueryFails(r)
----------------------------------------------------------------------------
(* Mutant: the record is cached without an expiry.                           *)
TickForever ==
    /\ cache # None
    /\ cacheAge' = IF cacheAge < TTL - 1 THEN cacheAge + 1 ELSE cacheAge
    /\ UNCHANGED <<ipc, stamp, topic, rows, cache, readerVars, disturbed>>

(* Mutant: the expiry is checked one tick late.                              *)
CacheTickLate ==
    /\ cache # None
    /\ IF cacheAge < TTL
       THEN cacheAge' = cacheAge + 1 /\ UNCHANGED cache
       ELSE cacheAge' = 0 /\ cache' = None
    /\ UNCHANGED <<ipc, stamp, topic, rows, readerVars, disturbed>>

(* Redis forgets the record when its five minutes are over.                  *)
CacheTick ==
    /\ cache # None
    /\ IF cacheAge + 1 < TTL
       THEN cacheAge' = cacheAge + 1 /\ UNCHANGED cache
       ELSE cacheAge' = 0 /\ cache' = None
    /\ UNCHANGED <<ipc, stamp, topic, rows, readerVars, disturbed>>

TelemetryNext ==
    \/ \E i \in Ingests : Begin(i) \/ IngestStep(i)
    \/ \E r \in Readers : Ask(r) \/ ReaderStep(r)
    \/ CacheTick

TelemetrySpec == TelemetryInit /\ [][TelemetryNext]_telemetryVars

(* Handlers that have started go on, and the clock of Redis does not stop.   *)
TelemetryFairness ==
    /\ \A i \in Ingests : WF_telemetryVars(IngestStep(i))
    /\ \A r \in Readers : WF_telemetryVars(ReaderStep(r))
    /\ WF_telemetryVars(CacheTick)

TelemetryFairSpec == TelemetrySpec /\ TelemetryFairness
----------------------------------------------------------------------------
(* Nothing is cached or answered that the database does not hold: an insert   *)
(* that failed, in whatever way, leaves no trace in Redis (Ingest returns     *)
(* before the SET).                                                           *)
AnswersAreStored ==
    /\ cache # None => cache \in rows
    /\ \A r \in Readers : answer[r] # None => answer[r] \in rows

(* The cache holds the last record written, the database is asked for the     *)
(* newest one.  The two agree as long as no call failed, no two ingests       *)
(* overlapped and records arrived in the order of recorded_at.                *)
OrderlyIngestIsFresh ==
    ~disturbed /\ InFlight = {} => cache = None \/ cache \in NewestOf(rows)

(* Under the same conditions a reader is never given a record older than one  *)
(* acknowledged before it asked, nor told that there is none, also when the   *)
(* cached record expires between its two lookups.                             *)
ReaderSeesAcknowledged ==
    ~disturbed => \A r \in Readers :
        /\ rpc[r] = "found" => \A i \in known[r] : stamp[answer[r]] >= stamp[i]
        /\ rpc[r] = "missing" => known[r] = {}

(* Whatever went wrong, a stale record does not stay: once ingestion stops    *)
(* the cache ends up empty or with a newest record (the five-minute expiry).  *)
CacheConverges == <>[](cache # None => cache \in NewestOf(rows))
----------------------------------------------------------------------------
(* What makes them inductive.                                                 *)
FreshInv ==
    /\ \A i \in Ingests : ipc[i] \in {"cache", "created"} => i \in rows
    /\ ~disturbed =>
          /\ \A i, j \in InFlight : i = j
          /\ \A i \in InFlight, q \in rows : stamp[q] <= stamp[i]
          /\ \A q \in rows : ipc[q] \in {"cache", "created"}
          /\ cache # None => \A q \in Ingests :
                 ipc[q] = "created" => stamp[q] <= stamp[cache]

KnownInv ==
    /\ \A r \in Readers : \A i \in known[r] : ipc[i] = "created"
    /\ \A r \in Readers : rpc[r] = "found" => answer[r] # None

TelemetryInv ==
    /\ TelemetryTypeOK /\ AnswersAreStored /\ FreshInv /\ KnownInv
    /\ ReaderSeesAcknowledged
=============================================================================
