-------------------------- MODULE EdgeTransmission --------------------------
(***************************************************************************)
(* The satellite transmission manager of the edge gateway:                 *)
(* transmission_manager, transmit_high_priority and flush_queue of         *)
(* lng-fleet-system/edge/src/transmission.rs.                              *)
(*                                                                         *)
(* One task takes messages from four bounded channels into a BinaryHeap,   *)
(* transmits urgent ones (priority 0) through the rate limiter when one    *)
(* arrives, and empties the heap at shutdown.  Publishing puts a request   *)
(* into the bounded request channel of the MQTT client; only the client's  *)
(* event loop moves requests from there to the network.                    *)
(*                                                                         *)
(* A message is its kind and its place `id' in the order of creation       *)
(* (created_at); its payload is left out.  Channel messages have no        *)
(* identity before they are taken, so a channel is a count.                *)
(***************************************************************************)
EXTENDS RateLimiter, FiniteSets

CONSTANTS
    ChanCap,      \* capacity of each of the four incoming channels
    ReqCap,       \* capacity of the MQTT client's request channel
    MaxEvents,    \* bound: channel messages and heartbeats the environment causes
    MaxFaults     \* bound: messages that meet an encoding or publishing error

ASSUME TransmissionAssumption ==
    /\ ChanCap \in Nat \ {0}
    /\ ReqCap \in Nat \ {0}
    /\ MaxEvents \in Nat
    /\ MaxFaults \in Nat

VARIABLES
    inbox,        \* messages waiting in each channel from the analytics engine
    shutdown,     \* the watch channel's value: shutdown has been triggered
    pc,           \* where transmission_manager is
    flushing,     \* the batch is flush_queue's, not transmit_high_priority's
    heap,         \* queue: the BinaryHeap of accepted messages
    batch,        \* high_pri / messages: what the current loop has still to send
    nextId,       \* creation rank of the next message
    reqs,         \* published: handed to the MQTT client, not yet to the network
    sent,         \* handed to the network by the event loop
    txCount,      \* tx_count
    heartbeatDue, \* last_heartbeat.elapsed() >= heartbeat_interval
    failed,       \* history: messages that met an error at least once
    dropped,      \* history: messages given up after an error
    budget        \* bound: events the environment may still cause

managerVars == <<pc, flushing, heap, batch, nextId, reqs, sent, txCount,
                 failed, dropped>>
vars == <<limiterVars, managerVars, inbox, shutdown, heartbeatDue, budget>>

Chan == {"agg", "anomaly", "eca", "cii"}
Kind == Chan \cup {"heartbeat"}
Message == [id : Nat, kind : Kind]

(* SatelliteMessage::priority, and the literals that repeat it.              *)
Priority == [k \in Kind |-> IF k \in {"anomaly", "eca"} THEN 0
                            ELSE IF k = "cii" THEN 1 ELSE 2]
Urgent(m) == Priority[m.kind] = 0

(* Ord::cmp of QueuedMessage: a is less than b.                              *)
Less(a, b) ==
    \/ Priority[a.kind] < Priority[b.kind]
    \/ Priority[a.kind] = Priority[b.kind] /\ a.id > b.id

(* BinaryHeap is a max-heap: peek and pop give the greatest element.         *)
IsTop(m, h) == m \in h /\ \A n \in h \ {m} : Less(n, m)

(* The branches of the biased select!, in the order they are polled.         *)
PolledBefore == [agg |-> {}, anomaly |-> {"agg"}, eca |-> {"agg", "anomaly"},
                 cii |-> {"agg", "anomaly", "eca"}]

NewMessage(k) == [id |-> nextId, kind |-> k]

TypeOK ==
    /\ LimiterTypeOK
    /\ inbox \in [Chan -> 0 .. ChanCap]
    /\ shutdown \in BOOLEAN /\ flushing \in BOOLEAN /\ heartbeatDue \in BOOLEAN
    /\ pc \in {"select", "collect", "acquire", "publish", "tail", "disconnect",
               "done", "panicked"}
    /\ heap \in SUBSET Message /\ batch \in SUBSET Message
    /\ reqs \in SUBSET Message /\ sent \in SUBSET Message
    /\ failed \in SUBSET Message /\ dropped \in SUBSET Message
    /\ nextId \in Nat /\ txCount \in Nat /\ budget \in Nat

Init ==
    /\ LimiterInit
    /\ inbox = [c \in Chan |-> 0]
    /\ shutdown = FALSE /\ flushing = FALSE /\ heartbeatDue = FALSE
    /\ pc = "select"
    /\ heap = {} /\ batch = {} /\ reqs = {} /\ sent = {}
    /\ failed = {} /\ dropped = {}
    /\ nextId = 0 /\ txCount = 0 /\ budget = MaxEvents

----------------------------------------------------------------------------
(* The select! of the manager's loop.                                        *)

(* Mutant: the ECA branch queues its event but does not transmit.            *)
ReceiveEcaQuietly(c) ==
    /\ pc = "select" /\ ~shutdown
    /\ inbox[c] > 0
    /\ \A d \in PolledBefore[c] : inbox[d] = 0
    /\ inbox' = [inbox EXCEPT ![c] = @ - 1]
    /\ heap' = heap \cup {NewMessage(c)}
    /\ nextId' = nextId + 1
    /\ pc' = IF c = "anomaly" THEN "collect" ELSE "tail"
    /\ UNCHANGED <<flushing, batch, reqs, sent, txCount, failed, dropped,
                   shutdown, heartbeatDue, budget, limiterVars>>

(* Mutant: an anomaly is sent on its own, past the queue.                    *)
ReceiveAnomalyPastQueue(c) ==
    /\ pc = "select" /\ ~shutdown
    /\ inbox[c] > 0
    /\ \A d \in PolledBefore[c] : inbox[d] = 0
    /\ inbox' = [inbox EXCEPT ![c] = @ - 1]
    /\ nextId' = nextId + 1
    /\ IF c = "anomaly"
       THEN batch' = {NewMessage(c)} /\ pc' = "acquire" /\ UNCHANGED heap
       ELSE /\ heap' = heap \cup {NewMessage(c)} /\ UNCHANGED batch
            /\ pc' = IF c = "eca" THEN "collect" ELSE "tail"
    /\ UNCHANGED <<flushing, reqs, sent, txCount, failed, dropped,
                   shutdown, heartbeatDue, budget, limiterVars>>

(* A channel branch: build the QueuedMessage and push it.  Anomalies and ECA *)
(* events go straight on to transmit_high_priority.                          *)
Receive(c) ==
    /\ pc = "select" /\ ~shutdown
    /\ inbox[c] > 0
    /\ \A d \in PolledBefore[c] : inbox[d] = 0
    /\ inbox' = [inbox EXCEPT ![c] = @ - 1]
    /\ heap' = heap \cup {NewMessage(c)}
    /\ nextId' = nextId + 1
    /\ pc' = IF Priority[c] = 0 THEN "collect" ELSE "tail"
    /\ UNCHANGED <<flushing, batch, reqs, sent, txCount, failed, dropped,
                   shutdown, heartbeatDue, budget, limiterVars>>

(* Mutant: the flush takes the urgent messages only.                         *)
StartFlushUrgentOnly ==
    /\ pc = "select" /\ shutdown
    /\ batch' = {m \in heap : Urgent(m)}
    /\ heap' = heap \ batch'
    /\ flushing' = TRUE
    /\ pc' = "acquire"
    /\ UNCHANGED <<nextId, reqs, sent, txCount, failed, dropped,
                   inbox, shutdown, heartbeatDue, budget, limiterVars>>

(* The shutdown branch, polled first: flush_queue drains the whole heap.     *)
StartFlush ==
    /\ pc = "select" /\ shutdown
    /\ batch' = heap
    /\ heap' = {}
    /\ flushing' = TRUE
    /\ pc' = "acquire"
    /\ UNCHANGED <<nextId, reqs, sent, txCount, failed, dropped,
                   inbox, shutdown, heartbeatDue, budget, limiterVars>>

----------------------------------------------------------------------------
(* Mutant: the message is cloned from the peek and stays on the heap.        *)
CollectUrgentWithoutPop ==
    /\ pc = "collect"
    /\ \E m \in heap :
          /\ IsTop(m, heap) /\ Urgent(m)
          /\ batch' = batch \cup {m}
    /\ pc' = "acquire"
    /\ UNCHANGED <<flushing, heap, nextId, reqs, sent, txCount, failed, dropped,
                   inbox, shutdown, heartbeatDue, budget, limiterVars>>

(* Mutant: the priority of the peeked message is not looked at.              *)
CollectAnything ==
    /\ pc = "collect"
    /\ \E m \in heap :
          /\ IsTop(m, heap)
          /\ heap' = heap \ {m}
          /\ batch' = batch \cup {m}
    /\ UNCHANGED <<pc, flushing, nextId, reqs, sent, txCount, failed, dropped,
                   inbox, shutdown, heartbeatDue, budget, limiterVars>>

(* transmit_high_priority: pop while the message at the top is urgent.       *)
CollectUrgent ==
    /\ pc = "collect"
    /\ \E m \in heap :
          /\ IsTop(m, heap) /\ Urgent(m)
          /\ heap' = heap \ {m}
          /\ batch' = batch \cup {m}
    /\ UNCHANGED <<pc, flushing, nextId, reqs, sent, txCount, failed, dropped,
                   inbox, shutdown, heartbeatDue, budget, limiterVars>>

CollectEnds ==
    /\ pc = "collect"
    /\ ~ \E m \in heap : IsTop(m, heap) /\ Urgent(m)
    /\ pc' = "acquire"
    /\ UNCHANGED <<flushing, heap, batch, nextId, reqs, sent, txCount, failed,
                   dropped, inbox, shutdown, heartbeatDue, budget, limiterVars>>

(* The loop over the batch, the same in transmit_high_priority and           *)
(* flush_queue up to what happens on a failed publish.                       *)
AcquireToken ==
    /\ pc = "acquire" /\ batch # {}
    /\ Acquire
    /\ pc' = "publish"
    /\ UNCHANGED <<flushing, heap, batch, nextId, reqs, sent, txCount, failed,
                   dropped, inbox, shutdown, heartbeatDue, budget>>

AcquireWithoutTokens ==
    /\ pc = "acquire" /\ batch # {}
    /\ AcquireRefillsNothing
    /\ pc' \in {"acquire", "panicked"}
    /\ UNCHANGED <<flushing, heap, batch, nextId, reqs, sent, txCount, failed,
                   dropped, inbox, shutdown, heartbeatDue, budget>>

(* high_pri is in the order it was popped, greatest first;                   *)
(* BinaryHeap::drain yields an arbitrary order.                              *)
NextInBatch(m) == IF flushing THEN m \in batch ELSE IsTop(m, batch)

PublishSucceeds ==
    /\ pc = "publish"
    /\ Cardinality(reqs) < ReqCap
    /\ \E m \in batch :
          /\ NextInBatch(m)
          /\ batch' = batch \ {m}
          /\ reqs' = reqs \cup {m}
    /\ txCount' = txCount + 1
    /\ pc' = "acquire"
    /\ UNCHANGED <<flushing, heap, nextId, sent, failed, dropped,
                   inbox, shutdown, heartbeatDue, budget, limiterVars>>

(* Mutant: a rejected message is counted as transmitted.                     *)
PublishFailsCounted ==
    /\ pc = "publish"
    /\ Cardinality(failed) < MaxFaults
    /\ \E m \in batch :
          /\ NextInBatch(m)
          /\ batch' = batch \ {m}
          /\ failed' = failed \cup {m}
          /\ IF flushing
             THEN dropped' = dropped \cup {m} /\ UNCHANGED heap
             ELSE heap' = heap \cup {m} /\ UNCHANGED dropped
    /\ txCount' = txCount + 1
    /\ pc' = "acquire"
    /\ UNCHANGED <<flushing, nextId, reqs, sent,
                   inbox, shutdown, heartbeatDue, budget, limiterVars>>

(* The client rejects the message (an invalid topic): transmit_high_priority *)
(* pushes it back, flush_queue only logs.                                    *)
PublishFails ==
    /\ pc = "publish"
    /\ Cardinality(failed) < MaxFaults
    /\ \E m \in batch :
          /\ NextInBatch(m)
          /\ batch' = batch \ {m}
          /\ failed' = failed \cup {m}
          /\ IF flushing
             THEN dropped' = dropped \cup {m} /\ UNCHANGED heap
             ELSE heap' = heap \cup {m} /\ UNCHANGED dropped
    /\ pc' = "acquire"
    /\ UNCHANGED <<flushing, nextId, reqs, sent, txCount,
                   inbox, shutdown, heartbeatDue, budget, limiterVars>>

(* serde_json or zstd fails: `continue', and the message is gone.            *)
EncodeFails ==
    /\ pc = "publish"
    /\ Cardinality(failed) < MaxFaults
    /\ \E m \in batch :
          /\ NextInBatch(m)
          /\ batch' = batch \ {m}
          /\ failed' = failed \cup {m}
          /\ dropped' = dropped \cup {m}
    /\ pc' = "acquire"
    /\ UNCHANGED <<flushing, heap, nextId, reqs, sent, txCount,
                   inbox, shutdown, heartbeatDue, budget, limiterVars>>

(* Mutant: no return after the flush.                                        *)
BatchEndsWithoutReturn ==
    /\ pc = "acquire" /\ batch = {}
    /\ pc' = IF flushing THEN "select" ELSE "tail"
    /\ UNCHANGED <<flushing, heap, batch, nextId, reqs, sent, txCount, failed,
                   dropped, inbox, shutdown, heartbeatDue, budget, limiterVars>>

BatchEnds ==
    /\ pc = "acquire" /\ batch = {}
    /\ pc' = IF flushing THEN "disconnect" ELSE "tail"
    /\ UNCHANGED <<flushing, heap, batch, nextId, reqs, sent, txCount, failed,
                   dropped, inbox, shutdown, heartbeatDue, budget, limiterVars>>
----------------------------------------------------------------------------
(* What follows the select! in every iteration: queue a heartbeat when one   *)
(* is due, let the event loop work, sleep.  How many requests the event loop *)
(* moves depends on the network.                                             *)
EndIteration ==
    /\ pc = "tail"
    /\ heap' = IF heartbeatDue THEN heap \cup {NewMessage("heartbeat")} ELSE heap
    /\ nextId' = IF heartbeatDue THEN nextId + 1 ELSE nextId
    /\ heartbeatDue' = FALSE
    /\ \E moved \in SUBSET reqs : reqs' = reqs \ moved /\ sent' = sent \cup moved
    /\ pc' = "select"
    /\ UNCHANGED <<flushing, batch, txCount, failed, dropped,
                   inbox, shutdown, budget, limiterVars>>

(* The Disconnect request needs a place in the request channel too.  After   *)
(* it the function returns: the event loop and what it holds are dropped.    *)
Disconnect ==
    /\ pc = "disconnect"
    /\ Cardinality(reqs) < ReqCap
    /\ pc' = "done"
    /\ UNCHANGED <<flushing, heap, batch, nextId, reqs, sent, txCount, failed,
                   dropped, inbox, shutdown, heartbeatDue, budget, limiterVars>>

ManagerStep ==
    \/ \E c \in Chan : Receive(c)
    \/ StartFlush
    \/ CollectUrgent \/ CollectEnds
    \/ AcquireToken \/ AcquireWithoutTokens
    \/ PublishSucceeds \/ PublishFails \/ EncodeFails
    \/ BatchEnds
    \/ EndIteration
    \/ Disconnect
----------------------------------------------------------------------------
(* The environment: analytics sends, time passes, shutdown is triggered.     *)
Offer(c) ==
    /\ budget > 0 /\ inbox[c] < ChanCap
    /\ inbox' = [inbox EXCEPT ![c] = @ + 1]
    /\ budget' = budget - 1
    /\ UNCHANGED <<managerVars, shutdown, heartbeatDue, limiterVars>>

HeartbeatElapses ==
    /\ budget > 0 /\ ~heartbeatDue
    /\ heartbeatDue' = TRUE
    /\ budget' = budget - 1
    /\ UNCHANGED <<managerVars, inbox, shutdown, limiterVars>>

Trigger ==
    /\ ~shutdown
    /\ shutdown' = TRUE
    /\ UNCHANGED <<managerVars, inbox, heartbeatDue, budget, limiterVars>>

Tick ==
    /\ LimiterTick
    /\ UNCHANGED <<managerVars, inbox, shutdown, heartbeatDue, budget>>

Next ==
    \/ ManagerStep
    \/ \E c \in Chan : Offer(c)
    \/ HeartbeatElapses
    \/ Trigger
    \/ Tick

Spec == Init /\ [][Next]_vars

(* The task runs whenever it can, and the clock does not stop.               *)
FairSpec == Spec /\ WF_vars(ManagerStep) /\ WF_vars(Tick)
----------------------------------------------------------------------------
Bulk(m) == ~Urgent(m)
Published == reqs \cup sent
Accepted == heap \cup batch \cup Published \cup dropped

(* Messages move from the heap to a batch, back on a failed publish, and on   *)
(* to the client in separate steps.  In between no message taken from a       *)
(* channel disappears and none is in two places, so none is sent twice        *)
(* (queue.pop / queue.push(msg.clone()) in transmit_high_priority).           *)
EachMessageInOnePlace ==
    /\ \A i \in 0 .. nextId - 1 : \E m \in Accepted : m.id = i
    /\ \A m, n \in Accepted : m.id = n.id => m = n
    /\ heap \cap (batch \cup Published \cup dropped) = {}
    /\ batch \cap (Published \cup dropped) = {}
    /\ Published \cap dropped = {}
    /\ reqs \cap sent = {}

(* tx_count is the number of distinct messages handed to the MQTT client, and *)
(* not the number that reached the network (tx_count += 1 after publish).     *)
TxCountIsPublished == txCount = Cardinality(reqs) + Cardinality(sent)

(* When the manager has returned, every message it ever accepted was handed   *)
(* to the client or was given up after an error of its own (flush_queue).     *)
FlushIsComplete ==
    pc = "done" => /\ Accepted = Published \cup dropped
                   /\ dropped \subseteq failed

(* CII events, aggregates and heartbeats leave the vessel only in the flush   *)
(* at shutdown: nothing else takes a message of priority 1 or 2 off the heap, *)
(* whatever the loop's comment says (AggregatesLeaveInBatches).               *)
BulkWaitsForShutdown == ~flushing => \A m \in Published \cup dropped : Urgent(m)

(* Between two iterations an urgent message is still on the heap only if its  *)
(* own transmission failed or a bulk message is there to hide it from the     *)
(* peek of transmit_high_priority.                                            *)
UrgentWaitsOnlyBehindBulk ==
    pc = "select" => \A m \in heap :
        Urgent(m) => m \in failed \/ \E n \in heap : Bulk(n)

(* Until the flush, urgent messages leave in the order in which they were     *)
(* created, except for those that met an error: transmit_high_priority takes  *)
(* either all urgent messages off the heap or none.                           *)
UrgentLeaveInOrder ==
    ~flushing => \A m \in Published, n \in heap \cup batch :
        Urgent(n) /\ n.id < m.id => n \in failed

(* The subtraction of durations in RateLimiter::acquire panics under no       *)
(* configuration but a limit of zero messages.                                *)
PanicNeedsZeroLimit == pc = "panicked" => limit = 0

(* The comment on the anomaly branch: "Transmit high-priority messages        *)
(* immediately".  After that step no urgent message should be left behind     *)
(* unless its publish failed.                                                 *)
UrgentLeavesAtOnce ==
    pc = "tail" => \A m \in heap : Urgent(m) => m \in failed

(* The shutdown branch logs "Flushing queue" and returns after it: a triggered *)
(* shutdown should end the task, waiting at most for refills, unless the      *)
(* configured limit is zero and no token ever comes.                          *)
ShutdownEndsTransmission ==
    shutdown ~> (pc \in {"done", "panicked"} \/ limit = 0)

(* The comment before the sleep of the loop: "Periodic batch transmission of  *)
(* aggregates".  An aggregate on the heap should leave with some batch, and   *)
(* not only because the gateway is told to stop.                              *)
AggregatesLeaveInBatches ==
    \A i \in 0 .. MaxEvents :
        (\E m \in heap : m.kind = "agg" /\ m.id = i)
            ~> \/ \E m \in Published \cup dropped : m.id = i
               \/ shutdown \/ limit = 0

(* The client's request channel is full, and the task waits for its room.     *)
WaitsForClient == pc \in {"publish", "disconnect"} /\ Cardinality(reqs) >= ReqCap
----------------------------------------------------------------------------
(* What the safety properties need to be inductive.                          *)

(* The two callers of the sending loop: where the manager is determines       *)
(* whose batch it is and whether one is left.                                 *)
ControlInv ==
    /\ pc \in {"select", "collect", "tail"} => ~flushing
    /\ pc \in {"select", "tail"} => batch = {}
    /\ pc \in {"disconnect", "done"} => flushing /\ batch = {}
    /\ flushing => heap = {}

(* Identities are handed out in order, and histories speak of real messages.  *)
HistoryInv ==
    /\ \A m \in Accepted : m.id < nextId
    /\ dropped \subseteq failed

(* A batch of transmit_high_priority exists only after the heap was found to  *)
(* hold urgent messages alone, and then takes them all.                       *)
BatchInv ==
    ~flushing =>
        /\ \A m \in batch : Urgent(m)
        /\ pc = "collect" /\ batch # {} => \A n \in heap : Urgent(n)
        /\ pc \in {"acquire", "publish"} /\ batch # {} => heap \subseteq failed
        /\ pc # "collect" => \A m \in heap :
               Urgent(m) => m \in failed \/ \E n \in heap : Bulk(n)

IInv ==
    /\ TypeOK /\ EachMessageInOnePlace /\ TxCountIsPublished
    /\ IsFiniteSet(reqs) /\ IsFiniteSet(sent)
    /\ ControlInv /\ HistoryInv /\ BatchInv
    /\ BulkWaitsForShutdown /\ UrgentLeaveInOrder /\ PanicNeedsZeroLimit
=============================================================================
