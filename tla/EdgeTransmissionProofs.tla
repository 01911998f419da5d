----------------------- MODULE EdgeTransmissionProofs -----------------------
(***************************************************************************)
(* The safety properties of EdgeTransmission for every configuration:      *)
(* any rate limits, window, channel capacities and bounds.  IInv is the    *)
(* inductive invariant; each of its parts is preserved by a lemma of its   *)
(* own, with one step per action.                                          *)
(***************************************************************************)
EXTENDS EdgeTransmission, FiniteSetTheorems, TLAPS

(* A nonempty set of natural numbers has a least element.                  *)
LEMMA LeastNatural ==
    ASSUME NEW S, S \subseteq Nat, S # {}
    PROVE  \E x \in S : \A y \in S : x <= y
<1>1. \E x \in S : \A y \in S : <<y, x>> \notin OpToRel(<, Nat)
  BY NatLessThanWellFounded, WFMin
<1>2. ASSUME NEW x \in S, NEW y \in S, <<y, x>> \notin OpToRel(<, Nat)
      PROVE  x <= y
  BY <1>2 DEF OpToRel
<1> QED
  BY <1>1, <1>2

(* Priorities are 0, 1 and 2.                                              *)
LEMMA PriorityRange == \A k \in Kind : Priority[k] \in 0 .. 2
BY DEF Priority, Kind, Chan

(* If the urgent messages of a heap are all it holds, one of them is at    *)
(* the top of it: peek cannot miss them.                                   *)
LEMMA UrgentTopExists ==
    ASSUME NEW h \in SUBSET Message, h # {}, \A m \in h : Urgent(m),
           \A m, n \in h : m.id = n.id => m = n
    PROVE  \E m \in h : IsTop(m, h) /\ Urgent(m)
<1> DEFINE Ids == {m.id : m \in h}
<1>1. Ids \subseteq Nat /\ Ids # {}
  BY DEF Message
<1>2. PICK x \in Ids : \A y \in Ids : x <= y
  BY <1>1, LeastNatural
<1>3. PICK m \in h : m.id = x
  BY <1>2
<1>4. ASSUME NEW n \in h \ {m} PROVE Less(n, m)
  <2>1. n.id > m.id
    BY <1>1, <1>2, <1>3, <1>4
  <2> QED
    BY <2>1, <1>4 DEF Less, Urgent
<1> QED
  BY <1>3, <1>4 DEF IsTop

-----------------------------------------------------------------------------
(* The manager's variables keep their types.                               *)
LEMMA TypeInit == Init => TypeOK
<1> SUFFICES ASSUME Init PROVE TypeOK
  OBVIOUS
<1>1. LimiterTypeOK
  BY RateLimiterAssumption DEF Init, LimiterInit, LimiterTypeOK, Span
<1>2. inbox \in [Chan -> 0 .. ChanCap]
  BY TransmissionAssumption DEF Init
<1> QED
  BY <1>1, <1>2, TransmissionAssumption DEF Init, TypeOK

LEMMA TypeStep == TypeOK /\ [Next]_vars => TypeOK'
<1> SUFFICES ASSUME TypeOK, [Next]_vars PROVE TypeOK'
  OBVIOUS
<1> USE RateLimiterAssumption, TransmissionAssumption DEF TypeOK
<1>1. ASSUME NEW c \in Chan, Receive(c) PROVE TypeOK'
  BY <1>1 DEF Receive, NewMessage, Message, Kind, limiterVars, LimiterTypeOK
<1>2. CASE StartFlush
  BY <1>2 DEF StartFlush, limiterVars, LimiterTypeOK
<1>3. CASE CollectUrgent
  BY <1>3 DEF CollectUrgent, limiterVars, LimiterTypeOK
<1>4. CASE CollectEnds
  BY <1>4 DEF CollectEnds, limiterVars, LimiterTypeOK
<1>5. CASE AcquireToken
  <2>1. limit' \in RateLimits /\ tokens' \in 0 .. limit' /\ age' \in 0 .. Window
    BY <1>5 DEF AcquireToken, Acquire, Available, RefillDue, LimiterTypeOK
  <2>2. spent' \in [Span -> Nat]
    BY <1>5 DEF AcquireToken, Acquire, LimiterTypeOK, Span
  <2>3. LimiterTypeOK'
    BY <2>1, <2>2 DEF LimiterTypeOK
  <2> QED
    BY <1>5, <2>3 DEF AcquireToken
<1>6. CASE AcquireWithoutTokens
  <2>1. LimiterTypeOK'
    BY <1>6 DEF AcquireWithoutTokens, AcquireRefillsNothing, Available,
                RefillDue, LimiterTypeOK
  <2> QED
    BY <1>6, <2>1 DEF AcquireWithoutTokens
<1>7. CASE PublishSucceeds
  BY <1>7 DEF PublishSucceeds, limiterVars, LimiterTypeOK
<1>8. CASE PublishFails
  BY <1>8 DEF PublishFails, limiterVars, LimiterTypeOK
<1>9. CASE EncodeFails
  BY <1>9 DEF EncodeFails, limiterVars, LimiterTypeOK
<1>10. CASE BatchEnds
  BY <1>10 DEF BatchEnds, limiterVars, LimiterTypeOK
<1>11. CASE EndIteration
  <2>1. NewMessage("heartbeat") \in Message
    BY DEF NewMessage, Message, Kind
  <2>2. heap' \in SUBSET Message /\ nextId' \in Nat
    BY <1>11, <2>1 DEF EndIteration
  <2>3. reqs' \in SUBSET Message /\ sent' \in SUBSET Message
    BY <1>11 DEF EndIteration
  <2> QED
    BY <1>11, <2>2, <2>3 DEF EndIteration, limiterVars, LimiterTypeOK
<1>12. CASE Disconnect
  BY <1>12 DEF Disconnect, limiterVars, LimiterTypeOK
<1>13. ASSUME NEW c \in Chan, Offer(c) PROVE TypeOK'
  BY <1>13 DEF Offer, managerVars, limiterVars, LimiterTypeOK
<1>14. CASE HeartbeatElapses
  BY <1>14 DEF HeartbeatElapses, managerVars, limiterVars, LimiterTypeOK
<1>15. CASE Trigger
  BY <1>15 DEF Trigger, managerVars, limiterVars, LimiterTypeOK
<1>16. CASE Tick
  <2>1. LimiterTypeOK'
    BY <1>16 DEF Tick, LimiterTick, LimiterTypeOK, Span
  <2> QED
    BY <1>16, <2>1 DEF Tick, managerVars
<1>17. CASE UNCHANGED vars
  BY <1>17 DEF vars, managerVars, limiterVars, LimiterTypeOK
<1> QED
  BY <1>1, <1>2, <1>3, <1>4, <1>5, <1>6, <1>7, <1>8, <1>9, <1>10, <1>11,
     <1>12, <1>13, <1>14, <1>15, <1>16, <1>17 DEF Next, ManagerStep

(* Type correctness of the transmission manager and its rate limiter:      *)
(* channels stay within their capacity, tokens within the limit.           *)
THEOREM TypeCorrect == Spec => []TypeOK
<1>1. Init => TypeOK
  BY TypeInit
<1>2. TypeOK /\ [Next]_vars => TypeOK'
  BY TypeStep
<1> QED
  BY <1>1, <1>2, PTL DEF Spec
-----------------------------------------------------------------------------
(* The rest of IInv speaks of the manager's own variables and the limit.   *)
Core ==
    /\ EachMessageInOnePlace /\ TxCountIsPublished
    /\ IsFiniteSet(reqs) /\ IsFiniteSet(sent)
    /\ ControlInv /\ HistoryInv /\ BatchInv
    /\ BulkWaitsForShutdown /\ UrgentLeaveInOrder /\ PanicNeedsZeroLimit

LEMMA CoreInit == Init => Core
<1> SUFFICES ASSUME Init PROVE Core
  OBVIOUS
<1> USE DEF Init
<1>1. Accepted = {} /\ Published = {}
  BY DEF Accepted, Published
<1>2. EachMessageInOnePlace
  BY <1>1 DEF EachMessageInOnePlace
<1>3. TxCountIsPublished /\ IsFiniteSet(reqs) /\ IsFiniteSet(sent)
  BY FS_EmptySet DEF TxCountIsPublished
<1> QED
  BY <1>1, <1>2, <1>3 DEF Core, ControlInv, HistoryInv, BatchInv,
     BulkWaitsForShutdown, UrgentLeaveInOrder, PanicNeedsZeroLimit

(* Steps of the environment touch none of it.                              *)
LEMMA CoreUnchanged ==
    ASSUME Core, UNCHANGED managerVars, UNCHANGED limit
    PROVE  Core'
BY DEF Core, managerVars, EachMessageInOnePlace, TxCountIsPublished, ControlInv,
       HistoryInv, BatchInv, BulkWaitsForShutdown, UrgentLeaveInOrder,
       PanicNeedsZeroLimit, Accepted, Published, Urgent, Bulk

(* Creating the next message, while requests may go out to the network.    *)
LEMMA CreationStep ==
    ASSUME TypeOK, EachMessageInOnePlace, HistoryInv,
           NEW new, new.id = nextId, heap' = heap \cup {new}, nextId' = nextId + 1,
           UNCHANGED <<batch, dropped, failed>>,
           NEW moved \in SUBSET reqs, reqs' = reqs \ moved, sent' = sent \cup moved
    PROVE  EachMessageInOnePlace' /\ HistoryInv'
<1> USE DEF EachMessageInOnePlace, HistoryInv, Accepted, Published
<1>1. Accepted' = Accepted \cup {new}
  OBVIOUS
<1>2. \A m \in Accepted : m.id < nextId /\ m.id \in Nat /\ m # new
  <2>1. \A m \in Accepted : m.id \in Nat
    BY DEF TypeOK, Message
  <2> QED
    BY <2>1 DEF TypeOK
<1>3. HistoryInv'
  BY <1>1, <1>2 DEF TypeOK
<1>4. \A i \in 0 .. nextId' - 1 : \E m \in Accepted' : m.id = i
  <2>1. ASSUME NEW i \in 0 .. nextId' - 1 PROVE \E m \in Accepted' : m.id = i
    <3>1. CASE i = nextId
      BY <1>1, <3>1
    <3>2. CASE i # nextId
      <4>1. i \in 0 .. nextId - 1
        BY <3>2 DEF TypeOK
      <4> QED
        BY <1>1, <4>1
    <3> QED
      BY <3>1, <3>2
  <2> QED
    BY <2>1
<1>5. \A m, n \in Accepted' : m.id = n.id => m = n
  BY <1>1, <1>2
<1> QED
  BY <1>2, <1>3, <1>4, <1>5

(* Where messages are: each step moves a message or creates the next one.  *)
LEMMA PlacesStep ==
    ASSUME TypeOK, Core, ManagerStep
    PROVE  EachMessageInOnePlace' /\ HistoryInv'
<1> USE DEF Core, EachMessageInOnePlace, HistoryInv, Accepted, Published
<1>1. ASSUME NEW c \in Chan, Receive(c)
      PROVE  EachMessageInOnePlace' /\ HistoryInv'
  <2> DEFINE new == NewMessage(c)
  <2>1. /\ heap' = heap \cup {new} /\ new.id = nextId /\ nextId' = nextId + 1
        /\ UNCHANGED <<batch, reqs, sent, dropped, failed>>
    BY <1>1 DEF Receive, NewMessage
  <2>2. {} \in SUBSET reqs /\ reqs' = reqs \ {} /\ sent' = sent \cup {}
    BY <2>1
  <2>3. EachMessageInOnePlace /\ HistoryInv
    BY DEF Core
  <2> HIDE DEF EachMessageInOnePlace, HistoryInv, new
  <2> QED
    BY <2>1, <2>2, <2>3, CreationStep
<1>2. CASE StartFlush
  BY <1>2 DEF StartFlush, ControlInv
<1>3. CASE CollectUrgent
  BY <1>3 DEF CollectUrgent
<1>4. CASE CollectEnds
  BY <1>4 DEF CollectEnds
<1>5. CASE AcquireToken
  BY <1>5 DEF AcquireToken
<1>6. CASE AcquireWithoutTokens
  BY <1>6 DEF AcquireWithoutTokens
<1>7. CASE PublishSucceeds
  BY <1>7 DEF PublishSucceeds
<1>8. CASE PublishFails
  <2>1. CASE flushing
    BY <1>8, <2>1 DEF PublishFails
  <2>2. CASE ~flushing
    BY <1>8, <2>2 DEF PublishFails
  <2> QED
    BY <2>1, <2>2
<1>9. CASE EncodeFails
  BY <1>9 DEF EncodeFails
<1>10. CASE BatchEnds
  BY <1>10 DEF BatchEnds
<1>11. CASE EndIteration
  <2>1. PICK moved \in SUBSET reqs : reqs' = reqs \ moved /\ sent' = sent \cup moved
    BY <1>11 DEF EndIteration
  <2>2. CASE heartbeatDue
    <3> DEFINE new == NewMessage("heartbeat")
    <3>1. /\ heap' = heap \cup {new} /\ new.id = nextId /\ nextId' = nextId + 1
          /\ UNCHANGED <<batch, dropped, failed>>
      BY <1>11, <2>2 DEF EndIteration, NewMessage
    <3> QED
      BY <2>1, <3>1, CreationStep DEF Core
  <2>3. CASE ~heartbeatDue
    BY <1>11, <2>1, <2>3 DEF EndIteration
  <2> QED
    BY <2>2, <2>3
<1>12. CASE Disconnect
  BY <1>12 DEF Disconnect
<1> QED
  BY <1>1, <1>2, <1>3, <1>4, <1>5, <1>6, <1>7, <1>8, <1>9, <1>10, <1>11, <1>12
     DEF ManagerStep
(* Where the manager is, and whose batch it sends.                         *)
LEMMA ControlStep ==
    ASSUME TypeOK, Core, ManagerStep
    PROVE  ControlInv' /\ PanicNeedsZeroLimit'
<1> USE DEF Core, ControlInv, PanicNeedsZeroLimit, limiterVars
<1>1. ASSUME NEW c \in Chan, Receive(c) PROVE ControlInv' /\ PanicNeedsZeroLimit'
  BY <1>1 DEF Receive
<1>2. CASE StartFlush
  BY <1>2 DEF StartFlush
<1>3. CASE CollectUrgent
  BY <1>3 DEF CollectUrgent
<1>4. CASE CollectEnds
  BY <1>4 DEF CollectEnds
<1>5. CASE AcquireToken
  BY <1>5 DEF AcquireToken, Acquire
<1>6. CASE AcquireWithoutTokens
  BY <1>6 DEF AcquireWithoutTokens, AcquireRefillsNothing, Available, RefillDue
<1>7. CASE PublishSucceeds
  BY <1>7 DEF PublishSucceeds
<1>8. CASE PublishFails
  BY <1>8 DEF PublishFails
<1>9. CASE EncodeFails
  BY <1>9 DEF EncodeFails
<1>10. CASE BatchEnds
  BY <1>10 DEF BatchEnds
<1>11. CASE EndIteration
  BY <1>11 DEF EndIteration
<1>12. CASE Disconnect
  BY <1>12 DEF Disconnect
<1> QED
  BY <1>1, <1>2, <1>3, <1>4, <1>5, <1>6, <1>7, <1>8, <1>9, <1>10, <1>11, <1>12
     DEF ManagerStep

(* tx_count follows the number of published messages.                      *)
LEMMA CountStep ==
    ASSUME TypeOK, Core, ManagerStep
    PROVE  TxCountIsPublished' /\ IsFiniteSet(reqs)' /\ IsFiniteSet(sent)'
<1> USE DEF Core, TxCountIsPublished
<1>1. ASSUME NEW c \in Chan, Receive(c) PROVE TxCountIsPublished' /\ IsFiniteSet(reqs)' /\ IsFiniteSet(sent)'
  BY <1>1 DEF Receive
<1>2. CASE StartFlush
  BY <1>2 DEF StartFlush
<1>3. CASE CollectUrgent
  BY <1>3 DEF CollectUrgent
<1>4. CASE CollectEnds
  BY <1>4 DEF CollectEnds
<1>5. CASE AcquireToken
  BY <1>5 DEF AcquireToken
<1>6. CASE AcquireWithoutTokens
  BY <1>6 DEF AcquireWithoutTokens
<1>7. CASE PublishSucceeds
  <2>1. PICK m \in batch : reqs' = reqs \cup {m}
    BY <1>7 DEF PublishSucceeds
  <2>2. m \notin reqs
    BY DEF EachMessageInOnePlace, Published
  <2>3. /\ IsFiniteSet(reqs') /\ Cardinality(reqs') = Cardinality(reqs) + 1
        /\ Cardinality(reqs) \in Nat /\ Cardinality(sent) \in Nat
    BY <2>1, <2>2, FS_AddElement, FS_CardinalityType
  <2> QED
    BY <1>7, <2>3 DEF PublishSucceeds, TypeOK
<1>8. CASE PublishFails
  BY <1>8 DEF PublishFails
<1>9. CASE EncodeFails
  BY <1>9 DEF EncodeFails
<1>10. CASE BatchEnds
  BY <1>10 DEF BatchEnds
<1>11. CASE EndIteration
  <2>1. PICK moved \in SUBSET reqs : reqs' = reqs \ moved /\ sent' = sent \cup moved
    BY <1>11 DEF EndIteration
  <2>2. IsFiniteSet(moved) /\ reqs \cap moved = moved /\ sent \cap moved = {}
    BY <2>1, FS_Subset DEF EachMessageInOnePlace
  <2>3. /\ IsFiniteSet(reqs') /\ IsFiniteSet(sent')
        /\ Cardinality(reqs') = Cardinality(reqs) - Cardinality(moved)
        /\ Cardinality(sent') = Cardinality(sent) + Cardinality(moved) - Cardinality({})
    <3>1. IsFiniteSet(reqs \ moved)
          /\ Cardinality(reqs \ moved) = Cardinality(reqs) - Cardinality(moved)
      BY <2>2, FS_Difference
    <3>2. IsFiniteSet(sent \cup moved)
          /\ Cardinality(sent \cup moved)
               = Cardinality(sent) + Cardinality(moved) - Cardinality({})
      BY <2>2, FS_Union
    <3> QED
      BY <2>1, <3>1, <3>2
  <2>4. /\ Cardinality(reqs) \in Nat /\ Cardinality(sent) \in Nat
        /\ Cardinality(moved) \in Nat /\ Cardinality({}) = 0
    BY <2>2, FS_CardinalityType, FS_EmptySet
  <2> QED
    BY <1>11, <2>3, <2>4 DEF EndIteration
<1>12. CASE Disconnect
  BY <1>12 DEF Disconnect
<1> QED
  BY <1>1, <1>2, <1>3, <1>4, <1>5, <1>6, <1>7, <1>8, <1>9, <1>10, <1>11, <1>12
     DEF ManagerStep

(* What a batch of transmit_high_priority holds, and what it leaves.       *)
LEMMA BatchStep ==
    ASSUME TypeOK, Core, ManagerStep
    PROVE  BatchInv'
<1> USE DEF Core, BatchInv, ControlInv, Urgent, Bulk
<1>1. ASSUME NEW c \in Chan, Receive(c) PROVE BatchInv'
  <2>1. NewMessage(c).kind = c
    BY DEF NewMessage
  <2> QED
    BY <1>1, <2>1 DEF Receive
<1>2. CASE StartFlush
  BY <1>2 DEF StartFlush
<1>3. CASE CollectUrgent
  <2>1. PICK m \in heap : /\ IsTop(m, heap) /\ Urgent(m)
                         /\ heap' = heap \ {m} /\ batch' = batch \cup {m}
    BY <1>3 DEF CollectUrgent
  <2>2. ASSUME NEW n \in heap \ {m} PROVE Urgent(n)
    <3>1. Less(n, m) /\ Priority[m.kind] = 0 /\ n.kind \in Kind
      BY <2>1, <2>2 DEF IsTop, TypeOK, Message
    <3> QED
      BY <3>1, PriorityRange DEF Less
  <2> QED
    BY <1>3, <2>1, <2>2 DEF CollectUrgent
<1>4. CASE CollectEnds
  <2>1. ASSUME heap # {}, \A n \in heap : Urgent(n) PROVE FALSE
    <3>1. \A m, n \in heap : m.id = n.id => m = n
      BY DEF EachMessageInOnePlace, Accepted
    <3>2. \E m \in heap : IsTop(m, heap) /\ Urgent(m)
      BY <2>1, <3>1, UrgentTopExists DEF TypeOK
    <3> QED
      BY <1>4, <3>2 DEF CollectEnds
  <2>2. batch # {} => heap = {}
    BY <1>4, <2>1 DEF CollectEnds
  <2>3. \A m \in heap : Urgent(m) => \E n \in heap : ~Urgent(n)
    BY <2>1
  <2> QED
    BY <1>4, <2>2, <2>3 DEF CollectEnds
<1>5. CASE AcquireToken
  BY <1>5 DEF AcquireToken
<1>6. CASE AcquireWithoutTokens
  BY <1>6 DEF AcquireWithoutTokens
<1>7. CASE PublishSucceeds
  BY <1>7 DEF PublishSucceeds
<1>8. CASE PublishFails
  BY <1>8 DEF PublishFails
<1>9. CASE EncodeFails
  BY <1>9 DEF EncodeFails
<1>10. CASE BatchEnds
  BY <1>10 DEF BatchEnds
<1>11. CASE EndIteration
  <2>1. NewMessage("heartbeat").kind = "heartbeat" /\ Priority["heartbeat"] = 2
    BY DEF NewMessage, Priority, Kind, Chan
  <2> QED
    BY <1>11, <2>1 DEF EndIteration
<1>12. CASE Disconnect
  BY <1>12 DEF Disconnect
<1> QED
  BY <1>1, <1>2, <1>3, <1>4, <1>5, <1>6, <1>7, <1>8, <1>9, <1>10, <1>11, <1>12
     DEF ManagerStep

(* What has left the vessel before the flush, and in which order.          *)
LEMMA OrderStep ==
    ASSUME TypeOK, Core, ManagerStep
    PROVE  BulkWaitsForShutdown' /\ UrgentLeaveInOrder'
<1> USE DEF Core, BulkWaitsForShutdown, UrgentLeaveInOrder, Published, ControlInv, Urgent
<1>1. ASSUME NEW c \in Chan, Receive(c) PROVE BulkWaitsForShutdown' /\ UrgentLeaveInOrder'
  <2>1. NewMessage(c).id = nextId
    BY DEF NewMessage
  <2>2. \A m \in Published : m.id < nextId /\ m.id \in Nat
    BY DEF HistoryInv, Accepted, TypeOK, Message
  <2> QED
    BY <1>1, <2>1, <2>2 DEF Receive, TypeOK
<1>2. CASE StartFlush
  BY <1>2 DEF StartFlush
<1>3. CASE CollectUrgent
  BY <1>3 DEF CollectUrgent
<1>4. CASE CollectEnds
  BY <1>4 DEF CollectEnds
<1>5. CASE AcquireToken
  BY <1>5 DEF AcquireToken
<1>6. CASE AcquireWithoutTokens
  BY <1>6 DEF AcquireWithoutTokens
<1>7. CASE PublishSucceeds
  <2>1. PICK m \in batch : /\ NextInBatch(m)
                          /\ batch' = batch \ {m} /\ reqs' = reqs \cup {m}
    BY <1>7 DEF PublishSucceeds
  <2>2. CASE flushing
    BY <1>7, <2>2 DEF PublishSucceeds
  <2>3. CASE ~flushing
    <3>1. \A n \in batch \ {m} : Less(n, m) /\ n.id \in Nat /\ m.id \in Nat
      BY <2>1, <2>3 DEF NextInBatch, IsTop, TypeOK, Message
    <3>2. \A n \in batch : Urgent(n)
      BY <2>3 DEF BatchInv
    <3>3. heap \subseteq failed
      BY <1>7, <2>1, <2>3 DEF BatchInv, PublishSucceeds
    <3>4. \A n \in batch \ {m} : ~(n.id < m.id)
      BY <3>1, <3>2 DEF Less
    <3> QED
      BY <1>7, <2>1, <3>2, <3>3, <3>4 DEF PublishSucceeds
  <2> QED
    BY <2>2, <2>3
<1>8. CASE PublishFails
  BY <1>8 DEF PublishFails, BatchInv
<1>9. CASE EncodeFails
  BY <1>9 DEF EncodeFails, BatchInv
<1>10. CASE BatchEnds
  BY <1>10 DEF BatchEnds
<1>11. CASE EndIteration
  <2>1. NewMessage("heartbeat").id = nextId
    BY DEF NewMessage
  <2>2. \A m \in Published : m.id < nextId /\ m.id \in Nat
    BY DEF HistoryInv, Accepted, TypeOK, Message
  <2>3. Published' = Published
    BY <1>11 DEF EndIteration
  <2> QED
    BY <1>11, <2>1, <2>2, <2>3 DEF EndIteration, TypeOK
<1>12. CASE Disconnect
  BY <1>12 DEF Disconnect
<1> QED
  BY <1>1, <1>2, <1>3, <1>4, <1>5, <1>6, <1>7, <1>8, <1>9, <1>10, <1>11, <1>12
     DEF ManagerStep

-----------------------------------------------------------------------------
(* IInv is an invariant of every behaviour.                                *)
THEOREM Invariance == Spec => []IInv
<1>1. IInv <=> TypeOK /\ Core
  BY DEF IInv, Core
<1>2. Init => IInv
  BY <1>1, TypeInit, CoreInit
<1>3. IInv /\ [Next]_vars => IInv'
  <2> SUFFICES ASSUME TypeOK, Core, [Next]_vars PROVE TypeOK' /\ Core'
    BY <1>1 DEF IInv, Core
  <2>1. TypeOK'
    BY TypeStep
  <2>2. CASE ManagerStep
    <3>1. EachMessageInOnePlace' /\ HistoryInv'
      BY <2>2, PlacesStep
    <3>2. ControlInv' /\ PanicNeedsZeroLimit'
      BY <2>2, ControlStep
    <3>3. TxCountIsPublished' /\ IsFiniteSet(reqs)' /\ IsFiniteSet(sent)'
      BY <2>2, CountStep
    <3>4. BatchInv' /\ BulkWaitsForShutdown' /\ UrgentLeaveInOrder'
      BY <2>2, BatchStep, OrderStep
    <3> QED
      BY <2>1, <3>1, <3>2, <3>3, <3>4 DEF Core
  <2>3. CASE ~ManagerStep
    <3>1. UNCHANGED managerVars /\ UNCHANGED limit
      BY <2>3 DEF Next, vars, Offer, HeartbeatElapses, Trigger, Tick, LimiterTick,
                  limiterVars
    <3>2. Core'
      BY <3>1, CoreUnchanged
    <3> QED
      BY <2>1, <3>2
  <2> QED
    BY <2>1, <2>2, <2>3
<1> QED
  BY <1>2, <1>3, PTL DEF Spec

(* No message taken from a channel is lost or duplicated between the heap, *)
(* the batch being sent and the MQTT client.                               *)
THEOREM NothingLostOrDuplicated == Spec => []EachMessageInOnePlace
<1>1. IInv => EachMessageInOnePlace
  BY DEF IInv
<1> QED
  BY <1>1, Invariance, PTL

(* tx_count counts exactly the messages handed to the MQTT client.         *)
THEOREM TxCountExact == Spec => []TxCountIsPublished
<1>1. IInv => TxCountIsPublished
  BY DEF IInv
<1> QED
  BY <1>1, Invariance, PTL

(* Once the manager has returned nothing is left unsent but what failed.   *)
THEOREM FlushComplete == Spec => []FlushIsComplete
<1>1. IInv => FlushIsComplete
  BY DEF IInv, FlushIsComplete, ControlInv, HistoryInv, Accepted
<1> QED
  BY <1>1, Invariance, PTL

(* Only urgent messages leave before the flush at shutdown.                *)
THEOREM BulkWaits == Spec => []BulkWaitsForShutdown
<1>1. IInv => BulkWaitsForShutdown
  BY DEF IInv
<1> QED
  BY <1>1, Invariance, PTL

(* An urgent message waits between iterations only after its own failure   *)
(* or while a bulk message hides it.                                       *)
THEOREM UrgentHiddenOnlyByBulk == Spec => []UrgentWaitsOnlyBehindBulk
<1>1. IInv => UrgentWaitsOnlyBehindBulk
  BY DEF IInv, UrgentWaitsOnlyBehindBulk, ControlInv, BatchInv
<1> QED
  BY <1>1, Invariance, PTL

(* Urgent messages that meet no error leave in the order of creation.      *)
THEOREM UrgentInOrder == Spec => []UrgentLeaveInOrder
<1>1. IInv => UrgentLeaveInOrder
  BY DEF IInv
<1> QED
  BY <1>1, Invariance, PTL

(* With a nonzero limit the rate limiter never panics.                     *)
THEOREM NoPanic == Spec => []PanicNeedsZeroLimit
<1>1. IInv => PanicNeedsZeroLimit
  BY DEF IInv
<1> QED
  BY <1>1, Invariance, PTL
-----------------------------------------------------------------------------
(* The rate limiter.  Every action of the manager and of its environment   *)
(* is one of its three actions or leaves it alone.                         *)
LEMMA LimiterSteps ==
    Next => Acquire \/ AcquireRefillsNothing \/ LimiterTick \/ UNCHANGED limiterVars
BY DEF Next, ManagerStep, Receive, StartFlush, CollectUrgent, CollectEnds,
       AcquireToken, AcquireWithoutTokens, PublishSucceeds, PublishFails,
       EncodeFails, BatchEnds, EndIteration, Disconnect, Offer,
       HeartbeatElapses, Trigger, Tick

LEMMA LimiterInitial == LimiterInit => LimiterInv
BY RateLimiterAssumption
   DEF LimiterInit, LimiterInv, LimiterTypeOK, Span, SpentInAnyMinute

(* A token is taken in the current period, or from the budget of the       *)
(* period that begins with it.                                             *)
LEMMA LimiterAcquires ==
    ASSUME LimiterTypeOK, LimiterInv, Acquire
    PROVE  LimiterInv'
<1> USE RateLimiterAssumption DEF LimiterTypeOK, Span, SpentInAnyMinute
<1>1. /\ \A k \in Span : spent'[k] = spent[k] + 1 /\ spent[k] \in Nat
      /\ limit' = limit /\ limit \in Nat /\ tokens \in Nat /\ age \in 0 .. Window
      /\ 0 \in Span /\ Window - 1 \in Span
  BY DEF Acquire
<1>2. \A j, k \in Span : j <= k => spent'[j] <= spent'[k]
  BY <1>1 DEF LimiterInv
<1>3. CASE age < Window
  <2>1. tokens' = tokens - 1 /\ age' = age /\ age \in Span
    BY <1>1, <1>3 DEF Acquire, Available, RefillDue
  <2> QED
    BY <1>1, <1>2, <1>3, <2>1 DEF LimiterInv
<1>4. CASE age = Window
  <2>1. tokens' = limit - 1 /\ age' = 0
    BY <1>1, <1>4 DEF Acquire, Available, RefillDue
  <2>2. spent'[0] = 1 /\ spent[Window - 1] <= limit /\ spent[0] = 0
    BY <1>1, <1>4 DEF LimiterInv
  <2>3. spent'[0] <= spent'[Window - 1]
    BY <1>1, <2>2
  <2> QED
    BY <1>1, <1>2, <2>1, <2>2, <2>3 DEF LimiterInv
<1> QED
  BY <1>1, <1>3, <1>4

(* A tick shifts the history; what was handed out a minute ago leaves it.  *)
LEMMA LimiterTicks ==
    ASSUME LimiterTypeOK, LimiterInv, LimiterTick
    PROVE  LimiterInv'
<1> USE RateLimiterAssumption DEF LimiterTypeOK, Span, SpentInAnyMinute
<1>1. /\ \A k \in Span : spent'[k] = IF k = 0 THEN 0 ELSE spent[k - 1]
      /\ \A k \in Span : spent[k] \in Nat
      /\ limit' = limit /\ tokens' = tokens /\ limit \in Nat /\ tokens \in Nat
      /\ age \in 0 .. Window /\ 0 \in Span /\ Window - 1 \in Span
  BY DEF LimiterTick
<1>2. \A j, k \in Span : j <= k => spent'[j] <= spent'[k]
  <2>1. ASSUME NEW j \in Span, NEW k \in Span, j <= k PROVE spent'[j] <= spent'[k]
    <3>1. CASE j = 0
      BY <1>1, <3>1
    <3>2. CASE j # 0
      <4>1. j - 1 \in Span /\ k - 1 \in Span /\ spent[j - 1] <= spent[k - 1]
        BY <2>1, <3>2 DEF LimiterInv
      <4> QED
        BY <1>1, <2>1, <3>2, <4>1
    <3> QED
      BY <3>1, <3>2
  <2> QED
    BY <2>1
<1>3. spent'[0] = 0 /\ spent'[Window - 1] <= spent[Window - 1]
  <2>1. CASE Window = 1
    BY <1>1, <2>1
  <2>2. CASE Window > 1
    <3>1. Window - 2 \in Span /\ spent[Window - 2] <= spent[Window - 1]
      BY <2>2 DEF LimiterInv
    <3> QED
      BY <1>1, <2>2, <3>1
  <2> QED
    BY <2>1, <2>2
<1>4. CASE age + 1 < Window
  <2>1. age' = age + 1 /\ age + 1 \in Span /\ spent'[age + 1] = spent[age]
    BY <1>1, <1>4 DEF LimiterTick
  <2>2. Window - 2 \in Span /\ spent'[Window - 1] = spent[Window - 2]
    BY <1>1, <1>4
  <2>3. spent[age] <= spent[Window - 2]
    BY <1>1, <1>4, <2>1, <2>2 DEF LimiterInv
  <2> QED
    BY <1>1, <1>2, <1>3, <1>4, <2>1, <2>2, <2>3 DEF LimiterInv
<1>5. CASE age + 1 >= Window
  <2>1. age' = Window /\ spent[Window - 1] <= limit
    BY <1>1, <1>5 DEF LimiterTick, LimiterInv
  <2>2. spent'[Window - 1] <= limit'
    BY <1>1, <1>3, <2>1
  <2> QED
    BY <1>2, <1>3, <2>1, <2>2 DEF LimiterInv
<1> QED
  BY <1>1, <1>4, <1>5

(* A step of the limiter keeps its invariant, which gives the bound.       *)
LEMMA LimiterInvStep ==
    ASSUME LimiterTypeOK, LimiterInv,
           Acquire \/ AcquireRefillsNothing \/ LimiterTick \/ UNCHANGED limiterVars
    PROVE  LimiterInv'
<1>1. CASE Acquire
  BY <1>1, LimiterAcquires
<1>2. CASE AcquireRefillsNothing
  <2>1. limit = 0 /\ limit' = limit /\ spent' = spent /\ tokens' = 0 /\ age' = 0
    BY <1>2 DEF AcquireRefillsNothing, Available
  <2>2. age = Window
    BY <1>2, RateLimiterAssumption
       DEF AcquireRefillsNothing, RefillDue, LimiterTypeOK
  <2>3. spent[0] = 0 /\ spent[Window - 1] <= 0
    BY <2>1, <2>2 DEF LimiterInv, SpentInAnyMinute
  <2>4. spent[Window - 1] \in Nat /\ Window > 0
    BY RateLimiterAssumption DEF LimiterTypeOK, Span
  <2>5. \A j, k \in Span : j <= k => spent'[j] <= spent'[k]
    BY <2>1 DEF LimiterInv
  <2> QED
    BY <2>1, <2>3, <2>4, <2>5, RateLimiterAssumption DEF LimiterInv, SpentInAnyMinute
<1>3. CASE LimiterTick
  BY <1>3, LimiterTicks
<1>4. CASE UNCHANGED limiterVars
  BY <1>4 DEF limiterVars, LimiterInv, Span, SpentInAnyMinute
<1> QED
  BY <1>1, <1>2, <1>3, <1>4

LEMMA LimiterBound == LimiterTypeOK /\ LimiterInv => AnyMinuteAtMostTwiceTheLimit
BY RateLimiterAssumption
   DEF LimiterTypeOK, LimiterInv, Span, SpentInAnyMinute, AnyMinuteAtMostTwiceTheLimit

(* The limiter hands out at most two full budgets in any minute.           *)
THEOREM TwiceTheLimit == Spec => []AnyMinuteAtMostTwiceTheLimit
<1>1. Init => LimiterInv
  BY LimiterInitial DEF Init
<1>2. TypeOK /\ LimiterInv /\ [Next]_vars => LimiterInv'
  <2> SUFFICES ASSUME TypeOK, LimiterInv, [Next]_vars PROVE LimiterInv'
    OBVIOUS
  <2> QED
    BY LimiterInvStep, LimiterSteps DEF TypeOK, vars
<1>3. TypeOK /\ LimiterInv => AnyMinuteAtMostTwiceTheLimit
  BY LimiterBound DEF TypeOK
<1> QED
  BY <1>1, <1>2, <1>3, TypeCorrect, PTL DEF Spec
=============================================================================
