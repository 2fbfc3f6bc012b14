---------------------------- MODULE OutboxProofs ----------------------------
(***************************************************************************)
(* TLAPS proofs about Outbox, for any number of dispatchers, operators,    *)
(* events and sinks, any routing, any attempt and batch limit.             *)
(*                                                                         *)
(* The properties speak of statuses in the table; what a dispatcher writes *)
(* there it decides from what it claimed earlier.  IInv ties the two       *)
(* together: a delivery no operator has touched is "processing" as long as *)
(* some dispatcher holds it, and only one does.                            *)
(***************************************************************************)
EXTENDS Outbox, TLAPS

\* What the program counter says about the other local variables.
Control ==
  \A p \in Procs :
    /\ pc[p] \in {"delivered", "failed", "bury"} => cur[p] \in Deliveries
    /\ pc[p] \in {"refresh", "computed", "retrying"} => refreshing[p] \in Events
    /\ pc[p] \in {"idle", "ensuring", "claimed", "retrying"} => cur[p] = NoDelivery
    /\ cur[p] \notin todo[p]

\* A delivery that no operator has touched stays "processing" while it is held.
HeldIsProcessing ==
  \A p \in Dispatchers : \A d \in Deliveries :
    Holds(p, d) /\ d \notin retried => delivery[d] = "processing"

\* A dispatcher about to mark a delivery as dispatched has delivered it.
OutcomeWasDelivered ==
  \A p \in Dispatchers : pc[p] = "delivered" => delivered[cur[p]] > 0

\* Once a sink has accepted an event, its delivery is dispatched or on the way
\* to it, and whoever holds it is about to say so.
AcceptedIsSettled ==
  \A d \in Deliveries : d \notin retried /\ delivered[d] > 0 =>
    /\ delivery[d] \in {"processing", "dispatched"}
    /\ \A p \in Dispatchers : Holds(p, d) => pc[p] = "delivered" /\ cur[p] = d

IInv ==
  /\ TypeOK
  /\ Control
  /\ HeldIsProcessing
  /\ ClaimsAreExclusive
  /\ OutcomeWasDelivered
  /\ DispatchedWasDelivered
  /\ AcceptedIsSettled
  /\ RedeliveryOnlyOnRetry
  /\ DeadLetterIsRecorded

-----------------------------------------------------------------------------
\* A delivery is a pair of an event and a sink.
LEMMA DeliveryPairs ==
  /\ \A d \in Deliveries : d[1] \in Events /\ d[2] \in Sinks
  /\ \A e \in Events, s \in Sinks : <<e, s>> \in Deliveries
  /\ NoDelivery \notin Deliveries
BY DEF Deliveries, NoDelivery

\* Dispatchers and operators are processes, and no process is both.
LEMMA ProcsAre ==
  /\ \A p \in Dispatchers : p \in Procs
  /\ \A o \in Operators : o \in Procs /\ o \notin Dispatchers
BY OutboxAssumption DEF Procs

\* The status a refresh computes is one of the statuses.
LEMMA RollupType == \A e : Rollup(e) \in Statuses
BY DEF Rollup, Statuses

\* The tables are empty and everyone is idle.
LEMMA InitIInv == Init => IInv
<1> SUFFICES ASSUME Init PROVE IInv
  OBVIOUS
<1> USE OutboxAssumption, ProcsAre, DeliveryPairs DEF Init
<1>1. TypeOK
  BY DEF TypeOK, Statuses
<1>2. Control
  BY DEF Control
<1>3. HeldIsProcessing /\ ClaimsAreExclusive
  BY DEF HeldIsProcessing, ClaimsAreExclusive, Holds
<1>4. OutcomeWasDelivered /\ DispatchedWasDelivered /\ RedeliveryOnlyOnRetry
  BY DEF OutcomeWasDelivered, DispatchedWasDelivered, RedeliveryOnlyOnRetry
<1>5. AcceptedIsSettled /\ DeadLetterIsRecorded
  BY DEF AcceptedIsSettled, DeadLetterIsRecorded
<1> QED
  BY <1>1, <1>2, <1>3, <1>4, <1>5 DEF IInv

-----------------------------------------------------------------------------
\* Every step preserves type correctness.
LEMMA TypeStep ==
  TypeOK /\ Control /\ [Next]_vars => TypeOK'
<1> SUFFICES ASSUME TypeOK, Control, [Next]_vars PROVE TypeOK'
  OBVIOUS
<1> USE OutboxAssumption, ProcsAre, DeliveryPairs, RollupType
    DEF TypeOK, Statuses, recordVars, rowVars, procVars, boundVars, histVars,
        Control
<1>1. ASSUME NEW e \in Events, SaveEvent(e) PROVE TypeOK'
  BY <1>1 DEF SaveEvent
<1>2. ASSUME NEW e \in Events, NEW i \in Dispatchers, SaveOutbox(e, i)
      PROVE TypeOK'
  BY <1>2 DEF SaveOutbox
<1>3. ASSUME NEW e \in Events, NEW s \in Sinks, RecordDelivery(e, s)
      PROVE TypeOK'
  BY <1>3 DEF RecordDelivery, SaveDelivery
<1>4. ASSUME NEW e \in Events, RecordFails(e) PROVE TypeOK'
  <2>1. faults' \in 0..MaxFaults
    BY <1>4 DEF RecordFails
  <2>2. CASE /\ recording' = [recording EXCEPT ![e] = "lost"]
             /\ UNCHANGED unsaved
    BY <1>4, <2>1, <2>2 DEF RecordFails
  <2>3. CASE /\ unsaved' = [unsaved EXCEPT ![e] = {}]
             /\ UNCHANGED recording
    BY <1>4, <2>1, <2>3 DEF RecordFails
  <2> QED
    BY <1>4, <2>2, <2>3 DEF RecordFails
<1>5. ASSUME NEW e \in Events, RecordInTx(e) PROVE TypeOK'
  BY <1>5 DEF RecordInTx
<1>6. ASSUME NEW p \in Dispatchers, EnsureRead(p) PROVE TypeOK'
  BY <1>6 DEF EnsureRead, Missing
<1>7. ASSUME NEW p \in Dispatchers, NEW d \in Deliveries, EnsureSave(p, d)
      PROVE TypeOK'
  BY <1>7 DEF EnsureSave, SaveDelivery
<1>8. ASSUME NEW p \in Dispatchers,
             NEW batch \in Batches, ClaimPendingDeliveries(p, batch)
      PROVE TypeOK'
  BY <1>8 DEF ClaimPendingDeliveries, Batches, Pending
<1>9. ASSUME NEW p \in Dispatchers, NEW d \in Deliveries, Deliver(p, d)
      PROVE TypeOK'
  BY <1>9 DEF Deliver, Count
<1>10. ASSUME NEW p \in Dispatchers, NEW d \in Deliveries, DeliverFails(p, d)
      PROVE TypeOK'
  BY <1>10 DEF DeliverFails
<1>11. ASSUME NEW p \in Dispatchers, MarkDeliveryDispatched(p) PROVE TypeOK'
  BY <1>11 DEF MarkDeliveryDispatched
<1>12. ASSUME NEW p \in Dispatchers, ScheduleRetry(p) PROVE TypeOK'
  BY <1>12 DEF ScheduleRetry, MarkDeliveryFailed
<1>13. ASSUME NEW p \in Dispatchers, MoveToDeadLetter(p) PROVE TypeOK'
  BY <1>13 DEF MoveToDeadLetter, MarkDeliveryFailed
<1>14. ASSUME NEW p \in Procs, RefreshRead(p) PROVE TypeOK'
  BY <1>14 DEF RefreshRead
<1>15. ASSUME NEW p \in Procs, RefreshWrite(p) PROVE TypeOK'
  BY <1>15 DEF RefreshWrite, AfterRefresh
<1>16. ASSUME NEW p \in Dispatchers, SaveDeadLetter(p) PROVE TypeOK'
  BY <1>16 DEF SaveDeadLetter
<1>17. ASSUME NEW p \in Dispatchers, DuplicateDeadLetter(p) PROVE TypeOK'
  BY <1>17 DEF DuplicateDeadLetter, Abandon
<1>18. ASSUME NEW o \in Operators, NEW d \in Deliveries, RetryDelivery(o, d)
      PROVE TypeOK'
  BY <1>18 DEF RetryDelivery, Retry
<1>19. ASSUME NEW o \in Operators, NEW e \in Events, RetryOutbox(o, e)
      PROVE TypeOK'
  BY <1>19 DEF RetryOutbox, Retry, Present
<1>20. ASSUME NEW o \in Operators, NEW d \in Deliveries, RetryMark(o, d)
      PROVE TypeOK'
  BY <1>20 DEF RetryMark, MarkDeliveryFailed
<1>21. ASSUME NEW p \in Procs, RefreshSkipped(p) PROVE TypeOK'
  BY <1>21 DEF RefreshSkipped, AfterRefresh
<1>22. ASSUME NEW p \in Procs, Fail(p) PROVE TypeOK'
  BY <1>22 DEF Fail, Abandon
<1>23. CASE UNCHANGED vars
  BY <1>23 DEF vars
<1> QED
  BY <1>1, <1>2, <1>3, <1>4, <1>5, <1>6, <1>7, <1>8, <1>9, <1>10, <1>11,
     <1>12, <1>13, <1>14, <1>15, <1>16, <1>17, <1>18, <1>19, <1>20, <1>21,
     <1>22, <1>23
     DEF Next, RecordStep, DispatchStep, OperatorStep, RefreshStep

\* Every step keeps the local variables of a process in agreement with its
\* program counter.
LEMMA ControlStep ==
  TypeOK /\ Control /\ [Next]_vars => Control'
<1> SUFFICES ASSUME TypeOK, Control, TypeOK', [Next]_vars
             PROVE Control'
  BY TypeStep
<1> USE OutboxAssumption, ProcsAre, DeliveryPairs
    DEF TypeOK, Control, recordVars, rowVars, procVars, boundVars, histVars
<1>1. ASSUME NEW e \in Events, SaveEvent(e) PROVE Control'
  BY <1>1 DEF SaveEvent
<1>2. ASSUME NEW e \in Events, NEW i \in Dispatchers, SaveOutbox(e, i)
      PROVE Control'
  BY <1>2 DEF SaveOutbox
<1>3. ASSUME NEW e \in Events, NEW s \in Sinks, RecordDelivery(e, s)
      PROVE Control'
  BY <1>3 DEF RecordDelivery, SaveDelivery
<1>4. ASSUME NEW e \in Events, RecordFails(e) PROVE Control'
  BY <1>4 DEF RecordFails
<1>5. ASSUME NEW e \in Events, RecordInTx(e) PROVE Control'
  BY <1>5 DEF RecordInTx
<1>6. ASSUME NEW p \in Dispatchers, EnsureRead(p) PROVE Control'
  BY <1>6 DEF EnsureRead, Missing
<1>7. ASSUME NEW p \in Dispatchers, NEW d \in Deliveries, EnsureSave(p, d)
      PROVE Control'
  BY <1>7 DEF EnsureSave, SaveDelivery
<1>8. ASSUME NEW p \in Dispatchers,
             NEW batch \in Batches, ClaimPendingDeliveries(p, batch)
      PROVE Control'
  BY <1>8 DEF ClaimPendingDeliveries, Batches, Pending
<1>9. ASSUME NEW p \in Dispatchers, NEW d \in Deliveries, Deliver(p, d)
      PROVE Control'
  BY <1>9 DEF Deliver, Count
<1>10. ASSUME NEW p \in Dispatchers, NEW d \in Deliveries, DeliverFails(p, d)
      PROVE Control'
  BY <1>10 DEF DeliverFails
<1>11. ASSUME NEW p \in Dispatchers, MarkDeliveryDispatched(p) PROVE Control'
  BY <1>11 DEF MarkDeliveryDispatched
<1>12. ASSUME NEW p \in Dispatchers, ScheduleRetry(p) PROVE Control'
  BY <1>12 DEF ScheduleRetry, MarkDeliveryFailed
<1>13. ASSUME NEW p \in Dispatchers, MoveToDeadLetter(p) PROVE Control'
  BY <1>13 DEF MoveToDeadLetter, MarkDeliveryFailed
<1>14. ASSUME NEW p \in Procs, RefreshRead(p) PROVE Control'
  BY <1>14 DEF RefreshRead
<1>15. ASSUME NEW p \in Procs, RefreshWrite(p) PROVE Control'
  BY <1>15 DEF RefreshWrite, AfterRefresh
<1>16. ASSUME NEW p \in Dispatchers, SaveDeadLetter(p) PROVE Control'
  BY <1>16 DEF SaveDeadLetter
<1>17. ASSUME NEW p \in Dispatchers, DuplicateDeadLetter(p) PROVE Control'
  BY <1>17 DEF DuplicateDeadLetter, Abandon
<1>18. ASSUME NEW o \in Operators, NEW d \in Deliveries, RetryDelivery(o, d)
      PROVE Control'
  BY <1>18 DEF RetryDelivery, Retry
<1>19. ASSUME NEW o \in Operators, NEW e \in Events, RetryOutbox(o, e)
      PROVE Control'
  BY <1>19 DEF RetryOutbox, Retry, Present
<1>20. ASSUME NEW o \in Operators, NEW d \in Deliveries, RetryMark(o, d)
      PROVE Control'
  BY <1>20 DEF RetryMark, MarkDeliveryFailed
<1>21. ASSUME NEW p \in Procs, RefreshSkipped(p) PROVE Control'
  BY <1>21 DEF RefreshSkipped, AfterRefresh
<1>22. ASSUME NEW p \in Procs, Fail(p) PROVE Control'
  BY <1>22 DEF Fail, Abandon
<1>23. CASE UNCHANGED vars
  BY <1>23 DEF vars
<1> QED
  BY <1>1, <1>2, <1>3, <1>4, <1>5, <1>6, <1>7, <1>8, <1>9, <1>10, <1>11,
     <1>12, <1>13, <1>14, <1>15, <1>16, <1>17, <1>18, <1>19, <1>20, <1>21,
     <1>22, <1>23
     DEF Next, RecordStep, DispatchStep, OperatorStep, RefreshStep

\* Nobody but an operator touches a delivery that a dispatcher holds: every
\* other write needs it to be absent or pending, or to be held by the writer.
LEMMA HeldStep ==
  TypeOK /\ Control /\ HeldIsProcessing
    /\ ClaimsAreExclusive /\ [Next]_vars => HeldIsProcessing'
<1> SUFFICES ASSUME TypeOK, Control, HeldIsProcessing, ClaimsAreExclusive,
                    TypeOK', [Next]_vars
             PROVE HeldIsProcessing'
  BY TypeStep
<1> USE OutboxAssumption, ProcsAre, DeliveryPairs
    DEF TypeOK, Control, HeldIsProcessing, ClaimsAreExclusive, Holds,
        recordVars, rowVars, procVars, boundVars, histVars
<1>1. ASSUME NEW e \in Events, NEW s \in Sinks, RecordDelivery(e, s)
      PROVE HeldIsProcessing'
  <2>1. PICK x \in Deliveries : SaveDelivery(x)
    BY <1>1 DEF RecordDelivery
  <2>2. UNCHANGED <<dead, pc, todo, snap, cur, faults, delivered, retried>>
    BY <1>1 DEF RecordDelivery
  <2> QED
    BY <2>1, <2>2 DEF SaveDelivery
<1>2. ASSUME NEW p \in Dispatchers, EnsureRead(p) PROVE HeldIsProcessing'
  BY <1>2 DEF EnsureRead, Missing
<1>3. ASSUME NEW p \in Dispatchers, NEW d \in Deliveries, EnsureSave(p, d)
      PROVE HeldIsProcessing'
  BY <1>3 DEF EnsureSave, SaveDelivery
<1>4. ASSUME NEW p \in Dispatchers,
             NEW batch \in Batches, ClaimPendingDeliveries(p, batch)
      PROVE HeldIsProcessing'
  BY <1>4 DEF ClaimPendingDeliveries, Batches, Pending
<1>5. ASSUME NEW p \in Dispatchers, NEW d \in Deliveries, Deliver(p, d)
      PROVE HeldIsProcessing'
  BY <1>5 DEF Deliver, Count
<1>6. ASSUME NEW p \in Dispatchers, NEW d \in Deliveries, DeliverFails(p, d)
      PROVE HeldIsProcessing'
  BY <1>6 DEF DeliverFails
<1>7. ASSUME NEW p \in Dispatchers, MarkDeliveryDispatched(p)
      PROVE HeldIsProcessing'
  BY <1>7 DEF MarkDeliveryDispatched
<1>8. ASSUME NEW p \in Dispatchers, ScheduleRetry(p) PROVE HeldIsProcessing'
  BY <1>8 DEF ScheduleRetry, MarkDeliveryFailed
<1>9. ASSUME NEW p \in Dispatchers, MoveToDeadLetter(p)
      PROVE HeldIsProcessing'
  BY <1>9 DEF MoveToDeadLetter, MarkDeliveryFailed
<1>10. ASSUME NEW p \in Procs, RefreshRead(p) PROVE HeldIsProcessing'
  BY <1>10 DEF RefreshRead
<1>11. ASSUME NEW p \in Procs, RefreshWrite(p) PROVE HeldIsProcessing'
  BY <1>11 DEF RefreshWrite, AfterRefresh
<1>12. ASSUME NEW p \in Dispatchers, SaveDeadLetter(p) PROVE HeldIsProcessing'
  BY <1>12 DEF SaveDeadLetter
<1>13. ASSUME NEW p \in Dispatchers, DuplicateDeadLetter(p)
      PROVE HeldIsProcessing'
  BY <1>13 DEF DuplicateDeadLetter, Abandon
<1>14. ASSUME NEW o \in Operators, NEW d \in Deliveries, RetryDelivery(o, d)
      PROVE HeldIsProcessing'
  BY <1>14 DEF RetryDelivery, Retry
<1>15. ASSUME NEW o \in Operators, NEW e \in Events, RetryOutbox(o, e)
      PROVE HeldIsProcessing'
  BY <1>15 DEF RetryOutbox, Retry, Present
<1>16. ASSUME NEW o \in Operators, NEW d \in Deliveries, RetryMark(o, d)
      PROVE HeldIsProcessing'
  BY <1>16 DEF RetryMark, MarkDeliveryFailed
<1>17. ASSUME NEW p \in Procs, RefreshSkipped(p) PROVE HeldIsProcessing'
  BY <1>17 DEF RefreshSkipped, AfterRefresh
<1>18. ASSUME NEW p \in Procs, Fail(p) PROVE HeldIsProcessing'
  BY <1>18 DEF Fail, Abandon
<1>19. CASE UNCHANGED <<delivery, pc, todo, cur, retried>>
  BY <1>19
<1> QED
  BY <1>1, <1>2, <1>3, <1>4, <1>5, <1>6, <1>7, <1>8, <1>9, <1>10, <1>11,
     <1>12, <1>13, <1>14, <1>15, <1>16, <1>17, <1>18, <1>19
     DEF Next, RecordStep, DispatchStep, OperatorStep, RefreshStep, vars,
         SaveEvent, SaveOutbox, RecordFails, RecordInTx

\* A claim takes pending deliveries only, and those nobody holds.
LEMMA ExclusiveStep ==
  TypeOK /\ Control /\ HeldIsProcessing
    /\ ClaimsAreExclusive /\ [Next]_vars => ClaimsAreExclusive'
<1> SUFFICES ASSUME TypeOK, Control, HeldIsProcessing, ClaimsAreExclusive,
                    TypeOK', [Next]_vars
             PROVE ClaimsAreExclusive'
  BY TypeStep
<1> USE OutboxAssumption, ProcsAre, DeliveryPairs
    DEF TypeOK, Control, HeldIsProcessing, ClaimsAreExclusive, Holds,
        recordVars, rowVars, procVars, boundVars, histVars
<1>1. ASSUME NEW p \in Dispatchers, EnsureRead(p) PROVE ClaimsAreExclusive'
  BY <1>1 DEF EnsureRead, Missing
<1>2. ASSUME NEW p \in Dispatchers, NEW d \in Deliveries, EnsureSave(p, d)
      PROVE ClaimsAreExclusive'
  BY <1>2 DEF EnsureSave, SaveDelivery
<1>3. ASSUME NEW p \in Dispatchers,
             NEW batch \in Batches, ClaimPendingDeliveries(p, batch)
      PROVE ClaimsAreExclusive'
  BY <1>3 DEF ClaimPendingDeliveries, Batches, Pending
<1>4. ASSUME NEW p \in Dispatchers, NEW d \in Deliveries, Deliver(p, d)
      PROVE ClaimsAreExclusive'
  BY <1>4 DEF Deliver, Count
<1>5. ASSUME NEW p \in Dispatchers, NEW d \in Deliveries, DeliverFails(p, d)
      PROVE ClaimsAreExclusive'
  BY <1>5 DEF DeliverFails
<1>6. ASSUME NEW p \in Dispatchers, MarkDeliveryDispatched(p)
      PROVE ClaimsAreExclusive'
  BY <1>6 DEF MarkDeliveryDispatched
<1>7. ASSUME NEW p \in Dispatchers, ScheduleRetry(p) PROVE ClaimsAreExclusive'
  BY <1>7 DEF ScheduleRetry, MarkDeliveryFailed
<1>8. ASSUME NEW p \in Dispatchers, MoveToDeadLetter(p)
      PROVE ClaimsAreExclusive'
  BY <1>8 DEF MoveToDeadLetter, MarkDeliveryFailed
<1>9. ASSUME NEW p \in Procs, RefreshRead(p) PROVE ClaimsAreExclusive'
  BY <1>9 DEF RefreshRead
<1>10. ASSUME NEW p \in Procs, RefreshWrite(p) PROVE ClaimsAreExclusive'
  BY <1>10 DEF RefreshWrite, AfterRefresh
<1>11. ASSUME NEW p \in Dispatchers, SaveDeadLetter(p)
      PROVE ClaimsAreExclusive'
  BY <1>11 DEF SaveDeadLetter
<1>12. ASSUME NEW p \in Dispatchers, DuplicateDeadLetter(p)
      PROVE ClaimsAreExclusive'
  BY <1>12 DEF DuplicateDeadLetter, Abandon
<1>13. ASSUME NEW o \in Operators, NEW d \in Deliveries, RetryDelivery(o, d)
      PROVE ClaimsAreExclusive'
  BY <1>13 DEF RetryDelivery, Retry
<1>14. ASSUME NEW o \in Operators, NEW e \in Events, RetryOutbox(o, e)
      PROVE ClaimsAreExclusive'
  BY <1>14 DEF RetryOutbox, Retry, Present
<1>15. ASSUME NEW o \in Operators, NEW d \in Deliveries, RetryMark(o, d)
      PROVE ClaimsAreExclusive'
  BY <1>15 DEF RetryMark, MarkDeliveryFailed
<1>16. ASSUME NEW p \in Procs, RefreshSkipped(p) PROVE ClaimsAreExclusive'
  BY <1>16 DEF RefreshSkipped, AfterRefresh
<1>17. ASSUME NEW p \in Procs, Fail(p) PROVE ClaimsAreExclusive'
  BY <1>17 DEF Fail, Abandon
<1>18. CASE UNCHANGED <<pc, todo, cur, retried>>
  BY <1>18
<1> QED
  BY <1>1, <1>2, <1>3, <1>4, <1>5, <1>6, <1>7, <1>8, <1>9, <1>10, <1>11,
     <1>12, <1>13, <1>14, <1>15, <1>16, <1>17, <1>18
     DEF Next, RecordStep, DispatchStep, OperatorStep, RefreshStep, vars,
         SaveEvent, SaveOutbox, RecordDelivery, RecordFails, RecordInTx,
         SaveDelivery

\* The outcome in hand is the one of the last Deliver call.
LEMMA OutcomeStep ==
  TypeOK /\ Control
    /\ OutcomeWasDelivered /\ [Next]_vars => OutcomeWasDelivered'
<1> SUFFICES ASSUME TypeOK, Control, OutcomeWasDelivered, TypeOK', [Next]_vars
             PROVE OutcomeWasDelivered'
  BY TypeStep
<1> USE OutboxAssumption, ProcsAre, DeliveryPairs
    DEF TypeOK, Control, OutcomeWasDelivered, recordVars, rowVars, procVars,
        boundVars, histVars
<1>1. ASSUME NEW p \in Dispatchers, EnsureRead(p) PROVE OutcomeWasDelivered'
  BY <1>1 DEF EnsureRead, Missing
<1>2. ASSUME NEW p \in Dispatchers, NEW d \in Deliveries, EnsureSave(p, d)
      PROVE OutcomeWasDelivered'
  BY <1>2 DEF EnsureSave, SaveDelivery
<1>3. ASSUME NEW p \in Dispatchers,
             NEW batch \in Batches, ClaimPendingDeliveries(p, batch)
      PROVE OutcomeWasDelivered'
  BY <1>3 DEF ClaimPendingDeliveries, Batches, Pending
<1>4. ASSUME NEW p \in Dispatchers, NEW d \in Deliveries, Deliver(p, d)
      PROVE OutcomeWasDelivered'
  BY <1>4 DEF Deliver, Count
<1>5. ASSUME NEW p \in Dispatchers, NEW d \in Deliveries, DeliverFails(p, d)
      PROVE OutcomeWasDelivered'
  BY <1>5 DEF DeliverFails
<1>6. ASSUME NEW p \in Dispatchers, MarkDeliveryDispatched(p)
      PROVE OutcomeWasDelivered'
  BY <1>6 DEF MarkDeliveryDispatched
<1>7. ASSUME NEW p \in Dispatchers, ScheduleRetry(p)
      PROVE OutcomeWasDelivered'
  BY <1>7 DEF ScheduleRetry, MarkDeliveryFailed
<1>8. ASSUME NEW p \in Dispatchers, MoveToDeadLetter(p)
      PROVE OutcomeWasDelivered'
  BY <1>8 DEF MoveToDeadLetter, MarkDeliveryFailed
<1>9. ASSUME NEW p \in Procs, RefreshRead(p) PROVE OutcomeWasDelivered'
  BY <1>9 DEF RefreshRead
<1>10. ASSUME NEW p \in Procs, RefreshWrite(p) PROVE OutcomeWasDelivered'
  BY <1>10 DEF RefreshWrite, AfterRefresh
<1>11. ASSUME NEW p \in Dispatchers, SaveDeadLetter(p)
      PROVE OutcomeWasDelivered'
  BY <1>11 DEF SaveDeadLetter
<1>12. ASSUME NEW p \in Dispatchers, DuplicateDeadLetter(p)
      PROVE OutcomeWasDelivered'
  BY <1>12 DEF DuplicateDeadLetter, Abandon
<1>13. ASSUME NEW o \in Operators, NEW d \in Deliveries, RetryDelivery(o, d)
      PROVE OutcomeWasDelivered'
  BY <1>13 DEF RetryDelivery, Retry
<1>14. ASSUME NEW o \in Operators, NEW e \in Events, RetryOutbox(o, e)
      PROVE OutcomeWasDelivered'
  BY <1>14 DEF RetryOutbox, Retry, Present
<1>15. ASSUME NEW o \in Operators, NEW d \in Deliveries, RetryMark(o, d)
      PROVE OutcomeWasDelivered'
  BY <1>15 DEF RetryMark, MarkDeliveryFailed
<1>16. ASSUME NEW p \in Procs, RefreshSkipped(p) PROVE OutcomeWasDelivered'
  BY <1>16 DEF RefreshSkipped, AfterRefresh
<1>17. ASSUME NEW p \in Procs, Fail(p) PROVE OutcomeWasDelivered'
  BY <1>17 DEF Fail, Abandon
<1>18. CASE UNCHANGED <<pc, cur, delivered>>
  BY <1>18
<1> QED
  BY <1>1, <1>2, <1>3, <1>4, <1>5, <1>6, <1>7, <1>8, <1>9, <1>10, <1>11,
     <1>12, <1>13, <1>14, <1>15, <1>16, <1>17, <1>18
     DEF Next, RecordStep, DispatchStep, OperatorStep, RefreshStep, vars,
         SaveEvent, SaveOutbox, RecordDelivery, RecordFails, RecordInTx,
         SaveDelivery

\* Only a dispatcher that has delivered it marks a delivery as dispatched.
LEMMA DispatchedStep ==
  TypeOK /\ Control /\ OutcomeWasDelivered
    /\ DispatchedWasDelivered /\ [Next]_vars => DispatchedWasDelivered'
<1> SUFFICES ASSUME TypeOK, Control, OutcomeWasDelivered,
                    DispatchedWasDelivered, TypeOK', [Next]_vars
             PROVE DispatchedWasDelivered'
  BY TypeStep
<1> USE OutboxAssumption, ProcsAre, DeliveryPairs
    DEF TypeOK, Control, OutcomeWasDelivered, DispatchedWasDelivered,
        recordVars, rowVars, procVars, boundVars, histVars
<1>1. ASSUME NEW e \in Events, NEW s \in Sinks, RecordDelivery(e, s)
      PROVE DispatchedWasDelivered'
  BY <1>1 DEF RecordDelivery, SaveDelivery
<1>2. ASSUME NEW p \in Dispatchers, NEW d \in Deliveries, EnsureSave(p, d)
      PROVE DispatchedWasDelivered'
  BY <1>2 DEF EnsureSave, SaveDelivery
<1>3. ASSUME NEW p \in Dispatchers,
             NEW batch \in Batches, ClaimPendingDeliveries(p, batch)
      PROVE DispatchedWasDelivered'
  BY <1>3 DEF ClaimPendingDeliveries, Batches, Pending
<1>4. ASSUME NEW p \in Dispatchers, NEW d \in Deliveries, Deliver(p, d)
      PROVE DispatchedWasDelivered'
  BY <1>4 DEF Deliver, Count
<1>5. ASSUME NEW p \in Dispatchers, MarkDeliveryDispatched(p)
      PROVE DispatchedWasDelivered'
  BY <1>5 DEF MarkDeliveryDispatched
<1>6. ASSUME NEW p \in Dispatchers, ScheduleRetry(p)
      PROVE DispatchedWasDelivered'
  BY <1>6 DEF ScheduleRetry, MarkDeliveryFailed
<1>7. ASSUME NEW p \in Dispatchers, MoveToDeadLetter(p)
      PROVE DispatchedWasDelivered'
  BY <1>7 DEF MoveToDeadLetter, MarkDeliveryFailed
<1>8. ASSUME NEW o \in Operators, NEW d \in Deliveries, RetryMark(o, d)
      PROVE DispatchedWasDelivered'
  BY <1>8 DEF RetryMark, MarkDeliveryFailed
<1>9. CASE UNCHANGED <<delivery, delivered>>
  BY <1>9
<1> QED
  BY <1>1, <1>2, <1>3, <1>4, <1>5, <1>6, <1>7, <1>8, <1>9
     DEF Next, RecordStep, DispatchStep, OperatorStep, RefreshStep, vars,
         SaveEvent, SaveOutbox, RecordFails, RecordInTx, EnsureRead,
         DeliverFails, RefreshRead, RefreshWrite, SaveDeadLetter,
         DuplicateDeadLetter, RetryDelivery, RetryOutbox, RefreshSkipped,
         Fail, Abandon, Retry

\* An accepted delivery is neither pending nor held by anyone who might
\* deliver it again.
LEMMA AcceptedStep ==
  TypeOK /\ Control /\ HeldIsProcessing /\ ClaimsAreExclusive
    /\ AcceptedIsSettled /\ [Next]_vars => AcceptedIsSettled'
<1> SUFFICES ASSUME TypeOK, Control, HeldIsProcessing, ClaimsAreExclusive,
                    AcceptedIsSettled, TypeOK', [Next]_vars
             PROVE AcceptedIsSettled'
  BY TypeStep
<1> USE OutboxAssumption, ProcsAre, DeliveryPairs
    DEF TypeOK, Control, HeldIsProcessing, ClaimsAreExclusive,
        AcceptedIsSettled, Holds, recordVars, rowVars, procVars, boundVars,
        histVars
<1>1. ASSUME NEW e \in Events, NEW s \in Sinks, RecordDelivery(e, s)
      PROVE AcceptedIsSettled'
  <2>1. PICK x \in Deliveries : SaveDelivery(x)
    BY <1>1 DEF RecordDelivery
  <2>2. UNCHANGED <<dead, pc, todo, snap, cur, faults, delivered, retried>>
    BY <1>1 DEF RecordDelivery
  <2> QED
    BY <2>1, <2>2 DEF SaveDelivery
<1>2. ASSUME NEW p \in Dispatchers, EnsureRead(p) PROVE AcceptedIsSettled'
  BY <1>2 DEF EnsureRead, Missing
<1>3. ASSUME NEW p \in Dispatchers, NEW d \in Deliveries, EnsureSave(p, d)
      PROVE AcceptedIsSettled'
  BY <1>3 DEF EnsureSave, SaveDelivery
<1>4. ASSUME NEW p \in Dispatchers,
             NEW batch \in Batches, ClaimPendingDeliveries(p, batch)
      PROVE AcceptedIsSettled'
  BY <1>4 DEF ClaimPendingDeliveries, Batches, Pending
<1>5. ASSUME NEW p \in Dispatchers, NEW d \in Deliveries, Deliver(p, d)
      PROVE AcceptedIsSettled'
  BY <1>5 DEF Deliver, Count
<1>6. ASSUME NEW p \in Dispatchers, NEW d \in Deliveries, DeliverFails(p, d)
      PROVE AcceptedIsSettled'
  BY <1>6 DEF DeliverFails
<1>7. ASSUME NEW p \in Dispatchers, MarkDeliveryDispatched(p)
      PROVE AcceptedIsSettled'
  BY <1>7 DEF MarkDeliveryDispatched
<1>8. ASSUME NEW p \in Dispatchers, ScheduleRetry(p) PROVE AcceptedIsSettled'
  BY <1>8 DEF ScheduleRetry, MarkDeliveryFailed
<1>9. ASSUME NEW p \in Dispatchers, MoveToDeadLetter(p)
      PROVE AcceptedIsSettled'
  BY <1>9 DEF MoveToDeadLetter, MarkDeliveryFailed
<1>10. ASSUME NEW p \in Procs, RefreshRead(p) PROVE AcceptedIsSettled'
  BY <1>10 DEF RefreshRead
<1>11. ASSUME NEW p \in Procs, RefreshWrite(p) PROVE AcceptedIsSettled'
  BY <1>11 DEF RefreshWrite, AfterRefresh
<1>12. ASSUME NEW p \in Dispatchers, SaveDeadLetter(p)
      PROVE AcceptedIsSettled'
  BY <1>12 DEF SaveDeadLetter
<1>13. ASSUME NEW p \in Dispatchers, DuplicateDeadLetter(p)
      PROVE AcceptedIsSettled'
  BY <1>13 DEF DuplicateDeadLetter, Abandon
<1>14. ASSUME NEW o \in Operators, NEW d \in Deliveries, RetryDelivery(o, d)
      PROVE AcceptedIsSettled'
  BY <1>14 DEF RetryDelivery, Retry
<1>15. ASSUME NEW o \in Operators, NEW e \in Events, RetryOutbox(o, e)
      PROVE AcceptedIsSettled'
  BY <1>15 DEF RetryOutbox, Retry, Present
<1>16. ASSUME NEW o \in Operators, NEW d \in Deliveries, RetryMark(o, d)
      PROVE AcceptedIsSettled'
  BY <1>16 DEF RetryMark, MarkDeliveryFailed
<1>17. ASSUME NEW p \in Procs, RefreshSkipped(p) PROVE AcceptedIsSettled'
  BY <1>17 DEF RefreshSkipped, AfterRefresh
<1>18. ASSUME NEW p \in Procs, Fail(p) PROVE AcceptedIsSettled'
  BY <1>18 DEF Fail, Abandon
<1>19. CASE UNCHANGED <<delivery, delivered, pc, todo, cur, retried>>
  BY <1>19
<1> QED
  BY <1>1, <1>2, <1>3, <1>4, <1>5, <1>6, <1>7, <1>8, <1>9, <1>10, <1>11,
     <1>12, <1>13, <1>14, <1>15, <1>16, <1>17, <1>18, <1>19
     DEF Next, RecordStep, DispatchStep, OperatorStep, RefreshStep, vars,
         SaveEvent, SaveOutbox, RecordFails, RecordInTx

\* Deliver is never called for an accepted delivery that no operator touched.
LEMMA RedeliveryStep ==
  TypeOK /\ Control /\ AcceptedIsSettled
    /\ RedeliveryOnlyOnRetry /\ [Next]_vars => RedeliveryOnlyOnRetry'
<1> SUFFICES ASSUME TypeOK, Control, AcceptedIsSettled, RedeliveryOnlyOnRetry,
                    TypeOK', [Next]_vars
             PROVE RedeliveryOnlyOnRetry'
  BY TypeStep
<1> USE OutboxAssumption, ProcsAre, DeliveryPairs
    DEF TypeOK, AcceptedIsSettled, RedeliveryOnlyOnRetry, Holds, recordVars,
        rowVars, procVars, boundVars, histVars
<1>1. ASSUME NEW p \in Dispatchers, NEW d \in Deliveries, Deliver(p, d)
      PROVE RedeliveryOnlyOnRetry'
  <2>1. d \notin retried => delivered[d] = 0
    <3>1. Holds(p, d) /\ pc[p] # "delivered"
      BY <1>1 DEF Deliver
    <3>2. d \notin retried => ~(delivered[d] > 0)
      BY <3>1
    <3>3. delivered[d] \in 0..2
      OBVIOUS
    <3> QED
      BY <3>2, <3>3
  <2>2. \A c \in Deliveries : c # d => delivered'[c] = delivered[c]
    BY <1>1 DEF Deliver
  <2>3. d \notin retried => delivered'[d] = 1
    BY <1>1, <2>1 DEF Deliver, Count
  <2> QED
    BY <1>1, <2>2, <2>3 DEF Deliver
<1>2. ASSUME NEW o \in Operators, NEW d \in Deliveries, RetryMark(o, d)
      PROVE RedeliveryOnlyOnRetry'
  BY <1>2 DEF RetryMark, MarkDeliveryFailed
<1>3. CASE UNCHANGED <<delivered, retried>>
  BY <1>3
<1> QED
  BY <1>1, <1>2, <1>3, ZenonT(40)
     DEF Next, RecordStep, DispatchStep, OperatorStep, RefreshStep, vars,
         SaveEvent, SaveOutbox, RecordDelivery, RecordFails, RecordInTx,
         EnsureRead, EnsureSave, ClaimPendingDeliveries, DeliverFails,
         MarkDeliveryDispatched, ScheduleRetry, MoveToDeadLetter, RefreshRead,
         RefreshWrite, SaveDeadLetter, DuplicateDeadLetter, RetryDelivery,
         RetryOutbox, RefreshSkipped, Fail, Abandon, MarkDeliveryFailed,
         Retry, SaveDelivery

\* The dispatcher that moves a delivery to dead_letter keeps it in hand until
\* the dead-letter record is there.
LEMMA DeadLetterStep ==
  TypeOK /\ Control
    /\ DeadLetterIsRecorded /\ [Next]_vars => DeadLetterIsRecorded'
<1> SUFFICES ASSUME TypeOK, Control, DeadLetterIsRecorded, TypeOK',
                    [Next]_vars
             PROVE DeadLetterIsRecorded'
  BY TypeStep
<1> USE OutboxAssumption, ProcsAre, DeliveryPairs
    DEF TypeOK, Control, DeadLetterIsRecorded, recordVars, rowVars, procVars,
        boundVars, histVars
<1>1. ASSUME NEW e \in Events, NEW s \in Sinks, RecordDelivery(e, s)
      PROVE DeadLetterIsRecorded'
  <2>1. PICK x \in Deliveries : SaveDelivery(x)
    BY <1>1 DEF RecordDelivery
  <2>2. UNCHANGED <<dead, pc, todo, snap, cur, faults, delivered, retried>>
    BY <1>1 DEF RecordDelivery
  <2> QED
    BY <2>1, <2>2 DEF SaveDelivery
<1>2. ASSUME NEW p \in Dispatchers, EnsureRead(p) PROVE DeadLetterIsRecorded'
  BY <1>2 DEF EnsureRead, Missing
<1>3. ASSUME NEW p \in Dispatchers, NEW d \in Deliveries, EnsureSave(p, d)
      PROVE DeadLetterIsRecorded'
  BY <1>3 DEF EnsureSave, SaveDelivery
<1>4. ASSUME NEW p \in Dispatchers,
             NEW batch \in Batches, ClaimPendingDeliveries(p, batch)
      PROVE DeadLetterIsRecorded'
  BY <1>4 DEF ClaimPendingDeliveries, Batches, Pending
<1>5. ASSUME NEW p \in Dispatchers, NEW d \in Deliveries, Deliver(p, d)
      PROVE DeadLetterIsRecorded'
  BY <1>5 DEF Deliver, Count
<1>6. ASSUME NEW p \in Dispatchers, NEW d \in Deliveries, DeliverFails(p, d)
      PROVE DeadLetterIsRecorded'
  BY <1>6 DEF DeliverFails
<1>7. ASSUME NEW p \in Dispatchers, MarkDeliveryDispatched(p)
      PROVE DeadLetterIsRecorded'
  BY <1>7 DEF MarkDeliveryDispatched
<1>8. ASSUME NEW p \in Dispatchers, ScheduleRetry(p)
      PROVE DeadLetterIsRecorded'
  BY <1>8 DEF ScheduleRetry, MarkDeliveryFailed
<1>9. ASSUME NEW p \in Dispatchers, MoveToDeadLetter(p)
      PROVE DeadLetterIsRecorded'
  BY <1>9 DEF MoveToDeadLetter, MarkDeliveryFailed
<1>10. ASSUME NEW p \in Procs, RefreshRead(p) PROVE DeadLetterIsRecorded'
  BY <1>10 DEF RefreshRead
<1>11. ASSUME NEW p \in Procs, RefreshWrite(p) PROVE DeadLetterIsRecorded'
  BY <1>11 DEF RefreshWrite, AfterRefresh
<1>12. ASSUME NEW p \in Dispatchers, SaveDeadLetter(p)
      PROVE DeadLetterIsRecorded'
  BY <1>12 DEF SaveDeadLetter
<1>13. ASSUME NEW p \in Dispatchers, DuplicateDeadLetter(p)
      PROVE DeadLetterIsRecorded'
  <2> SUFFICES ASSUME NEW d \in Deliveries, faults = 0,
                      delivery[d] = "dead_letter"
               PROVE  \/ <<d, attempts[d]>> \in dead
                      \/ \E q \in Dispatchers \ {p} :
                           /\ pc[q] \in {"refresh", "computed", "bury"}
                           /\ cur[q] = d /\ snap[q][d] = attempts[d]
    BY <1>13 DEF DuplicateDeadLetter, Abandon
  <2>1. CASE cur[p] = d /\ snap[p][d] = attempts[d]
    BY <1>13, <2>1 DEF DuplicateDeadLetter
  <2>2. CASE ~(cur[p] = d /\ snap[p][d] = attempts[d])
    BY <2>2
  <2> QED
    BY <2>1, <2>2
<1>14. ASSUME NEW o \in Operators, NEW d \in Deliveries, RetryDelivery(o, d)
      PROVE DeadLetterIsRecorded'
  BY <1>14 DEF RetryDelivery, Retry
<1>15. ASSUME NEW o \in Operators, NEW e \in Events, RetryOutbox(o, e)
      PROVE DeadLetterIsRecorded'
  BY <1>15 DEF RetryOutbox, Retry, Present
<1>16. ASSUME NEW o \in Operators, NEW d \in Deliveries, RetryMark(o, d)
      PROVE DeadLetterIsRecorded'
  BY <1>16 DEF RetryMark, MarkDeliveryFailed
<1>17. ASSUME NEW p \in Procs, RefreshSkipped(p) PROVE DeadLetterIsRecorded'
  BY <1>17 DEF RefreshSkipped, AfterRefresh
<1>18. ASSUME NEW p \in Procs, Fail(p) PROVE DeadLetterIsRecorded'
  BY <1>18 DEF Fail, Abandon
<1>19. CASE UNCHANGED <<delivery, attempts, dead, pc, cur, snap, faults>>
  BY <1>19
<1> QED
  BY <1>1, <1>2, <1>3, <1>4, <1>5, <1>6, <1>7, <1>8, <1>9, <1>10, <1>11,
     <1>12, <1>13, <1>14, <1>15, <1>16, <1>17, <1>18, <1>19
     DEF Next, RecordStep, DispatchStep, OperatorStep, RefreshStep, vars,
         SaveEvent, SaveOutbox, RecordFails, RecordInTx

-----------------------------------------------------------------------------
\* The inductive invariant holds in every reachable state.
THEOREM Invariance == Spec => []IInv
<1>1. IInv /\ [Next]_vars => IInv'
  <2> SUFFICES ASSUME IInv, [Next]_vars PROVE IInv'
    OBVIOUS
  <2>1. TypeOK' /\ Control'
    BY TypeStep, ControlStep DEF IInv
  <2>2. HeldIsProcessing' /\ ClaimsAreExclusive'
    BY HeldStep, ExclusiveStep DEF IInv
  <2>3. OutcomeWasDelivered' /\ DispatchedWasDelivered'
    BY OutcomeStep, DispatchedStep DEF IInv
  <2>4. AcceptedIsSettled' /\ RedeliveryOnlyOnRetry' /\ DeadLetterIsRecorded'
    BY AcceptedStep, RedeliveryStep, DeadLetterStep DEF IInv
  <2> QED
    BY <2>1, <2>2, <2>3, <2>4 DEF IInv
<1> QED
  BY <1>1, InitIInv, PTL DEF Spec

\* Type correctness of the tables and of the local state of every dispatcher
\* and operator.
THEOREM TypeCorrect == Spec => []TypeOK
<1>1. IInv => TypeOK
  BY DEF IInv
<1> QED
  BY <1>1, Invariance, PTL

\* The claim statement hands a delivery to one dispatcher, unless an operator
\* retries it in the meantime.
THEOREM ExclusiveClaims == Spec => []ClaimsAreExclusive
<1>1. IInv => ClaimsAreExclusive
  BY DEF IInv
<1> QED
  BY <1>1, Invariance, PTL

\* A delivery marked dispatched has been accepted by its sink.
THEOREM DispatchesDelivered == Spec => []DispatchedWasDelivered
<1>1. IInv => DispatchedWasDelivered
  BY DEF IInv
<1> QED
  BY <1>1, Invariance, PTL

\* At most one successful Deliver call per delivery without operator retries,
\* through any number of crashes and failed statements.
THEOREM AtMostOnceWithoutRetry == Spec => []RedeliveryOnlyOnRetry
<1>1. IInv => RedeliveryOnlyOnRetry
  BY DEF IInv
<1> QED
  BY <1>1, Invariance, PTL

\* Dead-lettered deliveries have their dead-letter record, or will be given it
\* by the dispatcher that has them in hand, as long as no statement fails.
THEOREM DeadLettersRecorded == Spec => []DeadLetterIsRecorded
<1>1. IInv => DeadLetterIsRecorded
  BY DEF IInv
<1> QED
  BY <1>1, Invariance, PTL

\* No step of a dispatcher or a producer takes a delivery out of "dispatched".
THEOREM DispatchesFinal == Spec => DispatchedIsFinal
<1>1. IInv /\ [Next]_vars => [StaysDispatched]_vars
  <2> SUFFICES ASSUME IInv, [Next]_vars PROVE StaysDispatched
    OBVIOUS
  <2> USE OutboxAssumption, ProcsAre, DeliveryPairs
      DEF IInv, TypeOK, Control, HeldIsProcessing, Holds,
          StaysDispatched, recordVars,
          rowVars, procVars, boundVars, histVars
  <2>1. ASSUME NEW e \in Events, NEW s \in Sinks, RecordDelivery(e, s)
        PROVE StaysDispatched
    <3>1. PICK x \in Deliveries : SaveDelivery(x)
      BY <2>1 DEF RecordDelivery
    <3> QED
      BY <3>1 DEF SaveDelivery
  <2>2. ASSUME NEW p \in Dispatchers, NEW d \in Deliveries, EnsureSave(p, d)
        PROVE StaysDispatched
    BY <2>2 DEF EnsureSave, SaveDelivery
  <2>3. ASSUME NEW p \in Dispatchers,
               NEW batch \in Batches, ClaimPendingDeliveries(p, batch)
        PROVE StaysDispatched
    BY <2>3 DEF ClaimPendingDeliveries, Batches, Pending
  <2>4. ASSUME NEW p \in Dispatchers, MarkDeliveryDispatched(p)
        PROVE StaysDispatched
    BY <2>4 DEF MarkDeliveryDispatched
  <2>5. ASSUME NEW p \in Dispatchers, ScheduleRetry(p) PROVE StaysDispatched
    BY <2>5 DEF ScheduleRetry, MarkDeliveryFailed
  <2>6. ASSUME NEW p \in Dispatchers, MoveToDeadLetter(p)
        PROVE StaysDispatched
    BY <2>6 DEF MoveToDeadLetter, MarkDeliveryFailed
  <2>7. ASSUME NEW o \in Operators, NEW d \in Deliveries, RetryMark(o, d)
        PROVE StaysDispatched
    BY <2>7 DEF RetryMark, MarkDeliveryFailed
  <2>8. CASE UNCHANGED delivery
    BY <2>8
  <2> QED
    BY <2>1, <2>2, <2>3, <2>4, <2>5, <2>6, <2>7, <2>8
       DEF Next, RecordStep, DispatchStep, OperatorStep, RefreshStep, vars,
           SaveEvent, SaveOutbox, RecordFails, RecordInTx, EnsureRead,
           Deliver, DeliverFails, RefreshRead, RefreshWrite, SaveDeadLetter,
           DuplicateDeadLetter, RetryDelivery, RetryOutbox, RefreshSkipped,
           Fail, Abandon, Retry
<1> QED
  BY <1>1, Invariance, PTL DEF DispatchedIsFinal, Spec


-----------------------------------------------------------------------------
(***************************************************************************)
(* The status of the outbox record.  refreshOutboxStatus reads in one      *)
(* statement and writes in another, so it is right only for as long as     *)
(* nobody else settles or puts back a delivery of the event in between:    *)
(* the theorem is about one instance that no operator interferes with,     *)
(* while producers go on recording.  Two instances do lose a settlement.   *)
(***************************************************************************)
Alone == Operators = {} /\ \A p, q \in Dispatchers : p = q

\* Nothing is known of an event before its outbox record is there.
RecordedFirst ==
  \A e \in Events : recording[e] # "done" =>
    /\ outbox[e] = "absent" /\ unsaved[e] = {}
    /\ \A p \in Procs : refreshing[p] # e
    /\ \A d \in Deliveries : d[1] = e =>
         /\ delivery[d] = "absent"
         /\ \A p \in Procs : cur[p] # d /\ d \notin todo[p]

\* The event has deliveries, and all of them are settled.
Settled(e) ==
  /\ Present(e) # {}
  /\ \A d \in Present(e) : delivery[d] \in {"dispatched", "dead_letter"}

\* The status st says what the settled deliveries of e say.
Tells(e, st) ==
  /\ st = "dispatched" <=> \A d \in Present(e) : delivery[d] = "dispatched"
  /\ st = "dead_letter" <=> \A d \in Present(e) : delivery[d] = "dead_letter"

\* Without faults, the record of a settled event is right or about to be
\* refreshed, and a refresh that has computed a status has computed this one.
RefreshesCurrent ==
  faults = 0 => \A e \in Events : Settled(e) =>
    /\ \/ Tells(e, outbox[e])
       \/ \E p \in Procs :
            pc[p] \in {"refresh", "computed"} /\ refreshing[p] = e
    /\ \A p \in Procs :
         pc[p] = "computed" /\ refreshing[p] = e => Tells(e, view[p])

\* Every step leaves the events that are not recorded yet alone.
LEMMA RecordedStep ==
  TypeOK /\ Control /\ RecordedFirst /\ [Next]_vars => RecordedFirst'
<1> SUFFICES ASSUME TypeOK, Control, RecordedFirst, TypeOK', [Next]_vars
             PROVE RecordedFirst'
  BY TypeStep
<1> USE OutboxAssumption, ProcsAre, DeliveryPairs
    DEF TypeOK, Control, RecordedFirst, recordVars, rowVars, procVars,
        boundVars, histVars
<1>1. ASSUME NEW e \in Events, SaveEvent(e) PROVE RecordedFirst'
  BY <1>1 DEF SaveEvent
<1>2. ASSUME NEW e \in Events, NEW i \in Dispatchers, SaveOutbox(e, i)
      PROVE RecordedFirst'
  BY <1>2 DEF SaveOutbox
<1>3. ASSUME NEW e \in Events, NEW s \in Sinks, RecordDelivery(e, s)
      PROVE RecordedFirst'
  <2>1. recording[e] = "done"
    BY <1>3 DEF RecordDelivery
  <2>2. PICK x \in Deliveries : x = <<e, s>>
    OBVIOUS
  <2>3. x[1] = e
    BY <2>2
  <2>4. /\ delivery' = [delivery EXCEPT ![x] =
                          IF @ = "absent" THEN "pending" ELSE @]
        /\ unsaved' = [unsaved EXCEPT ![e] = @ \ {s}]
        /\ UNCHANGED <<recording, outbox, todo, cur, refreshing>>
    BY <1>3, <2>2 DEF RecordDelivery, SaveDelivery
  <2>5. \A f \in Events : unsaved'[f] \subseteq unsaved[f]
    BY <2>4
  <2>6. \A d \in Deliveries : d[1] # e => delivery'[d] = delivery[d]
    BY <2>3, <2>4
  <2> QED
    BY <2>1, <2>4, <2>5, <2>6
<1>4. ASSUME NEW e \in Events, RecordFails(e) PROVE RecordedFirst'
  <2>1. \A f \in Events : /\ recording'[f] # "done" => recording[f] # "done"
                          /\ unsaved'[f] \subseteq unsaved[f]
    BY <1>4, SMTT(20) DEF RecordFails
  <2> QED
    BY <1>4, <2>1 DEF RecordFails
<1>5. ASSUME NEW e \in Events, RecordInTx(e) PROVE RecordedFirst'
  BY <1>5 DEF RecordInTx
<1>6. ASSUME NEW p \in Dispatchers, EnsureRead(p) PROVE RecordedFirst'
  BY <1>6 DEF EnsureRead, Missing
<1>7. ASSUME NEW p \in Dispatchers, NEW d \in Deliveries, EnsureSave(p, d)
      PROVE RecordedFirst'
  BY <1>7 DEF EnsureSave, SaveDelivery
<1>8. ASSUME NEW p \in Dispatchers,
             NEW batch \in Batches, ClaimPendingDeliveries(p, batch)
      PROVE RecordedFirst'
  BY <1>8 DEF ClaimPendingDeliveries, Batches, Pending
<1>9. ASSUME NEW p \in Dispatchers, NEW d \in Deliveries, Deliver(p, d)
      PROVE RecordedFirst'
  BY <1>9 DEF Deliver
<1>10. ASSUME NEW p \in Dispatchers, NEW d \in Deliveries, DeliverFails(p, d)
      PROVE RecordedFirst'
  BY <1>10 DEF DeliverFails
<1>11. ASSUME NEW p \in Dispatchers, MarkDeliveryDispatched(p)
       PROVE RecordedFirst'
  BY <1>11 DEF MarkDeliveryDispatched
<1>12. ASSUME NEW p \in Dispatchers, ScheduleRetry(p) PROVE RecordedFirst'
  BY <1>12 DEF ScheduleRetry, MarkDeliveryFailed
<1>13. ASSUME NEW p \in Dispatchers, MoveToDeadLetter(p) PROVE RecordedFirst'
  BY <1>13 DEF MoveToDeadLetter, MarkDeliveryFailed
<1>14. ASSUME NEW p \in Procs, RefreshRead(p) PROVE RecordedFirst'
  BY <1>14 DEF RefreshRead
<1>15. ASSUME NEW p \in Procs, RefreshWrite(p) PROVE RecordedFirst'
  BY <1>15 DEF RefreshWrite
<1>16. ASSUME NEW p \in Dispatchers, SaveDeadLetter(p) PROVE RecordedFirst'
  BY <1>16 DEF SaveDeadLetter
<1>17. ASSUME NEW p \in Dispatchers, DuplicateDeadLetter(p)
       PROVE RecordedFirst'
  BY <1>17 DEF DuplicateDeadLetter, Abandon
<1>18. ASSUME NEW o \in Operators, NEW d \in Deliveries, RetryDelivery(o, d)
       PROVE RecordedFirst'
  BY <1>18 DEF RetryDelivery, Retry
<1>19. ASSUME NEW o \in Operators, NEW e \in Events, RetryOutbox(o, e)
       PROVE RecordedFirst'
  BY <1>19 DEF RetryOutbox, Retry, Present
<1>20. ASSUME NEW o \in Operators, NEW d \in Deliveries, RetryMark(o, d)
       PROVE RecordedFirst'
  BY <1>20 DEF RetryMark, MarkDeliveryFailed
<1>21. ASSUME NEW p \in Procs, RefreshSkipped(p) PROVE RecordedFirst'
  BY <1>21 DEF RefreshSkipped
<1>22. ASSUME NEW p \in Procs, Fail(p) PROVE RecordedFirst'
  BY <1>22 DEF Fail, Abandon
<1>23. CASE UNCHANGED vars
  BY <1>23 DEF vars
<1> QED
  BY <1>1, <1>2, <1>3, <1>4, <1>5, <1>6, <1>7, <1>8, <1>9, <1>10, <1>11,
     <1>12, <1>13, <1>14, <1>15, <1>16, <1>17, <1>18, <1>19, <1>20, <1>21,
     <1>22, <1>23
     DEF Next, RecordStep, DispatchStep, OperatorStep, RefreshStep

\* An event whose deliveries do not change is settled, and its status right, as
\* before.
LEMMA SettledKept ==
  ASSUME NEW e \in Events,
         \A d \in Deliveries : d[1] = e => delivery'[d] = delivery[d]
  PROVE  /\ Settled(e)' <=> Settled(e)
         /\ \A st \in Statuses : Tells(e, st)' <=> Tells(e, st)
<1>1. Present(e)' = Present(e)
  BY DEF Present
<1>2. \A d \in Present(e) : delivery'[d] = delivery[d]
  BY DEF Present
<1>3. Settled(e)' <=> Settled(e)
  BY <1>1, <1>2 DEF Settled
<1>4. ASSUME NEW st \in Statuses PROVE Tells(e, st)' <=> Tells(e, st)
  BY <1>1, <1>2 DEF Tells
<1> QED
  BY <1>3, <1>4

\* refreshOutboxStatus computes the right status.
LEMMA RollupTells ==
  ASSUME NEW e \in Events, Settled(e)
  PROVE  Tells(e, Rollup(e))
<1>1. PICK d \in Present(e) : TRUE
  BY DEF Settled
<1>2. \A c \in Present(e) : delivery[c] \in {"dispatched", "dead_letter"}
  BY DEF Settled
<1> QED
  BY <1>1, <1>2 DEF Tells, Rollup

\* Of one instance nobody interferes with, every step keeps the records right
\* or about to be: a settlement is followed by a refresh, and while that is
\* under way only a new delivery can appear, which unsettles the event.
LEMMA CurrentStep ==
  Alone /\ TypeOK /\ Control /\ RecordedFirst /\ RefreshesCurrent /\ [Next]_vars
    => RefreshesCurrent'
<1> SUFFICES ASSUME Alone, TypeOK, Control, RecordedFirst, RefreshesCurrent,
                    [Next]_vars, faults' = 0, NEW e \in Events, Settled(e)'
             PROVE (/\ \/ Tells(e, outbox[e])
                       \/ \E p \in Procs : pc[p] \in {"refresh", "computed"}
                                           /\ refreshing[p] = e
                    /\ \A p \in Procs : pc[p] = "computed" /\ refreshing[p] = e
                                          => Tells(e, view[p]))'
  BY DEF RefreshesCurrent
<1> DEFINE Under == \E p \in Procs :
                      pc[p] \in {"refresh", "computed"} /\ refreshing[p] = e
           Computed == \A p \in Procs :
                         pc[p] = "computed" /\ refreshing[p] = e => Tells(e, view[p])
           Goal == (Tells(e, outbox[e]) \/ Under) /\ Computed
<1> SUFFICES Goal'
  OBVIOUS
<1>1. TypeOK'
  BY TypeStep
<1>2. \A p, q \in Procs : p = q
  BY DEF Procs, Alone
<1>3. /\ \A p \in Procs : refreshing[p] \in Events \cup {NoEvent}
      /\ \A p \in Procs : view[p] \in Statuses /\ view'[p] \in Statuses
      /\ outbox[e] \in Statuses /\ outbox'[e] \in Statuses
      /\ \A d \in Deliveries : delivery[d] \in Statuses
  BY <1>1 DEF TypeOK
<1>4. faults = 0 => (Settled(e) => Goal)
  BY DEF RefreshesCurrent
<1>5. ASSUME faults = 0, outbox'[e] = outbox[e],
             \A d \in Deliveries : d[1] = e => delivery'[d] = delivery[d],
             \A p \in Procs :
               pc[p] \in {"refresh", "computed"} /\ refreshing[p] = e
                 => pc'[p] \in {"refresh", "computed"} /\ refreshing'[p] = e,
             \A p \in Procs :
               pc'[p] = "computed" /\ refreshing'[p] = e =>
                 pc[p] = "computed" /\ refreshing[p] = e /\ view'[p] = view[p]
      PROVE Goal'
  <2>1. Goal
    BY <1>4, <1>5, SettledKept
  <2>2. Tells(e, outbox[e]) => Tells(e, outbox[e])'
    BY <1>3, <1>5, SettledKept DEF Tells, Present
  <2>3. Under => Under'
    BY <1>5
  <2>4. ASSUME NEW p \in Procs, pc'[p] = "computed", refreshing'[p] = e
        PROVE Tells(e, view[p])'
    <3>1. Tells(e, view[p]) /\ view'[p] = view[p]
      BY <1>5, <2>1, <2>4
    <3> QED
      BY <1>3, <1>5, <3>1 DEF Tells, Present
  <2> QED
    BY <2>1, <2>2, <2>3, <2>4
<1> USE OutboxAssumption, ProcsAre, DeliveryPairs
    DEF TypeOK, Control, recordVars, rowVars, procVars, boundVars, histVars
<1> HIDE DEF Goal
<1>6. \A d \in Deliveries : d[1] = e =>
        delivery'[d] \in {"absent", "dispatched", "dead_letter"}
  BY DEF Settled, Present
<1>7. ASSUME NEW f \in Events, SaveEvent(f) PROVE Goal'
  BY <1>5, <1>7 DEF SaveEvent
<1>8. ASSUME NEW f \in Events, recording[f] # "done", f = e, UNCHANGED delivery
      PROVE FALSE
  BY <1>8 DEF RecordedFirst, Settled, Present
<1>9. ASSUME NEW f \in Events, NEW i \in Dispatchers, SaveOutbox(f, i)
      PROVE Goal'
  <2>1. f # e
    BY <1>8, <1>9 DEF SaveOutbox
  <2> QED
    BY <1>5, <1>9, <2>1 DEF SaveOutbox
<1>10. ASSUME NEW f \in Events, RecordInTx(f) PROVE Goal'
  <2>1. f # e
    BY <1>8, <1>10 DEF RecordInTx
  <2> QED
    BY <1>5, <1>10, <2>1 DEF RecordInTx
<1>11. ASSUME NEW d \in Deliveries, SaveDelivery(d)
       PROVE \A c \in Deliveries : c[1] = e => delivery'[c] = delivery[c]
  <2>1. ASSUME NEW c \in Deliveries, c[1] = e
        PROVE delivery'[c] = delivery[c]
    <3>1. CASE c # d
      BY <1>11, <3>1 DEF SaveDelivery
    <3>2. CASE c = d
      BY <1>6, <1>11, <2>1, <3>2 DEF SaveDelivery
    <3> QED
      BY <3>1, <3>2
  <2> QED
    BY <2>1
<1>12. ASSUME NEW f \in Events, NEW s \in Sinks, RecordDelivery(f, s)
       PROVE Goal'
  <2>1. PICK x \in Deliveries : SaveDelivery(x)
    BY <1>12 DEF RecordDelivery
  <2> QED
    BY <1>5, <1>11, <1>12, <2>1 DEF RecordDelivery
<1>13. ASSUME NEW f \in Events, RecordFails(f) PROVE FALSE
  BY <1>13 DEF RecordFails
<1>14. ASSUME NEW p \in Dispatchers, EnsureRead(p) PROVE Goal'
  BY <1>5, <1>14 DEF EnsureRead
<1>15. ASSUME NEW p \in Dispatchers, NEW d \in Deliveries, EnsureSave(p, d)
       PROVE Goal'
  BY <1>5, <1>11, <1>15 DEF EnsureSave
<1>16. ASSUME NEW p \in Dispatchers,
              NEW batch \in Batches, ClaimPendingDeliveries(p, batch)
       PROVE Goal'
  <2>1. ASSUME NEW c \in Deliveries, c[1] = e
        PROVE delivery'[c] = delivery[c]
    BY <1>6, <1>16, <2>1 DEF ClaimPendingDeliveries
  <2> QED
    BY <1>5, <1>16, <2>1 DEF ClaimPendingDeliveries
<1>17. ASSUME NEW p \in Dispatchers, NEW d \in Deliveries, Deliver(p, d)
       PROVE Goal'
  BY <1>5, <1>17 DEF Deliver
<1>18. ASSUME NEW p \in Dispatchers, NEW d \in Deliveries, DeliverFails(p, d)
       PROVE Goal'
  BY <1>5, <1>18 DEF DeliverFails
<1>19. ASSUME NEW p \in Dispatchers, NEW st, cur[p] \in Deliveries,
              pc[p] \notin {"refresh", "computed"},
              delivery' = [delivery EXCEPT ![cur[p]] = st],
              pc' = [pc EXCEPT ![p] = "refresh"],
              refreshing' = [refreshing EXCEPT ![p] = cur[p][1]],
              UNCHANGED <<outbox, view, faults>>
       PROVE Goal'
  <2>1. CASE cur[p][1] = e
    <3>1. pc'[p] = "refresh" /\ refreshing'[p] = e
      BY <1>19, <2>1
    <3>2. Under'
      BY <3>1
    <3>3. Computed'
      BY <1>2, <3>1
    <3> QED
      BY <3>2, <3>3 DEF Goal
  <2>2. CASE cur[p][1] # e
    BY <1>5, <1>19, <2>2
  <2> QED
    BY <2>1, <2>2
<1>20. ASSUME NEW p \in Dispatchers, MarkDeliveryDispatched(p) PROVE Goal'
  BY <1>19, <1>20 DEF MarkDeliveryDispatched
<1>21. ASSUME NEW p \in Dispatchers, ScheduleRetry(p) PROVE Goal'
  BY <1>19, <1>21 DEF ScheduleRetry, MarkDeliveryFailed
<1>22. ASSUME NEW p \in Dispatchers, MoveToDeadLetter(p) PROVE Goal'
  BY <1>19, <1>22 DEF MoveToDeadLetter, MarkDeliveryFailed
<1>23. ASSUME NEW p \in Dispatchers, RefreshRead(p) PROVE Goal'
  <2>1. CASE refreshing[p] = e
    <3>1. Tells(e, Rollup(e))
      BY <1>23, RollupTells, SettledKept DEF RefreshRead
    <3>2. view'[p] = Rollup(e) /\ pc'[p] = "computed" /\ refreshing'[p] = e
      BY <1>23, <2>1 DEF RefreshRead
    <3>3. Tells(e, view[p])'
      BY <1>23, <3>1, <3>2 DEF Tells, Present, RefreshRead
    <3>4. Under' /\ Computed'
      BY <1>2, <3>2, <3>3
    <3> QED
      BY <3>4 DEF Goal
  <2>2. CASE refreshing[p] # e
    BY <1>5, <1>23, <2>2 DEF RefreshRead
  <2> QED
    BY <2>1, <2>2
<1>24. ASSUME NEW p \in Dispatchers PROVE AfterRefresh(p) \notin {"refresh", "computed"}
  BY DEF AfterRefresh
<1>25. ASSUME NEW p \in Dispatchers, RefreshWrite(p) PROVE Goal'
  <2>1. CASE refreshing[p] = e
    <3>1. Tells(e, view[p])
      BY <1>4, <1>25, <2>1, SettledKept DEF RefreshWrite, Goal
    <3>2. outbox'[e] = view[p]
      BY <1>25, <2>1 DEF RefreshWrite
    <3>3. Tells(e, outbox[e])'
      BY <1>25, <3>1, <3>2 DEF Tells, Present, RefreshWrite
    <3>4. Computed'
      BY <1>2, <1>24, <1>25 DEF RefreshWrite
    <3> QED
      BY <3>3, <3>4 DEF Goal
  <2>2. CASE refreshing[p] # e
    BY <1>5, <1>24, <1>25, <2>2 DEF RefreshWrite
  <2> QED
    BY <2>1, <2>2
<1>26. ASSUME NEW p \in Dispatchers, SaveDeadLetter(p) PROVE Goal'
  BY <1>5, <1>26 DEF SaveDeadLetter
<1>27. ASSUME NEW p \in Dispatchers, DuplicateDeadLetter(p) PROVE Goal'
  BY <1>5, <1>27 DEF DuplicateDeadLetter, Abandon
<1>28. ASSUME NEW p \in Procs, RefreshSkipped(p) PROVE FALSE
  BY <1>28 DEF RefreshSkipped
<1>29. ASSUME NEW p \in Procs, Fail(p) PROVE FALSE
  BY <1>29 DEF Fail
<1>30. CASE UNCHANGED vars
  BY <1>5, <1>30 DEF vars
<1>31. Operators = {}
  BY DEF Alone
<1> QED
  BY <1>7, <1>9, <1>10, <1>12, <1>13, <1>14, <1>15, <1>16, <1>17, <1>18,
     <1>20, <1>21, <1>22, <1>23, <1>25, <1>26, <1>27, <1>28, <1>29, <1>30,
     <1>31
     DEF Next, RecordStep, DispatchStep, RefreshStep

\* Once everything about an event is settled and nobody works on it, the status
\* of its outbox record says how it was settled, for one instance that no
\* operator interferes with, whatever producers record meanwhile: every
\* settlement is followed by a refresh that reads it.
THEOREM StatusCurrent ==
  ASSUME Alone
  PROVE  Spec => []OutboxStatusIsCurrent
<1> DEFINE Kept == IInv /\ RecordedFirst /\ RefreshesCurrent
<1>1. Init => RecordedFirst /\ RefreshesCurrent
  <2> SUFFICES ASSUME Init PROVE RecordedFirst /\ RefreshesCurrent
    OBVIOUS
  <2>1. RecordedFirst
    BY OutboxAssumption, DeliveryPairs DEF Init, RecordedFirst
  <2>2. \A e \in Events : ~Settled(e)
    BY DEF Init, Settled, Present
  <2> QED
    BY <2>1, <2>2 DEF RefreshesCurrent
<1>2. IInv => TypeOK /\ Control
  BY DEF IInv
<1>3. Alone /\ IInv /\ RecordedFirst /\ RefreshesCurrent /\ [Next]_vars
        => RecordedFirst' /\ RefreshesCurrent'
  BY <1>2, RecordedStep, CurrentStep
<1>4. RefreshesCurrent => OutboxStatusIsCurrent
  BY DEF RefreshesCurrent, OutboxStatusIsCurrent, Settled, Tells
<1>5. Alone
  OBVIOUS
<1>6. IInv /\ RecordedFirst /\ RefreshesCurrent /\ [Next]_vars
        => RecordedFirst' /\ RefreshesCurrent'
  BY <1>3, <1>5
<1> QED
  BY <1>1, <1>4, <1>6, Invariance, PTL DEF Spec

=============================================================================
