--------------------------- MODULE JobQueueProofs ---------------------------
(***************************************************************************)
(* TLAPS proofs about JobQueue, for every number of workers, clients, jobs *)
(* and every lease, batch limit and attempt limit.                         *)
(*                                                                         *)
(* None of the properties is inductive by itself: a Mark statement trusts  *)
(* what the worker read when it claimed the batch.  IInv adds what is true *)
(* of that knowledge however old it is.                                    *)
(***************************************************************************)
EXTENDS JobQueue, FiniteSetTheorems, TLAPS

\* A row has a lease exactly while it is running.
LeaseOnlyWhileRunning ==
  \A j \in Jobs : lease[j] # NoLease <=> status[j] = "running"

\* The item in hand is an item of the batch.
CurInBatch ==
  \A w \in Workers : pc[w] # "idle" => cur[w] \in todo[w]

\* What workers and clients hold on to are rows of the table.
HeldRowsExist ==
  /\ \A w \in Workers : \A j \in todo[w] : status[j] # "absent"
  /\ \A c \in Clients : requeueing[c] # NoJob => status[requeueing[c]] # "absent"

\* A stored outcome "ok" comes from a handler call that returned nil.
OutcomeWasHandled ==
  \A w \in Workers : pc[w] = "returned" /\ outcome[w] = "ok" => cur[w] \in handled

IInv ==
  /\ TypeOK
  /\ CurInBatch
  /\ LeaseOnlyWhileRunning
  /\ HeldRowsExist
  /\ OutcomeWasHandled
  /\ AttemptNumbersAreUnique
  /\ DeadLetterIsDeserved
  /\ SuccessWasHandled
  /\ OneJobPerKey

-----------------------------------------------------------------------------
\* The heartbeat period is a natural number of ticks.
LEMMA BeatPeriodType == BeatPeriod \in Nat
BY JobQueueAssumption DEF BeatPeriod

\* The values that the lease column takes are in its range.
LEMMA LeaseRange ==
  /\ NoLease \in NoLease..Lease /\ Lease \in NoLease..Lease
  /\ \A l \in NoLease..Lease : l > 0 => l - 1 \in NoLease..Lease
BY JobQueueAssumption DEF NoLease

\* NULL is not a number of ticks.
LEMMA LeaseFacts == NoLease # Lease /\ ~(NoLease > 0) /\ \A l \in NoLease..Lease : l > 0 => l - 1 # NoLease /\ l # NoLease
BY JobQueueAssumption DEF NoLease

\* The tables of the initial state are well formed.
LEMMA InitIInv == Init => IInv
<1> SUFFICES ASSUME Init PROVE IInv
  OBVIOUS
<1> USE JobQueueAssumption DEF Init
<1>1. (CHOOSE n \in Names : TRUE) \in Names
  OBVIOUS
<1>2. TypeOK
  BY <1>1, BeatPeriodType DEF TypeOK, RowStatuses, Outcomes, NoLease, NoJob
<1>3. LeaseOnlyWhileRunning /\ AttemptNumbersAreUnique /\ OneJobPerKey
  BY DEF LeaseOnlyWhileRunning, AttemptNumbersAreUnique, OneJobPerKey
<1>4. CurInBatch /\ HeldRowsExist /\ OutcomeWasHandled
  BY DEF CurInBatch, HeldRowsExist, OutcomeWasHandled
<1>5. DeadLetterIsDeserved /\ SuccessWasHandled
  BY DEF DeadLetterIsDeserved, SuccessWasHandled
<1> QED
  BY <1>2, <1>3, <1>4, <1>5 DEF IInv

-----------------------------------------------------------------------------
\* Every step preserves type correctness.
LEMMA TypeStep == TypeOK /\ CurInBatch /\ [Next]_vars => TypeOK'
<1> SUFFICES ASSUME TypeOK, CurInBatch, [Next]_vars PROVE TypeOK'
  OBVIOUS
<1> USE JobQueueAssumption, BeatPeriodType, LeaseRange
    DEF TypeOK, RowStatuses, Outcomes, rowVars, workerVars, clientVars, faultVars
<1>1. ASSUME NEW c \in Clients, NEW n \in Names, NEW k \in Keys \cup {NoKey}, EnqueueFind(c, n, k) PROVE TypeOK'
  BY <1>1 DEF EnqueueFind, Requests
<1>2. ASSUME NEW c \in Clients, EnqueueInsert(c) PROVE TypeOK'
  <2>1. inserting[c][1] \in Names /\ inserting[c][2] \in Keys \cup {NoKey}
    <3>1. inserting[c] \in Requests
      BY <1>2 DEF EnqueueInsert
    <3> QED
      BY <3>1 DEF Requests
  <2>2. CASE UNCHANGED rowVars
    BY <1>2, <2>2 DEF EnqueueInsert
  <2>3. ASSUME NEW j \in Jobs, InsertRow(j, inserting[c]) PROVE TypeOK'
    <3>1. name' \in [Jobs -> Names] /\ key' \in [Jobs -> Keys \cup {NoKey}]
      BY <2>1, <2>3 DEF InsertRow
    <3>2. status' \in [Jobs -> RowStatuses] /\ attempts' \in [Jobs -> Nat]
          /\ lease' \in [Jobs -> NoLease..Lease]
      BY <2>3 DEF InsertRow
    <3> QED
      BY <1>2, <3>1, <3>2 DEF EnqueueInsert
  <2> QED
    BY <1>2, <2>2, <2>3 DEF EnqueueInsert
<1>3. ASSUME NEW c \in Clients, NEW j \in Jobs, RequeueGet(c, j) PROVE TypeOK'
  BY <1>3 DEF RequeueGet
<1>4. ASSUME NEW c \in Clients, RequeueWrite(c) PROVE TypeOK'
  BY <1>4 DEF RequeueWrite, SetStatus
<1>5. ASSUME NEW w \in Workers, ClaimPending(w) PROVE TypeOK'
  BY <1>5 DEF ClaimPending, NextAttempt, Oldest, ClaimableJobs
<1>6. ASSUME NEW w \in Workers, NEW j \in Jobs, MissingHandler(w, j) PROVE TypeOK'
  BY <1>6 DEF MissingHandler, ItemDone, SetStatus
<1>7. ASSUME NEW w \in Workers, NEW j \in Jobs, StartHandler(w, j) PROVE TypeOK'
  BY <1>7 DEF StartHandler
<1>8. ASSUME NEW w \in Workers, Heartbeat(w) PROVE TypeOK'
  BY <1>8 DEF Heartbeat, RenewLease, Beating, CurInBatch
<1>9. ASSUME NEW w \in Workers, HeartbeatFails(w) PROVE TypeOK'
  BY <1>9 DEF HeartbeatFails, Beating
<1>10. ASSUME NEW w \in Workers, NEW result \in Outcomes, HandlerReturns(w, result) PROVE TypeOK'
  BY <1>10 DEF HandlerReturns, CurInBatch
<1>11. ASSUME NEW w \in Workers, MarkSucceeded(w) PROVE TypeOK'
  BY <1>11 DEF MarkSucceeded, ItemDone, SetStatus
<1>12. ASSUME NEW w \in Workers, MarkFailed(w) PROVE TypeOK'
  BY <1>12 DEF MarkFailed, ItemDone, SetStatus, FailedStatus
<1>13. ASSUME NEW w \in Workers, MarkError(w) PROVE TypeOK'
  BY <1>13 DEF MarkError, DropBatch
<1>14. ASSUME NEW w \in Workers, Crash(w) PROVE TypeOK'
  BY <1>14 DEF Crash, DropBatch
<1>15. ASSUME NEW w \in Workers, Stop(w) PROVE TypeOK'
  BY <1>15 DEF Stop
<1>16. ASSUME NEW w \in Workers, LoopExits(w) PROVE TypeOK'
  BY <1>16 DEF LoopExits
<1>17. ASSUME NEW w \in Workers, Start(w) PROVE TypeOK'
  BY <1>17 DEF Start
<1>18. ASSUME Tick PROVE TypeOK'
  BY <1>18 DEF Tick, Beating
<1>19. CASE UNCHANGED vars
  BY <1>19 DEF vars
<1> QED
  BY <1>1, <1>2, <1>3, <1>4, <1>5, <1>6, <1>7, <1>8, <1>9, <1>10, <1>11, <1>12, <1>13, <1>14, <1>15, <1>16, <1>17, <1>18, <1>19 DEF Next, ClientStep, WorkerStep, FaultStep

\* Every step keeps the item in hand inside the batch.
LEMMA CurStep == TypeOK /\ CurInBatch /\ [Next]_vars => CurInBatch'
<1> SUFFICES ASSUME TypeOK, CurInBatch, [Next]_vars PROVE CurInBatch'
  OBVIOUS
<1> USE DEF TypeOK, CurInBatch, workerVars
<1>1. ASSUME NEW c \in Clients, NEW n \in Names, NEW k \in Keys \cup {NoKey}, EnqueueFind(c, n, k) PROVE CurInBatch'
  BY <1>1 DEF EnqueueFind
<1>2. ASSUME NEW c \in Clients, EnqueueInsert(c) PROVE CurInBatch'
  BY <1>2 DEF EnqueueInsert
<1>3. ASSUME NEW c \in Clients, NEW j \in Jobs, RequeueGet(c, j) PROVE CurInBatch'
  BY <1>3 DEF RequeueGet
<1>4. ASSUME NEW c \in Clients, RequeueWrite(c) PROVE CurInBatch'
  BY <1>4 DEF RequeueWrite
<1>5. ASSUME NEW w \in Workers, ClaimPending(w) PROVE CurInBatch'
  BY <1>5 DEF ClaimPending
<1>6. ASSUME NEW w \in Workers, NEW j \in Jobs, MissingHandler(w, j) PROVE CurInBatch'
  BY <1>6 DEF MissingHandler, ItemDone
<1>7. ASSUME NEW w \in Workers, NEW j \in Jobs, StartHandler(w, j) PROVE CurInBatch'
  BY <1>7 DEF StartHandler, First
<1>8. ASSUME NEW w \in Workers, Heartbeat(w) PROVE CurInBatch'
  BY <1>8 DEF Heartbeat
<1>9. ASSUME NEW w \in Workers, HeartbeatFails(w) PROVE CurInBatch'
  BY <1>9 DEF HeartbeatFails
<1>10. ASSUME NEW w \in Workers, NEW result \in Outcomes, HandlerReturns(w, result) PROVE CurInBatch'
  BY <1>10 DEF HandlerReturns
<1>11. ASSUME NEW w \in Workers, MarkSucceeded(w) PROVE CurInBatch'
  BY <1>11 DEF MarkSucceeded, ItemDone
<1>12. ASSUME NEW w \in Workers, MarkFailed(w) PROVE CurInBatch'
  BY <1>12 DEF MarkFailed, ItemDone
<1>13. ASSUME NEW w \in Workers, MarkError(w) PROVE CurInBatch'
  BY <1>13 DEF MarkError, DropBatch
<1>14. ASSUME NEW w \in Workers, Crash(w) PROVE CurInBatch'
  BY <1>14 DEF Crash, DropBatch
<1>15. ASSUME NEW w \in Workers, Stop(w) PROVE CurInBatch'
  BY <1>15 DEF Stop
<1>16. ASSUME NEW w \in Workers, LoopExits(w) PROVE CurInBatch'
  BY <1>16 DEF LoopExits
<1>17. ASSUME NEW w \in Workers, Start(w) PROVE CurInBatch'
  BY <1>17 DEF Start
<1>18. ASSUME Tick PROVE CurInBatch'
  BY <1>18 DEF Tick
<1>19. CASE UNCHANGED vars
  BY <1>19 DEF vars
<1> QED
  BY <1>1, <1>2, <1>3, <1>4, <1>5, <1>6, <1>7, <1>8, <1>9, <1>10, <1>11, <1>12, <1>13, <1>14, <1>15, <1>16, <1>17, <1>18, <1>19 DEF Next, ClientStep, WorkerStep, FaultStep

\* A lease is granted with the status running and taken away with it; a late
\* renewal cannot revive one.
LEMMA LeaseStep ==
  TypeOK /\ CurInBatch /\ HeldRowsExist /\ LeaseOnlyWhileRunning /\ [Next]_vars => LeaseOnlyWhileRunning'
<1> SUFFICES ASSUME TypeOK, CurInBatch, HeldRowsExist, LeaseOnlyWhileRunning, TypeOK', [Next]_vars PROVE LeaseOnlyWhileRunning'
  BY TypeStep
<1> USE JobQueueAssumption, LeaseFacts DEF TypeOK, LeaseOnlyWhileRunning, rowVars
<1>1. ASSUME NEW c \in Clients, EnqueueInsert(c) PROVE LeaseOnlyWhileRunning'
  BY <1>1 DEF EnqueueInsert, InsertRow, First
<1>2. ASSUME NEW c \in Clients, RequeueWrite(c) PROVE LeaseOnlyWhileRunning'
  BY <1>2 DEF RequeueWrite, SetStatus
<1>3. ASSUME NEW w \in Workers, ClaimPending(w) PROVE LeaseOnlyWhileRunning'
  BY <1>3 DEF ClaimPending, NextAttempt
<1>4. ASSUME NEW w \in Workers, NEW j \in Jobs, MissingHandler(w, j) PROVE LeaseOnlyWhileRunning'
  BY <1>4 DEF MissingHandler, ItemDone, SetStatus, First
<1>5. ASSUME NEW w \in Workers, Heartbeat(w) PROVE LeaseOnlyWhileRunning'
  BY <1>5 DEF Heartbeat, RenewLease, Beating, CurInBatch
<1>6. ASSUME NEW w \in Workers, MarkSucceeded(w) PROVE LeaseOnlyWhileRunning'
  BY <1>6 DEF MarkSucceeded, ItemDone, SetStatus
<1>7. ASSUME NEW w \in Workers, MarkFailed(w) PROVE LeaseOnlyWhileRunning'
  BY <1>7 DEF MarkFailed, ItemDone, SetStatus, FailedStatus
<1>8. ASSUME Tick PROVE LeaseOnlyWhileRunning'
  BY <1>8 DEF Tick
<1>9. CASE UNCHANGED <<status, lease>>
  BY <1>9
<1> QED
  BY <1>1, <1>2, <1>3, <1>4, <1>5, <1>6, <1>7, <1>8, <1>9
     DEF Next, ClientStep, WorkerStep, FaultStep, vars, rowVars, EnqueueFind, RequeueGet, StartHandler, HeartbeatFails, HandlerReturns, MarkError, Crash, Stop, LoopExits, Start, DropBatch

\* Rows are never deleted, and only rows that exist are claimed or requeued.
LEMMA HeldStep ==
  TypeOK /\ CurInBatch /\ HeldRowsExist /\ [Next]_vars => HeldRowsExist'
<1> SUFFICES ASSUME TypeOK, CurInBatch, HeldRowsExist, TypeOK', [Next]_vars PROVE HeldRowsExist'
  BY TypeStep
<1> USE DEF TypeOK, HeldRowsExist, rowVars, workerVars, clientVars
<1>1. ASSUME NEW c \in Clients, EnqueueInsert(c) PROVE HeldRowsExist'
  BY <1>1 DEF EnqueueInsert, InsertRow, First
<1>2. ASSUME NEW c \in Clients, NEW j \in Jobs, RequeueGet(c, j) PROVE HeldRowsExist'
  BY <1>2 DEF RequeueGet
<1>3. ASSUME NEW c \in Clients, RequeueWrite(c) PROVE HeldRowsExist'
  BY <1>3 DEF RequeueWrite, SetStatus
<1>4. ASSUME NEW w \in Workers, ClaimPending(w) PROVE HeldRowsExist'
  BY <1>4 DEF ClaimPending, NextAttempt, Oldest, ClaimableJobs, Claimable
<1>5. ASSUME NEW w \in Workers, NEW j \in Jobs, MissingHandler(w, j) PROVE HeldRowsExist'
  BY <1>5 DEF MissingHandler, ItemDone, SetStatus, First
<1>6. ASSUME NEW w \in Workers, MarkSucceeded(w) PROVE HeldRowsExist'
  BY <1>6 DEF MarkSucceeded, ItemDone, SetStatus
<1>7. ASSUME NEW w \in Workers, MarkFailed(w) PROVE HeldRowsExist'
  BY <1>7 DEF MarkFailed, ItemDone, SetStatus, FailedStatus
<1>8. ASSUME NEW w \in Workers, MarkError(w) PROVE HeldRowsExist'
  BY <1>8 DEF MarkError, DropBatch
<1>9. ASSUME NEW w \in Workers, Crash(w) PROVE HeldRowsExist'
  BY <1>9 DEF Crash, DropBatch
<1>10. CASE UNCHANGED <<status, todo, requeueing>>
  BY <1>10
<1> QED
  BY <1>1, <1>2, <1>3, <1>4, <1>5, <1>6, <1>7, <1>8, <1>9, <1>10
     DEF Next, ClientStep, WorkerStep, FaultStep, vars, rowVars, workerVars, clientVars, EnqueueFind, StartHandler, Heartbeat, HeartbeatFails, HandlerReturns, Stop, LoopExits, Start, Tick, RenewLease

\* The outcome ok is only ever set together with the history.
LEMMA OutcomeStep ==
  TypeOK /\ CurInBatch /\ OutcomeWasHandled /\ [Next]_vars => OutcomeWasHandled'
<1> SUFFICES ASSUME TypeOK, CurInBatch, OutcomeWasHandled, TypeOK', [Next]_vars PROVE OutcomeWasHandled'
  BY TypeStep
<1> USE DEF TypeOK, OutcomeWasHandled, Outcomes, workerVars
<1>1. ASSUME NEW w \in Workers, NEW j \in Jobs, MissingHandler(w, j) PROVE OutcomeWasHandled'
  BY <1>1 DEF MissingHandler, ItemDone, SetStatus, First
<1>2. ASSUME NEW w \in Workers, NEW j \in Jobs, StartHandler(w, j) PROVE OutcomeWasHandled'
  BY <1>2 DEF StartHandler
<1>3. ASSUME NEW w \in Workers, NEW result \in Outcomes, HandlerReturns(w, result) PROVE OutcomeWasHandled'
  BY <1>3 DEF HandlerReturns
<1>4. ASSUME NEW w \in Workers, MarkSucceeded(w) PROVE OutcomeWasHandled'
  BY <1>4 DEF MarkSucceeded, ItemDone, SetStatus
<1>5. ASSUME NEW w \in Workers, MarkFailed(w) PROVE OutcomeWasHandled'
  BY <1>5 DEF MarkFailed, ItemDone, SetStatus, FailedStatus
<1>6. ASSUME NEW w \in Workers, MarkError(w) PROVE OutcomeWasHandled'
  BY <1>6 DEF MarkError, DropBatch
<1>7. ASSUME NEW w \in Workers, Crash(w) PROVE OutcomeWasHandled'
  BY <1>7 DEF Crash, DropBatch
<1>8. CASE UNCHANGED <<pc, outcome, cur, handled>>
  BY <1>8
<1> QED
  BY <1>1, <1>2, <1>3, <1>4, <1>5, <1>6, <1>7, <1>8
     DEF Next, ClientStep, WorkerStep, FaultStep, vars, workerVars, EnqueueFind, EnqueueInsert, RequeueGet, RequeueWrite, ClaimPending, Heartbeat, HeartbeatFails, Stop, LoopExits, Start, Tick, SetStatus, RenewLease

\* The attempt number of an old claim is at most the one in the table, so a
\* verdict of dead_letter that is based on it is deserved.
LEMMA DeadLetterStep ==
  TypeOK /\ CurInBatch /\ HeldRowsExist /\ AttemptNumbersAreUnique /\ DeadLetterIsDeserved /\ [Next]_vars => DeadLetterIsDeserved'
<1> SUFFICES ASSUME TypeOK, CurInBatch, HeldRowsExist, AttemptNumbersAreUnique, DeadLetterIsDeserved, TypeOK', [Next]_vars PROVE DeadLetterIsDeserved'
  BY TypeStep
<1> USE JobQueueAssumption DEF TypeOK, DeadLetterIsDeserved, rowVars
<1>1. ASSUME NEW c \in Clients, EnqueueInsert(c) PROVE DeadLetterIsDeserved'
  <2>1. CASE UNCHANGED rowVars
    BY <2>1
  <2>2. ASSUME NEW j \in Jobs, InsertRow(j, inserting[c]), ~Taken(inserting[c][2]) PROVE DeadLetterIsDeserved'
    BY <2>2 DEF InsertRow
  <2> QED
    BY <1>1, <2>1, <2>2 DEF EnqueueInsert
<1>2. ASSUME NEW c \in Clients, RequeueWrite(c) PROVE DeadLetterIsDeserved'
  BY <1>2 DEF RequeueWrite, SetStatus
<1>3. ASSUME NEW w \in Workers, ClaimPending(w) PROVE DeadLetterIsDeserved'
  BY <1>3 DEF ClaimPending, NextAttempt
<1>4. ASSUME NEW w \in Workers, NEW j \in Jobs, MissingHandler(w, j) PROVE DeadLetterIsDeserved'
  BY <1>4 DEF MissingHandler, ItemDone, SetStatus, First
<1>5. ASSUME NEW w \in Workers, MarkSucceeded(w) PROVE DeadLetterIsDeserved'
  BY <1>5 DEF MarkSucceeded, ItemDone, SetStatus
<1>6. ASSUME NEW w \in Workers, MarkFailed(w) PROVE DeadLetterIsDeserved'
  <2>1. /\ cur[w] \in Jobs /\ snap[w][cur[w]] \in Nat
        /\ snap[w][cur[w]] <= attempts[cur[w]]
    <3>1. cur[w] \in todo[w] /\ todo[w] \subseteq Jobs
      BY <1>6 DEF MarkFailed, CurInBatch
    <3>2. snap[w] \in [Jobs -> Nat]
      OBVIOUS
    <3> QED
      BY <3>1, <3>2 DEF AttemptNumbersAreUnique
  <2>2. CASE snap[w][cur[w]] >= MaxAttempts
    BY <1>6, <2>1, <2>2 DEF MarkFailed, SetStatus, FailedStatus
  <2>3. CASE ~(snap[w][cur[w]] >= MaxAttempts)
    BY <1>6, <2>1, <2>3 DEF MarkFailed, SetStatus, FailedStatus
  <2> QED
    BY <2>2, <2>3
<1>7. CASE UNCHANGED <<status, attempts, name>>
  BY <1>7
<1> QED
  BY <1>1, <1>2, <1>3, <1>4, <1>5, <1>6, <1>7
     DEF Next, ClientStep, WorkerStep, FaultStep, vars, rowVars, EnqueueFind, RequeueGet, StartHandler, Heartbeat, HeartbeatFails, HandlerReturns, MarkError, Crash, Stop, LoopExits, Start, Tick, DropBatch, RenewLease

\* MarkSucceeded is only reached with the outcome ok.
LEMMA SuccessStep ==
  TypeOK /\ CurInBatch /\ OutcomeWasHandled /\ SuccessWasHandled /\ [Next]_vars => SuccessWasHandled'
<1> SUFFICES ASSUME TypeOK, CurInBatch, OutcomeWasHandled, SuccessWasHandled, TypeOK', [Next]_vars PROVE SuccessWasHandled'
  BY TypeStep
<1> USE DEF TypeOK, SuccessWasHandled, rowVars
<1>1. ASSUME NEW c \in Clients, EnqueueInsert(c) PROVE SuccessWasHandled'
  BY <1>1 DEF EnqueueInsert, InsertRow, First
<1>2. ASSUME NEW c \in Clients, RequeueWrite(c) PROVE SuccessWasHandled'
  BY <1>2 DEF RequeueWrite, SetStatus
<1>3. ASSUME NEW w \in Workers, ClaimPending(w) PROVE SuccessWasHandled'
  BY <1>3 DEF ClaimPending, NextAttempt
<1>4. ASSUME NEW w \in Workers, NEW j \in Jobs, MissingHandler(w, j) PROVE SuccessWasHandled'
  BY <1>4 DEF MissingHandler, ItemDone, SetStatus, First
<1>5. ASSUME NEW w \in Workers, NEW result \in Outcomes, HandlerReturns(w, result) PROVE SuccessWasHandled'
  BY <1>5 DEF HandlerReturns
<1>6. ASSUME NEW w \in Workers, MarkSucceeded(w) PROVE SuccessWasHandled'
  BY <1>6 DEF MarkSucceeded, ItemDone, SetStatus, OutcomeWasHandled
<1>7. ASSUME NEW w \in Workers, MarkFailed(w) PROVE SuccessWasHandled'
  BY <1>7 DEF MarkFailed, ItemDone, SetStatus, FailedStatus
<1>8. CASE UNCHANGED <<status, handled>>
  BY <1>8
<1> QED
  BY <1>1, <1>2, <1>3, <1>4, <1>5, <1>6, <1>7, <1>8
     DEF Next, ClientStep, WorkerStep, FaultStep, vars, rowVars, EnqueueFind, RequeueGet, StartHandler, Heartbeat, HeartbeatFails, MarkError, Crash, Stop, LoopExits, Start, Tick, DropBatch, RenewLease

\* Only an INSERT creates a row, and it fails when the key is taken.
LEMMA KeyStep ==
  TypeOK /\ CurInBatch /\ HeldRowsExist /\ OneJobPerKey /\ [Next]_vars => OneJobPerKey'
<1> SUFFICES ASSUME TypeOK, CurInBatch, HeldRowsExist, OneJobPerKey, TypeOK', [Next]_vars PROVE OneJobPerKey'
  BY TypeStep
<1> USE DEF TypeOK, OneJobPerKey, rowVars
<1>1. ASSUME NEW c \in Clients, EnqueueInsert(c) PROVE OneJobPerKey'
  <2>1. CASE UNCHANGED rowVars
    BY <2>1
  <2>2. ASSUME NEW j \in Jobs, InsertRow(j, inserting[c]), ~Taken(inserting[c][2]) PROVE OneJobPerKey'
    BY <2>2 DEF InsertRow, Taken
  <2> QED
    BY <1>1, <2>1, <2>2 DEF EnqueueInsert
<1>2. ASSUME NEW c \in Clients, RequeueWrite(c) PROVE OneJobPerKey'
  BY <1>2 DEF RequeueWrite, SetStatus, HeldRowsExist
<1>3. ASSUME NEW w \in Workers, ClaimPending(w) PROVE OneJobPerKey'
  BY <1>3 DEF ClaimPending, NextAttempt, Oldest, ClaimableJobs, Claimable
<1>4. ASSUME NEW w \in Workers, NEW j \in Jobs, MissingHandler(w, j) PROVE OneJobPerKey'
  BY <1>4 DEF MissingHandler, ItemDone, SetStatus, First, HeldRowsExist
<1>5. ASSUME NEW w \in Workers, MarkSucceeded(w) PROVE OneJobPerKey'
  BY <1>5 DEF MarkSucceeded, ItemDone, SetStatus, HeldRowsExist, CurInBatch
<1>6. ASSUME NEW w \in Workers, MarkFailed(w) PROVE OneJobPerKey'
  BY <1>6 DEF MarkFailed, ItemDone, SetStatus, FailedStatus, HeldRowsExist, CurInBatch
<1>7. CASE UNCHANGED <<status, key>>
  BY <1>7
<1> QED
  BY <1>1, <1>2, <1>3, <1>4, <1>5, <1>6, <1>7
     DEF Next, ClientStep, WorkerStep, FaultStep, vars, rowVars, EnqueueFind, RequeueGet, StartHandler, Heartbeat, HeartbeatFails, HandlerReturns, MarkError, Crash, Stop, LoopExits, Start, Tick, DropBatch, RenewLease

\* A claim takes the next attempt number, which nobody holds yet.
LEMMA AttemptStep ==
  TypeOK /\ CurInBatch /\ HeldRowsExist /\ AttemptNumbersAreUnique /\ [Next]_vars => AttemptNumbersAreUnique'
<1> SUFFICES ASSUME TypeOK, CurInBatch, HeldRowsExist, AttemptNumbersAreUnique, TypeOK', [Next]_vars PROVE AttemptNumbersAreUnique'
  BY TypeStep
<1> USE DEF TypeOK, AttemptNumbersAreUnique, rowVars, workerVars
<1>1. ASSUME NEW c \in Clients, EnqueueInsert(c) PROVE AttemptNumbersAreUnique'
  BY <1>1 DEF EnqueueInsert, InsertRow, First, HeldRowsExist
<1>2. ASSUME NEW w \in Workers, ClaimPending(w) PROVE AttemptNumbersAreUnique'
  BY <1>2 DEF ClaimPending, NextAttempt
<1>3. ASSUME NEW w \in Workers, NEW j \in Jobs, MissingHandler(w, j) PROVE AttemptNumbersAreUnique'
  BY <1>3 DEF MissingHandler, ItemDone, SetStatus, First
<1>4. ASSUME NEW w \in Workers, MarkSucceeded(w) PROVE AttemptNumbersAreUnique'
  BY <1>4 DEF MarkSucceeded, ItemDone, SetStatus
<1>5. ASSUME NEW w \in Workers, MarkFailed(w) PROVE AttemptNumbersAreUnique'
  BY <1>5 DEF MarkFailed, ItemDone, SetStatus, FailedStatus
<1>6. ASSUME NEW w \in Workers, MarkError(w) PROVE AttemptNumbersAreUnique'
  BY <1>6 DEF MarkError, DropBatch
<1>7. ASSUME NEW w \in Workers, Crash(w) PROVE AttemptNumbersAreUnique'
  BY <1>7 DEF Crash, DropBatch
<1>8. CASE UNCHANGED <<attempts, todo, snap>>
  BY <1>8
<1> QED
  BY <1>1, <1>2, <1>3, <1>4, <1>5, <1>6, <1>7, <1>8
     DEF Next, ClientStep, WorkerStep, FaultStep, vars, rowVars, workerVars, EnqueueFind, RequeueGet, RequeueWrite, StartHandler, Heartbeat, HeartbeatFails, HandlerReturns, Stop, LoopExits, Start, Tick, SetStatus, RenewLease

-----------------------------------------------------------------------------
\* IInv is preserved by every step: each conjunct by its own lemma.
LEMMA IInvStep == IInv /\ [Next]_vars => IInv'
BY TypeStep, CurStep, LeaseStep, HeldStep, OutcomeStep, DeadLetterStep, SuccessStep, KeyStep,
   AttemptStep
   DEF IInv

\* IInv holds in every reachable state.
THEOREM Invariance == Spec => []IInv
<1>1. Init => IInv
  BY InitIInv
<1>2. IInv /\ [Next]_vars => IInv'
  BY IInvStep
<1> QED
  BY <1>1, <1>2, PTL DEF Spec

\* The columns of the table and the local state of workers and clients always
\* have their types.
THEOREM TypeCorrect == Spec => []TypeOK
<1>1. IInv => TypeOK
  BY DEF IInv
<1> QED
  BY <1>1, Invariance, PTL

\* The SQL of PostgresRepository.ClaimPending and the loop of
\* MemoryRepository.ClaimPending select the same rows in every reachable state.
THEOREM ClaimAgreement == Spec => []RepositoriesAgree
<1>1. IInv => RepositoriesAgree
  <2> SUFFICES ASSUME IInv, NEW j \in Jobs PROVE Claimable(j) <=> ClaimableInMemory(j)
    BY DEF RepositoriesAgree
  <2>1. lease[j] # NoLease <=> status[j] = "running"
    BY DEF IInv, LeaseOnlyWhileRunning
  <2>2. lease[j] \in NoLease..Lease
    BY DEF IInv, TypeOK
  <2> QED
    BY <2>1, <2>2, JobQueueAssumption DEF Claimable, ClaimableInMemory, NoLease
<1> QED
  BY <1>1, Invariance, PTL

\* A job is dead-lettered only when its attempts are used up or its name has no
\* handler, whoever marks it and however late.
THEOREM DeadLettersDeserved == Spec => []DeadLetterIsDeserved
<1>1. IInv => DeadLetterIsDeserved
  BY DEF IInv
<1> QED
  BY <1>1, Invariance, PTL

\* A job is marked succeeded only after one of its handler calls returned nil.
THEOREM SuccessesHandled == Spec => []SuccessWasHandled
<1>1. IInv => SuccessWasHandled
  BY DEF IInv
<1> QED
  BY <1>1, Invariance, PTL

\* Any number of concurrent EnqueueUnique calls create at most one job per key.
THEOREM Deduplication == Spec => []OneJobPerKey
<1>1. IInv => OneJobPerKey
  BY DEF IInv
<1> QED
  BY <1>1, Invariance, PTL

\* The attempt number returned by a claim identifies the execution.
THEOREM AttemptsIdentifyExecutions == Spec => []AttemptNumbersAreUnique
<1>1. IInv => AttemptNumbersAreUnique
  BY DEF IInv
<1> QED
  BY <1>1, Invariance, PTL

-----------------------------------------------------------------------------
(***************************************************************************)
(* Refinement: JobQueue implements JobContract.                            *)
(***************************************************************************)

\* The initial table is the initial state of the contract.
LEMMA ContractInit == Init => Contract!Init
<1> SUFFICES ASSUME Init PROVE Contract!Init
  OBVIOUS
<1>1. Phases = [j \in Jobs |-> "absent"]
  BY DEF Init, Phases
<1>2. name \in [Jobs -> Names]
  BY JobQueueAssumption DEF Init
<1> QED
  BY <1>1, <1>2 DEF Init, Contract!Init

\* What SetStatus does to the phase of the row.
LEMMA PhaseOfStatus ==
  ASSUME TypeOK, NEW j \in Jobs, NEW st, NEW ph, SetStatus(j, st),
         ph = IF st \in {"queued", "running"} THEN "open" ELSE st
  PROVE  Phases' = [Phases EXCEPT ![j] = ph]
BY DEF TypeOK, SetStatus, Phases

\* An update of the status of an existing row settles or opens the job.
LEMMA SettleStep ==
  ASSUME TypeOK, NEW j \in Jobs, NEW st, NEW ph, SetStatus(j, st), status[j] # "absent",
         ph = IF st \in {"queued", "running"} THEN "open" ELSE st, handled' = handled
  PROVE  Contract!Settle(j, ph)
<1>1. Phases[j] # "absent"
  BY DEF Phases
<1>2. Phases' = [Phases EXCEPT ![j] = ph]
  BY PhaseOfStatus
<1> QED
  BY <1>1, <1>2 DEF SetStatus, Contract!Settle, Contract!Accepted

\* A step that leaves the columns of the contract alone is a stutter.
LEMMA StutterStep ==
  ASSUME UNCHANGED <<status, attempts, name, key, handled>>
  PROVE  UNCHANGED Contract!vars
BY DEF Phases, Contract!vars

\* Every step of the queue is a step of the contract or a stutter.
LEMMA ContractStep == IInv /\ [Next]_vars => [Contract!Next]_(Contract!vars)
<1> SUFFICES ASSUME IInv, [Next]_vars PROVE Contract!Next \/ UNCHANGED Contract!vars
  OBVIOUS
<1>t. TypeOK /\ CurInBatch /\ HeldRowsExist
  BY DEF IInv
<1>1. ASSUME NEW c \in Clients, EnqueueInsert(c) PROVE Contract!Next \/ UNCHANGED Contract!vars
  <2>1. CASE UNCHANGED rowVars
    BY <1>1, <2>1, StutterStep DEF EnqueueInsert, rowVars
  <2>2. ASSUME ~Taken(inserting[c][2]), NEW j \in Jobs,
               First({i \in Jobs : status[i] = "absent"}, j), InsertRow(j, inserting[c])
        PROVE  Contract!Next
    <3> DEFINE n == inserting[c][1]
               k == inserting[c][2]
    <3>1. n \in Names /\ k \in Keys \cup {NoKey}
      BY <1>1, <1>t DEF TypeOK, EnqueueInsert, Requests
    <3>2. status[j] = "absent"
      BY <2>2 DEF First
    <3>3. Phases[j] = "absent" /\ Phases' = [Phases EXCEPT ![j] = "open"]
      BY <1>t, <2>2, <3>2 DEF Phases, InsertRow, TypeOK
    <3>4. ASSUME k # NoKey, NEW i \in Jobs, Phases[i] # "absent" PROVE key[i] # k
      <4>1. status[i] # "absent"
        BY <3>4 DEF Phases
      <4> QED
        BY <2>2, <3>4, <4>1 DEF Taken
    <3>5. Contract!Accept(j, n, k)
      BY <1>1, <2>2, <3>3, <3>4 DEF Contract!Accept, Contract!Accepted, InsertRow, EnqueueInsert
    <3> QED
      BY <3>1, <3>5 DEF Contract!Next
  <2> QED
    BY <1>1, <2>1, <2>2 DEF EnqueueInsert
<1>2. ASSUME NEW c \in Clients, RequeueWrite(c) PROVE Contract!Next
  <2>1. requeueing[c] \in Jobs /\ status[requeueing[c]] # "absent"
    BY <1>2, <1>t DEF RequeueWrite, TypeOK, HeldRowsExist
  <2>2. Contract!Settle(requeueing[c], "open")
    BY <1>2, <1>t, <2>1, SettleStep DEF RequeueWrite
  <2> QED
    BY <2>1, <2>2 DEF Contract!Next, Contract!Again
<1>3. ASSUME NEW w \in Workers, ClaimPending(w) PROVE Contract!Next
  <2> DEFINE batch == Oldest(ClaimableJobs, Limit)
  <2>1. batch \in SUBSET Jobs /\ \A j \in batch : status[j] \in {"queued", "running"}
    BY DEF Oldest, ClaimableJobs, Claimable
  <2>2. \A j \in batch : Phases[j] = "open"
    BY <2>1 DEF Phases
  <2>3. Phases' = Phases
    BY <1>3, <2>1 DEF ClaimPending, Phases
  <2>4. attempts' = [j \in Jobs |-> IF j \in batch THEN attempts[j] + 1 ELSE attempts[j]]
    BY <1>3 DEF ClaimPending, NextAttempt
  <2>5. Contract!Try(batch)
    BY <1>3, <2>2, <2>3, <2>4 DEF ClaimPending, Contract!Try
  <2> QED
    BY <2>1, <2>5 DEF Contract!Next
<1>4. ASSUME NEW w \in Workers, NEW j \in Jobs, MissingHandler(w, j) PROVE Contract!Next
  <2>1. status[j] # "absent"
    BY <1>4, <1>t DEF MissingHandler, First, HeldRowsExist
  <2>2. Contract!Settle(j, "dead_letter")
    BY <1>4, <1>t, <2>1, SettleStep DEF MissingHandler
  <2>3. name[j] \notin Registered
    BY <1>4 DEF MissingHandler
  <2> QED
    BY <2>2, <2>3 DEF Contract!Next, Contract!GiveUp
<1>c. ASSUME NEW w \in Workers, pc[w] # "idle"
      PROVE  cur[w] \in todo[w] /\ cur[w] \in Jobs /\ status[cur[w]] # "absent"
  BY <1>c, <1>t DEF CurInBatch, HeldRowsExist, TypeOK
<1>5. ASSUME NEW w \in Workers, NEW result \in Outcomes, HandlerReturns(w, result)
      PROVE  Contract!Next \/ UNCHANGED Contract!vars
  <2>1. cur[w] \in Jobs /\ status[cur[w]] # "absent"
    BY <1>5, <1>c DEF HandlerReturns
  <2>2. Phases[cur[w]] # "absent" /\ UNCHANGED <<Phases, attempts, name, key>>
    BY <1>5, <2>1 DEF Phases, HandlerReturns, rowVars
  <2>3. CASE result = "ok"
    <3>1. Contract!Return(cur[w])
      BY <1>5, <2>2, <2>3 DEF HandlerReturns, Contract!Return, Contract!Accepted
    <3> QED
      BY <2>1, <3>1 DEF Contract!Next
  <2>4. CASE result # "ok"
    BY <1>5, <2>4, StutterStep DEF HandlerReturns, rowVars
  <2> QED
    BY <2>3, <2>4
<1>6. ASSUME NEW w \in Workers, MarkSucceeded(w) PROVE Contract!Next
  <2>1. cur[w] \in Jobs /\ status[cur[w]] # "absent" /\ cur[w] \in handled
    BY <1>6, <1>c DEF MarkSucceeded, IInv, OutcomeWasHandled
  <2>2. Contract!Settle(cur[w], "succeeded")
    BY <1>6, <1>t, <2>1, SettleStep DEF MarkSucceeded
  <2> QED
    BY <2>1, <2>2 DEF Contract!Next, Contract!Succeed
<1>7. ASSUME NEW w \in Workers, MarkFailed(w) PROVE Contract!Next
  <2> DEFINE j == cur[w]
  <2>1. j \in todo[w] /\ j \in Jobs /\ status[j] # "absent"
    BY <1>7, <1>c DEF MarkFailed
  <2>2. snap[w][j] <= attempts[j] /\ snap[w][j] \in Nat /\ attempts[j] \in Nat
    BY <2>1, <1>t DEF IInv, AttemptNumbersAreUnique, TypeOK
  <2>3. CASE snap[w][j] >= MaxAttempts
    <3>1. Contract!Settle(j, "dead_letter")
      BY <1>7, <1>t, <2>1, <2>3, SettleStep DEF MarkFailed, FailedStatus
    <3>2. attempts[j] >= MaxAttempts
      BY <2>2, <2>3, JobQueueAssumption
    <3> QED
      BY <2>1, <3>1, <3>2 DEF Contract!Next, Contract!GiveUp
  <2>4. CASE ~(snap[w][j] >= MaxAttempts)
    <3>1. Contract!Settle(j, "open")
      BY <1>7, <1>t, <2>1, <2>4, SettleStep DEF MarkFailed, FailedStatus
    <3> QED
      BY <2>1, <3>1 DEF Contract!Next, Contract!Again
  <2> QED
    BY <2>3, <2>4
<1>8. CASE UNCHANGED <<status, attempts, name, key, handled>>
  BY <1>8, StutterStep
<1> USE DEF rowVars
<1>9. ASSUME NEW c \in Clients, ClientStep(c) PROVE Contract!Next \/ UNCHANGED Contract!vars
  BY <1>9, <1>1, <1>2, <1>8 DEF ClientStep, EnqueueFind, RequeueGet
<1>10. ASSUME NEW w \in Workers, WorkerStep(w) PROVE Contract!Next \/ UNCHANGED Contract!vars
  BY <1>10, <1>3, <1>4, <1>6, <1>7, <1>8 DEF WorkerStep, StartHandler, Heartbeat, RenewLease
<1>11. ASSUME NEW w \in Workers, FaultStep(w) \/ LoopExits(w) \/ Start(w)
       PROVE  UNCHANGED Contract!vars
  BY <1>11, StutterStep DEF FaultStep, HeartbeatFails, MarkError, Crash, DropBatch, Stop, LoopExits, Start
<1>12. CASE Tick
  BY <1>12, <1>8 DEF Tick
<1>13. CASE UNCHANGED vars
  BY <1>13, <1>8 DEF vars
<1> QED
  BY <1>5, <1>9, <1>10, <1>11, <1>12, <1>13 DEF Next

\* The job queue implements its contract: whatever workers, clients, crashes and
\* lost leases do to the rows, seen from outside a job is accepted once per key,
\* tried, and settled only as JobContract allows.
THEOREM Refinement == Spec => ImplementsContract
<1>1. Init => Contract!Init
  BY ContractInit
<1>2. IInv /\ [Next]_vars => [Contract!Next]_(Contract!vars)
  BY ContractStep
<1> QED
  BY <1>1, <1>2, Invariance, PTL DEF Spec, ImplementsContract, Contract!Spec

-----------------------------------------------------------------------------
(***************************************************************************)
(* HeartbeatExcludesOthers is about workers that keep up with the clock,   *)
(* batches of one row and one operator at a time: the code guarantees it   *)
(* in no other case.                                                       *)
(***************************************************************************)
BatchesOfOne == Limit = 1 \/ MaxJobs <= 1
Orderly == BatchesOfOne /\ Punctual = Workers /\ \A c, d \in Clients : c = d

\* A row in a batch runs under a lease that outlives the next heartbeat of its
\* handler, and is in no other batch.
LeaseOutlivesHeartbeat ==
  \A w \in Workers : \A j \in todo[w] :
    /\ status[j] = "running" /\ lease[j] > 0
    /\ pc[w] = "idle" => lease[j] = Lease
    /\ pc[w] = "handling" => lease[j] >= beat[w] + (Lease - BeatPeriod)
    /\ \A i \in todo[w] : i = j
    /\ \A v \in Workers : j \in todo[v] => v = w

NothingStopped == beatErr = {} /\ \A w \in Workers : loop[w] = "up"

\* The row that the operator has read is still settled.
RequeuedIsSettled ==
  \A c \in Clients : requeueing[c] # NoJob =>
    status[requeueing[c]] \in {"succeeded", "dead_letter"}

Undisturbed ==
  losses = 0 => NothingStopped /\ LeaseOutlivesHeartbeat /\ RequeuedIsSettled

\* At least one tick of the lease is left when the next heartbeat is due.
LEMMA LeaseMargin ==
  /\ BeatPeriod \in Nat /\ Lease \in Nat /\ Lease - BeatPeriod >= 1
  /\ Lease = BeatPeriod + (Lease - BeatPeriod) /\ Lease > 0
BY JobQueueAssumption DEF BeatPeriod

\* A batch of one row has one row.
LEMMA OldestIsOne ==
  ASSUME BatchesOfOne, NEW S, S \subseteq Jobs, NEW i \in Oldest(S, Limit),
         NEW j \in Oldest(S, Limit)
  PROVE  i = j
<1>1. i \in S /\ j \in S /\ i \in Nat /\ j \in Nat BY JobQueueAssumption DEF Oldest, Jobs
<1>2. CASE MaxJobs <= 1 BY <1>1, <1>2, JobQueueAssumption DEF Jobs
<1>3. CASE Limit = 1
  <2>1. ASSUME NEW k \in Oldest(S, Limit) PROVE \A x \in S : ~(x < k)
    <3>1. IsFiniteSet(S)
      <4>1. IsFiniteSet(Jobs) BY JobQueueAssumption, FS_Interval DEF Jobs
      <4> QED BY <4>1, FS_Subset
    <3> DEFINE T == {x \in S : x < k}
    <3>2. IsFiniteSet(T) BY <3>1, FS_Subset
    <3>3. Cardinality(T) < 1 BY <1>3, <2>1 DEF Oldest
    <3> HIDE DEF T
    <3>4. Cardinality(T) \in Nat BY <3>2, FS_CardinalityType
    <3>5. T = {} BY <3>2, <3>3, <3>4, FS_EmptySet
    <3> QED BY <3>5 DEF T
  <2> QED BY <1>1, <2>1
<1> QED BY <1>2, <1>3 DEF BatchesOfOne

\* Faults are counted, so what holds without one held before the step.
LEMMA LossesGrow == TypeOK /\ [Next]_vars /\ losses' = 0 => losses = 0
<1> SUFFICES ASSUME TypeOK, [Next]_vars, losses' = 0 PROVE losses = 0 OBVIOUS
<1>1. losses' = losses \/ losses' = losses + 1
  BY DEF Next, ClientStep, WorkerStep, FaultStep, vars, faultVars, EnqueueFind, EnqueueInsert,
         RequeueGet, RequeueWrite, ClaimPending, MissingHandler, StartHandler, Heartbeat,
         HeartbeatFails, HandlerReturns, MarkSucceeded, MarkFailed, MarkError, Crash, DropBatch,
         Stop, LoopExits, Start, Tick
<1> QED BY <1>1 DEF TypeOK

\* Nothing is stopped without a fault.
LEMMA NothingStoppedStep ==
  TypeOK /\ NothingStopped /\ [Next]_vars /\ losses' = 0 => NothingStopped'
<1> SUFFICES ASSUME TypeOK, NothingStopped, [Next]_vars, losses' = 0 PROVE NothingStopped'
  OBVIOUS
<1> USE DEF NothingStopped, TypeOK, workerVars
<1>0. losses = 0 BY LossesGrow
<1>1. ASSUME NEW w \in Workers, MarkError(w) \/ Crash(w) PROVE NothingStopped'
  BY <1>1 DEF MarkError, Crash, DropBatch
<1>2. ASSUME NEW w \in Workers, HeartbeatFails(w) \/ Stop(w) PROVE FALSE
  BY <1>0, <1>2 DEF HeartbeatFails, Stop
<1>3. ASSUME NEW w \in Workers, LoopExits(w) \/ Start(w) PROVE FALSE
  BY <1>3 DEF LoopExits, Start
<1>4. ASSUME NEW w \in Workers, WorkerStep(w) PROVE NothingStopped'
  BY <1>4 DEF WorkerStep, ClaimPending, MissingHandler, StartHandler, Heartbeat, MarkSucceeded,
              MarkFailed
<1>5. ASSUME NEW w \in Workers, NEW result \in Outcomes, HandlerReturns(w, result)
      PROVE  NothingStopped'
  BY <1>5 DEF HandlerReturns
<1>6. ASSUME NEW c \in Clients, ClientStep(c) PROVE NothingStopped'
  BY <1>6 DEF ClientStep, EnqueueFind, EnqueueInsert, RequeueGet, RequeueWrite
<1>7. CASE Tick BY <1>7 DEF Tick
<1>8. CASE UNCHANGED vars BY <1>8 DEF vars
<1> QED BY <1>1, <1>2, <1>3, <1>4, <1>5, <1>6, <1>7, <1>8 DEF Next, FaultStep

\* A row that is in a batch is not claimed, requeued, inserted or settled by
\* another, and its lease is renewed before it runs out.
LEMMA LeaseOutlivesStep ==
  ASSUME Orderly, TypeOK, TypeOK', CurInBatch, NothingStopped, LeaseOutlivesHeartbeat,
         RequeuedIsSettled, [Next]_vars, losses = 0, losses' = 0
  PROVE  LeaseOutlivesHeartbeat'
<1> USE LeaseMargin DEF LeaseOutlivesHeartbeat, TypeOK, workerVars, rowVars
<1>1. ASSUME NEW c \in Clients, EnqueueInsert(c) PROVE LeaseOutlivesHeartbeat'
  BY <1>1 DEF EnqueueInsert, InsertRow, First
<1>2. ASSUME NEW c \in Clients, RequeueWrite(c) PROVE LeaseOutlivesHeartbeat'
  <2>1. status[requeueing[c]] # "running" BY <1>2 DEF RequeueWrite, RequeuedIsSettled
  <2> QED BY <1>2, <2>1 DEF RequeueWrite, SetStatus
<1>3. ASSUME NEW w \in Workers, ClaimPending(w) PROVE LeaseOutlivesHeartbeat'
  <2> DEFINE batch == Oldest(ClaimableJobs, Limit)
  <2>1. /\ pc[w] = "idle" /\ todo[w] = {}
        /\ status' = [j \in Jobs |-> IF j \in batch THEN "running" ELSE status[j]]
        /\ lease' = [j \in Jobs |-> IF j \in batch THEN Lease ELSE lease[j]]
        /\ todo' = [todo EXCEPT ![w] = batch] /\ pc' = pc /\ beat' = beat
    BY <1>3 DEF ClaimPending
  <2>2. batch \subseteq ClaimableJobs /\ ClaimableJobs \subseteq Jobs
    BY DEF Oldest, ClaimableJobs
  <2>3. \A i, j \in batch : i = j BY <2>2, OldestIsOne DEF Orderly
  <2>4. ASSUME NEW v \in Workers, NEW j \in todo[v] PROVE j \notin batch
    <3>1. j \in Jobs /\ lease[j] > 0 OBVIOUS
    <3>2. ~Claimable(j) BY <3>1 DEF Claimable, NoLease
    <3> QED BY <2>2, <3>2 DEF ClaimableJobs
  <2> HIDE DEF batch
  <2>5. ASSUME NEW v \in Workers, v # w PROVE todo'[v] = todo[v] BY <2>1, <2>5
  <2>6. todo'[w] = batch BY <2>1
  <2>7. ASSUME NEW v \in Workers, v # w, NEW j \in todo[v]
        PROVE  status'[j] = status[j] /\ lease'[j] = lease[j]
    <3>1. j \in Jobs /\ j \notin batch BY <2>4
    <3> QED BY <2>1, <3>1
  <2>8. ASSUME NEW j \in batch PROVE status'[j] = "running" /\ lease'[j] = Lease
    <3>1. j \in Jobs BY <2>2
    <3> QED BY <2>1, <3>1
  <2> SUFFICES ASSUME NEW v \in Workers, NEW j \in todo'[v]
               PROVE  /\ status'[j] = "running" /\ lease'[j] > 0
                      /\ pc'[v] = "idle" => lease'[j] = Lease
                      /\ pc'[v] = "handling" => lease'[j] >= beat'[v] + (Lease - BeatPeriod)
                      /\ \A i \in todo'[v] : i = j
                      /\ \A u \in Workers : j \in todo'[u] => u = v
    BY DEF LeaseOutlivesHeartbeat
  <2>9. CASE v = w BY <2>1, <2>3, <2>4, <2>5, <2>6, <2>8, <2>9
  <2>10. CASE v # w BY <2>1, <2>4, <2>5, <2>6, <2>7, <2>10
  <2> QED BY <2>9, <2>10
<1>4. ASSUME NEW w \in Workers, NEW j \in Jobs, MissingHandler(w, j)
      PROVE  LeaseOutlivesHeartbeat'
  BY <1>4 DEF MissingHandler, ItemDone, SetStatus, First
<1>5. ASSUME NEW w \in Workers, NEW j \in Jobs, StartHandler(w, j)
      PROVE  LeaseOutlivesHeartbeat'
  BY <1>5 DEF StartHandler, First
<1>6. ASSUME NEW w \in Workers, Heartbeat(w) PROVE LeaseOutlivesHeartbeat'
  BY <1>6 DEF Heartbeat, RenewLease, Beating, CurInBatch
<1>7. ASSUME NEW w \in Workers, NEW result \in Outcomes, HandlerReturns(w, result)
      PROVE  LeaseOutlivesHeartbeat'
  BY <1>7 DEF HandlerReturns
<1>8. ASSUME NEW w \in Workers, MarkSucceeded(w) PROVE LeaseOutlivesHeartbeat'
  BY <1>8 DEF MarkSucceeded, ItemDone, SetStatus, CurInBatch
<1>9. ASSUME NEW w \in Workers, MarkFailed(w) PROVE LeaseOutlivesHeartbeat'
  BY <1>9 DEF MarkFailed, ItemDone, SetStatus, CurInBatch
<1>10. ASSUME NEW w \in Workers, MarkError(w) \/ Crash(w) PROVE LeaseOutlivesHeartbeat'
  <2>1. /\ todo' = [todo EXCEPT ![w] = {}] /\ pc' = [pc EXCEPT ![w] = "idle"]
        /\ beat' = [beat EXCEPT ![w] = BeatPeriod] /\ status' = status /\ lease' = lease
    BY <1>10 DEF MarkError, Crash, DropBatch
  <2> QED BY <2>1
<1>11. CASE Tick
  <2>1. \A w \in Workers : \/ pc[w] = "idle" /\ todo[w] = {}
                           \/ pc[w] = "handling" /\ beat[w] > 0
    BY <1>11 DEF Tick, KeepsUp, Beating, NothingStopped, Orderly
  <2>2. /\ lease' = [j \in Jobs |-> IF lease[j] > 0 THEN lease[j] - 1 ELSE lease[j]]
        /\ status' = status /\ todo' = todo /\ pc' = pc
    BY <1>11 DEF Tick
  <2>3. \A w \in Workers : pc[w] = "handling" => beat'[w] = beat[w] - 1
    BY <1>11, <2>1 DEF Tick, Beating, NothingStopped
  <2> SUFFICES ASSUME NEW w \in Workers, NEW j \in todo[w]
               PROVE  /\ status'[j] = "running" /\ lease'[j] > 0
                      /\ pc'[w] = "idle" => lease'[j] = Lease
                      /\ pc'[w] = "handling" => lease'[j] >= beat'[w] + (Lease - BeatPeriod)
                      /\ \A i \in todo'[w] : i = j
                      /\ \A v \in Workers : j \in todo'[v] => v = w
    BY <2>2 DEF LeaseOutlivesHeartbeat
  <2>4. pc[w] = "handling" /\ beat[w] > 0 /\ j \in Jobs /\ beat[w] \in Int /\ lease[j] \in Int
    BY <2>1
  <2>5. lease[j] >= beat[w] + (Lease - BeatPeriod) /\ lease[j] > 0 BY <2>4
  <2>6. lease'[j] = lease[j] - 1 /\ beat'[w] = beat[w] - 1 BY <2>2, <2>3, <2>4, <2>5
  <2>7. lease'[j] > 0 /\ lease'[j] >= beat'[w] + (Lease - BeatPeriod) BY <2>4, <2>5, <2>6
  <2> QED BY <2>2, <2>4, <2>7
<1>12. CASE UNCHANGED <<status, lease, todo, pc, beat>>
  BY <1>12
<1>13. ASSUME NEW w \in Workers, LoopExits(w) \/ Start(w) \/ HeartbeatFails(w) \/ Stop(w)
       PROVE  LeaseOutlivesHeartbeat'
  BY <1>13 DEF LoopExits, Start, HeartbeatFails, Stop
<1> QED
  BY <1>1, <1>2, <1>3, <1>4, <1>5, <1>6, <1>7, <1>8, <1>9, <1>10, <1>11, <1>12, <1>13
     DEF Next, ClientStep, WorkerStep, FaultStep, vars, EnqueueFind, RequeueGet

\* A settled row is only changed by the operator who has read it.
LEMMA RequeuedStep ==
  ASSUME Orderly, TypeOK, TypeOK', CurInBatch, LeaseOutlivesHeartbeat, RequeuedIsSettled,
         [Next]_vars
  PROVE  RequeuedIsSettled'
<1> USE DEF LeaseOutlivesHeartbeat, RequeuedIsSettled, TypeOK, workerVars, rowVars, clientVars
<1>1. ASSUME NEW c \in Clients, EnqueueInsert(c) PROVE RequeuedIsSettled'
  BY <1>1 DEF EnqueueInsert, InsertRow, First
<1>2. ASSUME NEW c \in Clients, RequeueWrite(c) PROVE RequeuedIsSettled'
  BY <1>2 DEF RequeueWrite, SetStatus, Orderly
<1>3. ASSUME NEW c \in Clients, NEW j \in Jobs, RequeueGet(c, j) PROVE RequeuedIsSettled'
  BY <1>3 DEF RequeueGet
<1>4. ASSUME NEW w \in Workers, ClaimPending(w) PROVE RequeuedIsSettled'
  <2> DEFINE batch == Oldest(ClaimableJobs, Limit)
  <2>1. status' = [j \in Jobs |-> IF j \in batch THEN "running" ELSE status[j]]
        /\ requeueing' = requeueing
    BY <1>4 DEF ClaimPending
  <2>2. \A j \in batch : status[j] \in {"queued", "running"}
    BY DEF Oldest, ClaimableJobs, Claimable
  <2> HIDE DEF batch
  <2> SUFFICES ASSUME NEW c \in Clients, requeueing[c] # NoJob
               PROVE  status'[requeueing[c]] \in {"succeeded", "dead_letter"}
    BY <2>1
  <2>3. status[requeueing[c]] \in {"succeeded", "dead_letter"} /\ requeueing[c] \in Jobs
    OBVIOUS
  <2>4. requeueing[c] \notin batch BY <2>2, <2>3
  <2> QED BY <2>1, <2>3, <2>4
<1>5. ASSUME NEW w \in Workers, NEW j \in Jobs, MissingHandler(w, j) PROVE RequeuedIsSettled'
  BY <1>5 DEF MissingHandler, ItemDone, SetStatus, First
<1>6. ASSUME NEW w \in Workers, MarkSucceeded(w) PROVE RequeuedIsSettled'
  BY <1>6 DEF MarkSucceeded, ItemDone, SetStatus, CurInBatch
<1>7. ASSUME NEW w \in Workers, MarkFailed(w) PROVE RequeuedIsSettled'
  BY <1>7 DEF MarkFailed, ItemDone, SetStatus, CurInBatch
<1>8. CASE UNCHANGED <<status, requeueing>>
  BY <1>8
<1> QED
  BY <1>1, <1>2, <1>3, <1>4, <1>5, <1>6, <1>7, <1>8
     DEF Next, ClientStep, WorkerStep, FaultStep, vars, EnqueueFind, StartHandler, Heartbeat,
         HeartbeatFails, HandlerReturns, MarkError, Crash, DropBatch, Stop, LoopExits, Start, Tick,
         RenewLease

\* Workers that keep up with the clock and claim one row at a time never execute
\* the same job while both of their heartbeats run, as long as no renewal failed
\* and no instance was stopped, and one operator requeues at a time; two of them
\* could put a row back into the queue while it is handled.
THEOREM HeartbeatsExclude == ASSUME Orderly PROVE Spec => []HeartbeatExcludesOthers
<1>1. Init => Undisturbed
  BY DEF Init, Undisturbed, NothingStopped, LeaseOutlivesHeartbeat, RequeuedIsSettled
<1>2. IInv /\ Undisturbed /\ [Next]_vars => Undisturbed'
  <2> SUFFICES ASSUME IInv, Undisturbed, [Next]_vars, losses' = 0
               PROVE  NothingStopped' /\ LeaseOutlivesHeartbeat' /\ RequeuedIsSettled'
    BY DEF Undisturbed
  <2>1. TypeOK /\ TypeOK' /\ CurInBatch BY IInvStep DEF IInv
  <2>2. losses = 0 BY <2>1, LossesGrow
  <2>3. NothingStopped /\ LeaseOutlivesHeartbeat /\ RequeuedIsSettled BY <2>2 DEF Undisturbed
  <2> QED BY <2>1, <2>2, <2>3, NothingStoppedStep, LeaseOutlivesStep, RequeuedStep
<1>3. IInv /\ Undisturbed => HeartbeatExcludesOthers
  <2> SUFFICES ASSUME IInv, Undisturbed, losses = 0, NEW w \in Workers, NEW v \in Workers,
                      w # v, Beating(w), Beating(v)
               PROVE  cur[w] # cur[v]
    BY DEF HeartbeatExcludesOthers
  <2>1. cur[w] \in todo[w] /\ cur[v] \in todo[v] BY DEF IInv, CurInBatch, Beating
  <2> QED BY <2>1 DEF Undisturbed, LeaseOutlivesHeartbeat
<1> QED BY <1>1, <1>2, <1>3, Invariance, PTL DEF Spec
=============================================================================
