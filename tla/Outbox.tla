------------------------------- MODULE Outbox -------------------------------
(***************************************************************************)
(* The transactional outbox of internal/platform/eventing: domain events,  *)
(* one outbox record per event, one delivery per event and sink, and the   *)
(* dead-letter records, in tables shared by the dispatchers of several     *)
(* application instances and by the operators who retry deliveries.        *)
(*                                                                         *)
(* Every statement of the repository is one step.  refreshOutboxStatus     *)
(* reads the deliveries of an outbox record in one statement and writes    *)
(* the status it has computed in another, so it is two steps.              *)
(*                                                                         *)
(* The record of an event has the id <event>:outbox and is identified with *)
(* the event; a delivery is a pair <<event, sink>>, which is what the      *)
(* UNIQUE constraint on (outbox_id, sink_name) makes it.                   *)
(***************************************************************************)
EXTENDS Integers, FiniteSets

CONSTANTS
  Dispatchers,  \* application instances, each with one dispatcher loop
  Operators,    \* concurrent callers of RetryOutbox and RetryDelivery
  Events,       \* domain events
  NoEvent,
  Sinks,        \* names of sinks: "local" and the broker sinks
  Routed,       \* [Events -> SUBSET Sinks]: the sinks that accept the event
  Configured,   \* [Dispatchers -> SUBSET Sinks]: Service.sinks of an instance
  MaxAttempts,  \* maxAttempts
  Limit,        \* deliveries claimed per poll
  MaxRetries,   \* bound: operator retries
  MaxFaults     \* bound: crashes and failed statements

Procs      == Dispatchers \cup Operators
Deliveries == Events \X Sinks
NoDelivery == <<>>

ASSUME OutboxAssumption ==
  /\ NoEvent \notin Events
  /\ Dispatchers \cap Operators = {}
  /\ Routed \in [Events -> SUBSET Sinks]
  /\ Configured \in [Dispatchers -> SUBSET Sinks]
  /\ MaxAttempts \in Nat \ {0} /\ Limit \in Nat \ {0}
  /\ MaxRetries \in Nat /\ MaxFaults \in Nat

Statuses == {"absent", "pending", "processing", "dispatched", "dead_letter"}

VARIABLES
  recording,   \* progress of the producer of an event
  unsaved,     \* sinks for which Record has not saved the delivery yet
  outbox,      \* outbox_records.status
  delivery,    \* outbox_deliveries.status
  attempts,    \* outbox_deliveries.attempt_count
  dead,        \* ids of dead_letter_records: <<delivery, attempt_count>>
  pc,          \* where a dispatcher or an operator is
  todo,        \* deliveries it has listed or claimed and not dealt with yet
  snap,        \* attempt_count of those, as it was read
  cur,         \* delivery whose outcome is to be stored, or that is to be buried
  refreshing,  \* argument of the refreshOutboxStatus call under way
  view,        \* the status that call has computed
  retries,     \* operator retries so far
  faults,      \* crashes and failed statements so far
  delivered,   \* history: successful Deliver calls of a delivery (2: at least 2)
  retried      \* history: deliveries an operator has put back to pending

recordVars == <<recording, unsaved>>
rowVars    == <<delivery, attempts>>
procVars   == <<pc, todo, snap, cur, refreshing, view>>
boundVars  == <<retries, faults>>
histVars   == <<delivered, retried>>
vars == <<recordVars, outbox, rowVars, dead, procVars, boundVars, histVars>>

TypeOK ==
  /\ recording \in [Events -> {"none", "saved", "lost", "done"}]
  /\ unsaved \in [Events -> SUBSET Sinks]
  /\ outbox \in [Events -> Statuses]
  /\ delivery \in [Deliveries -> Statuses]
  /\ attempts \in [Deliveries -> Nat]
  /\ dead \in SUBSET (Deliveries \X Nat)
  /\ pc \in [Procs -> {"idle", "ensuring", "claimed", "delivered", "failed",
                       "retrying", "refresh", "computed", "bury"}]
  /\ todo \in [Procs -> SUBSET Deliveries]
  /\ snap \in [Procs -> [Deliveries -> Nat]]
  /\ cur \in [Procs -> Deliveries \cup {NoDelivery}]
  /\ refreshing \in [Procs -> Events \cup {NoEvent}]
  /\ view \in [Procs -> Statuses]
  /\ retries \in 0..MaxRetries
  /\ faults \in 0..MaxFaults
  /\ delivered \in [Deliveries -> 0..2]
  /\ retried \in SUBSET Deliveries

Init ==
  /\ recording = [e \in Events |-> "none"]
  /\ unsaved = [e \in Events |-> {}]
  /\ outbox = [e \in Events |-> "absent"]
  /\ delivery = [d \in Deliveries |-> "absent"]
  /\ attempts = [d \in Deliveries |-> 0]
  /\ dead = {}
  /\ pc = [p \in Procs |-> "idle"]
  /\ todo = [p \in Procs |-> {}]
  /\ snap = [p \in Procs |-> [d \in Deliveries |-> 0]]
  /\ cur = [p \in Procs |-> NoDelivery]
  /\ refreshing = [p \in Procs |-> NoEvent]
  /\ view = [p \in Procs |-> "absent"]
  /\ retries = 0
  /\ faults = 0
  /\ delivered = [d \in Deliveries |-> 0]
  /\ retried = {}

-----------------------------------------------------------------------------
(***************************************************************************)
(* Statements of the repository                                            *)
(***************************************************************************)
Present(e)  == {d \in Deliveries : d[1] = e /\ delivery[d] # "absent"}
Pending     == {d \in Deliveries : delivery[d] = "pending"}

\* Mutant: ON CONFLICT DO UPDATE SET status = 'pending'.
SaveDeliveryUpsert(d) ==
  /\ delivery' = [delivery EXCEPT ![d] = "pending"]
  /\ UNCHANGED attempts

\* INSERT ... ON CONFLICT (outbox_id, sink_name) DO NOTHING
SaveDelivery(d) ==
  /\ delivery' = [delivery EXCEPT ![d] = IF @ = "absent" THEN "pending" ELSE @]
  /\ UNCHANGED attempts

\* The UPDATE writes the attempt count it is given, not the one in the row.
MarkDeliveryFailed(d, st, n) ==
  /\ delivery' = [delivery EXCEPT ![d] = st]
  /\ attempts' = [attempts EXCEPT ![d] = n]

\* Mutant: an outbox record with some delivery dispatched counts as dispatched.
RollupAny(e) ==
  IF \E d \in Present(e) : delivery[d] = "dispatched" THEN "dispatched"
  ELSE IF \E d \in Present(e) : delivery[d] = "processing" THEN "processing"
  ELSE IF \A d \in Present(e) : delivery[d] = "dead_letter" THEN "dead_letter"
  ELSE "pending"

\* The status refreshOutboxStatus computes from the deliveries it has read.
Rollup(e) ==
  IF \A d \in Present(e) : delivery[d] = "dispatched" THEN "dispatched"
  ELSE IF \E d \in Present(e) : delivery[d] = "processing" THEN "processing"
  ELSE IF \A d \in Present(e) : delivery[d] = "dead_letter" THEN "dead_letter"
  ELSE "pending"

-----------------------------------------------------------------------------
(***************************************************************************)
(* Producers.  Record of eventing.Service saves the event, the outbox      *)
(* record and the deliveries one after the other; the Postgres unit of     *)
(* work saves the event and the outbox record in the transaction of the    *)
(* write they are about, and leaves the deliveries to ensureDeliveries.    *)
(***************************************************************************)
SaveEvent(e) ==
  /\ recording[e] = "none"
  /\ recording' = [recording EXCEPT ![e] = "saved"]
  /\ UNCHANGED <<unsaved, outbox, rowVars, dead, procVars, boundVars, histVars>>

\* The instance i that records the event goes on to its own sinks.
SaveOutbox(e, i) ==
  /\ recording[e] = "saved"
  /\ recording' = [recording EXCEPT ![e] = "done"]
  /\ outbox' = [outbox EXCEPT ![e] = "pending"]
  /\ unsaved' = [unsaved EXCEPT ![e] = Routed[e] \cap Configured[i]]
  /\ UNCHANGED <<rowVars, dead, procVars, boundVars, histVars>>

RecordDelivery(e, s) ==
  /\ s \in unsaved[e]
  /\ SaveDelivery(<<e, s>>)
  /\ unsaved' = [unsaved EXCEPT ![e] = @ \ {s}]
  /\ UNCHANGED <<recording, outbox, dead, procVars, boundVars, histVars>>

\* A statement of Record fails, or the process dies: the rest is not saved.
RecordFails(e) ==
  /\ faults < MaxFaults
  /\ faults' = faults + 1
  /\ \/ /\ recording[e] = "saved"
        /\ recording' = [recording EXCEPT ![e] = "lost"]
        /\ UNCHANGED unsaved
     \/ /\ unsaved[e] # {}
        /\ unsaved' = [unsaved EXCEPT ![e] = {}]
        /\ UNCHANGED recording
  /\ UNCHANGED <<outbox, rowVars, dead, procVars, retries, histVars>>

RecordInTx(e) ==
  /\ recording[e] = "none"
  /\ recording' = [recording EXCEPT ![e] = "done"]
  /\ outbox' = [outbox EXCEPT ![e] = "pending"]
  /\ UNCHANGED <<unsaved, rowVars, dead, procVars, boundVars, histVars>>

-----------------------------------------------------------------------------
(***************************************************************************)
(* The dispatcher: one DispatchPendingDetailed per tick.                   *)
(***************************************************************************)

\* Mutant: the sinks of records saved by a transaction are not completed.
MissingNone(p) == {}

\* Deliveries of recorded events to sinks of this instance that are not there.
Missing(p) ==
  {d \in Deliveries : /\ outbox[d[1]] # "absent"
                      /\ d[2] \in Routed[d[1]] \cap Configured[p]
                      /\ delivery[d] = "absent"}

\* The listings of ensureDeliveries.
EnsureRead(p) ==
  /\ pc[p] = "idle"
  /\ pc' = [pc EXCEPT ![p] = "ensuring"]
  /\ todo' = [todo EXCEPT ![p] = Missing(p)]
  /\ UNCHANGED <<recordVars, outbox, rowVars, dead, snap, cur, refreshing, view,
                 boundVars, histVars>>

EnsureSave(p, d) ==
  /\ pc[p] = "ensuring" /\ d \in todo[p]
  /\ SaveDelivery(d)
  /\ todo' = [todo EXCEPT ![p] = @ \ {d}]
  /\ UNCHANGED <<recordVars, outbox, dead, pc, snap, cur, refreshing, view,
                 boundVars, histVars>>

\* Mutant: rows that are already being processed are claimed again.
BatchesAgain ==
  {b \in SUBSET {d \in Deliveries : delivery[d] \in {"pending", "processing"}} :
     Cardinality(b) <= Limit}

\* At most Limit pending rows.  ORDER BY created_at compares the clocks of
\* several instances and has ties, so which rows come first is left open.
Batches ==
  {b \in SUBSET Pending :
     Cardinality(b) = IF Cardinality(Pending) < Limit THEN Cardinality(Pending) ELSE Limit}

ClaimPendingDeliveries(p, batch) ==
  /\ pc[p] = "ensuring" /\ todo[p] = {}
  /\ delivery' = [d \in Deliveries |-> IF d \in batch THEN "processing" ELSE delivery[d]]
  /\ attempts' = [d \in Deliveries |-> IF d \in batch THEN attempts[d] + 1 ELSE attempts[d]]
  /\ todo' = [todo EXCEPT ![p] = batch]
  /\ snap' = [snap EXCEPT ![p] =
                [d \in Deliveries |-> IF d \in batch THEN attempts[d] + 1 ELSE 0]]
  /\ pc' = [pc EXCEPT ![p] = IF batch = {} THEN "idle" ELSE "claimed"]
  /\ UNCHANGED <<recordVars, outbox, dead, cur, refreshing, view, boundVars, histVars>>

Count(n) == IF n = 0 THEN 1 ELSE 2

\* sink.Deliver returns nil.  RETURNING promises no order of the batch.
Deliver(p, d) ==
  /\ pc[p] = "claimed" /\ d \in todo[p]
  /\ d[2] \in Configured[p]
  /\ pc' = [pc EXCEPT ![p] = "delivered"]
  /\ cur' = [cur EXCEPT ![p] = d]
  /\ todo' = [todo EXCEPT ![p] = @ \ {d}]
  /\ delivered' = [delivered EXCEPT ![d] = Count(@)]
  /\ UNCHANGED <<recordVars, outbox, rowVars, dead, snap, refreshing, view,
                 boundVars, retried>>

\* Mutant: the error of the sink is ignored.
DeliverFailsUnseen(p, d) ==
  /\ pc[p] = "claimed" /\ d \in todo[p]
  /\ pc' = [pc EXCEPT ![p] = "delivered"]
  /\ cur' = [cur EXCEPT ![p] = d]
  /\ todo' = [todo EXCEPT ![p] = @ \ {d}]
  /\ UNCHANGED <<recordVars, outbox, rowVars, dead, snap, refreshing, view,
                 boundVars, histVars>>

\* The event cannot be read, the instance has no such sink, or the sink
\* returns an error.
DeliverFails(p, d) ==
  /\ pc[p] = "claimed" /\ d \in todo[p]
  /\ pc' = [pc EXCEPT ![p] = "failed"]
  /\ cur' = [cur EXCEPT ![p] = d]
  /\ todo' = [todo EXCEPT ![p] = @ \ {d}]
  /\ UNCHANGED <<recordVars, outbox, rowVars, dead, snap, refreshing, view,
                 boundVars, histVars>>

\* Mutant: the status is misspelt.
MarkDeliveryDispatchedTypo(p) ==
  /\ pc[p] = "delivered"
  /\ delivery' = [delivery EXCEPT ![cur[p]] = "delivered"]
  /\ pc' = [pc EXCEPT ![p] = "refresh"]
  /\ cur' = [cur EXCEPT ![p] = NoDelivery]
  /\ snap' = [snap EXCEPT ![p][cur[p]] = 0]
  /\ refreshing' = [refreshing EXCEPT ![p] = cur[p][1]]
  /\ UNCHANGED <<recordVars, outbox, attempts, dead, todo, view, boundVars, histVars>>

MarkDeliveryDispatched(p) ==
  /\ pc[p] = "delivered"
  /\ delivery' = [delivery EXCEPT ![cur[p]] = "dispatched"]
  /\ pc' = [pc EXCEPT ![p] = "refresh"]
  /\ cur' = [cur EXCEPT ![p] = NoDelivery]
  /\ snap' = [snap EXCEPT ![p][cur[p]] = 0]
  /\ refreshing' = [refreshing EXCEPT ![p] = cur[p][1]]
  /\ UNCHANGED <<recordVars, outbox, attempts, dead, todo, view, boundVars, histVars>>

\* failOrDeadLetter below the limit: the delivery waits for the next poll.
ScheduleRetry(p) ==
  /\ pc[p] = "failed" /\ snap[p][cur[p]] < MaxAttempts
  /\ MarkDeliveryFailed(cur[p], "pending", snap[p][cur[p]])
  /\ pc' = [pc EXCEPT ![p] = "refresh"]
  /\ cur' = [cur EXCEPT ![p] = NoDelivery]
  /\ snap' = [snap EXCEPT ![p][cur[p]] = 0]
  /\ refreshing' = [refreshing EXCEPT ![p] = cur[p][1]]
  /\ UNCHANGED <<recordVars, outbox, dead, todo, view, boundVars, histVars>>

\* Mutant: the dead-letter record is forgotten.
MoveToDeadLetterUnrecorded(p) ==
  /\ pc[p] = "failed" /\ snap[p][cur[p]] >= MaxAttempts
  /\ MarkDeliveryFailed(cur[p], "dead_letter", snap[p][cur[p]])
  /\ pc' = [pc EXCEPT ![p] = "refresh"]
  /\ cur' = [cur EXCEPT ![p] = NoDelivery]
  /\ snap' = [snap EXCEPT ![p][cur[p]] = 0]
  /\ refreshing' = [refreshing EXCEPT ![p] = cur[p][1]]
  /\ UNCHANGED <<recordVars, outbox, dead, todo, view, boundVars, histVars>>

\* failOrDeadLetter at the limit: mark, refresh, and then (SaveDeadLetter) the
\* dead-letter record; cur stays set until that is saved.
MoveToDeadLetter(p) ==
  /\ pc[p] = "failed" /\ snap[p][cur[p]] >= MaxAttempts
  /\ MarkDeliveryFailed(cur[p], "dead_letter", snap[p][cur[p]])
  /\ pc' = [pc EXCEPT ![p] = "refresh"]
  /\ refreshing' = [refreshing EXCEPT ![p] = cur[p][1]]
  /\ UNCHANGED <<recordVars, outbox, dead, todo, snap, cur, view, boundVars, histVars>>

\* Where the caller of refreshOutboxStatus goes on.
AfterRefresh(p) ==
  IF cur[p] # NoDelivery THEN "bury"
  ELSE IF todo[p] # {} THEN "claimed" ELSE "idle"

RefreshRead(p) ==
  /\ pc[p] = "refresh"
  /\ view' = [view EXCEPT ![p] = Rollup(refreshing[p])]
  /\ pc' = [pc EXCEPT ![p] = "computed"]
  /\ UNCHANGED <<recordVars, outbox, rowVars, dead, todo, snap, cur, refreshing,
                 boundVars, histVars>>

\* A listing that fails looks like one without rows: nothing is refreshed and
\* no error is reported.
RefreshSkipped(p) ==
  /\ pc[p] = "refresh" /\ faults < MaxFaults
  /\ faults' = faults + 1
  /\ pc' = [pc EXCEPT ![p] = AfterRefresh(p)]
  /\ refreshing' = [refreshing EXCEPT ![p] = NoEvent]
  /\ UNCHANGED <<recordVars, outbox, rowVars, dead, todo, snap, cur, view,
                 retries, histVars>>

RefreshWrite(p) ==
  /\ pc[p] = "computed"
  /\ outbox' = [outbox EXCEPT ![refreshing[p]] = view[p]]
  /\ pc' = [pc EXCEPT ![p] = AfterRefresh(p)]
  /\ refreshing' = [refreshing EXCEPT ![p] = NoEvent]
  /\ view' = [view EXCEPT ![p] = "absent"]
  /\ UNCHANGED <<recordVars, rowVars, dead, todo, snap, cur, boundVars, histVars>>

\* The caller gives up: a crash, a statement that fails, or a dead-letter
\* record whose id is taken.  What it has claimed stays "processing".
Abandon(p) ==
  /\ pc' = [pc EXCEPT ![p] = "idle"]
  /\ todo' = [todo EXCEPT ![p] = {}]
  /\ snap' = [snap EXCEPT ![p] = [d \in Deliveries |-> 0]]
  /\ cur' = [cur EXCEPT ![p] = NoDelivery]
  /\ refreshing' = [refreshing EXCEPT ![p] = NoEvent]
  /\ view' = [view EXCEPT ![p] = "absent"]

SaveDeadLetter(p) ==
  /\ pc[p] = "bury"
  /\ <<cur[p], snap[p][cur[p]]>> \notin dead
  /\ dead' = dead \cup {<<cur[p], snap[p][cur[p]]>>}
  /\ pc' = [pc EXCEPT ![p] = IF todo[p] # {} THEN "claimed" ELSE "idle"]
  /\ cur' = [cur EXCEPT ![p] = NoDelivery]
  /\ snap' = [snap EXCEPT ![p][cur[p]] = 0]
  /\ UNCHANGED <<recordVars, outbox, rowVars, todo, refreshing, view, boundVars, histVars>>

\* The primary key of dead_letter_records rejects the row.
DuplicateDeadLetter(p) ==
  /\ pc[p] = "bury"
  /\ <<cur[p], snap[p][cur[p]]>> \in dead
  /\ Abandon(p)
  /\ UNCHANGED <<recordVars, outbox, rowVars, dead, boundVars, histVars>>

-----------------------------------------------------------------------------
(***************************************************************************)
(* Operators.  Both calls list deliveries and then put each of them back   *)
(* to pending, with the attempt count of the listing.  RetryDelivery takes *)
(* any delivery; RetryOutbox leaves out those it has seen dispatched.      *)
(***************************************************************************)
Retry(o, e, rows) ==
  /\ pc[o] = "idle" /\ retries < MaxRetries
  /\ retries' = retries + 1
  /\ todo' = [todo EXCEPT ![o] = rows]
  /\ snap' = [snap EXCEPT ![o] = [d \in Deliveries |-> IF d \in rows THEN attempts[d] ELSE 0]]
  /\ refreshing' = [refreshing EXCEPT ![o] = e]
  /\ pc' = [pc EXCEPT ![o] = IF rows = {} THEN "refresh" ELSE "retrying"]
  /\ UNCHANGED <<recordVars, outbox, rowVars, dead, cur, view, faults, histVars>>

RetryDelivery(o, d) == delivery[d] # "absent" /\ Retry(o, d[1], {d})

RetryOutbox(o, e) ==
  /\ Present(e) # {}
  /\ Retry(o, e, {d \in Present(e) : delivery[d] # "dispatched"})

RetryMark(o, d) ==
  /\ pc[o] = "retrying" /\ d \in todo[o]
  /\ MarkDeliveryFailed(d, "pending", snap[o][d])
  /\ todo' = [todo EXCEPT ![o] = @ \ {d}]
  /\ snap' = [snap EXCEPT ![o][d] = 0]
  /\ pc' = [pc EXCEPT ![o] = IF todo[o] = {d} THEN "refresh" ELSE "retrying"]
  /\ retried' = retried \cup {d}
  /\ UNCHANGED <<recordVars, outbox, dead, cur, refreshing, view, boundVars, delivered>>

\* A crash or a failed statement, wherever the caller is.
Fail(p) ==
  /\ pc[p] # "idle" /\ faults < MaxFaults
  /\ faults' = faults + 1
  /\ Abandon(p)
  /\ UNCHANGED <<recordVars, outbox, rowVars, dead, retries, histVars>>

-----------------------------------------------------------------------------
\* What Record does once it has begun.
RecordStep(e) ==
  \/ \E i \in Dispatchers : SaveOutbox(e, i)
  \/ \E s \in Sinks : RecordDelivery(e, s)

RefreshStep(p) == RefreshRead(p) \/ RefreshWrite(p)

DispatchStep(p) ==
  \/ EnsureRead(p)
  \/ \E batch \in Batches : ClaimPendingDeliveries(p, batch)
  \/ \E d \in Deliveries : EnsureSave(p, d) \/ Deliver(p, d) \/ DeliverFails(p, d)
  \/ MarkDeliveryDispatched(p)
  \/ ScheduleRetry(p)
  \/ MoveToDeadLetter(p)
  \/ RefreshStep(p)
  \/ SaveDeadLetter(p)
  \/ DuplicateDeadLetter(p)

OperatorStep(o) == RefreshStep(o) \/ \E d \in Deliveries : RetryMark(o, d)

Next ==
  \/ \E e \in Events : SaveEvent(e) \/ RecordInTx(e) \/ RecordStep(e) \/ RecordFails(e)
  \/ \E p \in Dispatchers : DispatchStep(p)
  \/ \E o \in Operators :
       \/ OperatorStep(o)
       \/ \E d \in Deliveries : RetryDelivery(o, d)
       \/ \E e \in Events : RetryOutbox(o, e)
  \/ \E p \in Procs : RefreshSkipped(p) \/ Fail(p)

Spec == Init /\ [][Next]_vars

(***************************************************************************)
(* Fairness: the dispatchers poll for ever and a call that has begun goes  *)
(* on.  No operator has to retry, no sink has to succeed, no fault has to  *)
(* happen.                                                                 *)
(***************************************************************************)
Fairness ==
  /\ \A e \in Events : WF_vars(RecordStep(e))
  /\ \A p \in Dispatchers : WF_vars(DispatchStep(p))
  /\ \A o \in Operators : WF_vars(OperatorStep(o))

FairSpec == Spec /\ Fairness

-----------------------------------------------------------------------------
(***************************************************************************)
(* Properties                                                              *)
(***************************************************************************)

\* A delivery is marked dispatched only after Deliver of its sink returned nil:
\* no mark of a dispatcher that was overtaken by an operator invents one.
DispatchedWasDelivered ==
  \A d \in Deliveries : delivery[d] = "dispatched" => delivered[d] > 0

\* The dispatcher p has claimed d and has not stored the outcome.
Holds(p, d) ==
  \/ pc[p] \in {"claimed", "refresh", "computed", "bury"} /\ d \in todo[p]
  \/ pc[p] \in {"delivered", "failed"} /\ (d = cur[p] \/ d \in todo[p])

\* Two dispatchers deal with the same delivery at the same time only if an
\* operator has put it back to pending while one of them was at it
\* (RetryDelivery and RetryOutbox do not look whether it is being processed).
ClaimsAreExclusive ==
  \A p, q \in Dispatchers : \A d \in Deliveries :
    p # q /\ Holds(p, d) /\ Holds(q, d) => d \in retried

\* A sink gets an event again, after it has accepted it, only on the demand of
\* an operator: neither ensureDeliveries racing Record, nor a crash, nor a
\* failed statement makes the dispatchers deliver it twice.
RedeliveryOnlyOnRetry ==
  \A d \in Deliveries : delivered[d] > 1 => d \in retried

StaysDispatched ==
  \A d \in Deliveries :
    delivery[d] = "dispatched" /\ d \notin retried' => delivery'[d] = "dispatched"

\* A delivery leaves "dispatched" only on the demand of an operator: the late
\* verdict of another dispatcher never takes it back.
DispatchedIsFinal == [][StaysDispatched]_vars

\* Unless a process died or a statement failed on the way, what is in
\* dead_letter has a dead-letter record with its attempt count, or its
\* dispatcher is about to save that record, however many dispatchers and
\* operators have had a hand in it.
DeadLetterIsRecorded ==
  faults = 0 =>
    \A d \in Deliveries : delivery[d] = "dead_letter" =>
      \/ <<d, attempts[d]>> \in dead
      \/ \E p \in Dispatchers :
           /\ pc[p] \in {"refresh", "computed", "bury"}
           /\ cur[p] = d /\ snap[p][d] = attempts[d]

\* Once all deliveries of an event are settled and nobody works on them, its
\* outbox record reads dispatched exactly when every sink has the event, and
\* dead_letter exactly when none has: refreshOutboxStatus loses no settlement,
\* unless a fault kept it from running.  (Two dispatchers that refresh the record
\* of the same event at once do lose one.)
OutboxStatusIsCurrent ==
  faults = 0 => \A e \in Events :
    /\ outbox[e] # "absent" /\ Present(e) # {}
    /\ \A d \in Present(e) : delivery[d] \in {"dispatched", "dead_letter"}
    /\ \A p \in Procs : pc[p] \in {"idle", "ensuring"}
    => /\ outbox[e] = "dispatched" <=>
            \A d \in Present(e) : delivery[d] = "dispatched"
       /\ outbox[e] = "dead_letter" <=>
            \A d \in Present(e) : delivery[d] = "dead_letter"

\* A row that ClaimPendingDeliveries moved to processing and whose dispatcher is
\* gone: no poll claims it again.
Stranded(d) == delivery[d] = "processing" /\ \A p \in Dispatchers : ~Holds(p, d)

\* The event of every outbox record is delivered to each sink that accepts it,
\* or ends up in dead_letter for it ("must be processed asynchronously after a
\* successful write transaction"), whatever crashes and failed statements come
\* in between; the one exception is a delivery that a fault strands.
EveryDeliverySettles ==
  \A d \in Deliveries :
    outbox[d[1]] # "absent" /\ d[2] \in Routed[d[1]]
      /\ (\E p \in Dispatchers : d[2] \in Configured[p])
      ~> \/ delivery[d] \in {"dispatched", "dead_letter"}
         \/ faults > 0 /\ Stranded(d)

=============================================================================
