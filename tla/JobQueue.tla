------------------------------ MODULE JobQueue ------------------------------
(***************************************************************************)
(* The background job queue of internal/platform/jobs: a table of job rows *)
(* (job_records) shared by the worker loops of several application         *)
(* instances, by the code that enqueues jobs and by the operators that     *)
(* requeue them.                                                           *)
(*                                                                         *)
(* Every SQL statement of PostgresRepository is one step; a service method *)
(* that issues several statements is several steps, so that whatever       *)
(* another instance does in between is explored.  MemoryRepository runs    *)
(* the same statements under one mutex; the only place where its text      *)
(* differs, the claim predicate, is ClaimableInMemory below.               *)
(*                                                                         *)
(* Time: a lease is kept as the number of ticks it still has to run, and   *)
(* Tick lets one unit of time pass for all rows and heartbeats at once.    *)
(***************************************************************************)
EXTENDS Integers, FiniteSets

CONSTANTS
  Workers,      \* application instances, each with one worker loop
  Clients,      \* concurrent callers of EnqueueUnique and Requeue
  MaxJobs,      \* bound: rows that are ever inserted
  Names,        \* job names
  Registered,   \* the names for which a handler is registered
  Keys,         \* non-empty dedup keys
  NoKey,        \* the empty dedup key: the job is never deduplicated
  MaxAttempts,  \* maxAttempts
  Lease,        \* Service.lease, in ticks
  Limit,        \* Service.limit: rows claimed per poll
  Punctual,     \* the workers that never fall behind the clock (see Tick)
  MaxRequeues,  \* bound: operator requeues
  MaxCrashes,   \* bound: crashes and failed Mark statements
  MaxLosses     \* bound: failed renewals and shutdowns

ASSUME JobQueueAssumption ==
  /\ MaxJobs \in Nat /\ MaxRequeues \in Nat
  /\ MaxCrashes \in Nat /\ MaxLosses \in Nat
  /\ MaxAttempts \in Nat \ {0} /\ Limit \in Nat \ {0}
  /\ Lease \in Nat /\ Lease >= 2
  /\ Names # {} /\ Registered \subseteq Names
  /\ NoKey \notin Keys
  /\ Punctual \subseteq Workers

Jobs        == 1..MaxJobs      \* row ids; the order of the ids is the order of created_at
NoJob       == 0
NoLease     == -1              \* lease_expires_at IS NULL
BeatAtExpiry == Lease          \* mutant: the heartbeat period is the whole lease
BeatPeriod  == Lease \div 2    \* interval of the lease heartbeat
Outcomes    == {"ok", "err"}
RowStatuses == {"absent", "queued", "running", "succeeded", "dead_letter"}
Requests    == Names \X (Keys \cup {NoKey})
NoRequest   == <<>>

VARIABLES
  status,      \* column status; "absent": the row is not inserted yet
  attempts,    \* column attempt_count
  lease,       \* column lease_expires_at, in ticks from now; 0: not after now
  name,        \* column job_name
  key,         \* column dedup_key
  todo,        \* items of the worker's claimed batch that are not settled yet
  snap,        \* job.AttemptCount of those items, as returned by the claim
  pc,          \* where the worker is inside processOnce
  cur,         \* the item whose handler runs, or whose outcome is to be stored
  beat,        \* ticks until the next heartbeat of cur
  beatErr,     \* workers for which RenewLease failed: the heartbeat of cur is over
  outcome,     \* "ok" when err == nil after the handler returned
  loop,        \* "up", "stopping" (context cancelled) or "down"
  inserting,   \* the request a client has checked and is about to insert
  requeueing,  \* the row a client has read and is about to requeue
  requeues,    \* operator requeues so far
  crashes,     \* batches lost to a crash or a failed Mark statement so far
  losses,      \* heartbeats lost to a failed renewal or a shutdown so far
  handled      \* history: jobs of which some handler call returned nil

rowVars    == <<status, attempts, lease, name, key>>
workerVars == <<todo, snap, pc, cur, beat, beatErr, outcome, loop>>
clientVars == <<inserting, requeueing, requeues>>
faultVars  == <<crashes, losses>>
vars == <<rowVars, workerVars, clientVars, faultVars, handled>>

TypeOK ==
  /\ status \in [Jobs -> RowStatuses]
  /\ attempts \in [Jobs -> Nat]
  /\ lease \in [Jobs -> NoLease..Lease]
  /\ name \in [Jobs -> Names]
  /\ key \in [Jobs -> Keys \cup {NoKey}]
  /\ todo \in [Workers -> SUBSET Jobs]
  /\ snap \in [Workers -> [Jobs -> Nat]]
  /\ pc \in [Workers -> {"idle", "handling", "returned"}]
  /\ cur \in [Workers -> Jobs \cup {NoJob}]
  /\ beat \in [Workers -> 0..BeatPeriod]
  /\ beatErr \in SUBSET Workers
  /\ outcome \in [Workers -> Outcomes]
  /\ loop \in [Workers -> {"up", "stopping", "down"}]
  /\ inserting \in [Clients -> Requests \cup {NoRequest}]
  /\ requeueing \in [Clients -> Jobs \cup {NoJob}]
  /\ requeues \in 0..MaxRequeues
  /\ crashes \in 0..MaxCrashes
  /\ losses \in 0..MaxLosses
  /\ handled \in SUBSET Jobs

Init ==
  /\ status = [j \in Jobs |-> "absent"]
  /\ attempts = [j \in Jobs |-> 0]
  /\ lease = [j \in Jobs |-> NoLease]
  /\ name = [j \in Jobs |-> CHOOSE n \in Names : TRUE]
  /\ key = [j \in Jobs |-> NoKey]
  /\ todo = [w \in Workers |-> {}]
  /\ snap = [w \in Workers |-> [j \in Jobs |-> 0]]
  /\ pc = [w \in Workers |-> "idle"]
  /\ cur = [w \in Workers |-> NoJob]
  /\ beat = [w \in Workers |-> BeatPeriod]
  /\ beatErr = {}
  /\ outcome = [w \in Workers |-> "err"]
  /\ loop = [w \in Workers |-> "up"]
  /\ inserting = [c \in Clients |-> NoRequest]
  /\ requeueing = [c \in Clients |-> NoJob]
  /\ requeues = 0
  /\ crashes = 0
  /\ losses = 0
  /\ handled = {}

-----------------------------------------------------------------------------
(***************************************************************************)
(* Statements of the repository: what they do to the columns of row j.     *)
(***************************************************************************)

\* SET status = st, lease_expires_at = NULL WHERE job_id = j: the UPDATE of
\* MarkSucceeded, MarkFailed and Requeue.
SetStatus(j, st) ==
  /\ status' = [status EXCEPT ![j] = st]
  /\ lease' = [lease EXCEPT ![j] = NoLease]
  /\ UNCHANGED <<attempts, name, key>>

\* Mutant: the renewal forgets AND status = 'running'.
RenewLeaseAnyStatus(j) ==
  /\ lease' = [lease EXCEPT ![j] = Lease]
  /\ UNCHANGED <<status, attempts, name, key>>

\* UPDATE ... WHERE job_id = $2 AND status = 'running'
RenewLease(j) ==
  /\ lease' = [lease EXCEPT ![j] = IF status[j] = "running" THEN Lease ELSE @]
  /\ UNCHANGED <<status, attempts, name, key>>

\* Mutant: a claim of an expired lease is not counted as an attempt.
NextAttemptUncounted(j) == IF status[j] = "running" THEN attempts[j] ELSE attempts[j] + 1

\* attempt_count + 1, as RETURNING hands it to the worker.
NextAttempt(j) == attempts[j] + 1

\* Mutant: expired leases are never taken over.
ClaimableQueuedOnly(j) == status[j] = "queued" /\ lease[j] = NoLease

\* status IN ('queued','running') AND (lease_expires_at IS NULL OR lease_expires_at <= now)
Claimable(j) == status[j] \in {"queued", "running"} /\ lease[j] \in {NoLease, 0}

\* The same question as MemoryRepository.ClaimPending asks it.
ClaimableInMemory(j) ==
  \/ status[j] = "queued"
  \/ status[j] = "running" /\ lease[j] # NoLease /\ lease[j] <= 0

ClaimableJobs == {j \in Jobs : Claimable(j)}

\* ORDER BY created_at ASC LIMIT n
Oldest(S, n) == {j \in S : Cardinality({i \in S : i < j}) < n}

First(S, j) == j \in S /\ \A i \in S : j <= i

Taken(k) == k # NoKey /\ \E j \in Jobs : status[j] # "absent" /\ key[j] = k

-----------------------------------------------------------------------------
(***************************************************************************)
(* Producers: EnqueueUniqueDetailed and PostgresRepository.Enqueue.        *)
(***************************************************************************)

\* findByDedupKey finds nothing; otherwise the existing job is returned and
\* no state changes.
EnqueueFind(c, n, k) ==
  /\ inserting[c] = NoRequest /\ requeueing[c] = NoJob
  /\ Cardinality({j \in Jobs : status[j] = "absent"})
       > Cardinality({d \in Clients : inserting[d] # NoRequest})
  /\ ~Taken(k)
  /\ inserting' = [inserting EXCEPT ![c] = <<n, k>>]
  /\ UNCHANGED <<rowVars, workerVars, requeueing, requeues, faultVars, handled>>

InsertRow(j, request) ==
  /\ status' = [status EXCEPT ![j] = "queued"]
  /\ attempts' = [attempts EXCEPT ![j] = 0]
  /\ lease' = [lease EXCEPT ![j] = NoLease]
  /\ name' = [name EXCEPT ![j] = request[1]]
  /\ key' = [key EXCEPT ![j] = request[2]]

\* Mutant: no UNIQUE constraint on dedup_key.
EnqueueInsertUnguarded(c) ==
  /\ inserting[c] # NoRequest
  /\ inserting' = [inserting EXCEPT ![c] = NoRequest]
  /\ \E j \in Jobs :
       /\ First({i \in Jobs : status[i] = "absent"}, j)
       /\ InsertRow(j, inserting[c])
  /\ UNCHANGED <<workerVars, requeueing, requeues, faultVars, handled>>

\* INSERT INTO job_records.  The UNIQUE constraint on dedup_key rejects the row
\* of a client that lost the race; it then returns the winner's row.
EnqueueInsert(c) ==
  /\ inserting[c] # NoRequest
  /\ inserting' = [inserting EXCEPT ![c] = NoRequest]
  /\ \/ /\ Taken(inserting[c][2])
        /\ UNCHANGED rowVars
     \/ /\ ~Taken(inserting[c][2])
        /\ \E j \in Jobs :
             /\ First({i \in Jobs : status[i] = "absent"}, j)
             /\ InsertRow(j, inserting[c])
  /\ UNCHANGED <<workerVars, requeueing, requeues, faultVars, handled>>

(***************************************************************************)
(* Operators: Service.Requeue reads the row, refuses a running one, leaves *)
(* a queued one alone, and then updates it whatever it has become.         *)
(***************************************************************************)
RequeueGet(c, j) ==
  /\ inserting[c] = NoRequest /\ requeueing[c] = NoJob
  /\ requeues < MaxRequeues
  /\ status[j] \in {"succeeded", "dead_letter"}
  /\ requeueing' = [requeueing EXCEPT ![c] = j]
  /\ requeues' = requeues + 1
  /\ UNCHANGED <<rowVars, workerVars, inserting, faultVars, handled>>

RequeueWrite(c) ==
  /\ requeueing[c] # NoJob
  /\ SetStatus(requeueing[c], "queued")
  /\ requeueing' = [requeueing EXCEPT ![c] = NoJob]
  /\ UNCHANGED <<workerVars, inserting, requeues, faultVars, handled>>

-----------------------------------------------------------------------------
(***************************************************************************)
(* The worker: Service.loop and processOnce.                               *)
(***************************************************************************)

\* The ticker fired and ClaimPending returned a batch.  A loop whose context
\* is cancelled may still get here: its select chooses between the two ready
\* channels at random.
ClaimPending(w) ==
  /\ pc[w] = "idle" /\ todo[w] = {} /\ loop[w] # "down"
  /\ ClaimableJobs # {}
  /\ LET batch == Oldest(ClaimableJobs, Limit) IN
       /\ status' = [j \in Jobs |-> IF j \in batch THEN "running" ELSE status[j]]
       /\ attempts' = [j \in Jobs |-> IF j \in batch THEN NextAttempt(j) ELSE attempts[j]]
       /\ lease' = [j \in Jobs |-> IF j \in batch THEN Lease ELSE lease[j]]
       /\ todo' = [todo EXCEPT ![w] = batch]
       /\ snap' = [snap EXCEPT ![w] =
                     [j \in Jobs |-> IF j \in batch THEN NextAttempt(j) ELSE 0]]
  /\ UNCHANGED <<name, key, pc, cur, beat, beatErr, outcome, loop, clientVars, faultVars, handled>>

\* The item of the batch has been stored: on to the next one.
ItemDone(w, j) ==
  /\ todo' = [todo EXCEPT ![w] = @ \ {j}]
  /\ snap' = [snap EXCEPT ![w][j] = 0]
  /\ pc' = [pc EXCEPT ![w] = "idle"]
  /\ cur' = [cur EXCEPT ![w] = NoJob]
  /\ outcome' = [outcome EXCEPT ![w] = "err"]

\* No handler is registered: straight to dead_letter.
MissingHandler(w, j) ==
  /\ pc[w] = "idle" /\ First(todo[w], j) /\ name[j] \notin Registered
  /\ SetStatus(j, "dead_letter")
  /\ ItemDone(w, j)
  /\ UNCHANGED <<beat, beatErr, loop, clientVars, faultVars, handled>>

\* startLeaseHeartbeat and the call of the handler.
StartHandler(w, j) ==
  /\ pc[w] = "idle" /\ First(todo[w], j) /\ name[j] \in Registered
  /\ pc' = [pc EXCEPT ![w] = "handling"]
  /\ cur' = [cur EXCEPT ![w] = j]
  /\ beat' = [beat EXCEPT ![w] = BeatPeriod]
  /\ beatErr' = beatErr \ {w}
  /\ UNCHANGED <<rowVars, todo, snap, outcome, loop, clientVars, faultVars, handled>>

\* The heartbeat goroutine runs: its context is neither cancelled by Stop nor
\* by a failed renewal.
Beating(w) == pc[w] = "handling" /\ loop[w] = "up" /\ w \notin beatErr

Heartbeat(w) ==
  /\ Beating(w) /\ beat[w] = 0
  /\ RenewLease(cur[w])
  /\ beat' = [beat EXCEPT ![w] = BeatPeriod]
  /\ UNCHANGED <<todo, snap, pc, cur, beatErr, outcome, loop, clientVars, faultVars, handled>>

\* The renewal fails: the handler's context is cancelled, the goroutine ends.
HeartbeatFails(w) ==
  /\ Beating(w) /\ beat[w] = 0
  /\ losses < MaxLosses
  /\ beatErr' = beatErr \cup {w}
  /\ losses' = losses + 1
  /\ UNCHANGED <<rowVars, todo, snap, pc, cur, beat, outcome, loop, clientVars, crashes, handled>>

\* The handler returns and stopRenew ends the heartbeat; a failed renewal turns
\* the success of the handler into a failure.
HandlerReturns(w, result) ==
  /\ pc[w] = "handling"
  /\ pc' = [pc EXCEPT ![w] = "returned"]
  /\ outcome' = [outcome EXCEPT ![w] = IF w \in beatErr THEN "err" ELSE result]
  /\ handled' = IF result = "ok" THEN handled \cup {cur[w]} ELSE handled
  /\ beat' = [beat EXCEPT ![w] = BeatPeriod]
  /\ beatErr' = beatErr \ {w}
  /\ UNCHANGED <<rowVars, todo, snap, cur, loop, clientVars, faultVars>>

MarkSucceeded(w) ==
  /\ pc[w] = "returned" /\ outcome[w] = "ok"
  /\ SetStatus(cur[w], "succeeded")
  /\ ItemDone(w, cur[w])
  /\ UNCHANGED <<beat, beatErr, loop, clientVars, faultVars, handled>>

\* Mutants: the limit is off by one; a failed attempt is stored as "failed".
FailedStatusEarly(attempt) == IF attempt + 1 >= MaxAttempts THEN "dead_letter" ELSE "queued"
FailedStatusFailed(attempt) == IF attempt >= MaxAttempts THEN "failed" ELSE "queued"

\* Retry, or dead_letter once the attempt count read by the claim is used up.
FailedStatus(attempt) == IF attempt >= MaxAttempts THEN "dead_letter" ELSE "queued"

MarkFailed(w) ==
  /\ pc[w] = "returned" /\ outcome[w] = "err"
  /\ SetStatus(cur[w], FailedStatus(snap[w][cur[w]]))
  /\ ItemDone(w, cur[w])
  /\ UNCHANGED <<beat, beatErr, loop, clientVars, faultVars, handled>>

\* The rest of the batch is forgotten; its rows stay "running" in the table.
DropBatch(w) ==
  /\ todo' = [todo EXCEPT ![w] = {}]
  /\ snap' = [snap EXCEPT ![w] = [j \in Jobs |-> 0]]
  /\ pc' = [pc EXCEPT ![w] = "idle"]
  /\ cur' = [cur EXCEPT ![w] = NoJob]
  /\ outcome' = [outcome EXCEPT ![w] = "err"]
  /\ beat' = [beat EXCEPT ![w] = BeatPeriod]
  /\ beatErr' = beatErr \ {w}
  /\ crashes < MaxCrashes
  /\ crashes' = crashes + 1
  /\ UNCHANGED <<rowVars, clientVars, losses, handled>>

\* A Mark statement fails: processOnce returns its error, the loop goes on.
MarkError(w) ==
  /\ \/ pc[w] = "returned"
     \/ pc[w] = "idle" /\ \E j \in Jobs : First(todo[w], j) /\ name[j] \notin Registered
  /\ DropBatch(w)
  /\ UNCHANGED loop

\* The process dies, in the middle of a handler or between two statements,
\* and is started again.
Crash(w) ==
  /\ todo[w] # {}
  /\ DropBatch(w)
  /\ loop' = [loop EXCEPT ![w] = "up"]

-----------------------------------------------------------------------------
(***************************************************************************)
(* Service.Stop and Start, and time.                                       *)
(***************************************************************************)
Stop(w) ==
  /\ loop[w] = "up" /\ losses < MaxLosses
  /\ loop' = [loop EXCEPT ![w] = "stopping"]
  /\ losses' = losses + 1
  /\ UNCHANGED <<rowVars, todo, snap, pc, cur, beat, beatErr, outcome, clientVars, crashes, handled>>

\* The loop sees the cancelled context once its batch is finished.
LoopExits(w) ==
  /\ loop[w] = "stopping" /\ pc[w] = "idle" /\ todo[w] = {}
  /\ loop' = [loop EXCEPT ![w] = "down"]
  /\ UNCHANGED <<rowVars, todo, snap, pc, cur, beat, beatErr, outcome, clientVars, faultVars, handled>>

Start(w) ==
  /\ loop[w] = "down"
  /\ loop' = [loop EXCEPT ![w] = "up"]
  /\ UNCHANGED <<rowVars, todo, snap, pc, cur, beat, beatErr, outcome, clientVars, faultVars, handled>>

\* A worker keeps up with the clock when it has nothing to do but wait for its
\* handler, and no heartbeat of that handler is overdue.
KeepsUp(w) ==
  \/ pc[w] = "idle" /\ todo[w] = {}
  \/ pc[w] = "handling" /\ (beat[w] > 0 \/ ~Beating(w))

\* One unit of time.  It waits for the workers in Punctual; the others may be
\* paused for any length of time between any two of their steps.
Tick ==
  /\ \A w \in Punctual : KeepsUp(w)
  /\ lease' = [j \in Jobs |-> IF lease[j] > 0 THEN lease[j] - 1 ELSE lease[j]]
  /\ beat' = [w \in Workers |-> IF Beating(w) /\ beat[w] > 0 THEN beat[w] - 1 ELSE beat[w]]
  /\ UNCHANGED <<status, attempts, name, key, todo, snap, pc, cur, beatErr, outcome, loop,
                 clientVars, faultVars, handled>>

-----------------------------------------------------------------------------
ClientStep(c) ==
  \/ \E n \in Names, k \in Keys \cup {NoKey} : EnqueueFind(c, n, k)
  \/ EnqueueInsert(c)
  \/ \E j \in Jobs : RequeueGet(c, j)
  \/ RequeueWrite(c)

\* What the worker loop does by itself.
WorkerStep(w) ==
  \/ ClaimPending(w)
  \/ \E j \in Jobs : MissingHandler(w, j) \/ StartHandler(w, j)
  \/ Heartbeat(w)
  \/ MarkSucceeded(w)
  \/ MarkFailed(w)

FaultStep(w) == HeartbeatFails(w) \/ MarkError(w) \/ Crash(w) \/ Stop(w)

Next ==
  \/ \E c \in Clients : ClientStep(c)
  \/ \E w \in Workers :
       \/ WorkerStep(w)
       \/ \E result \in Outcomes : HandlerReturns(w, result)
       \/ FaultStep(w)
       \/ LoopExits(w)
       \/ Start(w)
  \/ Tick

Spec == Init /\ [][Next]_vars

(***************************************************************************)
(* Fairness: the loop is a goroutine that polls for ever, time passes, a   *)
(* handler call ends, a stopped instance is started again and a request    *)
(* that has begun issues its second statement.  Nothing obliges a client   *)
(* to begin a request, and no fault ever has to happen.                    *)
(***************************************************************************)
Fairness ==
  /\ WF_vars(Tick)
  /\ \A w \in Workers :
       /\ WF_vars(WorkerStep(w))
       /\ WF_vars(\E result \in Outcomes : HandlerReturns(w, result))
       /\ WF_vars(LoopExits(w) \/ Start(w))
  /\ \A c \in Clients : WF_vars(EnqueueInsert(c) \/ RequeueWrite(c))

FairSpec == Spec /\ Fairness

-----------------------------------------------------------------------------
(***************************************************************************)
(* Properties                                                              *)
(***************************************************************************)

\* PostgresRepository and MemoryRepository.ClaimPending agree on every row that
\* can be in the table, although one looks at the lease of a queued row and the
\* other does not, and only one of them takes a running row without a lease.
RepositoriesAgree ==
  \A j \in Jobs : Claimable(j) <=> ClaimableInMemory(j)

\* processOnce gives up on a job only when its attempts are used up or nobody
\* handles its name, even when the verdict comes from a worker that lost the
\* job to another one long ago and counts with the attempt number of its claim.
DeadLetterIsDeserved ==
  \A j \in Jobs : status[j] = "dead_letter" =>
    attempts[j] >= MaxAttempts \/ name[j] \notin Registered

\* A job is reported as succeeded only after a call of its handler returned
\* nil: no interleaving of late marks, renewals and requeues invents a success.
SuccessWasHandled ==
  \A j \in Jobs : status[j] = "succeeded" => j \in handled

\* Concurrent EnqueueUnique calls with the same dedup key create one job.
OneJobPerKey ==
  \A i, j \in Jobs :
    status[i] # "absent" /\ status[j] # "absent"
      /\ key[i] = key[j] /\ key[i] # NoKey => i = j

\* The attempt number a claim returns identifies the execution: workers that
\* hold the same job at the same time hold it under different attempt numbers,
\* none of them greater than the one in the table.  (It could serve as the
\* fencing token that the Mark statements do not check.)
AttemptNumbersAreUnique ==
  \A w \in Workers : \A j \in todo[w] :
    /\ snap[w][j] <= attempts[j]
    /\ \A v \in Workers \ {w} : j \in todo[v] => snap[v][j] # snap[w][j]

\* As long as no renewal has failed and no instance was shut down, two workers
\* whose heartbeats both run never execute the same job: the renewals at half
\* the lease keep it from being claimed again, and a worker that takes over an
\* expired lease takes it from one that is gone.
HeartbeatExcludesOthers ==
  losses = 0 =>
    \A w, v \in Workers :
      w # v /\ Beating(w) /\ Beating(v) => cur[w] # cur[v]

\* Every job that is waiting or running is eventually settled, whatever crashes,
\* shutdowns, failed statements and requeues (finitely many) come in between.
EveryJobSettles ==
  \A j \in Jobs : status[j] \in {"queued", "running"}
                    ~> status[j] \in {"succeeded", "dead_letter"}

\* A queued and a running row are both an open job.
Phases == [j \in Jobs |-> IF status[j] \in {"queued", "running"} THEN "open" ELSE status[j]]

Contract == INSTANCE JobContract WITH phase <- Phases, tries <- attempts

\* Whatever workers and clients do at the same time, and whatever is lost, the
\* rows only ever change as the contract of the queue allows.
ImplementsContract == Contract!Spec

=============================================================================
