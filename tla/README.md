# Orbyte: models, model checking and proofs

Orbyte is an application kernel in Go: typed records and documents with a
lifecycle, approvals, a transactional outbox, background jobs, integrations and
several front doors (HTTP, MCP, ACP agents) over one Postgres database. Several
instances of the process share that database. This directory holds TLA+ models
of the parts in which independent activities meet in shared tables, the TLC
configurations that check them on small instances, and TLAPS proofs of their
main properties for all values of the parameters.

`PROJECT.json` is the index: components, runs, a mutant for every checked
property, the map from definitions to source lines, findings, hazards, theorems.

## 1. Inventory of the system

All paths are below `src/internal/platform/`.

| component | state | operations | what is hard | module |
|---|---|---|---|---|
| `jobs` | `job_records`: status, attempt count, lease, dedup key; per instance a claimed batch, a heartbeat, a worker loop | EnqueueUnique, ClaimPending, RenewLease, MarkSucceeded, MarkFailed, Requeue, Start, Stop | several instances on one table; leases that run out; marks without an owner check; crashes; late heartbeats | `JobQueue` |
| `eventing` | `domain_events`, `outbox_records`, `outbox_deliveries`, `dead_letter_records`; per instance a dispatcher | Record, outbox write inside a unit of work, DispatchPending (ensure, claim, deliver, mark, refresh), RetryDelivery, RetryOutbox | claim without a lease; two statements per status refresh; operator retries with stale counts; partial failures | `Outbox` |
| `application` (document actions), `workflow` | `document_records`, `workflow_tasks`, `workflow_approvals`, audit and domain events; published workflow versions | UpdateDraft, UpdateExtension, Submit, Approve (stages, quorum), Reject, Reopen, Cancel, PublishDefinition | decisions from reads outside the transaction; one optimistic version check; listings that hide errors; ids reused after reopen | `DocumentLifecycle` |
| `document` | the same record, `document_links`, `document_attachments` | Create, AddLink, RemoveLink, AddAttachment, RemoveAttachment, ReplaceLines, ReplaceExtension, Delete | writes of the whole record without the version check | `DocumentLinks` (links and attachments) |
| `idempotency` | record per key | Execute | check, run, record without reservation | `IntegrationSubmission` |
| `integration` | submissions, attempts, dead letters | CreateDelivery, ProcessSubmission, RetrySubmission, ReplayDeadLetter | job and operator race on one record; saves whose errors are ignored | `IntegrationSubmission` |
| `application` (commercial core) | invoices, payments, credit notes, refunds (documents), ledger postings and their links | approve and cancel with their effects, AllocatePaymentReceipt, documents generated from others | effects after the commit, in several statements, on several documents, without a version check; errors are warnings | `Receivables` |
| `application` (leave policy core) | `leave_request`, `leave_balance_entry`, `leave_balance_account`, accrual runs (model records) | create, edit, submit, amend, approve by stages, reject, cancel, ExecuteAccrualRun | a ledger, a cached balance and the requests, each written by its own statement | `LeaveBalance` |
| `engagement` | program versions, subject states, replay runs | events, replay | replay clears state under live events | planned |
| `acp` | sessions, pending RPC calls, tool approvals | call, readLoop, approve | calls that are never answered | planned |
| `identity` | sessions, challenges, deep links, delegations | issue, consume, expire | one-time use | planned |
| `notification`, `audit` | append-only rows | issue, mark read | little; part of `DocumentLifecycle` (`trail`, `announced`) | partly |
| `model`, other business cores | typed records | create, update, actions | go through units of work and the outbox, or act like the receivables | `Outbox!RecordInTx` only |
| `offline` | bundles | build, replay | calls document and model actions | not modelled |
| `policy`, `authz`, `securityfields` | none | pure decisions | - | a denial is `Abort` |
| `search`, `analytics`, `reporting`, `templateoutput`, `dataops` | derived data | queries, rendering | - | not modelled |
| `httpx`, `mcp`, `app` | - | decoding and wiring | - | not modelled |

How they interact: a document action stores the document, its tasks and
approvals, the audit event, the domain event and the outbox record in one
transaction (`DocumentLifecycle!Store`, `Outbox!RecordInTx`); the dispatcher of
some instance later creates the deliveries of that record and hands the event
to the local handlers and to a broker; handlers and services enqueue jobs, which
the worker of some instance claims and executes; integration submissions,
imports and replays run as such jobs.

What makes each component correct:

* jobs: a claimed job is executed by one live worker; a job is given up only
  when its attempts are used up; success is never invented; one job per dedup
  key; every job is eventually settled;
* eventing: an event reaches each sink, once unless an operator asks for more;
  `dispatched` means delivered and is final; a dead letter can be found; the
  status of the outbox record tells the truth;
* documents: versions form one chain without loss; exactly one approval is
  pending while a document is submitted; approval means every stage had its
  approvers, none of them the requester where the policy says so; edits do not
  overwrite each other; a resolved approval stays resolved;
* integrations: one submission per idempotency key; nothing is sent to the other
  system without being asked for; the attempt count covers what was sent; what is
  given up can be found; an accepted submission gets an outcome;
* receivables: nothing is paid or refunded beyond its amount; the amounts on the
  documents, the status of the documents and the ledger agree;
* leave: account, ledger and requests agree; an approved leave is charged once,
  was approved by the approvers of every stage and was covered by the balance.

## 2. The modules

Every SQL statement is one step, and so is every Postgres transaction; a Go
function that issues several statements is several steps, with the other
processes free to act in between. Payloads, texts, logs, metrics and times that
no property depends on are left out.

### JobQueue

Rows (`status`, `attempts`, `lease`, `name`, `key`) are the columns of
`job_records`. `todo`, `snap`, `pc`, `cur`, `beat`, `beatErr`, `outcome`, `loop`
are the local variables of `processOnce`, of the heartbeat goroutine and of the
loop of each instance. `inserting` and `requeueing` are clients between two
statements. A lease is the number of ticks left; `Tick` advances time, and waits
for the workers in `Punctual` to do what is due. The other workers may be late
by any amount between any two steps, which models pauses of a process.

`EnqueueFind`/`EnqueueInsert` are EnqueueUniqueDetailed, `RequeueGet`/
`RequeueWrite` are Requeue, `ClaimPending` is the claim statement,
`MissingHandler`, `StartHandler`, `Heartbeat`, `HeartbeatFails`,
`HandlerReturns`, `MarkSucceeded`, `MarkFailed`, `MarkError` are processOnce and
startLeaseHeartbeat, `Crash`, `Stop`, `LoopExits`, `Start` the life of an
instance. The in-memory repository has the same statements under a mutex; its
claim predicate, written differently, is `ClaimableInMemory`, and
`RepositoriesAgree` compares the two.

### JobContract

What the queue promises to its users, in five variables and seven actions: a job
is accepted once per dedup key, tried any number of times, succeeds only after a
handler returned nil, is given up only after its attempts or for want of a
handler, and may be opened again. `JobQueue!Contract` instantiates it with
`phase` computed from the status column and `tries` from the attempt count;
`ImplementsContract` is the refinement. `IntegrationSubmission` uses the same
module, so that what is checked there rests on what is proved here.

### Outbox

Tables: `outbox`, `delivery`, `attempts`, `dead`. A producer is Record
(`SaveEvent`, `SaveOutbox`, `RecordDelivery`, one statement each) or a unit of
work (`RecordInTx`). A dispatcher polls: `EnsureRead`, `EnsureSave`,
`ClaimPendingDeliveries`, then per delivery `Deliver` or `DeliverFails`,
`MarkDeliveryDispatched`, `ScheduleRetry` or `MoveToDeadLetter`,
`RefreshRead`/`RefreshWrite`, `SaveDeadLetter`. An operator runs
`RetryDelivery` or `RetryOutbox`, then `RetryMark` per row, then the refresh.
`Fail`, `RecordFails`, `RefreshSkipped`, `DuplicateDeadLetter` are crashes,
failing statements, the listing error that is swallowed and the primary-key
collision. `delivered` and `retried` are history variables. Routing (`Routed`) and
the sinks of an instance (`Configured`) are parameters. Sinks and the broker are
external: a call of one succeeds or fails.

### DocumentLifecycle

One document (documents share no row), its rows of `workflow_approvals` and
`workflow_tasks` per stage, the audit trail, and requests. A request reads the
document and its workflow rule (`BeginAction`, `BeginEdit`), checks the actor
(`Decide`), finds out what an approval amounts to (`Progress`: more votes needed,
next stage, final), lists the approvals and then the tasks to resolve
(`ResolveApprovals`, `ResolveTasks`), and stores everything in one transaction
conditional on the version (`Store`, `StoreFails`); after the commit it issues
links and notifications (`PublishArtifacts`). `Abort` is a denial by policy, an
error or a crash at any point. A listing that fails returns nothing (`Listed`),
as `ListApprovals` and `ListTasks` do. `Publish` publishes another version of
the workflow; versions differ in `Strict`, the rules that want another actor.

### DocumentLinks

`DocumentLinks` extends `DocumentLifecycle` with the writers of the document
service: they read the record, list the links, replace the list and then upsert
the whole record they have read (`AddLink`, `RemoveLink`, `ListLinks`,
`SaveLinks`, `SaveRecord`, `LinkAbort`). Attachments have the same code.

The theorems and the passing runs of `DocumentLifecycle` are about the writers
in `DocumentActions`. Section 4 says what the writers of `DocumentLinks` break.

### IntegrationSubmission

`sub`, `dead` and `idem` are the rows of `integration_submissions`,
`integration_dead_letters` and of the idempotency records; the job queue is an
instance of `JobContract`. A thread is an HTTP handler or a job worker with the
list of statements it still has to execute: `Create`, `Find`, `Insert`,
`Enqueue`, `Record` are POST submissions inside `idempotency.Execute`; `Get`,
`Begin`, `Execute`, `Bury`, `Store` are ProcessSubmission and failSubmission;
`Read`, `Requeue` precede them in RetrySubmission; `Claim`, `Return`, `Mark` are
the job around either. Operators `Post`, `ReplayDeadLetter`, `RequeueJob`. Faults:
`Crash`, `PreflightFails`, `EnqueueFails` and `PostFails` (the request then does
the work itself), `SaveFails`, `MarkFails`, and a claim of a job whose lease was
lost while its worker still runs. The adapter is external: it answers, or fails
in a retryable or a permanent way. `overlaps` and `unsaved` are history variables
that name the cases in which a property is not claimed.

### Receivables

The invoice and the payments, credit notes and refunds around it, all with the
amounts the effects compute with. An action of the workflow (`Approve`,
`ApproveStage`, `Cancel`, `AllocatePayment`) commits, and puts the statements of
HandleAction on the list of its handler: `read` a document and change the copy
(`Changed`, or `ReadRefused`), `save` the copy over the row, `post` to the ledger,
`link` the posting. `Effect` is that list for every kind of document and action.
`ApplyAllocation`, `ReverseAllocation`, `CreditInvoice`, `RefundInvoice` and
`BuildShares` are the arithmetic, in whole units of the money the code rounds to.
`Fail` ends an effect anywhere. `clean` says that so far every effect ran alone,
to its end, and for a document whose approval or allocation made it due.

### LeaveBalance

The requests of one employee under one policy, the entries of the ledger in the
order of their creation, and the account. An operation reads the request and has
a list of statements: entries are appended (`Insert`, `Reserve`, `Consume`), the
account is recomputed from one page of the ledger after each (`Sum`, `Store`),
the request is saved last with the check of its version before the write and not
in it (`Check`, `Save`), as models.Update does. `Turn`, `Reread`, `Open` are the
annual carry-forward and its expiry. `by` is a history variable: who approved
the request as it is now, in which stage.

## 3. Runs

| run | bounds | properties |
|---|---|---|
| `jobs_safety` | 2 workers, late by any amount; 2 clients; 2 rows, claimed one at a time; 2 attempts; 1 requeue; 1 failed renewal or shutdown; a name without handler; one dedup key | `TypeOK`, `RepositoriesAgree`, `DeadLetterIsDeserved`, `AttemptNumbersAreUnique`, `ImplementsContract` |
| `jobs_liveness` | 2 punctual workers; 1 row; a name without handler; 2 crashes or failed marks; 2 requeues; 1 failed renewal or shutdown | `HeartbeatExcludesOthers`, `EveryJobSettles` |
| `outbox_safety` | 2 dispatchers, 1 operator, 1 event and sink, 2 attempts, 2 retries, 1 fault | `TypeOK`, `RedeliveryOnlyOnRetry`, `DispatchedWasDelivered`, `ClaimsAreExclusive`, `DeadLetterIsRecorded`, `DispatchedIsFinal` |
| `outbox_liveness` | 1 dispatcher, 2 events, 3 deliveries, batches of 2, 2 attempts, 1 fault | `OutboxStatusIsCurrent`, `EveryDeliverySettles` |
| `document_stages` | 2 requests, 3 users, 2 stages (2 votes, 1 vote), 2 workflow versions, 2 parts of the payload, 5 document versions | `TypeOK`, `PendingIffSubmitted`, `ApprovedInEveryStage`, `RequesterDoesNotApprove`, `TrailIsComplete`, `ApprovalIsResolvedOnce`, `PayloadIsNotOverwritten` |
| `links_safety` | 1 request, 2 link calls, 2 links, 2 versions, 1 failed listing | `LinksTypeOK`, `AddedLinkIsKept` |
| `receivables_safety` | 2 handlers, 2 payments (one of 2 with 1 allocated; one of 1, or generated from the invoice), 1 credit note of 1 or 2, 1 refund, an invoice of 2, 5 effects, 1 upset (overlap, failure, early stage, rejection or reopening) | `TypeOK`, `LimitsHold`, `PostedOnce`, `BooksAgree`, `PostingsFollowStatus` |
| `leave_safety` | 2 handlers, 2 requests, 2 users, 1 stage of 2 approvers, opening balance 2, 2 annual runs with carry-forward, 4 operations, 1 upset | `TypeOK`, `RequestsNameTheirEntries`, `AccountMatchesRequests`, `NotOverdrawn`, `ApprovedByAll` |
| `integration_safety` | 2 threads, 1 submission, 2 attempts of it and of its jobs, 2 operations, both kinds of jobs posted at will, 1 fault | `TypeOK`, `SendsWereAsked`, `AttemptsCoverSends`, `DeadLetterIsListed` |
| `integration_keys` | 2 threads, 2 submissions, 1 idempotency key and requests without one, 2 operations, 1 fault | `OneSubmissionPerKey`, `EverySubmissionSettles` |
| `document_reopen` | 2 requests, 1 user, no stage, 5 versions | `CurrentRequestCanBeStored` is violated |
| `receivables_cancel` | 1 handler, 2 payments, no upset | `CancelledWithoutPayments` is violated |

Why the bounds are enough. Two processes of a kind are the smallest number that
race; every race in these protocols is between the process that read something
and one that changed it. Two attempts are a retry and a last attempt. Two rows
let one wait behind a full batch (`jobs_safety`). One fault may hit any step, and
for jobs, outbox and lifecycle what a second one could add is covered by the
theorems, which have no bound on faults. Five versions take a document through
submit, two votes and a second stage. A lease of two ticks with a heartbeat every
tick is the smallest with a beat strictly before expiry. Five effects issue an
invoice, receive a payment, credit and refund it and cancel one of them, or
receive, allocate and cancel two payments; an invoice of 2 tells part payment from
full payment. Four operations submit, approve twice and amend or cancel a leave,
or run two years around a submission; the ledger then has fewer entries than a page.
The constants that only bound the exploration are marked `bound` where they are
declared.

Symmetry is declared for workers, clients, dispatchers, requests, users, links,
handlers and threads, which nothing orders, and never in a run with a
liveness property.

Deadlock is checked for jobs and outbox, where time and polling never stop. The
other runs say `CHECK_DEADLOCK FALSE`: a cancelled document accepts no further
operation, and bounded operations are used up.

### Fairness

`JobQueue!Fairness`: time passes; a worker loop takes its next step, since it is
a goroutine with a ticker that never ends by itself; a handler call returns; an
instance that stopped is started again; a client that has begun a request issues
its second statement. No client has to begin, no handler has to succeed, no
fault has to happen; faults and requeues are finitely many.
In `jobs_liveness` the workers are punctual, which `HeartbeatExcludesOthers`
needs and `EveryJobSettles` does not.

`Outbox!Fairness`: each dispatcher keeps polling (its ticker), and a Record or an
operator call that has begun goes on. No sink has to accept anything:
`dead_letter` also settles a delivery. All of it is weak fairness: every step in
question stays enabled until its process takes a step.

`IntegrationSubmission!Fairness`: a thread that has begun goes on, and an open job
that nobody holds is claimed by some thread, which is what the polling workers
and, after a crash, the expiry of the lease (`EveryJobSettles`) amount to. Both are
weak fairness. The adapter always answers: its HTTP client has a timeout.

## 4. What the code does not guarantee

Two runs show a violation of something the repository says:

* `document_reopen`: the rows of a submission have ids without a generation; a
  reopened document can never be submitted again.
* `receivables_cancel`: cancelling a payment that was never approved takes its
  allocation off the invoice, although it was never put on. An invoice that
  another payment has paid is `issued` again and can be cancelled, while "invoice
  with applied payments cannot be cancelled; reverse payments first".

The other limits are conditions of the properties. Each of these properties
fails when its condition is dropped:

* jobs: only the item being handled is renewed, while the whole batch was leased
  at the claim; behind a slow first job the lease of the second runs out, another
  instance claims it, and both execute it. `HeartbeatExcludesOthers` is about
  batches of one. Requeue checks the status it has read and its UPDATE has no
  status condition, so a job claimed in between goes back to `queued` while its
  handler runs; in the contract that is one more try. The theorem
  `HeartbeatsExclude` therefore asks for batches of one,
  punctual instances and at most one client.
* eventing: deliveries in `processing` have no lease; a crash or failed statement
  between claim and mark strands them until an operator retries
  (`EveryDeliverySettles` names this as its one exception). With two dispatchers
  the older of two refreshes may be written last, so `OutboxStatusIsCurrent` is
  about one; the theorem `StatusCurrent` asks for no operators either.
* lifecycle: an approvals listing that fails reads as "not staged", and a single
  vote approves the document; the properties about approvals, and their theorems,
  say "as long as no listing has failed".
* links: AddLink and its relatives save the record they read at the start, so a
  lifecycle action that commits in between is undone while its approvals, audit
  event and outbox record stay. Two calls that cross replace each other's list, and
  a failed listing empties it; `AddedLinkIsKept` excludes both.
* receivables: two effects that overlap lose one of two changes; an effect that
  is refused or fails after the commit leaves a received payment that is applied
  and posted nowhere (a warning header says so, nothing repeats it); the effects of
  an approval already run in an earlier stage; AllocatePaymentReceipt also takes
  submitted and rejected payments; several `payment_for` links of one payment are
  several refund options. `BooksAgree` and `PostingsFollowStatus` are about effects
  that ran alone, to their end, and were due.
* leave: two submissions may both pass the check of the available days; days
  carried forward expire when a later-dated request opens the account, also if they
  are reserved; a failure in the middle of an amendment leaves a submitted request
  without a reservation and a stage, which any one user may approve; an accrual run
  that failed half-way grants again when it is repeated; the account is computed
  from the first 100 entries.
* integrations: two overlapping requests with one key create two submissions, as
  nothing reserves the key; a failure is stored under the key for good; a failed
  delivery is not retried by itself (`next_retry_at` is read by nobody and the job
  succeeds), and the retry job of a submission is accepted once, because its dedup
  key stays taken; an error of the saves in failSubmission is ignored, so a
  submission may stay `processing`; a replay that meets an error of the preflight
  leaves it `queued` with its dead letter closed.

Behaviours no document contradicts: the attempt limit is not applied to claims of
expired leases; a record whose deliveries end partly dispatched, partly dead reads
`pending` for ever; the requester of a later stage is the approver of the stage
before; notifications are lost when the process dies after the commit.

## 5. Proofs

Each component has a proof module that extends it. The theorems hold for any
limits, amounts, policies and any bound on faults, and for any number, finite or
not, of processes and rows, with three exceptions where something is counted or
summed up: the threads of `IntegrationSubmission`, the payments, credit notes and
refunds of `Receivables`, and the requests and users of `LeaveBalance` and of
the approvals are finite sets. The other assumptions are the named `ASSUME`s of
the component: constants are of the right kind, dummy values are not real ones,
a lease has at least two ticks. Five theorems have hypotheses of their own, given
below: `HeartbeatsExclude`, `StatusCurrent` and the three about a clean history of
leave.

**JobQueueProofs.** `TypeCorrect`, `ClaimAgreement`, `DeadLettersDeserved`,
`SuccessesHandled`, `Deduplication`, `AttemptsIdentifyExecutions` and
`Refinement`: the queue implements `JobContract`. A mark trusts
what the worker read at its claim, possibly long ago, so none of the properties
is inductive. `IInv` adds what stays true of that knowledge: a held attempt
number never exceeds the one in the table, a lease exists exactly while a row
is running, a worker's outcome `ok` has a handler call behind it, rows held exist.
The refinement then takes one step per action (`ContractStep`): an insert accepts,
a claim tries, a return of the handler returns, a mark or a requeue settles, and
everything else stutters; `IInv` supplies the guards of the contract, that the row
exists, that a success was handled and that a job given up had its attempts.

`HeartbeatsExclude` is about time. Its hypothesis `Orderly` says that an instance
claims one job at a time (or there is only one); that instances are punctual; and
that at most one client requeues, because the second of two could put back a job
that was claimed after the first. Its invariant (`LeaseOutlivesHeartbeat`) says that
as long as no renewal failed and no instance was shut down, a job in hand is leased
for longer than the time to the next heartbeat, and nobody else holds it: no claim
finds its lease run out, and each heartbeat comes while a tick of it is left.

**OutboxProofs.** `TypeCorrect`, `ExclusiveClaims`, `DispatchesDelivered`,
`AtMostOnceWithoutRetry`, `DeadLettersRecorded`, `DispatchesFinal`. `IInv` ties
the table to the dispatchers: a delivery that no operator has touched is
`processing` while it is held, it is held by one dispatcher only, and after its
sink has accepted it whoever holds it is about to mark it. `StatusCurrent`, for one
dispatcher and no operators (`Alone`), adds `RefreshesCurrent`: without faults the
record of a settled event is right or about to be refreshed, and a refresh that
has computed a status has computed the right one, because between its read and
its write nothing but a new delivery can appear.

**DocumentLifecycleProofs.** `TypeCorrect`, `TrailTheorem`, `ResolvedTheorem`,
`PayloadTheorem`, which hold through any number of failed listings, and
`PendingTheorem`, `StagesTheorem`, `RequesterTheorem`, which hold up to the
first. The argument: every transaction moves the version, so a request that
still holds the current version holds the current document (`Fresh`), and its
plan, although read outside the transaction, names pending rows only
(`PlanIsPending`) and, if no listing failed, the right ones (`PlanIsRight`),
because rows change only together with the version. With that, `StoreCases`
reduces the one step that writes to a few cases (edit, submit, reject or cancel,
reopen, vote, advance, final approval), and each property is proved per case.
`StagesInOrder` and `BoundRows` strengthen the properties: stages are approved
in order, and pending approvals belong to the bound version.

**DocumentLinksProofs.** `LinksTypeCorrect` and `LinkKept`, whichever lifecycle
actions run beside the writers. As long as no two calls have crossed and no
listing has failed (`Undisturbed`), the writer at work is alone, the list it has
read is the list stored, and the link it reports is in it.

**IntegrationSubmissionProofs.** `TypeCorrect`, `OnePerKey`, `AttemptsCovered`,
`DeadLettersListed`, `SendsAsked`. A thread is a list of statements; `Shape` says
which may follow which, `Sane` what a thread holds while a statement is still ahead
of it. On that rests `Base`: submissions, jobs and dead letters that anyone names
exist, a key without an overlap has one creation, a submission has one worker
unless a lease was lost. Each further theorem adds what is on its way between two
statements: `CallsCounted` the attempts in the copies that will be saved,
`LettersListed` the dead letters about to be opened or closed, `SendsBudgeted` the
calls which threads and waiting jobs may still make, so that a call uses one up.

**ReceivablesProofs.** `TypeCorrect`, `NothingExceeded` (`LimitsHold`),
`PostedAtMostOnce` (`PostedOnce`). An effect saves copies that it read some time
ago, so `IInv` claims of every copy what it claims of the rows (`Sound`: applied
and refunded amounts within the amount of the document, a refund has an approved
source, an issued note was approved); a stale copy that overwrites a row then loses
changes but breaks no limit. `TodoShape` says which documents the remaining
statements of an effect may name (`EffectShape` derives it from `HandleAction`):
only refunds read documents other than the invoice, no effect saves a refund, and a
credit note is saved only after its approval, as not submitted (`SavedCopies`). So a
note or a refund is submitted once (`SubmittedOnce`), hence approved once, and until
its only effect posts it nothing is posted (`PostingPending`). That the rows of
`refund_allocations` have their type is a conjunct of `GenerateRefund`, because they
come from a loop; TLC finds the same states without it.

The second half is about the effects that ran alone, to their end, and were due
(`clean`): `BooksAreKept` and `PostingsAreRight`, from `CleanIsOrderly`. `Orderly`
says that at most one handler is busy and at which statement it is, counted from
the end of its list (`Plan`). Between two effects the amounts on the rows are
exactly those of the postings in force (`Settled`). Within one, `Owed` is what the
postings will say and the invoice or credit note does not yet, a copy that is going
to be saved differs from its row by what it owes and by nothing else (`CopyFits`), and
postings and links are those of an effect that has come so far (`PostingsFit`).
`Settled` is not inductive at all, as each effect breaks and repairs it; with
`Owed` each statement keeps the equations.

**LeaveBalanceProofs.** `TypeCorrect` and `EntriesNamed`, through any overlap and
failure. `Core` says of the statements an operation has left which may follow which
(`Shape`) and what the request and the ids in its copy are while a statement is ahead
(`SaneTask`): a copy that will be saved as approved has its consumption behind it,
one that is saved as submitted names its own reservation or none.

`AccountsRight`, `EnoughLeft` and `StagesPassed` state `AccountMatchesRequests`,
`NotOverdrawn` and `ApprovedByAll` for any number of requests, stages, operations and
runs. They carry one hypothesis, `Len(ledger) <= PageSize`: recomputeBalanceAccount and
carryForwardBalanceAt list one page of entries (100, model.MaxPageSize) and no second
one, and beyond it all three are false. TLC shows so on the instance of `leave_safety`
with one handler, no upset, six operations and a page of 4 entries: entries that are
not summed up hide a release or a grant, an amendment that passed its preflight is
then refused when it is submitted again, and the request stays submitted with
no reservation and no stage, so that one approval closes it.

Their invariant is `Order` (`OrderInvariance`), which TLC has checked on the instance of
`leave_safety`. In a clean history at most one handler is at work (`Works`), and for it
`Fine` says, from the statements that are left, how far apart the four pieces of state
are. `Books`: what the entries reserve and charge is what the requests hold, counted for
the request at work by what is not given back yet, or by the copy that will be saved.
`Recounted`: the account is the sum of the entries except between an entry and
its `Sum` and `Store`. `Read`: the row is the one that was read, so that no check of a
version is refused. `Rows`: every row is `Proper` (a submitted request has a reservation
and the stages before its own passed, an approved one has all passed), except
that of an amendment between its save and its submission. `Covered`: after the preflight
of an amendment what is left, with what it will give back and without what will
expire when the account is opened, is enough for its new days; so `Reserve` does not
refuse it (`ReserveOrder`), the one refusal that would leave such a row for good.
`Solvent`: as long as nothing expired the balance covers what is reserved. There is one
lemma per statement (`PreflightOrder` to `CompleteOrder`) and per operation that begins
(`DraftOrder` to `RunOrder`); `SettledSums` turns the sums over all rows into those
over the submitted and the approved requests.

**SumTheorems.** What `SumFunctionOnSet` of the community modules returns, for any
finite set and integer values: one summand can be taken out, in any order
(`SumTakeOut`), and what follows from that: a changed or an added summand, summands
that are 0, the union of two disjoint sets. The sum is defined by recursion over
sets; each fact is proved of a smallest subset for which it fails, which needs
no induction rule.

Every invariant and every action property that a run checks is stated by a theorem.
Only model-checked are the liveness properties (`EveryJobSettles`,
`EveryDeliverySettles`, `EverySubmissionSettles`), because they need fairness and
ENABLED, which the prover does not handle. Beyond the theorems TLC also finds that
the hypotheses are needed, as said above, and the two violations of section 4.

## 6. Not modelled

* The in-memory repositories and transaction manager, except the claim predicate
  of jobs: they serve tests and the demo mode, under one mutex and without
  rollback.
* Isolation anomalies inside one Postgres transaction: a transaction is atomic.
* The order of the local event handlers, and their effects: `Deliver` is one call.
* Workflows other than `generic_request_flow` and the commercial one, assignment
  of candidates, delegation, SLA times, document numbers, policy evaluation,
  field security.
* ReplaceLines and ReplaceExtension of the document service (they save the
  record as AddLink does), Delete.
* In the receivables: allocations of one payment to several invoices, taxes,
  currencies and rounding, quotes and orders before the invoice.
* In leave: calendars and half days (a request is a number of days), policies of
  accrual rates (an accrual is an amount), imports.
* Everything marked "not modelled" in section 1: the HTTP, MCP and front-end
  shells translate requests into calls of the services; templates, reports,
  analytics, search and the code generators transform data and keep no state
  that two actors share.

## 7. Plan

Done: JobQueue with its abstract contract, Outbox, DocumentLifecycle with
DocumentLinks, Receivables, LeaveBalance, and IntegrationSubmission with the
idempotency keys in front of it, all with proofs of every safety property. Next, in
order of importance:

1. A page of entries less than the ledger, as a run of its own: which of the
   properties of LeaveBalance survive it.
2. Identity: one-time deep links and challenges, sessions against revocation.
3. `AcpClient`: pending calls, readLoop, connection loss; every call returns.
4. `EngagementReplay`: live events against clear-and-replay.
5. An at-least-once channel as the abstract specification of `Outbox`, and the
   composition of `DocumentLifecycle` with `Outbox` (an event per version).
6. The remaining writers of the document service in `DocumentLinks`.
