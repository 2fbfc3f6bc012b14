----------------------- MODULE IntegrationSubmission ------------------------
(***************************************************************************)
(* Deliveries to external systems: internal/platform/integration, with the *)
(* idempotency records of internal/platform/idempotency that guard their   *)
(* creation and the jobs that process and retry them.                      *)
(*                                                                         *)
(* A thread is an HTTP handler or a job worker.  It works off a list of    *)
(* steps, each of which is one statement on the database or the call of    *)
(* the adapter; between two steps other threads run.  Submissions are read *)
(* and saved as whole rows without a version.  The job queue is used       *)
(* through its contract, JobContract, which JobQueue implements.           *)
(*                                                                         *)
(* The identity of a job is its dedup key: the submission and the kind.    *)
(* The attempt log, metrics and audit events are left out.                 *)
(***************************************************************************)
EXTENDS Naturals, Sequences, FiniteSets, FiniteSetsExt

CONSTANTS
  MaxSubmissions, \* bound on the submissions that are created
  IdemKeys,       \* idempotency keys of clients
  NoKey,
  Threads,
  Posted,         \* the kinds of jobs that operators request
  MaxAttempts,    \* retryPolicy.MaxAttempts
  JobAttempts,    \* attempts of a job
  MaxOps,         \* bound on creations, replays and requeues
  MaxFaults       \* bound on crashes, failed statements, refusals and lost leases

ASSUME BoundsAssumption ==
  /\ {MaxSubmissions, MaxAttempts, JobAttempts} \subseteq Nat \ {0}
  /\ {MaxOps, MaxFaults} \subseteq Nat
ASSUME PostedAssumption == Posted \subseteq {"process", "retry"}
ASSUME NoKeyAssumption == NoKey \notin IdemKeys
ASSUME ThreadsAssumption == IsFiniteSet(Threads)

Submissions == 1..MaxSubmissions
NoSub == 0
Kinds == {"process", "retry"}
Jobs == Submissions \X Kinds
NoJob == <<>>

VARIABLES
  phase, tries, name, key, handled, \* the job queue
  idem,     \* idempotency records: "none", "succeeded" or "failed", and the answer
  sub,      \* integration_submissions
  dead,     \* integration_dead_letters, one per submission
  proc,     \* what each thread is doing
  executed, \* calls of the adapter
  again,    \* how often an operator asked to send a submission again
  overlaps, \* submissions two threads worked on, keys two creations used, at once
  unsaved,  \* submissions whose outcome was lost in a failed save
  ops, faults

queue == <<phase, tries, name, key, handled>>
ghosts == <<again, overlaps, unsaved, ops, faults>>
rows == <<idem, sub, dead, executed>>
vars == <<queue, rows, proc, ghosts>>

Queue == INSTANCE JobContract
  WITH Jobs <- Jobs, Names <- Kinds, Registered <- Kinds, Keys <- Jobs,
       NoKey <- NoJob, MaxAttempts <- JobAttempts

Statuses == {"none", "queued", "processing", "failed", "dead_letter", "succeeded"}
NoRow == [status |-> "none", attempt |-> 0, key |-> NoKey]
Idle == [todo |-> <<>>, sub |-> NoSub, row |-> NoRow, job |-> NoJob, claim |-> 0,
         key |-> NoKey]

Init ==
  /\ Queue!Init /\ name = [j \in Jobs |-> j[2]]
  /\ idem = [k \in IdemKeys |-> [status |-> "none", sub |-> NoSub]]
  /\ sub = [s \in Submissions |-> NoRow]
  /\ dead = [s \in Submissions |-> "none"]
  /\ proc = [t \in Threads |-> Idle]
  /\ executed = [s \in Submissions |-> 0]
  /\ again = [s \in Submissions |-> 0]
  /\ overlaps = {} /\ unsaved = {}
  /\ ops = 0 /\ faults = 0

Exists(s) == sub[s].status # "none"

-----------------------------------------------------------------------------
(* Threads *)

RowSteps == {"read", "requeue", "get", "begin", "execute", "bury", "store"}

\* A thread is in the middle of processing or retrying s, or of one of its jobs.
WorksOn(t, s) ==
  proc[t].sub = s /\ (proc[t].job # NoJob \/ Range(proc[t].todo) \cap RowSteps # {})

\* The submission s is taken up; if another thread works on it, they overlap.
NowOverlapping(t, s) ==
  overlaps' = IF \E u \in Threads \ {t} : WorksOn(u, s) THEN overlaps \cup {s}
              ELSE overlaps

ProcessSteps == <<"get", "begin", "execute", "store">>
RetrySteps == <<"read", "requeue">> \o ProcessSteps
StepsOf(kind) == IF kind = "process" THEN ProcessSteps ELSE RetrySteps

At(t, step) == proc[t].todo # <<>> /\ Head(proc[t].todo) = step
Become(t, p) == proc' = [proc EXCEPT ![t] = p]
\* The thread p continues with the steps todo.
With(p, todo) == IF todo = <<>> THEN Idle ELSE [p EXCEPT !.todo = todo]
Advanced(p) == With(p, Tail(p.todo))

\* Mutant of Failing: the job handlers swallow errors.
FailingSilent(p) ==
  CASE p.job # NoJob -> With(p, <<"return", "mark">>)
    [] p.job = NoJob /\ "record" \in Range(p.todo) -> With(p, <<"fail">>)
    [] OTHER -> Idle

\* An error is returned: a job is marked as failed, a creation with a key
\* records the error, any other request ends.
Failing(p) ==
  CASE p.job # NoJob -> With(p, <<"refuse">>)
    [] p.job = NoJob /\ "record" \in Range(p.todo) -> With(p, <<"fail">>)
    [] OTHER -> Idle

Fault == faults < MaxFaults /\ faults' = faults + 1
Op == ops < MaxOps /\ ops' = ops + 1

-----------------------------------------------------------------------------
(* Creation: POST submissions, idempotency.Execute around CreateDelivery *)

\* A request with a key on record is answered from the record.
NewRequest(k) == k # NoKey => idem[k].status = "none"

\* The bound on submissions leaves room for this one.
Room == Cardinality({s \in Submissions : Exists(s)})
          + Cardinality({t \in Threads : "insert" \in Range(proc[t].todo)}) < MaxSubmissions

Create(t, k, processNow) ==
  /\ proc[t] = Idle /\ Op /\ NewRequest(k) /\ Room
  /\ Become(t, [Idle EXCEPT !.key = k,
       !.todo = <<"find", "insert">> \o (IF processNow THEN <<"enqueue">> ELSE <<>>)
                                     \o (IF k # NoKey THEN <<"record">> ELSE <<>>)])
  /\ overlaps' = IF k # NoKey /\ \E u \in Threads : proc[u].key = k
                 THEN overlaps \cup {k} ELSE overlaps
  /\ UNCHANGED <<queue, rows, again, unsaved, faults>>

WithKey(k) == {s \in Submissions : Exists(s) /\ k # NoKey /\ sub[s].key = k}

\* Mutant of Known: the submission a crashed creation left is not found.
KnownNever(k) == NoSub

\* FindSubmissionByIdempotency: the oldest one.
Known(k) == IF WithKey(k) = {} THEN NoSub ELSE Min(WithKey(k))

Find(t) ==
  LET p == proc[t]
      s == Known(p.key)
  IN /\ At(t, "find")
     /\ \/ s = NoSub /\ Become(t, Advanced(p))
        \/ s # NoSub /\ Become(t, [With(p, Tail(Tail(p.todo))) EXCEPT !.sub = s])
     /\ UNCHANGED <<queue, rows, ghosts>>

\* Mutant of Insert: the error of the insert is ignored.
InsertIgnored(t) ==
  LET p == proc[t]
      s == Min({i \in Submissions : ~Exists(i)})
  IN /\ At(t, "insert")
     /\ Become(t, IF Len(p.todo) = 1 THEN Idle ELSE [Advanced(p) EXCEPT !.sub = s])
     /\ UNCHANGED <<queue, rows, ghosts>>

Insert(t) ==
  LET p == proc[t]
      s == Min({i \in Submissions : ~Exists(i)})
  IN /\ At(t, "insert")
     /\ sub' = [sub EXCEPT ![s] = [status |-> "queued", attempt |-> 0, key |-> p.key]]
     /\ Become(t, IF Len(p.todo) = 1 THEN Idle ELSE [Advanced(p) EXCEPT !.sub = s])
     /\ UNCHANGED <<queue, idem, dead, executed, ghosts>>

\* EnqueueUnique: a job that exists is returned as it is, also a settled one.
EnqueueUnique(j) == IF Queue!Accepted(j) THEN UNCHANGED queue
                    ELSE Queue!Accept(j, j[2], j)

Enqueue(t) ==
  /\ At(t, "enqueue")
  /\ EnqueueUnique(<<proc[t].sub, "process">>)
  /\ Become(t, Advanced(proc[t]))
  /\ UNCHANGED <<rows, ghosts>>

\* The queue refuses: the request processes the submission itself.
EnqueueFails(t) ==
  LET p == proc[t]
  IN /\ At(t, "enqueue") /\ Fault
     /\ Become(t, With(p, ProcessSteps \o Tail(p.todo)))
     /\ NowOverlapping(t, p.sub)
     /\ UNCHANGED <<queue, rows, again, unsaved, ops>>

\* idempotency.Execute saves what the request returned.
Record(t) ==
  /\ At(t, "record") \/ At(t, "fail")
  /\ idem' = [idem EXCEPT ![proc[t].key] =
                IF At(t, "fail") THEN [status |-> "failed", sub |-> NoSub]
                ELSE [status |-> "succeeded", sub |-> proc[t].sub]]
  /\ Become(t, Idle)
  /\ UNCHANGED <<queue, sub, dead, executed, ghosts>>

-----------------------------------------------------------------------------
(* ProcessSubmission and RetrySubmission *)

Read(t) ==
  LET p == proc[t]
  IN /\ At(t, "read")
     /\ Become(t, [Advanced(p) EXCEPT !.row = sub[p.sub]])
     /\ UNCHANGED <<queue, rows, ghosts>>

\* The attempt count of the row is kept.
Requeue(t) ==
  LET p == proc[t]
  IN /\ At(t, "requeue")
     /\ sub' = [sub EXCEPT ![p.sub] = [p.row EXCEPT !.status = "queued"]]
     /\ Become(t, [Advanced(p) EXCEPT !.row = NoRow])
     /\ UNCHANGED <<queue, idem, dead, executed, ghosts>>

\* Mutant of Get: the attempt is counted only when the outcome is stored.
GetUncounted(t) ==
  LET p == proc[t]
  IN /\ At(t, "get")
     /\ Become(t, [Advanced(p) EXCEPT !.row = [sub[p.sub] EXCEPT !.status = "processing"]])
     /\ UNCHANGED <<queue, rows, ghosts>>

\* The row is read and the preflight finds it invalid (a dead letter) or lets it
\* pass.
Get(t) ==
  LET p == proc[t]
      row == [sub[p.sub] EXCEPT !.status = "processing", !.attempt = @ + 1]
  IN /\ At(t, "get")
     /\ \/ Become(t, [With(p, <<"bury", "store">> \o SubSeq(p.todo, 5, Len(p.todo)))
                        EXCEPT !.row = [row EXCEPT !.status = "dead_letter"]])
        \/ Become(t, [Advanced(p) EXCEPT !.row = row])
     /\ UNCHANGED <<queue, rows, ghosts>>

Begin(t) ==
  LET p == proc[t]
  IN /\ At(t, "begin")
     /\ sub' = [sub EXCEPT ![p.sub] = p.row]
     /\ Become(t, Advanced(p))
     /\ UNCHANGED <<queue, idem, dead, executed, ghosts>>

\* What follows the adapter's answer: failSubmission keeps a retryable failure
\* as failed until the attempts are used up, and buries any other one.
Outcomes == {"ok", "retryable", "permanent"}
StatusAfter(outcome, attempt) ==
  CASE outcome = "ok" -> "succeeded"
    [] outcome = "retryable" /\ attempt < MaxAttempts -> "failed"
    [] OTHER -> "dead_letter"

\* Mutant of Answered: the dead letter is not written when the attempts are
\* used up, only after a permanent failure.
AnsweredUnburied(p, outcome) ==
  LET status == StatusAfter(outcome, p.row.attempt)
      rest == IF outcome = "permanent" THEN <<"bury">> \o Tail(p.todo) ELSE Tail(p.todo)
  IN [With(p, rest) EXCEPT !.row.status = status]

\* Mutant of Answered: a failed delivery is an error of the job.
AnsweredError(p, outcome) ==
  IF outcome = "ok" THEN [Advanced(p) EXCEPT !.row.status = "succeeded"] ELSE Failing(p)

Answered(p, outcome) ==
  LET status == StatusAfter(outcome, p.row.attempt)
      rest == IF status = "dead_letter" THEN <<"bury">> \o Tail(p.todo) ELSE Tail(p.todo)
  IN [With(p, rest) EXCEPT !.row.status = status]

Execute(t) ==
  LET p == proc[t]
  IN /\ At(t, "execute")
     /\ executed' = [executed EXCEPT ![p.sub] = @ + 1]
     /\ \E outcome \in Outcomes : Become(t, Answered(p, outcome))
     /\ UNCHANGED <<queue, idem, sub, dead, ghosts>>

Bury(t) ==
  /\ At(t, "bury")
  /\ dead' = [dead EXCEPT ![proc[t].sub] = "open"]
  /\ Become(t, Advanced(proc[t]))
  /\ UNCHANGED <<queue, idem, sub, executed, ghosts>>

Store(t) ==
  LET p == proc[t]
  IN /\ At(t, "store")
     /\ sub' = [sub EXCEPT ![p.sub] = p.row]
     /\ Become(t, Advanced(p))
     /\ UNCHANGED <<queue, idem, dead, executed, ghosts>>

\* The preflight refuses a delivery for now: its system, endpoint or contract is
\* missing or not active, or a policy forbids it.
PreflightFails(t) ==
  /\ At(t, "find") \/ At(t, "get")
  /\ Fault
  /\ Become(t, Failing(proc[t]))
  /\ UNCHANGED <<queue, rows, again, overlaps, unsaved, ops>>

\* A save fails.  failSubmission ignores the errors of its saves; the others
\* are returned.
SaveFails(t) ==
  LET p == proc[t]
      ignored == At(t, "bury") \/ (At(t, "store") /\ p.row.status # "succeeded")
  IN /\ \E step \in {"insert", "record", "fail", "requeue", "begin", "bury", "store"} :
          At(t, step)
     /\ Fault
     /\ unsaved' = IF ignored THEN unsaved \cup {p.sub} ELSE unsaved
     /\ Become(t, CASE ignored -> Advanced(p)
                    [] At(t, "record") \/ At(t, "fail") -> Idle
                    [] OTHER -> Failing(p))
     /\ UNCHANGED <<queue, rows, again, overlaps, ops>>

-----------------------------------------------------------------------------
(* Jobs *)

Held(j) == \E t \in Threads : proc[t].job = j

\* A worker takes a job: an open one nobody works on, or, after its lease was
\* lost, one another worker still works on.
Claim(t, j) ==
  /\ proc[t] = Idle
  /\ Queue!Try({j}) /\ phase[j] = "open"
  /\ IF Held(j) THEN Fault ELSE UNCHANGED faults
  /\ Become(t, [Idle EXCEPT !.todo = StepsOf(j[2]) \o <<"return", "mark">>,
                            !.sub = j[1], !.job = j, !.claim = tries[j] + 1])
  /\ NowOverlapping(t, j[1])
  /\ UNCHANGED <<rows, again, unsaved, ops>>

\* The handler returns nil whatever became of the submission.
Return(t) ==
  /\ At(t, "return")
  /\ Queue!Return(proc[t].job)
  /\ Become(t, Advanced(proc[t]))
  /\ UNCHANGED <<rows, ghosts>>

Mark(t) ==
  LET p == proc[t]
  IN /\ \/ At(t, "mark") /\ Queue!Succeed(p.job)
        \/ At(t, "refuse") /\ p.claim >= JobAttempts /\ Queue!GiveUp(p.job)
        \/ At(t, "refuse") /\ p.claim < JobAttempts /\ Queue!Again(p.job)
     /\ Become(t, Idle)
     /\ UNCHANGED <<rows, ghosts>>

MarkFails(t) ==
  /\ At(t, "mark") \/ At(t, "refuse")
  /\ Fault /\ Become(t, Idle)
  /\ UNCHANGED <<queue, rows, again, overlaps, unsaved, ops>>

-----------------------------------------------------------------------------
(* Requests of operators *)

\* POST process and POST retry: 202 with the job, new or old.
Post(s, kind) ==
  /\ Exists(s)
  /\ EnqueueUnique(<<s, kind>>)
  /\ again' = IF kind = "retry" /\ ~Queue!Accepted(<<s, kind>>)
              THEN [again EXCEPT ![s] = @ + 1] ELSE again
  /\ UNCHANGED <<rows, proc, overlaps, unsaved, ops, faults>>

\* The queue refuses: the handler does the work.
PostFails(t, s, kind) ==
  /\ Exists(s) /\ proc[t] = Idle /\ Op /\ Fault
  /\ Become(t, [Idle EXCEPT !.todo = StepsOf(kind), !.sub = s])
  /\ again' = [again EXCEPT ![s] = @ + 1]
  /\ NowOverlapping(t, s)
  /\ UNCHANGED <<queue, rows, unsaved>>

\* The dead letter is closed, whatever its status, before the retry; an error of
\* that save is ignored.
ReplayDeadLetter(t, s) ==
  /\ dead[s] # "none" /\ proc[t] = Idle /\ Op
  /\ \/ dead' = [dead EXCEPT ![s] = "replayed"] /\ UNCHANGED faults
     \/ Fault /\ UNCHANGED dead
  /\ Become(t, [Idle EXCEPT !.todo = RetrySteps, !.sub = s])
  /\ again' = [again EXCEPT ![s] = @ + 1]
  /\ NowOverlapping(t, s)
  /\ UNCHANGED <<queue, idem, sub, executed, unsaved>>

\* POST /ops/jobs/{id}/requeue, of a job of any status.
RequeueJob(j) ==
  /\ Queue!Again(j) /\ Op
  /\ again' = [again EXCEPT ![j[1]] = @ + 1]
  /\ UNCHANGED <<rows, proc, overlaps, unsaved, faults>>

\* The instance a thread runs in crashes.
Crash(t) ==
  /\ proc[t] # Idle
  /\ Fault
  /\ Become(t, Idle)
  /\ UNCHANGED <<queue, rows, again, overlaps, unsaved, ops>>

-----------------------------------------------------------------------------

Step(t) ==
  \/ Find(t) \/ Insert(t) \/ Enqueue(t) \/ Record(t)
  \/ Read(t) \/ Requeue(t) \/ Get(t) \/ Begin(t) \/ Execute(t) \/ Bury(t) \/ Store(t)
  \/ Return(t) \/ Mark(t)

Next ==
  \/ \E t \in Threads :
       \/ Step(t) \/ PreflightFails(t) \/ EnqueueFails(t) \/ SaveFails(t) \/ MarkFails(t) \/ Crash(t)
       \/ \E k \in IdemKeys \cup {NoKey}, now \in BOOLEAN : Create(t, k, now)
       \/ \E j \in Jobs : Claim(t, j)
       \/ \E s \in Submissions :
            ReplayDeadLetter(t, s) \/ \E kind \in Posted : PostFails(t, s, kind)
  \/ \E s \in Submissions, kind \in Posted : Post(s, kind)
  \/ \E j \in Jobs : RequeueJob(j)

Spec == Init /\ [][Next]_vars

\* A request or handler that runs goes on, and the workers poll for jobs.
Fairness ==
  /\ \A t \in Threads : WF_vars(Step(t))
  /\ \A j \in Jobs : WF_vars(\E t \in Threads : ~Held(j) /\ Claim(t, j))

FairSpec == Spec /\ Fairness

-----------------------------------------------------------------------------
(* Properties *)

Rows == [status : Statuses, attempt : Nat, key : IdemKeys \cup {NoKey}]
Steps == RowSteps \cup
         {"find", "insert", "enqueue", "record", "fail", "return", "mark", "refuse"}

\* The types of the tables and of the threads; a thread that carries a row or a
\* job names the submission it is of, and that submission exists.
TypeOK ==
  /\ phase \in [Jobs -> {"absent", "open", "succeeded", "dead_letter"}]
  /\ tries \in [Jobs -> Nat] /\ handled \subseteq Jobs
  /\ idem \in [IdemKeys -> [status : {"none", "failed", "succeeded"}, sub : Submissions \cup {NoSub}]]
  /\ sub \in [Submissions -> Rows]
  /\ dead \in [Submissions -> {"none", "open", "replayed"}]
  /\ executed \in [Submissions -> Nat] /\ again \in [Submissions -> Nat]
  /\ \A t \in Threads :
       /\ proc[t].row \in Rows /\ Range(proc[t].todo) \subseteq Steps
       /\ proc[t].sub # NoSub => Exists(proc[t].sub)
       /\ proc[t].job # NoJob => proc[t].job[1] = proc[t].sub

\* A client that repeats a request with its idempotency key, after an answer
\* that never came or after a crash between the insert and the saving of the
\* answer, gets the submission it created: unless two requests with the key ran
\* at the same time, there is one submission for the key.
OneSubmissionPerKey ==
  \A k \in IdemKeys : k \notin overlaps => Cardinality(WithKey(k)) <= 1

\* A delivery is made at most once, plus once for every retry, replay or requeue
\* an operator asked for and for every fault: neither the failure of a delivery,
\* nor repeated requests, nor the attempts of its job send it again.
SendsWereAsked ==
  \A s \in Submissions : executed[s] <= 1 + again[s] + faults

\* The attempt count of a submission covers every call of its adapter, over
\* crashes, retries and failed saves, as long as no two threads process it at
\* the same time (then one of them overwrites the count of the other).
AttemptsCoverSends ==
  \A s \in Submissions : s \notin overlaps => executed[s] <= sub[s].attempt

\* A submission at rest whose status is dead_letter is on the list of open dead
\* letters, where operators look for it, unless a fault came between or two
\* threads processed it at the same time.
DeadLetterIsListed ==
  \A s \in Submissions :
    sub[s].status = "dead_letter" /\ faults = 0 /\ s \notin overlaps
      /\ (\A t \in Threads : ~WorksOn(t, s)) => dead[s] = "open"

\* A submission whose process job is accepted is eventually processed, over
\* crashes and failed statements: it ends failed, buried or succeeded, unless
\* its job is given up, failSubmission lost the outcome in a failed save, two
\* threads worked on it at once, or an operator asked for it again.  (A replay or
\* retry that meets an error of the preflight leaves it queued.)
EverySubmissionSettles ==
  \A s \in Submissions :
    phase[<<s, "process">>] = "open" ~>
      \/ sub[s].status \in {"failed", "dead_letter", "succeeded"}
      \/ phase[<<s, "process">>] = "dead_letter"
      \/ s \in unsaved \cup overlaps \/ again[s] > 0
=============================================================================
