---------------------------- MODULE LeaveBalance ----------------------------
(***************************************************************************)
(* Leave requests, the ledger of balance entries and the balance account   *)
(* of internal/platform/application (LeavePolicyCoreService).              *)
(*                                                                         *)
(* The requests of one employee under one policy that requires a balance   *)
(* are modelled, with the account already opened.  There are no            *)
(* transactions: an operation reads the request, appends entries to the    *)
(* ledger, recomputes the account after each of them, and saves the        *)
(* request last.  models.Update compares the version of what was read and  *)
(* then upserts, so a change between the two is lost; a refusal or a crash *)
(* leaves the entries that were written before it.                         *)
(*                                                                         *)
(* Days are whole; dates are numbers, 0 is the empty date.  Calendars,     *)
(* rosters and the payroll cut-off, which decide whether a request may     *)
(* have certain dates and days, are left to the choice of those; the       *)
(* attendance records derived from an approved leave are left out.         *)
(***************************************************************************)
EXTENDS Integers, Sequences, FiniteSets, Functions

CONSTANTS
  Requests,
  NoRequest,
  Users,      \* who may approve or reject
  Handlers,   \* HTTP requests served at the same time
  Days,       \* requested_days of new requests
  NewDays,    \* requested_days of edited and amended ones
  Dates,      \* start dates
  Today,      \* the day on which everything happens
  Opening,    \* opening_balance_days of the leave profile
  Stages,     \* stages of the approval policy, 0 without one
  Required,   \* required_approver_count of a stage
  Candidates, \* users a stage is routed to
  Runs,       \* accrual runs
  RunMode, RunDate,
  RunExpiry,  \* carry_forward_expiry_rule applied to RunDate, 0 without a rule
  Grant,      \* days granted by a run
  CarryCap,   \* carry_forward_cap_days, 0 without a cap
  PageSize,   \* model.MaxPageSize
  MaxOps,     \* bound: operations started
  MaxUpsets   \* bound: operations that overlap another one or fail

ASSUME LeaveAssumption ==
  /\ NoRequest \notin Requests /\ IsFiniteSet(Requests) /\ IsFiniteSet(Users)
  /\ Days \cup NewDays \subseteq Nat \ {0} /\ Dates \subseteq Nat \ {0}
  /\ Today \in Nat \ {0} /\ Opening \in Nat /\ Grant \in Nat /\ CarryCap \in Nat
  /\ Stages \in Nat /\ Required \in [1..Stages -> Nat \ {0}]
  /\ Candidates \in [1..Stages -> SUBSET Users]
  /\ RunMode \in [Runs -> {"annual_grant", "monthly_accrual"}]
  /\ RunDate \in [Runs -> Nat \ {0}] /\ RunExpiry \in [Runs -> Nat]
  /\ PageSize \in Nat \ {0} /\ MaxOps \in Nat /\ MaxUpsets \in Nat

VARIABLES
  request,   \* the leave_request records
  ledger,    \* the leave_balance_entry records; an id is the place of the entry
  account,   \* the leave_balance_account record
  completed, \* runs with run_status "completed"
  target,    \* the request a handler works on, NoRequest for an accrual run
  old,       \* the request as the handler has read it
  copy,      \* the request as it will save it
  acct,      \* its copy of the account
  carried,   \* the result of carryForwardBalanceAt
  run,       \* the run it executes, {} or one element
  todo,      \* the statements it still has to execute
  clean,     \* every operation so far ran alone and without a failure
  upsets,
  ops        \* operations started so far

taskVars == <<target, old, copy, acct, carried, run, todo>>
rest     == <<clean, upsets, ops>>
vars     == <<request, ledger, account, completed, target, old, copy, acct, carried,
              run, todo, clean, upsets, ops>>

-----------------------------------------------------------------------------
Statuses == {"none", "draft", "submitted", "approved", "rejected", "cancelled"}
Credits  == {"opening", "annual_grant", "monthly_accrual", "carry_forward", "reversal"}
Debits   == {"consumption", "expiry"}
Types    == Credits \cup Debits \cup {"reservation", "release"}
Steps    == {"preflight", "open", "reserve", "release", "reverse", "cover", "consume",
             "expire", "turn", "carry", "grant", "reread", "sum", "store", "check", "save",
             "complete"}

\* reservation and consumption name an entry, 0 none; "by" keeps the approvals
\* <<stage, user>> of the request as it is, which the code does not store.
Request == [status : Statuses, days : Nat, start : Nat, reservation : Nat,
            consumption : Nat, stage : Nat, recorded : SUBSET Users,
            by : SUBSET (Nat \X Users), version : Nat]
Entry   == [type : Types, days : Int, carry : Int, date : Nat,
            request : Requests \cup {NoRequest}]
Account == [current : Int, reserved : Nat, carry : Nat, expiry : Nat, version : Nat]

NoRecord  == [status |-> "none", days |-> 0, start |-> 0, reservation |-> 0,
              consumption |-> 0, stage |-> 0, recorded |-> {}, by |-> {}, version |-> 0]
NoAccount == [current |-> 0, reserved |-> 0, carry |-> 0, expiry |-> 0, version |-> 0]

TypeOK ==
  /\ request \in [Requests -> Request] /\ ledger \in Seq(Entry) /\ account \in Account
  /\ completed \subseteq Runs
  /\ target \in [Handlers -> Requests \cup {NoRequest}]
  /\ old \in [Handlers -> Request] /\ copy \in [Handlers -> Request]
  /\ acct \in [Handlers -> Account] /\ carried \in [Handlers -> Nat]
  /\ run \in [Handlers -> SUBSET Runs] /\ todo \in [Handlers -> Seq(Steps)]
  /\ clean \in BOOLEAN /\ upsets \in 0..MaxUpsets /\ ops \in 0..MaxOps

\* The account as ensureBalanceAccount opens it on the first day.
Init ==
  /\ request = [r \in Requests |-> NoRecord]
  /\ ledger = IF Opening > 0
              THEN << [type |-> "opening", days |-> Opening, carry |-> 0,
                       date |-> Today, request |-> NoRequest] >>
              ELSE << >>
  /\ account = [NoAccount EXCEPT !.current = Opening, !.version = IF Opening > 0 THEN 2 ELSE 1]
  /\ completed = {}
  /\ target = [h \in Handlers |-> NoRequest]
  /\ old = [h \in Handlers |-> NoRecord] /\ copy = [h \in Handlers |-> NoRecord]
  /\ acct = [h \in Handlers |-> NoAccount] /\ carried = [h \in Handlers |-> 0]
  /\ run = [h \in Handlers |-> {}] /\ todo = [h \in Handlers |-> << >>]
  /\ clean = TRUE /\ upsets = 0 /\ ops = 0

-----------------------------------------------------------------------------
(***************************************************************************)
(* The ledger and the account.                                             *)
(***************************************************************************)
Positive(n) == IF n > 0 THEN n ELSE 0
Least(m, n) == IF m < n THEN m ELSE n

\* Entry i is listed before entry j: by effective date.
Before(i, j) ==
  ledger[i].date < ledger[j].date \/ (ledger[i].date = ledger[j].date /\ i < j)

\* One page of the entries of the account.
Listed ==
  {j \in DOMAIN ledger : Cardinality({i \in DOMAIN ledger : Before(i, j)}) < PageSize}

EntryDays  == [i \in DOMAIN ledger |-> ledger[i].days]
EntryCarry == [i \in DOMAIN ledger |-> ledger[i].carry]

DaysOf(types) == SumFunctionOnSet(EntryDays, {i \in Listed : ledger[i].type \in types})

\* Mutant of Recompute: what is reserved is not clipped at zero.
RecomputeUnclipped(a) ==
  LET carry == SumFunctionOnSet(EntryCarry, Listed)
  IN [a EXCEPT !.current  = DaysOf(Credits) - DaysOf(Debits),
               !.reserved = DaysOf({"reservation"}) - DaysOf({"release"}),
               !.carry    = Positive(carry),
               !.expiry   = IF carry <= 0 THEN 0 ELSE @]

\* recomputeBalanceAccount; available_days is current - reserved.
Recompute(a) ==
  LET carry == SumFunctionOnSet(EntryCarry, Listed)
  IN [a EXCEPT !.current  = DaysOf(Credits) - DaysOf(Debits),
               !.reserved = Positive(DaysOf({"reservation"}) - DaysOf({"release"})),
               !.carry    = Positive(carry),
               !.expiry   = IF carry <= 0 THEN 0 ELSE @]

\* carryForwardBalanceAt: what entries effective later did does not count.
CarryAt(date) ==
  Positive(SumFunctionOnSet(EntryCarry, {i \in Listed : ledger[i].date <= date}))

\* Mutant of Projected: what is reserved is ignored.
ProjectedFree(v, a, start) == Positive(a.current)

\* projectAvailableDays of request v, were it to start on that date.
Projected(v, a, start) ==
  LET freed == IF v.reservation = 0 THEN 0 ELSE ledger[v.reservation].days
      back  == IF v.consumption = 0 THEN 0 ELSE ledger[v.consumption].days
      carry == a.carry - (IF v.consumption = 0 THEN 0 ELSE ledger[v.consumption].carry)
      spent == IF a.expiry # 0 /\ start > a.expiry THEN Positive(carry) ELSE 0
  IN Positive(a.current + back - spent - Positive(a.reserved - freed))

-----------------------------------------------------------------------------
(***************************************************************************)
(* The statements of the operations, in the order of the code.             *)
(***************************************************************************)
Recount == <<"sum", "store">>

Update  == <<"check", "save">>

\* releaseReservedBalance and reverseConsumedBalance do nothing without an entry.
Releasing(v) == IF v.reservation = 0 THEN << >> ELSE <<"release">> \o Recount
Reversing(v) == IF v.consumption = 0 THEN << >> ELSE <<"reverse">> \o Recount

\* submitLeaveRequest.
Submitting == <<"open", "reserve">> \o Recount \o Update

\* consumeReservedBalance.
Consuming(v) == Releasing(v) \o <<"open", "cover", "consume">> \o Recount

\* A handler starts an operation with the request it has read.
Begin(h, r, v, w, g, steps) ==
  /\ todo[h] = << >> /\ ops < MaxOps /\ ops' = ops + 1
  /\ target' = [target EXCEPT ![h] = r]
  /\ old' = [old EXCEPT ![h] = v] /\ copy' = [copy EXCEPT ![h] = w]
  /\ run' = [run EXCEPT ![h] = g] /\ todo' = [todo EXCEPT ![h] = steps]
  /\ LET alone == \A k \in Handlers : todo[k] = << >>
         upset == IF alone THEN 0 ELSE 1
     IN /\ upsets + upset <= MaxUpsets /\ upsets' = upsets + upset
        /\ clean' = (clean /\ alone)
  /\ UNCHANGED <<request, ledger, account, completed, acct, carried>>

\* The operation ends.
Done(h) ==
  /\ target' = [target EXCEPT ![h] = NoRequest]
  /\ old' = [old EXCEPT ![h] = NoRecord] /\ copy' = [copy EXCEPT ![h] = NoRecord]
  /\ acct' = [acct EXCEPT ![h] = NoAccount] /\ carried' = [carried EXCEPT ![h] = 0]
  /\ run' = [run EXCEPT ![h] = {}] /\ todo' = [todo EXCEPT ![h] = << >>]

At(h, step) == todo[h] # << >> /\ Head(todo[h]) = step

Continue(h) == todo' = [todo EXCEPT ![h] = Tail(@)]

-----------------------------------------------------------------------------
(***************************************************************************)
(* The operations on requests.                                             *)
(***************************************************************************)

\* CreateSelfServiceLeaveRequest.
Create(r, n, start) ==
  /\ request[r].status = "none"
  /\ request' = [request EXCEPT ![r] = [NoRecord EXCEPT !.status = "draft", !.days = n,
                                                        !.start = start, !.version = 1]]
  /\ UNCHANGED <<ledger, account, completed, taskVars, rest>>

\* prepareLeaveRequestValues.
Prepared(v, n, start) ==
  [v EXCEPT !.days = n, !.start = start, !.stage = 0, !.by = {}]

\* UpdateSelfServiceLeaveRequest, and an amendment of a draft.
Edit(h, r, n, start) ==
  LET v == request[r]
  IN v.status = "draft" /\ Begin(h, r, v, Prepared(v, n, start), {}, Update)

\* SubmitSelfServiceLeaveRequest.
Submit(h, r) ==
  LET v == request[r]
  IN v.status = "draft" /\ Begin(h, r, v, v, {}, Submitting)

\* Mutant of Amend: a submitted request keeps its reservation when it is
\* submitted again.
AmendReserved(h, r, n, start) ==
  LET v == request[r]
      w == [Prepared(v, n, start) EXCEPT !.status = "submitted", !.reservation = 0,
                                         !.consumption = 0]
  IN /\ v.status \in {"submitted", "approved"}
     /\ Begin(h, r, v, w, {}, <<"preflight">> \o Reversing(v) \o Update \o Submitting)

\* AmendSelfServiceLeaveRequest and AmendManagedLeaveRequest of a request that
\* was submitted: it is saved without a reservation and then submitted again.
Amend(h, r, n, start) ==
  LET v == request[r]
      w == [Prepared(v, n, start) EXCEPT !.status = "submitted", !.reservation = 0,
                                         !.consumption = 0]
  IN /\ v.status \in {"submitted", "approved"}
     /\ Begin(h, r, v, w, {},
              <<"preflight">> \o (IF v.status = "submitted" THEN Releasing(v) ELSE Reversing(v))
              \o Update \o Submitting)

Closed(v, s) == [v EXCEPT !.status = s, !.reservation = 0, !.consumption = 0, !.stage = 0]

\* CancelSelfServiceLeaveRequest and CancelApprovedLeaveRequest.
Cancel(h, r) ==
  LET v == request[r]
  IN \/ /\ v.status \in {"draft", "submitted"}
        /\ Begin(h, r, v, Closed(v, "cancelled"), {}, Releasing(v) \o Update)
     \/ /\ v.status = "approved"
        /\ Begin(h, r, v, Closed(v, "cancelled"), {}, Reversing(v) \o Update)

\* authorizeLeaveApprovalAction; a request without a stage is not routed.
Authorized(v, u) ==
  v.stage # 0 => u \in Candidates[v.stage] \ v.recorded

\* Mutant of Approve: the stage is passed one approval too early.
ApproveEarly(h, r, u) ==
  LET v == [request[r] EXCEPT !.by = @ \cup {<<request[r].stage, u>>}]
      recorded == v.recorded \cup {u}
  IN /\ v.status = "submitted" /\ Authorized(request[r], u)
     /\ IF v.stage = 0 \/ Cardinality(recorded) + 1 >= Required[v.stage]
        THEN Begin(h, r, request[r], Closed(v, "approved"), {}, Consuming(v) \o Update)
        ELSE Begin(h, r, request[r], [v EXCEPT !.recorded = recorded], {}, Update)

\* ApproveLeaveRequest: record the approval, go to the next stage, or finalize.
Approve(h, r, u) ==
  LET v == [request[r] EXCEPT !.by = @ \cup {<<request[r].stage, u>>}]
      recorded == v.recorded \cup {u}
  IN /\ v.status = "submitted" /\ Authorized(request[r], u)
     /\ IF v.stage = 0 \/ (Cardinality(recorded) >= Required[v.stage] /\ v.stage >= Stages)
        THEN Begin(h, r, request[r], Closed(v, "approved"), {}, Consuming(v) \o Update)
        ELSE Begin(h, r, request[r],
                   IF Cardinality(recorded) < Required[v.stage]
                   THEN [v EXCEPT !.recorded = recorded]
                   ELSE [v EXCEPT !.stage = @ + 1, !.recorded = {}],
                   {}, Update)

\* RejectLeaveRequest.
Reject(h, r, u) ==
  LET v == request[r]
  IN /\ v.status = "submitted" /\ Authorized(v, u)
     /\ Begin(h, r, v, Closed(v, "rejected"), {}, Releasing(v) \o Update)

\* ExecuteAccrualRun, for the one profile.
ExecuteRun(h, g) ==
  /\ g \notin completed
  /\ Begin(h, NoRequest, NoRecord, NoRecord, {g},
           <<"open">> \o (IF RunMode[g] = "annual_grant" THEN <<"turn">> ELSE << >>)
           \o (IF Grant > 0 THEN <<"grant">> \o Recount ELSE << >>) \o <<"complete">>)

-----------------------------------------------------------------------------
(***************************************************************************)
(* Executing the statements.                                               *)
(***************************************************************************)

\* The date an operation is effective on.
EffectiveDate(h) == IF run[h] = {} THEN copy[h].start ELSE RunDate[CHOOSE g \in run[h] : TRUE]

\* The operation ends with an error.
Refuse(h) == Done(h) /\ UNCHANGED <<request, ledger, account, completed, rest>>

\* preflightAmendmentBalance.
Preflight(h) ==
  /\ At(h, "preflight")
  /\ IF Projected(old[h], account, copy[h].start) < copy[h].days
     THEN Refuse(h)
     ELSE /\ Continue(h)
          /\ UNCHANGED <<request, ledger, account, completed, target, old, copy, acct,
                         carried, run, rest>>

\* The account is read, and applyPendingCarryForwardExpiry.
Open(h) ==
  LET due == account.expiry # 0 /\ EffectiveDate(h) > account.expiry
  IN /\ At(h, "open")
     /\ acct' = [acct EXCEPT ![h] = IF due /\ account.carry = 0
                                    THEN [account EXCEPT !.expiry = 0] ELSE account]
     /\ todo' = [todo EXCEPT ![h] =
                   (IF ~due THEN << >>
                    ELSE IF account.carry = 0 THEN <<"store">>
                    ELSE <<"expire">> \o Recount \o <<"reread", "store">>) \o Tail(@)]
     /\ UNCHANGED <<request, ledger, account, completed, target, old, copy, carried,
                    run, rest>>

\* The leave_balance_entry that a statement creates.
NewEntry(h, type, n, carry, date) ==
  ledger' = Append(ledger, [type |-> type, days |-> n, carry |-> carry, date |-> date,
                            request |-> target[h]])

\* createBalanceEntry, up to the recomputation.
Insert(h) ==
  /\ \/ At(h, "expire")  /\ NewEntry(h, "expiry", acct[h].carry, -acct[h].carry, EffectiveDate(h))
     \/ At(h, "release") /\ NewEntry(h, "release", ledger[old[h].reservation].days, 0, old[h].start)
     \/ At(h, "reverse") /\ NewEntry(h, "reversal", ledger[old[h].consumption].days,
                                     -ledger[old[h].consumption].carry, Today)
     \/ At(h, "carry")   /\ NewEntry(h, "carry_forward", carried[h], carried[h], EffectiveDate(h))
     \/ At(h, "grant")   /\ NewEntry(h, RunMode[CHOOSE g \in run[h] : TRUE], Grant, 0,
                                     EffectiveDate(h))
  /\ Continue(h)
  /\ UNCHANGED <<request, account, completed, target, old, copy, acct, carried, run, rest>>

\* submitLeaveRequest once the account is read: the reservation, and the
\* approval state of the first stage.
Reserve(h) ==
  /\ At(h, "reserve")
  /\ IF acct[h].current - acct[h].reserved < copy[h].days
     THEN Refuse(h)
     ELSE /\ NewEntry(h, "reservation", copy[h].days, 0, copy[h].start)
          /\ copy' = [copy EXCEPT ![h].status = "submitted",
                                  ![h].reservation = Len(ledger) + 1,
                                  ![h].stage = Least(1, Stages), ![h].recorded = {}]
          /\ Continue(h)
          /\ UNCHANGED <<request, account, completed, target, old, acct, carried, run,
                         rest>>

\* consumeReservedBalance asks how much of the leave is carried forward ...
Cover(h) ==
  /\ At(h, "cover")
  /\ carried' = [carried EXCEPT ![h] = Least(CarryAt(copy[h].start), copy[h].days)]
  /\ Continue(h)
  /\ UNCHANGED <<request, ledger, account, completed, target, old, copy, acct, run, rest>>

\* Mutant of Consume: the request does not keep the id of its entry.
ConsumeUnnamed(h) ==
  /\ At(h, "consume")
  /\ NewEntry(h, "consumption", copy[h].days, -carried[h], copy[h].start)
  /\ Continue(h)
  /\ UNCHANGED <<request, account, completed, target, old, copy, acct, carried, run, rest>>

\* ... and consumes it.
Consume(h) ==
  /\ At(h, "consume")
  /\ NewEntry(h, "consumption", copy[h].days, -carried[h], copy[h].start)
  /\ copy' = [copy EXCEPT ![h].consumption = Len(ledger) + 1]
  /\ Continue(h)
  /\ UNCHANGED <<request, account, completed, target, old, acct, carried, run, rest>>

\* applyAnnualCarryForward: all that is left expires, and part of it is carried
\* forward.
Turn(h) ==
  LET left  == acct[h].current
      g     == CHOOSE x \in run[h] : TRUE
      taken == IF CarryCap > 0 THEN Least(left, CarryCap)
               ELSE IF RunExpiry[g] # 0 THEN left ELSE 0
  IN /\ At(h, "turn")
     /\ IF left <= 0
        THEN /\ acct' = [acct EXCEPT ![h].expiry = 0]
             /\ todo' = [todo EXCEPT ![h] = <<"store">> \o Tail(@)]
             /\ UNCHANGED <<ledger, carried>>
        ELSE /\ NewEntry(h, "expiry", left, -Least(acct[h].carry, left), RunDate[g])
             /\ carried' = [carried EXCEPT ![h] = taken]
             /\ todo' = [todo EXCEPT ![h] =
                           Recount \o (IF taken > 0 THEN <<"carry">> \o Recount ELSE << >>)
                           \o <<"reread", "store">> \o Tail(@)]
             /\ UNCHANGED acct
     /\ UNCHANGED <<request, account, completed, target, old, copy, run, rest>>

\* The account is read again and will be saved with another expiry date: none,
\* or that of the days that were carried forward.
Reread(h) ==
  LET g == CHOOSE x \in run[h] : TRUE
  IN /\ At(h, "reread")
     /\ acct' = [acct EXCEPT ![h] = [account EXCEPT !.expiry =
                   IF run[h] # {} /\ carried[h] > 0 THEN RunExpiry[g] ELSE 0]]
     /\ Continue(h)
     /\ UNCHANGED <<request, ledger, account, completed, target, old, copy, carried,
                    run, rest>>

\* recomputeBalanceAccount reads the account and the entries ...
Sum(h) ==
  /\ At(h, "sum")
  /\ acct' = [acct EXCEPT ![h] = Recompute(account)]
  /\ Continue(h)
  /\ UNCHANGED <<request, ledger, account, completed, target, old, copy, carried, run,
                 rest>>

\* ... and saves it.  A change since it was read is overwritten if it came after
\* the comparison of the versions.
Store(h) ==
  /\ At(h, "store")
  /\ account' = [acct[h] EXCEPT !.version = @ + 1]
  /\ acct' = [acct EXCEPT ![h].version = @ + 1]
  /\ Continue(h)
  /\ UNCHANGED <<request, ledger, completed, target, old, copy, carried, run, rest>>

\* "record version mismatch".
StoreRefused(h) ==
  At(h, "store") /\ account.version # acct[h].version /\ Refuse(h)

\* models.Update of the request: the version is compared ...
Check(h) ==
  /\ At(h, "check")
  /\ IF request[target[h]].version # copy[h].version
     THEN Refuse(h)
     ELSE /\ Continue(h)
          /\ UNCHANGED <<request, ledger, account, completed, target, old, copy, acct,
                         carried, run, rest>>

\* ... and the record is saved.
Save(h) ==
  LET v == [copy[h] EXCEPT !.version = @ + 1]
  IN /\ At(h, "save")
     /\ request' = [request EXCEPT ![target[h]] = v]
     /\ IF Len(todo[h]) = 1
        THEN Done(h)
        ELSE /\ Continue(h) /\ copy' = [copy EXCEPT ![h] = v]
             /\ UNCHANGED <<target, old, acct, carried, run>>
     /\ UNCHANGED <<ledger, account, completed, rest>>

\* The run is completed.
Complete(h) ==
  /\ At(h, "complete")
  /\ completed' = completed \cup run[h] /\ Done(h)
  /\ UNCHANGED <<request, ledger, account, rest>>

\* A statement fails or the process crashes: the rest is never executed.
Fail(h) ==
  /\ todo[h] # << >> /\ upsets < MaxUpsets
  /\ Done(h) /\ clean' = FALSE /\ upsets' = upsets + 1
  /\ UNCHANGED <<request, ledger, account, completed, ops>>

Next ==
  \/ \E r \in Requests, n \in Days, start \in Dates : Create(r, n, start)
  \/ \E h \in Handlers, r \in Requests :
       \/ Submit(h, r) \/ Cancel(h, r)
       \/ \E n \in NewDays, start \in Dates : Edit(h, r, n, start) \/ Amend(h, r, n, start)
       \/ \E u \in Users : Approve(h, r, u) \/ Reject(h, r, u)
  \/ \E h \in Handlers, g \in Runs : ExecuteRun(h, g)
  \/ \E h \in Handlers :
       \/ Preflight(h) \/ Open(h) \/ Insert(h) \/ Reserve(h) \/ Cover(h) \/ Consume(h)
       \/ Turn(h) \/ Reread(h) \/ Sum(h) \/ Store(h) \/ StoreRefused(h)
       \/ Check(h) \/ Save(h) \/ Complete(h) \/ Fail(h)

Spec == Init /\ [][Next]_vars

-----------------------------------------------------------------------------
(***************************************************************************)
(* Properties.                                                             *)
(***************************************************************************)
Is(e, type, r, n) ==
  /\ e \in DOMAIN ledger
  /\ ledger[e].type = type /\ ledger[e].request = r /\ ledger[e].days = n

\* Whatever overlaps, is lost or fails: an approved leave is charged by an entry
\* of the ledger for exactly its days, and a reservation a request holds is one
\* of its own for its days.
RequestsNameTheirEntries ==
  \A r \in Requests :
    LET v == request[r]
    IN /\ v.status = "approved" => Is(v.consumption, "consumption", r, v.days)
       /\ v.status # "approved" => v.consumption = 0
       /\ v.reservation # 0 =>
            v.status = "submitted" /\ Is(v.reservation, "reservation", r, v.days)

Quiet == \A h \in Handlers : todo[h] = << >>

InStatus(s) == {r \in Requests : request[r].status = s}

Total(types) ==
  SumFunctionOnSet(EntryDays, {i \in DOMAIN ledger : ledger[i].type \in types})

RequestDays == [r \in Requests |-> request[r].days]

\* As long as operations ran alone and to their end, whatever was amended,
\* cancelled, expired or granted: the account reserves the days of the requests
\* that wait for approval, and its balance is what was granted less what expired
\* and the days of the approved requests.
AccountMatchesRequests ==
  clean /\ Quiet =>
    /\ account.reserved = SumFunctionOnSet(RequestDays, InStatus("submitted"))
    /\ account.current =
         Total(Credits \ {"reversal"}) - Total({"expiry"})
           - SumFunctionOnSet(RequestDays, InStatus("approved"))

\* Under the same condition, and as long as nothing expired, no more is reserved
\* than there is: an amendment that passed its preflight finds the balance it
\* needs when it is submitted again.
NotOverdrawn ==
  clean /\ Quiet /\ (\A i \in DOMAIN ledger : ledger[i].type # "expiry") =>
    /\ account.reserved <= account.current
    /\ \A r \in InStatus("submitted") : request[r].reservation # 0

\* Under the same condition a leave is approved only by as many of its
\* candidates as each stage requires, for the days and dates it has now.
ApprovedByAll ==
  clean =>
    \A r \in InStatus("approved"), s \in 1..Stages :
      Cardinality({u \in Candidates[s] : <<s, u>> \in request[r].by}) >= Required[s]
=============================================================================
