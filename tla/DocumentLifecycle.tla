-------------------------- MODULE DocumentLifecycle --------------------------
(***************************************************************************)
(* The life of one document under internal/platform/application            *)
(* (DocumentActions) and internal/platform/workflow: concurrent requests   *)
(* read the document, decide, plan changes of its workflow tasks and       *)
(* approvals from listings read outside any transaction, and store all of  *)
(* it in one Postgres transaction that insists on the version read.        *)
(*                                                                         *)
(* Documents share no row: the ids of tasks and approvals contain the id   *)
(* of their document, so one document stands for all of them.  A row of    *)
(* workflow_approvals, and the row of workflow_tasks created with it, is   *)
(* identified by the stage it is for: row 1 is <document>:submit, row s    *)
(* above 1 is <document>:stage:<key of stage s>.                           *)
(*                                                                         *)
(* The workflow is generic_request_flow.  Its published versions differ in *)
(* which actions require an actor other than the requester.  A request     *)
(* with an expected version or ETag that does not match the document is    *)
(* refused before it has any effect and is not a step.                     *)
(*                                                                         *)
(* The writers of a document outside DocumentActions, which add and remove *)
(* links and attachments, are in DocumentLinks.                            *)
(***************************************************************************)
EXTENDS Integers, FiniteSets

CONSTANTS
  Requests,    \* requests in progress at the same time
  Users,       \* effective actors
  NoUser,
  Payloads,    \* contents of one part of a document's payload
  NoPayload,
  Parts,       \* parts of the payload: the base, and an extension per module
  Base,
  Stages,      \* stages of the approval policy that matches; 0: none does
  Required,    \* [1..Stages -> Nat \ {0}]: required_approver_count
  Distinct,    \* stages with requires_different_actor
  Strict,      \* <<version, action>>: rules with RequiresDifferentActor
  MaxHead,     \* bound: published versions of the workflow
  MaxVersion,  \* bound: versions of the document
  MaxFaults    \* bound: listings that fail

Rows    == IF Stages = 0 THEN {1} ELSE 1..Stages
Actions == {"submit", "approve", "reject", "reopen", "cancel"}
Edits   == {"update", "extend"}
States  == {"draft", "submitted", "approved", "rejected", "cancelled"}

ASSUME LifecycleAssumption ==
  /\ NoUser \notin Users /\ NoPayload \notin Payloads /\ Base \in Parts
  /\ Stages \in Nat /\ Required \in [1..Stages -> Nat \ {0}]
  /\ Distinct \subseteq 1..Stages /\ IsFiniteSet(Users)
  /\ MaxHead \in Nat \ {0} /\ MaxVersion \in Nat \ {0} /\ MaxFaults \in Nat
  /\ Strict \subseteq (1..MaxHead) \X Actions

\* The action rules of generic_request_flow: where an action is allowed, and
\* the state it leads to.
FromStates(o) ==
  CASE o = "submit" -> {"draft"}
    [] o \in {"approve", "reject"} -> {"submitted"}
    [] o = "reopen" -> {"rejected", "approved"}
    [] o = "cancel" -> {"draft", "submitted"}

FlowTarget(o) ==
  CASE o = "submit"  -> "submitted"
    [] o = "approve" -> "approved"
    [] o = "reject"  -> "rejected"
    [] o = "reopen"  -> "draft"
    [] o = "cancel"  -> "cancelled"

VARIABLES
  doc,          \* the row of document_records
  approval,     \* workflow_approvals.status of a row, or "none"
  flowVersion,  \* workflow_approvals.workflow_version
  requestedBy,  \* workflow_approvals.requested_by
  resolvedBy,   \* workflow_approvals.resolved_by
  distinct,     \* approvals with requires_different_actor in their metadata
  task,         \* workflow_tasks.status of a row, or "none"
  trail,        \* audit events and domain events of the document
  announced,    \* rows whose deep links and notifications were issued
  head,         \* published version of the workflow
  faults,       \* listings that have failed so far
  pc,           \* where a request is
  op,           \* what it does
  actor,        \* its effective actor
  input,        \* the payload it carries
  part,         \* the part of the payload it replaces
  read,         \* the document as it has read it
  rule,         \* version of the workflow its transition comes from
  outcome,      \* what resolveApprovalProgression has decided
  stage,        \* the stage it has found current
  votes,        \* the recorded approvers it will store
  planA, planT  \* rows whose approval, whose task it will resolve

docVars == <<doc, trail>>
rowVars == <<approval, flowVersion, requestedBy, resolvedBy, distinct, task>>
reqVars == <<op, actor, input, part, read, rule>>
prgVars == <<outcome, stage, votes>>
plnVars == <<planA, planT>>
vars    == <<doc, approval, flowVersion, requestedBy, resolvedBy, distinct, task,
             trail, announced, head, faults, pc, op, actor, input, part, read, rule, outcome, stage,
             votes, planA, planT>>

-----------------------------------------------------------------------------
DocumentRecord ==
  [status : States, version : 1..MaxVersion, bound : 0..MaxHead,
   payload : [Parts -> Payloads \cup {NoPayload}],
   approvers : [1..Stages -> SUBSET Users]]

NoDocument ==
  [status |-> "draft", version |-> 1, bound |-> 0,
   payload |-> [m \in Parts |-> NoPayload], approvers |-> [s \in 1..Stages |-> {}]]

TypeOK ==
  /\ doc \in DocumentRecord
  /\ approval \in [Rows -> {"none", "pending", "approved", "rejected", "cancelled"}]
  /\ flowVersion \in [Rows -> 0..MaxHead]
  /\ requestedBy \in [Rows -> Users \cup {NoUser}]
  /\ resolvedBy \in [Rows -> Users \cup {NoUser}]
  /\ distinct \subseteq Rows /\ announced \subseteq Rows
  /\ task \in [Rows -> {"none", "open", "completed", "cancelled"}]
  /\ trail \subseteq [version : 2..MaxVersion, action : Actions \cup Edits,
                      by : Users, from : States, to : States]
  /\ head \in 1..MaxHead /\ faults \in 0..MaxFaults
  /\ pc \in [Requests -> {"idle", "loaded", "progress", "resolve", "tasks",
                          "ready", "publish"}]
  /\ op \in [Requests -> Actions \cup Edits]
  /\ actor \in [Requests -> Users \cup {NoUser}]
  /\ input \in [Requests -> Payloads \cup {NoPayload}] /\ part \in [Requests -> Parts]
  /\ read \in [Requests -> DocumentRecord]
  /\ rule \in [Requests -> 1..MaxHead]
  /\ outcome \in [Requests -> {"none", "quorum", "advance", "final"}]
  /\ stage \in [Requests -> 0..Stages]
  /\ votes \in [Requests -> [1..Stages -> SUBSET Users]]
  /\ planA \in [Requests -> SUBSET Rows] /\ planT \in [Requests -> SUBSET Rows]

\* A document just created (document.Service.Create), and no request under way.
Init ==
  /\ \E w \in Payloads : doc = [NoDocument EXCEPT !.payload[Base] = w]
  /\ approval = [k \in Rows |-> "none"] /\ task = [k \in Rows |-> "none"]
  /\ flowVersion = [k \in Rows |-> 0]
  /\ requestedBy = [k \in Rows |-> NoUser] /\ resolvedBy = [k \in Rows |-> NoUser]
  /\ distinct = {} /\ announced = {} /\ trail = {} /\ head = 1 /\ faults = 0
  /\ pc = [p \in Requests |-> "idle"] /\ op = [p \in Requests |-> "update"]
  /\ actor = [p \in Requests |-> NoUser] /\ input = [p \in Requests |-> NoPayload]
  /\ part = [p \in Requests |-> Base] /\ read = [p \in Requests |-> NoDocument]
  /\ rule = [p \in Requests |-> 1] /\ outcome = [p \in Requests |-> "none"]
  /\ stage = [p \in Requests |-> 0]
  /\ votes = [p \in Requests |-> NoDocument.approvers]
  /\ planA = [p \in Requests |-> {}] /\ planT = [p \in Requests |-> {}]

-----------------------------------------------------------------------------
(***************************************************************************)
(* Reading.  The request gets the document and the rule of its action.     *)
(***************************************************************************)

\* What a request keeps of the document once it has read it.
Load(p, o, u) ==
  /\ pc[p] = "idle" /\ doc.version < MaxVersion
  /\ op' = [op EXCEPT ![p] = o] /\ actor' = [actor EXCEPT ![p] = u]
  /\ read' = [read EXCEPT ![p] = doc]
  /\ votes' = [votes EXCEPT ![p] = doc.approvers]
  /\ outcome' = [outcome EXCEPT ![p] = "none"] /\ stage' = [stage EXCEPT ![p] = 0]
  /\ planA' = [planA EXCEPT ![p] = {}] /\ planT' = [planT EXCEPT ![p] = {}]
  /\ UNCHANGED <<docVars, rowVars, announced, head, faults>>

\* Mutant of BeginAction: the rule always comes from the head of the workflow.
BeginActionAtHead(p, o, u) ==
  /\ doc.status \in FromStates(o)
  /\ Load(p, o, u)
  /\ rule' = [rule EXCEPT ![p] = head]
  /\ pc' = [pc EXCEPT ![p] = "loaded"]
  /\ UNCHANGED <<input, part>>

\* Submit, Approve, Reject, Reopen and Cancel: the rule comes from the head of
\* the workflow, or, except for submit, from the version the document is bound
\* to; all versions have the same from and to states.
BeginAction(p, o, u) ==
  /\ doc.status \in FromStates(o)
  /\ Load(p, o, u)
  /\ rule' = [rule EXCEPT ![p] = IF o # "submit" /\ doc.bound > 0 THEN doc.bound ELSE head]
  /\ pc' = [pc EXCEPT ![p] = "loaded"]
  /\ UNCHANGED <<input, part>>

\* UpdateDraft replaces the base of the payload and keeps its extensions;
\* UpdateExtension replaces the extension of one module.  Only a draft may be
\* edited, and no workflow rule is asked.
BeginEdit(p, o, u, w, m) ==
  /\ doc.status = "draft"
  /\ (o = "update") <=> (m = Base)
  /\ Load(p, o, u)
  /\ input' = [input EXCEPT ![p] = w] /\ part' = [part EXCEPT ![p] = m]
  /\ pc' = [pc EXCEPT ![p] = "ready"]
  /\ UNCHANGED rule

\* A draft of the workflow is published as its new head.
Publish ==
  /\ head < MaxHead
  /\ head' = head + 1
  /\ UNCHANGED <<docVars, rowVars, announced, faults, pc, reqVars, prgVars, plnVars>>

-----------------------------------------------------------------------------
(***************************************************************************)
(* Deciding and planning, from listings of approvals and tasks.  A listing *)
(* whose query fails is indistinguishable from an empty one.               *)
(***************************************************************************)
Pending == {k \in Rows : approval[k] = "pending"}
Open    == {k \in Rows : task[k] = "open"}

\* ListApprovals and ListTasks return the rows, or nothing if the query fails.
Listed(rows, seen) ==
  \/ seen = rows /\ faults' = faults
  \/ rows # {} /\ seen = {} /\ faults < MaxFaults /\ faults' = faults + 1

\* Done: the request ends, whatever it has answered.
Done(p) ==
  /\ pc' = [pc EXCEPT ![p] = "idle"]
  /\ op' = [op EXCEPT ![p] = "update"] /\ actor' = [actor EXCEPT ![p] = NoUser]
  /\ input' = [input EXCEPT ![p] = NoPayload] /\ part' = [part EXCEPT ![p] = Base]
  /\ read' = [read EXCEPT ![p] = NoDocument] /\ rule' = [rule EXCEPT ![p] = 1]
  /\ outcome' = [outcome EXCEPT ![p] = "none"] /\ stage' = [stage EXCEPT ![p] = 0]
  /\ votes' = [votes EXCEPT ![p] = NoDocument.approvers]
  /\ planA' = [planA EXCEPT ![p] = {}] /\ planT' = [planT EXCEPT ![p] = {}]

\* The rule of the request, or the approval, wants another actor than the one
\* who requested the approval.
Forbidden(p, seen) ==
  \E k \in seen : /\ requestedBy[k] = actor[p]
                  /\ <<rule[p], op[p]>> \in Strict \/ k \in distinct

AfterDecisions(o) ==
  CASE o = "approve" -> "progress"
    [] o \in {"reject", "cancel"} -> "resolve"
    [] OTHER -> "ready"

\* applyWorkflowRuntimeDecisions: the check of the actor.  A policy that denies
\* the transition is an Abort.
Decide(p) ==
  /\ pc[p] = "loaded"
  /\ \E seen \in SUBSET Rows :
       /\ Listed(Pending, seen)
       /\ \/ /\ ~Forbidden(p, seen)
             /\ pc' = [pc EXCEPT ![p] = AfterDecisions(op[p])]
             /\ UNCHANGED <<reqVars, prgVars, plnVars>>
          \/ Forbidden(p, seen) /\ Done(p)
  /\ UNCHANGED <<docVars, rowVars, announced, head>>

\* The approvers of stage s with the vote of the actor, where votes are counted.
WithVote(p, s) ==
  IF Required[s] > 1 THEN [read[p].approvers EXCEPT ![s] = @ \cup {actor[p]}]
                     ELSE read[p].approvers

\* Mutant of Lacking: off by one.
LackingTwo(s, approvers) ==
  Required[s] > 1 /\ Cardinality(approvers[s]) + 1 < Required[s]

\* A stage that needs several approvers still lacks some of them.
Lacking(s, approvers) == Required[s] > 1 /\ Cardinality(approvers[s]) < Required[s]

\* resolveApprovalProgression without a current stage: the approval is final.
ProgressFinal(p, seen) ==
  /\ Stages = 0 \/ seen = {}
  /\ outcome' = [outcome EXCEPT ![p] = "final"]
  /\ pc' = [pc EXCEPT ![p] = "resolve"]
  /\ UNCHANGED <<stage, votes, reqVars, plnVars>>

\* resolveApprovalProgression with current stage s: a second vote of the same
\* user is a conflict; otherwise the vote is recorded, and the document waits
\* for more of them, goes on to the next stage, or is finally approved.
ProgressStage(p, s) ==
  \/ /\ Required[s] > 1 /\ actor[p] \in read[p].approvers[s]
     /\ Done(p)
  \/ /\ ~(Required[s] > 1 /\ actor[p] \in read[p].approvers[s])
     /\ votes' = [votes EXCEPT ![p] = WithVote(p, s)]
     /\ stage' = [stage EXCEPT ![p] = s]
     /\ \/ /\ Lacking(s, WithVote(p, s))
           /\ outcome' = [outcome EXCEPT ![p] = "quorum"]
           /\ pc' = [pc EXCEPT ![p] = "ready"]
        \/ /\ ~Lacking(s, WithVote(p, s))
           /\ outcome' = [outcome EXCEPT ![p] = IF s = Stages THEN "final" ELSE "advance"]
           /\ pc' = [pc EXCEPT ![p] = "resolve"]
     /\ UNCHANGED <<reqVars, plnVars>>

\* The current stage is that of the pending approval with the highest sequence.
Progress(p) ==
  /\ pc[p] = "progress"
  /\ \E seen \in SUBSET Rows :
       /\ Listed(Pending, seen)
       /\ \/ ProgressFinal(p, seen)
          \/ \E s \in seen : /\ Stages # 0 /\ \A k \in seen : k <= s
                             /\ ProgressStage(p, s)
  /\ UNCHANGED <<docVars, rowVars, announced, head>>

\* PlanResolveArtifacts lists the approvals to resolve ...
ResolveApprovals(p) ==
  /\ pc[p] = "resolve"
  /\ \E seen \in SUBSET Rows :
       Listed(Pending, seen) /\ planA' = [planA EXCEPT ![p] = seen]
  /\ pc' = [pc EXCEPT ![p] = "tasks"]
  /\ UNCHANGED <<docVars, rowVars, announced, head, reqVars, prgVars, planT>>

\* ... and then the tasks.
ResolveTasks(p) ==
  /\ pc[p] = "tasks"
  /\ \E seen \in SUBSET Rows :
       Listed(Open, seen) /\ planT' = [planT EXCEPT ![p] = seen]
  /\ pc' = [pc EXCEPT ![p] = "ready"]
  /\ UNCHANGED <<docVars, rowVars, announced, head, reqVars, prgVars, planA>>

-----------------------------------------------------------------------------
(***************************************************************************)
(* Storing.  One transaction updates the document if its version is the    *)
(* one read, inserts the audit event, the domain event and the outbox      *)
(* record, inserts the rows created and updates the rows resolved.         *)
(***************************************************************************)
ToState(p) ==
  IF op[p] \in Edits \/ outcome[p] \in {"quorum", "advance"} THEN read[p].status
  ELSE FlowTarget(op[p])

\* PlanCreateSideEffects: the rows that submit, and the next stage, bring.
Created(p) ==
  CASE op[p] = "submit" -> {1}
    [] outcome[p] = "advance" -> {stage[p] + 1}
    [] OTHER -> {}

\* Mutant of NewDocument: UpdateDraft does not keep the extensions.
NewDocumentWithoutExtensions(p) ==
  [status    |-> ToState(p),
   version   |-> read[p].version + 1,
   bound     |-> IF op[p] \in Edits \/ outcome[p] \in {"quorum", "advance"}
                 THEN read[p].bound ELSE rule[p],
   payload   |-> IF op[p] \in Edits
                 THEN [NoDocument.payload EXCEPT ![part[p]] = input[p]]
                 ELSE read[p].payload,
   approvers |-> votes[p]]

\* The record to store: a staged approval keeps status and binding.
NewDocument(p) ==
  [status    |-> ToState(p),
   version   |-> read[p].version + 1,
   bound     |-> IF op[p] \in Edits \/ outcome[p] \in {"quorum", "advance"}
                 THEN read[p].bound ELSE rule[p],
   payload   |-> IF op[p] \in Edits THEN [read[p].payload EXCEPT ![part[p]] = input[p]]
                 ELSE read[p].payload,
   approvers |-> votes[p]]

\* Mutant of ResolvedApproval: the name of the action instead of its target.
ResolvedByName(p) == IF op[p] = "approve" THEN "approved" ELSE op[p]

\* The status of the approvals that an action resolves.
ResolvedApproval(p) ==
  CASE op[p] = "approve" -> "approved"
    [] op[p] = "reject"  -> "rejected"
    [] OTHER             -> "cancelled"

\* applyWorkflowMutationTx.
ApplyWorkflowMutation(p) ==
  /\ approval' = [k \in Rows |-> IF k \in planA[p] THEN ResolvedApproval(p)
                                 ELSE IF k \in Created(p) THEN "pending" ELSE approval[k]]
  /\ resolvedBy' = [k \in Rows |-> IF k \in planA[p] THEN actor[p] ELSE resolvedBy[k]]
  /\ flowVersion' = [k \in Rows |-> IF k \in Created(p) THEN rule[p] ELSE flowVersion[k]]
  /\ requestedBy' = [k \in Rows |-> IF k \in Created(p) THEN actor[p] ELSE requestedBy[k]]
  /\ distinct' = distinct \cup
                 {k \in Created(p) : k \in Distinct \/ <<rule[p], op[p]>> \in Strict}
  /\ task' = [k \in Rows |-> IF k \in planT[p]
                             THEN IF op[p] = "approve" THEN "completed" ELSE "cancelled"
                             ELSE IF k \in Created(p) THEN "open" ELSE task[k]]

\* Mutant of VersionMatches: the update is not conditional on the version.
VersionIgnored(p) == read[p].version < MaxVersion

\* UPDATE ... WHERE version = $17.
VersionMatches(p) == doc.version = read[p].version

\* The transaction commits; the deep links and notifications come after it.
Store(p) ==
  /\ pc[p] = "ready" /\ VersionMatches(p)
  /\ \A k \in Created(p) : approval[k] = "none" /\ task[k] = "none"
  /\ doc' = NewDocument(p)
  /\ trail' = trail \cup {[version |-> read[p].version + 1, action |-> op[p],
                           by |-> actor[p], from |-> read[p].status, to |-> ToState(p)]}
  /\ ApplyWorkflowMutation(p)
  /\ pc' = [pc EXCEPT ![p] = "publish"]
  /\ UNCHANGED <<announced, head, faults, reqVars, prgVars, plnVars>>

\* The transaction is rolled back: the version has changed, or a row it inserts
\* is there already.
StoreFails(p) ==
  /\ pc[p] = "ready"
  /\ ~VersionMatches(p) \/ \E k \in Created(p) : approval[k] # "none" \/ task[k] # "none"
  /\ Done(p)
  /\ UNCHANGED <<docVars, rowVars, announced, head, faults>>

\* workflowArtifactService.Publish: links and notifications for the new rows.
PublishArtifacts(p) ==
  /\ pc[p] = "publish"
  /\ announced' = announced \cup Created(p)
  /\ Done(p)
  /\ UNCHANGED <<docVars, rowVars, head, faults>>

\* The request ends early: a policy denies it, a read fails with an error, the
\* transaction cannot commit, or the process crashes.
Abort(p) ==
  /\ pc[p] # "idle"
  /\ Done(p)
  /\ UNCHANGED <<docVars, rowVars, announced, head, faults>>

Next ==
  \/ Publish
  \/ \E p \in Requests :
       \/ \E o \in Actions, u \in Users : BeginAction(p, o, u)
       \/ \E o \in Edits, u \in Users, w \in Payloads, m \in Parts : BeginEdit(p, o, u, w, m)
       \/ Decide(p) \/ Progress(p) \/ ResolveApprovals(p) \/ ResolveTasks(p)
       \/ Store(p) \/ StoreFails(p) \/ PublishArtifacts(p) \/ Abort(p)

Spec == Init /\ [][Next]_vars

-----------------------------------------------------------------------------
(***************************************************************************)
(* Properties.                                                             *)
(***************************************************************************)

OneIsPending ==
  /\ Pending = Open
  /\ doc.status = "submitted" <=> Pending # {}
  /\ \A j, k \in Pending : j = k

\* Unless a listing failed, a submitted document waits for exactly one approval,
\* with its task open; a document in any other state has no approval pending and
\* no task open, so no one is asked to decide on a document already decided.
PendingIffSubmitted == faults = 0 => OneIsPending

EveryStageApproved ==
  doc.status = "approved" =>
    \A s \in 1..Stages :
      /\ approval[s] = "approved"
      /\ Required[s] > 1 => Cardinality(doc.approvers[s]) >= Required[s]

\* Unless a listing failed, an approved document was approved in every stage of
\* the policy, by as many different users as each stage requires, whatever
\* requests ran at once.
ApprovedInEveryStage == faults = 0 => EveryStageApproved

OthersApproved ==
  \A k \in Rows : k \in distinct \/ <<flowVersion[k], "approve">> \in Strict =>
    /\ approval[k] = "approved" => resolvedBy[k] # requestedBy[k]
    /\ k \in 1..Stages => requestedBy[k] \notin doc.approvers[k]

\* Where the stage, or the version of the workflow the approval was requested
\* under, wants another actor, the requester of an approval has neither
\* resolved it in favour nor voted for it, even if a laxer version is published
\* in between; unless a listing failed.
RequesterDoesNotApprove == faults = 0 => OthersApproved

\* The audit trail has exactly one entry for every version of the document; an
\* entry starts in the state the entry before it ended in, and the last one
\* ends in the current state: no version is lost or stored twice.
TrailIsComplete ==
  /\ \A v \in 2..doc.version : \E e \in trail : e.version = v
  /\ \A e \in trail : e.version <= doc.version
  /\ \A e, f \in trail :
       /\ e.version = f.version => e = f
       /\ f.version = e.version + 1 => f.from = e.to
  /\ \A e \in trail : e.version = doc.version => e.to = doc.status

\* A part of the payload changes only while the document is and stays a draft,
\* and only to what a request to replace that very part carries: no concurrent
\* request reverts an extension, or changes what others are approving.
PayloadStep ==
  \A m \in Parts : doc'.payload[m] # doc.payload[m] =>
    /\ doc.status = "draft" /\ doc'.status = "draft"
    /\ \E p \in Requests : /\ op[p] \in Edits /\ part[p] = m
                           /\ doc'.payload[m] = input[p]
PayloadIsNotOverwritten == [][PayloadStep]_vars

\* An approval that was resolved keeps its status and its resolver, although
\* the update is not conditional on the status ("WHERE approval_id = $4").
ResolvedStep ==
  \A k \in Rows : approval[k] \notin {"none", "pending"} =>
    approval'[k] = approval[k] /\ resolvedBy'[k] = resolvedBy[k]
ApprovalIsResolvedOnce == [][ResolvedStep]_vars

\* A request that holds the current version can be stored: a reopened document
\* is a draft, and a draft may be submitted.
CurrentRequestCanBeStored ==
  \A p \in Requests : pc[p] = "ready" /\ VersionMatches(p) =>
    \A k \in Created(p) : approval[k] = "none"
=============================================================================
