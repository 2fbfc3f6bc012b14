----------------------- MODULE DocumentLifecycleProofs -----------------------
(***************************************************************************)
(* Proofs about DocumentLifecycle, for any number of requests, users,      *)
(* stages, payloads and published versions.                                *)
(*                                                                         *)
(* The heart of the argument is Fresh: a request that still holds the      *)
(* current version holds the current document, because every transaction   *)
(* moves the version.  What it has planned from listings read outside the  *)
(* transaction is then right as well (PlanIsRight), since rows change only *)
(* together with the version.                                              *)
(***************************************************************************)
EXTENDS DocumentLifecycle, FiniteSetTheorems, TLAPS

\* The request has read the document and not yet stored or given up.
Working(p) == pc[p] \notin {"idle", "publish"}

\* The request would pass the check of the version now.
Current(p) == Working(p) /\ read[p].version = doc.version

\* The request resolves approvals and tasks.
Resolving(p) == op[p] \in {"reject", "cancel"} \/ outcome[p] \in {"final", "advance"}

\* What the position of a request says about what it holds.
ControlOf(p) ==
  /\ Working(p) =>
       /\ actor[p] \in Users
       /\ read[p].version < MaxVersion
       /\ op[p] \in Edits => read[p].status = "draft" /\ pc[p] = "ready"
       /\ op[p] \in Actions => read[p].status \in FromStates(op[p])
       /\ op[p] \in Actions \ {"submit"} /\ read[p].bound > 0 => rule[p] = read[p].bound
       /\ op[p] # "approve" => outcome[p] = "none" /\ votes[p] = read[p].approvers
       /\ ~Resolving(p) => planA[p] = {} /\ planT[p] = {}
  /\ pc[p] \in {"loaded", "progress"} => outcome[p] = "none" /\ votes[p] = read[p].approvers
  /\ pc[p] = "progress" => op[p] = "approve"
  /\ pc[p] \in {"resolve", "tasks"} => Resolving(p)
  /\ pc[p] = "ready" /\ op[p] = "approve" => outcome[p] # "none"
  /\ outcome[p] = "advance" => stage[p] \in 1..(Stages - 1)
  /\ pc[p] \in {"loaded", "progress", "resolve"} => planA[p] = {}
  /\ pc[p] \in {"loaded", "progress", "resolve", "tasks"} => planT[p] = {}

\* Control: ControlOf for every request.
Control == \A p \in Requests : ControlOf(p)

\* A request holds no future version, and the current version only together
\* with the current document.
FreshOf(p) ==
  Working(p) => /\ read[p].version <= doc.version
                /\ read[p].version = doc.version => read[p] = doc
Fresh == \A p \in Requests : FreshOf(p)

\* A request that is current resolves pending approvals only.
PlanIsPending == \A p \in Requests : Current(p) => planA[p] \subseteq Pending

\* What a request that is current has planned, when no listing has failed.
PlanOf(p) ==
  Current(p) =>
    /\ pc[p] \in {"tasks", "ready"} /\ Resolving(p) => planA[p] = Pending
    /\ pc[p] = "ready" /\ Resolving(p) => planT[p] = Open
    /\ op[p] \in Actions /\ pc[p] # "loaded" => ~Forbidden(p, Pending)
    /\ Stages # 0 /\ outcome[p] # "none" =>
         /\ stage[p] \in Pending
         /\ votes[p] = WithVote(p, stage[p])
         /\ outcome[p] \in {"final", "advance"} => ~Lacking(stage[p], votes[p])
         /\ outcome[p] = "final" => stage[p] = Stages
PlanIsRight == \A p \in Requests : PlanOf(p)

\* Stages are approved in their order and with enough votes.
StagesInOrder ==
  /\ \A j, k \in Rows : j < k /\ approval[k] # "none" => approval[j] = "approved"
  /\ \A s \in 1..Stages : approval[s] = "approved" => ~Lacking(s, doc.approvers)
  /\ \A s \in 1..Stages : approval[s] = "none" => doc.approvers[s] = {}
  /\ doc.status = "approved" /\ Stages # 0 => approval[Stages] = "approved"

\* Pending approvals belong to the version the document is bound to.
BoundRows ==
  /\ doc.bound = 0 => \A k \in Rows : approval[k] = "none"
  /\ \A k \in Pending : flowVersion[k] = doc.bound

\* What holds as long as no listing has failed.
Reliable == /\ OneIsPending /\ StagesInOrder /\ BoundRows
            /\ OthersApproved /\ PlanIsRight

\* The inductive invariant.
IInv == /\ TypeOK /\ Control /\ Fresh /\ PlanIsPending /\ TrailIsComplete
        /\ (faults = 0 => Reliable)
-----------------------------------------------------------------------------
(* PROOFS *)

\* The local state of a request.
Same(q) ==
  /\ pc'[q] = pc[q] /\ op'[q] = op[q] /\ actor'[q] = actor[q] /\ input'[q] = input[q]
  /\ part'[q] = part[q] /\ read'[q] = read[q] /\ rule'[q] = rule[q]
  /\ outcome'[q] = outcome[q] /\ stage'[q] = stage[q] /\ votes'[q] = votes[q]
  /\ planA'[q] = planA[q] /\ planT'[q] = planT[q]

\* A step of one request.
StepOf(p) ==
  \/ \E o \in Actions, u \in Users : BeginAction(p, o, u)
  \/ \E o \in Edits, u \in Users, w \in Payloads, m \in Parts : BeginEdit(p, o, u, w, m)
  \/ Decide(p) \/ Progress(p) \/ ResolveApprovals(p) \/ ResolveTasks(p)
  \/ Store(p) \/ StoreFails(p) \/ PublishArtifacts(p) \/ Abort(p)

\* Done leaves a request idle, without an outcome, and no other variable of a
\* request outside its type.
LEMMA DoneEnds ==
  ASSUME TypeOK, NEW p \in Requests, Done(p)
  PROVE  pc'[p] = "idle" /\ outcome'[p] = "none"
BY DEF TypeOK, Done

\* The empty document is a document.
LEMMA NoDocumentType == NoDocument \in DocumentRecord
BY LifecycleAssumption DEF NoDocument, DocumentRecord, States

\* Done keeps the types of the variables of the requests.
LEMMA DoneType ==
  ASSUME TypeOK, NEW p \in Requests, Done(p)
  PROVE  /\ pc' \in [Requests -> {"idle", "loaded", "progress", "resolve", "tasks",
                                  "ready", "publish"}]
         /\ op' \in [Requests -> Actions \cup Edits]
         /\ actor' \in [Requests -> Users \cup {NoUser}]
         /\ input' \in [Requests -> Payloads \cup {NoPayload}]
         /\ part' \in [Requests -> Parts]
         /\ read' \in [Requests -> DocumentRecord]
         /\ rule' \in [Requests -> 1..MaxHead]
         /\ outcome' \in [Requests -> {"none", "quorum", "advance", "final"}]
         /\ stage' \in [Requests -> 0..Stages]
         /\ votes' \in [Requests -> [1..Stages -> SUBSET Users]]
         /\ planA' \in [Requests -> SUBSET Rows] /\ planT' \in [Requests -> SUBSET Rows]
<1>1. NoDocument.approvers \in [1..Stages -> SUBSET Users]
  BY NoDocumentType DEF DocumentRecord
<1>2. "update" \in Actions \cup Edits /\ Base \in Parts /\ 1 \in 1..MaxHead /\ 0 \in 0..Stages
  BY LifecycleAssumption DEF Actions, Edits
<1> QED BY <1>1, <1>2, NoDocumentType DEF TypeOK, Done

\* A step of one request leaves the local state of the others alone.
LEMMA OthersSame ==
  ASSUME TypeOK, NEW p \in Requests, StepOf(p), NEW q \in Requests, q # p
  PROVE  Same(q)
<1>1. ASSUME Done(p) PROVE Same(q)
  BY <1>1 DEF TypeOK, Done, Same
<1>2. ASSUME NEW o, NEW u, BeginAction(p, o, u) PROVE Same(q)
  BY <1>2 DEF TypeOK, BeginAction, Load, Same
<1>3. ASSUME NEW o, NEW u, NEW w, NEW m, BeginEdit(p, o, u, w, m) PROVE Same(q)
  BY <1>3 DEF TypeOK, BeginEdit, Load, Same
<1>4. CASE Decide(p)
  BY <1>1, <1>4 DEF TypeOK, Decide, Same, reqVars, prgVars, plnVars
<1>5. CASE Progress(p)
  BY <1>1, <1>5 DEF TypeOK, Progress, ProgressFinal, ProgressStage, Same,
     reqVars, prgVars, plnVars
<1>6. CASE ResolveApprovals(p)
  BY <1>6 DEF TypeOK, ResolveApprovals, Same, reqVars, prgVars, plnVars
<1>7. CASE ResolveTasks(p)
  BY <1>7 DEF TypeOK, ResolveTasks, Same, reqVars, prgVars, plnVars
<1>8. CASE Store(p)
  BY <1>8 DEF TypeOK, Store, Same, reqVars, prgVars, plnVars
<1>9. CASE StoreFails(p) \/ PublishArtifacts(p) \/ Abort(p)
  BY <1>1, <1>9 DEF StoreFails, PublishArtifacts, Abort
<1> QED BY <1>2, <1>3, <1>4, <1>5, <1>6, <1>7, <1>8, <1>9 DEF StepOf

\* Only Store changes the document, its trail and its rows.
LEMMA QuietSteps ==
  ASSUME NEW p \in Requests, StepOf(p), ~Store(p)
  PROVE  doc' = doc /\ trail' = trail /\ UNCHANGED rowVars
BY DEF StepOf, BeginAction, BeginEdit, Load, Decide, Progress, ResolveApprovals,
   ResolveTasks, StoreFails, PublishArtifacts, Abort, docVars

-----------------------------------------------------------------------------
(* Types. *)

\* The initial document is a document.
LEMMA InitialDocument ==
  ASSUME NEW w \in Payloads
  PROVE  [NoDocument EXCEPT !.payload[Base] = w] \in DocumentRecord
BY LifecycleAssumption DEF NoDocument, DocumentRecord, States

\* The document a request stores is a document.
LEMMA NewDocumentType ==
  ASSUME TypeOK, Control, NEW p \in Requests, Working(p)
  PROVE  NewDocument(p) \in DocumentRecord /\ ToState(p) \in States
<1>1. ToState(p) \in States
  BY DEF TypeOK, ToState, FlowTarget, DocumentRecord, States, Actions, Edits
<1>2. read[p].version + 1 \in 1..MaxVersion
  BY LifecycleAssumption DEF TypeOK, DocumentRecord, Control, ControlOf
<1>3. [read[p].payload EXCEPT ![part[p]] = input[p]] \in [Parts -> Payloads \cup {NoPayload}]
      /\ read[p].payload \in [Parts -> Payloads \cup {NoPayload}]
  BY DEF TypeOK, DocumentRecord
<1>4. read[p].bound \in 0..MaxHead /\ rule[p] \in 0..MaxHead
  BY LifecycleAssumption DEF TypeOK, DocumentRecord
<1>5. votes[p] \in [1..Stages -> SUBSET Users]
  BY DEF TypeOK
<1> QED BY <1>1, <1>2, <1>3, <1>4, <1>5 DEF NewDocument, DocumentRecord

\* Rows are created for stages of the policy.
LEMMA CreatedType ==
  ASSUME TypeOK, Control, NEW p \in Requests
  PROVE  Created(p) \subseteq Rows
BY LifecycleAssumption DEF TypeOK, Control, ControlOf, Created, Rows

\* A row is a stage when there is a policy.
LEMMA RowsAreStages ==
  /\ Stages # 0 => Rows = 1..Stages
  /\ 1 \in Rows
  /\ Rows \subseteq Nat
BY LifecycleAssumption DEF Rows

\* The votes of a request are sets of users.
LEMMA VotesType ==
  ASSUME TypeOK, NEW p \in Requests, actor[p] \in Users, NEW s \in 1..Stages
  PROVE  WithVote(p, s) \in [1..Stages -> SUBSET Users]
<1>1. read[p].approvers \in [1..Stages -> SUBSET Users] BY DEF TypeOK, DocumentRecord
<1>2. read[p].approvers[s] \cup {actor[p]} \in SUBSET Users BY <1>1
<1>3. [read[p].approvers EXCEPT ![s] = read[p].approvers[s] \cup {actor[p]}]
        \in [1..Stages -> SUBSET Users]
  BY <1>1, <1>2
<1> QED BY <1>1, <1>3 DEF WithVote

\* The initial states are typed.
LEMMA InitType == Init => TypeOK
<1> SUFFICES ASSUME Init PROVE TypeOK OBVIOUS
<1>1. PICK w \in Payloads : doc = [NoDocument EXCEPT !.payload[Base] = w]
  BY DEF Init
<1>2. doc \in DocumentRecord BY <1>1, InitialDocument
<1>3. NoDocument.approvers \in [1..Stages -> SUBSET Users]
  BY NoDocumentType DEF DocumentRecord
<1>4. "update" \in Actions \cup Edits /\ Base \in Parts /\ 1 \in 1..MaxHead /\ 0 \in 0..Stages
      /\ 0 \in 0..MaxHead /\ 0 \in 0..MaxFaults
  BY LifecycleAssumption DEF Actions, Edits
<1> QED BY <1>2, <1>3, <1>4, NoDocumentType DEF Init, TypeOK

\* The entry of the trail that a request stores.
Entry(p) == [version |-> read[p].version + 1, action |-> op[p],
             by |-> actor[p], from |-> read[p].status, to |-> ToState(p)]

\* Every step keeps the types.
LEMMA TypeStep == TypeOK /\ Control /\ [Next]_vars => TypeOK'
<1> SUFFICES ASSUME TypeOK, Control, [Next]_vars PROVE TypeOK' OBVIOUS
<1>1. CASE UNCHANGED vars
  BY <1>1 DEF TypeOK, vars
<1>2. CASE Publish
  BY <1>2, LifecycleAssumption DEF TypeOK, Publish, docVars, rowVars, reqVars, prgVars, plnVars
<1>3. ASSUME NEW p \in Requests, StepOf(p) PROVE TypeOK'
  <2>1. ASSUME NEW o \in Actions, NEW u \in Users, BeginAction(p, o, u) PROVE TypeOK'
    <3>1. doc.approvers \in [1..Stages -> SUBSET Users] /\ doc.bound \in 0..MaxHead
      BY DEF TypeOK, DocumentRecord
    <3>2. (IF o # "submit" /\ doc.bound > 0 THEN doc.bound ELSE head) \in 1..MaxHead
      BY <3>1, LifecycleAssumption DEF TypeOK
    <3>3. 0 \in 0..Stages BY LifecycleAssumption
    <3> QED BY <2>1, <3>1, <3>2, <3>3 DEF TypeOK, BeginAction, Load, docVars, rowVars
  <2>2. ASSUME NEW o \in Edits, NEW u \in Users, NEW w \in Payloads, NEW m \in Parts,
               BeginEdit(p, o, u, w, m)
        PROVE TypeOK'
    <3>1. doc.approvers \in [1..Stages -> SUBSET Users]
      BY DEF TypeOK, DocumentRecord
    <3>2. 0 \in 0..Stages BY LifecycleAssumption
    <3> QED BY <2>2, <3>1, <3>2 DEF TypeOK, BeginEdit, Load, docVars, rowVars
  <2>3. ASSUME NEW rows, NEW seen, Listed(rows, seen) PROVE faults' \in 0..MaxFaults
    BY <2>3, LifecycleAssumption DEF TypeOK, Listed
  <2>4. CASE Decide(p)
    <3>1. faults' \in 0..MaxFaults BY <2>3, <2>4 DEF Decide
    <3>2. UNCHANGED <<docVars, rowVars, announced, head>> BY <2>4 DEF Decide
    <3>3. CASE Done(p)
      BY <3>1, <3>2, <3>3, DoneType DEF TypeOK, docVars, rowVars
    <3>4. CASE UNCHANGED <<reqVars, prgVars, plnVars>> /\ pc' = [pc EXCEPT ![p] = AfterDecisions(op[p])]
      BY <3>1, <3>2, <3>4 DEF TypeOK, AfterDecisions, docVars, rowVars, reqVars, prgVars, plnVars
    <3> QED BY <2>4, <3>3, <3>4 DEF Decide
  <2>5. CASE Progress(p)
    <3>1. faults' \in 0..MaxFaults BY <2>3, <2>5 DEF Progress
    <3>2. UNCHANGED <<docVars, rowVars, announced, head>> BY <2>5 DEF Progress
    <3>3. CASE Done(p)
      BY <3>1, <3>2, <3>3, DoneType DEF TypeOK, docVars, rowVars
    <3>4. ASSUME NEW seen, ProgressFinal(p, seen) PROVE TypeOK'
      BY <3>1, <3>2, <3>4 DEF TypeOK, ProgressFinal, docVars, rowVars, reqVars, plnVars
    <3>5. ASSUME NEW s \in 1..Stages, ProgressStage(p, s), ~Done(p) PROVE TypeOK'
      <4>1. actor[p] \in Users
        BY <2>5 DEF Progress, Control, ControlOf, Working
      <4>2. WithVote(p, s) \in [1..Stages -> SUBSET Users] BY <4>1, VotesType
      <4>3. s \in 0..Stages BY LifecycleAssumption
      <4>4. /\ votes' = [votes EXCEPT ![p] = WithVote(p, s)]
            /\ stage' = [stage EXCEPT ![p] = s]
            /\ UNCHANGED <<reqVars, plnVars>>
        BY <3>5 DEF ProgressStage
      <4>5. \E x \in {"quorum", "advance", "final"}, c \in {"ready", "resolve"} :
              outcome' = [outcome EXCEPT ![p] = x] /\ pc' = [pc EXCEPT ![p] = c]
        BY <3>5 DEF ProgressStage
      <4> QED BY <3>1, <3>2, <4>2, <4>3, <4>4, <4>5
              DEF TypeOK, docVars, rowVars, reqVars, plnVars
    <3> QED BY <2>5, <3>3, <3>4, <3>5, RowsAreStages DEF Progress
  <2>6. CASE ResolveApprovals(p)
    <3>1. faults' \in 0..MaxFaults BY <2>3, <2>6 DEF ResolveApprovals
    <3> QED BY <2>6, <3>1 DEF TypeOK, ResolveApprovals, docVars, rowVars, reqVars, prgVars
  <2>7. CASE ResolveTasks(p)
    <3>1. faults' \in 0..MaxFaults BY <2>3, <2>7 DEF ResolveTasks
    <3> QED BY <2>7, <3>1 DEF TypeOK, ResolveTasks, docVars, rowVars, reqVars, prgVars
  <2>8. CASE Store(p)
    <3>1. Working(p) /\ pc[p] = "ready" BY <2>8 DEF Store, Working
    <3>2. actor[p] \in Users BY <3>1 DEF Control, ControlOf
    <3>3. doc' \in DocumentRecord BY <2>8, <3>1, NewDocumentType DEF Store
    <3>4. read[p].version + 1 \in 2..MaxVersion
      BY <3>1, LifecycleAssumption DEF TypeOK, DocumentRecord, Control, ControlOf
    <3>5. Entry(p) \in [version : 2..MaxVersion, action : Actions \cup Edits,
                        by : Users, from : States, to : States]
      <4>1. ToState(p) \in States BY <3>1, NewDocumentType
      <4>2. read[p].status \in States /\ op[p] \in Actions \cup Edits
        BY DEF TypeOK, DocumentRecord
      <4> QED BY <3>2, <3>4, <4>1, <4>2 DEF Entry
    <3>6. trail' = trail \cup {Entry(p)} BY <2>8 DEF Store, Entry
    <3>7. trail' \subseteq [version : 2..MaxVersion, action : Actions \cup Edits,
                            by : Users, from : States, to : States]
      BY <3>5, <3>6 DEF TypeOK
    <3>8. Created(p) \subseteq Rows BY CreatedType
    <3>9. ApplyWorkflowMutation(p) BY <2>8 DEF Store
    <3>10. approval' \in [Rows -> {"none", "pending", "approved", "rejected", "cancelled"}]
      BY <3>9 DEF TypeOK, ApplyWorkflowMutation, ResolvedApproval
    <3>11. task' \in [Rows -> {"none", "open", "completed", "cancelled"}]
      BY <3>9 DEF TypeOK, ApplyWorkflowMutation
    <3>12. /\ flowVersion' \in [Rows -> 0..MaxHead]
           /\ requestedBy' \in [Rows -> Users \cup {NoUser}]
           /\ resolvedBy' \in [Rows -> Users \cup {NoUser}]
           /\ distinct' \subseteq Rows
      BY <3>2, <3>8, <3>9, LifecycleAssumption DEF TypeOK, ApplyWorkflowMutation
    <3> QED BY <2>8, <3>3, <3>7, <3>10, <3>11, <3>12
            DEF TypeOK, Store, reqVars, prgVars, plnVars
  <2>9. CASE StoreFails(p) \/ Abort(p)
    BY <2>9, DoneType DEF TypeOK, StoreFails, Abort, docVars, rowVars
  <2>10. CASE PublishArtifacts(p)
    BY <2>10, DoneType, CreatedType DEF TypeOK, PublishArtifacts, docVars, rowVars
  <2> QED BY <1>3, <2>1, <2>2, <2>4, <2>5, <2>6, <2>7, <2>8, <2>9, <2>10 DEF StepOf
<1> QED BY <1>1, <1>2, <1>3 DEF Next, StepOf

-----------------------------------------------------------------------------
(* Control and Fresh. *)

\* A request that does not move keeps ControlOf.
LEMMA ControlSame ==
  ASSUME NEW q \in Requests, ControlOf(q), Same(q)
  PROVE  ControlOf(q)'
BY DEF ControlOf, Same, Working, Resolving

\* An idle request without outcome satisfies ControlOf.
LEMMA ControlIdle ==
  ASSUME NEW q \in Requests, pc'[q] = "idle", outcome'[q] = "none"
  PROVE  ControlOf(q)'
BY DEF ControlOf, Working

\* Every step keeps Control.
LEMMA ControlStep == TypeOK /\ Control /\ [Next]_vars => Control'
<1> SUFFICES ASSUME TypeOK, Control, [Next]_vars, NEW q \in Requests PROVE ControlOf(q)'
  BY DEF Control
<1>0. ControlOf(q) BY DEF Control
<1>1. CASE UNCHANGED vars
  BY <1>0, <1>1, ControlSame DEF vars, Same
<1>2. CASE Publish
  BY <1>0, <1>2, ControlSame DEF Publish, Same, reqVars, prgVars, plnVars
<1>3. ASSUME NEW p \in Requests, StepOf(p), p # q PROVE ControlOf(q)'
  BY <1>0, <1>3, OthersSame, ControlSame
<1>4. ASSUME StepOf(q) PROVE ControlOf(q)'
  <2>1. ASSUME NEW o \in Actions, NEW u \in Users, BeginAction(q, o, u) PROVE ControlOf(q)'
    <3>1. /\ pc'[q] = "loaded" /\ op'[q] = o /\ actor'[q] = u /\ read'[q] = doc
          /\ votes'[q] = doc.approvers /\ outcome'[q] = "none"
          /\ planA'[q] = {} /\ planT'[q] = {}
          /\ doc.status \in FromStates(o) /\ doc.version < MaxVersion
          /\ o # "submit" /\ doc.bound > 0 => rule'[q] = doc.bound
      BY <2>1 DEF TypeOK, BeginAction, Load
    <3>2. o \notin Edits BY DEF Actions, Edits
    <3> QED BY <3>1, <3>2 DEF ControlOf, Working, Resolving
  <2>2. ASSUME NEW o \in Edits, NEW u \in Users, NEW w \in Payloads, NEW m \in Parts,
               BeginEdit(q, o, u, w, m)
        PROVE ControlOf(q)'
    <3>1. /\ pc'[q] = "ready" /\ op'[q] = o /\ actor'[q] = u /\ read'[q] = doc
          /\ votes'[q] = doc.approvers /\ outcome'[q] = "none"
          /\ planA'[q] = {} /\ planT'[q] = {}
          /\ doc.status = "draft" /\ doc.version < MaxVersion
      BY <2>2 DEF TypeOK, BeginEdit, Load
    <3>2. o \notin Actions /\ o # "approve" BY DEF Actions, Edits
    <3> QED BY <3>1, <3>2 DEF ControlOf, Working
  <2>3. CASE Done(q)
    BY <2>3, DoneEnds, ControlIdle
  <2>4. CASE Decide(q) /\ ~Done(q)
    <3>1. /\ pc[q] = "loaded" /\ pc' = [pc EXCEPT ![q] = AfterDecisions(op[q])]
          /\ UNCHANGED <<reqVars, prgVars, plnVars>>
      BY <2>4 DEF Decide
    <3>2. pc'[q] = AfterDecisions(op[q]) BY <3>1 DEF TypeOK
    <3>3. op[q] \in Actions BY <1>0, <3>1 DEF TypeOK, ControlOf, Working
    <3> QED BY <1>0, <3>1, <3>2, <3>3
            DEF ControlOf, Working, Resolving, AfterDecisions, Actions, Edits,
                reqVars, prgVars, plnVars
  <2>5. CASE Progress(q) /\ ~Done(q)
    <3>1. pc[q] = "progress" /\ op[q] = "approve" BY <1>0, <2>5 DEF Progress, ControlOf
    <3>2. ASSUME NEW seen, ProgressFinal(q, seen) PROVE ControlOf(q)'
      <4>1. /\ pc'[q] = "resolve" /\ outcome'[q] = "final" /\ votes'[q] = votes[q]
            /\ UNCHANGED <<reqVars, plnVars>>
        BY <3>2 DEF TypeOK, ProgressFinal
      <4> QED BY <1>0, <3>1, <4>1
              DEF ControlOf, Working, Resolving, Actions, Edits, reqVars, plnVars
    <3>3. ASSUME NEW s \in 1..Stages, ProgressStage(q, s) PROVE ControlOf(q)'
      <4>1. /\ \/ pc'[q] = "ready" /\ outcome'[q] = "quorum"
               \/ /\ pc'[q] = "resolve"
                  /\ outcome'[q] = IF s = Stages THEN "final" ELSE "advance"
            /\ stage'[q] = s
            /\ UNCHANGED <<reqVars, plnVars>>
        BY <2>5, <3>3 DEF TypeOK, ProgressStage
      <4>2. s # Stages => s \in 1..(Stages - 1) BY LifecycleAssumption
      <4> QED BY <1>0, <3>1, <4>1, <4>2
              DEF ControlOf, Working, Resolving, Actions, Edits, reqVars, plnVars
    <3> QED BY <2>5, <3>2, <3>3, RowsAreStages DEF Progress
  <2>6. CASE ResolveApprovals(q)
    <3>1. /\ pc[q] = "resolve" /\ pc'[q] = "tasks"
          /\ UNCHANGED <<reqVars, prgVars, planT>>
      BY <2>6 DEF TypeOK, ResolveApprovals
    <3> QED BY <1>0, <3>1 DEF ControlOf, Working, Resolving, Actions, Edits, reqVars, prgVars
  <2>7. CASE ResolveTasks(q)
    <3>1. /\ pc[q] = "tasks" /\ pc'[q] = "ready"
          /\ UNCHANGED <<reqVars, prgVars, planA>>
      BY <2>7 DEF TypeOK, ResolveTasks
    <3> QED BY <1>0, <3>1 DEF ControlOf, Working, Resolving, Actions, Edits, reqVars, prgVars
  <2>8. CASE Store(q)
    <3>1. /\ pc[q] = "ready" /\ pc'[q] = "publish"
          /\ UNCHANGED <<reqVars, prgVars, plnVars>>
      BY <2>8 DEF TypeOK, Store
    <3> QED BY <1>0, <3>1 DEF ControlOf, Working, reqVars, prgVars, plnVars
  <2> QED BY <1>4, <2>1, <2>2, <2>3, <2>4, <2>5, <2>6, <2>7, <2>8
          DEF StepOf, StoreFails, PublishArtifacts, Abort
<1> QED BY <1>1, <1>2, <1>3, <1>4 DEF Next, StepOf

\* What Store does to the version: it moves, and nobody holds the new one.
LEMMA StoreMovesVersion ==
  ASSUME TypeOK, Control, Fresh, NEW p \in Requests, Store(p)
  PROVE  /\ doc' = NewDocument(p) /\ read[p] = doc
         /\ doc'.version = doc.version + 1 /\ doc.version \in Nat
         /\ pc'[p] = "publish"
         /\ \A q \in Requests : Working(q)' =>
              /\ q # p /\ Same(q) /\ Working(q)
              /\ read'[q].version < doc'.version
<1>1. Working(p) /\ pc[p] = "ready" BY DEF Store, Working
<1>2. read[p] = doc BY <1>1 DEF Store, VersionMatches, Fresh, FreshOf
<1>3. doc' = NewDocument(p) /\ pc'[p] = "publish" BY DEF Store, TypeOK
<1>4. doc'.version = doc.version + 1 /\ doc.version \in Nat
  BY <1>2, <1>3 DEF NewDocument, TypeOK, DocumentRecord
<1>5. ASSUME NEW q \in Requests, Working(q)'
      PROVE q # p /\ Same(q) /\ Working(q) /\ read'[q].version < doc'.version
  <2>1. q # p BY <1>3, <1>5 DEF Working
  <2>2. Same(q) BY <2>1, OthersSame DEF StepOf
  <2>3. Working(q) BY <1>5, <2>2 DEF Working, Same
  <2>4. read[q].version <= doc.version /\ read[q].version \in Nat
    BY <2>3 DEF Fresh, FreshOf, TypeOK, DocumentRecord
  <2>5. read'[q].version = read[q].version BY <2>2 DEF Same
  <2> QED BY <1>4, <2>1, <2>2, <2>3, <2>4, <2>5
<1> QED BY <1>2, <1>3, <1>4, <1>5

\* Every step keeps Fresh.
LEMMA FreshStep == TypeOK /\ Control /\ Fresh /\ [Next]_vars => Fresh'
<1> SUFFICES ASSUME TypeOK, Control, Fresh, [Next]_vars, NEW q \in Requests PROVE FreshOf(q)'
  BY DEF Fresh
<1>0. FreshOf(q) BY DEF Fresh
<1>a. ASSUME doc' = doc, pc'[q] = pc[q], read'[q] = read[q] PROVE FreshOf(q)'
  BY <1>0, <1>a DEF FreshOf, Working
<1>1. CASE UNCHANGED vars
  BY <1>1, <1>a DEF vars
<1>2. CASE Publish
  BY <1>2, <1>a DEF Publish, docVars, reqVars
<1>3. ASSUME NEW p \in Requests, StepOf(p), ~Store(p), p # q PROVE FreshOf(q)'
  BY <1>3, <1>a, OthersSame, QuietSteps DEF Same
<1>4. ASSUME NEW p \in Requests, Store(p) PROVE FreshOf(q)'
  <2>1. SUFFICES ASSUME Working(q)' PROVE FreshOf(q)' BY DEF FreshOf
  <2>2. read'[q].version < doc'.version /\ Same(q) BY <1>4, <2>1, StoreMovesVersion
  <2>3. read[q].version \in Nat BY DEF TypeOK, DocumentRecord
  <2>a. doc'.version = doc.version + 1 /\ doc.version \in Nat BY <1>4, StoreMovesVersion
  <2>4. read'[q].version \in Nat /\ doc'.version \in Nat
    BY <2>2, <2>3, <2>a DEF Same
  <2> QED BY <2>2, <2>4 DEF FreshOf
<1>5. ASSUME StepOf(q), ~Store(q) PROVE FreshOf(q)'
  <2>0. doc' = doc BY <1>5, QuietSteps
  <2>1. ASSUME NEW o, NEW u, Load(q, o, u) PROVE FreshOf(q)'
    <3>1. read'[q] = doc BY <2>1 DEF TypeOK, Load
    <3>2. doc.version <= doc.version BY DEF TypeOK, DocumentRecord
    <3> QED BY <2>0, <3>1, <3>2 DEF FreshOf
  <2>2. CASE Done(q)
    BY <2>2, DoneEnds DEF FreshOf, Working
  <2>3. CASE /\ Decide(q) \/ Progress(q) \/ ResolveApprovals(q) \/ ResolveTasks(q)
             /\ ~Done(q)
    <3>1. read' = read /\ Working(q)
      BY <2>3 DEF Decide, Progress, ProgressFinal, ProgressStage, ResolveApprovals,
                  ResolveTasks, reqVars, Working
    <3> QED BY <1>0, <2>0, <3>1 DEF FreshOf
  <2> QED BY <1>5, <2>1, <2>2, <2>3
          DEF StepOf, BeginAction, BeginEdit, StoreFails, PublishArtifacts, Abort
<1> QED BY <1>1, <1>2, <1>3, <1>4, <1>5 DEF Next, StepOf

-----------------------------------------------------------------------------
(* The trail, and approvals resolved once: these need no reliable listing.  *)

\* Nobody is current right after a Store.
LEMMA StoreLeavesNoneCurrent ==
  ASSUME TypeOK, Control, Fresh, NEW p \in Requests, Store(p), NEW q \in Requests
  PROVE  ~Current(q)'
<1> SUFFICES ASSUME Working(q)', read'[q].version = doc'.version PROVE FALSE
  BY DEF Current
<1>1. read'[q].version < doc'.version /\ doc'.version = doc.version + 1 /\ doc.version \in Nat
  BY StoreMovesVersion
<1> QED BY <1>1

\* Every step keeps PlanIsPending.
LEMMA PlanPendingStep ==
  TypeOK /\ Control /\ Fresh /\ PlanIsPending /\ [Next]_vars => PlanIsPending'
<1> SUFFICES ASSUME TypeOK, Control, Fresh, PlanIsPending, [Next]_vars,
                    NEW q \in Requests, Current(q)'
             PROVE  planA'[q] \subseteq Pending'
  BY DEF PlanIsPending
<1>a. ASSUME doc' = doc, approval' = approval, Same(q) PROVE planA'[q] \subseteq Pending'
  BY <1>a DEF PlanIsPending, Current, Working, Same, Pending
<1>1. CASE UNCHANGED vars
  BY <1>1, <1>a DEF vars, Same
<1>2. CASE Publish
  BY <1>2, <1>a DEF Publish, Same, docVars, rowVars, reqVars, prgVars, plnVars
<1>3. ASSUME NEW p \in Requests, StepOf(p), ~Store(p), p # q PROVE planA'[q] \subseteq Pending'
  BY <1>3, <1>a, OthersSame, QuietSteps DEF rowVars
<1>4. ASSUME NEW p \in Requests, Store(p) PROVE planA'[q] \subseteq Pending'
  BY <1>4, StoreLeavesNoneCurrent
<1>5. ASSUME StepOf(q), ~Store(q) PROVE planA'[q] \subseteq Pending'
  <2>0. doc' = doc /\ Pending' = Pending BY <1>5, QuietSteps DEF rowVars, Pending
  <2>1. ASSUME NEW o, NEW u, Load(q, o, u) PROVE planA'[q] \subseteq Pending'
    BY <2>1 DEF TypeOK, Load
  <2>2. CASE Done(q)
    BY <2>2, DoneEnds DEF Current, Working
  <2>3. CASE (Decide(q) \/ Progress(q)) /\ ~Done(q)
    <3>1. planA' = planA /\ planA[q] = {}
      BY <2>3 DEF Decide, Progress, ProgressFinal, ProgressStage, plnVars, Control, ControlOf
    <3> QED BY <3>1
  <2>4. CASE ResolveApprovals(q)
    <3>1. PICK seen \in SUBSET Rows : Listed(Pending, seen) /\ planA' = [planA EXCEPT ![q] = seen]
      BY <2>4 DEF ResolveApprovals
    <3>2. seen \subseteq Pending BY <3>1 DEF Listed
    <3>3. planA'[q] = seen BY <3>1 DEF TypeOK
    <3> QED BY <2>0, <3>2, <3>3
  <2>5. CASE ResolveTasks(q)
    <3>1. planA' = planA /\ read' = read /\ Working(q)
      BY <2>5 DEF ResolveTasks, reqVars, Working
    <3>2. Current(q) BY <2>0, <3>1 DEF Current
    <3> QED BY <2>0, <3>1, <3>2 DEF PlanIsPending
  <2> QED BY <1>5, <2>1, <2>2, <2>3, <2>4, <2>5
          DEF StepOf, BeginAction, BeginEdit, StoreFails, PublishArtifacts, Abort
<1> QED BY <1>1, <1>2, <1>3, <1>4, <1>5 DEF Next, StepOf

\* A step that is not a Store leaves document, trail and rows alone.
LEMMA StoreOrQuiet ==
  ASSUME [Next]_vars
  PROVE  \/ \E p \in Requests : Store(p)
         \/ doc' = doc /\ trail' = trail /\ UNCHANGED rowVars
<1>1. CASE UNCHANGED vars BY <1>1 DEF vars, rowVars
<1>2. CASE Publish BY <1>2 DEF Publish, docVars
<1>3. ASSUME NEW p \in Requests, StepOf(p), ~Store(p)
      PROVE doc' = doc /\ trail' = trail /\ UNCHANGED rowVars
  BY <1>3, QuietSteps
<1> QED BY <1>1, <1>2, <1>3 DEF Next, StepOf

\* Every step keeps TrailIsComplete.
LEMMA TrailStep ==
  TypeOK /\ Control /\ Fresh /\ TrailIsComplete /\ [Next]_vars => TrailIsComplete'
<1> SUFFICES ASSUME TypeOK, Control, Fresh, TrailIsComplete, [Next]_vars
             PROVE TrailIsComplete'
  OBVIOUS
<1>1. CASE doc' = doc /\ trail' = trail
  BY <1>1 DEF TrailIsComplete
<1>2. ASSUME NEW p \in Requests, Store(p) PROVE TrailIsComplete'
  <2>1. /\ doc'.version = doc.version + 1 /\ doc.version \in Nat \ {0}
        /\ doc'.status = ToState(p)
    BY <1>2, StoreMovesVersion DEF NewDocument, TypeOK, DocumentRecord
  <2>2. trail' = trail \cup {Entry(p)} BY <1>2 DEF Store, Entry
  <2>3. /\ Entry(p).version = doc.version + 1 /\ Entry(p).from = doc.status
        /\ Entry(p).to = ToState(p)
    BY <1>2, StoreMovesVersion DEF Entry
  <2>4. \A e \in trail : e.version \in Nat /\ e.version >= 2
    BY DEF TypeOK
  <2>5. \A v \in 2..doc'.version : \E e \in trail' : e.version = v
    <3> SUFFICES ASSUME NEW v \in 2..doc'.version PROVE \E e \in trail' : e.version = v
      OBVIOUS
    <3>1. CASE v = doc.version + 1 BY <2>2, <2>3, <3>1
    <3>2. CASE v \in 2..doc.version BY <2>2, <3>2 DEF TrailIsComplete
    <3> QED BY <2>1, <3>1, <3>2
  <2>6. \A e \in trail' : e.version <= doc'.version
    BY <2>1, <2>2, <2>3, <2>4 DEF TrailIsComplete
  <2>7. \A e, f \in trail' : e.version = f.version => e = f
    BY <2>1, <2>2, <2>3, <2>4 DEF TrailIsComplete
  <2>8. \A e, f \in trail' : f.version = e.version + 1 => f.from = e.to
    <3> SUFFICES ASSUME NEW e \in trail', NEW f \in trail', f.version = e.version + 1
                 PROVE f.from = e.to
      OBVIOUS
    <3>1. CASE e \in trail /\ f \in trail BY <3>1 DEF TrailIsComplete
    <3>2. CASE e \in trail /\ f = Entry(p)
      <4>1. e.version = doc.version BY <2>1, <2>3, <2>4, <3>2
      <4> QED BY <2>3, <3>2, <4>1 DEF TrailIsComplete
    <3>3. CASE e = Entry(p)
      <4>1. f.version <= doc'.version BY <2>6
      <4> QED BY <2>1, <2>3, <3>3, <4>1
    <3> QED BY <2>2, <3>1, <3>2, <3>3
  <2>9. \A e \in trail' : e.version = doc'.version => e.to = doc'.status
    BY <2>1, <2>2, <2>3, <2>4 DEF TrailIsComplete
  <2> QED BY <2>5, <2>6, <2>7, <2>8, <2>9 DEF TrailIsComplete
<1> QED BY <1>1, <1>2, StoreOrQuiet

-----------------------------------------------------------------------------
(* What holds while every listing is reliable. *)

\* A failed listing is counted for ever.
LEMMA FaultsStay ==
  ASSUME TypeOK, [Next]_vars, faults' = 0
  PROVE  faults = 0
<1>1. ASSUME NEW rows, NEW seen, Listed(rows, seen) PROVE faults = 0
  BY <1>1 DEF TypeOK, Listed
<1> QED BY <1>1 DEF Next, Publish, BeginAction, BeginEdit, Load, Decide, Progress,
       ResolveApprovals, ResolveTasks, Store, StoreFails, PublishArtifacts, Abort, vars

\* Without a new failure a listing returns all rows.
LEMMA ListedAll ==
  ASSUME TypeOK, NEW rows, NEW seen, Listed(rows, seen), faults' = 0
  PROVE  seen = rows
BY DEF TypeOK, Listed

\* A request that does not move, over rows that do not change, keeps its plan.
LEMMA PlanSame ==
  ASSUME NEW q \in Requests, PlanOf(q), Same(q), doc' = doc, UNCHANGED rowVars
  PROVE  PlanOf(q)'
<1>1. Pending' = Pending /\ Open' = Open BY DEF Pending, Open, rowVars
<1>2. Forbidden(q, Pending)' <=> Forbidden(q, Pending)
  BY <1>1 DEF Forbidden, Same, rowVars
<1>3. WithVote(q, stage[q])' = WithVote(q, stage[q])
  BY DEF WithVote, Same
<1>4. Lacking(stage[q], votes[q])' <=> Lacking(stage[q], votes[q])
  BY DEF Lacking, Same
<1>5. /\ Current(q)' <=> Current(q)
      /\ Resolving(q)' <=> Resolving(q)
  BY DEF Current, Working, Resolving, Same
<1> QED BY <1>1, <1>2, <1>3, <1>4, <1>5 DEF PlanOf, Same

\* Every step keeps PlanIsRight while listings are reliable.
LEMMA PlanRightStep ==
  ASSUME TypeOK, Control, Fresh, OneIsPending, PlanIsRight, [Next]_vars, faults' = 0
  PROVE  PlanIsRight'
<1> SUFFICES ASSUME NEW q \in Requests PROVE PlanOf(q)'
  BY DEF PlanIsRight
<1>0. PlanOf(q) BY DEF PlanIsRight
<1>1. CASE UNCHANGED vars
  BY <1>0, <1>1, PlanSame DEF vars, Same, rowVars
<1>2. CASE Publish
  BY <1>0, <1>2, PlanSame DEF Publish, Same, docVars, reqVars, prgVars, plnVars
<1>3. ASSUME NEW p \in Requests, StepOf(p), ~Store(p), p # q PROVE PlanOf(q)'
  BY <1>0, <1>3, PlanSame, OthersSame, QuietSteps
<1>4. ASSUME NEW p \in Requests, Store(p) PROVE PlanOf(q)'
  BY <1>4, StoreLeavesNoneCurrent DEF PlanOf
<1>5. ASSUME StepOf(q), ~Store(q) PROVE PlanOf(q)'
  <2>0. doc' = doc /\ UNCHANGED rowVars BY <1>5, QuietSteps
  <2>a. Pending' = Pending /\ Open' = Open BY <2>0 DEF Pending, Open, rowVars
  <2>b. ControlOf(q) BY DEF Control
  <2>1. ASSUME NEW o \in Actions, NEW u, BeginAction(q, o, u) PROVE PlanOf(q)'
    <3>1. pc'[q] = "loaded" /\ outcome'[q] = "none"
      BY <2>1 DEF TypeOK, BeginAction, Load
    <3> QED BY <3>1 DEF PlanOf
  <2>2. ASSUME NEW o \in Edits, NEW u, NEW w, NEW m, BeginEdit(q, o, u, w, m) PROVE PlanOf(q)'
    <3>1. outcome'[q] = "none" /\ op'[q] = o
      BY <2>2 DEF TypeOK, BeginEdit, Load
    <3>2. o \notin Actions /\ o \notin {"reject", "cancel"} BY DEF Actions, Edits
    <3> QED BY <3>1, <3>2 DEF PlanOf, Resolving
  <2>3. CASE Done(q)
    BY <2>3, DoneEnds DEF PlanOf, Current, Working
  <2>4. CASE Decide(q) /\ ~Done(q)
    <3>1. PICK seen \in SUBSET Rows :
            /\ Listed(Pending, seen) /\ ~Forbidden(q, seen)
            /\ pc' = [pc EXCEPT ![q] = AfterDecisions(op[q])]
            /\ UNCHANGED <<reqVars, prgVars, plnVars>>
      BY <2>4 DEF Decide
    <3>2. ~Forbidden(q, Pending) BY <3>1, ListedAll
    <3>3. ~Forbidden(q, Pending)' BY <2>0, <2>a, <3>1, <3>2 DEF Forbidden, reqVars, rowVars
    <3>4. pc'[q] = AfterDecisions(op[q]) BY <3>1 DEF TypeOK
    <3>5. pc[q] = "loaded" BY <2>4 DEF Decide
    <3>6. outcome[q] = "none" BY <2>b, <3>5 DEF ControlOf
    <3>7. Resolving(q)' => op'[q] \in {"reject", "cancel"}
      BY <3>1, <3>6 DEF Resolving, prgVars
    <3>8. Resolving(q)' => pc'[q] = "resolve"
      BY <3>1, <3>4, <3>7 DEF AfterDecisions, reqVars
    <3> QED BY <3>1, <3>3, <3>6, <3>8 DEF PlanOf, prgVars
  <2>5. CASE Progress(q) /\ ~Done(q)
    <3>1. /\ pc[q] = "progress" /\ op[q] = "approve" /\ Working(q)
          /\ outcome[q] = "none"
      BY <2>5, <2>b DEF Progress, ControlOf, Working
    <3>2. UNCHANGED <<reqVars, plnVars>>
      BY <2>5 DEF Progress, ProgressFinal, ProgressStage
    <3>3. SUFFICES ASSUME Current(q)' PROVE PlanOf(q)' BY DEF PlanOf
    <3>4. Current(q) BY <2>0, <3>1, <3>2, <3>3 DEF Current, reqVars
    <3>5. Pending # {}
      <4>1. read[q] = doc BY <3>4 DEF Current, Fresh, FreshOf
      <4>2. read[q].status = "submitted"
        BY <2>b, <3>1 DEF ControlOf, FromStates, Actions
      <4> QED BY <4>1, <4>2 DEF OneIsPending
    <3>6. ~Forbidden(q, Pending)'
      <4>1. ~Forbidden(q, Pending) BY <1>0, <3>1, <3>4 DEF PlanOf, Actions
      <4> QED BY <2>0, <2>a, <3>2, <4>1 DEF Forbidden, reqVars, rowVars
    <3>7. CASE Stages = 0
      <4>1. pc'[q] = "resolve"
        BY <2>5, <3>7 DEF Progress, ProgressFinal, TypeOK
      <4> QED BY <3>6, <3>7, <4>1 DEF PlanOf
    <3>8. CASE Stages # 0
      <4>1. PICK s \in Pending : ProgressStage(q, s)
        BY <2>5, <3>5, <3>8, ListedAll DEF Progress, ProgressFinal
      <4>2. /\ votes'[q] = WithVote(q, s) /\ stage'[q] = s
            /\ \/ pc'[q] = "ready" /\ outcome'[q] = "quorum"
               \/ /\ ~Lacking(s, WithVote(q, s))
                  /\ pc'[q] = "resolve"
                  /\ outcome'[q] = IF s = Stages THEN "final" ELSE "advance"
        BY <2>5, <4>1 DEF TypeOK, ProgressStage
      <4>3. WithVote(q, s)' = WithVote(q, s) BY <3>2 DEF WithVote, reqVars
      <4>4. (WithVote(q, stage[q]))' = WithVote(q, s)
        BY <3>2, <4>2 DEF WithVote, reqVars
      <4>5. outcome'[q] \in {"final", "advance"} => ~Lacking(stage[q], votes[q])'
        BY <4>2 DEF Lacking
      <4>6. op'[q] = "approve" BY <3>1, <3>2 DEF reqVars
      <4>7. Resolving(q)' => pc'[q] = "resolve"
        BY <4>2, <4>6 DEF Resolving
      <4> QED BY <2>a, <3>6, <4>1, <4>2, <4>4, <4>5, <4>7 DEF PlanOf
    <3> QED BY <3>7, <3>8
  <2>6. CASE ResolveApprovals(q)
    <3>1. PICK seen \in SUBSET Rows : Listed(Pending, seen) /\ planA' = [planA EXCEPT ![q] = seen]
      BY <2>6 DEF ResolveApprovals
    <3>2. planA'[q] = Pending BY <3>1, ListedAll DEF TypeOK
    <3>3. /\ pc'[q] = "tasks" /\ pc[q] = "resolve"
          /\ UNCHANGED <<reqVars, prgVars>>
      BY <2>6 DEF ResolveApprovals, TypeOK
    <3>4. SUFFICES ASSUME Current(q)' PROVE PlanOf(q)' BY DEF PlanOf
    <3>5. Current(q) BY <2>0, <3>3, <3>4 DEF Current, Working, reqVars
    <3>6. Forbidden(q, Pending)' <=> Forbidden(q, Pending)
      BY <2>0, <2>a, <3>3 DEF Forbidden, reqVars, rowVars
    <3>7. (WithVote(q, stage[q]))' = WithVote(q, stage[q])
      BY <3>3 DEF WithVote, reqVars, prgVars
    <3>8. Lacking(stage[q], votes[q])' <=> Lacking(stage[q], votes[q])
      BY <3>3 DEF Lacking, prgVars
    <3> QED BY <1>0, <2>a, <3>2, <3>3, <3>5, <3>6, <3>7, <3>8 DEF PlanOf, reqVars, prgVars
  <2>7. CASE ResolveTasks(q)
    <3>1. PICK seen \in SUBSET Rows : Listed(Open, seen) /\ planT' = [planT EXCEPT ![q] = seen]
      BY <2>7 DEF ResolveTasks
    <3>2. planT'[q] = Open BY <3>1, ListedAll DEF TypeOK
    <3>3. /\ pc'[q] = "ready" /\ pc[q] = "tasks"
          /\ UNCHANGED <<reqVars, prgVars, planA>>
      BY <2>7 DEF ResolveTasks, TypeOK
    <3>4. SUFFICES ASSUME Current(q)' PROVE PlanOf(q)' BY DEF PlanOf
    <3>5. Current(q) BY <2>0, <3>3, <3>4 DEF Current, Working, reqVars
    <3>6. Forbidden(q, Pending)' <=> Forbidden(q, Pending)
      BY <2>0, <2>a, <3>3 DEF Forbidden, reqVars, rowVars
    <3>7. (WithVote(q, stage[q]))' = WithVote(q, stage[q])
      BY <3>3 DEF WithVote, reqVars, prgVars
    <3>8. Lacking(stage[q], votes[q])' <=> Lacking(stage[q], votes[q])
      BY <3>3 DEF Lacking, prgVars
    <3>9. Resolving(q)' <=> Resolving(q) BY <3>3 DEF Resolving, reqVars, prgVars
    <3> QED BY <1>0, <2>a, <3>2, <3>3, <3>5, <3>6, <3>7, <3>8, <3>9
            DEF PlanOf, reqVars, prgVars
  <2> QED BY <1>5, <2>1, <2>2, <2>3, <2>4, <2>5, <2>6, <2>7
          DEF StepOf, StoreFails, PublishArtifacts, Abort
<1> QED BY <1>1, <1>2, <1>3, <1>4, <1>5 DEF Next, StepOf

-----------------------------------------------------------------------------
(* The transaction of a current request, case by case. *)

\* An edit or a reopening: no row changes.
Keeps(p) ==
  /\ planA[p] = {} /\ planT[p] = {} /\ Created(p) = {}
  /\ doc.status # "submitted" /\ doc'.status = "draft"
  /\ doc.bound # 0 => doc'.bound = doc.bound
  /\ doc'.approvers = doc.approvers

\* A submission: the first row is created.
Submits(p) ==
  /\ planA[p] = {} /\ planT[p] = {} /\ Created(p) = {1}
  /\ doc.status = "draft" /\ doc'.status = "submitted"
  /\ doc'.bound = rule[p]
  /\ doc'.approvers = doc.approvers

\* A rejection or a cancellation: everything pending is closed.
Closes(p) ==
  /\ planA[p] = Pending /\ planT[p] = Open /\ Created(p) = {}
  /\ doc'.status \in {"rejected", "cancelled"}
  /\ ResolvedApproval(p) \in {"rejected", "cancelled"}
  /\ doc.bound # 0 => doc'.bound = doc.bound
  /\ doc'.approvers = doc.approvers

\* An approval: what all three outcomes have in common.
Votes(p) ==
  /\ op[p] = "approve" /\ doc.status = "submitted"
  /\ doc.bound # 0 => doc'.bound = doc.bound /\ rule[p] = doc.bound
  /\ ~Forbidden(p, Pending)
  /\ Stages # 0 =>
       /\ stage[p] \in Pending
       /\ doc'.approvers = IF Required[stage[p]] > 1
                           THEN [doc.approvers EXCEPT ![stage[p]] = @ \cup {actor[p]}]
                           ELSE doc.approvers

\* An approval that is final, that goes on to the next stage, that waits.
Finals(p) ==
  /\ Votes(p) /\ planA[p] = Pending /\ planT[p] = Open /\ Created(p) = {}
  /\ doc'.status = "approved"
  /\ Stages # 0 => stage[p] = Stages /\ ~Lacking(stage[p], doc'.approvers)
Advances(p) ==
  /\ Votes(p) /\ planA[p] = Pending /\ planT[p] = Open /\ Created(p) = {stage[p] + 1}
  /\ doc'.status = "submitted" /\ stage[p] \in 1..(Stages - 1)
  /\ ~Lacking(stage[p], doc'.approvers)
Waits(p) ==
  /\ Votes(p) /\ planA[p] = {} /\ planT[p] = {} /\ Created(p) = {}
  /\ doc'.status = "submitted"

\* These are all the cases.
LEMMA StoreCases ==
  ASSUME TypeOK, Control, Fresh, PlanIsRight, NEW p \in Requests, Store(p)
  PROVE  Keeps(p) \/ Submits(p) \/ Closes(p) \/ Finals(p) \/ Advances(p) \/ Waits(p)
<1>1. /\ pc[p] = "ready" /\ Working(p) /\ read[p] = doc /\ doc' = NewDocument(p)
  BY StoreMovesVersion DEF Store, Working
<1>2. Current(p) BY <1>1 DEF Current
<1>3. PlanOf(p) /\ ControlOf(p) BY DEF PlanIsRight, Control
<1>4. op[p] \in Actions \cup Edits /\ outcome[p] \in {"none", "quorum", "advance", "final"}
  BY DEF TypeOK
<1>5. /\ doc'.status = ToState(p) /\ doc'.approvers = votes[p]
      /\ doc'.bound = IF op[p] \in Edits \/ outcome[p] \in {"quorum", "advance"}
                      THEN doc.bound ELSE rule[p]
  BY <1>1 DEF NewDocument
<1>6. doc.bound \in Nat BY DEF TypeOK, DocumentRecord
<1>7. op[p] \in Actions \ {"submit"} /\ doc.bound # 0 => rule[p] = doc.bound
  BY <1>1, <1>3, <1>6 DEF ControlOf
<1>8. op[p] # "approve" => outcome[p] = "none" /\ votes[p] = doc.approvers
  BY <1>1, <1>3 DEF ControlOf
<1>9. op[p] \in Actions => doc.status \in FromStates(op[p])
  BY <1>1, <1>3 DEF ControlOf
<1>10. ~Resolving(p) => planA[p] = {} /\ planT[p] = {}
  BY <1>1, <1>3 DEF ControlOf
<1>11. Resolving(p) => planA[p] = Pending /\ planT[p] = Open
  BY <1>1, <1>2, <1>3 DEF PlanOf
<1>12. CASE op[p] \in Edits
  <2>1. op[p] \notin {"submit", "approve", "reject", "reopen", "cancel"}
    BY <1>12 DEF Edits
  <2>2. outcome[p] = "none" BY <1>8, <2>1
  <2>3. ~Resolving(p) BY <2>1, <2>2 DEF Resolving
  <2>4. Created(p) = {} BY <2>1, <2>2 DEF Created
  <2>5. doc.status = "draft" BY <1>1, <1>3, <1>12 DEF ControlOf
  <2> QED BY <1>1, <1>5, <1>8, <1>10, <1>12, <2>1, <2>3, <2>4, <2>5 DEF Keeps, ToState
<1>13. CASE op[p] = "reopen"
  <2>1. outcome[p] = "none" /\ op[p] \notin Edits BY <1>8, <1>13 DEF Edits
  <2>2. ~Resolving(p) /\ Created(p) = {} BY <1>13, <2>1 DEF Resolving, Created
  <2>3. doc.status # "submitted" BY <1>9, <1>13 DEF FromStates, Actions
  <2>4. ToState(p) = "draft" BY <1>13, <2>1 DEF ToState, FlowTarget
  <2> QED BY <1>5, <1>7, <1>8, <1>10, <1>13, <2>1, <2>2, <2>3, <2>4 DEF Keeps, Actions
<1>14. CASE op[p] = "submit"
  <2>1. outcome[p] = "none" /\ op[p] \notin Edits BY <1>8, <1>14 DEF Edits
  <2>2. ~Resolving(p) /\ Created(p) = {1} BY <1>14, <2>1 DEF Resolving, Created
  <2>3. doc.status = "draft" BY <1>9, <1>14 DEF FromStates, Actions
  <2>4. ToState(p) = "submitted" BY <1>14, <2>1 DEF ToState, FlowTarget
  <2> QED BY <1>5, <1>8, <1>10, <1>14, <2>1, <2>2, <2>3, <2>4 DEF Submits
<1>15. CASE op[p] \in {"reject", "cancel"}
  <2>1. outcome[p] = "none" /\ op[p] \notin Edits BY <1>8, <1>15 DEF Edits
  <2>2. Resolving(p) /\ Created(p) = {} BY <1>15, <2>1 DEF Resolving, Created
  <2>3. ResolvedApproval(p) \in {"rejected", "cancelled"} BY <1>15 DEF ResolvedApproval
  <2>4. ToState(p) \in {"rejected", "cancelled"} BY <1>15, <2>1 DEF ToState, FlowTarget
  <2> QED BY <1>5, <1>7, <1>8, <1>11, <1>15, <2>1, <2>2, <2>3, <2>4 DEF Closes, Actions
<1>16. CASE op[p] = "approve"
  <2>1. op[p] \notin Edits /\ op[p] \in Actions /\ outcome[p] # "none"
    BY <1>1, <1>3, <1>16 DEF Edits, Actions, ControlOf
  <2>2. doc.status = "submitted" BY <1>9, <1>16, <2>1 DEF FromStates
  <2>3. Votes(p)
    <3>1. ~Forbidden(p, Pending) BY <1>1, <1>2, <1>3, <2>1 DEF PlanOf
    <3>2. Stages # 0 => stage[p] \in Pending /\ votes[p] = WithVote(p, stage[p])
      BY <1>2, <1>3, <2>1 DEF PlanOf
    <3>3. doc.bound # 0 => doc'.bound = doc.bound /\ rule[p] = doc.bound
      BY <1>5, <1>7, <1>16, <2>1
    <3> QED BY <1>1, <1>5, <1>16, <2>2, <3>1, <3>2, <3>3 DEF Votes, WithVote
  <2>4. Stages # 0 /\ outcome[p] \in {"final", "advance"} => ~Lacking(stage[p], doc'.approvers)
    BY <1>2, <1>3, <1>5, <2>1 DEF PlanOf
  <2>5. CASE outcome[p] = "final"
    <3>1. Resolving(p) /\ Created(p) = {} BY <1>16, <2>5 DEF Resolving, Created
    <3>2. ToState(p) = "approved" BY <1>16, <2>1, <2>5 DEF ToState, FlowTarget
    <3>3. Stages # 0 => stage[p] = Stages BY <1>2, <1>3, <2>1, <2>5 DEF PlanOf
    <3> QED BY <1>5, <1>11, <2>3, <2>4, <2>5, <3>1, <3>2, <3>3 DEF Finals
  <2>6. CASE outcome[p] = "advance"
    <3>1. Resolving(p) /\ Created(p) = {stage[p] + 1} BY <1>16, <2>6 DEF Resolving, Created
    <3>2. ToState(p) = "submitted" BY <1>1, <2>2, <2>6 DEF ToState
    <3>3. stage[p] \in 1..(Stages - 1) BY <1>3, <2>6 DEF ControlOf
    <3>4. Stages # 0 BY <3>3, LifecycleAssumption
    <3> QED BY <1>5, <1>11, <2>3, <2>4, <2>6, <3>1, <3>2, <3>3, <3>4 DEF Advances
  <2>7. CASE outcome[p] = "quorum"
    <3>1. ~Resolving(p) /\ Created(p) = {} BY <1>16, <2>7 DEF Resolving, Created
    <3>2. ToState(p) = "submitted" BY <1>1, <2>2, <2>7 DEF ToState
    <3> QED BY <1>5, <1>10, <2>3, <3>1, <3>2 DEF Waits
  <2> QED BY <1>4, <2>1, <2>5, <2>6, <2>7
<1> QED BY <1>4, <1>12, <1>13, <1>14, <1>15, <1>16 DEF Actions, Edits

\* What the transaction does to a row.
LEMMA StoreRows ==
  ASSUME NEW p \in Requests, Store(p), NEW k \in Rows
  PROVE  /\ approval'[k] = IF k \in planA[p] THEN ResolvedApproval(p)
                           ELSE IF k \in Created(p) THEN "pending" ELSE approval[k]
         /\ task'[k] = IF k \in planT[p]
                       THEN IF op[p] = "approve" THEN "completed" ELSE "cancelled"
                       ELSE IF k \in Created(p) THEN "open" ELSE task[k]
         /\ resolvedBy'[k] = IF k \in planA[p] THEN actor[p] ELSE resolvedBy[k]
         /\ flowVersion'[k] = IF k \in Created(p) THEN rule[p] ELSE flowVersion[k]
         /\ requestedBy'[k] = IF k \in Created(p) THEN actor[p] ELSE requestedBy[k]
         /\ k \notin Created(p) => (k \in distinct' <=> k \in distinct)
         /\ k \in Created(p) => approval[k] = "none" /\ task[k] = "none"
BY DEF Store, ApplyWorkflowMutation

\* Resolving leaves nothing pending.
LEMMA ResolvedIsNotPending ==
  ASSUME NEW p
  PROVE  /\ ResolvedApproval(p) \in {"approved", "rejected", "cancelled"}
         /\ op[p] = "approve" => ResolvedApproval(p) = "approved"
BY DEF ResolvedApproval

\* The transaction of a current request keeps OneIsPending.
LEMMA PendingStore ==
  ASSUME TypeOK, Control, Fresh, PlanIsRight, OneIsPending, NEW p \in Requests, Store(p)
  PROVE  OneIsPending'
<1>0. Created(p) \subseteq Rows BY CreatedType
<1>1. CASE planA[p] = {} /\ planT[p] = {} /\ Created(p) = {}
  <2>1. Pending' = Pending /\ Open' = Open BY <1>1, StoreRows DEF Pending, Open
  <2>2. doc'.status = "submitted" <=> doc.status = "submitted"
    <3>1. CASE Keeps(p) BY <3>1 DEF Keeps
    <3>2. CASE Waits(p) BY <3>2 DEF Waits, Votes
    <3>3. CASE Submits(p) \/ Advances(p) BY <1>1, <3>3 DEF Submits, Advances
    <3>4. CASE Closes(p)
      BY <1>1, <3>4 DEF Closes, OneIsPending
    <3>5. CASE Finals(p)
      BY <1>1, <3>5 DEF Finals, Votes, OneIsPending
    <3> QED BY <3>1, <3>2, <3>3, <3>4, <3>5, StoreCases
  <2> QED BY <2>1, <2>2 DEF OneIsPending
<1>2. CASE Submits(p)
  <2>1. Pending = {} /\ Open = {} BY <1>2 DEF Submits, OneIsPending
  <2>2. Pending' = {1} /\ Open' = {1}
    BY <1>0, <1>2, <2>1, StoreRows DEF Submits, Pending, Open
  <2> QED BY <1>2, <2>2 DEF Submits, OneIsPending
<1>3. CASE planA[p] = Pending /\ planT[p] = Open /\ Created(p) = {} /\ doc'.status # "submitted"
  <2>1. Pending' = {} /\ Open' = {}
    BY <1>3, StoreRows, ResolvedIsNotPending DEF Pending, Open
  <2> QED BY <1>3, <2>1 DEF OneIsPending
<1>4. CASE Advances(p)
  <2>1. Pending' = Created(p)
    BY <1>0, <1>4, StoreRows, ResolvedIsNotPending DEF Advances, Pending
  <2>2. Open' = Created(p)
    BY <1>0, <1>4, StoreRows DEF Advances, Open
  <2> QED BY <1>4, <2>1, <2>2 DEF Advances, OneIsPending
<1> QED BY <1>1, <1>2, <1>3, <1>4, StoreCases DEF Keeps, Waits, Closes, Finals

\* The transaction of a current request keeps BoundRows.
LEMMA BoundStore ==
  ASSUME TypeOK, Control, Fresh, PlanIsRight, OneIsPending, BoundRows,
         NEW p \in Requests, Store(p)
  PROVE  BoundRows'
<1>0. Created(p) \subseteq Rows BY CreatedType
<1>a. rule[p] # 0 BY LifecycleAssumption DEF TypeOK
<1>1. CASE Submits(p)
  <2>1. Pending = {} BY <1>1 DEF Submits, OneIsPending
  <2>2. Pending' = {1} BY <1>0, <1>1, <2>1, StoreRows DEF Submits, Pending
  <2>3. flowVersion'[1] = rule[p] BY <1>0, <1>1, StoreRows DEF Submits
  <2> QED BY <1>1, <1>a, <2>2, <2>3 DEF Submits, BoundRows
<1>2. CASE Keeps(p) \/ Closes(p) \/ Finals(p) \/ Waits(p)
  <2>1. Created(p) = {} /\ (doc.bound # 0 => doc'.bound = doc.bound)
        /\ planA[p] \subseteq Pending
    BY <1>2 DEF Keeps, Closes, Finals, Waits, Votes
  <2>2. Pending' \subseteq Pending
    BY <2>1, StoreRows, ResolvedIsNotPending DEF Pending
  <2>3. \A k \in Rows : flowVersion'[k] = flowVersion[k] BY <2>1, StoreRows
  <2>4. CASE doc.bound # 0
    BY <2>1, <2>2, <2>3, <2>4 DEF BoundRows, Pending
  <2>5. CASE doc.bound = 0
    <3>1. \A k \in Rows : approval[k] = "none" BY <2>5 DEF BoundRows
    <3>2. \A k \in Rows : approval'[k] = "none" BY <2>1, <3>1, StoreRows DEF Pending
    <3> QED BY <3>2 DEF BoundRows, Pending
  <2> QED BY <2>4, <2>5
<1>3. CASE Advances(p)
  <2>1. Pending' = Created(p)
    BY <1>0, <1>3, StoreRows, ResolvedIsNotPending DEF Advances, Pending
  <2>2. Pending # {} BY <1>3 DEF Advances, Votes, OneIsPending
  <2>3. doc.bound # 0 BY <2>2 DEF BoundRows, Pending
  <2>4. doc'.bound = doc.bound /\ rule[p] = doc.bound BY <1>3, <2>3 DEF Advances, Votes
  <2>5. \A k \in Created(p) : flowVersion'[k] = rule[p] BY <1>0, StoreRows
  <2> QED BY <2>1, <2>3, <2>4, <2>5 DEF BoundRows
<1> QED BY <1>1, <1>2, <1>3, StoreCases

\* A transaction resolves pending rows only, and adds to the recorded approvers
\* of the pending stage only, and there only its actor.
LEMMA StoreVotes ==
  ASSUME TypeOK, Control, Fresh, PlanIsRight, NEW p \in Requests, Store(p)
  PROVE  /\ planA[p] \subseteq Pending
         /\ \A s \in 1..Stages :
              \/ doc'.approvers[s] = doc.approvers[s]
              \/ /\ Votes(p) /\ s \in Pending
                 /\ doc'.approvers[s] = doc.approvers[s] \cup {actor[p]}
<1>1. planA[p] \subseteq Pending
  BY StoreCases DEF Keeps, Submits, Closes, Finals, Advances, Waits
<1>2. CASE doc'.approvers = doc.approvers
  BY <1>1, <1>2
<1>3. CASE Votes(p)
  <2> SUFFICES ASSUME NEW s \in 1..Stages
               PROVE \/ doc'.approvers[s] = doc.approvers[s]
                     \/ /\ Votes(p) /\ s \in Pending
                        /\ doc'.approvers[s] = doc.approvers[s] \cup {actor[p]}
    BY <1>1
  <2>1. Stages # 0 BY LifecycleAssumption
  <2>2. doc.approvers \in [1..Stages -> SUBSET Users] BY DEF TypeOK, DocumentRecord
  <2> QED BY <1>3, <2>1, <2>2 DEF Votes
<1> QED BY <1>2, <1>3, StoreCases DEF Keeps, Submits, Closes, Finals, Advances, Waits

\* The transaction of a current request keeps StagesInOrder.
LEMMA StagesStore ==
  ASSUME TypeOK, Control, Fresh, PlanIsRight, OneIsPending, StagesInOrder,
         NEW p \in Requests, Store(p)
  PROVE  StagesInOrder'
<1>0. Created(p) \subseteq Rows BY CreatedType
<1>1. planA[p] \subseteq Pending BY StoreVotes
<1>2. \A k \in Rows : approval[k] = "approved" => approval'[k] = "approved"
  BY <1>1, StoreRows DEF Pending
<1>3. \A k \in Rows : approval'[k] # "none" => approval[k] # "none" \/ k \in Created(p)
  BY <1>1, StoreRows DEF Pending
<1>4. Advances(p) => /\ stage[p] \in Rows /\ approval[stage[p]] = "pending"
                     /\ approval'[stage[p]] = "approved"
  <2> SUFFICES ASSUME Advances(p)
               PROVE /\ stage[p] \in Rows /\ approval[stage[p]] = "pending"
                     /\ approval'[stage[p]] = "approved"
    OBVIOUS
  <2>1. Stages # 0 BY LifecycleAssumption DEF Advances
  <2>2. stage[p] \in Pending BY <2>1 DEF Advances, Votes
  <2> QED BY <2>2, StoreRows, ResolvedIsNotPending DEF Advances, Votes, Pending
<1>5. \A j, k \in Rows : j < k /\ approval'[k] # "none" => approval'[j] = "approved"
  <2> SUFFICES ASSUME NEW j \in Rows, NEW k \in Rows, j < k, approval'[k] # "none"
               PROVE approval'[j] = "approved"
    OBVIOUS
  <2>1. CASE approval[k] # "none" BY <1>2, <2>1 DEF StagesInOrder
  <2>2. CASE k \in Created(p)
    <3>1. CASE Created(p) = {1}
      <4>1. j \in Nat /\ j # 0 BY LifecycleAssumption DEF Rows
      <4> QED BY <2>2, <3>1, <4>1
    <3>2. CASE Advances(p)
      <4>1. k = stage[p] + 1 BY <2>2, <3>2 DEF Advances
      <4>2. j \in Nat /\ stage[p] \in Nat
        BY <1>4, <3>2, RowsAreStages
      <4>3. j = stage[p] \/ j < stage[p] BY <4>1, <4>2
      <4>4. CASE j = stage[p] BY <1>4, <3>2, <4>4
      <4>5. CASE j < stage[p] BY <1>2, <1>4, <3>2, <4>5 DEF StagesInOrder
      <4> QED BY <4>3, <4>4, <4>5
    <3> QED BY <2>2, <3>1, <3>2, StoreCases
            DEF Keeps, Submits, Closes, Finals, Waits
  <2> QED BY <1>3, <2>1, <2>2
<1>6. \A s \in 1..Stages : approval'[s] = "approved" => ~Lacking(s, doc'.approvers)
  <2> SUFFICES ASSUME NEW s \in 1..Stages, approval'[s] = "approved"
               PROVE ~Lacking(s, doc'.approvers)
    OBVIOUS
  <2>0. Stages # 0 /\ s \in Rows BY LifecycleAssumption, RowsAreStages
  <2>1. CASE approval[s] = "approved"
    <3>1. doc'.approvers[s] = doc.approvers[s] BY <2>1, StoreVotes DEF Pending
    <3>2. ~Lacking(s, doc.approvers) BY <2>1 DEF StagesInOrder
    <3> QED BY <3>1, <3>2 DEF Lacking
  <2>2. CASE approval[s] # "approved"
    <3>1. s \in planA[p] /\ ResolvedApproval(p) = "approved"
      BY <2>0, <2>2, StoreRows
    <3>2. Finals(p) \/ Advances(p)
      BY <3>1, StoreCases DEF Keeps, Submits, Closes, Waits
    <3>3. stage[p] \in Pending /\ s \in Pending
      BY <1>1, <2>0, <3>1, <3>2 DEF Finals, Advances, Votes
    <3>4. s = stage[p] BY <3>3 DEF OneIsPending
    <3> QED BY <2>0, <3>2, <3>4 DEF Finals, Advances
  <2> QED BY <2>1, <2>2
<1>7. \A s \in 1..Stages : approval'[s] = "none" => doc'.approvers[s] = {}
  <2> SUFFICES ASSUME NEW s \in 1..Stages, approval'[s] = "none"
               PROVE doc'.approvers[s] = {}
    OBVIOUS
  <2>0. s \in Rows BY LifecycleAssumption, RowsAreStages
  <2>1. approval[s] = "none" BY <2>0, StoreRows, ResolvedIsNotPending
  <2>2. doc'.approvers[s] = doc.approvers[s] BY <2>1, StoreVotes DEF Pending
  <2> QED BY <2>1, <2>2 DEF StagesInOrder
<1>8. doc'.status = "approved" /\ Stages # 0 => approval'[Stages] = "approved"
  <2> SUFFICES ASSUME doc'.status = "approved", Stages # 0
               PROVE approval'[Stages] = "approved"
    OBVIOUS
  <2>1. Finals(p) BY StoreCases DEF Keeps, Submits, Closes, Advances, Waits
  <2>2. Stages \in Pending /\ Stages \in Rows BY <2>1 DEF Finals, Votes, Pending
  <2> QED BY <2>1, <2>2, StoreRows, ResolvedIsNotPending DEF Finals, Votes
<1> QED BY <1>5, <1>6, <1>7, <1>8 DEF StagesInOrder, Rows

\* The transaction of a current request keeps OthersApproved.
LEMMA RequesterStore ==
  ASSUME TypeOK, Control, Fresh, PlanIsRight, OneIsPending, StagesInOrder, BoundRows,
         OthersApproved, NEW p \in Requests, Store(p)
  PROVE  OthersApproved'
<1> SUFFICES ASSUME NEW k \in Rows, k \in distinct' \/ <<flowVersion'[k], "approve">> \in Strict
             PROVE  /\ approval'[k] = "approved" => resolvedBy'[k] # requestedBy'[k]
                    /\ k \in 1..Stages => requestedBy'[k] \notin doc'.approvers[k]
  BY DEF OthersApproved
<1>1. planA[p] \subseteq Pending BY StoreVotes
<1>2. CASE k \in Created(p)
  <2>1. approval'[k] = "pending" /\ approval[k] = "none"
    BY <1>1, <1>2, StoreRows DEF Pending
  <2>2. ASSUME k \in 1..Stages PROVE doc'.approvers[k] = {}
    <3>1. doc.approvers[k] = {} BY <2>1, <2>2 DEF StagesInOrder
    <3> QED BY <2>1, <2>2, <3>1, StoreVotes DEF Pending
  <2> QED BY <2>1, <2>2
<1>3. CASE k \notin Created(p)
  <2>1. /\ requestedBy'[k] = requestedBy[k] /\ flowVersion'[k] = flowVersion[k]
        /\ k \in distinct \/ <<flowVersion[k], "approve">> \in Strict
    BY <1>3, StoreRows
  <2>2. ASSUME Votes(p), k \in Pending PROVE requestedBy[k] # actor[p]
    <3>1. doc.bound # 0 /\ flowVersion[k] = doc.bound BY <2>2 DEF BoundRows, Pending
    <3>2. rule[p] = doc.bound /\ op[p] = "approve" /\ ~Forbidden(p, Pending)
      BY <2>2, <3>1 DEF Votes
    <3> QED BY <2>1, <2>2, <3>1, <3>2 DEF Forbidden
  <2>3. approval'[k] = "approved" => resolvedBy'[k] # requestedBy[k]
    <3>1. CASE k \in planA[p]
      <4> SUFFICES ASSUME approval'[k] = "approved" PROVE resolvedBy'[k] # requestedBy[k]
        OBVIOUS
      <4>1. ResolvedApproval(p) = "approved" /\ resolvedBy'[k] = actor[p]
        BY <3>1, StoreRows
      <4>2. Votes(p)
        BY <3>1, <4>1, StoreCases DEF Keeps, Submits, Closes, Finals, Advances, Waits
      <4> QED BY <1>1, <2>2, <3>1, <4>1, <4>2
    <3>2. CASE k \notin planA[p]
      BY <1>3, <2>1, <3>2, StoreRows DEF OthersApproved
    <3> QED BY <3>1, <3>2
  <2>4. ASSUME k \in 1..Stages PROVE requestedBy[k] \notin doc'.approvers[k]
    <3>1. requestedBy[k] \notin doc.approvers[k]
      BY <2>1, <2>4 DEF OthersApproved
    <3> QED BY <2>2, <2>4, <3>1, StoreVotes
  <2> QED BY <2>1, <2>3, <2>4
<1> QED BY <1>2, <1>3

-----------------------------------------------------------------------------
(* The inductive invariant and the theorems. *)

\* The invariant holds initially.
LEMMA InitInv == Init => IInv
<1> SUFFICES ASSUME Init PROVE IInv OBVIOUS
<1>1. TypeOK BY InitType
<1>2. PICK w \in Payloads : doc = [NoDocument EXCEPT !.payload[Base] = w] BY DEF Init
<1>3. /\ doc.status = "draft" /\ doc.version = 1 /\ doc.bound = 0
      /\ doc.approvers = [s \in 1..Stages |-> {}]
  BY <1>2 DEF NoDocument
<1>4. \A p \in Requests : pc[p] = "idle" /\ outcome[p] = "none" BY DEF Init
<1>5. \A p \in Requests : ~Working(p) BY <1>4 DEF Working
<1>6. Control BY <1>4, <1>5 DEF Control, ControlOf
<1>7. Fresh /\ PlanIsPending /\ PlanIsRight
  BY <1>5 DEF Fresh, FreshOf, PlanIsPending, PlanIsRight, PlanOf, Current
<1>8. TrailIsComplete BY <1>3 DEF Init, TrailIsComplete
<1>9. \A k \in Rows : approval[k] = "none" /\ task[k] = "none" BY DEF Init
<1>10. Pending = {} /\ Open = {} BY <1>9 DEF Pending, Open
<1>11. OneIsPending BY <1>3, <1>10 DEF OneIsPending
<1>12. StagesInOrder
  <2>1. \A s \in 1..Stages : s \in Rows BY LifecycleAssumption, RowsAreStages
  <2> QED BY <1>3, <1>9, <2>1 DEF StagesInOrder
<1>13. BoundRows BY <1>9, <1>10 DEF BoundRows
<1>14. OthersApproved BY <1>3, <1>9 DEF OthersApproved
<1> QED BY <1>1, <1>6, <1>7, <1>8, <1>11, <1>12, <1>13, <1>14 DEF IInv, Reliable

\* Every step keeps what holds while listings are reliable.
LEMMA ReliableStep ==
  ASSUME TypeOK, Control, Fresh, Reliable, [Next]_vars, faults' = 0
  PROVE  Reliable'
<1>0. /\ OneIsPending /\ StagesInOrder /\ BoundRows
      /\ OthersApproved /\ PlanIsRight
  BY DEF Reliable
<1>1. PlanIsRight' BY <1>0, PlanRightStep
<1>2. ASSUME NEW p \in Requests, Store(p) PROVE Reliable'
  BY <1>0, <1>1, <1>2, PendingStore, StagesStore, BoundStore, RequesterStore DEF Reliable
<1>3. CASE doc' = doc /\ UNCHANGED rowVars
  <2>1. Pending' = Pending /\ Open' = Open BY <1>3 DEF Pending, Open, rowVars
  <2>2. OneIsPending' BY <1>0, <1>3, <2>1 DEF OneIsPending
  <2>3. StagesInOrder' BY <1>0, <1>3 DEF StagesInOrder, Lacking, rowVars
  <2>4. BoundRows' BY <1>0, <1>3, <2>1 DEF BoundRows, rowVars
  <2>5. OthersApproved' BY <1>0, <1>3 DEF OthersApproved, rowVars
  <2> QED BY <1>1, <2>2, <2>3, <2>4, <2>5 DEF Reliable
<1> QED BY <1>2, <1>3, StoreOrQuiet

\* Every step keeps the invariant.
LEMMA StepInv == IInv /\ [Next]_vars => IInv'
<1> SUFFICES ASSUME IInv, [Next]_vars PROVE IInv' OBVIOUS
<1>1. TypeOK /\ Control /\ Fresh /\ PlanIsPending /\ TrailIsComplete BY DEF IInv
<1>2. TypeOK' BY <1>1, TypeStep
<1>3. Control' BY <1>1, ControlStep
<1>4. Fresh' BY <1>1, FreshStep
<1>5. PlanIsPending' BY <1>1, PlanPendingStep
<1>6. TrailIsComplete' BY <1>1, TrailStep
<1>7. ASSUME faults' = 0 PROVE Reliable'
  <2>1. faults = 0 BY <1>1, <1>7, FaultsStay
  <2>2. Reliable BY <2>1 DEF IInv
  <2> QED BY <1>1, <1>7, <2>2, ReliableStep
<1> QED BY <1>2, <1>3, <1>4, <1>5, <1>6, <1>7 DEF IInv

\* The invariant is one: every transaction of DocumentActions keeps it.
THEOREM Invariance == Spec => []IInv
BY InitInv, StepInv, PTL DEF Spec

\* No request, failed listing, conflict or crash takes the rows of a document
\* out of their types.
THEOREM TypeCorrect == Spec => []TypeOK
<1>1. IInv => TypeOK BY DEF IInv
<1> QED BY <1>1, Invariance, PTL

\* The audit trail has one entry per version, in an unbroken chain of states,
\* whatever requests overlap: the version check of updateDocumentRecordTx is
\* enough, even when listings fail.
THEOREM TrailTheorem == Spec => []TrailIsComplete
<1>1. IInv => TrailIsComplete BY DEF IInv
<1> QED BY <1>1, Invariance, PTL

\* Without failed listings: one pending approval with its open task exactly
\* while the document is submitted, although applyWorkflowMutationTx resolves
\* what was listed before the transaction began.
THEOREM PendingTheorem == Spec => []PendingIffSubmitted
<1>1. IInv => PendingIffSubmitted BY DEF IInv, Reliable, PendingIffSubmitted
<1> QED BY <1>1, Invariance, PTL

\* Stages approved in order are all approved once the last one is.
LEMMA StagesAll == TypeOK /\ StagesInOrder => EveryStageApproved
<1> SUFFICES ASSUME TypeOK, StagesInOrder, doc.status = "approved", NEW s \in 1..Stages
             PROVE  /\ approval[s] = "approved"
                    /\ Required[s] > 1 => Cardinality(doc.approvers[s]) >= Required[s]
  BY DEF EveryStageApproved
<1>1. Stages # 0 /\ Stages \in Nat /\ Stages \in 1..Stages BY LifecycleAssumption
<1>2. s \in Rows /\ Stages \in Rows BY <1>1, RowsAreStages
<1>3. approval[Stages] = "approved" BY <1>1 DEF StagesInOrder
<1>4. s = Stages \/ s < Stages BY <1>1
<1>5. approval[s] = "approved" BY <1>2, <1>3, <1>4 DEF StagesInOrder
<1>6. ~Lacking(s, doc.approvers) BY <1>5 DEF StagesInOrder
<1>7. Cardinality(doc.approvers[s]) \in Nat
  <2>1. doc.approvers[s] \subseteq Users BY DEF TypeOK, DocumentRecord
  <2>2. IsFiniteSet(doc.approvers[s]) BY <2>1, LifecycleAssumption, FS_Subset
  <2> QED BY <2>2, FS_CardinalityType
<1>8. Required[s] \in Nat BY LifecycleAssumption
<1> QED BY <1>5, <1>6, <1>7, <1>8 DEF Lacking

\* Without failed listings: an approved document has passed every stage of its
\* policy with the number of approvers each stage requires.
THEOREM StagesTheorem == Spec => []ApprovedInEveryStage
<1>1. IInv => ApprovedInEveryStage BY StagesAll DEF IInv, Reliable, ApprovedInEveryStage
<1> QED BY <1>1, Invariance, PTL

\* Without failed listings: where another actor is required, the requester of
\* an approval neither resolves it in favour nor votes for it, also when laxer
\* versions of the workflow are published meanwhile.
THEOREM RequesterTheorem == Spec => []RequesterDoesNotApprove
<1>1. IInv => RequesterDoesNotApprove BY DEF IInv, Reliable, RequesterDoesNotApprove
<1> QED BY <1>1, Invariance, PTL

\* A resolved approval is never resolved again, even when listings fail: a
\* plan that is current names pending rows only.
THEOREM ResolvedTheorem == Spec => ApprovalIsResolvedOnce
<1>1. IInv /\ [Next]_vars => ResolvedStep
  <2> SUFFICES ASSUME IInv, [Next]_vars, NEW k \in Rows, approval[k] \notin {"none", "pending"}
               PROVE  approval'[k] = approval[k] /\ resolvedBy'[k] = resolvedBy[k]
    BY DEF ResolvedStep
  <2>1. ASSUME NEW p \in Requests, Store(p)
        PROVE  approval'[k] = approval[k] /\ resolvedBy'[k] = resolvedBy[k]
    <3>1. pc[p] = "ready" /\ read[p].version = doc.version
      BY <2>1 DEF Store, VersionMatches
    <3>2. Current(p) BY <3>1 DEF Current, Working
    <3>3. planA[p] \subseteq Pending BY <3>2 DEF IInv, PlanIsPending
    <3> QED BY <2>1, <3>3, StoreRows DEF Pending
  <2> QED BY <2>1, StoreOrQuiet DEF rowVars
<1>2. IInv /\ [Next]_vars => [ResolvedStep]_vars BY <1>1
<1> QED BY <1>2, Invariance, PTL DEF Spec, ApprovalIsResolvedOnce

\* A part of the payload changes only in a draft, and only to what a request
\* to replace that very part carries: mergeBasePayload never brings back an
\* extension that another request has replaced in between.
THEOREM PayloadTheorem == Spec => PayloadIsNotOverwritten
<1>1. IInv /\ [Next]_vars => PayloadStep
  <2> SUFFICES ASSUME IInv, [Next]_vars, NEW m \in Parts, doc'.payload[m] # doc.payload[m]
               PROVE  /\ doc.status = "draft" /\ doc'.status = "draft"
                      /\ \E p \in Requests : /\ op[p] \in Edits /\ part[p] = m
                                             /\ doc'.payload[m] = input[p]
    BY DEF PayloadStep
  <2>1. PICK p \in Requests : Store(p) BY StoreOrQuiet
  <2>2. TypeOK /\ Control /\ Fresh BY DEF IInv
  <2>3. doc' = NewDocument(p) /\ read[p] = doc BY <2>1, <2>2, StoreMovesVersion
  <2>4. op[p] \in Edits BY <2>3 DEF NewDocument
  <2>5. doc'.payload = [doc.payload EXCEPT ![part[p]] = input[p]]
    BY <2>3, <2>4 DEF NewDocument
  <2>6. doc.payload \in [Parts -> Payloads \cup {NoPayload}] BY <2>2 DEF TypeOK, DocumentRecord
  <2>7. part[p] = m /\ doc'.payload[m] = input[p] BY <2>5, <2>6
  <2>8. Working(p) BY <2>1 DEF Store, Working
  <2>9. doc.status = "draft" BY <2>2, <2>3, <2>4, <2>8 DEF Control, ControlOf
  <2>10. doc'.status = "draft" BY <2>3, <2>4, <2>9 DEF NewDocument, ToState
  <2> QED BY <2>4, <2>7, <2>9, <2>10
<1>2. IInv /\ [Next]_vars => [PayloadStep]_vars BY <1>1
<1> QED BY <1>2, Invariance, PTL DEF Spec, PayloadIsNotOverwritten
=============================================================================
