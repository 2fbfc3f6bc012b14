----------------------------- MODULE Receivables -----------------------------
(***************************************************************************)
(* Invoices, payment receipts, credit notes and refunds of                 *)
(* internal/platform/application (CommercialCoreService).  A document      *)
(* moves through its workflow in one transaction (DocumentLifecycle); the  *)
(* route then calls HandleAction, which changes other documents and posts  *)
(* to the ledger in statements of their own.  What it has read may be      *)
(* stale when it saves it, Save replaces the whole record without a        *)
(* condition on its version, and an error is only a warning: nothing runs  *)
(* the rest of an effect later.                                            *)
(*                                                                         *)
(* The documents around one invoice are modelled; allocations of a payment *)
(* to other invoices are part of what it has not applied.  All rows have   *)
(* the same fields: "amount" is the total, received, credited or refunded  *)
(* amount of the document; "applied" is paid_amount of the invoice and the *)
(* sum of the allocations of a payment; "balance" is balance_due_amount    *)
(* and unapplied_amount.  Amounts are whole numbers of the smallest unit   *)
(* that roundMoney keeps.  AddLink, whose own window is the subject of     *)
(* DocumentLinks, is one step here.                                        *)
(*                                                                         *)
(* The second submission of a document fails on the rows of the first (see *)
(* CurrentRequestCanBeStored of DocumentLifecycle), and a document is      *)
(* edited before its first submission only, which is the same as creating  *)
(* it with its final contents.                                             *)
(***************************************************************************)
EXTENDS Integers, Sequences, FiniteSets, Functions

CONSTANTS
  Inv,       \* the invoice
  Payments, Notes, Refunds,
  NoNote,
  Handlers,  \* requests whose effects run at the same time
  Total,     \* total_amount of the invoice
  Receipts,  \* <<amount received, amount allocated>> of payments entered by hand
  Generated, \* payments that may be generated from the invoice instead
  Credits,   \* amounts of credit notes
  MaxUpsets, \* bound: effects that fail or overlap, approvals before the last stage,
             \* documents rejected or reopened
  MaxEffects \* bound: effects started

Docs == {Inv} \cup Payments \cup Notes \cup Refunds

ASSUME ReceivablesAssumption ==
  /\ Inv \notin Payments \cup Notes \cup Refunds
  /\ Payments \cap Notes = {} /\ Payments \cap Refunds = {} /\ Notes \cap Refunds = {}
  /\ NoNote \notin Notes
  /\ IsFiniteSet(Payments) /\ IsFiniteSet(Notes) /\ IsFiniteSet(Refunds)
  /\ Total \in Nat \ {0} /\ Credits \subseteq 1..Total
  /\ Generated \subseteq Payments /\ DOMAIN Receipts = Payments
  /\ \A p \in Payments : \A x \in Receipts[p] :
       x \in (1..Total) \X (0..Total) /\ x[2] <= x[1]
  /\ MaxUpsets \in Nat /\ MaxEffects \in Nat

VARIABLES
  row,       \* the rows of document_records
  submitted, \* documents whose submission has left its workflow rows
  approved,  \* documents that were approved in the last stage of their policy
  staged,    \* documents that were approved in an earlier stage
  source,    \* source_credit_note_id of a refund
  share,     \* refund_allocations of a refund
  payLinks,  \* payment_for links of the invoice, oldest first
  links,     \* reasons of the posting_for links of a document
  posted,    \* ledger postings that were made for a document, by reason
  doc,       \* the document whose action a handler has committed
  act,       \* that action
  todo,      \* the statements it still has to execute
  held,      \* its local copies of the records, changed as it will save them
  seen,      \* the posting links of its document as read with the record
  clean,     \* every effect so far ran alone, after the last approval, to its end
  upsets,    \* failures, overlaps, rejections and reopenings so far
  effects    \* effects started so far

docVars == <<submitted, approved, staged, source, share>>
jobVars == <<doc, act, todo, held, seen, effects>>
vars    == <<row, submitted, approved, staged, source, share, payLinks, links, posted,
             doc, act, todo, held, seen, clean, upsets, effects>>

-----------------------------------------------------------------------------
Statuses == {"none", "draft", "submitted", "issued", "received", "refunded", "rejected",
             "cancelled", "partially_paid", "paid"}
Reasons  == {"issue", "reversal"}

Row == [status : Statuses, amount : 0..Total, applied : 0..Total, balance : 0..Total,
        credited : Nat, refunded : Nat]

NoRow == [status |-> "none", amount |-> 0, applied |-> 0, balance |-> 0,
          credited |-> 0, refunded |-> 0]

\* A statement of an effect: what it does, on which document, for which amount.
Step  == {"read", "save", "post", "link"} \X Docs \X (0..Total)
Share == [payment : Payments, amount : 1..Total]

TypeOK ==
  /\ row \in [Docs -> Row]
  /\ submitted \subseteq Docs /\ approved \subseteq Docs /\ staged \subseteq Docs
  /\ source \in [Refunds -> Notes \cup {NoNote}]
  /\ share \in [Refunds -> Seq(Share)]
  /\ payLinks \in Seq(Payments)
  /\ links \in [Docs -> SUBSET Reasons]
  /\ posted \in [Docs -> [Reasons -> Nat]]
  /\ doc \in [Handlers -> Docs]
  /\ act \in [Handlers -> {"approve", "stage", "cancel", "allocate"}]
  /\ todo \in [Handlers -> Seq(Step)]
  /\ held \in [Handlers -> [Docs -> Row]]
  /\ seen \in [Handlers -> SUBSET Reasons]
  /\ clean \in BOOLEAN /\ upsets \in 0..MaxUpsets /\ effects \in 0..MaxEffects

NoCopies == [d \in Docs |-> NoRow]

\* A draft of the invoice, and nothing else.
Init ==
  /\ row = [d \in Docs |-> IF d = Inv
                           THEN [NoRow EXCEPT !.status = "draft", !.amount = Total,
                                              !.balance = Total]
                           ELSE NoRow]
  /\ submitted = {} /\ approved = {} /\ staged = {}
  /\ source = [r \in Refunds |-> NoNote] /\ share = [r \in Refunds |-> << >>]
  /\ payLinks = << >> /\ links = [d \in Docs |-> {}]
  /\ posted = [d \in Docs |-> [x \in Reasons |-> 0]]
  /\ doc = [h \in Handlers |-> Inv] /\ act = [h \in Handlers |-> "approve"]
  /\ todo = [h \in Handlers |-> << >>] /\ held = [h \in Handlers |-> NoCopies]
  /\ seen = [h \in Handlers |-> {}]
  /\ clean = TRUE /\ upsets = 0 /\ effects = 0

-----------------------------------------------------------------------------
(***************************************************************************)
(* The arithmetic of the effects.                                          *)
(***************************************************************************)
Positive(n) == IF n > 0 THEN n ELSE 0

\* applyAllocationToInvoice: credit notes do not count towards the balance.
ApplyAllocation(v, n) ==
  [v EXCEPT !.applied = @ + n,
            !.balance = v.amount - (v.applied + n),
            !.status  = IF v.applied + n = v.amount THEN "paid"
                        ELSE IF @ = "issued" THEN "partially_paid" ELSE @]

\* Mutant of ReverseAllocation: the applied amount is reset, not reduced.
ReverseAllocationAll(v, n) ==
  [v EXCEPT !.applied = 0, !.balance = v.amount, !.status = "issued"]

\* Mutant of ReverseAllocation: it does not stop at zero.
ReverseAllocationBelow(v, n) ==
  [v EXCEPT !.applied = @ - n, !.balance = v.amount - (v.applied - n),
            !.status = IF v.applied > n THEN "partially_paid" ELSE "issued"]

\* reverseAllocationOnInvoice.
ReverseAllocation(v, n) ==
  LET paid == Positive(v.applied - n)
  IN [v EXCEPT !.applied = paid, !.balance = v.amount - paid,
               !.status  = IF paid = v.amount THEN "paid"
                           ELSE IF paid > 0 THEN "partially_paid" ELSE "issued"]

\* What a credit note may credit: the balance, else what was paid and not
\* refunded, else what was not credited yet.
Creditable(v) ==
  LET open == v.balance
      kept == v.applied - v.refunded
  IN IF open > 0 /\ v.status # "paid" THEN open
     ELSE IF kept > 0 THEN kept ELSE v.amount - v.credited

\* handleIssuedCreditNote: an invoice credited in full and not paid at all is
\* shown as cancelled.
CreditInvoice(v, n) ==
  LET due == Positive(v.amount - v.applied - (v.credited + n))
  IN [v EXCEPT !.credited = @ + n, !.balance = due,
               !.status   = IF due = 0 THEN IF v.applied > 0 THEN "paid" ELSE "cancelled"
                            ELSE IF v.applied > 0 THEN "partially_paid" ELSE "issued"]

\* handleRefundedPayment, for the invoice; "refunded" if nothing paid is left.
RefundInvoice(v, n) ==
  [v EXCEPT !.refunded = @ + n,
            !.status   = IF v.refunded + n = v.applied THEN "refunded" ELSE @]

\* handleRefundedPayment, for the credit note and the payments ...
RefundRow(v, n) == [v EXCEPT !.refunded = @ + n]

\* ... and handleCancelledRefund for them and for the invoice.
UnrefundRow(v, n) == [v EXCEPT !.refunded = Positive(@ - n)]

UnrefundInvoice(v, n) ==
  [v EXCEPT !.refunded = Positive(@ - n), !.status = IF @ = "refunded" THEN "paid" ELSE @]

\* What approve and cancel save of the document itself.
OwnCopy(d, a, v) ==
  IF d \in Payments /\ a = "cancel" THEN [v EXCEPT !.balance = v.amount]
  ELSE IF d \in Payments \cup {Inv} THEN [v EXCEPT !.balance = Positive(v.amount - v.applied)]
  ELSE v

SumOf(rows) ==
  LET sum[i \in 0..Len(rows)] == IF i = 0 THEN 0 ELSE sum[i - 1] + rows[i].amount
  IN sum[Len(rows)]

-----------------------------------------------------------------------------
(***************************************************************************)
(* The statements of an effect, in the order of the code.                  *)
(***************************************************************************)
Posting(d) == << <<"post", d, 0>>, <<"link", d, 0>> >>

OnInvoice(n) == IF n = 0 THEN << >> ELSE << <<"read", Inv, n>>, <<"save", Inv, n>> >>

\* Every row of refund_allocations reads and saves its payment.
ShareSteps(r) ==
  [i \in 1..(2 * Len(share[r])) |->
     LET x == share[r][(i + 1) \div 2]
     IN <<IF i % 2 = 1 THEN "read" ELSE "save", x.payment, x.amount>>]

\* HandleAction.
Effect(d, a, v) ==
  CASE d = Inv /\ a = "approve" -> << <<"save", d, 0>> >> \o Posting(d)
    [] d = Inv /\ a = "cancel"  -> Posting(d)
    [] d \in Payments /\ a = "approve" ->
         << <<"save", d, 0>> >> \o OnInvoice(v.applied) \o Posting(d)
    [] d \in Payments /\ a = "cancel" ->
         OnInvoice(v.applied) \o << <<"save", d, 0>> >> \o Posting(d)
    [] d \in Notes /\ a = "approve" -> OnInvoice(v.amount) \o Posting(d)
    [] d \in Refunds /\ a = "approve" ->
         << <<"read", Inv, v.amount>>, <<"read", source[d], v.amount>> >> \o ShareSteps(d)
         \o << <<"save", Inv, v.amount>>, <<"save", source[d], v.amount>> >> \o Posting(d)
    [] d \in Refunds /\ a = "cancel" ->
         ShareSteps(d) \o << <<"read", source[d], v.amount>>, <<"save", source[d], v.amount>> >>
         \o OnInvoice(v.amount) \o Posting(d)
    [] OTHER -> << >>

\* A handler starts the effect of the action it has committed; whether it was
\* due makes no difference to it.
Start(h, d, a, v, steps, due) ==
  /\ todo[h] = << >> /\ effects < MaxEffects /\ effects' = effects + 1
  /\ doc' = [doc EXCEPT ![h] = d] /\ act' = [act EXCEPT ![h] = a]
  /\ todo' = [todo EXCEPT ![h] = steps]
  /\ held' = [held EXCEPT ![h] = [NoCopies EXCEPT ![d] = v]]
  /\ seen' = [seen EXCEPT ![h] = links[d]]
  /\ LET alone == \A g \in Handlers : todo[g] = << >>
         upset == IF alone /\ a # "stage" THEN 0 ELSE 1
     IN /\ upsets + upset <= MaxUpsets /\ upsets' = upsets + upset
        /\ clean' = (clean /\ alone /\ due)

\* The effect ends, at its end or early.
Done(h) ==
  /\ todo' = [todo EXCEPT ![h] = << >>] /\ doc' = [doc EXCEPT ![h] = Inv]
  /\ act' = [act EXCEPT ![h] = "approve"]
  /\ held' = [held EXCEPT ![h] = NoCopies] /\ seen' = [seen EXCEPT ![h] = {}]
  /\ UNCHANGED effects

\* The next statement, or the end.
Advance(h) ==
  IF Len(todo[h]) = 1 THEN Done(h)
  ELSE todo' = [todo EXCEPT ![h] = Tail(@)] /\ UNCHANGED <<doc, act, held, seen, effects>>

-----------------------------------------------------------------------------
(***************************************************************************)
(* Creating documents.                                                     *)
(***************************************************************************)

\* POST /documents: a payment of n, of which k is allocated to the invoice.
CreatePayment(p, n, k) ==
  /\ row[p].status = "none"
  /\ row' = [row EXCEPT ![p] = [NoRow EXCEPT !.status = "draft", !.amount = n,
                                             !.applied = k, !.balance = n - k]]
  /\ UNCHANGED <<docVars, payLinks, links, posted, jobVars, clean, upsets>>

\* CreatePaymentReceiptFromInvoice: a payment of what is open, with a link.
GeneratePayment(p) ==
  LET v == row[Inv]
      n == IF v.balance > 0 THEN v.balance ELSE v.amount - v.applied
  IN /\ row[p].status = "none" /\ v.status \in {"issued", "partially_paid"} /\ n > 0
     /\ row' = [row EXCEPT ![p] = [NoRow EXCEPT !.status = "draft", !.amount = n,
                                                !.applied = n]]
     /\ payLinks' = Append(payLinks, p)
     /\ UNCHANGED <<docVars, links, posted, jobVars, clean, upsets>>

\* CreateCreditNoteFromInvoice, with an amount that may be edited afterwards.
CreateNote(c, n) ==
  /\ row[c].status = "none" /\ row[Inv].status \in {"issued", "partially_paid", "paid"}
  /\ Creditable(row[Inv]) > 0
  /\ row' = [row EXCEPT ![c] = [NoRow EXCEPT !.status = "draft", !.amount = n]]
  /\ UNCHANGED <<docVars, payLinks, links, posted, jobVars, clean, upsets>>

\* refundablePaymentsForInvoice: one option for each link, even if several
\* links name the same payment.
Refundable ==
  SelectSeq(payLinks, LAMBDA p : row[p].status = "received" /\ row[p].amount > row[p].refunded)

\* buildRefundAllocationRows: take what is left of n from each option in turn.
BuildShares(n) ==
  LET opts == Refundable
      rest(i) == row[opts[i]].amount - row[opts[i]].refunded
      left[i \in 0..Len(opts)] == IF i = 0 THEN n ELSE Positive(left[i - 1] - rest(i))
      used == {i \in 1..Len(opts) : left[i - 1] > 0}
  IN [i \in 1..Cardinality(used) |->
        [payment |-> opts[i],
         amount  |-> IF left[i - 1] < rest(i) THEN left[i - 1] ELSE rest(i)]]

\* CreateRefundFromCreditNote.  (That the rows are in Seq(Share) excludes no result
\* of BuildShares; it states their type, which only an induction could prove.)
GenerateRefund(r, c) ==
  LET paid == row[Inv].applied - row[Inv].refunded
      open == row[c].amount - row[c].refunded
      n    == IF open < paid THEN open ELSE paid
  IN /\ row[r].status = "none" /\ row[c].status = "issued" /\ n > 0
     /\ row' = [row EXCEPT ![r] = [NoRow EXCEPT !.status = "draft", !.amount = n]]
     /\ source' = [source EXCEPT ![r] = c]
     /\ share' = [share EXCEPT ![r] = BuildShares(n)] /\ share'[r] \in Seq(Share)
     /\ UNCHANGED <<submitted, approved, staged, payLinks, links, posted, jobVars, clean,
                    upsets>>

-----------------------------------------------------------------------------
(***************************************************************************)
(* The workflow of commercialWorkflowDefinition.                           *)
(***************************************************************************)
ApprovedState(d) ==
  CASE d \in Payments -> "received" [] d \in Refunds -> "refunded" [] OTHER -> "issued"

SetStatus(d, s) == row' = [row EXCEPT ![d].status = s]

Submit(d) ==
  /\ row[d].status = "draft" /\ d \notin submitted
  /\ SetStatus(d, "submitted") /\ submitted' = submitted \cup {d}
  /\ UNCHANGED <<approved, staged, source, share, payLinks, links, posted, jobVars, clean,
                 upsets>>

\* A document is sent back.
Detour(d, s) ==
  /\ upsets < MaxUpsets /\ upsets' = upsets + 1
  /\ SetStatus(d, s)
  /\ UNCHANGED <<docVars, payLinks, links, posted, jobVars, clean>>

Reject(d) == row[d].status = "submitted" /\ Detour(d, "rejected")

\* Reopen: no effect is undone.
Reopen(d) == row[d].status \in {"rejected", ApprovedState(d)} /\ Detour(d, "draft")

\* A credit note is cancelled before it is issued, or once it was reopened;
\* HandleAction does nothing for it.
CancelNote(c) ==
  /\ row[c].status \in {"draft", "submitted"}
  /\ SetStatus(c, "cancelled")
  /\ UNCHANGED <<docVars, payLinks, links, posted, jobVars, clean, upsets>>

\* Mutant of Approve: the status stays as it was.
ApproveForgotten(h, d) ==
  /\ row[d].status = "submitted"
  /\ approved' = approved \cup {d}
  /\ Start(h, d, "approve", OwnCopy(d, "approve", row[d]), Effect(d, "approve", row[d]), TRUE)
  /\ UNCHANGED <<row, submitted, staged, source, share, payLinks, links, posted>>

\* Approve, in the last stage of the approval policy.
Approve(h, d) ==
  LET v == [row[d] EXCEPT !.status = ApprovedState(d)]
  IN /\ row[d].status = "submitted"
     /\ row' = [row EXCEPT ![d] = v] /\ approved' = approved \cup {d}
     /\ Start(h, d, "approve", OwnCopy(d, "approve", v), Effect(d, "approve", v), TRUE)
     /\ UNCHANGED <<submitted, staged, source, share, payLinks, links, posted>>

\* Approve, in an earlier stage: the document stays submitted, but the route
\* calls HandleAction all the same.
ApproveStage(h, d) ==
  /\ row[d].status = "submitted" /\ staged' = staged \cup {d}
  /\ Start(h, d, "stage", OwnCopy(d, "approve", row[d]), Effect(d, "approve", row[d]), FALSE)
  /\ UNCHANGED <<row, submitted, approved, source, share, payLinks, links, posted>>

\* The workflow rule, and validateCancelLegacy.
CancelAllowed(d) ==
  /\ row[d].status \in {"draft", "submitted", ApprovedState(d)}
  /\ ~(d = Inv /\ row[d].status = "issued" /\ row[d].applied > 0)

\* Cancel, of a document that was approved or of one that never was.
Cancel(h, d) ==
  LET v == [row[d] EXCEPT !.status = "cancelled"]
  IN /\ d \notin Notes /\ CancelAllowed(d)
     /\ row' = [row EXCEPT ![d] = v]
     /\ Start(h, d, "cancel", OwnCopy(d, "cancel", v), Effect(d, "cancel", v),
              d \in approved)
     /\ UNCHANGED <<docVars, payLinks, links, posted>>

\* AllocatePaymentReceipt: n of what a payment has not applied goes to the
\* invoice, which is read once to validate it and once to change it.
AllocatePayment(h, p, n) ==
  LET v == row[p]
  IN /\ v.status \notin {"none", "draft", "cancelled"} /\ n <= v.balance
     /\ Start(h, p, "allocate", [v EXCEPT !.applied = @ + n, !.balance = @ - n],
              << <<"read", Inv, n>>, <<"save", p, 0>> >> \o OnInvoice(n),
              v.status = "received")
     /\ UNCHANGED <<row, docVars, payLinks, links, posted>>

-----------------------------------------------------------------------------
(***************************************************************************)
(* Executing an effect.                                                    *)
(***************************************************************************)

\* Mutant of Refuses: an allocation is not compared with the invoice.
RefusesNoAllocation(h, x, n) ==
  LET v == row[x]
  IN \/ x = Inv /\ doc[h] \in Notes /\ n > Creditable(v)
     \/ /\ doc[h] \in Refunds /\ act[h] # "cancel"
        /\ \/ x \in Notes /\ v.refunded + n > v.amount
           \/ x \in Notes /\ held[h][Inv].refunded + n > held[h][Inv].applied
           \/ x \in Payments /\ v.refunded + n > v.amount

\* The validations that follow a read; x was read for amount n.
Refuses(h, x, n) ==
  LET v == row[x]
  IN \/ x = Inv /\ doc[h] \in Payments /\ act[h] # "cancel" /\ v.applied + n > v.amount
     \/ x = Inv /\ doc[h] \in Notes /\ n > Creditable(v)
     \/ /\ doc[h] \in Refunds /\ act[h] # "cancel"
        /\ \/ x \in Notes /\ v.refunded + n > v.amount
           \/ x \in Notes /\ held[h][Inv].refunded + n > held[h][Inv].applied
           \/ x \in Payments /\ v.refunded + n > v.amount

\* The local copies once x is read and changed.  An approved refund changes the
\* invoice when it has read the credit note as well.
Changed(h, x, n) ==
  LET v == row[x]
      c == held[h]
  IN CASE doc[h] \in Payments ->
            [c EXCEPT ![Inv] = IF act[h] = "cancel" THEN ReverseAllocation(v, n)
                               ELSE ApplyAllocation(v, n)]
       [] doc[h] \in Notes -> [c EXCEPT ![Inv] = CreditInvoice(v, n)]
       [] doc[h] \in Refunds /\ act[h] # "cancel" ->
            IF x = Inv THEN [c EXCEPT ![Inv] = v]
            ELSE IF x \in Notes
                 THEN [c EXCEPT ![x] = RefundRow(v, n), ![Inv] = RefundInvoice(@, n)]
                 ELSE [c EXCEPT ![x] = RefundRow(v, n)]
       [] OTHER -> [c EXCEPT ![x] = IF x = Inv THEN UnrefundInvoice(v, n)
                                    ELSE UnrefundRow(v, n)]

\* The next statement of a handler is of this kind; its document and amount.
Runs(h, kind) == todo[h] # << >> /\ Head(todo[h])[1] = kind
Subject(h)    == Head(todo[h])[2]
Amount(h)     == Head(todo[h])[3]

\* A record is read, and the effect goes on with a changed copy of it.
Read(h) ==
  /\ Runs(h, "read") /\ ~Refuses(h, Subject(h), Amount(h))
  /\ held' = [held EXCEPT ![h] = Changed(h, Subject(h), Amount(h))]
  /\ todo' = [todo EXCEPT ![h] = Tail(@)]
  /\ UNCHANGED <<row, docVars, payLinks, links, posted, doc, act, seen, effects, clean,
                 upsets>>

\* A record is read, and the effect ends with an error.
ReadRefused(h) ==
  /\ Runs(h, "read") /\ Refuses(h, Subject(h), Amount(h))
  /\ Done(h) /\ clean' = FALSE
  /\ UNCHANGED <<row, docVars, payLinks, links, posted, upsets>>

\* The allocations of a refund do not add up, which is found after they are saved.
Mismatch(h, x, n) ==
  /\ x = Inv /\ doc[h] \in Refunds /\ act[h] # "cancel"
  /\ share[doc[h]] # << >> /\ SumOf(share[doc[h]]) # n

\* saveMutatedDocument.  An allocation adds its payment_for link then.
Save(h) ==
  /\ Runs(h, "save") /\ ~Mismatch(h, Subject(h), Amount(h))
  /\ row' = [row EXCEPT ![Subject(h)] = held[h][Subject(h)]]
  /\ payLinks' = IF Subject(h) = Inv /\ doc[h] \in Payments /\ act[h] # "cancel"
                 THEN Append(payLinks, doc[h]) ELSE payLinks
  /\ Advance(h)
  /\ UNCHANGED <<docVars, links, posted, clean, upsets>>

SaveRefused(h) ==
  /\ Runs(h, "save") /\ Mismatch(h, Subject(h), Amount(h))
  /\ Done(h) /\ clean' = FALSE
  /\ UNCHANGED <<row, docVars, payLinks, links, posted, upsets>>

Reason(h) == IF act[h] = "cancel" THEN "reversal" ELSE "issue"

\* Mutant of PostingDue: a reversal looks for the link of the original.
PostingDueOnce(h) == "issue" \notin seen[h]

\* hasPostingLink, and findPostingForReason of a reversal: both look at the
\* links that were read with the record.
PostingDue(h) ==
  /\ Reason(h) \notin seen[h]
  /\ act[h] = "cancel" => "issue" \in seen[h]

\* The ledger posting is created and finalized ...
Post(h) ==
  /\ Runs(h, "post")
  /\ IF PostingDue(h)
     THEN /\ posted' = [posted EXCEPT ![Subject(h)][Reason(h)] = @ + 1]
          /\ Advance(h)
     ELSE Done(h) /\ UNCHANGED posted
  /\ UNCHANGED <<row, docVars, payLinks, links, clean, upsets>>

\* ... and then linked with its document.
Link(h) ==
  /\ Runs(h, "link")
  /\ links' = [links EXCEPT ![Subject(h)] = @ \cup {Reason(h)}]
  /\ Done(h)
  /\ UNCHANGED <<row, docVars, payLinks, posted, clean, upsets>>

\* A statement fails, the accounting period is closed, or the process crashes.
Fail(h) ==
  /\ todo[h] # << >> /\ upsets < MaxUpsets
  /\ Done(h) /\ clean' = FALSE /\ upsets' = upsets + 1
  /\ UNCHANGED <<row, docVars, payLinks, links, posted>>

Next ==
  \/ \E p \in Payments : \E x \in Receipts[p] : CreatePayment(p, x[1], x[2])
  \/ \E p \in Generated : GeneratePayment(p)
  \/ \E c \in Notes, n \in Credits : CreateNote(c, n)
  \/ \E r \in Refunds, c \in Notes : GenerateRefund(r, c)
  \/ \E d \in Docs : Submit(d) \/ Reject(d) \/ Reopen(d)
  \/ \E c \in Notes : CancelNote(c)
  \/ \E h \in Handlers :
       \/ \E d \in Docs : Approve(h, d) \/ ApproveStage(h, d) \/ Cancel(h, d)
       \/ \E p \in Payments, n \in 1..Total : AllocatePayment(h, p, n)
       \/ Read(h) \/ ReadRefused(h) \/ Save(h) \/ SaveRefused(h)
       \/ Post(h) \/ Link(h) \/ Fail(h)

Spec == Init /\ [][Next]_vars

-----------------------------------------------------------------------------
(***************************************************************************)
(* Properties.                                                             *)
(***************************************************************************)

\* However effects overlap and whatever they lose of each other's changes, an
\* invoice is never paid, nor a payment or a credit note refunded, beyond its
\* amount.
LimitsHold ==
  /\ row[Inv].applied <= row[Inv].amount
  /\ \A d \in Payments \cup Notes : row[d].refunded <= row[d].amount

\* Whatever overlaps or fails, a credit note or a refund that one approval makes
\* effective is posted to the ledger at most once.  (An allocation that overlaps
\* the approval of a payment, or a payment that of the invoice, may save the
\* document as submitted again.)
PostedOnce ==
  \A d \in (Notes \cup Refunds) \ staged : posted[d]["issue"] <= 1

Quiet  == \A h \in Handlers : todo[h] = << >>
Net(d) == posted[d]["issue"] - posted[d]["reversal"]

\* As long as every effect ran alone, to its end and for a document it was due
\* for, the amounts on the documents agree with the postings of the ledger:
\* the invoice was paid, credited and refunded by what is posted and not
\* reversed, whatever was reopened, allocated later or cancelled.
BooksAgree ==
  clean /\ Quiet =>
    /\ row[Inv].applied  = SumFunctionOnSet([p \in Payments |-> Net(p) * row[p].applied], Payments)
    /\ row[Inv].credited = SumFunctionOnSet([c \in Notes |-> Net(c) * row[c].amount], Notes)
    /\ row[Inv].refunded = SumFunctionOnSet([r \in Refunds |-> Net(r) * row[r].amount], Refunds)
    /\ \A c \in Notes :
         LET own == {r \in Refunds : source[r] = c}
         IN row[c].refunded = SumFunctionOnSet([r \in own |-> Net(r) * row[r].amount], own)

\* Under the same condition a payment or a refund in force is posted, and one
\* that is cancelled or was never approved is not.
PostingsFollowStatus ==
  clean /\ Quiet =>
    \A d \in Payments \cup Refunds :
      /\ row[d].status = ApprovedState(d) => Net(d) = 1
      /\ row[d].status \in {"none", "submitted", "rejected", "cancelled"} => Net(d) = 0

\* "invoice with applied payments cannot be cancelled; reverse payments first":
\* no step cancels the invoice while a payment that is received, posted and not
\* reversed is allocated to it.
CancelStep ==
  row[Inv].status # "cancelled" /\ row'[Inv].status = "cancelled" =>
    \A p \in Payments : row[p].status = "received" /\ Net(p) = 1 => row[p].applied = 0
CancelledWithoutPayments == [][CancelStep]_vars
=============================================================================
