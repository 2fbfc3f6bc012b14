-------------------------- MODULE ReceivablesProofs --------------------------
(***************************************************************************)
(* TLAPS proofs about Receivables, for any handlers, any finite number of  *)
(* payments, credit notes and refunds, any amounts and any bound on        *)
(* faults.                                                                 *)
(*                                                                         *)
(* An effect saves copies it read some time ago.  IInv therefore says of   *)
(* the copies what it says of the rows, and of the statements an effect    *)
(* still has to execute which documents they may name.                     *)
(*                                                                         *)
(* The second half is about runs that are still "clean": no effect         *)
(* overlapped another, started for a document it was not due for, or ended *)
(* early.  There Orderly says how far the one running effect has come.     *)
(***************************************************************************)
EXTENDS Receivables, SequenceTheorems, SumTheorems, TLAPS

\* Amounts of a row, or of a copy, of document d.
Bounded(d, v) ==
  /\ v.applied <= v.amount
  /\ d \in Payments \cup Notes => v.refunded <= v.amount
  /\ d \in Payments /\ v.status # "cancelled" => v.applied + v.balance <= v.amount

\* A row, or a copy, v of document d: its amounts are bounded; a refund that
\* exists has a source and an issued credit note was approved (A).
Sound(d, v, src, A) ==
  /\ v \in Row /\ Bounded(d, v)
  /\ d \in Refunds /\ v.status # "none" => src[d] \in Notes \cap A
  /\ d \in Notes /\ v.status = "issued" => d \in A

RowsSound   == \A d \in Docs : Sound(d, row[d], source, approved)
CopiesSound == \A h \in Handlers : \A d \in Docs : Sound(d, held[h][d], source, approved)

\* Statements of an effect of document d: only refunds read documents other than
\* the invoice, the only credit notes that are saved are in A, and a
\* posting is made for d, before the last statement.
Shaped(s, d, A) ==
  \A i \in 1..Len(s) :
    /\ s[i][1] = "read" /\ d \notin Refunds => s[i][2] = Inv
    /\ s[i][1] = "save" /\ s[i][2] \in Notes \cup Refunds => s[i][2] \in Notes \cap A
    /\ s[i][1] = "post" => s[i][2] = d /\ i = Len(s) - 1

TodoShape == \A h \in Handlers : Shaped(todo[h], doc[h], approved)

\* A copy of a credit note that will be saved is not submitted.
SavedCopies ==
  \A h \in Handlers : \A i \in 1..Len(todo[h]) :
    todo[h][i][1] = "save" /\ todo[h][i][2] \in Notes \cup Refunds =>
      held[h][todo[h][i][2]].status # "submitted"

\* A credit note or a refund that was approved is not submitted again.
SubmittedOnce ==
  \A d \in Notes \cup Refunds :
    /\ row[d].status = "submitted" => d \in submitted /\ d \notin approved
    /\ d \in approved => d \in submitted

\* A handler executes the effect of an approval of d.
Issuing(h, d) == doc[h] = d /\ act[h] # "cancel" /\ todo[h] # << >>

\* The posting is made by the only approval, once.
PostingPending ==
  \A d \in (Notes \cup Refunds) \ staged :
    /\ d \notin approved => posted[d]["issue"] = 0 /\ \A h \in Handlers : ~Issuing(h, d)
    /\ \A g, h \in Handlers : Issuing(g, d) /\ Issuing(h, d) => g = h
    /\ \A h \in Handlers : \A i \in 1..Len(todo[h]) :
         Issuing(h, d) /\ todo[h][i][1] = "post" => posted[d]["issue"] = 0

IInv ==
  /\ TypeOK
  /\ RowsSound
  /\ CopiesSound
  /\ TodoShape
  /\ SavedCopies
  /\ SubmittedOnce
  /\ PostingPending
  /\ PostedOnce

-----------------------------------------------------------------------------
(***************************************************************************)
(* The arithmetic.                                                         *)
(***************************************************************************)

\* The kinds of documents are disjoint.
LEMMA Kinds ==
  /\ Inv \in Docs /\ Inv \notin Payments /\ Inv \notin Notes /\ Inv \notin Refunds
  /\ \A d \in Payments : d \in Docs /\ d \notin Notes /\ d \notin Refunds /\ d # Inv
  /\ \A d \in Notes : d \in Docs /\ d \notin Payments /\ d \notin Refunds /\ d # Inv
  /\ \A d \in Refunds : d \in Docs /\ d \notin Payments /\ d \notin Notes /\ d # Inv
  /\ \A d \in Docs : d = Inv \/ d \in Payments \/ d \in Notes \/ d \in Refunds
  /\ NoNote \notin Notes
BY ReceivablesAssumption DEF Docs

\* The invoice has a positive total.
LEMMA TotalIsNat == Total \in Nat /\ Total > 0
BY ReceivablesAssumption

\* The fields of a row.
LEMMA RowFields ==
  ASSUME NEW v \in Row
  PROVE  /\ v.status \in Statuses /\ v.amount \in 0..Total /\ v.applied \in 0..Total
         /\ v.balance \in 0..Total /\ v.credited \in Nat /\ v.refunded \in Nat
         /\ v = [status |-> v.status, amount |-> v.amount, applied |-> v.applied,
                 balance |-> v.balance, credited |-> v.credited, refunded |-> v.refunded]
BY DEF Row

\* An empty row is a row of any document.
LEMMA NoRowFacts ==
  /\ NoRow \in Row /\ NoRow.status = "none" /\ NoRow.amount = 0 /\ NoRow.applied = 0
  /\ NoRow.balance = 0 /\ NoRow.refunded = 0 /\ \A d : Bounded(d, NoRow)
  /\ NoCopies \in [Docs -> Row] /\ \A d \in Docs : NoCopies[d] = NoRow
BY TotalIsNat DEF NoRow, NoCopies, Row, Statuses, Bounded

\* Another status.
LEMMA StatusRow ==
  ASSUME NEW d \in Docs, NEW v \in Row, Bounded(d, v), NEW s \in Statuses,
         s = "cancelled" \/ v.status # "cancelled"
  PROVE  /\ [v EXCEPT !.status = s] \in Row /\ Bounded(d, [v EXCEPT !.status = s])
         /\ [v EXCEPT !.status = s].status = s
         /\ [v EXCEPT !.status = s].amount = v.amount
         /\ [v EXCEPT !.status = s].applied = v.applied
BY RowFields DEF Row, Bounded

\* What approve and cancel save of the document itself.
LEMMA OwnCopyFacts ==
  ASSUME NEW d \in Docs, NEW v \in Row, Bounded(d, v), NEW a,
         a = "cancel" => v.status = "cancelled"
  PROVE  OwnCopy(d, a, v) \in Row /\ Bounded(d, OwnCopy(d, a, v))
         /\ OwnCopy(d, a, v).status = v.status
BY RowFields, Kinds, TotalIsNat DEF Row, Bounded, OwnCopy, Positive

\* The invoice after a payment, a cancelled payment, a credit note, a refund
\* and a cancelled refund.
LEMMA InvoiceCopies ==
  ASSUME NEW v \in Row, v.applied <= v.amount, NEW n \in 0..Total
  PROVE  /\ v.applied + n <= v.amount =>
              ApplyAllocation(v, n) \in Row /\ Bounded(Inv, ApplyAllocation(v, n))
         /\ ReverseAllocation(v, n) \in Row /\ Bounded(Inv, ReverseAllocation(v, n))
         /\ CreditInvoice(v, n) \in Row /\ Bounded(Inv, CreditInvoice(v, n))
         /\ RefundInvoice(v, n) \in Row /\ Bounded(Inv, RefundInvoice(v, n))
         /\ UnrefundInvoice(v, n) \in Row /\ Bounded(Inv, UnrefundInvoice(v, n))
<1>0. /\ v.status \in Statuses /\ v.amount \in 0..Total /\ v.applied \in 0..Total
      /\ v.balance \in 0..Total /\ v.credited \in Nat /\ v.refunded \in Nat
      /\ Total \in Nat /\ v.amount \in Nat /\ v.applied \in Nat /\ n \in Nat
  BY TotalIsNat DEF Row
<1>b. \A w : w.applied <= w.amount => Bounded(Inv, w)
  BY Kinds DEF Bounded
<1>s. {"paid", "partially_paid", "issued", "cancelled", "refunded"} \subseteq Statuses
  BY DEF Statuses
<1>1. v.applied + n <= v.amount =>
        ApplyAllocation(v, n) \in Row /\ Bounded(Inv, ApplyAllocation(v, n))
  <2> DEFINE s == IF v.applied + n = v.amount THEN "paid"
                  ELSE IF v.status = "issued" THEN "partially_paid" ELSE v.status
             p == v.applied + n
             b == v.amount - p
             w == [v EXCEPT !.applied = p, !.balance = b, !.status = s]
  <2>1. s \in Statuses
    BY <1>0, <1>s
  <2>2. ApplyAllocation(v, n) = w
    BY DEF ApplyAllocation
  <2>3. SUFFICES ASSUME p <= v.amount
                 PROVE  ApplyAllocation(v, n) \in Row /\ Bounded(Inv, ApplyAllocation(v, n))
    OBVIOUS
  <2>4. p \in 0..Total /\ b \in 0..Total
    BY <1>0, <2>3
  <2> HIDE DEF s, p, b
  <2>5. w \in Row /\ w.applied <= w.amount
    BY <2>1, <2>3, <2>4, <1>0 DEF Row
  <2> QED BY <2>2, <2>5, <1>b
<1>2. ReverseAllocation(v, n) \in Row /\ Bounded(Inv, ReverseAllocation(v, n))
  <2> DEFINE p == Positive(v.applied - n)
             b == v.amount - p
             s == IF p = v.amount THEN "paid" ELSE IF p > 0 THEN "partially_paid" ELSE "issued"
             w == [v EXCEPT !.applied = p, !.balance = b, !.status = s]
  <2>1. s \in Statuses
    BY <1>s
  <2>2. ReverseAllocation(v, n) = w
    BY DEF ReverseAllocation
  <2>3. p \in 0..Total /\ p <= v.amount /\ b \in 0..Total
    BY <1>0 DEF Positive
  <2> HIDE DEF s, p, b
  <2>4. w \in Row /\ w.applied <= w.amount
    BY <2>1, <2>3, <1>0 DEF Row
  <2> QED BY <2>2, <2>4, <1>b
<1>3. CreditInvoice(v, n) \in Row /\ Bounded(Inv, CreditInvoice(v, n))
  <2> DEFINE p == Positive(v.amount - v.applied - (v.credited + n))
             s == IF p = 0 THEN IF v.applied > 0 THEN "paid" ELSE "cancelled"
                  ELSE IF v.applied > 0 THEN "partially_paid" ELSE "issued"
             c == v.credited + n
             w == [v EXCEPT !.credited = c, !.balance = p, !.status = s]
  <2>1. s \in Statuses
    BY <1>s
  <2>2. CreditInvoice(v, n) = w
    BY DEF CreditInvoice
  <2>3. p \in 0..Total /\ c \in Nat
    BY <1>0 DEF Positive
  <2> HIDE DEF s, p, c
  <2>4. w \in Row /\ w.applied <= w.amount
    BY <2>1, <2>3, <1>0 DEF Row
  <2> QED BY <2>2, <2>4, <1>b
<1>4. RefundInvoice(v, n) \in Row /\ Bounded(Inv, RefundInvoice(v, n))
  <2> DEFINE c == v.refunded + n
             s == IF c = v.applied THEN "refunded" ELSE v.status
             w == [v EXCEPT !.refunded = c, !.status = s]
  <2>1. s \in Statuses /\ c \in Nat
    BY <1>0, <1>s
  <2>2. RefundInvoice(v, n) = w
    BY DEF RefundInvoice
  <2> HIDE DEF s, c
  <2>3. w \in Row /\ w.applied <= w.amount
    BY <2>1, <1>0 DEF Row
  <2> QED BY <2>2, <2>3, <1>b
<1>5. UnrefundInvoice(v, n) \in Row /\ Bounded(Inv, UnrefundInvoice(v, n))
  <2> DEFINE s == IF v.status = "refunded" THEN "paid" ELSE v.status
             p == Positive(v.refunded - n)
             w == [v EXCEPT !.refunded = p, !.status = s]
  <2>1. s \in Statuses /\ p \in Nat
    BY <1>0, <1>s DEF Positive
  <2>2. UnrefundInvoice(v, n) = w
    BY DEF UnrefundInvoice
  <2> HIDE DEF s, p
  <2>3. w \in Row /\ w.applied <= w.amount
    BY <2>1, <1>0 DEF Row
  <2> QED BY <2>2, <2>3, <1>b
<1> QED BY <1>1, <1>2, <1>3, <1>4, <1>5

\* A credit note or a payment after a refund or a cancelled one.
LEMMA RefundCopies ==
  ASSUME NEW d \in Docs, NEW v \in Row, Bounded(d, v), NEW n \in 0..Total
  PROVE  /\ RefundRow(v, n) \in Row /\ RefundRow(v, n).status = v.status
         /\ (d \in Payments \cup Notes => v.refunded + n <= v.amount) =>
              Bounded(d, RefundRow(v, n))
         /\ UnrefundRow(v, n) \in Row /\ UnrefundRow(v, n).status = v.status
         /\ Bounded(d, UnrefundRow(v, n))
BY RowFields, TotalIsNat DEF Row, Bounded, Positive, RefundRow, UnrefundRow

-----------------------------------------------------------------------------
(***************************************************************************)
(* The statements of an effect.                                            *)
(***************************************************************************)

\* The statements before the posting.
Plain(d) ==
  {s \in Step :
     /\ s[1] \in {"read", "save"}
     /\ s[1] = "read" /\ d \notin Refunds => s[2] = Inv
     /\ s[1] = "save" /\ s[2] \in Notes \cup Refunds => s[2] \in Notes \cap approved}

\* What the statements of an effect consist of.
LEMMA StepTriples ==
  ASSUME NEW k \in {"read", "save", "post", "link"}, NEW d \in Docs, NEW n \in 0..Total
  PROVE  /\ <<k, d, n>> \in Step
         /\ <<k, d, n>>[1] = k /\ <<k, d, n>>[2] = d /\ <<k, d, n>>[3] = n
BY DEF Step

\* The same, read backwards.
LEMMA StepParts ==
  ASSUME NEW s \in Step
  PROVE  s[1] \in {"read", "save", "post", "link"} /\ s[2] \in Docs /\ s[3] \in 0..Total
BY DEF Step

\* Reads and saves that the effect of d may contain.
LEMMA PlainSteps ==
  ASSUME NEW d \in Docs, NEW x \in Docs, NEW n \in 0..Total,
         x \in Notes \cup Refunds => x \in Notes \cap approved
  PROVE  /\ <<"save", x, n>> \in Plain(d)
         /\ d \in Refunds \/ x = Inv => <<"read", x, n>> \in Plain(d)
<1>1. <<"save", x, n>> \in Step /\ <<"read", x, n>> \in Step
  BY StepTriples
<1> QED BY <1>1 DEF Plain

\* Statements of which none is a posting.
LEMMA PlainShape ==
  ASSUME NEW d \in Docs, NEW b \in Seq(Plain(d))
  PROVE  b \in Seq(Step) /\ Shaped(b, d, approved)
<1>1. b \in Seq(Step)
  BY SeqMonotonic, Plain(d) \subseteq Step DEF Plain
<1>2. \A i \in 1..Len(b) : b[i] \in Plain(d)
  BY ElementOfSeq
<1> QED BY <1>1, <1>2 DEF Shaped, Plain

\* ... and with the posting.
LEMMA PostingShape ==
  ASSUME NEW d \in Docs, NEW b \in Seq(Plain(d))
  PROVE  b \o Posting(d) \in Seq(Step) /\ Shaped(b \o Posting(d), d, approved)
<1> DEFINE p == Posting(d)
           s == b \o p
<1>1. b \in Seq(Step)
  BY PlainShape
<1>2. \A i \in 1..Len(b) : b[i] \in Plain(d)
  BY ElementOfSeq
<1>3. p \in Seq(Step) /\ Len(p) = 2 /\ p[1] = <<"post", d, 0>> /\ p[2] = <<"link", d, 0>>
  <2>1. <<"post", d, 0>> \in Step /\ <<"link", d, 0>> \in Step
    BY StepTriples, TotalIsNat
  <2> QED BY <2>1 DEF Posting
<1> HIDE DEF p
<1>4. /\ s \in Seq(Step) /\ Len(s) = Len(b) + 2 /\ Len(b) \in Nat
      /\ \A i \in 1..(Len(b) + 2) : s[i] = IF i <= Len(b) THEN b[i] ELSE p[i - Len(b)]
  <2>1. Len(b) \in Nat
    BY <1>1, LenProperties
  <2>2. /\ s \in Seq(Step) /\ Len(s) = Len(b) + Len(p)
        /\ \A i \in 1..(Len(b) + Len(p)) : s[i] = IF i <= Len(b) THEN b[i] ELSE p[i - Len(b)]
    BY <1>1, <1>3, ConcatProperties
  <2> QED BY <2>1, <2>2, <1>3
<1>5. ASSUME NEW i \in 1..Len(s)
      PROVE  /\ s[i][1] = "read" /\ d \notin Refunds => s[i][2] = Inv
             /\ s[i][1] = "save" /\ s[i][2] \in Notes \cup Refunds =>
                  s[i][2] \in Notes \cap approved
             /\ s[i][1] = "post" => s[i][2] = d /\ i = Len(s) - 1
  <2>1. CASE i <= Len(b)
    <3>1. s[i] = b[i] /\ b[i] \in Plain(d)
      BY <2>1, <1>2, <1>4
    <3> QED BY <3>1 DEF Plain
  <2>2. CASE i = Len(b) + 1
    <3>1. s[i] = <<"post", d, 0>> /\ i = Len(s) - 1
      BY <2>2, <1>3, <1>4
    <3> QED BY <3>1
  <2>3. CASE i = Len(b) + 2
    <3>1. s[i] = <<"link", d, 0>>
      BY <2>3, <1>3, <1>4
    <3> QED BY <3>1
  <2> QED BY <2>1, <2>2, <2>3, <1>4
<1> QED BY <1>4, <1>5 DEF Shaped, p

\* Those of the invoice ...
LEMMA OnInvoicePlain ==
  ASSUME NEW d \in Docs, NEW n \in 0..Total
  PROVE  OnInvoice(n) \in Seq(Plain(d))
<1>1. <<"save", Inv, n>> \in Plain(d) /\ <<"read", Inv, n>> \in Plain(d)
  BY PlainSteps, Kinds
<1> QED BY <1>1 DEF OnInvoice

\* ... and those of the allocations of a refund.
LEMMA SharePlain ==
  ASSUME NEW r \in Refunds, share \in [Refunds -> Seq(Share)]
  PROVE  ShareSteps(r) \in Seq(Plain(r))
<1> DEFINE k == Len(share[r])
<1>1. k \in Nat /\ \A j \in 1..k : share[r][j] \in Share
  BY ElementOfSeq, LenProperties
<1>2. ASSUME NEW i \in 1..(2 * k)
      PROVE  ShareSteps(r)[i] \in Plain(r)
  <2> DEFINE x == share[r][(i + 1) \div 2]
  <2>1. (i + 1) \div 2 \in 1..k
    BY <1>1
  <2>2. x \in Share
    BY <1>1, <2>1
  <2>3. x.payment \in Payments /\ x.amount \in 0..Total
    BY <2>2, TotalIsNat DEF Share
  <2>4. <<"read", x.payment, x.amount>> \in Plain(r) /\ <<"save", x.payment, x.amount>> \in Plain(r)
    BY <2>3, PlainSteps, Kinds
  <2>5. ShareSteps(r)[i] = <<IF i % 2 = 1 THEN "read" ELSE "save", x.payment, x.amount>>
    BY DEF ShareSteps
  <2> QED BY <2>4, <2>5
<1> DEFINE m == 2 * k
           e(i) == ShareSteps(r)[i]
<1>3. m \in Nat
  BY <1>1
<1>4. \A i \in 1..m : e(i) \in Plain(r)
  BY <1>2
<1>5. [i \in 1..m |-> e(i)] = ShareSteps(r)
  BY DEF ShareSteps
<1> HIDE DEF m, e
<1>6. [i \in 1..m |-> e(i)] \in Seq(Plain(r))
  BY <1>3, <1>4
<1> QED BY <1>5, <1>6

\* HandleAction.
LEMMA EffectShape ==
  ASSUME NEW d \in Docs, NEW a \in {"approve", "cancel"}, NEW v \in Row,
         share \in [Refunds -> Seq(Share)],
         d \in Refunds => source[d] \in Notes \cap approved
  PROVE  Effect(d, a, v) \in Seq(Step) /\ Shaped(Effect(d, a, v), d, approved)
<1> DEFINE P == Plain(d)
<1>0. v.amount \in 0..Total /\ v.applied \in 0..Total /\ 0 \in 0..Total
  BY TotalIsNat DEF Row
<1>1. ASSUME NEW b \in Seq(P)
      PROVE  b \o Posting(d) \in Seq(Step) /\ Shaped(b \o Posting(d), d, approved)
  BY PostingShape
<1>2. OnInvoice(v.amount) \in Seq(P) /\ OnInvoice(v.applied) \in Seq(P)
  BY <1>0, OnInvoicePlain
<1>3. << >> \in Seq(P) /\ << >> \in Seq(Step) /\ Shaped(<< >>, d, approved)
  BY DEF Shaped
<1>4. d \notin Notes \cup Refunds => << <<"save", d, 0>> >> \in Seq(P)
  <2>1. d \notin Notes \cup Refunds => <<"save", d, 0>> \in P
    BY <1>0, PlainSteps
  <2> HIDE DEF P
  <2> QED BY <2>1
<1>5. CASE d = Inv /\ a = "approve"
  <2>1. Effect(d, a, v) = << <<"save", d, 0>> >> \o Posting(d)
    BY <1>5, Kinds DEF Effect
  <2> QED BY <2>1, <1>5, <1>1, <1>4, Kinds
<1>6. CASE d = Inv /\ a = "cancel"
  <2>1. Effect(d, a, v) = Posting(d)
    BY <1>6, Kinds DEF Effect
  <2>2. Posting(d) \in Seq(Step)
    <3>1. <<"post", d, 0>> \in Step /\ <<"link", d, 0>> \in Step
      BY StepTriples, TotalIsNat
    <3> QED BY <3>1 DEF Posting
  <2>3. << >> \o Posting(d) = Posting(d)
    BY <2>2, ConcatEmptySeq
  <2> QED BY <2>1, <2>3, <1>1, <1>3
<1>7. CASE d \in Payments /\ a = "approve"
  <2>1. Effect(d, a, v) = (<< <<"save", d, 0>> >> \o OnInvoice(v.applied)) \o Posting(d)
    BY <1>7, Kinds DEF Effect
  <2>2. << <<"save", d, 0>> >> \o OnInvoice(v.applied) \in Seq(P)
    BY <1>2, <1>4, <1>7, Kinds, ConcatProperties
  <2> QED BY <2>1, <2>2, <1>1
<1>8. CASE d \in Payments /\ a = "cancel"
  <2>1. Effect(d, a, v) = (OnInvoice(v.applied) \o << <<"save", d, 0>> >>) \o Posting(d)
    BY <1>8, Kinds DEF Effect
  <2>2. OnInvoice(v.applied) \o << <<"save", d, 0>> >> \in Seq(P)
    BY <1>2, <1>4, <1>8, Kinds, ConcatProperties
  <2> QED BY <2>1, <2>2, <1>1
<1>9. CASE d \in Notes /\ a = "approve"
  <2>1. Effect(d, a, v) = OnInvoice(v.amount) \o Posting(d)
    BY <1>9, Kinds DEF Effect
  <2> QED BY <2>1, <1>1, <1>2
<1>10. CASE d \in Notes /\ a = "cancel"
  <2>1. Effect(d, a, v) = << >>
    BY <1>10, Kinds DEF Effect
  <2> QED BY <2>1, <1>3
<1>11. CASE d \in Refunds
  <2> DEFINE n == v.amount
             sh == ShareSteps(d)
             rr == << <<"read", Inv, n>>, <<"read", source[d], n>> >>
             ss == << <<"save", Inv, n>>, <<"save", source[d], n>> >>
             rs == << <<"read", source[d], n>>, <<"save", source[d], n>> >>
  <2>1. source[d] \in Docs /\ n \in 0..Total
    BY <1>11, <1>0, Kinds
  <2>2. /\ <<"read", Inv, n>> \in P /\ <<"save", Inv, n>> \in P
        /\ <<"read", source[d], n>> \in P /\ <<"save", source[d], n>> \in P
    BY <1>11, <2>1, PlainSteps, Kinds
  <2>3. sh \in Seq(P)
    BY <1>11, SharePlain
  <2>4. rr \in Seq(P) /\ ss \in Seq(P) /\ rs \in Seq(P)
    <3> HIDE DEF P
    <3> QED BY <2>2
  <2> HIDE DEF P
  <2>5. CASE a = "approve"
    <3>1. Effect(d, a, v) = ((rr \o sh) \o ss) \o Posting(d)
      BY <1>11, <2>5, Kinds DEF Effect
    <3>2. rr \o sh \in Seq(P)
      BY <2>3, <2>4, ConcatProperties
    <3>3. (rr \o sh) \o ss \in Seq(P)
      BY <3>2, <2>4, ConcatProperties
    <3> QED BY <3>1, <3>3, <1>1
  <2>6. CASE a = "cancel"
    <3>1. Effect(d, a, v) = ((sh \o rs) \o OnInvoice(n)) \o Posting(d)
      BY <1>11, <2>6, Kinds DEF Effect
    <3>2. sh \o rs \in Seq(P)
      BY <2>3, <2>4, ConcatProperties
    <3>3. (sh \o rs) \o OnInvoice(n) \in Seq(P)
      BY <3>2, <1>2, ConcatProperties
    <3> QED BY <3>1, <3>3, <1>1
  <2> QED BY <2>5, <2>6
<1> QED BY <1>5, <1>6, <1>7, <1>8, <1>9, <1>10, <1>11, Kinds

-----------------------------------------------------------------------------
(***************************************************************************)
(* What starting, advancing and ending an effect does to the handlers.     *)
(***************************************************************************)
Acts == {"approve", "stage", "cancel", "allocate"}

JobTypes ==
  /\ doc \in [Handlers -> Docs] /\ act \in [Handlers -> Acts]
  /\ todo \in [Handlers -> Seq(Step)] /\ held \in [Handlers -> [Docs -> Row]]
  /\ seen \in [Handlers -> SUBSET Reasons] /\ effects \in 0..MaxEffects

\* No other handler is affected.
Others(h) ==
  \A g \in Handlers : g # h =>
    doc'[g] = doc[g] /\ act'[g] = act[g] /\ todo'[g] = todo[g] /\ held'[g] = held[g]

\* A handler that starts an effect.
LEMMA StartFacts ==
  ASSUME TypeOK, NEW h \in Handlers, NEW d \in Docs, NEW a \in Acts, NEW v \in Row,
         NEW steps \in Seq(Step), NEW due \in BOOLEAN, Start(h, d, a, v, steps, due)
  PROVE  /\ JobTypes' /\ Others(h) /\ todo[h] = << >>
         /\ doc'[h] = d /\ act'[h] = a /\ todo'[h] = steps
         /\ held'[h][d] = v /\ \A x \in Docs : x # d => held'[h][x] = NoRow
         /\ clean' \in BOOLEAN /\ upsets' \in 0..MaxUpsets
<1>1. [NoCopies EXCEPT ![d] = v] \in [Docs -> Row]
  BY NoRowFacts
<1>2. JobTypes'
  BY <1>1, ReceivablesAssumption, SMTT(20) DEF TypeOK, Start, JobTypes, Acts
<1>3. /\ Others(h) /\ todo[h] = << >> /\ doc'[h] = d /\ act'[h] = a /\ todo'[h] = steps
      /\ held'[h] = [NoCopies EXCEPT ![d] = v]
  BY DEF TypeOK, Start, Others
<1>4. held'[h][d] = v /\ \A x \in Docs : x # d => held'[h][x] = NoRow
  BY <1>3, NoRowFacts
<1>5. clean' \in BOOLEAN
  BY DEF Start
<1>6. upsets' \in 0..MaxUpsets
  BY ReceivablesAssumption DEF TypeOK, Start
<1> QED BY <1>2, <1>3, <1>4, <1>5, <1>6

\* A handler whose effect ends.
LEMMA DoneFacts ==
  ASSUME TypeOK, NEW h \in Handlers, Done(h)
  PROVE  /\ JobTypes' /\ Others(h)
         /\ doc'[h] = Inv /\ todo'[h] = << >> /\ held'[h] = NoCopies
<1>1. JobTypes'
  BY NoRowFacts, Kinds DEF TypeOK, Done, JobTypes, Acts
<1> QED BY <1>1 DEF TypeOK, Done, Others

\* A handler in the middle of an effect.
LEMMA HeadFacts ==
  ASSUME TypeOK, NEW h \in Handlers, todo[h] # << >>
  PROVE  /\ todo[h] \in Seq(Step) /\ Len(todo[h]) \in Nat \ {0} /\ Head(todo[h]) = todo[h][1]
         /\ Subject(h) = todo[h][1][2] /\ Amount(h) = todo[h][1][3]
         /\ todo[h][1] \in Step /\ Subject(h) \in Docs /\ Amount(h) \in 0..Total
         /\ Tail(todo[h]) \in Seq(Step) /\ Len(Tail(todo[h])) = Len(todo[h]) - 1
         /\ \A i \in 1..Len(Tail(todo[h])) :
              i + 1 \in 1..Len(todo[h]) /\ Tail(todo[h])[i] = todo[h][i + 1]
<1>1. todo[h] \in Seq(Step)
  BY DEF TypeOK
<1>2. Len(todo[h]) \in Nat \ {0}
  BY <1>1, EmptySeq
<1>3. Head(todo[h]) = todo[h][1]
  BY <1>1, <1>2
<1>4. todo[h][1] \in Step
  BY <1>1, <1>2, ElementOfSeq
<1>5. /\ Tail(todo[h]) \in Seq(Step) /\ Len(Tail(todo[h])) = Len(todo[h]) - 1
      /\ \A i \in 1..Len(Tail(todo[h])) : Tail(todo[h])[i] = todo[h][i + 1]
  BY <1>1, HeadTailProperties
<1>6. \A i \in 1..Len(Tail(todo[h])) : i + 1 \in 1..Len(todo[h])
  BY <1>2, <1>5
<1>7. todo[h][1][2] \in Docs /\ todo[h][1][3] \in 0..Total
  BY <1>4, StepParts
<1> QED BY <1>1, <1>2, <1>3, <1>4, <1>5, <1>6, <1>7 DEF Subject, Amount

\* A handler that goes on to the next statement, or ends.
LEMMA AdvanceFacts ==
  ASSUME TypeOK, NEW h \in Handlers, todo[h] # << >>, Advance(h)
  PROVE  /\ JobTypes' /\ Others(h)
         /\ \/ doc'[h] = Inv /\ todo'[h] = << >> /\ held'[h] = NoCopies
            \/ /\ doc'[h] = doc[h] /\ act'[h] = act[h] /\ held'[h] = held[h]
               /\ todo'[h] = Tail(todo[h])
<1>1. CASE Len(todo[h]) = 1
  BY <1>1, DoneFacts DEF Advance
<1>2. CASE Len(todo[h]) # 1
  <2>1. Tail(todo[h]) \in Seq(Step)
    BY HeadFacts
  <2>2. todo' = [todo EXCEPT ![h] = Tail(todo[h])] /\ UNCHANGED <<doc, act, held, seen, effects>>
    BY <1>2 DEF Advance
  <2> QED BY <2>1, <2>2 DEF TypeOK, JobTypes, Others, Acts
<1> QED BY <1>1, <1>2

-----------------------------------------------------------------------------
(***************************************************************************)
(* Steps outside the effects.                                              *)
(***************************************************************************)

\* Approvals and sources are never taken back.
Grows ==
  /\ approved \subseteq approved' /\ submitted \subseteq submitted'
  /\ \A r \in Refunds : source'[r] = source[r] \/ source'[r] \in Notes \cap approved'

\* Rows stay sound when documents are approved or created ...
LEMMA SoundGrows ==
  ASSUME NEW d \in Docs, NEW v, Sound(d, v, source, approved), Grows
  PROVE  Sound(d, v, source', approved')
BY DEF Sound, Grows

\* ... so do the copies ...
LEMMA CopiesGrow ==
  ASSUME CopiesSound, Grows, UNCHANGED held
  PROVE  CopiesSound'
BY SoundGrows DEF CopiesSound

\* ... and the statements.
LEMMA ShapedGrows ==
  ASSUME NEW s, NEW d, Shaped(s, d, approved), Grows
  PROVE  Shaped(s, d, approved')
BY DEF Shaped, Grows

\* The row of one document is replaced by a sound one.
LEMMA RowsStep ==
  ASSUME TypeOK, RowsSound, Grows, NEW x \in Docs, NEW w, Sound(x, w, source', approved'),
         row' = [row EXCEPT ![x] = w]
  PROVE  RowsSound' /\ row' \in [Docs -> Row] /\ row'[x] = w
         /\ \A d \in Docs : d # x => row'[d] = row[d]
<1>1. row' \in [Docs -> Row] /\ row'[x] = w /\ \A d \in Docs : d # x => row'[d] = row[d]
  BY DEF TypeOK, Sound
<1>2. ASSUME NEW d \in Docs PROVE Sound(d, row'[d], source', approved')
  <2>1. CASE d = x
    BY <2>1, <1>1
  <2>2. CASE d # x
    BY <2>2, <1>1, SoundGrows DEF RowsSound
  <2> QED BY <2>1, <2>2
<1> QED BY <1>1, <1>2 DEF RowsSound

\* The row of a new document.
LEMMA DraftSound ==
  ASSUME NEW d \in Docs, NEW w \in Row, w.status = "draft", w.refunded = 0,
         w.applied + w.balance <= w.amount,
         NEW src, NEW A, d \in Refunds => src[d] \in Notes \cap A
  PROVE  Sound(d, w, src, A)
BY TotalIsNat DEF Sound, Bounded, Row

\* Where every document starts.
LEMMA DraftIsStatus == "draft" \in Statuses
BY DEF Statuses

\* A step that changes one row and starts or executes no effect.
LEMMA RowStep ==
  ASSUME IInv, NEW x \in Docs, NEW w, row' = [row EXCEPT ![x] = w],
         Sound(x, w, source', approved'), Grows,
         x \in Notes \cup Refunds /\ w.status = "submitted" => x \in submitted' \ approved',
         UNCHANGED <<approved, staged, links, posted, jobVars>>,
         submitted' \subseteq Docs, source' \in [Refunds -> Notes \cup {NoNote}],
         share' \in [Refunds -> Seq(Share)], payLinks' \in Seq(Payments),
         clean' \in BOOLEAN, upsets' \in 0..MaxUpsets
  PROVE  IInv'
<1> USE DEF IInv
<1>1. RowsSound' /\ row' \in [Docs -> Row] /\ row'[x] = w
      /\ \A d \in Docs : d # x => row'[d] = row[d]
  BY RowsStep
<1>2. TypeOK'
  BY <1>1 DEF TypeOK, jobVars
<1>3. CopiesSound'
  BY CopiesGrow DEF jobVars
<1>4. TodoShape' /\ SavedCopies'
  BY DEF TodoShape, SavedCopies, Shaped, jobVars
<1>5. SubmittedOnce'
  BY <1>1, Kinds DEF SubmittedOnce, Grows
<1>6. PostingPending' /\ PostedOnce'
  BY DEF PostingPending, PostedOnce, Issuing, jobVars
<1> QED BY <1>1, <1>2, <1>3, <1>4, <1>5, <1>6

\* Creating documents preserves IInv.
LEMMA CreateSteps ==
  ASSUME IInv
  PROVE  /\ \A p \in Payments : \A x \in Receipts[p] : CreatePayment(p, x[1], x[2]) => IInv'
         /\ \A p \in Generated : GeneratePayment(p) => IInv'
         /\ \A c \in Notes, n \in Credits : CreateNote(c, n) => IInv'
         /\ \A r \in Refunds, c \in Notes : GenerateRefund(r, c) => IInv'
<1> USE DEF IInv
<1>0. /\ submitted \subseteq Docs /\ source \in [Refunds -> Notes \cup {NoNote}]
      /\ share \in [Refunds -> Seq(Share)] /\ payLinks \in Seq(Payments)
      /\ clean \in BOOLEAN /\ upsets \in 0..MaxUpsets
      /\ Inv \in Docs /\ row[Inv] \in Row /\ row[Inv].applied <= row[Inv].amount
  BY Kinds DEF TypeOK, RowsSound, Sound, Bounded
<1>1. ASSUME NEW p \in Payments, NEW x \in Receipts[p], CreatePayment(p, x[1], x[2])
      PROVE  IInv'
  <2> DEFINE w == [NoRow EXCEPT !.status = "draft", !.amount = x[1], !.applied = x[2],
                                !.balance = x[1] - x[2]]
  <2>1. x[1] \in 1..Total /\ x[2] \in 0..Total /\ x[2] <= x[1]
    BY ReceivablesAssumption
  <2>2. Sound(p, w, source', approved') /\ w.status = "draft"
    <3>1. x[1] \in 0..Total /\ x[1] - x[2] \in 0..Total /\ x[2] + (x[1] - x[2]) <= x[1]
      BY <2>1, TotalIsNat
    <3> DEFINE n == x[1]
               k == x[2]
               b == x[1] - x[2]
    <3>2. n \in 0..Total /\ k \in 0..Total /\ b \in 0..Total /\ k + b <= n
      BY <2>1, <3>1
    <3>3. w = [NoRow EXCEPT !.status = "draft", !.amount = n, !.applied = k, !.balance = b]
      OBVIOUS
    <3> HIDE DEF n, k, b
    <3>4. w \in Row /\ w.status = "draft" /\ w.refunded = 0 /\ w.applied + w.balance <= w.amount
      BY <3>2, <3>3, DraftIsStatus, NoRowFacts, TotalIsNat DEF Row
    <3> HIDE DEF w
    <3> QED BY <3>4, DraftSound, Kinds
  <2>3. Grows
    BY <1>1 DEF Grows, CreatePayment, docVars
  <2> HIDE DEF w
  <2> QED BY <1>0, <1>1, <2>2, <2>3, Kinds, RowStep DEF CreatePayment, docVars, w
<1>2. ASSUME NEW p \in Generated, GeneratePayment(p)
      PROVE  IInv'
  <2> DEFINE n == IF row[Inv].balance > 0 THEN row[Inv].balance
                  ELSE row[Inv].amount - row[Inv].applied
             w == [NoRow EXCEPT !.status = "draft", !.amount = n, !.applied = n]
  <2>1. n \in 0..Total /\ p \in Payments
    BY <1>0, TotalIsNat, ReceivablesAssumption DEF Row
  <2>2. /\ row' = [row EXCEPT ![p] = w] /\ payLinks' = Append(payLinks, p)
        /\ UNCHANGED <<docVars, links, posted, jobVars, clean, upsets>>
    BY <1>2 DEF GeneratePayment
  <2> HIDE DEF n
  <2>3. Sound(p, w, source', approved') /\ w.status = "draft"
    <3>0. w \in Row
      BY <2>1, DraftIsStatus, NoRowFacts DEF Row
    <3>f. w.status = "draft" /\ w.amount = n /\ w.applied = n /\ w.balance = 0 /\ w.refunded = 0
      BY NoRowFacts DEF Row
    <3>1. w \in Row /\ w.status = "draft" /\ w.refunded = 0 /\ w.applied + w.balance <= w.amount
      BY <2>1, <3>0, <3>f, TotalIsNat
    <3> HIDE DEF w
    <3> QED BY <2>1, <3>1, DraftSound, Kinds
  <2>4. Grows
    BY <2>2 DEF Grows, docVars
  <2>5. payLinks' \in Seq(Payments)
    BY <2>1, <2>2, <1>0
  <2> HIDE DEF w
  <2> QED BY <1>0, <2>1, <2>2, <2>3, <2>4, <2>5, Kinds, RowStep DEF docVars
<1>3. ASSUME NEW c \in Notes, NEW n \in Credits, CreateNote(c, n)
      PROVE  IInv'
  <2> DEFINE w == [NoRow EXCEPT !.status = "draft", !.amount = n]
  <2>1. n \in 0..Total
    BY ReceivablesAssumption, TotalIsNat
  <2>2. Sound(c, w, source', approved') /\ w.status = "draft"
    <3>0. w \in Row
      BY <2>1, DraftIsStatus, NoRowFacts DEF Row
    <3>f. w.status = "draft" /\ w.amount = n /\ w.applied = 0 /\ w.balance = 0 /\ w.refunded = 0
      BY NoRowFacts DEF Row
    <3>1. w \in Row /\ w.status = "draft" /\ w.refunded = 0 /\ w.applied + w.balance <= w.amount
      BY <2>1, <3>0, <3>f, TotalIsNat
    <3> HIDE DEF w
    <3> QED BY <3>1, DraftSound, Kinds
  <2>3. Grows
    BY <1>3 DEF Grows, CreateNote, docVars
  <2> HIDE DEF w
  <2> QED BY <1>0, <1>3, <2>2, <2>3, Kinds, RowStep DEF CreateNote, docVars, w
<1>4. ASSUME NEW r \in Refunds, NEW c \in Notes, GenerateRefund(r, c)
      PROVE  IInv'
  <2> DEFINE paid == row[Inv].applied - row[Inv].refunded
             open == row[c].amount - row[c].refunded
             n    == IF open < paid THEN open ELSE paid
             w    == [NoRow EXCEPT !.status = "draft", !.amount = n]
  <2>1. row[c] \in Row /\ row[c].refunded \in Nat /\ row[c].amount \in 0..Total
        /\ row[Inv].refunded \in Nat /\ row[Inv].applied \in 0..Total
    BY <1>0, Kinds DEF RowsSound, Sound, Row
  <2>2. /\ row' = [row EXCEPT ![r] = w] /\ source' = [source EXCEPT ![r] = c]
        /\ share' = [share EXCEPT ![r] = BuildShares(n)] /\ share'[r] \in Seq(Share)
        /\ n > 0 /\ row[c].status = "issued"
        /\ UNCHANGED <<submitted, approved, staged, payLinks, links, posted, jobVars, clean,
                       upsets>>
    BY <1>4 DEF GenerateRefund
  <2>3. n \in 0..Total
    BY <2>1, <2>2, TotalIsNat, SMTT(20)
  <2>4. c \in approved
    BY <2>2, Kinds DEF RowsSound, Sound
  <2> HIDE DEF n
  <2>5. source'[r] = c /\ source' \in [Refunds -> Notes \cup {NoNote}]
        /\ share' \in [Refunds -> Seq(Share)]
    BY <2>2, <1>0
  <2>6. Grows
    BY <2>2, <2>4, <2>5, <1>0 DEF Grows
  <2>7. Sound(r, w, source', approved') /\ w.status = "draft"
    <3>0. w \in Row
      BY <2>3, DraftIsStatus, NoRowFacts DEF Row
    <3>f. w.status = "draft" /\ w.amount = n /\ w.applied = 0 /\ w.balance = 0 /\ w.refunded = 0
      BY NoRowFacts DEF Row
    <3>1. w \in Row /\ w.status = "draft" /\ w.refunded = 0 /\ w.applied + w.balance <= w.amount
      BY <2>3, <3>0, <3>f, TotalIsNat
    <3> HIDE DEF w
    <3> QED BY <3>1, DraftSound, Kinds, <2>2, <2>4, <2>5
  <2> HIDE DEF w
  <2> QED BY <1>0, <2>2, <2>5, <2>6, <2>7, Kinds, RowStep
<1> QED BY <1>1, <1>2, <1>3, <1>4

\* The workflow status of one document changes; it was in a status, and stays
\* "cancelled" if it was.
LEMMA StatusSound ==
  ASSUME RowsSound, Grows, NEW d \in Docs, NEW s \in Statuses,
         row[d].status # "none", row[d].status # "cancelled",
         d \in Notes /\ s = "issued" => d \in approved'
  PROVE  LET w == [row[d] EXCEPT !.status = s]
         IN Sound(d, w, source', approved') /\ w.status = s
<1> DEFINE w == [row[d] EXCEPT !.status = s]
<1>1. Sound(d, row[d], source', approved') /\ row[d] \in Row /\ Bounded(d, row[d])
  BY SoundGrows DEF RowsSound, Sound
<1>2. w \in Row /\ Bounded(d, w) /\ w.status = s
  BY <1>1, StatusRow
<1> HIDE DEF w
<1>3. Sound(d, w, source', approved')
  BY <1>1, <1>2 DEF Sound
<1> QED BY <1>2, <1>3 DEF w

\* A new status, other than an approval.
LEMMA WorkflowStep ==
  ASSUME IInv, NEW d \in Docs, NEW s \in Statuses \ {"issued", "none"}, SetStatus(d, s),
         row[d].status # "none", row[d].status # "cancelled",
         d \in Notes \cup Refunds /\ s = "submitted" => d \in submitted' \ approved,
         submitted \subseteq submitted', submitted' \subseteq Docs, upsets' \in 0..MaxUpsets,
         UNCHANGED <<approved, staged, source, share, payLinks, links, posted, jobVars, clean>>
  PROVE  IInv'
<1> DEFINE w == [row[d] EXCEPT !.status = s]
<1>1. Grows
  BY DEF Grows
<1>2. Sound(d, w, source', approved') /\ w.status = s
  BY <1>1, StatusSound DEF IInv
<1>3. row' = [row EXCEPT ![d] = w]
  BY DEF SetStatus
<1>4. /\ source' \in [Refunds -> Notes \cup {NoNote}] /\ share' \in [Refunds -> Seq(Share)]
      /\ payLinks' \in Seq(Payments) /\ clean' \in BOOLEAN
  BY DEF IInv, TypeOK
<1> HIDE DEF w
<1> QED BY <1>1, <1>2, <1>3, <1>4, RowStep

\* Submitting, rejecting, reopening and cancelling a note preserve IInv.
LEMMA WorkflowSteps ==
  ASSUME IInv
  PROVE  /\ \A d \in Docs : Submit(d) \/ Reject(d) \/ Reopen(d) => IInv'
         /\ \A c \in Notes : CancelNote(c) => IInv'
<1>0. /\ submitted \subseteq Docs /\ upsets \in 0..MaxUpsets /\ MaxUpsets \in Nat
      /\ {"submitted", "rejected", "draft", "cancelled"} \subseteq Statuses \ {"issued", "none"}
  BY ReceivablesAssumption DEF IInv, TypeOK, Statuses
<1>1. ASSUME NEW d \in Docs, Submit(d) PROVE IInv'
  <2>1. d \in Notes \cup Refunds => d \notin approved
    BY <1>1 DEF Submit, IInv, SubmittedOnce
  <2> QED BY <1>0, <1>1, <2>1, WorkflowStep DEF Submit
<1>2. ASSUME NEW d \in Docs, NEW s \in {"rejected", "draft"}, Detour(d, s),
             row[d].status \in {"submitted", "rejected", "issued", "received", "refunded"}
      PROVE  IInv'
  <2>1. upsets' \in 0..MaxUpsets
    BY <1>0, <1>2 DEF Detour
  <2> QED BY <1>0, <1>2, <2>1, WorkflowStep DEF Detour, docVars
<1>3. ASSUME NEW d \in Docs, Reject(d) \/ Reopen(d) PROVE IInv'
  BY <1>2, <1>3 DEF Reject, Reopen, ApprovedState
<1>4. ASSUME NEW c \in Notes, CancelNote(c) PROVE IInv'
  BY <1>0, <1>4, Kinds, WorkflowStep DEF CancelNote, docVars
<1> QED BY <1>1, <1>3, <1>4

-----------------------------------------------------------------------------
(***************************************************************************)
(* Actions that start an effect.                                           *)
(***************************************************************************)
LEMMA StartStep ==
  ASSUME IInv, NEW h \in Handlers, NEW d \in Docs, NEW a \in Acts, NEW v,
         NEW steps \in Seq(Step), NEW due \in BOOLEAN, Start(h, d, a, v, steps, due),
         Sound(d, v, source', approved'), Shaped(steps, d, approved'), Grows,
         RowsSound', row' \in [Docs -> Row], SubmittedOnce',
         d \in Notes \cup Refunds /\ v.status = "submitted" => d \notin approved',
         d \in Notes \cup Refunds /\ a # "cancel" => d \notin approved /\ d \in approved' \cup staged',
         approved' \subseteq Docs, staged' \subseteq Docs, staged \subseteq staged',
         UNCHANGED <<submitted, source, share, payLinks, links, posted>>
  PROVE  IInv'
<1> USE DEF IInv
<1>1. v \in Row
  BY DEF Sound
<1>2. /\ JobTypes' /\ Others(h) /\ todo[h] = << >>
      /\ doc'[h] = d /\ act'[h] = a /\ todo'[h] = steps
      /\ held'[h][d] = v /\ \A x \in Docs : x # d => held'[h][x] = NoRow
      /\ clean' \in BOOLEAN /\ upsets' \in 0..MaxUpsets
  BY <1>1, StartFacts
<1>3. TypeOK'
  BY <1>2 DEF TypeOK, JobTypes, Acts
<1>4. ASSUME NEW g \in Handlers, NEW x \in Docs
      PROVE  Sound(x, held'[g][x], source', approved')
  <2>1. CASE g # h
    BY <1>2, <2>1, SoundGrows DEF CopiesSound, Others
  <2>2. CASE g = h /\ x = d
    BY <1>2, <2>2
  <2>3. CASE g = h /\ x # d
    BY <1>2, <2>3, NoRowFacts DEF Sound
  <2> QED BY <2>1, <2>2, <2>3
<1>5. CopiesSound'
  BY <1>4 DEF CopiesSound
<1>6. TodoShape'
  <2>1. ASSUME NEW g \in Handlers PROVE Shaped(todo'[g], doc'[g], approved')
    <3>1. CASE g # h
      BY <1>2, <3>1, ShapedGrows DEF TodoShape, Others
    <3>2. CASE g = h
      BY <1>2, <3>2
    <3> QED BY <3>1, <3>2
  <2> QED BY <2>1 DEF TodoShape
<1>7. SavedCopies'
  <2>1. ASSUME NEW g \in Handlers, NEW i \in 1..Len(todo'[g]),
               todo'[g][i][1] = "save", todo'[g][i][2] \in Notes \cup Refunds
        PROVE  held'[g][todo'[g][i][2]].status # "submitted"
    <3>1. CASE g # h
      BY <1>2, <2>1, <3>1 DEF SavedCopies, Others
    <3>2. CASE g = h
      <4> DEFINE x == todo'[g][i][2]
      <4>1. x \in Notes \cap approved' /\ x \in Docs
        BY <1>2, <2>1, <3>2, Kinds DEF Shaped
      <4>2. CASE x = d
        BY <1>2, <3>2, <4>1, <4>2
      <4>3. CASE x # d
        BY <1>2, <3>2, <4>1, <4>3, NoRowFacts
      <4> QED BY <4>2, <4>3
    <3> QED BY <3>1, <3>2
  <2> QED BY <2>1 DEF SavedCopies
<1>8. ASSUME NEW e \in (Notes \cup Refunds) \ staged'
      PROVE  /\ e \notin approved' => posted'[e]["issue"] = 0 /\ \A g \in Handlers : ~Issuing(g, e)'
             /\ \A f, g \in Handlers : Issuing(f, e)' /\ Issuing(g, e)' => f = g
             /\ \A g \in Handlers : \A i \in 1..Len(todo'[g]) :
                  Issuing(g, e)' /\ todo'[g][i][1] = "post" => posted'[e]["issue"] = 0
  <2>1. e \in (Notes \cup Refunds) \ staged /\ (e \notin approved' => e \notin approved)
    BY DEF Grows
  <2>2. \A g \in Handlers : g # h => (Issuing(g, e)' <=> Issuing(g, e)) /\ todo'[g] = todo[g]
    BY <1>2 DEF Issuing, Others
  <2>3. Issuing(h, e)' => e = d /\ e \notin approved /\ e \in approved'
    BY <1>2 DEF Issuing
  <2>4. e \notin approved => posted[e]["issue"] = 0 /\ \A g \in Handlers : ~Issuing(g, e)
    BY <2>1 DEF PostingPending
  <2>5. /\ \A f, g \in Handlers : Issuing(f, e) /\ Issuing(g, e) => f = g
        /\ \A g \in Handlers : \A i \in 1..Len(todo[g]) :
             Issuing(g, e) /\ todo[g][i][1] = "post" => posted[e]["issue"] = 0
    BY <2>1 DEF PostingPending
  <2>6. posted' = posted
    OBVIOUS
  <2>7. CASE Issuing(h, e)'
    BY <2>2, <2>3, <2>4, <2>6, <2>7
  <2>8. CASE ~Issuing(h, e)'
    BY <2>1, <2>2, <2>4, <2>5, <2>6, <2>8
  <2> QED BY <2>7, <2>8
<1>9. PostingPending'
  BY <1>8 DEF PostingPending
<1>10. PostedOnce'
  BY DEF PostedOnce
<1> QED BY <1>3, <1>5, <1>6, <1>7, <1>9, <1>10

\* The copy of the document that its own effect saves is sound.
LEMMA OwnSound ==
  ASSUME NEW d \in Docs, NEW v, NEW a, NEW src, NEW A, Sound(d, v, src, A),
         a = "cancel" => v.status = "cancelled"
  PROVE  Sound(d, OwnCopy(d, a, v), src, A) /\ OwnCopy(d, a, v).status = v.status
<1>1. /\ OwnCopy(d, a, v) \in Row /\ Bounded(d, OwnCopy(d, a, v))
      /\ OwnCopy(d, a, v).status = v.status
  BY OwnCopyFacts DEF Sound
<1> QED BY <1>1 DEF Sound

\* What the rows and the sources say of a document in a status.
LEMMA ExistingRow ==
  ASSUME IInv, NEW d \in Docs, row[d].status # "none"
  PROVE  /\ Sound(d, row[d], source, approved) /\ row[d] \in Row
         /\ d \in Refunds => source[d] \in Notes \cap approved
         /\ share \in [Refunds -> Seq(Share)] /\ approved \subseteq Docs /\ staged \subseteq Docs
         /\ row \in [Docs -> Row]
BY DEF IInv, RowsSound, Sound, TypeOK

\* The last approval preserves IInv ...
LEMMA ApproveStep ==
  ASSUME IInv, NEW h \in Handlers, NEW d \in Docs, Approve(h, d)
  PROVE  IInv'
<1> DEFINE s == ApprovedState(d)
           v == [row[d] EXCEPT !.status = s]
           c == OwnCopy(d, "approve", v)
           e == Effect(d, "approve", v)
<1>1. /\ row[d].status = "submitted"
      /\ row' = [row EXCEPT ![d] = v] /\ approved' = approved \cup {d}
      /\ Start(h, d, "approve", c, e, TRUE)
      /\ UNCHANGED <<submitted, staged, source, share, payLinks, links, posted>>
  BY DEF Approve
<1>2. s \in Statuses /\ s # "submitted" /\ (d \in Notes => s = "issued")
  BY Kinds DEF ApprovedState, Statuses
<1>3. /\ d \in Refunds => source[d] \in Notes \cap approved
      /\ share \in [Refunds -> Seq(Share)] /\ approved \subseteq Docs /\ staged \subseteq Docs
  BY <1>1, ExistingRow
<1>4. Grows
  BY <1>1 DEF Grows
<1>5. Sound(d, v, source', approved') /\ v.status = s
  BY <1>1, <1>2, <1>4, StatusSound DEF IInv
<1> HIDE DEF s, v
<1>6. RowsSound' /\ row' \in [Docs -> Row] /\ row'[d] = v
      /\ \A x \in Docs : x # d => row'[x] = row[x]
  BY <1>1, <1>4, <1>5, RowsStep DEF IInv
<1>7. Sound(d, c, source', approved') /\ c.status = s
  BY <1>5, OwnSound
<1>8. e \in Seq(Step) /\ Shaped(e, d, approved)
  BY <1>3, <1>5, EffectShape DEF Sound
<1>9. Shaped(e, d, approved')
  BY <1>4, <1>8, ShapedGrows
<1>10. SubmittedOnce'
  BY <1>1, <1>2, <1>5, <1>6, Kinds DEF IInv, SubmittedOnce
<1>11. d \in Notes \cup Refunds => d \notin approved /\ d \in approved'
  BY <1>1 DEF IInv, SubmittedOnce
<1>12. "approve" \in Acts /\ approved' \subseteq Docs
  BY <1>1, <1>3 DEF Acts
<1> HIDE DEF c, e
<1> QED BY <1>1, <1>2, <1>3, <1>4, <1>6, <1>7, <1>8, <1>9, <1>10, <1>11, <1>12, StartStep

\* ... so do an earlier one ...
LEMMA ApproveStageStep ==
  ASSUME IInv, NEW h \in Handlers, NEW d \in Docs, ApproveStage(h, d)
  PROVE  IInv'
<1> DEFINE v == row[d]
           c == OwnCopy(d, "approve", v)
           e == Effect(d, "approve", v)
<1>1. /\ row[d].status = "submitted" /\ staged' = staged \cup {d}
      /\ Start(h, d, "stage", c, e, FALSE)
      /\ UNCHANGED <<row, submitted, approved, source, share, payLinks, links, posted>>
  BY DEF ApproveStage
<1>2. /\ Sound(d, v, source, approved) /\ v \in Row
      /\ d \in Refunds => source[d] \in Notes \cap approved
      /\ share \in [Refunds -> Seq(Share)] /\ approved \subseteq Docs /\ staged \subseteq Docs
      /\ row \in [Docs -> Row]
  BY <1>1, ExistingRow
<1>3. Grows
  BY <1>1 DEF Grows
<1>4. Sound(d, c, source', approved')
  BY <1>1, <1>2, OwnSound
<1>5. e \in Seq(Step) /\ Shaped(e, d, approved')
  BY <1>1, <1>2, EffectShape
<1>6. RowsSound' /\ SubmittedOnce'
  BY <1>1 DEF IInv, RowsSound, SubmittedOnce
<1>7. d \in Notes \cup Refunds => d \notin approved
  BY <1>1 DEF IInv, SubmittedOnce
<1>8. "stage" \in Acts /\ staged' \subseteq Docs
  BY <1>1, <1>2 DEF Acts
<1> HIDE DEF c, e
<1> QED BY <1>1, <1>2, <1>3, <1>4, <1>5, <1>6, <1>7, <1>8, StartStep

\* ... a cancellation ...
LEMMA CancelStepInv ==
  ASSUME IInv, NEW h \in Handlers, NEW d \in Docs, Cancel(h, d)
  PROVE  IInv'
<1> DEFINE v == [row[d] EXCEPT !.status = "cancelled"]
           c == OwnCopy(d, "cancel", v)
           e == Effect(d, "cancel", v)
           due == d \in approved
<1>1. /\ d \notin Notes /\ CancelAllowed(d) /\ row' = [row EXCEPT ![d] = v]
      /\ Start(h, d, "cancel", c, e, due)
      /\ UNCHANGED <<submitted, approved, staged, source, share, payLinks, links, posted>>
  BY DEF Cancel, docVars
<1>2. row[d].status # "none" /\ row[d].status # "cancelled" /\ "cancelled" \in Statuses
  BY <1>1 DEF CancelAllowed, ApprovedState, Statuses
<1>3. /\ d \in Refunds => source[d] \in Notes \cap approved
      /\ share \in [Refunds -> Seq(Share)] /\ approved \subseteq Docs /\ staged \subseteq Docs
  BY <1>2, ExistingRow
<1>4. Grows
  BY <1>1 DEF Grows
<1>5. Sound(d, v, source', approved') /\ v.status = "cancelled"
  BY <1>2, <1>4, StatusSound DEF IInv
<1> HIDE DEF v
<1>6. RowsSound' /\ row' \in [Docs -> Row] /\ row'[d] = v
      /\ \A x \in Docs : x # d => row'[x] = row[x]
  BY <1>1, <1>4, <1>5, RowsStep DEF IInv
<1>7. Sound(d, c, source', approved') /\ c.status = "cancelled"
  BY <1>5, OwnSound
<1>8. e \in Seq(Step) /\ Shaped(e, d, approved')
  BY <1>1, <1>3, <1>5, EffectShape DEF Sound
<1>9. SubmittedOnce'
  BY <1>1, <1>5, <1>6, Kinds DEF IInv, SubmittedOnce
<1>10. "cancel" \in Acts /\ due \in BOOLEAN
  BY DEF Acts
<1> HIDE DEF c, e, due
<1> QED BY <1>1, <1>3, <1>4, <1>6, <1>7, <1>8, <1>9, <1>10, StartStep

\* ... and an allocation.
LEMMA AllocateStep ==
  ASSUME IInv, NEW h \in Handlers, NEW p \in Payments, NEW n \in 1..Total, AllocatePayment(h, p, n)
  PROVE  IInv'
<1> DEFINE v == row[p]
           c == [v EXCEPT !.applied = @ + n, !.balance = @ - n]
           b == << <<"read", Inv, n>>, <<"save", p, 0>> >>
           e == b \o OnInvoice(n)
           due == v.status = "received"
<1>1. /\ v.status \notin {"none", "draft", "cancelled"} /\ n <= v.balance
      /\ Start(h, p, "allocate", c, e, due)
      /\ UNCHANGED <<row, submitted, approved, staged, source, share, payLinks, links, posted>>
  BY DEF AllocatePayment, docVars
<1>2. /\ p \in Docs /\ Sound(p, v, source, approved) /\ v \in Row
      /\ approved \subseteq Docs /\ staged \subseteq Docs /\ row \in [Docs -> Row]
  BY <1>1, Kinds, ExistingRow
<1>3. Grows
  BY <1>1 DEF Grows
<1>4. Sound(p, c, source', approved')
  <2>1. /\ v.amount \in 0..Total /\ v.applied \in 0..Total /\ v.balance \in 0..Total
        /\ v.refunded \in Nat /\ v.applied + v.balance <= v.amount /\ v.refunded <= v.amount
    BY <1>1, <1>2 DEF Sound, Bounded, Row
  <2> DEFINE k == v.applied + n
             l == v.balance - n
  <2>2. k \in 0..Total /\ l \in 0..Total /\ k + l <= v.amount /\ k <= v.amount
    BY <1>1, <2>1, TotalIsNat
  <2>3. c = [v EXCEPT !.applied = k, !.balance = l]
    OBVIOUS
  <2> HIDE DEF k, l
  <2>4. c \in Row /\ c.applied = k /\ c.balance = l /\ c.amount = v.amount /\ c.refunded = v.refunded
    BY <1>2, <2>2, <2>3 DEF Row
  <2> HIDE DEF c
  <2> QED BY <2>1, <2>2, <2>4, Kinds DEF Sound, Bounded
<1>5. e \in Seq(Step) /\ Shaped(e, p, approved')
  <2>1. n \in 0..Total /\ 0 \in 0..Total
    BY TotalIsNat
  <2>2. <<"read", Inv, n>> \in Plain(p) /\ <<"save", p, 0>> \in Plain(p)
    BY <2>1, PlainSteps, Kinds
  <2>3. b \in Seq(Plain(p))
    BY <2>2
  <2>4. e \in Seq(Plain(p))
    BY <1>2, <2>1, <2>3, OnInvoicePlain, ConcatProperties
  <2> QED BY <1>1, <1>2, <2>4, PlainShape
<1>6. RowsSound' /\ SubmittedOnce'
  BY <1>1 DEF IInv, RowsSound, SubmittedOnce
<1>7. "allocate" \in Acts /\ due \in BOOLEAN
  BY DEF Acts
<1> HIDE DEF c, e, due, b
<1> QED BY <1>1, <1>2, <1>3, <1>4, <1>5, <1>6, <1>7, Kinds, StartStep

-----------------------------------------------------------------------------
(***************************************************************************)
(* Executing an effect.                                                    *)
(***************************************************************************)

\* The statements of a handler that goes on, or ends, are some of those it had.
LEMMA Remaining ==
  ASSUME IInv, NEW h \in Handlers, todo[h] # << >>, Others(h), JobTypes',
         UNCHANGED <<approved, staged>>,
         \/ doc'[h] = Inv /\ todo'[h] = << >> /\ held'[h] = NoCopies
         \/ /\ doc'[h] = doc[h] /\ act'[h] = act[h] /\ todo'[h] = Tail(todo[h])
            /\ \A x \in Notes \cap approved : held'[h][x].status # "submitted" \/ held'[h][x] = held[h][x]
  PROVE  /\ TodoShape' /\ SavedCopies'
         /\ \A d \in Notes \cup Refunds : \A g \in Handlers : Issuing(g, d)' => Issuing(g, d)
         /\ posted' = posted => PostingPending'
<1> USE DEF IInv
<1>1. \A i \in 1..Len(todo'[h]) :
        /\ i + 1 \in 1..Len(todo[h]) /\ todo'[h][i] = todo[h][i + 1]
        /\ Len(todo'[h]) = Len(todo[h]) - 1
        /\ doc'[h] = doc[h] /\ act'[h] = act[h]
        /\ \A x \in Notes \cap approved : held'[h][x].status # "submitted" \/ held'[h][x] = held[h][x]
  <2>1. CASE todo'[h] = << >>
    BY <2>1
  <2>2. CASE todo'[h] # << >>
    BY <2>2, HeadFacts
  <2> QED BY <2>1, <2>2
<1>2. TodoShape'
  <2>1. ASSUME NEW g \in Handlers PROVE Shaped(todo'[g], doc'[g], approved')
    <3>1. CASE g # h
      BY <3>1 DEF TodoShape, Others, Shaped
    <3>2. CASE g = h
      <4>1. Len(todo[h]) \in Nat /\ Shaped(todo[h], doc[h], approved)
        BY HeadFacts DEF TodoShape
      <4>2. ASSUME NEW i \in 1..Len(todo'[h])
            PROVE  /\ todo'[h][i][1] = "read" /\ doc'[h] \notin Refunds => todo'[h][i][2] = Inv
                   /\ todo'[h][i][1] = "save" /\ todo'[h][i][2] \in Notes \cup Refunds =>
                        todo'[h][i][2] \in Notes \cap approved'
                   /\ todo'[h][i][1] = "post" => todo'[h][i][2] = doc'[h] /\ i = Len(todo'[h]) - 1
        <5>1. /\ i + 1 \in 1..Len(todo[h]) /\ todo'[h][i] = todo[h][i + 1]
              /\ Len(todo'[h]) = Len(todo[h]) - 1 /\ doc'[h] = doc[h]
          BY <1>1
        <5>2. /\ todo[h][i + 1][1] = "read" /\ doc[h] \notin Refunds => todo[h][i + 1][2] = Inv
              /\ todo[h][i + 1][1] = "save" /\ todo[h][i + 1][2] \in Notes \cup Refunds =>
                   todo[h][i + 1][2] \in Notes \cap approved
              /\ todo[h][i + 1][1] = "post" => todo[h][i + 1][2] = doc[h] /\ i + 1 = Len(todo[h]) - 1
          BY <4>1, <5>1 DEF Shaped
        <5>3. i + 1 = Len(todo[h]) - 1 => i = Len(todo'[h]) - 1
          BY <4>1, <5>1
        <5> QED BY <5>1, <5>2, <5>3
      <4> QED BY <3>2, <4>2 DEF Shaped
    <3> QED BY <3>1, <3>2
  <2> QED BY <2>1 DEF TodoShape
<1>3. SavedCopies'
  <2>1. ASSUME NEW g \in Handlers, NEW i \in 1..Len(todo'[g]),
               todo'[g][i][1] = "save", todo'[g][i][2] \in Notes \cup Refunds
        PROVE  held'[g][todo'[g][i][2]].status # "submitted"
    <3>1. CASE g # h
      BY <2>1, <3>1 DEF SavedCopies, Others
    <3>2. CASE g = h
      <4> DEFINE x == todo[h][i + 1][2]
      <4>1. i + 1 \in 1..Len(todo[h]) /\ todo'[g][i] = todo[h][i + 1]
        BY <1>1, <2>1, <3>2
      <4>2. x \in Notes \cap approved /\ held[h][x].status # "submitted"
        BY <2>1, <3>2, <4>1 DEF TodoShape, Shaped, SavedCopies
      <4> QED BY <1>1, <2>1, <3>2, <4>1, <4>2
    <3> QED BY <3>1, <3>2
  <2> QED BY <2>1 DEF SavedCopies
<1>4. \A d \in Notes \cup Refunds : \A g \in Handlers : Issuing(g, d)' => Issuing(g, d)
  <2>1. ASSUME NEW d \in Notes \cup Refunds, NEW g \in Handlers, Issuing(g, d)'
        PROVE  Issuing(g, d)
    BY <2>1, Kinds DEF Issuing, Others
  <2> QED BY <2>1
<1>5. ASSUME posted' = posted PROVE PostingPending'
  <2>2. \A g \in Handlers : \A i \in 1..Len(todo'[g]) :
          \E j \in 1..Len(todo[g]) : todo'[g][i] = todo[g][j]
    BY <1>1 DEF Others
  <2>3. ASSUME NEW d \in (Notes \cup Refunds) \ staged
        PROVE  /\ d \notin approved => posted[d]["issue"] = 0 /\ \A g \in Handlers : ~Issuing(g, d)'
               /\ \A f, g \in Handlers : Issuing(f, d)' /\ Issuing(g, d)' => f = g
               /\ \A g \in Handlers : \A i \in 1..Len(todo'[g]) :
                    Issuing(g, d)' /\ todo'[g][i][1] = "post" => posted[d]["issue"] = 0
    <3>1. /\ d \notin approved => posted[d]["issue"] = 0 /\ \A g \in Handlers : ~Issuing(g, d)
          /\ \A f, g \in Handlers : Issuing(f, d) /\ Issuing(g, d) => f = g
          /\ \A g \in Handlers : \A i \in 1..Len(todo[g]) :
               Issuing(g, d) /\ todo[g][i][1] = "post" => posted[d]["issue"] = 0
      BY DEF PostingPending
    <3> HIDE DEF Issuing
    <3> QED BY <1>4, <2>2, <3>1
  <2> QED BY <1>5, <2>3 DEF PostingPending
<1> QED BY <1>2, <1>3, <1>4, <1>5

\* The effect ends.
LEMMA EndStep ==
  ASSUME IInv, NEW h \in Handlers, todo[h] # << >>, Done(h),
         links' \in [Docs -> SUBSET Reasons], clean' \in BOOLEAN, upsets' \in 0..MaxUpsets,
         UNCHANGED <<row, submitted, approved, staged, source, share, payLinks, posted>>
  PROVE  IInv'
<1> USE DEF IInv
<1>1. /\ JobTypes' /\ Others(h)
      /\ doc'[h] = Inv /\ todo'[h] = << >> /\ held'[h] = NoCopies
  BY DoneFacts
<1>2. TypeOK'
  BY <1>1 DEF TypeOK, JobTypes, Acts
<1>3. RowsSound' /\ SubmittedOnce' /\ PostedOnce'
  BY DEF RowsSound, SubmittedOnce, PostedOnce
<1>4. ASSUME NEW g \in Handlers, NEW x \in Docs
      PROVE  Sound(x, held'[g][x], source', approved')
  <2>1. CASE g # h
    BY <1>1, <2>1 DEF CopiesSound, Others
  <2>2. CASE g = h
    BY <1>1, <2>2, NoRowFacts DEF Sound
  <2> QED BY <2>1, <2>2
<1>5. CopiesSound'
  BY <1>4 DEF CopiesSound
<1>6. TodoShape' /\ SavedCopies' /\ PostingPending'
  BY <1>1, Remaining
<1> QED BY <1>2, <1>3, <1>5, <1>6

\* An effect that ends with an error preserves IInv.
LEMMA RefusedSteps ==
  ASSUME IInv, NEW h \in Handlers, ReadRefused(h) \/ SaveRefused(h) \/ Fail(h)
  PROVE  IInv'
<1>1. links \in [Docs -> SUBSET Reasons] /\ upsets \in 0..MaxUpsets /\ MaxUpsets \in Nat
  BY ReceivablesAssumption DEF IInv, TypeOK
<1>2. upsets' \in 0..MaxUpsets
  BY <1>1 DEF ReadRefused, SaveRefused, Fail
<1> QED BY <1>1, <1>2, EndStep DEF ReadRefused, SaveRefused, Fail, Runs, docVars

\* So does one that ends with the link of its posting.
LEMMA LinkStep ==
  ASSUME IInv, NEW h \in Handlers, Link(h)
  PROVE  IInv'
<1>1. todo[h] # << >> /\ Reason(h) \in Reasons
  BY DEF Link, Runs, Reason, Reasons
<1>2. Subject(h) \in Docs
  BY <1>1, HeadFacts DEF IInv
<1>3. links' \in [Docs -> SUBSET Reasons] /\ clean' \in BOOLEAN /\ upsets' \in 0..MaxUpsets
  BY <1>1, <1>2 DEF Link, IInv, TypeOK
<1> QED BY <1>1, <1>3, EndStep DEF Link, docVars

\* A record is saved.
LEMMA SaveStep ==
  ASSUME IInv, NEW h \in Handlers, Save(h)
  PROVE  IInv'
<1> DEFINE x == Subject(h)
<1>1. /\ todo[h] # << >> /\ Head(todo[h])[1] = "save"
      /\ row' = [row EXCEPT ![x] = held[h][x]] /\ Advance(h)
      /\ UNCHANGED <<submitted, approved, staged, source, share, links, posted, clean, upsets>>
  BY DEF Save, Runs, docVars
<1>2. /\ Head(todo[h]) = todo[h][1] /\ x = todo[h][1][2] /\ x \in Docs /\ 1 \in 1..Len(todo[h])
  BY <1>1, HeadFacts DEF IInv
<1> HIDE DEF x
<1>3. /\ JobTypes' /\ Others(h)
      /\ \/ doc'[h] = Inv /\ todo'[h] = << >> /\ held'[h] = NoCopies
         \/ /\ doc'[h] = doc[h] /\ act'[h] = act[h] /\ held'[h] = held[h]
            /\ todo'[h] = Tail(todo[h])
  BY <1>1, AdvanceFacts DEF IInv
<1>4. Grows
  BY <1>1 DEF Grows
<1>5. RowsSound' /\ row' \in [Docs -> Row] /\ row'[x] = held[h][x]
      /\ \A d \in Docs : d # x => row'[d] = row[d]
  <2>1. Sound(x, held[h][x], source', approved')
    BY <1>1, <1>2 DEF IInv, CopiesSound
  <2> QED BY <1>1, <1>2, <1>4, <2>1, RowsStep DEF IInv
<1>6. payLinks' \in Seq(Payments)
  <2>1. payLinks \in Seq(Payments)
    BY DEF IInv, TypeOK
  <2>2. payLinks' = payLinks \/ (doc[h] \in Payments /\ payLinks' = Append(payLinks, doc[h]))
    BY DEF Save
  <2> QED BY <2>1, <2>2
<1>7. TypeOK'
  BY <1>1, <1>3, <1>5, <1>6 DEF IInv, TypeOK, JobTypes, Acts
<1>8. CopiesSound'
  <2>1. ASSUME NEW g \in Handlers, NEW y \in Docs
        PROVE  Sound(y, held'[g][y], source', approved')
    <3>1. CASE held'[g] = held[g]
      BY <1>4, <3>1, SoundGrows DEF IInv, CopiesSound
    <3>2. CASE held'[g] = NoCopies
      BY <3>2, NoRowFacts DEF Sound
    <3> QED BY <1>3, <3>1, <3>2 DEF Others
  <2> QED BY <2>1 DEF CopiesSound
<1>9. SubmittedOnce'
  <2>1. x \in Notes \cup Refunds => row'[x].status # "submitted"
    BY <1>1, <1>2, <1>5 DEF IInv, SavedCopies
  <2> QED BY <1>1, <1>5, <2>1, Kinds DEF IInv, SubmittedOnce
<1>10. TodoShape' /\ SavedCopies' /\ PostingPending'
  BY <1>1, <1>3, Remaining
<1>11. PostedOnce'
  BY <1>1 DEF IInv, PostedOnce
<1> QED BY <1>5, <1>7, <1>8, <1>9, <1>10, <1>11 DEF IInv

\* A posting is made.
LEMMA PostStep ==
  ASSUME IInv, NEW h \in Handlers, Post(h)
  PROVE  IInv'
<1>0. /\ todo[h] # << >> /\ Head(todo[h])[1] = "post"
      /\ UNCHANGED <<row, submitted, approved, staged, source, share, payLinks, links, clean, upsets>>
  BY DEF Post, Runs, docVars
<1>1. CASE ~PostingDue(h)
  <2>1. Done(h) /\ UNCHANGED posted
    BY <1>1 DEF Post
  <2>2. links' \in [Docs -> SUBSET Reasons] /\ clean' \in BOOLEAN /\ upsets' \in 0..MaxUpsets
    BY <1>0 DEF IInv, TypeOK
  <2> QED BY <1>0, <2>1, <2>2, EndStep
<1>2. CASE PostingDue(h)
  <2> DEFINE x == Subject(h)
  <2>1. posted' = [posted EXCEPT ![x][Reason(h)] = @ + 1] /\ Advance(h)
    BY <1>2 DEF Post
  <2>2. /\ Head(todo[h]) = todo[h][1] /\ x = todo[h][1][2] /\ x \in Docs /\ 1 \in 1..Len(todo[h])
        /\ Len(todo[h]) \in Nat
    BY <1>0, HeadFacts DEF IInv
  <2>3. x = doc[h] /\ Len(todo[h]) = 2 /\ todo[h][2][1] # "post"
    <3>1. Shaped(todo[h], doc[h], approved)
      BY DEF IInv, TodoShape
    <3>2. x = doc[h] /\ 1 = Len(todo[h]) - 1
      BY <1>0, <2>2, <3>1 DEF Shaped
    <3>3. Len(todo[h]) = 2 /\ 2 \in 1..Len(todo[h])
      BY <2>2, <3>2
    <3> QED BY <3>1, <3>2, <3>3 DEF Shaped
  <2> HIDE DEF x
  <2>4. /\ JobTypes' /\ Others(h)
        /\ \/ doc'[h] = Inv /\ todo'[h] = << >> /\ held'[h] = NoCopies
           \/ /\ doc'[h] = doc[h] /\ act'[h] = act[h] /\ held'[h] = held[h]
              /\ todo'[h] = Tail(todo[h])
    BY <1>0, <2>1, AdvanceFacts DEF IInv
  <2>5. /\ Reason(h) \in Reasons /\ (Reason(h) = "issue" => act[h] # "cancel")
    BY DEF Reason, Reasons
  <2>6. /\ posted' \in [Docs -> [Reasons -> Nat]]
        /\ \A d \in Docs : d # x => posted'[d] = posted[d]
        /\ Reason(h) # "issue" => posted'[x]["issue"] = posted[x]["issue"]
        /\ Reason(h) = "issue" => posted'[x]["issue"] = posted[x]["issue"] + 1
    BY <2>1, <2>2, <2>5, SMTT(20) DEF IInv, TypeOK, Reasons
  <2>7. TypeOK'
    BY <1>0, <2>4, <2>6 DEF IInv, TypeOK, JobTypes, Acts
  <2>8. RowsSound' /\ SubmittedOnce'
    BY <1>0 DEF IInv, RowsSound, SubmittedOnce
  <2>9. CopiesSound'
    <3>1. ASSUME NEW g \in Handlers, NEW y \in Docs
          PROVE  Sound(y, held'[g][y], source', approved')
      <4>1. CASE held'[g] = held[g]
        BY <1>0, <4>1 DEF IInv, CopiesSound
      <4>2. CASE held'[g] = NoCopies
        BY <4>2, NoRowFacts DEF Sound
      <4> QED BY <2>4, <4>1, <4>2 DEF Others
    <3> QED BY <3>1 DEF CopiesSound
  <2>10. /\ TodoShape' /\ SavedCopies'
         /\ \A d \in Notes \cup Refunds : \A g \in Handlers : Issuing(g, d)' => Issuing(g, d)
    BY <1>0, <2>4, Remaining
  <2>11. \A i \in 1..Len(todo'[h]) : todo'[h][i][1] # "post"
    <3>1. CASE todo'[h] = << >>
      BY <3>1
    <3>2. CASE todo'[h] = Tail(todo[h])
      <4>1. Len(todo'[h]) = 1 /\ todo'[h][1] = todo[h][2]
        BY <1>0, <2>3, <3>2, HeadFacts DEF IInv
      <4> QED BY <2>3, <4>1
    <3> QED BY <2>4, <3>1, <3>2
  <2>12. ASSUME NEW d \in (Notes \cup Refunds) \ staged
         PROVE  /\ posted'[d]["issue"] <= 1
                /\ d \notin approved => posted'[d]["issue"] = 0 /\ \A g \in Handlers : ~Issuing(g, d)'
                /\ \A f, g \in Handlers : Issuing(f, d)' /\ Issuing(g, d)' => f = g
                /\ \A g \in Handlers : \A i \in 1..Len(todo'[g]) :
                     Issuing(g, d)' /\ todo'[g][i][1] = "post" => posted'[d]["issue"] = 0
    <3>1. /\ d \notin approved => posted[d]["issue"] = 0 /\ \A g \in Handlers : ~Issuing(g, d)
          /\ \A f, g \in Handlers : Issuing(f, d) /\ Issuing(g, d) => f = g
          /\ \A g \in Handlers : \A i \in 1..Len(todo[g]) :
               Issuing(g, d) /\ todo[g][i][1] = "post" => posted[d]["issue"] = 0
          /\ posted[d]["issue"] <= 1 /\ d \in Docs
      BY Kinds DEF IInv, PostingPending, PostedOnce
    <3>2. \A g \in Handlers : Issuing(g, d)' => Issuing(g, d)
      BY <2>10
    <3>3. CASE d = x /\ Reason(h) = "issue"
      <4>1. Issuing(h, d)
        BY <1>0, <2>3, <2>5, <3>3 DEF Issuing
      <4>2. posted[d]["issue"] = 0 /\ d \in approved /\ \A g \in Handlers : Issuing(g, d) => g = h
        BY <1>0, <2>2, <3>1, <4>1
      <4>3. posted'[d]["issue"] = 1
        BY <2>6, <3>3, <4>2
      <4> QED BY <2>11, <3>2, <4>2, <4>3
    <3>4. CASE ~(d = x /\ Reason(h) = "issue")
      <4>1. posted'[d]["issue"] = posted[d]["issue"]
        BY <2>6, <3>1, <3>4
      <4>2. \A g \in Handlers : g # h => todo'[g] = todo[g]
        BY <2>4 DEF Others
      <4> QED BY <2>11, <3>1, <3>2, <4>1, <4>2
    <3> QED BY <3>3, <3>4
  <2>13. PostingPending' /\ PostedOnce'
    BY <1>0, <2>12 DEF PostingPending, PostedOnce
  <2> QED BY <2>7, <2>8, <2>9, <2>10, <2>13 DEF IInv
<1> QED BY <1>1, <1>2

\* One copy is replaced by a sound one.
LEMMA CopyReplaced ==
  ASSUME NEW c \in [Docs -> Row], \A y \in Docs : Sound(y, c[y], source, approved),
         NEW x \in Docs, NEW w, Sound(x, w, source, approved)
  PROVE  /\ [c EXCEPT ![x] = w] \in [Docs -> Row] /\ [c EXCEPT ![x] = w][x] = w
         /\ \A y \in Docs : y # x => [c EXCEPT ![x] = w][y] = c[y]
         /\ \A y \in Docs : Sound(y, [c EXCEPT ![x] = w][y], source, approved)
<1>1. /\ [c EXCEPT ![x] = w] \in [Docs -> Row] /\ [c EXCEPT ![x] = w][x] = w
      /\ \A y \in Docs : y # x => [c EXCEPT ![x] = w][y] = c[y]
  BY DEF Sound
<1> QED BY <1>1

\* The copies after a record is read and changed.
LEMMA ChangedFacts ==
  ASSUME IInv, NEW h \in Handlers, todo[h] # << >>, Head(todo[h])[1] = "read",
         NEW x, x = Subject(h), NEW n, n = Amount(h), ~Refuses(h, x, n)
  PROVE  /\ Changed(h, x, n) \in [Docs -> Row]
         /\ \A y \in Docs : Sound(y, Changed(h, x, n)[y], source, approved)
         /\ \A y \in Notes \cap approved :
              Changed(h, x, n)[y].status # "submitted" \/ Changed(h, x, n)[y] = held[h][y]
<1> DEFINE v == row[x]
           c == held[h]
<1>1. /\ Head(todo[h]) = todo[h][1] /\ x = todo[h][1][2] /\ x \in Docs /\ n \in 0..Total
      /\ 1 \in 1..Len(todo[h])
  BY HeadFacts DEF IInv
<1>2. /\ c \in [Docs -> Row] /\ \A y \in Docs : Sound(y, c[y], source, approved)
      /\ Sound(x, v, source, approved) /\ v \in Row /\ v.applied <= v.amount /\ doc[h] \in Docs
  BY <1>1 DEF IInv, TypeOK, CopiesSound, RowsSound, Sound, Bounded
<1>3. doc[h] \notin Refunds => x = Inv
  BY <1>1 DEF IInv, TodoShape, Shaped
<1>4. x \in Notes \cap approved => v.status # "submitted"
  BY DEF IInv, SubmittedOnce
<1>5. \A w : w \in Row /\ Bounded(Inv, w) => Sound(Inv, w, source, approved)
  BY Kinds DEF Sound
<1>6. ASSUME NEW w, Sound(Inv, w, source, approved), Changed(h, x, n) = [c EXCEPT ![Inv] = w]
      PROVE  /\ Changed(h, x, n) \in [Docs -> Row]
             /\ \A y \in Docs : Sound(y, Changed(h, x, n)[y], source, approved)
             /\ \A y \in Notes : Changed(h, x, n)[y] = c[y]
  BY <1>2, <1>6, Kinds, CopyReplaced
<1>7. ASSUME NEW w, Sound(x, w, source, approved), w.status = v.status,
             Changed(h, x, n) = [c EXCEPT ![x] = w]
      PROVE  /\ Changed(h, x, n) \in [Docs -> Row]
             /\ \A y \in Docs : Sound(y, Changed(h, x, n)[y], source, approved)
             /\ \A y \in Notes \cap approved :
                  Changed(h, x, n)[y].status # "submitted" \/ Changed(h, x, n)[y] = c[y]
  BY <1>1, <1>2, <1>4, <1>7, Kinds, CopyReplaced
<1>8. CASE doc[h] \in Payments
  <2> DEFINE w == IF act[h] = "cancel" THEN ReverseAllocation(v, n) ELSE ApplyAllocation(v, n)
  <2>1. Changed(h, x, n) = [c EXCEPT ![Inv] = w]
    BY <1>8, Kinds DEF Changed
  <2>2. act[h] # "cancel" => v.applied + n <= v.amount
    <3>1. v.applied \in Nat /\ v.amount \in Nat /\ n \in Nat
      BY <1>1, <1>2, TotalIsNat DEF Row
    <3> QED BY <1>3, <1>8, <3>1, Kinds DEF Refuses
  <2>3. w \in Row /\ Bounded(Inv, w)
    BY <1>1, <1>2, <2>2, InvoiceCopies
  <2> HIDE DEF w
  <2> QED BY <1>5, <1>6, <2>1, <2>3
<1>9. CASE doc[h] \in Notes
  <2> DEFINE w == CreditInvoice(v, n)
  <2>1. Changed(h, x, n) = [c EXCEPT ![Inv] = w]
    BY <1>9, Kinds DEF Changed
  <2>2. w \in Row /\ Bounded(Inv, w)
    BY <1>1, <1>2, InvoiceCopies
  <2> HIDE DEF w
  <2> QED BY <1>5, <1>6, <2>1, <2>2
<1>10. CASE doc[h] \in Refunds /\ act[h] # "cancel"
  <2>1. CASE x = Inv
    <3>1. Changed(h, x, n) = [c EXCEPT ![Inv] = v]
      BY <1>10, <2>1, Kinds DEF Changed
    <3> QED BY <1>2, <1>6, <2>1, <3>1
  <2>2. CASE x # Inv
    <3> DEFINE w == RefundRow(v, n)
    <3>1. x \in Payments \cup Notes => v.refunded + n <= v.amount
      <4>1. v.refunded \in Nat /\ v.amount \in Nat /\ n \in Nat
        BY <1>1, <1>2, TotalIsNat DEF Row
      <4> QED BY <1>10, <4>1 DEF Refuses
    <3>2. w \in Row /\ w.status = v.status /\ Bounded(x, w)
      BY <1>1, <1>2, <3>1, RefundCopies DEF Sound
    <3>3. Sound(x, w, source, approved)
      BY <1>2, <3>2 DEF Sound
    <3>4. CASE x \notin Notes
      <4>1. Changed(h, x, n) = [c EXCEPT ![x] = w]
        BY <1>10, <2>2, <3>4, Kinds DEF Changed
      <4> HIDE DEF w
      <4> QED BY <1>7, <3>2, <3>3, <4>1
    <3>5. CASE x \in Notes
      <4> DEFINE c2 == [c EXCEPT ![x] = w]
                 u == RefundInvoice(c[Inv], n)
      <4>1. Changed(h, x, n) = [c2 EXCEPT ![Inv] = u]
        BY <1>10, <2>2, <3>5, <1>2, Kinds DEF Changed
      <4>2. /\ c2 \in [Docs -> Row] /\ c2[x] = w /\ \A y \in Docs : y # x => c2[y] = c[y]
            /\ \A y \in Docs : Sound(y, c2[y], source, approved)
        <5> HIDE DEF w
        <5> QED BY <1>1, <1>2, <3>3, CopyReplaced
      <4>3. u \in Row /\ Bounded(Inv, u)
        BY <1>1, <1>2, Kinds, InvoiceCopies DEF Sound, Bounded
      <4>4. Sound(Inv, u, source, approved)
        BY <1>5, <4>3
      <4> HIDE DEF c2, u, w
      <4>5. /\ [c2 EXCEPT ![Inv] = u] \in [Docs -> Row]
            /\ \A y \in Docs : y # Inv => [c2 EXCEPT ![Inv] = u][y] = c2[y]
            /\ \A y \in Docs : Sound(y, [c2 EXCEPT ![Inv] = u][y], source, approved)
        BY <4>2, <4>4, Kinds, CopyReplaced
      <4> QED BY <1>1, <1>4, <3>2, <4>1, <4>2, <4>5, Kinds
    <3> QED BY <3>4, <3>5
  <2> QED BY <2>1, <2>2
<1>11. CASE doc[h] = Inv \/ (doc[h] \in Refunds /\ act[h] = "cancel")
  <2>1. Changed(h, x, n) = [c EXCEPT ![x] = IF x = Inv THEN UnrefundInvoice(v, n)
                                            ELSE UnrefundRow(v, n)]
    BY <1>11, Kinds DEF Changed
  <2>2. CASE x = Inv
    <3> DEFINE w == UnrefundInvoice(v, n)
    <3>1. w \in Row /\ Bounded(Inv, w)
      BY <1>1, <1>2, InvoiceCopies
    <3> HIDE DEF w
    <3>2. Changed(h, x, n) = [c EXCEPT ![Inv] = w]
      BY <2>1, <2>2 DEF w
    <3> QED BY <1>5, <1>6, <3>1, <3>2
  <2>3. CASE x # Inv
    <3> DEFINE w == UnrefundRow(v, n)
    <3>1. w \in Row /\ Bounded(x, w) /\ w.status = v.status
      BY <1>1, <1>2, RefundCopies DEF Sound
    <3>2. Sound(x, w, source, approved)
      BY <1>2, <3>1 DEF Sound
    <3> HIDE DEF w
    <3>3. Changed(h, x, n) = [c EXCEPT ![x] = w]
      BY <2>1, <2>3 DEF w
    <3> QED BY <1>7, <3>1, <3>2, <3>3
  <2> QED BY <2>2, <2>3
<1> QED BY <1>2, <1>8, <1>9, <1>10, <1>11, Kinds

\* A record is read.
LEMMA ReadStep ==
  ASSUME IInv, NEW h \in Handlers, Read(h)
  PROVE  IInv'
<1> DEFINE c == Changed(h, Subject(h), Amount(h))
<1>1. /\ todo[h] # << >> /\ Head(todo[h])[1] = "read" /\ ~Refuses(h, Subject(h), Amount(h))
      /\ held' = [held EXCEPT ![h] = c] /\ todo' = [todo EXCEPT ![h] = Tail(todo[h])]
      /\ UNCHANGED <<row, submitted, approved, staged, source, share, payLinks, links, posted,
                     doc, act, seen, effects, clean, upsets>>
  BY DEF Read, Runs, docVars
<1>2. /\ c \in [Docs -> Row]
      /\ \A y \in Docs : Sound(y, c[y], source, approved)
      /\ \A y \in Notes \cap approved : c[y].status # "submitted" \/ c[y] = held[h][y]
  BY <1>1, ChangedFacts
<1> HIDE DEF c
<1>3. Tail(todo[h]) \in Seq(Step)
  BY <1>1, HeadFacts DEF IInv
<1>4. /\ JobTypes' /\ Others(h) /\ held'[h] = c /\ doc'[h] = doc[h] /\ act'[h] = act[h]
      /\ todo'[h] = Tail(todo[h])
  BY <1>1, <1>2, <1>3 DEF IInv, TypeOK, JobTypes, Others, Acts
<1>5. TypeOK'
  BY <1>1, <1>4 DEF IInv, TypeOK, JobTypes, Acts
<1>6. RowsSound' /\ SubmittedOnce' /\ PostedOnce'
  BY <1>1 DEF IInv, RowsSound, SubmittedOnce, PostedOnce
<1>7. CopiesSound'
  BY <1>1, <1>2, <1>4 DEF IInv, CopiesSound, Others
<1>8. TodoShape' /\ SavedCopies' /\ PostingPending'
  BY <1>1, <1>2, <1>4, Remaining
<1> QED BY <1>5, <1>6, <1>7, <1>8 DEF IInv

-----------------------------------------------------------------------------
(***************************************************************************)
(* The theorems.                                                           *)
(***************************************************************************)
LEMMA InitIInv == Init => IInv
<1> SUFFICES ASSUME Init PROVE IInv
  OBVIOUS
<1> DEFINE w == [NoRow EXCEPT !.status = "draft", !.amount = Total, !.balance = Total]
<1>1. w \in Row /\ w.status = "draft" /\ w.amount = Total /\ w.balance = Total /\ w.applied = 0
  <2>1. Total \in 0..Total
    BY TotalIsNat
  <2>2. w \in Row
    BY <2>1, NoRowFacts, DraftIsStatus DEF Row
  <2>3. w.status = "draft" /\ w.amount = Total /\ w.balance = Total /\ w.applied = 0
    BY NoRowFacts DEF Row
  <2> QED BY <2>2, <2>3
<1>2. row = [d \in Docs |-> IF d = Inv THEN w ELSE NoRow]
  BY DEF Init
<1>3. Sound(Inv, w, source, approved)
  BY <1>1, Kinds, TotalIsNat DEF Sound, Bounded
<1>4. \A d \in Docs : Sound(d, NoRow, source, approved)
  BY NoRowFacts DEF Sound
<1> HIDE DEF w
<1>5. RowsSound /\ row \in [Docs -> Row]
  BY <1>1, <1>2, <1>3, <1>4, NoRowFacts DEF RowsSound
<1>6. held \in [Handlers -> [Docs -> Row]] /\ CopiesSound
  BY <1>4, NoRowFacts DEF Init, CopiesSound
<1>7. TypeOK
  BY <1>5, <1>6, Kinds, ReceivablesAssumption DEF Init, TypeOK, Reasons
<1>8. TodoShape /\ SavedCopies
  BY DEF Init, TodoShape, Shaped, SavedCopies
<1>9. SubmittedOnce
  BY <1>1, <1>2, Kinds, NoRowFacts DEF Init, SubmittedOnce
<1>10. PostingPending /\ PostedOnce
  BY Kinds DEF Init, PostingPending, PostedOnce, Issuing, Reasons
<1> QED BY <1>5, <1>6, <1>7, <1>8, <1>9, <1>10 DEF IInv

\* Every action preserves IInv.
LEMMA NextIInv == IInv /\ [Next]_vars => IInv'
<1> SUFFICES ASSUME IInv, [Next]_vars PROVE IInv'
  OBVIOUS
<1>1. CASE UNCHANGED vars
  BY <1>1 DEF vars, IInv, TypeOK, RowsSound, CopiesSound, TodoShape, SavedCopies, SubmittedOnce,
              PostingPending, PostedOnce, Issuing
<1>2. ASSUME NEW h \in Handlers,
             \/ \E d \in Docs : Approve(h, d) \/ ApproveStage(h, d) \/ Cancel(h, d)
             \/ \E p \in Payments, n \in 1..Total : AllocatePayment(h, p, n)
      PROVE  IInv'
  BY <1>2, ApproveStep, ApproveStageStep, CancelStepInv, AllocateStep
<1>3. ASSUME NEW h \in Handlers,
             \/ Read(h) \/ ReadRefused(h) \/ Save(h) \/ SaveRefused(h)
             \/ Post(h) \/ Link(h) \/ Fail(h)
      PROVE  IInv'
  BY <1>3, ReadStep, RefusedSteps, SaveStep, PostStep, LinkStep
<1> QED BY <1>1, <1>2, <1>3, CreateSteps, WorkflowSteps DEF Next

\* IInv is an invariant: what HandleAction reads, keeps and saves stays sound.
THEOREM Invariance == Spec => []IInv
<1>1. Init => IInv
  BY InitIInv
<1>2. IInv /\ [Next]_vars => IInv'
  BY NextIInv
<1> QED BY <1>1, <1>2, PTL DEF Spec

\* The rows, the copies and the statements of the effects have their types; in
\* particular no amount on a document of HandleAction leaves 0..total_amount.
THEOREM TypeCorrect == Spec => []TypeOK
<1>1. IInv => TypeOK
  BY DEF IInv
<1> QED BY <1>1, Invariance, PTL

\* applyAllocationToInvoice and handleRefundedPayment: whatever effects overlap,
\* fail or lose of each other's changes, no invoice is paid and no payment or
\* credit note is refunded beyond its amount.
THEOREM NothingExceeded == Spec => []LimitsHold
<1>1. IInv => LimitsHold
  BY Kinds DEF IInv, RowsSound, Sound, Bounded, LimitsHold
<1> QED BY <1>1, Invariance, PTL

\* The posting of a credit note or a refund that one approval makes effective is
\* created at most once.
THEOREM PostedAtMostOnce == Spec => []PostedOnce
<1>1. IInv => PostedOnce
  BY DEF IInv
<1> QED BY <1>1, Invariance, PTL

-----------------------------------------------------------------------------
(***************************************************************************)
(* The books.  As long as every effect runs alone, after the last approval *)
(* and to its end, Orderly holds: it says how far the effect of the one    *)
(* busy handler has come, counted from the end of its statements, which    *)
(* amounts are not on the invoice or the credit note yet, and what the     *)
(* copies it is going to save have of the rows.                            *)
(***************************************************************************)
Busy(h) == todo[h] # << >>
Left(h) == Len(todo[h])

\* The statements of a handler, counted from the last one.
FromEnd(t, k) == t[Len(t) + 1 - k]

\* An approved document that was not cancelled.
InForce(d) == d \in approved /\ (d \in Notes \/ row[d].status # "cancelled")

\* What the documents in force paid, credited and refunded.
PaidBy        == [p \in Payments |-> IF InForce(p) THEN row[p].applied ELSE 0]
CreditedBy    == [c \in Notes |-> IF InForce(c) THEN row[c].amount ELSE 0]
RefundedBy    == [r \in Refunds |-> IF InForce(r) THEN row[r].amount ELSE 0]
RefundedOf(c) == [r \in Refunds |-> IF InForce(r) /\ source[r] = c THEN row[r].amount ELSE 0]

Paid        == SumFunctionOnSet(PaidBy, Payments)
Credited    == SumFunctionOnSet(CreditedBy, Notes)
Refunded    == SumFunctionOnSet(RefundedBy, Refunds)
RefundOf(c) == SumFunctionOnSet(RefundedOf(c), Refunds)

\* An allocation: the amount is in its last statement.
Allocated(h) == FromEnd(todo[h], 1)[3]

\* What the effect of h has still to add to the invoice and the credit note c.
OwedPaid(h) ==
  IF doc[h] \in Payments
  THEN IF act[h] = "approve" /\ Left(h) >= 3 THEN row[doc[h]].applied
       ELSE IF act[h] = "cancel" /\ Left(h) >= 4 THEN -row[doc[h]].applied
       ELSE IF act[h] = "allocate" /\ Left(h) <= 2 THEN Allocated(h) ELSE 0
  ELSE 0

OwedCredit(h) == IF doc[h] \in Notes /\ Left(h) >= 3 THEN row[doc[h]].amount ELSE 0

OwedRefund(h) ==
  IF doc[h] \in Refunds
  THEN IF act[h] = "approve" /\ Left(h) >= 4 THEN row[doc[h]].amount
       ELSE IF act[h] = "cancel" /\ Left(h) >= 3 THEN -row[doc[h]].amount ELSE 0
  ELSE 0

OwedNote(h, c) ==
  IF doc[h] \in Refunds /\ source[doc[h]] = c
  THEN IF act[h] = "approve" /\ Left(h) >= 3 THEN row[doc[h]].amount
       ELSE IF act[h] = "cancel" /\ Left(h) >= 5 THEN -row[doc[h]].amount ELSE 0
  ELSE 0

\* The amounts on the invoice and the credit notes are those of the documents in
\* force, up to what the running effect still has to add.
Settled ==
  /\ row[Inv].applied = Paid /\ row[Inv].credited = Credited /\ row[Inv].refunded = Refunded
  /\ \A c \in Notes : row[c].refunded = RefundOf(c)

Booked(h) ==
  /\ row[Inv].applied + OwedPaid(h) = Paid
  /\ row[Inv].credited + OwedCredit(h) = Credited
  /\ row[Inv].refunded + OwedRefund(h) = Refunded
  /\ \A c \in Notes : row[c].refunded + OwedNote(h, c) = RefundOf(c)

OneBusy == \A g, h \in Handlers : Busy(g) /\ Busy(h) => g = h

\* Whose effect a busy handler executes.
DoneFor(h) ==
  /\ act[h] \in {"approve", "cancel", "allocate"}
  /\ act[h] = "allocate" => doc[h] \in Payments
  /\ doc[h] \in Notes => act[h] = "approve"
  /\ doc[h] # Inv =>
       /\ doc[h] \in approved
       /\ act[h] = "cancel" => ~InForce(doc[h])
       /\ act[h] # "cancel" => InForce(doc[h])
       /\ act[h] = "approve" => seen[h] = {}
       /\ act[h] = "cancel" => seen[h] = {"issue"}

\* The changes of the payments by a refund with the allocations sh: the k-th
\* statement from the end.
ShareCount(r)    == 2 * Len(share[r])
SharePart(sh, k) ==
  LET i == 2 * Len(sh) + 1 - k
      x == sh[(i + 1) \div 2]
  IN <<IF i % 2 = 1 THEN "read" ELSE "save", x.payment, x.amount>>

\* The k-th statement from the end of action a on the document d with the row v, of
\* a refund with the source c and the allocations sh.

PaymentPlan(d, a, n, k) ==
  IF a = "approve"
  THEN IF n = 0 \/ k = 5 THEN <<"save", d, 0>>
       ELSE IF k = 3 THEN <<"save", Inv, n>> ELSE <<"read", Inv, n>>
  ELSE IF k = 3 THEN <<"save", d, 0>>
       ELSE IF k = 4 THEN <<"save", Inv, n>> ELSE <<"read", Inv, n>>

NotePlan(n, k) == IF k = 3 THEN <<"save", Inv, n>> ELSE <<"read", Inv, n>>

RefundPlan(a, n, c, sh, k) ==
  IF a = "approve"
  THEN IF k = 3 THEN <<"save", c, n>>
       ELSE IF k = 4 THEN <<"save", Inv, n>>
       ELSE IF k <= 2 * Len(sh) + 4 THEN SharePart(sh, k - 4)
       ELSE IF k = 2 * Len(sh) + 5 THEN <<"read", c, n>> ELSE <<"read", Inv, n>>
  ELSE IF k = 3 THEN <<"save", Inv, n>>
       ELSE IF k = 4 THEN <<"read", Inv, n>>
       ELSE IF k = 5 THEN <<"save", c, n>>
       ELSE IF k = 6 THEN <<"read", c, n>>
       ELSE SharePart(sh, k - 6)

Plan(d, a, v, c, sh, k) ==
  IF k = 1 THEN <<"link", d, 0>>
  ELSE IF k = 2 THEN <<"post", d, 0>>
  ELSE IF d = Inv THEN <<"save", Inv, 0>>
  ELSE IF d \in Payments THEN PaymentPlan(d, a, v.applied, k)
  ELSE IF d \in Notes THEN NotePlan(v.amount, k)
  ELSE RefundPlan(a, v.amount, c, sh, k)

Longest(d, a, v, sh) ==
  IF d = Inv THEN IF a = "approve" THEN 3 ELSE 2
  ELSE IF d \in Payments THEN IF v.applied = 0 THEN 3 ELSE 5
  ELSE IF d \in Notes THEN 4
  ELSE 2 * Len(sh) + 6

AllocationPlan(p, n, k) ==
  IF k = 3 THEN <<"save", p, 0>> ELSE IF k = 1 THEN <<"save", Inv, n>> ELSE <<"read", Inv, n>>

Planned(h) ==
  IF act[h] = "allocate"
  THEN /\ Left(h) <= 4 /\ Allocated(h) \in 1..Total
       /\ \A k \in 1..Left(h) : FromEnd(todo[h], k) = AllocationPlan(doc[h], Allocated(h), k)
  ELSE /\ Left(h) <= Longest(doc[h], act[h], row[doc[h]], share[doc[h]])
       /\ \A k \in 1..Left(h) :
            FromEnd(todo[h], k) =
              Plan(doc[h], act[h], row[doc[h]], source[doc[h]], share[doc[h]], k)

\* What the status of a document says of its approval, for its row or a copy of it,
\* the approved documents A and the submitted ones U.
DocFits(d, v, A, U) ==
  /\ v.status = "submitted" => d \in U
  /\ v.status = ApprovedState(d) => d \in A
  /\ v.status \in {"none", "submitted", "rejected"} => d \notin A
  /\ d \in Payments \cup Refunds /\ v.status = "cancelled" => d \in A
  /\ d \in Notes \cup Refunds /\ v.status # "none" => v.amount > 0

RowsFit ==
  \A d \in Docs \ {Inv} :
    DocFits(d, row[d], approved, submitted) /\ (d \in approved => d \in submitted)

\* A handler has k or more statements of action a on d left.
StillDoes(d, a, k) == \E h \in Handlers : doc[h] = d /\ act[h] = a /\ Left(h) >= k

\* Postings and links follow the approval, as far as the effects have come.
PostingsFit(d) ==
  /\ posted[d]["issue"] = IF d \in approved /\ ~StillDoes(d, "approve", 2) THEN 1 ELSE 0
  /\ posted[d]["reversal"] =
       IF d \in approved /\ ~InForce(d) /\ ~StillDoes(d, "cancel", 2) THEN 1 ELSE 0
  /\ "issue" \in links[d] <=> d \in approved /\ ~StillDoes(d, "approve", 1)
  /\ "reversal" \in links[d] <=> d \in approved /\ ~InForce(d) /\ ~StillDoes(d, "cancel", 1)

\* The copies of the invoice, of the credit note c and of the payment p that will
\* be saved.
OnBooks(v, paid, credit, refund) ==
  /\ v.applied = row[Inv].applied + paid
  /\ v.credited = row[Inv].credited + credit
  /\ v.refunded = row[Inv].refunded + refund

InvFits(h) == OnBooks(held[h][Inv], OwedPaid(h), OwedCredit(h), OwedRefund(h))

NoteFits(h, c) ==
  /\ held[h][c].refunded = row[c].refunded + OwedNote(h, c)
  /\ held[h][c].amount = row[c].amount /\ DocFits(c, held[h][c], approved, submitted)

ShareFits(h, p) ==
  /\ DocFits(p, held[h][p], approved, submitted)
  /\ held[h][p].status = "cancelled" <=> row[p].status = "cancelled"
  /\ p \in approved => held[h][p].applied = row[p].applied

OwnFits(h) ==
  LET p == doc[h]
  IN /\ DocFits(p, held[h][p], approved, submitted) /\ (held[h][p].status = "cancelled" <=> act[h] = "cancel")
     /\ held[h][p].applied = row[p].applied + IF act[h] = "allocate" THEN Allocated(h) ELSE 0

OwnAt(h) == IF act[h] = "approve" /\ row[doc[h]].applied # 0 THEN 5 ELSE 3

CopyFits(h) ==
  /\ Runs(h, "save") /\ Subject(h) = Inv => InvFits(h)
  /\ Runs(h, "save") /\ Subject(h) \in Notes => NoteFits(h, Subject(h))
  /\ Runs(h, "save") /\ Subject(h) \in Payments /\ doc[h] \in Refunds => ShareFits(h, Subject(h))
  /\ doc[h] \in Payments /\ Left(h) >= OwnAt(h) => OwnFits(h)
  /\ doc[h] \in Refunds /\ act[h] = "approve" =>
       /\ Left(h) \in 4..(ShareCount(doc[h]) + 4) => InvFits(h)
       /\ Left(h) \in 3..(ShareCount(doc[h]) + 4) => NoteFits(h, source[doc[h]])
       /\ Left(h) = ShareCount(doc[h]) + 5 => OnBooks(held[h][Inv], 0, 0, 0)

OnTrack(h) == DoneFor(h) /\ Planned(h) /\ Booked(h) /\ CopyFits(h)

Orderly ==
  /\ OneBusy /\ RowsFit
  /\ \A d \in Docs \ {Inv} : PostingsFit(d)
  /\ Quiet => Settled
  /\ \A h \in Handlers : Busy(h) => OnTrack(h)

-----------------------------------------------------------------------------
\* The end of two sequences of statements.
LEMMA EndOfBoth ==
  ASSUME NEW s \in Seq(Step), NEW t \in Seq(Step)
  PROVE  /\ s \o t \in Seq(Step) /\ Len(s \o t) = Len(s) + Len(t)
         /\ Len(s) \in Nat /\ Len(t) \in Nat
         /\ \A k \in 1..Len(t) : FromEnd(s \o t, k) = FromEnd(t, k)
         /\ \A k \in (Len(t) + 1)..(Len(s) + Len(t)) :
              FromEnd(s \o t, k) = FromEnd(s, k - Len(t))
<1> DEFINE u == s \o t
<1>1. /\ u \in Seq(Step) /\ Len(u) = Len(s) + Len(t)
      /\ \A i \in 1..(Len(s) + Len(t)) : u[i] = IF i <= Len(s) THEN s[i] ELSE t[i - Len(s)]
  BY ConcatProperties
<1>2. Len(s) \in Nat /\ Len(t) \in Nat
  BY LenProperties
<1> HIDE DEF u
<1>3. ASSUME NEW k \in 1..Len(t) PROVE FromEnd(u, k) = FromEnd(t, k)
  <2>1. /\ Len(u) + 1 - k \in 1..(Len(s) + Len(t)) /\ Len(u) + 1 - k > Len(s)
        /\ (Len(u) + 1 - k) - Len(s) = Len(t) + 1 - k
    BY <1>1, <1>2
  <2> QED BY <1>1, <2>1 DEF FromEnd
<1>4. ASSUME NEW k \in (Len(t) + 1)..(Len(s) + Len(t)) PROVE FromEnd(u, k) = FromEnd(s, k - Len(t))
  <2>1. /\ Len(u) + 1 - k \in 1..(Len(s) + Len(t)) /\ Len(u) + 1 - k <= Len(s)
        /\ Len(u) + 1 - k = Len(s) + 1 - (k - Len(t))
    BY <1>1, <1>2
  <2> QED BY <1>1, <2>1 DEF FromEnd
<1> QED BY <1>1, <1>2, <1>3, <1>4 DEF u

\* The last statements of an effect.
LEMMA ClosingSteps ==
  ASSUME NEW d \in Docs
  PROVE  /\ Posting(d) \in Seq(Step) /\ Len(Posting(d)) = 2
         /\ FromEnd(Posting(d), 1) = <<"link", d, 0>> /\ FromEnd(Posting(d), 2) = <<"post", d, 0>>
<1>1. <<"post", d, 0>> \in Step /\ <<"link", d, 0>> \in Step
  BY StepTriples, TotalIsNat
<1> DEFINE x == <<"post", d, 0>>
           y == <<"link", d, 0>>
<1>2. Posting(d) = <<x, y>> BY DEF Posting
<1> HIDE DEF x, y
<1>3. Len(<<x, y>>) = 2 /\ <<x, y>>[1] = x /\ <<x, y>>[2] = y /\ <<x, y>> \in Seq({x, y}) OBVIOUS
<1>4. Len(Posting(d)) + 1 - 1 = 2 /\ Len(Posting(d)) + 1 - 2 = 1 BY <1>2, <1>3
<1>5. Posting(d) \in Seq(Step) BY <1>1, <1>2, <1>3, SeqMonotonic, {x, y} \subseteq Step DEF x, y
<1>6. FromEnd(Posting(d), 1) = y /\ FromEnd(Posting(d), 2) = x BY <1>2, <1>3, <1>4 DEF FromEnd
<1> QED BY <1>2, <1>3, <1>5, <1>6 DEF x, y

\* One or two statements.
LEMMA ShortSteps ==
  ASSUME NEW x \in Step, NEW y \in Step
  PROVE  /\ <<x>> \in Seq(Step) /\ Len(<<x>>) = 1 /\ FromEnd(<<x>>, 1) = x
         /\ <<x, y>> \in Seq(Step) /\ Len(<<x, y>>) = 2
         /\ FromEnd(<<x, y>>, 1) = y /\ FromEnd(<<x, y>>, 2) = x
<1>1. Len(<<x>>) = 1 /\ <<x>>[1] = x /\ <<x>> \in Seq(Step) OBVIOUS
<1>2. Len(<<x, y>>) = 2 /\ <<x, y>>[1] = x /\ <<x, y>>[2] = y /\ <<x, y>> \in Seq(Step) OBVIOUS
<1>3. Len(<<x>>) + 1 - 1 = 1 /\ Len(<<x, y>>) + 1 - 1 = 2 /\ Len(<<x, y>>) + 1 - 2 = 1 BY <1>1, <1>2
<1> QED BY <1>1, <1>2, <1>3 DEF FromEnd

\* The changes of the payments by a refund.
LEMMA ShareStepsTyped ==
  ASSUME NEW r \in Refunds, share \in [Refunds -> Seq(Share)]
  PROVE  /\ ShareSteps(r) \in Seq(Step) /\ Len(ShareSteps(r)) = ShareCount(r)
         /\ ShareCount(r) \in Nat
         /\ \A k \in 1..ShareCount(r) : FromEnd(ShareSteps(r), k) = SharePart(share[r], k)
<1> DEFINE n == Len(share[r])
           s == ShareSteps(r)
<1>1. n \in Nat /\ ShareCount(r) \in Nat /\ ShareCount(r) = 2 * n
  BY LenProperties DEF ShareCount
<1>2. s \in Seq(Step)
  <2>1. Plain(r) \subseteq Step BY DEF Plain
  <2> QED BY <2>1, SharePlain, SeqMonotonic
<1>3. Len(s) = ShareCount(r)
  <2>1. DOMAIN s = 1..ShareCount(r) BY DEF ShareSteps, ShareCount
  <2>2. DOMAIN s = 1..Len(s) /\ Len(s) \in Nat BY <1>2, LenProperties
  <2> QED BY <1>1, <2>1, <2>2
<1>4. ASSUME NEW k \in 1..ShareCount(r) PROVE FromEnd(s, k) = SharePart(share[r], k)
  <2> DEFINE i == 2 * n + 1 - k
  <2>1. i \in 1..(2 * n) BY <1>1
  <2>2. s[i] = <<IF i % 2 = 1 THEN "read" ELSE "save", share[r][(i + 1) \div 2].payment,
                 share[r][(i + 1) \div 2].amount>>
    BY <2>1 DEF ShareSteps
  <2>3. FromEnd(s, k) = s[i]
    <3>1. Len(s) + 1 - k = i BY <1>1, <1>3
    <3> HIDE DEF s, i
    <3> QED BY <3>1 DEF FromEnd
  <2> QED BY <2>2, <2>3 DEF SharePart
<1> QED BY <1>1, <1>2, <1>3, <1>4

\* A statement of them: a payment is read and saved at once.
LEMMA SharePartFacts ==
  ASSUME NEW sh \in Seq(Share), NEW k \in 1..(2 * Len(sh))
  PROVE  /\ SharePart(sh, k)[1] \in {"read", "save"}
         /\ SharePart(sh, k)[2] \in Payments /\ SharePart(sh, k)[3] \in 1..Total
         /\ SharePart(sh, k)[1] = "read" =>
              /\ k > 1 /\ SharePart(sh, k - 1)[1] = "save"
              /\ SharePart(sh, k - 1)[2] = SharePart(sh, k)[2]
<1> DEFINE n == Len(sh)
           i == 2 * n + 1 - k
           x == sh[(i + 1) \div 2]
<1>1. n \in Nat /\ \A j \in 1..n : sh[j] \in Share BY ElementOfSeq, LenProperties
<1>2. i \in 1..(2 * n) /\ (i + 1) \div 2 \in 1..n BY <1>1
<1>3. x \in Share BY <1>1, <1>2
<1>4. x.payment \in Payments /\ x.amount \in 1..Total BY <1>3 DEF Share
<1>5. SharePart(sh, k) = <<IF i % 2 = 1 THEN "read" ELSE "save", x.payment, x.amount>>
  BY DEF SharePart
<1>6. ASSUME i % 2 = 1
      PROVE  k > 1 /\ SharePart(sh, k - 1) = <<"save", x.payment, x.amount>>
  <2>1. k > 1 /\ i + 1 = 2 * n + 1 - (k - 1) /\ (i + 1) % 2 # 1 BY <1>1, <1>2, <1>6
  <2>2. ((i + 1) + 1) \div 2 = (i + 1) \div 2 BY <1>1, <1>2, <1>6
  <2> DEFINE j == i + 1
  <2>3. /\ j = 2 * Len(sh) + 1 - (k - 1) /\ j % 2 # 1 /\ sh[(j + 1) \div 2] = x
    BY <2>1, <2>2
  <2> HIDE DEF j, x
  <2>4. SharePart(sh, k - 1) = <<"save", x.payment, x.amount>> BY <2>3 DEF SharePart
  <2> QED BY <2>1, <2>4
<1> HIDE DEF i, x
<1> QED BY <1>4, <1>5, <1>6

\* One sequence of statements and then another.
Then(s, t) == s \o t

\* One or two statements at the end.
AddsTwo(u, s, t) ==
  /\ u \in Seq(Step) /\ Len(u) = Len(s) + 2 /\ Len(s) \in Nat
  /\ FromEnd(u, 1) = FromEnd(t, 1) /\ FromEnd(u, 2) = FromEnd(t, 2)
  /\ Len(s) >= 1 => FromEnd(u, 3) = FromEnd(s, 1)
  /\ Len(s) >= 2 => FromEnd(u, 4) = FromEnd(s, 2)
  /\ Len(s) >= 3 => FromEnd(u, 5) = FromEnd(s, 3)
  /\ \A k \in 3..(Len(s) + 2) : FromEnd(u, k) = FromEnd(s, k - 2)

\* The end of s and then two statements ...
LEMMA EndOfTwo ==
  ASSUME NEW s \in Seq(Step), NEW t \in Seq(Step), Len(t) = 2
  PROVE  AddsTwo(Then(s, t), s, t)
<1> DEFINE u == Then(s, t)
<1>1. /\ u \in Seq(Step) /\ Len(u) = Len(s) + Len(t) /\ Len(s) \in Nat
      /\ \A k \in 1..Len(t) : FromEnd(u, k) = FromEnd(t, k)
      /\ \A k \in (Len(t) + 1)..(Len(s) + Len(t)) : FromEnd(u, k) = FromEnd(s, k - Len(t))
  BY EndOfBoth DEF Then
<1> HIDE DEF u, AddsTwo
<1>2. FromEnd(u, 1) = FromEnd(t, 1) /\ FromEnd(u, 2) = FromEnd(t, 2) BY <1>1
<1>3. ASSUME NEW k \in 3..(Len(s) + 2) PROVE FromEnd(u, k) = FromEnd(s, k - 2)
  BY <1>1
<1>4. Len(s) >= 1 => FromEnd(u, 3) = FromEnd(s, 1)
  <2>1. 3 - 2 = 1 OBVIOUS
  <2> QED BY <1>1, <1>3, <2>1
<1>5. Len(s) >= 2 => FromEnd(u, 4) = FromEnd(s, 2)
  <2>1. 4 - 2 = 2 OBVIOUS
  <2> QED BY <1>1, <1>3, <2>1
<1>6. Len(s) >= 3 => FromEnd(u, 5) = FromEnd(s, 3)
  <2>1. 5 - 2 = 3 OBVIOUS
  <2> QED BY <1>1, <1>3, <2>1
<1> QED BY <1>1, <1>2, <1>3, <1>4, <1>5, <1>6 DEF u, AddsTwo

AddsOne(u, s, t) ==
  /\ u \in Seq(Step) /\ Len(u) = Len(s) + 1 /\ Len(s) \in Nat
  /\ FromEnd(u, 1) = FromEnd(t, 1)
  /\ Len(s) >= 1 => FromEnd(u, 2) = FromEnd(s, 1)
  /\ Len(s) >= 2 => FromEnd(u, 3) = FromEnd(s, 2)

\* ... and of s and then one.
LEMMA EndOfOne ==
  ASSUME NEW s \in Seq(Step), NEW t \in Seq(Step), Len(t) = 1
  PROVE  AddsOne(Then(s, t), s, t)
<1> DEFINE u == Then(s, t)
<1>1. /\ u \in Seq(Step) /\ Len(u) = Len(s) + Len(t) /\ Len(s) \in Nat
      /\ \A k \in 1..Len(t) : FromEnd(u, k) = FromEnd(t, k)
      /\ \A k \in (Len(t) + 1)..(Len(s) + Len(t)) : FromEnd(u, k) = FromEnd(s, k - Len(t))
  BY EndOfBoth DEF Then
<1> HIDE DEF u, AddsOne
<1>2. FromEnd(u, 1) = FromEnd(t, 1) BY <1>1
<1>3. ASSUME NEW k \in 2..(Len(s) + 1) PROVE FromEnd(u, k) = FromEnd(s, k - 1)
  BY <1>1
<1>4. Len(s) >= 1 => FromEnd(u, 2) = FromEnd(s, 1)
  <2>1. 2 - 1 = 1 OBVIOUS
  <2> QED BY <1>1, <1>3, <2>1
<1>5. Len(s) >= 2 => FromEnd(u, 3) = FromEnd(s, 2)
  <2>1. 3 - 1 = 2 OBVIOUS
  <2> QED BY <1>1, <1>3, <2>1
<1> QED BY <1>1, <1>2, <1>4, <1>5 DEF u, AddsOne

\* The change of the invoice.
LEMMA OnInvoiceSteps ==
  ASSUME NEW n \in 1..Total
  PROVE  /\ OnInvoice(n) \in Seq(Step) /\ Len(OnInvoice(n)) = 2
         /\ FromEnd(OnInvoice(n), 1) = <<"save", Inv, n>>
         /\ FromEnd(OnInvoice(n), 2) = <<"read", Inv, n>>
<1> DEFINE x == <<"read", Inv, n>>
           y == <<"save", Inv, n>>
<1>1. x \in Step /\ y \in Step BY TotalIsNat, StepTriples, Kinds
<1>2. OnInvoice(n) = <<x, y>> BY TotalIsNat DEF OnInvoice
<1> HIDE DEF x, y
<1>3. OnInvoice(n) \in Seq(Step) /\ Len(OnInvoice(n)) = 2
      /\ FromEnd(OnInvoice(n), 1) = y /\ FromEnd(OnInvoice(n), 2) = x
  <2>1. /\ <<x, y>> \in Seq(Step) /\ Len(<<x, y>>) = 2
        /\ FromEnd(<<x, y>>, 1) = y /\ FromEnd(<<x, y>>, 2) = x
    BY <1>1, ShortSteps, Zenon
  <2> QED BY <1>2, <2>1, Zenon
<1> QED BY <1>3 DEF x, y

\* HandleAction: the statements of an effect, from the end.
LEMMA EffectPlan ==
  ASSUME NEW d \in Docs, NEW a \in {"approve", "cancel"}, NEW v \in Row,
         share \in [Refunds -> Seq(Share)], a = "cancel" => d \notin Notes,
         d \in Refunds => source[d] \in Notes,
         d \in Notes \cup Refunds => v.amount > 0
  PROVE  /\ Len(Effect(d, a, v)) = Longest(d, a, v, share[d]) /\ Len(Effect(d, a, v)) \in Nat \ {0, 1}
         /\ \A k \in 1..Longest(d, a, v, share[d]) : FromEnd(Effect(d, a, v), k) = Plan(d, a, v, source[d], share[d], k)
<1> DEFINE own == <<"save", d, 0>>
           P == Posting(d)
<1>0. /\ v.amount \in 0..Total /\ v.applied \in 0..Total /\ 0 \in 0..Total /\ Total \in Nat
      /\ Inv \in Docs
  BY TotalIsNat, Kinds DEF Row
<1>1. own \in Step BY <1>0, StepTriples
<1>2. /\ P \in Seq(Step) /\ Len(P) = 2
      /\ FromEnd(P, 1) = <<"link", d, 0>> /\ FromEnd(P, 2) = <<"post", d, 0>>
  BY ClosingSteps
<1> DEFINE own1 == <<own>>
<1>4. own1 \in Seq(Step) /\ Len(own1) = 1 /\ FromEnd(own1, 1) = own
  <2> HIDE DEF own
  <2> QED BY <1>1, ShortSteps
<1> HIDE DEF P, own1
<1> DEFINE e == Effect(d, a, v)
<1>3. LET u == Then(own1, P)
      IN u \in Seq(Step) /\ Len(u) = 3 /\ FromEnd(u, 3) = own
         /\ FromEnd(u, 1) = FromEnd(P, 1) /\ FromEnd(u, 2) = FromEnd(P, 2)
  <2>1. AddsTwo(Then(own1, P), own1, P) BY <1>2, <1>4, EndOfTwo
  <2> QED BY <1>2, <1>4, <2>1 DEF AddsTwo
<1>s. SUFFICES /\ Len(e) = Longest(d, a, v, share[d]) /\ Longest(d, a, v, share[d]) \in Nat \ {0, 1}
               /\ \A k \in 1..Longest(d, a, v, share[d]) : FromEnd(e, k) = Plan(d, a, v, source[d], share[d], k)
  OBVIOUS
<1>p. Plan(d, a, v, source[d], share[d], 1) = FromEnd(P, 1) /\ Plan(d, a, v, source[d], share[d], 2) = FromEnd(P, 2)
  BY <1>2 DEF Plan
<1> HIDE DEF e
<1>5. CASE d = Inv
  <2>1. CASE a = "approve"
    <3>1. e = Then(own1, P) BY <1>5, <2>1, Kinds DEF e, Then, Effect, own1, P
    <3> QED BY <1>2, <1>3, <1>5, <2>1, <3>1, <1>p, Kinds DEF Longest, Plan
  <2>2. CASE a = "cancel"
    <3>1. e = P BY <1>5, <2>2, Kinds DEF e, Then, Effect, P
    <3> QED BY <1>2, <1>5, <2>2, <3>1, <1>p, Kinds DEF Longest, Plan
  <2> QED BY <2>1, <2>2
<1>6. CASE d \in Payments /\ v.applied = 0
  <2>0. OnInvoice(v.applied) = << >> /\ own1 \in Seq(Step) BY <1>4, <1>6 DEF OnInvoice, own1
  <2>1. e = Then(own1, P)
    <3>1. Then(own1, << >>) = own1 /\ Then(<< >>, own1) = own1 BY <2>0, ConcatEmptySeq DEF Then
    <3>2. e = Then(Then(own1, OnInvoice(v.applied)), P)
          \/ e = Then(Then(OnInvoice(v.applied), own1), P)
      BY <1>6, Kinds DEF e, Then, Effect, own1, P
    <3> QED BY <2>0, <3>1, <3>2
  <2> QED BY <1>2, <1>3, <1>6, <2>1, <1>p, Kinds DEF Longest, Plan, PaymentPlan
<1>7. CASE d \in Payments /\ v.applied # 0
  <2> DEFINE n == v.applied
             O == OnInvoice(n)
  <2>1. n \in 1..Total BY <1>0, <1>7
  <2>2. /\ O \in Seq(Step) /\ Len(O) = 2
        /\ FromEnd(O, 1) = <<"save", Inv, n>> /\ FromEnd(O, 2) = <<"read", Inv, n>>
    BY <2>1, OnInvoiceSteps
  <2> HIDE DEF O
  <2>3. CASE a = "approve"
    <3>1. e = Then(Then(own1, O), P) BY <1>7, <2>3, Kinds DEF e, Then, Effect, own1, P, O
    <3> DEFINE s == Then(own1, O)
    <3>2. /\ s \in Seq(Step) /\ Len(s) = 3 /\ FromEnd(s, 3) = own
          /\ FromEnd(s, 1) = FromEnd(O, 1) /\ FromEnd(s, 2) = FromEnd(O, 2)
      <4>1. AddsTwo(s, own1, O) BY <1>4, <2>2, EndOfTwo
      <4> QED BY <1>4, <2>2, <4>1 DEF AddsTwo
    <3> HIDE DEF s
    <3>3. /\ Len(Then(s, P)) = 5 /\ FromEnd(Then(s, P), 1) = FromEnd(P, 1) /\ FromEnd(Then(s, P), 2) = FromEnd(P, 2)
          /\ FromEnd(Then(s, P), 3) = FromEnd(s, 1) /\ FromEnd(Then(s, P), 4) = FromEnd(s, 2)
          /\ FromEnd(Then(s, P), 5) = FromEnd(s, 3)
      <4>1. AddsTwo(Then(s, P), s, P) BY <1>2, <3>2, EndOfTwo
      <4> QED BY <1>2, <3>2, <4>1 DEF AddsTwo
    <3> QED BY <1>2, <1>7, <2>2, <2>3, <3>1, <3>2, <3>3, <1>p, Kinds DEF Longest, Plan, PaymentPlan, s
  <2>4. CASE a = "cancel"
    <3>1. e = Then(Then(O, own1), P) BY <1>7, <2>4, Kinds DEF e, Then, Effect, own1, P, O
    <3> DEFINE s == Then(O, own1)
    <3>2. /\ s \in Seq(Step) /\ Len(s) = 3 /\ FromEnd(s, 1) = own
          /\ FromEnd(s, 2) = FromEnd(O, 1) /\ FromEnd(s, 3) = FromEnd(O, 2)
      <4>1. AddsOne(s, O, own1) BY <1>4, <2>2, EndOfOne
      <4> QED BY <1>4, <2>2, <4>1 DEF AddsOne
    <3> HIDE DEF s
    <3>3. /\ Len(Then(s, P)) = 5 /\ FromEnd(Then(s, P), 1) = FromEnd(P, 1) /\ FromEnd(Then(s, P), 2) = FromEnd(P, 2)
          /\ FromEnd(Then(s, P), 3) = FromEnd(s, 1) /\ FromEnd(Then(s, P), 4) = FromEnd(s, 2)
          /\ FromEnd(Then(s, P), 5) = FromEnd(s, 3)
      <4>1. AddsTwo(Then(s, P), s, P) BY <1>2, <3>2, EndOfTwo
      <4> QED BY <1>2, <3>2, <4>1 DEF AddsTwo
    <3> QED BY <1>2, <1>7, <2>2, <2>4, <3>1, <3>2, <3>3, <1>p, Kinds DEF Longest, Plan, PaymentPlan, s
  <2> QED BY <2>3, <2>4
<1>8. CASE d \in Notes
  <2> DEFINE n == v.amount
             O == OnInvoice(n)
  <2>1. n \in 1..Total BY <1>0, <1>8
  <2>2. /\ O \in Seq(Step) /\ Len(O) = 2
        /\ FromEnd(O, 1) = <<"save", Inv, n>> /\ FromEnd(O, 2) = <<"read", Inv, n>>
    BY <2>1, OnInvoiceSteps
  <2>3. e = Then(O, P) BY <1>8, Kinds DEF e, Then, Effect, P
  <2> HIDE DEF O
  <2>4. /\ Len(Then(O, P)) = 4 /\ FromEnd(Then(O, P), 1) = FromEnd(P, 1) /\ FromEnd(Then(O, P), 2) = FromEnd(P, 2)
        /\ FromEnd(Then(O, P), 3) = FromEnd(O, 1) /\ FromEnd(Then(O, P), 4) = FromEnd(O, 2)
    <3>1. AddsTwo(Then(O, P), O, P) BY <1>2, <2>2, EndOfTwo
      <3> QED BY <1>2, <2>2, <3>1 DEF AddsTwo
  <2> QED BY <1>2, <1>8, <2>2, <2>3, <2>4, <1>p, Kinds DEF Longest, Plan, NotePlan
<1>9. CASE d \in Refunds
  <2> DEFINE n == v.amount
             c == source[d]
             H == ShareSteps(d)
             m == ShareCount(d)
             rr == << <<"read", Inv, n>>, <<"read", c, n>> >>
             ss == << <<"save", Inv, n>>, <<"save", c, n>> >>
             rs == << <<"read", c, n>>, <<"save", c, n>> >>
             O == OnInvoice(n)
  <2>1. n \in 1..Total /\ n \in 0..Total /\ c \in Docs BY <1>0, <1>9, Kinds
  <2>2. /\ O \in Seq(Step) /\ Len(O) = 2
        /\ FromEnd(O, 1) = <<"save", Inv, n>> /\ FromEnd(O, 2) = <<"read", Inv, n>>
    BY <2>1, OnInvoiceSteps
  <2>3. /\ H \in Seq(Step) /\ Len(H) = m /\ m \in Nat
        /\ \A k \in 1..m : FromEnd(H, k) = SharePart(share[d], k)
    BY <1>9, ShareStepsTyped
  <2>4. /\ <<"read", Inv, n>> \in Step /\ <<"save", Inv, n>> \in Step
        /\ <<"read", c, n>> \in Step /\ <<"save", c, n>> \in Step
    BY <1>0, <2>1, StepTriples
  <2>5. /\ rr \in Seq(Step) /\ Len(rr) = 2
        /\ FromEnd(rr, 1) = <<"read", c, n>> /\ FromEnd(rr, 2) = <<"read", Inv, n>>
    BY <2>4, ShortSteps
  <2>6. /\ ss \in Seq(Step) /\ Len(ss) = 2
        /\ FromEnd(ss, 1) = <<"save", c, n>> /\ FromEnd(ss, 2) = <<"save", Inv, n>>
    BY <2>4, ShortSteps
  <2>7. /\ rs \in Seq(Step) /\ Len(rs) = 2
        /\ FromEnd(rs, 1) = <<"save", c, n>> /\ FromEnd(rs, 2) = <<"read", c, n>>
    BY <2>4, ShortSteps
  <2>8. CASE a = "approve"
    <3>1. e = Then(Then(Then(rr, H), ss), P) BY <1>9, <2>8, Kinds DEF e, Then, Effect, P
    <3> HIDE DEF rr, ss, H, m
    <3> DEFINE s == Then(rr, H)
               t == Then(s, ss)
    <3>2. /\ s \in Seq(Step) /\ Len(s) = m + 2
          /\ FromEnd(s, m + 1) = FromEnd(rr, 1) /\ FromEnd(s, m + 2) = FromEnd(rr, 2)
          /\ \A k \in 1..m : FromEnd(s, k) = FromEnd(H, k)
      <4>1. (m + 1) - m = 1 /\ (m + 2) - m = 2 BY <2>3
      <4>2. m + 1 \in (m + 1)..(2 + m) /\ m + 2 \in (m + 1)..(2 + m) BY <2>3
      <4>3. /\ s \in Seq(Step) /\ Len(s) = Len(rr) + Len(H)
            /\ \A k \in 1..Len(H) : FromEnd(s, k) = FromEnd(H, k)
            /\ \A k \in (Len(H) + 1)..(Len(rr) + Len(H)) : FromEnd(s, k) = FromEnd(rr, k - Len(H))
        BY <2>3, <2>5, EndOfBoth DEF Then
      <4> HIDE DEF s
      <4> QED BY <2>3, <2>5, <4>1, <4>2, <4>3
    <3> HIDE DEF s
    <3>3. /\ t \in Seq(Step) /\ Len(t) = m + 4
          /\ FromEnd(t, 1) = FromEnd(ss, 1) /\ FromEnd(t, 2) = FromEnd(ss, 2)
          /\ \A k \in 3..(m + 4) : FromEnd(t, k) = FromEnd(s, k - 2)
      <4>1. AddsTwo(t, s, ss) BY <2>3, <2>6, <3>2, EndOfTwo
      <4> QED BY <2>3, <2>6, <3>2, <4>1 DEF AddsTwo
    <3> HIDE DEF t
    <3>4. /\ Len(Then(t, P)) = m + 6
          /\ FromEnd(Then(t, P), 1) = FromEnd(P, 1) /\ FromEnd(Then(t, P), 2) = FromEnd(P, 2)
          /\ FromEnd(Then(t, P), 3) = FromEnd(t, 1) /\ FromEnd(Then(t, P), 4) = FromEnd(t, 2)
          /\ \A k \in 3..(m + 6) : FromEnd(Then(t, P), k) = FromEnd(t, k - 2)
      <4>1. AddsTwo(Then(t, P), t, P) BY <1>2, <2>3, <3>3, EndOfTwo
      <4> QED BY <1>2, <2>3, <3>3, <4>1 DEF AddsTwo
    <3>5. ASSUME NEW k \in 1..(m + 6) PROVE FromEnd(Then(t, P), k) = Plan(d, a, v, source[d], share[d], k)
      <4>1. CASE k <= 2 BY <1>2, <3>4, <4>1 DEF Plan
      <4>2. CASE k = 3 \/ k = 4
        <5>1. FromEnd(Then(t, P), 3) = FromEnd(ss, 1) /\ (FromEnd(Then(t, P), 4) = FromEnd(ss, 2))
          BY <2>3, <3>3, <3>4
        <5> QED BY <1>9, <2>6, <2>8, <4>2, <5>1, Kinds DEF Plan, RefundPlan
      <4>3. CASE k >= 5
        <5>1. k - 2 \in 3..(m + 4) /\ (k - 2) - 2 = k - 4 /\ k - 4 \in 1..(m + 2) BY <2>3, <4>3
        <5>2. FromEnd(Then(t, P), k) = FromEnd(s, k - 4) BY <2>3, <3>3, <3>4, <4>3, <5>1
        <5>3. CASE k <= m + 4
          <6>1. FromEnd(s, k - 4) = SharePart(share[d], k - 4)
            <7>1. k - 4 \in 1..m BY <2>3, <4>3, <5>3
            <7> QED BY <2>3, <3>2, <7>1
          <6>2. Plan(d, a, v, source[d], share[d], k) = SharePart(share[d], k - 4)
            BY <1>9, <2>8, <4>3, <5>3, Kinds DEF Plan, RefundPlan, m, ShareCount
          <6> QED BY <5>2, <6>1, <6>2
        <5>4. CASE k = m + 5
          <6>1. k - 4 = m + 1 /\ ~(k <= m + 4) BY <2>3, <5>4
          <6>2. Plan(d, a, v, source[d], share[d], k) = <<"read", c, n>>
            BY <1>9, <2>8, <4>3, <5>4, <6>1, Kinds DEF Plan, RefundPlan, m, ShareCount
          <6>3. FromEnd(s, k - 4) = FromEnd(rr, 1) BY <3>2, <6>1
          <6> QED BY <2>5, <5>2, <6>2, <6>3, Zenon
        <5>5. CASE k = m + 6
          <6>1. k - 4 = m + 2 /\ ~(k <= m + 4) /\ k # m + 5 BY <2>3, <5>5
          <6>2. Plan(d, a, v, source[d], share[d], k) = <<"read", Inv, n>>
            BY <1>9, <2>8, <4>3, <5>5, <6>1, Kinds DEF Plan, RefundPlan, m, ShareCount
          <6>3. FromEnd(s, k - 4) = FromEnd(rr, 2) BY <3>2, <6>1
          <6> QED BY <2>5, <5>2, <6>2, <6>3, Zenon
        <5> QED BY <2>3, <5>3, <5>4, <5>5
      <4> QED BY <2>3, <4>1, <4>2, <4>3
    <3>6. Longest(d, a, v, share[d]) = m + 6 BY <1>9, Kinds DEF Longest, m, ShareCount
    <3> QED BY <2>3, <3>1, <3>4, <3>5, <3>6 DEF s, t
  <2>9. CASE a = "cancel"
    <3>1. e = Then(Then(Then(H, rs), O), P) BY <1>9, <2>9, Kinds DEF e, Then, Effect, P
    <3> HIDE DEF rs, O, H, m
    <3> DEFINE s == Then(H, rs)
               t == Then(s, O)
    <3>2. /\ s \in Seq(Step) /\ Len(s) = m + 2
          /\ FromEnd(s, 1) = FromEnd(rs, 1) /\ FromEnd(s, 2) = FromEnd(rs, 2)
          /\ \A k \in 3..(m + 2) : FromEnd(s, k) = FromEnd(H, k - 2)
      <4>1. AddsTwo(s, H, rs) BY <2>3, <2>7, EndOfTwo
      <4> QED BY <2>3, <2>7, <4>1 DEF AddsTwo
    <3> HIDE DEF s
    <3>3. /\ t \in Seq(Step) /\ Len(t) = m + 4
          /\ FromEnd(t, 1) = FromEnd(O, 1) /\ FromEnd(t, 2) = FromEnd(O, 2)
          /\ \A k \in 3..(m + 4) : FromEnd(t, k) = FromEnd(s, k - 2)
      <4>1. AddsTwo(t, s, O) BY <2>2, <2>3, <3>2, EndOfTwo
      <4> QED BY <2>2, <2>3, <3>2, <4>1 DEF AddsTwo
    <3> HIDE DEF t
    <3>4. /\ Len(Then(t, P)) = m + 6
          /\ FromEnd(Then(t, P), 1) = FromEnd(P, 1) /\ FromEnd(Then(t, P), 2) = FromEnd(P, 2)
          /\ FromEnd(Then(t, P), 3) = FromEnd(t, 1) /\ FromEnd(Then(t, P), 4) = FromEnd(t, 2)
          /\ \A k \in 3..(m + 6) : FromEnd(Then(t, P), k) = FromEnd(t, k - 2)
      <4>1. AddsTwo(Then(t, P), t, P) BY <1>2, <2>3, <3>3, EndOfTwo
      <4> QED BY <1>2, <2>3, <3>3, <4>1 DEF AddsTwo
    <3>5. ASSUME NEW k \in 1..(m + 6) PROVE FromEnd(Then(t, P), k) = Plan(d, a, v, source[d], share[d], k)
      <4>1. CASE k <= 2 BY <1>2, <3>4, <4>1 DEF Plan
      <4>2. CASE k = 3 \/ k = 4
        <5>1. FromEnd(Then(t, P), 3) = FromEnd(O, 1) /\ (FromEnd(Then(t, P), 4) = FromEnd(O, 2))
          BY <2>3, <3>3, <3>4
        <5> QED BY <1>9, <2>2, <2>9, <4>2, <5>1, Kinds DEF Plan, RefundPlan
      <4>3. CASE k >= 5
        <5>1. k - 2 \in 3..(m + 4) /\ (k - 2) - 2 = k - 4 /\ k - 4 \in 1..(m + 2) BY <2>3, <4>3
        <5>2. FromEnd(Then(t, P), k) = FromEnd(s, k - 4) BY <2>3, <3>3, <3>4, <4>3, <5>1
        <5>3. CASE k = 5 \/ k = 6
          <6>1. (k = 5 => k - 4 = 1) /\ (k = 6 => k - 4 = 2) OBVIOUS
          <6>2. /\ k = 5 => Plan(d, a, v, source[d], share[d], k) = <<"save", c, n>>
                /\ k = 6 => Plan(d, a, v, source[d], share[d], k) = <<"read", c, n>>
            BY <1>9, <2>9, Kinds DEF Plan, RefundPlan
          <6>3. /\ k = 5 => FromEnd(s, k - 4) = FromEnd(rs, 1)
                /\ k = 6 => FromEnd(s, k - 4) = FromEnd(rs, 2)
            BY <3>2, <6>1
          <6> QED BY <2>7, <5>2, <5>3, <6>2, <6>3, Zenon
        <5>4. CASE k >= 7
          <6>1. k - 4 \in 3..(m + 2) /\ (k - 4) - 2 = k - 6 BY <2>3, <5>1, <5>4
          <6>2. FromEnd(s, k - 4) = SharePart(share[d], k - 6) BY <2>3, <3>2, <6>1
          <6>3. Plan(d, a, v, source[d], share[d], k) = SharePart(share[d], k - 6)
            BY <1>9, <2>9, <5>4, Kinds DEF Plan, RefundPlan
          <6> QED BY <5>2, <6>2, <6>3
        <5> QED BY <4>3, <5>3, <5>4
      <4> QED BY <2>3, <4>1, <4>2, <4>3
    <3>6. Longest(d, a, v, share[d]) = m + 6 BY <1>9, Kinds DEF Longest, m, ShareCount
    <3> QED BY <2>3, <3>1, <3>4, <3>5, <3>6 DEF s, t
  <2> QED BY <2>8, <2>9
<1> QED BY <1>5, <1>6, <1>7, <1>8, <1>9, Kinds

-----------------------------------------------------------------------------
\* The documents are finitely many.
LEMMA FiniteDocs == IsFiniteSet(Payments) /\ IsFiniteSet(Notes) /\ IsFiniteSet(Refunds)
BY ReceivablesAssumption

\* The amounts of the rows and what the documents in force add up to are numbers.
LEMMA RowNumbers ==
  ASSUME TypeOK, NEW d \in Docs
  PROVE  /\ row[d] \in Row /\ row[d].amount \in Nat /\ row[d].applied \in Nat
         /\ row[d].balance \in Nat /\ row[d].credited \in Nat /\ row[d].refunded \in Nat
         /\ row[d].amount \in 0..Total /\ row[d].applied \in 0..Total
<1>1. row[d] \in Row BY DEF TypeOK
<1>2. /\ row[d].amount \in 0..Total /\ row[d].applied \in 0..Total /\ row[d].balance \in 0..Total
      /\ row[d].credited \in Nat /\ row[d].refunded \in Nat
  BY <1>1, RowFields
<1> QED BY <1>1, <1>2, TotalIsNat

\* What the documents in force add up to are numbers.
LEMMA SumNumbers ==
  ASSUME TypeOK
  PROVE  /\ Paid \in Nat /\ Credited \in Nat /\ Refunded \in Nat
         /\ \A c \in Notes : RefundOf(c) \in Nat
         /\ \A p \in Payments : PaidBy[p] \in Nat
         /\ \A c \in Notes : CreditedBy[c] \in Nat
         /\ \A r \in Refunds : RefundedBy[r] \in Nat
         /\ \A c \in Notes, r \in Refunds : RefundedOf(c)[r] \in Nat
<1>1. \A p \in Payments : PaidBy[p] \in Nat BY RowNumbers, Kinds DEF PaidBy
<1>2. \A c \in Notes : CreditedBy[c] \in Nat BY RowNumbers, Kinds DEF CreditedBy
<1>3. \A r \in Refunds : RefundedBy[r] \in Nat BY RowNumbers, Kinds DEF RefundedBy
<1>4. ASSUME NEW c \in Notes, NEW r \in Refunds PROVE RefundedOf(c)[r] \in Nat
  BY RowNumbers, Kinds DEF RefundedOf
<1>5. Paid \in Nat BY <1>1, FiniteDocs, SumNat DEF Paid
<1>6. Credited \in Nat BY <1>2, FiniteDocs, SumNat DEF Credited
<1>7. Refunded \in Nat BY <1>3, FiniteDocs, SumNat DEF Refunded
<1>8. ASSUME NEW c \in Notes PROVE RefundOf(c) \in Nat
  BY <1>4, FiniteDocs, SumNat DEF RefundOf
<1> QED BY <1>1, <1>2, <1>3, <1>4, <1>5, <1>6, <1>7, <1>8

\* The sums change with the documents in force and their amounts only.
SameForce(d) == InForce(d)' <=> InForce(d)

\* What was paid stays the same when the payments in force and their amounts do.
LEMMA PaidKept ==
  ASSUME \A p \in Payments : SameForce(p) /\ (InForce(p) => row'[p].applied = row[p].applied)
  PROVE  Paid' = Paid
<1>1. \A p \in Payments : PaidBy'[p] = PaidBy[p] BY DEF PaidBy, SameForce
<1> QED BY <1>1, FiniteDocs, SumSame DEF Paid

\* The same for the credit notes ...
LEMMA CreditedKept ==
  ASSUME \A c \in Notes : SameForce(c) /\ (InForce(c) => row'[c].amount = row[c].amount)
  PROVE  Credited' = Credited
<1>1. \A c \in Notes : CreditedBy'[c] = CreditedBy[c] BY DEF CreditedBy, SameForce
<1> QED BY <1>1, FiniteDocs, SumSame DEF Credited

\* ... for the refunds ...
LEMMA RefundedKept ==
  ASSUME \A r \in Refunds : SameForce(r) /\ (InForce(r) => row'[r].amount = row[r].amount)
  PROVE  Refunded' = Refunded
<1>1. \A r \in Refunds : RefundedBy'[r] = RefundedBy[r] BY DEF RefundedBy, SameForce
<1> QED BY <1>1, FiniteDocs, SumSame DEF Refunded

\* ... and for the refunds of one credit note.
LEMMA RefundOfKept ==
  ASSUME NEW c,
         \A r \in Refunds : /\ SameForce(r) /\ (InForce(r) => row'[r].amount = row[r].amount)
                            /\ InForce(r) => source'[r] = source[r]
  PROVE  RefundOf(c)' = RefundOf(c)
<1> DEFINE f == RefundedOf(c)
           g == RefundedOf(c)'
<1>1. \A r \in Refunds : g[r] = f[r] BY DEF RefundedOf, SameForce
<1>2. RefundOf(c)' = SumFunctionOnSet(g, Refunds) /\ RefundOf(c) = SumFunctionOnSet(f, Refunds)
  BY DEF RefundOf
<1> HIDE DEF f, g
<1> QED BY <1>1, <1>2, FiniteDocs, SumSame

\* All of them at once.
LEMMA SumsKept ==
  ASSUME \A d \in Docs \ {Inv} :
           /\ SameForce(d)
           /\ InForce(d) => /\ d \in Payments => row'[d].applied = row[d].applied
                            /\ d \in Notes \cup Refunds => row'[d].amount = row[d].amount
                            /\ d \in Refunds => source'[d] = source[d]
  PROVE  Paid' = Paid /\ Credited' = Credited /\ Refunded' = Refunded
         /\ \A c \in Notes : RefundOf(c)' = RefundOf(c)
<1>1. Paid' = Paid BY Kinds, PaidKept
<1>2. Credited' = Credited BY Kinds, CreditedKept
<1>3. Refunded' = Refunded BY Kinds, RefundedKept
<1>4. ASSUME NEW c \in Notes PROVE RefundOf(c)' = RefundOf(c)
  <2>1. \A r \in Refunds : /\ SameForce(r) /\ (InForce(r) => row'[r].amount = row[r].amount)
                           /\ InForce(r) => source'[r] = source[r]
    BY Kinds
  <2> QED BY <2>1, RefundOfKept
<1> QED BY <1>1, <1>2, <1>3, <1>4

\* The plan of an effect depends on the amounts of its document and, of a refund, on
\* its source and allocations.
LEMMA PlanKept ==
  ASSUME NEW d \in Docs, NEW a, NEW v, NEW w, NEW c, NEW e, NEW sh, NEW si,
         d \in Payments => w.applied = v.applied,
         d \in Notes \cup Refunds => w.amount = v.amount,
         d \in Refunds => e = c /\ si = sh
  PROVE  /\ Longest(d, a, w, si) = Longest(d, a, v, sh)
         /\ \A k : Plan(d, a, w, e, si, k) = Plan(d, a, v, c, sh, k)
BY Kinds DEF Longest, Plan

\* Documents are submitted once and for all.
LEMMA FitsGrow ==
  ASSUME NEW d, NEW v, NEW A, NEW U, NEW W, DocFits(d, v, A, U), U \subseteq W
  PROVE  DocFits(d, v, A, W)
BY DEF DocFits

\* What is known of an approved document.
LEMMA ApprovedFacts ==
  ASSUME IInv, RowsFit, NEW d \in Docs \ {Inv}, d \in approved
  PROVE  /\ row[d].status \notin {"none", "submitted", "rejected"}
         /\ d \in Notes \cup Refunds => row[d].amount > 0
         /\ d \in Refunds => source[d] \in Notes \cap approved /\ share[d] \in Seq(Share)
<1>1. DocFits(d, row[d], approved, submitted) /\ Sound(d, row[d], source, approved)
  BY DEF IInv, RowsSound, RowsFit
<1>2. row[d].status \notin {"none", "submitted", "rejected"} BY <1>1 DEF DocFits
<1>3. d \in Notes \cup Refunds => row[d].amount > 0 BY <1>1, <1>2 DEF DocFits
<1>4. d \in Refunds => source[d] \in Notes \cap approved /\ share[d] \in Seq(Share)
  BY <1>1, <1>2 DEF Sound, IInv, TypeOK
<1> QED BY <1>2, <1>3, <1>4

-----------------------------------------------------------------------------
(***************************************************************************)
(* Steps outside the effects leave the books as they are.                  *)
(***************************************************************************)

\* Of one document a status changes that does not bring it in force or out of it.
Aside(x) ==
  /\ \A d \in Docs : d # x => row'[d] = row[d]
  /\ x \in approved \/ x = Inv =>
       /\ row'[x].applied = row[x].applied /\ row'[x].amount = row[x].amount
       /\ row'[x].credited = row[x].credited
  /\ x \in Notes \cup {Inv} => row'[x].refunded = row[x].refunded
  /\ x # Inv => DocFits(x, row'[x], approved, submitted')
  /\ submitted \subseteq submitted'
  /\ x \in approved /\ x \in Payments \cup Refunds =>
       row'[x].status # "cancelled" /\ row[x].status # "cancelled"
  /\ approved' = approved /\ links' = links /\ posted' = posted
  /\ doc' = doc /\ act' = act /\ todo' = todo /\ held' = held /\ seen' = seen
  /\ \A r \in Refunds : r \in approved => source'[r] = source[r] /\ share'[r] = share[r]

\* Such a step keeps the books.
LEMMA AsideKeeps ==
  ASSUME IInv, Orderly, NEW x \in Docs, Aside(x)
  PROVE  Orderly'
<1>1. /\ approved' = approved /\ links' = links /\ posted' = posted
      /\ doc' = doc /\ act' = act /\ todo' = todo /\ held' = held /\ seen' = seen
      /\ \A r \in Refunds : r \in approved => source'[r] = source[r] /\ share'[r] = share[r]
      /\ submitted \subseteq submitted'
  BY DEF Aside
<1>2. ASSUME NEW d \in Docs \ {Inv}
      PROVE  /\ SameForce(d)
             /\ d \in approved => /\ row'[d].applied = row[d].applied
                                  /\ row'[d].amount = row[d].amount
             /\ d \in Notes => row'[d].refunded = row[d].refunded
             /\ DocFits(d, row'[d], approved, submitted')
             /\ d \in approved => d \in submitted'
  <2>1. DocFits(d, row[d], approved, submitted) /\ (d \in approved => d \in submitted)
    BY DEF Orderly, RowsFit
  <2>2. DocFits(d, row[d], approved, submitted') BY <1>1, <2>1, FitsGrow
  <2> QED BY <1>1, <2>1, <2>2, Kinds DEF Aside, SameForce, InForce
<1>3. /\ row'[Inv].applied = row[Inv].applied /\ row'[Inv].credited = row[Inv].credited
      /\ row'[Inv].refunded = row[Inv].refunded /\ row'[Inv].amount = row[Inv].amount
  BY Kinds DEF Aside
<1>4. Paid' = Paid /\ Credited' = Credited /\ Refunded' = Refunded
      /\ \A c \in Notes : RefundOf(c)' = RefundOf(c)
  BY <1>1, <1>2, SumsKept DEF InForce
<1>5. (OneBusy /\ RowsFit)' BY <1>1, <1>2 DEF Orderly, OneBusy, Busy, RowsFit
<1>6. ASSUME NEW d \in Docs \ {Inv} PROVE PostingsFit(d)'
  BY <1>1, <1>2 DEF Orderly, PostingsFit, StillDoes, Left, SameForce
<1>7. (Quiet => Settled)'
  <2>1. Quiet' => Quiet BY <1>1 DEF Quiet
  <2>2. \A c \in Notes : row'[c].refunded = row[c].refunded BY <1>2, Kinds
  <2> QED BY <1>3, <1>4, <2>1, <2>2 DEF Orderly, Settled
<1>8. ASSUME NEW h \in Handlers, Busy(h)' PROVE OnTrack(h)'
  <2>0. Busy(h) /\ OnTrack(h) BY <1>1, <1>8 DEF Busy, Orderly
  <2>1. doc[h] \in Docs BY DEF IInv, TypeOK
  <2>2. doc[h] # Inv => doc[h] \in approved BY <2>0 DEF OnTrack, DoneFor
  <2>3. DoneFor(h)' BY <1>1, <1>2, <2>0, <2>1 DEF OnTrack, DoneFor, SameForce
  <2>4. /\ doc[h] # Inv => /\ row'[doc[h]].applied = row[doc[h]].applied
                           /\ row'[doc[h]].amount = row[doc[h]].amount
        /\ doc[h] \in Refunds => /\ source'[doc[h]] = source[doc[h]]
                                 /\ share'[doc[h]] = share[doc[h]]
    BY <1>1, <1>2, <2>1, <2>2, Kinds
  <2>5. Planned(h)'
    <3>1. /\ Longest(doc[h], act[h], row'[doc[h]], share'[doc[h]]) =
               Longest(doc[h], act[h], row[doc[h]], share[doc[h]])
          /\ \A k : Plan(doc[h], act[h], row'[doc[h]], source'[doc[h]], share'[doc[h]], k) =
                      Plan(doc[h], act[h], row[doc[h]], source[doc[h]], share[doc[h]], k)
      BY <2>1, <2>4, PlanKept, Kinds
    <3> QED BY <1>1, <2>0, <3>1 DEF OnTrack, Planned, Left, Allocated
  <2>6. /\ OwedPaid(h)' = OwedPaid(h) /\ OwedCredit(h)' = OwedCredit(h)
        /\ OwedRefund(h)' = OwedRefund(h)
        /\ \A c \in Notes : OwedNote(h, c)' = OwedNote(h, c)
    BY <1>1, <2>4, Kinds DEF OwedPaid, OwedCredit, OwedRefund, OwedNote, Left, Allocated
  <2>7. Booked(h)'
    <3>1. \A c \in Notes : row'[c].refunded = row[c].refunded BY <1>2, Kinds
    <3> QED BY <1>3, <1>4, <2>0, <2>6, <3>1 DEF OnTrack, Booked
  <2>8. CopyFits(h)'
    <3>a. Left(h)' = Left(h) /\ Subject(h)' = Subject(h) /\ Allocated(h)' = Allocated(h)
      BY <1>1 DEF Left, Subject, Allocated
    <3>b. Runs(h, "save")' <=> Runs(h, "save")
      BY <1>1 DEF Runs
    <3>c. doc[h] \in Payments => OwnAt(h)' = OwnAt(h)
      BY <1>1, <2>4, Kinds DEF OwnAt
    <3>d. doc[h] \in Refunds => ShareCount(doc[h])' = ShareCount(doc[h])
      BY <1>1, <2>4 DEF ShareCount
    <3>0. /\ Left(h)' = Left(h) /\ Subject(h)' = Subject(h) /\ Allocated(h)' = Allocated(h)
          /\ Runs(h, "save")' <=> Runs(h, "save")
          /\ doc[h] \in Payments => OwnAt(h)' = OwnAt(h)
          /\ doc[h] \in Refunds => ShareCount(doc[h])' = ShareCount(doc[h])
      BY <3>a, <3>b, <3>c, <3>d
    <3>1. InvFits(h) => InvFits(h)'
      BY <1>1, <1>3, <2>6 DEF InvFits, OnBooks
    <3>2. ASSUME NEW c \in Notes \cap approved, NoteFits(h, c) PROVE NoteFits(h, c)'
      BY <1>1, <1>2, <2>6, <3>2, Kinds, FitsGrow DEF NoteFits
    <3>3. ASSUME NEW p \in Payments, ShareFits(h, p) PROVE ShareFits(h, p)'
      <4>1. row'[p].status = "cancelled" <=> row[p].status = "cancelled"
        <5>1. CASE p \in approved
          BY <1>1, <1>2, <5>1, Kinds DEF SameForce, InForce
        <5>2. CASE p \notin approved
          <6>1. DocFits(p, row[p], approved, submitted) /\ DocFits(p, row'[p], approved, submitted')
            BY <1>2, Kinds DEF Orderly, RowsFit
          <6> QED BY <5>2, <6>1 DEF DocFits
        <5> QED BY <5>1, <5>2
      <4>2. p \in approved => row'[p].applied = row[p].applied BY <1>2, Kinds
      <4> QED BY <1>1, <3>3, <4>1, <4>2, FitsGrow DEF ShareFits
    <3>4. OwnFits(h) /\ doc[h] \in Payments => OwnFits(h)'
      BY <1>1, <2>4, <3>0, Kinds, FitsGrow DEF OwnFits
    <3>5. OnBooks(held[h][Inv], 0, 0, 0) => OnBooks(held[h][Inv], 0, 0, 0)'
      BY <1>1, <1>3 DEF OnBooks
    <3>6. Runs(h, "save") /\ Subject(h) \in Notes => Subject(h) \in approved
      BY <2>0, HeadFacts DEF IInv, TodoShape, Shaped, Runs, Busy
    <3>7. doc[h] \in Refunds => source[doc[h]] \in Notes \cap approved /\ source'[doc[h]] = source[doc[h]]
      BY <2>1, <2>2, <2>4, Kinds, ApprovedFacts DEF Orderly
    <3>8. CopyFits(h) BY <2>0 DEF OnTrack
    <3>9. Runs(h, "save") /\ Subject(h) = Inv => InvFits(h)'
      BY <3>1, <3>8 DEF CopyFits
    <3>10. Runs(h, "save") /\ Subject(h) \in Notes => NoteFits(h, Subject(h))'
      <4> SUFFICES ASSUME Runs(h, "save"), Subject(h) \in Notes PROVE NoteFits(h, Subject(h))' OBVIOUS
      <4>1. PICK c \in Notes \cap approved : c = Subject(h) BY <3>6
      <4>2. NoteFits(h, c)' BY <3>2, <3>8, <4>1 DEF CopyFits
      <4> QED BY <3>0, <4>1, <4>2 DEF NoteFits
    <3>11. Runs(h, "save") /\ Subject(h) \in Payments /\ doc[h] \in Refunds => ShareFits(h, Subject(h))'
      <4> SUFFICES ASSUME Runs(h, "save"), Subject(h) \in Payments, doc[h] \in Refunds
                   PROVE  ShareFits(h, Subject(h))'
        OBVIOUS
      <4>1. PICK p \in Payments : p = Subject(h) OBVIOUS
      <4>2. ShareFits(h, p)' BY <3>3, <3>8, <4>1 DEF CopyFits
      <4> QED BY <3>0, <4>1, <4>2 DEF ShareFits
    <3>12. doc[h] \in Payments /\ Left(h) >= OwnAt(h) => OwnFits(h)'
      BY <3>4, <3>8 DEF CopyFits
    <3>13. ASSUME doc[h] \in Refunds, act[h] = "approve"
           PROVE  /\ Left(h) \in 4..(ShareCount(doc[h]) + 4) => InvFits(h)'
                  /\ Left(h) \in 3..(ShareCount(doc[h]) + 4) => NoteFits(h, source[doc[h]])'
                  /\ Left(h) = ShareCount(doc[h]) + 5 => OnBooks(held[h][Inv], 0, 0, 0)'
      <4>1. PICK c \in Notes \cap approved : c = source[doc[h]] BY <3>7, <3>13
      <4>2. NoteFits(h, c) => NoteFits(h, c)' BY <3>2
      <4>3. /\ Left(h) \in 4..(ShareCount(doc[h]) + 4) => InvFits(h)
            /\ Left(h) \in 3..(ShareCount(doc[h]) + 4) => NoteFits(h, c)
            /\ Left(h) = ShareCount(doc[h]) + 5 => OnBooks(held[h][Inv], 0, 0, 0)
        BY <3>8, <3>13, <4>1 DEF CopyFits
      <4>4. NoteFits(h, c)' => NoteFits(h, source[doc[h]])'
        BY <1>1, <3>7, <3>13, <4>1 DEF NoteFits
      <4> QED BY <3>1, <3>5, <4>2, <4>3, <4>4
    <3> QED BY <1>1, <3>0, <3>7, <3>9, <3>10, <3>11, <3>12, <3>13 DEF CopyFits
  <2> QED BY <2>3, <2>5, <2>7, <2>8 DEF OnTrack
<1> QED BY <1>5, <1>6, <1>7, <1>8 DEF Orderly

\* A credit note that was not approved was not refunded.
LEMMA NotRefunded ==
  ASSUME IInv, Orderly, NEW c \in Notes \ approved
  PROVE  row[c].refunded = 0
<1>1. RefundOf(c) = 0
  <2> DEFINE f == RefundedOf(c)
             g == [r \in {} |-> 0]
  <2>1. ASSUME NEW r \in Refunds PROVE f[r] = 0
    <3>1. r \in approved => source[r] \in approved BY ApprovedFacts, Kinds DEF Orderly
    <3> QED BY <3>1 DEF RefundedOf, InForce
  <2>2. SumFunctionOnSet(f, Refunds) = SumFunctionOnSet(g, {})
    <3> HIDE DEF f
    <3>1. IsFiniteSet(Refunds) BY FiniteDocs
    <3>2. (\A x \in {} : g[x] \in Int /\ f[x] = g[x]) /\ {} \subseteq Refunds
          /\ \A x \in Refunds \ {} : f[x] = 0
      BY <2>1
    <3> HIDE DEF g
    <3> QED BY <3>1, <3>2, SumSubset
  <2>3. SumFunctionOnSet(g, {}) = 0 BY SumEmpty
  <2> QED BY <2>2, <2>3 DEF RefundOf
<1>2. row[c].refunded \in Nat BY RowNumbers, Kinds DEF IInv
<1>3. CASE Quiet
  BY <1>1, <1>3 DEF Orderly, Settled
<1>4. CASE ~Quiet
  <2>1. PICK h \in Handlers : Busy(h) BY <1>4 DEF Quiet, Busy
  <2>2. row[c].refunded + OwedNote(h, c) = 0 BY <1>1, <2>1 DEF Orderly, OnTrack, Booked
  <2>3. OwedNote(h, c) = 0
    <3>1. doc[h] \in Docs BY DEF IInv, TypeOK
    <3>2. doc[h] \in Refunds => source[doc[h]] \in approved
      BY <2>1, <3>1, ApprovedFacts, Kinds DEF Orderly, OnTrack, DoneFor
    <3> QED BY <3>2 DEF OwedNote
  <2> QED BY <1>2, <2>2, <2>3
<1> QED BY <1>3, <1>4

\* One row is replaced, by one that is no draft of an approved document.
LEMMA NewRow ==
  ASSUME IInv, NEW x \in Docs, NEW w, row' = [row EXCEPT ![x] = w]
  PROVE  row'[x] = w /\ \A d \in Docs : d # x => row'[d] = row[d]
BY DEF IInv, TypeOK

\* Documents are created.
LEMMA CreationsAside ==
  ASSUME IInv, Orderly
  PROVE  /\ \A p \in Payments : \A x \in Receipts[p] : CreatePayment(p, x[1], x[2]) => Orderly'
         /\ \A p \in Generated : GeneratePayment(p) => Orderly'
         /\ \A c \in Notes, n \in Credits : CreateNote(c, n) => Orderly'
         /\ \A r \in Refunds, c \in Notes : GenerateRefund(r, c) => Orderly'
<1>0. ASSUME NEW x \in Docs \ {Inv}, row[x].status = "none", NEW w, w.status = "draft",
             row' = [row EXCEPT ![x] = w], x \in Notes => w.refunded = 0,
             x \in Notes \cup Refunds => w.amount > 0,
             \A r \in Refunds \ {x} : source'[r] = source[r] /\ share'[r] = share[r],
             UNCHANGED <<submitted, approved, links, posted, jobVars>>
      PROVE  Orderly'
  <2>1. x \notin approved BY <1>0 DEF Orderly, RowsFit, DocFits
  <2>2. row'[x] = w /\ \A d \in Docs : d # x => row'[d] = row[d] BY <1>0, NewRow
  <2>3. x \in Notes => row[x].refunded = 0 BY <2>1, NotRefunded
  <2>4. DocFits(x, w, approved, submitted') BY <1>0 DEF DocFits, ApprovedState
  <2>5. Aside(x) BY <1>0, <2>1, <2>2, <2>3, <2>4 DEF Aside, jobVars
  <2> QED BY <1>0, <2>5, AsideKeeps
<1> DEFINE draft(n, k, b) == [NoRow EXCEPT !.status = "draft", !.amount = n, !.applied = k, !.balance = b]
<1>1. ASSUME NEW n, NEW k, NEW b
      PROVE  /\ draft(n, k, b).status = "draft" /\ draft(n, k, b).amount = n
             /\ draft(n, k, b).refunded = 0
             /\ [NoRow EXCEPT !.status = "draft", !.amount = n].status = "draft"
             /\ [NoRow EXCEPT !.status = "draft", !.amount = n].amount = n
             /\ [NoRow EXCEPT !.status = "draft", !.amount = n].refunded = 0
             /\ [NoRow EXCEPT !.status = "draft", !.amount = n, !.applied = k].status = "draft"
  BY DEF NoRow
<1>2. ASSUME NEW p \in Payments, NEW x \in Receipts[p], CreatePayment(p, x[1], x[2]) PROVE Orderly'
  <2> DEFINE w == [NoRow EXCEPT !.status = "draft", !.amount = x[1], !.applied = x[2],
                                !.balance = x[1] - x[2]]
  <2>1. /\ row[p].status = "none" /\ row' = [row EXCEPT ![p] = w]
        /\ UNCHANGED <<submitted, approved, links, posted, jobVars, source, share>>
    BY <1>2 DEF CreatePayment, docVars
  <2>2. w.status = "draft" BY DEF NoRow
  <2> HIDE DEF w
  <2> QED BY <1>0, <2>1, <2>2, Kinds
<1>3. ASSUME NEW p \in Generated, GeneratePayment(p) PROVE Orderly'
  <2>0. p \in Payments BY ReceivablesAssumption
  <2> DEFINE n == IF row[Inv].balance > 0 THEN row[Inv].balance ELSE row[Inv].amount - row[Inv].applied
             w == [NoRow EXCEPT !.status = "draft", !.amount = n, !.applied = n]
  <2>1. /\ row[p].status = "none" /\ row' = [row EXCEPT ![p] = w]
        /\ UNCHANGED <<submitted, approved, links, posted, jobVars, source, share>>
    BY <1>3 DEF GeneratePayment, docVars
  <2>2. w.status = "draft" BY DEF NoRow
  <2> HIDE DEF w
  <2> QED BY <1>0, <2>0, <2>1, <2>2, Kinds
<1>4. ASSUME NEW c \in Notes, NEW n \in Credits, CreateNote(c, n) PROVE Orderly'
  <2> DEFINE w == [NoRow EXCEPT !.status = "draft", !.amount = n]
  <2>1. /\ row[c].status = "none" /\ row' = [row EXCEPT ![c] = w]
        /\ UNCHANGED <<submitted, approved, links, posted, jobVars, source, share>>
    BY <1>4 DEF CreateNote, docVars
  <2>2. w.status = "draft" /\ w.refunded = 0 /\ w.amount > 0
    BY ReceivablesAssumption DEF NoRow
  <2> HIDE DEF w
  <2> QED BY <1>0, <2>1, <2>2, Kinds
<1>5. ASSUME NEW r \in Refunds, NEW c \in Notes, GenerateRefund(r, c) PROVE Orderly'
  <2>1. PICK n : /\ row[r].status = "none" /\ n > 0
                 /\ row' = [row EXCEPT ![r] = [NoRow EXCEPT !.status = "draft", !.amount = n]]
                 /\ source' = [source EXCEPT ![r] = c]
                 /\ share' = [share EXCEPT ![r] = BuildShares(n)]
                 /\ UNCHANGED <<submitted, approved, links, posted, jobVars>>
    BY <1>5 DEF GenerateRefund
  <2> DEFINE w == [NoRow EXCEPT !.status = "draft", !.amount = n]
  <2>2. w.status = "draft" /\ w.amount > 0 BY <2>1 DEF NoRow
  <2>3. \A q \in Refunds \ {r} : source'[q] = source[q] /\ share'[q] = share[q]
    BY <2>1 DEF IInv, TypeOK
  <2> HIDE DEF w
  <2> QED BY <1>0, <2>1, <2>2, <2>3, Kinds DEF w
<1> QED BY <1>2, <1>3, <1>4, <1>5

\* A status changes in the workflow.
LEMMA WorkflowAside ==
  ASSUME IInv, Orderly
  PROVE  /\ \A d \in Docs : Submit(d) \/ Reject(d) \/ Reopen(d) => Orderly'
         /\ \A c \in Notes : CancelNote(c) => Orderly'
<1>0. ASSUME NEW x \in Docs, NEW s, SetStatus(x, s), row[x].status \notin {"none", "cancelled"},
             s \in {"draft", "submitted", "rejected"} \/ (s = "cancelled" /\ x \in Notes),
             s = "submitted" => x \in submitted' /\ x \notin submitted,
             s = "rejected" => row[x].status = "submitted",
             submitted \subseteq submitted',
             UNCHANGED <<approved, source, share, links, posted, jobVars>>
      PROVE  Orderly'
  <2> DEFINE w == [row[x] EXCEPT !.status = s]
  <2>1. row'[x] = w /\ \A d \in Docs : d # x => row'[d] = row[d] BY <1>0, NewRow DEF SetStatus
  <2>2. /\ w.status = s /\ w.applied = row[x].applied /\ w.amount = row[x].amount
        /\ w.credited = row[x].credited /\ w.refunded = row[x].refunded
    BY DEF IInv, TypeOK, Row
  <2>3. x # Inv => DocFits(x, row[x], approved, submitted) /\ (x \in approved => x \in submitted)
    BY DEF Orderly, RowsFit
  <2> HIDE DEF w
  <2>4. x # Inv => DocFits(x, w, approved, submitted')
    BY <1>0, <2>2, <2>3, Kinds DEF DocFits, ApprovedState
  <2>5. Aside(x) BY <1>0, <2>1, <2>2, <2>4, Kinds DEF Aside, jobVars
  <2> QED BY <2>5, AsideKeeps
<1>1. ASSUME NEW d \in Docs, Submit(d) PROVE Orderly'
  BY <1>0, <1>1 DEF Submit
<1>2. ASSUME NEW d \in Docs, Reject(d) PROVE Orderly'
  BY <1>0, <1>2 DEF Reject, Detour, docVars
<1>3. ASSUME NEW d \in Docs, Reopen(d) PROVE Orderly'
  BY <1>0, <1>3 DEF Reopen, Detour, docVars, ApprovedState
<1>4. ASSUME NEW c \in Notes, CancelNote(c) PROVE Orderly'
  BY <1>0, <1>4, Kinds DEF CancelNote, docVars
<1> QED BY <1>1, <1>2, <1>3, <1>4

-----------------------------------------------------------------------------
(***************************************************************************)
(* The start of an effect.                                                 *)
(***************************************************************************)

\* What a document in force contributes.
Counted(d, n) == IF InForce(d) THEN n ELSE 0

\* One document comes in force, leaves it or changes its amounts.
LEMMA SumsChange ==
  ASSUME TypeOK, TypeOK', NEW d \in Docs \ {Inv}, source' = source,
         \A e \in Docs \ {Inv, d} : SameForce(e) /\ row'[e] = row[e]
  PROVE  /\ Paid' = IF d \in Payments
                    THEN Paid - Counted(d, row[d].applied) + Counted(d, row[d].applied)' ELSE Paid
         /\ Credited' = IF d \in Notes
                        THEN Credited - Counted(d, row[d].amount) + Counted(d, row[d].amount)'
                        ELSE Credited
         /\ Refunded' = IF d \in Refunds
                        THEN Refunded - Counted(d, row[d].amount) + Counted(d, row[d].amount)'
                        ELSE Refunded
         /\ \A c \in Notes :
              RefundOf(c)' = IF d \in Refunds /\ source[d] = c
                             THEN RefundOf(c) - Counted(d, row[d].amount)
                                              + Counted(d, row[d].amount)'
                             ELSE RefundOf(c)
<1>n. /\ \A p \in Payments : PaidBy[p] \in Nat /\ PaidBy'[p] \in Nat
      /\ \A c \in Notes : CreditedBy[c] \in Nat /\ CreditedBy'[c] \in Nat
      /\ \A r \in Refunds : RefundedBy[r] \in Nat /\ RefundedBy'[r] \in Nat
      /\ \A c \in Notes, r \in Refunds : RefundedOf(c)[r] \in Nat /\ RefundedOf(c)'[r] \in Nat
      /\ Paid \in Nat /\ Credited \in Nat /\ Refunded \in Nat
      /\ \A c \in Notes : RefundOf(c) \in Nat
  <2>1. /\ \A p \in Payments : PaidBy[p] \in Nat
        /\ \A c \in Notes : CreditedBy[c] \in Nat
        /\ \A r \in Refunds : RefundedBy[r] \in Nat
        /\ \A c \in Notes, r \in Refunds : RefundedOf(c)[r] \in Nat
        /\ Paid \in Nat /\ Credited \in Nat /\ Refunded \in Nat
        /\ \A c \in Notes : RefundOf(c) \in Nat
    BY SumNumbers
  <2>2. \A e \in Docs : row'[e].applied \in Nat /\ row'[e].amount \in Nat
    <3> SUFFICES ASSUME NEW e \in Docs PROVE row'[e].applied \in Nat /\ row'[e].amount \in Nat
      OBVIOUS
    <3>1. row'[e] \in Row BY DEF TypeOK
    <3>2. row'[e].applied \in 0..Total /\ row'[e].amount \in 0..Total BY <3>1, RowFields
    <3> QED BY <3>2, TotalIsNat
  <2>3. \A p \in Payments : PaidBy'[p] \in Nat BY <2>2, Kinds DEF PaidBy
  <2>4. \A c \in Notes : CreditedBy'[c] \in Nat BY <2>2, Kinds DEF CreditedBy
  <2>5. \A r \in Refunds : RefundedBy'[r] \in Nat BY <2>2, Kinds DEF RefundedBy
  <2>6. \A c \in Notes, r \in Refunds : RefundedOf(c)'[r] \in Nat BY <2>2, Kinds DEF RefundedOf
  <2> QED BY <2>1, <2>3, <2>4, <2>5, <2>6
<1>1. Paid' = IF d \in Payments
              THEN Paid - Counted(d, row[d].applied) + Counted(d, row[d].applied)' ELSE Paid
  <2>1. CASE d \in Payments
    <3>1. \A p \in Payments : p # d => PaidBy'[p] = PaidBy[p] BY Kinds DEF PaidBy, SameForce
    <3>2. PaidBy[d] = Counted(d, row[d].applied) /\ PaidBy'[d] = Counted(d, row[d].applied)'
      BY <2>1 DEF PaidBy, Counted
    <3>3. SumFunctionOnSet(PaidBy', Payments) = SumFunctionOnSet(PaidBy, Payments) - PaidBy[d] + PaidBy'[d]
      <4> DEFINE f == PaidBy
                 g == PaidBy'
      <4>1. (\A p \in Payments : f[p] \in Int /\ g[p] \in Int) /\ \A p \in Payments : p # d => g[p] = f[p]
        BY <1>n, <3>1
      <4> HIDE DEF f, g
      <4>2. SumFunctionOnSet(g, Payments) = SumFunctionOnSet(f, Payments) - f[d] + g[d]
        BY <2>1, <4>1, FiniteDocs, SumUpdate
      <4> QED BY <4>2 DEF f, g
    <3> QED BY <2>1, <3>2, <3>3 DEF Paid
  <2>2. CASE d \notin Payments
    BY <2>2, Kinds, PaidKept
  <2> QED BY <2>1, <2>2
<1>2. Credited' = IF d \in Notes
                  THEN Credited - Counted(d, row[d].amount) + Counted(d, row[d].amount)'
                  ELSE Credited
  <2>1. CASE d \in Notes
    <3>1. \A c \in Notes : c # d => CreditedBy'[c] = CreditedBy[c] BY Kinds DEF CreditedBy, SameForce
    <3>2. CreditedBy[d] = Counted(d, row[d].amount) /\ CreditedBy'[d] = Counted(d, row[d].amount)'
      BY <2>1 DEF CreditedBy, Counted
    <3>3. SumFunctionOnSet(CreditedBy', Notes) = SumFunctionOnSet(CreditedBy, Notes) - CreditedBy[d] + CreditedBy'[d]
      <4> DEFINE f == CreditedBy
                 g == CreditedBy'
      <4>1. (\A p \in Notes : f[p] \in Int /\ g[p] \in Int) /\ \A p \in Notes : p # d => g[p] = f[p]
        BY <1>n, <3>1
      <4> HIDE DEF f, g
      <4>2. SumFunctionOnSet(g, Notes) = SumFunctionOnSet(f, Notes) - f[d] + g[d]
        BY <2>1, <4>1, FiniteDocs, SumUpdate
      <4> QED BY <4>2 DEF f, g
    <3> QED BY <2>1, <3>2, <3>3 DEF Credited
  <2>2. CASE d \notin Notes
    BY <2>2, Kinds, CreditedKept
  <2> QED BY <2>1, <2>2
<1>3. Refunded' = IF d \in Refunds
                  THEN Refunded - Counted(d, row[d].amount) + Counted(d, row[d].amount)'
                  ELSE Refunded
  <2>1. CASE d \in Refunds
    <3>1. \A c \in Refunds : c # d => RefundedBy'[c] = RefundedBy[c] BY Kinds DEF RefundedBy, SameForce
    <3>2. RefundedBy[d] = Counted(d, row[d].amount) /\ RefundedBy'[d] = Counted(d, row[d].amount)'
      BY <2>1 DEF RefundedBy, Counted
    <3>3. SumFunctionOnSet(RefundedBy', Refunds) = SumFunctionOnSet(RefundedBy, Refunds) - RefundedBy[d] + RefundedBy'[d]
      <4> DEFINE f == RefundedBy
                 g == RefundedBy'
      <4>1. (\A p \in Refunds : f[p] \in Int /\ g[p] \in Int) /\ \A p \in Refunds : p # d => g[p] = f[p]
        BY <1>n, <3>1
      <4> HIDE DEF f, g
      <4>2. SumFunctionOnSet(g, Refunds) = SumFunctionOnSet(f, Refunds) - f[d] + g[d]
        BY <2>1, <4>1, FiniteDocs, SumUpdate
      <4> QED BY <4>2 DEF f, g
    <3> QED BY <2>1, <3>2, <3>3 DEF Refunded
  <2>2. CASE d \notin Refunds
    BY <2>2, Kinds, RefundedKept
  <2> QED BY <2>1, <2>2
<1>4. ASSUME NEW c \in Notes
      PROVE  RefundOf(c)' = IF d \in Refunds /\ source[d] = c
                            THEN RefundOf(c) - Counted(d, row[d].amount) + Counted(d, row[d].amount)'
                            ELSE RefundOf(c)
  <2> DEFINE f == RefundedOf(c)
             g == RefundedOf(c)'
             new == SumFunctionOnSet(g, Refunds)
  <2>0. RefundOf(c)' = new /\ RefundOf(c) = SumFunctionOnSet(f, Refunds) BY DEF RefundOf
  <2>1. \A r \in Refunds : f[r] \in Int /\ g[r] \in Int BY <1>n
  <2>2. \A r \in Refunds : r # d => g[r] = f[r] BY Kinds DEF RefundedOf, SameForce
  <2>3. CASE d \in Refunds
    <3>1. /\ f[d] = IF source[d] = c THEN Counted(d, row[d].amount) ELSE 0
          /\ g[d] = IF source[d] = c THEN Counted(d, row[d].amount)' ELSE 0
      BY <2>3 DEF RefundedOf, Counted
    <3>2. new = SumFunctionOnSet(f, Refunds) - f[d] + g[d]
      <4> HIDE DEF f, g
      <4> QED BY <2>1, <2>2, <2>3, FiniteDocs, SumUpdate
    <3>3. SumFunctionOnSet(f, Refunds) \in Nat BY <1>n, <2>0
    <3> HIDE DEF f, g, new
    <3> QED BY <2>0, <2>3, <3>1, <3>2, <3>3
  <2>4. CASE d \notin Refunds
    <3>1. \A r \in Refunds : f[r] = g[r] BY <2>2, <2>4
    <3>2. SumFunctionOnSet(f, Refunds) = new
      <4> HIDE DEF f, g
      <4> QED BY <3>1, FiniteDocs, SumSame
    <3> QED BY <2>0, <2>4, <3>2
  <2> QED BY <2>3, <2>4
<1> QED BY <1>1, <1>2, <1>3, <1>4

\* The first statement is the last one from the end.
LEMMA HeadFromEnd ==
  ASSUME NEW s \in Seq(Step), Len(s) # 0
  PROVE  s # << >> /\ Head(s) = FromEnd(s, Len(s)) /\ Len(s) \in Nat \ {0}
<1>1. Len(s) \in Nat BY LenProperties
<1>2. s # << >> /\ Head(s) = s[1] BY EmptySeq, HeadTailProperties
<1>3. Len(s) + 1 - Len(s) = 1 BY <1>1
<1> QED BY <1>1, <1>2, <1>3 DEF FromEnd

\* An effect starts while no other runs.
LEMMA StartAlone ==
  ASSUME IInv, Orderly, NEW h \in Handlers, NEW d \in Docs, NEW a \in {"approve", "cancel", "allocate"},
         NEW v \in Row, NEW steps \in Seq(Step), Len(steps) >= 2, NEW due \in BOOLEAN,
         Start(h, d, a, v, steps, due), clean'
  PROVE  /\ Quiet /\ due /\ Settled
         /\ doc'[h] = d /\ act'[h] = a /\ todo'[h] = steps /\ held'[h][d] = v /\ seen'[h] = links[d]
         /\ OneBusy' /\ ~Quiet' /\ \A g \in Handlers : Busy(g)' => g = h
         /\ \A e \in Docs, b \in {"approve", "cancel"}, k \in {1, 2} :
              ~StillDoes(e, b, k) /\ (StillDoes(e, b, k)' <=> e = d /\ b = a)
         /\ Left(h)' = Len(steps) /\ Head(todo'[h]) = FromEnd(steps, Len(steps))
<1>0. TypeOK /\ a \in Acts BY DEF IInv, Acts
<1>1. /\ Others(h) /\ doc'[h] = d /\ act'[h] = a /\ todo'[h] = steps /\ held'[h][d] = v
  BY <1>0, StartFacts
<1>2. /\ clean' = (clean /\ Quiet /\ due) /\ seen'[h] = links[d]
  BY <1>0 DEF Start, Quiet, TypeOK
<1>3. Quiet /\ due /\ Settled BY <1>2 DEF Orderly
<1>4. steps # << >> /\ Head(steps) = FromEnd(steps, Len(steps)) /\ Len(steps) \in Nat \ {0}
  BY HeadFromEnd
<1>5. \A g \in Handlers : g # h => todo'[g] = << >>
  BY <1>1, <1>3 DEF Others, Quiet
<1>6. OneBusy' /\ ~Quiet' /\ \A g \in Handlers : Busy(g)' => g = h
  BY <1>1, <1>4, <1>5 DEF OneBusy, Busy, Quiet
<1>7. \A g \in Handlers : Left(g) = 0 /\ (g # h => Left(g)' = 0)
  BY <1>3, <1>5, EmptySeq DEF Left, Quiet
<1>8. Left(h)' = Len(steps) BY <1>1 DEF Left
<1>9. ASSUME NEW e \in Docs, NEW b \in {"approve", "cancel"}, NEW k \in {1, 2}
      PROVE  ~StillDoes(e, b, k) /\ (StillDoes(e, b, k)' <=> e = d /\ b = a)
  <2>1. ~StillDoes(e, b, k) BY <1>7 DEF StillDoes
  <2>2. StillDoes(e, b, k)' <=> \E g \in Handlers : doc'[g] = e /\ act'[g] = b /\ Left(g)' >= k
    BY DEF StillDoes
  <2> QED BY <1>1, <1>4, <1>7, <1>8, <2>1, <2>2
<1> QED BY <1>1, <1>2, <1>3, <1>4, <1>6, <1>8, <1>9

\* What is left to show when an effect starts.
LEMMA StartKeeps ==
  ASSUME IInv, Orderly, NEW h \in Handlers, NEW d \in Docs, NEW a \in {"approve", "cancel", "allocate"},
         NEW v \in Row, NEW steps \in Seq(Step), Len(steps) >= 2, NEW due \in BOOLEAN,
         Start(h, d, a, v, steps, due), clean', links' = links, posted' = posted, RowsFit',
         d # Inv => PostingsFit(d)', OnTrack(h)',
         \A e \in Docs \ {Inv, d} : SameForce(e) /\ (e \in approved' <=> e \in approved)
  PROVE  Orderly'
<1>1. /\ OneBusy' /\ ~Quiet' /\ \A g \in Handlers : Busy(g)' => g = h
      /\ \A e \in Docs, b \in {"approve", "cancel"}, k \in {1, 2} :
           ~StillDoes(e, b, k) /\ (StillDoes(e, b, k)' <=> e = d /\ b = a)
  BY StartAlone
<1>2. ASSUME NEW e \in Docs \ {Inv, d} PROVE PostingsFit(e)'
  <2>1. PostingsFit(e) BY DEF Orderly
  <2>2. /\ ~StillDoes(e, "approve", 1) /\ ~StillDoes(e, "approve", 2)
        /\ ~StillDoes(e, "cancel", 1) /\ ~StillDoes(e, "cancel", 2)
        /\ ~StillDoes(e, "approve", 1)' /\ ~StillDoes(e, "approve", 2)'
        /\ ~StillDoes(e, "cancel", 1)' /\ ~StillDoes(e, "cancel", 2)'
    BY <1>1
  <2>3. (InForce(e)' <=> InForce(e)) /\ (e \in approved' <=> e \in approved) BY DEF SameForce
  <2> QED BY <2>1, <2>2, <2>3 DEF PostingsFit
<1> QED BY <1>1, <1>2 DEF Orderly

\* What approve and cancel save of the document itself changes its balance only.
LEMMA OwnCopyKeeps ==
  ASSUME NEW d, NEW a, NEW v \in Row
  PROVE  /\ OwnCopy(d, a, v).status = v.status /\ OwnCopy(d, a, v).amount = v.amount
         /\ OwnCopy(d, a, v).applied = v.applied /\ OwnCopy(d, a, v).credited = v.credited
         /\ OwnCopy(d, a, v).refunded = v.refunded
BY DEF OwnCopy, Row

\* A new status.
LEMMA StatusOnly ==
  ASSUME IInv, NEW d \in Docs, NEW s \in Statuses
  PROVE  LET v == [row[d] EXCEPT !.status = s]
         IN /\ v \in Row /\ v.status = s /\ v.amount = row[d].amount /\ v.applied = row[d].applied
            /\ v.credited = row[d].credited /\ v.refunded = row[d].refunded
<1>1. row[d] \in Row BY DEF IInv, TypeOK
<1> QED BY <1>1 DEF Row

\* An approval or a cancellation of d, which gets the row v, starts its effect alone.
Begins(h, d, a, v, due) ==
  /\ v \in Row /\ Bounded(d, v) /\ v.amount = row[d].amount /\ v.applied = row[d].applied
  /\ v.credited = row[d].credited /\ v.refunded = row[d].refunded
  /\ row[d].status \notin {"none", "cancelled"}
  /\ a = "cancel" => d \notin Notes /\ v.status = "cancelled"
  /\ row' = [row EXCEPT ![d] = v]
  /\ Start(h, d, a, OwnCopy(d, a, v), Effect(d, a, v), due) /\ clean'
  /\ UNCHANGED <<submitted, source, share, links, posted>>
  /\ \A e \in Docs \ {d} : e \in approved' <=> e \in approved

\* The statements it will execute, and what is true before the first.
LEMMA EffectBegins ==
  ASSUME IInv, Orderly, NEW h \in Handlers, NEW d \in Docs, NEW a \in {"approve", "cancel"},
         NEW due \in BOOLEAN, NEW v, Begins(h, d, a, v, due),
         NEW c, c = OwnCopy(d, a, v), NEW steps, steps = Effect(d, a, v),
         NEW long, long = Longest(d, a, v, share[d])
  PROVE  /\ c \in Row /\ c.status = v.status /\ c.applied = v.applied /\ c.amount = v.amount
         /\ c.credited = v.credited /\ c.refunded = v.refunded
         /\ share \in [Refunds -> Seq(Share)] /\ v.applied \in 0..Total
         /\ d \in Refunds => source[d] \in Notes \cap approved
         /\ d \in Notes \cup Refunds => v.amount > 0
         /\ steps \in Seq(Step) /\ Len(steps) = long /\ long \in Nat \ {0, 1}
         /\ \A k \in 1..long : FromEnd(steps, k) = Plan(d, a, v, source[d], share[d], k)
         /\ Start(h, d, a, c, steps, due)
         /\ Quiet /\ due /\ Settled
         /\ doc'[h] = d /\ act'[h] = a /\ todo'[h] = steps /\ held'[h][d] = c /\ seen'[h] = links[d]
         /\ \A e \in Docs, b \in {"approve", "cancel"}, k \in {1, 2} :
              ~StillDoes(e, b, k) /\ (StillDoes(e, b, k)' <=> e = d /\ b = a)
         /\ Left(h)' = long /\ Head(todo'[h]) = FromEnd(steps, long)
         /\ row'[d] = v /\ \A e \in Docs : e # d => row'[e] = row[e]
<1>0. /\ v \in Row /\ Bounded(d, v) /\ v.amount = row[d].amount
      /\ row[d].status \notin {"none", "cancelled"}
      /\ a = "cancel" => d \notin Notes /\ v.status = "cancelled"
      /\ row' = [row EXCEPT ![d] = v]
      /\ Start(h, d, a, c, steps, due) /\ clean'
  BY DEF Begins
<1>1. c \in Row /\ c.status = v.status /\ c.applied = v.applied /\ c.amount = v.amount
      /\ c.credited = v.credited /\ c.refunded = v.refunded
  <2>1. c \in Row BY <1>0, OwnCopyFacts
  <2>2. /\ c.status = v.status /\ c.amount = v.amount /\ c.applied = v.applied
        /\ c.credited = v.credited /\ c.refunded = v.refunded
    BY <1>0, OwnCopyKeeps
  <2> QED BY <2>1, <2>2
<1>2. /\ share \in [Refunds -> Seq(Share)] /\ v.applied \in 0..Total
      /\ d \in Refunds => source[d] \in Notes \cap approved
      /\ d \in Notes \cup Refunds => v.amount > 0
  <2>1. d \in Notes \cup Refunds => row[d].amount > 0
    BY <1>0, Kinds DEF Orderly, RowsFit, DocFits
  <2> QED BY <1>0, <2>1, ExistingRow, RowFields
<1>3. /\ Len(steps) = long /\ long \in Nat \ {0, 1}
      /\ \A k \in 1..long : FromEnd(steps, k) = Plan(d, a, v, source[d], share[d], k)
  <2>1. d \in Refunds => source[d] \in Notes BY <1>2
  <2> QED BY <1>0, <1>2, <2>1, EffectPlan, ZenonT(40)
<1>4. steps \in Seq(Step) BY <1>0, <1>2, EffectShape
<1>5. Len(steps) >= 2 BY <1>3
<1>6. /\ Quiet /\ due /\ Settled
      /\ doc'[h] = d /\ act'[h] = a /\ todo'[h] = steps /\ held'[h][d] = c /\ seen'[h] = links[d]
      /\ \A e \in Docs, b \in {"approve", "cancel"}, k \in {1, 2} :
           ~StillDoes(e, b, k) /\ (StillDoes(e, b, k)' <=> e = d /\ b = a)
      /\ Left(h)' = Len(steps) /\ Head(todo'[h]) = FromEnd(steps, Len(steps))
  BY <1>0, <1>1, <1>4, <1>5, StartAlone
<1>7. row'[d] = v /\ \A e \in Docs : e # d => row'[e] = row[e] BY <1>0, NewRow
<1> QED BY <1>0, <1>1, <1>2, <1>3, <1>4, <1>6, <1>7

\* What is left to show is what the effect has still to do and that it was not posted.
LEMMA EffectStarts ==
  ASSUME IInv, Orderly, NEW h \in Handlers, NEW d \in Docs, NEW a \in {"approve", "cancel"},
         NEW due \in BOOLEAN, NEW v, Begins(h, d, a, v, due),
         d # Inv => /\ PostingsFit(d)' /\ DocFits(d, v, approved', submitted)
                    /\ d \in approved' /\ d \in submitted,
         DoneFor(h)', Booked(h)'
  PROVE  Orderly'
<1> DEFINE c == OwnCopy(d, a, v)
           steps == Effect(d, a, v)
           long == Longest(d, a, v, share[d])
<1>1. /\ c \in Row /\ c.status = v.status /\ c.applied = v.applied /\ c.amount = v.amount
      /\ c.credited = v.credited /\ c.refunded = v.refunded
      /\ share \in [Refunds -> Seq(Share)] /\ v.applied \in 0..Total
      /\ d \in Refunds => source[d] \in Notes \cap approved
      /\ d \in Notes \cup Refunds => v.amount > 0
      /\ steps \in Seq(Step) /\ Len(steps) = long /\ long \in Nat \ {0, 1}
      /\ \A k \in 1..long : FromEnd(steps, k) = Plan(d, a, v, source[d], share[d], k)
      /\ Start(h, d, a, c, steps, due)
  BY EffectBegins
<1>7. /\ doc'[h] = d /\ act'[h] = a /\ todo'[h] = steps /\ held'[h][d] = c
      /\ Left(h)' = long /\ Head(todo'[h]) = FromEnd(steps, long)
      /\ row'[d] = v /\ \A e \in Docs : e # d => row'[e] = row[e]
  BY EffectBegins
<1>0. /\ v \in Row /\ v.applied = row[d].applied /\ clean'
      /\ v.credited = row[d].credited /\ v.refunded = row[d].refunded
      /\ a = "cancel" => v.status = "cancelled"
      /\ UNCHANGED <<submitted, source, share, links, posted>>
      /\ \A e \in Docs \ {d} : e \in approved' <=> e \in approved
  BY DEF Begins
<1> HIDE DEF c, steps, long
<1>9. Planned(h)'
  <2>1. act'[h] # "allocate" BY <1>7
  <2>2. /\ Left(h)' <= Longest(doc'[h], act'[h], row'[doc'[h]], share'[doc'[h]])
        /\ \A k \in 1..Left(h)' : FromEnd(todo'[h], k) =
              Plan(doc'[h], act'[h], row'[doc'[h]], source'[doc'[h]], share'[doc'[h]], k)
    BY <1>0, <1>1, <1>7 DEF long
  <2> QED BY <2>1, <2>2 DEF Planned
<1>10. Head(todo'[h]) = Plan(d, a, v, source[d], share[d], long)
  <2>1. long \in 1..long BY <1>1
  <2> QED BY <1>1, <1>7, <2>1
<1>11. CopyFits(h)'
  <2>n. /\ v.applied \in 0..Total /\ v.amount \in 0..Total /\ v.credited \in Nat /\ v.refunded \in Nat
        /\ Total \in Nat
    BY <1>0, RowFields, TotalIsNat
  <2>1. CASE d = Inv
    <3>1. OwedPaid(h)' = 0 /\ OwedCredit(h)' = 0 /\ OwedRefund(h)' = 0
      BY <1>7, <2>1, Kinds DEF OwedPaid, OwedCredit, OwedRefund
    <3>2. InvFits(h)'
      BY <1>0, <1>1, <1>7, <2>n, <2>1, <3>1 DEF InvFits, OnBooks
    <3>3. Subject(h)' = Inv
      <4>1. Head(todo'[h])[2] = Inv BY <1>1, <1>10, <2>1 DEF Plan
      <4> QED BY <4>1 DEF Subject
    <3> QED BY <1>7, <2>1, <3>2, <3>3, Kinds DEF CopyFits
  <2>2. CASE d \in Payments
    <3>1. long \in {3, 5} /\ (v.applied # 0 => long = 5) /\ (v.applied = 0 => long = 3)
      BY <2>2, Kinds DEF long, Longest
    <3>2. Runs(h, "save")' => Subject(h)' = d
      <4>1. Head(todo'[h])[1] = "save" => Head(todo'[h])[2] = d
        BY <1>10, <2>2, <3>1, Kinds DEF Plan, PaymentPlan
      <4> QED BY <4>1 DEF Runs, Subject
    <3>3. OwnFits(h)'
      <4>1. c.status = "cancelled" <=> a = "cancel"
        <5>1. a = "approve" => v.status # "cancelled"
          BY <1>7, <2>2, Kinds DEF DoneFor, InForce
        <5> QED BY <1>0, <1>1, <5>1
      <4>2. DocFits(d, c, approved', submitted') BY <1>0, <1>1, <2>2, Kinds DEF DocFits
      <4>3. held'[h][d].applied = row'[d].applied + 0 BY <1>1, <1>7, <2>n
      <4> QED BY <1>7, <4>1, <4>2, <4>3 DEF OwnFits
    <3> QED BY <1>7, <2>2, <3>2, <3>3, Kinds DEF CopyFits
  <2>3. CASE d \in Notes
    <3>1. Head(todo'[h])[1] = "read"
      BY <1>10, <2>3, Kinds DEF long, Longest, Plan, NotePlan
    <3> QED BY <1>7, <2>3, <3>1, Kinds DEF CopyFits, Runs
  <2>4. CASE d \in Refunds
    <3> DEFINE m == Len(share[d])
    <3>0. m \in Nat BY <1>1, <2>4, LenProperties
    <3>1. long = 2 * m + 6 BY <2>4, Kinds DEF long, Longest
    <3>2. Head(todo'[h])[1] = "read"
      <4>1. CASE a = "approve"
        BY <1>10, <2>4, <3>0, <3>1, <4>1, Kinds DEF Plan, RefundPlan
      <4>2. CASE a = "cancel" /\ m = 0
        BY <1>10, <2>4, <3>0, <3>1, <4>2, Kinds DEF Plan, RefundPlan
      <4>3. CASE a = "cancel" /\ m # 0
        <5>1. Head(todo'[h]) = SharePart(share[d], long - 6)
          BY <1>10, <2>4, <3>0, <3>1, <4>3, Kinds DEF Plan, RefundPlan
        <5>2. 2 * Len(share[d]) + 1 - (long - 6) = 1 BY <3>0, <3>1
        <5> QED BY <5>1, <5>2 DEF SharePart
      <4> QED BY <4>1, <4>2, <4>3
    <3>3. ShareCount(d)' = 2 * m /\ doc'[h] = d /\ Left(h)' = 2 * m + 6
      BY <1>0, <1>7, <3>1 DEF ShareCount
    <3>4. ~Runs(h, "save")' BY <3>2 DEF Runs
    <3>5. /\ 2 * m + 6 \notin 4..(2 * m + 4) /\ 2 * m + 6 \notin 3..(2 * m + 4)
          /\ 2 * m + 6 # 2 * m + 5
      BY <3>0
    <3> HIDE DEF m
    <3> QED BY <2>4, <3>3, <3>4, <3>5, Kinds DEF CopyFits
  <2> QED BY <2>1, <2>2, <2>3, <2>4, Kinds
<1>12. OnTrack(h)' BY <1>9, <1>11 DEF OnTrack
<1>13. ASSUME NEW e \in Docs \ {Inv, d}
       PROVE SameForce(e) /\ (e \in approved' <=> e \in approved) /\ DocFits(e, row'[e], approved', submitted')
             /\ (e \in approved' => e \in submitted')
  <2>1. DocFits(e, row[e], approved, submitted) /\ (e \in approved => e \in submitted) /\ row'[e] = row[e]
    BY <1>7 DEF Orderly, RowsFit
  <2> QED BY <1>0, <2>1 DEF SameForce, InForce, DocFits
<1>14. RowsFit' BY <1>0, <1>7, <1>13 DEF RowsFit
<1>15. Len(steps) >= 2 BY <1>1
<1> QED BY <1>0, <1>1, <1>12, <1>13, <1>14, <1>15, StartKeeps

\* How a document that comes in force or leaves it changes the sums, with its amounts
\* kept by the row.
LEMMA ForceCounts ==
  ASSUME IInv, IInv', Orderly, NEW h \in Handlers, NEW d \in Docs \ {Inv},
         NEW a \in {"approve", "cancel"}, NEW due \in BOOLEAN, NEW v, Begins(h, d, a, v, due)
  PROVE  LET n == IF d \in Payments THEN v.applied ELSE v.amount
             old == IF InForce(d) THEN n ELSE 0
             new == IF InForce(d)' THEN n ELSE 0
         IN /\ n \in Nat
            /\ Paid' = IF d \in Payments THEN Paid - old + new ELSE Paid
            /\ Credited' = IF d \in Notes THEN Credited - old + new ELSE Credited
            /\ Refunded' = IF d \in Refunds THEN Refunded - old + new ELSE Refunded
            /\ \A c \in Notes : RefundOf(c)' = IF d \in Refunds /\ source[d] = c
                                               THEN RefundOf(c) - old + new ELSE RefundOf(c)
<1>1. /\ row'[d] = v /\ \A e \in Docs : e # d => row'[e] = row[e]
  BY EffectBegins
<1>2. /\ v.amount = row[d].amount /\ v.applied = row[d].applied /\ source' = source
      /\ \A e \in Docs \ {d} : e \in approved' <=> e \in approved
  BY DEF Begins
<1>3. \A e \in Docs \ {Inv, d} : SameForce(e) /\ row'[e] = row[e]
  BY <1>1, <1>2 DEF SameForce, InForce
<1>4. TypeOK /\ TypeOK' BY DEF IInv
<1>5. v.applied \in Nat /\ v.amount \in Nat BY <1>2, <1>4, RowNumbers
<1>6. /\ Counted(d, row[d].applied) = IF InForce(d) THEN v.applied ELSE 0
      /\ Counted(d, row[d].amount) = IF InForce(d) THEN v.amount ELSE 0
      /\ Counted(d, row[d].applied)' = IF InForce(d)' THEN v.applied ELSE 0
      /\ Counted(d, row[d].amount)' = IF InForce(d)' THEN v.amount ELSE 0
  BY <1>1, <1>2 DEF Counted
<1>7. /\ Paid' = IF d \in Payments
                 THEN Paid - Counted(d, row[d].applied) + Counted(d, row[d].applied)' ELSE Paid
      /\ Credited' = IF d \in Notes
                     THEN Credited - Counted(d, row[d].amount) + Counted(d, row[d].amount)'
                     ELSE Credited
      /\ Refunded' = IF d \in Refunds
                     THEN Refunded - Counted(d, row[d].amount) + Counted(d, row[d].amount)'
                     ELSE Refunded
      /\ \A c \in Notes :
           RefundOf(c)' = IF d \in Refunds /\ source[d] = c
                          THEN RefundOf(c) - Counted(d, row[d].amount) + Counted(d, row[d].amount)'
                          ELSE RefundOf(c)
  BY <1>2, <1>3, <1>4, SumsChange
<1> QED BY <1>5, <1>6, <1>7, Kinds

\* The effect of an approval or a cancellation, of which nothing was done, owes the
\* amount of its document.
LEMMA AllOwed ==
  ASSUME IInv, IInv', Orderly, NEW h \in Handlers, NEW d \in Docs,
         NEW a \in {"approve", "cancel"}, NEW due \in BOOLEAN, NEW v, Begins(h, d, a, v, due),
         d # Inv => /\ a = "approve" => ~InForce(d) /\ InForce(d)'
                    /\ a = "cancel" => InForce(d) /\ ~InForce(d)'
  PROVE  Booked(h)'
<1> DEFINE n == IF d \in Payments THEN v.applied ELSE v.amount
           owed == IF a = "approve" THEN n ELSE -n
           long == Longest(d, a, v, share[d])
<1>1. /\ doc'[h] = d /\ act'[h] = a /\ Left(h)' = long /\ Settled
      /\ row'[d] = v /\ \A e \in Docs : e # d => row'[e] = row[e]
      /\ share \in [Refunds -> Seq(Share)]
  BY EffectBegins
<1>2. /\ v.amount = row[d].amount /\ v.applied = row[d].applied /\ source' = source
      /\ v.credited = row[d].credited /\ v.refunded = row[d].refunded
      /\ a = "cancel" => d \notin Notes
  BY DEF Begins
<1>3. /\ row'[Inv].applied = row[Inv].applied /\ row'[Inv].credited = row[Inv].credited
      /\ row'[Inv].refunded = row[Inv].refunded
      /\ \A c \in Notes : row'[c].refunded = row[c].refunded
  BY <1>1, <1>2, Kinds
<1>4. row[Inv].applied = Paid /\ row[Inv].credited = Credited /\ row[Inv].refunded = Refunded
      /\ \A c \in Notes : row[c].refunded = RefundOf(c)
  BY <1>1 DEF Settled
<1>n. /\ Paid \in Nat /\ Credited \in Nat /\ Refunded \in Nat /\ \A c \in Notes : RefundOf(c) \in Nat
  BY SumNumbers DEF IInv
<1>5. CASE d = Inv
  <2>1. \A e \in Docs \ {Inv} : SameForce(e) /\ row'[e] = row[e]
    <3>1. \A e \in Docs \ {d} : e \in approved' <=> e \in approved BY DEF Begins
    <3> QED BY <1>1, <1>5, <3>1 DEF SameForce, InForce
  <2>2. Paid' = Paid /\ Credited' = Credited /\ Refunded' = Refunded
        /\ \A c \in Notes : RefundOf(c)' = RefundOf(c)
    BY <1>2, <2>1, SumsKept
  <2>3. OwedPaid(h)' = 0 /\ OwedCredit(h)' = 0 /\ OwedRefund(h)' = 0
    BY <1>1, <1>5, Kinds DEF OwedPaid, OwedCredit, OwedRefund
  <2>4. \A c \in Notes : OwedNote(h, c)' = 0 BY <1>1, <1>5, Kinds DEF OwedNote
  <2> QED BY <1>3, <1>4, <1>n, <2>2, <2>3, <2>4 DEF Booked
<1>6. CASE d # Inv
  <2>1. /\ n \in Nat
        /\ Paid' = IF d \in Payments THEN Paid + owed ELSE Paid
        /\ Credited' = IF d \in Notes THEN Credited + owed ELSE Credited
        /\ Refunded' = IF d \in Refunds THEN Refunded + owed ELSE Refunded
        /\ \A c \in Notes : RefundOf(c)' = IF d \in Refunds /\ source[d] = c
                                           THEN RefundOf(c) + owed ELSE RefundOf(c)
    <3> DEFINE old == IF InForce(d) THEN n ELSE 0
               new == IF InForce(d)' THEN n ELSE 0
    <3>1. /\ n \in Nat
          /\ Paid' = IF d \in Payments THEN Paid - old + new ELSE Paid
          /\ Credited' = IF d \in Notes THEN Credited - old + new ELSE Credited
          /\ Refunded' = IF d \in Refunds THEN Refunded - old + new ELSE Refunded
          /\ \A c \in Notes : RefundOf(c)' = IF d \in Refunds /\ source[d] = c
                                             THEN RefundOf(c) - old + new ELSE RefundOf(c)
      BY <1>6, ForceCounts
    <3>2. /\ a = "approve" => old = 0 /\ new = n
          /\ a = "cancel" => old = n /\ new = 0
      BY <1>6
    <3> HIDE DEF n, old, new
    <3>3. \A x \in Nat : x - old + new = x + owed BY <3>1, <3>2
    <3> QED BY <1>n, <3>1, <3>3
  <2>2. /\ d \in Payments => long = IF v.applied = 0 THEN 3 ELSE 5
        /\ d \in Notes => long = 4
        /\ d \in Refunds => long \in Nat /\ long >= 6
    BY <1>1, <1>6, Kinds, LenProperties DEF Longest
  <2> HIDE DEF long
  <2>3. OwedPaid(h)' = IF d \in Payments THEN owed ELSE 0
    BY <1>1, <2>1, <2>2, Kinds DEF OwedPaid
  <2>4. OwedCredit(h)' = IF d \in Notes THEN owed ELSE 0
    BY <1>1, <1>2, <2>1, <2>2, Kinds DEF OwedCredit
  <2>5. OwedRefund(h)' = IF d \in Refunds THEN owed ELSE 0
    BY <1>1, <2>1, <2>2, Kinds DEF OwedRefund
  <2>6. \A c \in Notes : OwedNote(h, c)' = IF d \in Refunds /\ source[d] = c THEN owed ELSE 0
    BY <1>1, <1>2, <2>1, <2>2, Kinds DEF OwedNote
  <2>7. owed \in Int BY <2>1
  <2> HIDE DEF owed, n
  <2> QED BY <1>3, <1>4, <1>n, <2>1, <2>3, <2>4, <2>5, <2>6, <2>7 DEF Booked
<1> QED BY <1>5, <1>6

\* What the start of an effect leaves.
LEMMA BegunFacts ==
  ASSUME IInv, Orderly, NEW h \in Handlers, NEW d \in Docs,
         NEW a \in {"approve", "cancel"}, NEW due \in BOOLEAN, NEW v, Begins(h, d, a, v, due)
  PROVE  /\ doc'[h] = d /\ act'[h] = a /\ seen'[h] = links[d] /\ row'[d] = v /\ due
         /\ d \in Notes \cup Refunds => v.amount > 0
         /\ \A e \in Docs, b \in {"approve", "cancel"}, k \in {1, 2} :
              ~StillDoes(e, b, k) /\ (StillDoes(e, b, k)' <=> e = d /\ b = a)
<1> DEFINE c == OwnCopy(d, a, v)
           steps == Effect(d, a, v)
           long == Longest(d, a, v, share[d])
<1>1. c = OwnCopy(d, a, v) /\ steps = Effect(d, a, v) /\ long = Longest(d, a, v, share[d])
  OBVIOUS
<1> HIDE DEF c, steps, long
<1> QED BY <1>1, EffectBegins

\* An approval in the last stage.
LEMMA ApproveStarts ==
  ASSUME IInv, IInv', Orderly, NEW h \in Handlers, NEW d \in Docs, Approve(h, d), clean'
  PROVE  Orderly'
<1> DEFINE s == ApprovedState(d)
           v == [row[d] EXCEPT !.status = s]
<1>1. /\ row[d].status = "submitted" /\ row' = [row EXCEPT ![d] = v] /\ approved' = approved \cup {d}
      /\ Start(h, d, "approve", OwnCopy(d, "approve", v), Effect(d, "approve", v), TRUE)
      /\ UNCHANGED <<submitted, staged, source, share, payLinks, links, posted>>
  BY DEF Approve
<1>2. s \in Statuses /\ s \notin {"none", "submitted", "rejected", "cancelled"}
  BY DEF Statuses, ApprovedState
<1>3. /\ v \in Row /\ v.status = s /\ v.amount = row[d].amount /\ v.applied = row[d].applied
      /\ v.credited = row[d].credited /\ v.refunded = row[d].refunded
  BY <1>2, StatusOnly
<1>4. Bounded(d, v)
  <2>1. Sound(d, row[d], source, approved) BY DEF IInv, RowsSound
  <2> QED BY <1>1, <1>2, <2>1, StatusRow DEF Sound
<1> HIDE DEF v, s
<1>5. Begins(h, d, "approve", v, TRUE) BY <1>1, <1>3, <1>4 DEF Begins
<1>a. /\ doc'[h] = d /\ act'[h] = "approve" /\ seen'[h] = links[d] /\ row'[d] = v
      /\ d \in Notes \cup Refunds => v.amount > 0
      /\ \A e \in Docs, b \in {"approve", "cancel"}, k \in {1, 2} :
           ~StillDoes(e, b, k) /\ (StillDoes(e, b, k)' <=> e = d /\ b = "approve")
  BY <1>5, BegunFacts, ZenonT(40)
<1>6. /\ doc'[h] = d /\ act'[h] = "approve" /\ seen'[h] = links[d] /\ row'[d] = v
      /\ ~StillDoes(d, "cancel", 1)' /\ ~StillDoes(d, "cancel", 2)'
      /\ StillDoes(d, "approve", 1)' /\ StillDoes(d, "approve", 2)'
      /\ d \in Notes \cup Refunds => v.amount > 0
  BY <1>a
<1>7. d # Inv => /\ d \notin approved /\ d \in submitted /\ PostingsFit(d)
  BY <1>1 DEF Orderly, RowsFit, DocFits
<1>8. d \in approved' /\ InForce(d)' BY <1>1, <1>2, <1>3, <1>6 DEF InForce
<1>9. d # Inv => PostingsFit(d)'
  BY <1>1, <1>6, <1>7, <1>8 DEF PostingsFit
<1>10. d # Inv => seen'[h] = {}
  <2>1. d # Inv => links[d] \subseteq Reasons /\ "issue" \notin links[d] /\ "reversal" \notin links[d]
    BY <1>7 DEF PostingsFit, IInv, TypeOK
  <2> QED BY <1>6, <2>1 DEF Reasons
<1>11. DoneFor(h)' BY <1>6, <1>8, <1>10 DEF DoneFor
<1>12. Booked(h)'
  <2>1. d # Inv => ~InForce(d) /\ InForce(d)' BY <1>7, <1>8 DEF InForce
  <2> QED BY <1>5, <2>1, AllOwed
<1>13. d # Inv => DocFits(d, v, approved', submitted)
  BY <1>2, <1>3, <1>6, <1>8 DEF DocFits
<1> QED BY <1>5, <1>7, <1>8, <1>9, <1>11, <1>12, <1>13, EffectStarts

\* A cancellation of a document that was approved.
LEMMA CancelStarts ==
  ASSUME IInv, IInv', Orderly, NEW h \in Handlers, NEW d \in Docs, Cancel(h, d), clean'
  PROVE  Orderly'
<1> DEFINE s == "cancelled"
           v == [row[d] EXCEPT !.status = s]
           due == d \in approved
<1>1. /\ d \notin Notes /\ row' = [row EXCEPT ![d] = v]
      /\ Start(h, d, "cancel", OwnCopy(d, "cancel", v), Effect(d, "cancel", v), due)
      /\ UNCHANGED <<submitted, approved, staged, source, share, payLinks, links, posted>>
  BY DEF Cancel, docVars
<1>2. s \in Statuses /\ row[d].status \notin {"none", "cancelled"}
  BY DEF Cancel, CancelAllowed, Statuses, ApprovedState
<1>3. /\ v \in Row /\ v.status = s /\ v.amount = row[d].amount /\ v.applied = row[d].applied
      /\ v.credited = row[d].credited /\ v.refunded = row[d].refunded
  BY <1>2, StatusOnly
<1>4. Bounded(d, v)
  <2>1. Sound(d, row[d], source, approved) BY DEF IInv, RowsSound
  <2> QED BY <1>1, <1>2, <2>1, StatusRow DEF Sound
<1>d. due \in BOOLEAN OBVIOUS
<1> HIDE DEF v, due
<1>5. Begins(h, d, "cancel", v, due) BY <1>1, <1>2, <1>3, <1>4 DEF Begins
<1>6. /\ doc'[h] = d /\ act'[h] = "cancel" /\ seen'[h] = links[d] /\ row'[d] = v /\ due
      /\ d \in Notes \cup Refunds => v.amount > 0
      /\ \A e \in Docs, b \in {"approve", "cancel"}, k \in {1, 2} :
           ~StillDoes(e, b, k) /\ (StillDoes(e, b, k)' <=> e = d /\ b = "cancel")
  BY <1>5, <1>d, BegunFacts
<1>6a. /\ ~StillDoes(d, "approve", 1)' /\ ~StillDoes(d, "approve", 2)'
       /\ StillDoes(d, "cancel", 1)' /\ StillDoes(d, "cancel", 2)'
       /\ ~StillDoes(d, "approve", 1) /\ ~StillDoes(d, "approve", 2)
  BY <1>6
<1>7. d # Inv => /\ d \in approved /\ d \in submitted /\ PostingsFit(d)
  BY <1>6 DEF Orderly, RowsFit, due
<1>8. InForce(d) /\ ~InForce(d)'
  <2>1. d \in approved BY <1>6 DEF due
  <2>2. row[d].status # "cancelled" /\ row'[d].status = "cancelled" BY <1>2, <1>3, <1>6
  <2> QED BY <1>1, <2>1, <2>2 DEF InForce
<1>9. d # Inv => PostingsFit(d)'
  BY <1>1, <1>6a, <1>7, <1>8 DEF PostingsFit
<1>10. d # Inv => seen'[h] = {"issue"}
  <2>1. d # Inv => links[d] \subseteq Reasons /\ "issue" \in links[d] /\ "reversal" \notin links[d]
    BY <1>6a, <1>7, <1>8 DEF PostingsFit, IInv, TypeOK
  <2> QED BY <1>6, <2>1 DEF Reasons
<1>11. DoneFor(h)' BY <1>1, <1>6, <1>7, <1>8, <1>10 DEF DoneFor
<1>12. Booked(h)' BY <1>5, <1>d, <1>8, AllOwed
<1>13. d # Inv => DocFits(d, v, approved', submitted)
  BY <1>1, <1>3, <1>6, <1>7 DEF DocFits, ApprovedState
<1> QED BY <1>1, <1>5, <1>d, <1>7, <1>9, <1>11, <1>12, <1>13, EffectStarts

\* AllocatePaymentReceipt: its statements, from the end.
LEMMA AllocationSteps ==
  ASSUME NEW p \in Payments, NEW n \in 1..Total, NEW e,
         e = << <<"read", Inv, n>>, <<"save", p, 0>> >> \o OnInvoice(n)
  PROVE  /\ e \in Seq(Step) /\ Len(e) = 4
         /\ \A k \in 1..4 : FromEnd(e, k) = AllocationPlan(p, n, k)
         /\ FromEnd(e, 1) = <<"save", Inv, n>>
<1> DEFINE x == <<"read", Inv, n>>
           y == <<"save", p, 0>>
           b == <<x, y>>
           O == OnInvoice(n)
<1>1. x \in Step /\ y \in Step BY TotalIsNat, StepTriples, Kinds
<1>2. e = Then(b, O) BY DEF Then
<1>3. O \in Seq(Step) /\ Len(O) = 2 /\ FromEnd(O, 1) = <<"save", Inv, n>> /\ FromEnd(O, 2) = <<"read", Inv, n>>
  BY OnInvoiceSteps
<1>4. b \in Seq(Step) /\ Len(b) = 2 /\ FromEnd(b, 1) = y /\ FromEnd(b, 2) = x
  <2> HIDE DEF x, y
  <2> QED BY <1>1, ShortSteps, Zenon
<1> HIDE DEF b, O
<1>5. AddsTwo(e, b, O) BY <1>2, <1>3, <1>4, EndOfTwo
<1>6. /\ e \in Seq(Step) /\ Len(e) = 4
      /\ FromEnd(e, 1) = <<"save", Inv, n>> /\ FromEnd(e, 2) = <<"read", Inv, n>>
      /\ FromEnd(e, 3) = y /\ FromEnd(e, 4) = x
  BY <1>3, <1>4, <1>5 DEF AddsTwo
<1>7. ASSUME NEW k \in 1..4 PROVE FromEnd(e, k) = AllocationPlan(p, n, k)
  <2>1. k = 1 \/ k = 2 \/ k = 3 \/ k = 4 OBVIOUS
  <2> QED BY <1>6, <2>1 DEF AllocationPlan
<1> QED BY <1>6, <1>7

\* An allocation of a payment in force.
LEMMA AllocateStarts ==
  ASSUME IInv, IInv', Orderly, NEW h \in Handlers, NEW p \in Payments, NEW n \in 1..Total,
         AllocatePayment(h, p, n), clean'
  PROVE  Orderly'
<1> DEFINE v == row[p]
           c == [v EXCEPT !.applied = @ + n, !.balance = @ - n]
           e == << <<"read", Inv, n>>, <<"save", p, 0>> >> \o OnInvoice(n)
           due == v.status = "received"
<1>1. /\ Start(h, p, "allocate", c, e, due) /\ n <= v.balance /\ v.status \notin {"none", "cancelled"}
      /\ UNCHANGED <<row, submitted, approved, staged, source, share, payLinks, links, posted>>
  BY DEF AllocatePayment, docVars
<1>2. /\ e \in Seq(Step) /\ Len(e) = 4
      /\ \A k \in 1..4 : FromEnd(e, k) = AllocationPlan(p, n, k)
      /\ FromEnd(e, 1) = <<"save", Inv, n>>
  <2> HIDE DEF e
  <2> QED BY AllocationSteps DEF e
<1>3. /\ c \in Row /\ c.applied = v.applied + n /\ c.amount = v.amount /\ c.status = v.status
  <2>1. Sound(p, v, source, approved) /\ v \in Row /\ p \in Docs BY Kinds DEF IInv, RowsSound, Sound
  <2>2. /\ v.amount \in 0..Total /\ v.applied \in 0..Total /\ v.balance \in 0..Total
        /\ v.applied + v.balance <= v.amount
    BY <1>1, <2>1, RowFields DEF Sound, Bounded
  <2> DEFINE k == v.applied + n
             l == v.balance - n
  <2>3. k \in 0..Total /\ l \in 0..Total BY <1>1, <2>2, TotalIsNat
  <2>4. c = [v EXCEPT !.applied = k, !.balance = l] OBVIOUS
  <2> HIDE DEF k, l
  <2>5. c \in Row /\ c.applied = k /\ c.amount = v.amount /\ c.status = v.status
    BY <2>1, <2>3, <2>4 DEF Row
  <2> QED BY <2>5 DEF k
<1>4. due \in BOOLEAN /\ p \in Docs \ {Inv} /\ Len(e) >= 2 BY <1>2, Kinds
<1> HIDE DEF c, e, due
<1>s. /\ Start(h, p, "allocate", c, e, due) /\ e \in Seq(Step) /\ c \in Row /\ p \in Docs
      /\ Len(e) >= 2 /\ due \in BOOLEAN /\ "allocate" \in {"approve", "cancel", "allocate"}
  BY <1>1, <1>2, <1>3, <1>4
<1>5. /\ Settled /\ due
      /\ doc'[h] = p /\ act'[h] = "allocate" /\ todo'[h] = e /\ held'[h][p] = c
      /\ Left(h)' = Len(e) /\ Head(todo'[h]) = FromEnd(e, Len(e))
      /\ \A d \in Docs, b \in {"approve", "cancel"}, k \in {1, 2} :
           ~StillDoes(d, b, k) /\ (StillDoes(d, b, k)' <=> d = p /\ b = "allocate")
  BY <1>s, StartAlone
<1>6. p \in approved /\ InForce(p) /\ DocFits(p, row[p], approved, submitted)
  <2>1. DocFits(p, row[p], approved, submitted) BY <1>4 DEF Orderly, RowsFit
  <2> QED BY <1>5, <2>1, Kinds DEF due, DocFits, ApprovedState, InForce
<1>7. PostingsFit(p)'
  <2>1. PostingsFit(p) BY <1>4 DEF Orderly
  <2>2. /\ ~StillDoes(p, "approve", 1) /\ ~StillDoes(p, "approve", 2)
        /\ ~StillDoes(p, "cancel", 1) /\ ~StillDoes(p, "cancel", 2)
        /\ ~StillDoes(p, "approve", 1)' /\ ~StillDoes(p, "approve", 2)'
        /\ ~StillDoes(p, "cancel", 1)' /\ ~StillDoes(p, "cancel", 2)'
    BY <1>4, <1>5
  <2>3. InForce(p)' <=> InForce(p) BY <1>1 DEF InForce
  <2> QED BY <1>1, <2>1, <2>2, <2>3 DEF PostingsFit
<1>8. RowsFit' BY <1>1 DEF Orderly, RowsFit
<1>9. \A d \in Docs \ {Inv} : SameForce(d) BY <1>1 DEF SameForce, InForce
<1>10. Left(h)' = 4 /\ Allocated(h)' = n
  <2>1. FromEnd(e, 1)[3] = n BY <1>2
  <2> QED BY <1>2, <1>5, <2>1 DEF Allocated
<1>11. DoneFor(h)'
  <2>1. InForce(p)' BY <1>1, <1>6 DEF InForce
  <2> QED BY <1>1, <1>5, <1>6, <2>1, Kinds DEF DoneFor
<1>12. Planned(h)' BY <1>2, <1>5, <1>10 DEF Planned
<1>13. Booked(h)'
  <2>1. Paid' = Paid /\ Credited' = Credited /\ Refunded' = Refunded
        /\ \A x \in Notes : RefundOf(x)' = RefundOf(x)
    BY <1>1, <1>9, SumsKept
  <2>2. /\ OwedPaid(h)' = 0 /\ OwedCredit(h)' = 0 /\ OwedRefund(h)' = 0
        /\ \A x \in Notes : OwedNote(h, x)' = 0
    BY <1>5, <1>10, Kinds DEF OwedPaid, OwedCredit, OwedRefund, OwedNote
  <2>3. /\ row[Inv].applied = Paid /\ row[Inv].credited = Credited /\ row[Inv].refunded = Refunded
        /\ \A x \in Notes : row[x].refunded = RefundOf(x)
    BY <1>5 DEF Settled
  <2>4. Paid \in Nat /\ Credited \in Nat /\ Refunded \in Nat /\ \A x \in Notes : RefundOf(x) \in Nat
    BY SumNumbers DEF IInv
  <2> QED BY <1>1, <2>1, <2>2, <2>3, <2>4 DEF Booked
<1>14. CopyFits(h)'
  <2>1. Head(todo'[h])[1] = "read"
    <3>1. Head(todo'[h]) = AllocationPlan(p, n, 4)
      <4>1. 4 \in 1..4 OBVIOUS
      <4> QED BY <1>2, <1>5, <4>1
    <3>2. AllocationPlan(p, n, 4) = <<"read", Inv, n>> BY DEF AllocationPlan
    <3> QED BY <3>1, <3>2
  <2>2. ~Runs(h, "save")' BY <2>1 DEF Runs
  <2>3. OwnFits(h)'
    <3>1. DocFits(p, c, approved, submitted) BY <1>3, <1>6, Kinds DEF DocFits
    <3>2. c.status # "cancelled" BY <1>3, <1>5 DEF due
    <3> QED BY <1>1, <1>3, <1>5, <1>10, <3>1, <3>2 DEF OwnFits
  <2> QED BY <1>5, <2>2, <2>3, Kinds DEF CopyFits
<1>15. OnTrack(h)' BY <1>11, <1>12, <1>13, <1>14 DEF OnTrack
<1>16. links' = links /\ posted' = posted
       /\ \A d \in Docs \ {Inv, p} : SameForce(d) /\ (d \in approved' <=> d \in approved)
  BY <1>1, <1>9
<1> QED BY <1>s, <1>7, <1>8, <1>15, <1>16, StartKeeps

-----------------------------------------------------------------------------
(***************************************************************************)
(* The statements of an effect that runs alone.                            *)
(***************************************************************************)

\* A busy handler.
LEMMA BusyFacts ==
  ASSUME IInv, Orderly, NEW h \in Handlers, Busy(h)
  PROVE  /\ OnTrack(h) /\ doc[h] \in Docs /\ todo[h] \in Seq(Step)
         /\ Left(h) \in Nat \ {0} /\ Len(todo[h]) = Left(h) /\ Head(todo[h]) = FromEnd(todo[h], Left(h))
         /\ Head(todo[h]) = <<Head(todo[h])[1], Subject(h), Amount(h)>>
         /\ \A g \in Handlers : g # h => todo[g] = << >>
         /\ \A e, b : \A k \in {1, 2} :
              StillDoes(e, b, k) <=> doc[h] = e /\ act[h] = b /\ Left(h) >= k
<1>1. /\ todo[h] \in Seq(Step) /\ Len(todo[h]) \in Nat \ {0} /\ todo[h][1] \in Step
      /\ Head(todo[h]) = todo[h][1]
  BY HeadFacts DEF IInv, Busy
<1>2. OnTrack(h) /\ doc[h] \in Docs BY DEF Orderly, IInv, TypeOK
<1>3. \A g \in Handlers : g # h => todo[g] = << >> BY DEF Orderly, OneBusy, Busy
<1>4. \A g \in Handlers : g # h => Left(g) = 0 BY <1>3, EmptySeq DEF Left
<1>5. ASSUME NEW e, NEW b, NEW k \in {1, 2}
      PROVE  StillDoes(e, b, k) <=> doc[h] = e /\ act[h] = b /\ Left(h) >= k
  BY <1>4 DEF StillDoes
<1>6. Head(todo[h]) = <<Head(todo[h])[1], Subject(h), Amount(h)>>
  BY <1>1 DEF Step, Subject, Amount
<1>7. Head(todo[h]) = FromEnd(todo[h], Left(h)) BY <1>1, HeadFromEnd DEF Left
<1> QED BY <1>1, <1>2, <1>3, <1>5, <1>6, <1>7 DEF Left

\* One statement fewer.
LEMMA TailFromEnd ==
  ASSUME NEW s \in Seq(Step), Len(s) >= 2
  PROVE  /\ Tail(s) \in Seq(Step) /\ Len(Tail(s)) = Len(s) - 1 /\ Tail(s) # << >>
         /\ \A k \in 1..(Len(s) - 1) : FromEnd(Tail(s), k) = FromEnd(s, k)
         /\ Head(Tail(s)) = FromEnd(s, Len(s) - 1)
<1>1. Len(s) \in Nat BY LenProperties
<1>2. s # << >> BY <1>1, EmptySeq
<1>3. /\ Tail(s) \in Seq(Step) /\ Len(Tail(s)) = Len(s) - 1
      /\ \A i \in 1..Len(Tail(s)) : Tail(s)[i] = s[i + 1]
  BY <1>2, HeadTailProperties
<1> DEFINE t == Tail(s)
<1> HIDE DEF t
<1>4. t \in Seq(Step) /\ Len(t) = Len(s) - 1 /\ \A i \in 1..Len(t) : t[i] = s[i + 1]
  BY <1>3 DEF t
<1>5. ASSUME NEW k \in 1..(Len(s) - 1) PROVE FromEnd(t, k) = FromEnd(s, k)
  <2>1. Len(t) + 1 - k \in 1..Len(t) /\ (Len(t) + 1 - k) + 1 = Len(s) + 1 - k BY <1>1, <1>4
  <2> QED BY <1>4, <2>1 DEF FromEnd
<1>6. t # << >> /\ Head(t) = FromEnd(t, Len(t)) BY <1>1, <1>4, HeadFromEnd
<1>7. Len(t) \in 1..(Len(s) - 1) BY <1>1, <1>4
<1> QED BY <1>4, <1>5, <1>6, <1>7 DEF t

\* What a statement that is not the last leaves of the handlers.
LEMMA Moves ==
  ASSUME IInv, Orderly, NEW h \in Handlers, Busy(h), Left(h) >= 2,
         todo' = [todo EXCEPT ![h] = Tail(todo[h])]
  PROVE  /\ todo'[h] # << >> /\ OneBusy' /\ ~Quiet' /\ \A g \in Handlers : Busy(g)' => g = h
         /\ Left(h)' = Left(h) - 1 /\ Len(todo'[h]) = Left(h) - 1
         /\ \A k \in 1..(Left(h) - 1) : FromEnd(todo'[h], k) = FromEnd(todo[h], k)
         /\ Head(todo'[h]) = FromEnd(todo[h], Left(h) - 1) /\ Allocated(h)' = Allocated(h)
         /\ \A g \in Handlers : g # h => todo'[g] = << >>
<1>1. /\ todo[h] \in Seq(Step) /\ Left(h) \in Nat /\ Len(todo[h]) = Left(h)
      /\ \A g \in Handlers : g # h => todo[g] = << >>
  BY BusyFacts
<1>2. /\ todo'[h] = Tail(todo[h]) /\ \A g \in Handlers : g # h => todo'[g] = << >>
  BY <1>1 DEF IInv, TypeOK
<1>3. /\ Tail(todo[h]) \in Seq(Step) /\ Len(Tail(todo[h])) = Left(h) - 1 /\ Tail(todo[h]) # << >>
      /\ \A k \in 1..(Left(h) - 1) : FromEnd(Tail(todo[h]), k) = FromEnd(todo[h], k)
      /\ Head(Tail(todo[h])) = FromEnd(todo[h], Left(h) - 1)
  BY <1>1, TailFromEnd
<1>4. Left(h)' = Left(h) - 1 BY <1>2, <1>3 DEF Left
<1>5. Allocated(h)' = Allocated(h)
  <2>1. 1 \in 1..(Left(h) - 1) BY <1>1
  <2>2. FromEnd(todo'[h], 1) = FromEnd(todo[h], 1) BY <1>2, <1>3, <2>1
  <2> QED BY <2>2 DEF Allocated
<1>6. OneBusy' /\ ~Quiet' /\ \A g \in Handlers : Busy(g)' => g = h
  BY <1>2, <1>3 DEF OneBusy, Quiet, Busy
<1> QED BY <1>2, <1>3, <1>4, <1>5, <1>6

\* What a statement that is not the last one must leave.
LEMMA MoveKeeps ==
  ASSUME IInv, Orderly, NEW h \in Handlers, Busy(h), Left(h) >= 2,
         todo' = [todo EXCEPT ![h] = Tail(todo[h])],
         UNCHANGED <<submitted, approved, source, share, doc, act, seen>>,
         RowsFit', \A d \in Docs \ {Inv} : SameForce(d), \A d \in Docs \ {Inv} : PostingsFit(d)',
         doc[h] \in Payments /\ act[h] # "allocate" => row'[doc[h]].applied = row[doc[h]].applied,
         doc[h] \in Notes \cup Refunds => row'[doc[h]].amount = row[doc[h]].amount,
         Booked(h)', CopyFits(h)'
  PROVE  Orderly'
<1>1. OnTrack(h) /\ doc[h] \in Docs /\ Left(h) \in Nat BY BusyFacts
<1>2. /\ OneBusy' /\ ~Quiet' /\ \A g \in Handlers : Busy(g)' => g = h
      /\ Left(h)' = Left(h) - 1
      /\ \A k \in 1..(Left(h) - 1) : FromEnd(todo'[h], k) = FromEnd(todo[h], k)
      /\ Allocated(h)' = Allocated(h)
  BY Moves
<1>3. DoneFor(h)'
  <2>1. doc[h] # Inv => SameForce(doc[h]) BY <1>1
  <2> QED BY <1>1, <2>1 DEF OnTrack, DoneFor, SameForce
<1>4. Planned(h)'
  <2>1. CASE act[h] = "allocate"
    <3>1. /\ Left(h) <= 4 /\ Allocated(h) \in 1..Total
          /\ \A k \in 1..Left(h) : FromEnd(todo[h], k) = AllocationPlan(doc[h], Allocated(h), k)
      BY <1>1, <2>1 DEF OnTrack, Planned
    <3>2. /\ Left(h)' <= 4 /\ Allocated(h)' \in 1..Total
          /\ \A k \in 1..Left(h)' :
               FromEnd(todo'[h], k) = AllocationPlan(doc'[h], Allocated(h)', k)
      BY <1>1, <1>2, <3>1
    <3> QED BY <2>1, <3>2 DEF Planned
  <2>2. CASE act[h] # "allocate"
    <3>0. /\ doc[h] \in Payments => row'[doc[h]].applied = row[doc[h]].applied
          /\ doc[h] \in Notes \cup Refunds => row'[doc[h]].amount = row[doc[h]].amount
      BY <2>2
    <3>1. /\ Longest(doc[h], act[h], row'[doc[h]], share[doc[h]]) =
               Longest(doc[h], act[h], row[doc[h]], share[doc[h]])
          /\ \A k : Plan(doc[h], act[h], row'[doc[h]], source[doc[h]], share[doc[h]], k) =
                      Plan(doc[h], act[h], row[doc[h]], source[doc[h]], share[doc[h]], k)
      BY <1>1, <3>0, Kinds DEF Longest, Plan
    <3>2. /\ Left(h) <= Longest(doc[h], act[h], row[doc[h]], share[doc[h]])
          /\ \A k \in 1..Left(h) :
               FromEnd(todo[h], k) = Plan(doc[h], act[h], row[doc[h]], source[doc[h]], share[doc[h]], k)
      BY <1>1, <2>2 DEF OnTrack, Planned
    <3>n. Longest(doc[h], act[h], row[doc[h]], share[doc[h]]) \in Int
      <4>1. doc[h] \in Refunds => Len(share[doc[h]]) \in Nat BY LenProperties DEF IInv, TypeOK
      <4> QED BY <1>1, <4>1, Kinds DEF Longest
    <3>3. /\ Left(h)' <= Longest(doc'[h], act'[h], row'[doc'[h]], share'[doc'[h]])
          /\ \A k \in 1..Left(h)' :
               FromEnd(todo'[h], k) =
                 Plan(doc'[h], act'[h], row'[doc'[h]], source'[doc'[h]], share'[doc'[h]], k)
      BY <1>1, <1>2, <3>1, <3>2, <3>n
    <3> QED BY <2>2, <3>3 DEF Planned
  <2> QED BY <2>1, <2>2
<1>5. OnTrack(h)' BY <1>3, <1>4 DEF OnTrack
<1> QED BY <1>2, <1>5 DEF Orderly

\* Postings are looked at by the last two statements only.
LEMMA PostingsStay ==
  ASSUME IInv, Orderly, NEW h \in Handlers, Busy(h), Left(h) >= 2,
         Left(h) >= 3 \/ act[h] = "allocate",
         todo' = [todo EXCEPT ![h] = Tail(todo[h])],
         UNCHANGED <<approved, doc, act, links, posted>>,
         \A d \in Docs \ {Inv} : SameForce(d)
  PROVE  \A d \in Docs \ {Inv} : PostingsFit(d)'
<1>1. /\ Left(h) \in Nat
      /\ \A e, b : \A k \in {1, 2} :
           StillDoes(e, b, k) <=> doc[h] = e /\ act[h] = b /\ Left(h) >= k
  BY BusyFacts
<1>2. Left(h)' = Left(h) - 1 /\ \A g \in Handlers : g # h => todo'[g] = << >>
  BY Moves
<1>3. \A g \in Handlers : g # h => Left(g)' = 0 BY <1>2, EmptySeq DEF Left
<1>4. ASSUME NEW e, NEW b \in {"approve", "cancel"}, NEW k \in {1, 2}
      PROVE  StillDoes(e, b, k)' <=> StillDoes(e, b, k)
  <2>1. StillDoes(e, b, k)' <=> \E g \in Handlers : doc'[g] = e /\ act'[g] = b /\ Left(g)' >= k
    BY DEF StillDoes
  <2>2. StillDoes(e, b, k)' <=> doc[h] = e /\ act[h] = b /\ Left(h) - 1 >= k
    BY <1>1, <1>2, <1>3, <2>1
  <2> QED BY <1>1, <2>2
<1>5. ASSUME NEW d \in Docs \ {Inv} PROVE PostingsFit(d)'
  <2>1. PostingsFit(d) /\ (InForce(d)' <=> InForce(d)) BY DEF Orderly, SameForce
  <2>2. /\ StillDoes(d, "approve", 1)' <=> StillDoes(d, "approve", 1)
        /\ StillDoes(d, "approve", 2)' <=> StillDoes(d, "approve", 2)
        /\ StillDoes(d, "cancel", 1)' <=> StillDoes(d, "cancel", 1)
        /\ StillDoes(d, "cancel", 2)' <=> StillDoes(d, "cancel", 2)
    BY <1>4
  <2> QED BY <2>1, <2>2 DEF PostingsFit
<1> QED BY <1>5

\* The end of the effect.
LEMMA EndKeeps ==
  ASSUME IInv, Orderly, NEW h \in Handlers, Busy(h), Done(h), RowsFit', Settled',
         \A d \in Docs \ {Inv} :
           (\A b \in {"approve", "cancel"}, k \in {1, 2} : ~StillDoes(d, b, k)') => PostingsFit(d)'
  PROVE  Orderly'
<1>1. \A g \in Handlers : todo'[g] = << >>
  <2>1. \A g \in Handlers : g # h => todo[g] = << >> BY BusyFacts
  <2>2. todo' = [todo EXCEPT ![h] = << >>] BY DEF Done
  <2> QED BY <2>1, <2>2 DEF IInv, TypeOK
<1>2. OneBusy' /\ \A g \in Handlers : ~Busy(g)' BY <1>1 DEF OneBusy, Busy
<1>3. \A g \in Handlers : Left(g)' = 0 BY <1>1, EmptySeq DEF Left
<1>4. \A e \in Docs, b \in {"approve", "cancel"}, k \in {1, 2} : ~StillDoes(e, b, k)' BY <1>3 DEF StillDoes
<1>5. \A d \in Docs \ {Inv} : PostingsFit(d)' BY <1>4
<1> QED BY <1>2, <1>5 DEF Orderly

-----------------------------------------------------------------------------
(***************************************************************************)
(* The statements of an effect, by their place.                            *)
(***************************************************************************)
\* The statement s and the one t that follows it, k statements from the end, of an
\* effect that was planned for d.
PaymentReads(d, a, n, k, s, t) ==
  /\ n # 0
  /\ \/ a = "approve" /\ k = 4 /\ t = <<"save", Inv, n>>
     \/ a = "cancel" /\ k = 5 /\ t = <<"save", Inv, n>>
  /\ s = <<"read", Inv, n>>

PaymentSaves(d, a, n, k, s, t) ==
  \/ a = "approve" /\ n = 0 /\ k = 3 /\ s = <<"save", d, 0>> /\ t = <<"post", d, 0>>
  \/ a = "approve" /\ n # 0 /\ k = 5 /\ s = <<"save", d, 0>> /\ t = <<"read", Inv, n>>
  \/ a = "approve" /\ n # 0 /\ k = 3 /\ s = <<"save", Inv, n>> /\ t = <<"post", d, 0>>
  \/ a = "cancel" /\ n # 0 /\ k = 4 /\ s = <<"save", Inv, n>> /\ t = <<"save", d, 0>>
  \/ a = "cancel" /\ k = 3 /\ s = <<"save", d, 0>> /\ t = <<"post", d, 0>>

\* These are all statements of a payment before the posting ...
LEMMA PaymentSteps ==
  ASSUME NEW d \in Payments, NEW a \in {"approve", "cancel"}, NEW v, NEW c, NEW sh,
         NEW k \in Nat, k >= 3, k <= Longest(d, a, v, sh),
         NEW s, s = Plan(d, a, v, c, sh, k), NEW t, t = Plan(d, a, v, c, sh, k - 1)
  PROVE  PaymentReads(d, a, v.applied, k, s, t) \/ PaymentSaves(d, a, v.applied, k, s, t)
<1> DEFINE n == v.applied
<1>1. k \in {3, 4, 5} /\ (n = 0 => k = 3) BY Kinds DEF Longest
<1>2. s = PaymentPlan(d, a, n, k) BY <1>1, Kinds DEF Plan
<1>3. t = IF k = 3 THEN <<"post", d, 0>> ELSE PaymentPlan(d, a, n, k - 1) BY <1>1, Kinds DEF Plan
<1> HIDE DEF n
<1>4. CASE k = 3
  <2>1. t = <<"post", d, 0>> BY <1>3, <1>4
  <2>2. s = IF a = "approve" /\ n # 0 THEN <<"save", Inv, n>> ELSE <<"save", d, 0>>
    BY <1>2, <1>4 DEF PaymentPlan
  <2> QED BY <1>4, <2>1, <2>2 DEF PaymentSaves, n
<1>5. CASE k = 4
  <2>1. s = IF a = "approve" THEN <<"read", Inv, n>> ELSE <<"save", Inv, n>>
    BY <1>1, <1>2, <1>5 DEF PaymentPlan
  <2>2. t = IF a = "approve" THEN <<"save", Inv, n>> ELSE <<"save", d, 0>>
    BY <1>1, <1>3, <1>5 DEF PaymentPlan
  <2> QED BY <1>1, <1>5, <2>1, <2>2 DEF PaymentSaves, PaymentReads, n
<1>6. CASE k = 5
  <2>1. s = IF a = "approve" THEN <<"save", d, 0>> ELSE <<"read", Inv, n>>
    BY <1>1, <1>2, <1>6 DEF PaymentPlan
  <2>2. t = IF a = "approve" THEN <<"read", Inv, n>> ELSE <<"save", Inv, n>>
    BY <1>1, <1>3, <1>6 DEF PaymentPlan
  <2> QED BY <1>1, <1>6, <2>1, <2>2 DEF PaymentSaves, PaymentReads, n
<1> QED BY <1>1, <1>4, <1>5, <1>6

\* The same for a credit note ...
LEMMA NoteSteps ==
  ASSUME NEW d \in Notes, NEW a, NEW v, NEW c, NEW sh,
         NEW k \in Nat, k >= 3, k <= Longest(d, a, v, sh),
         NEW s, s = Plan(d, a, v, c, sh, k), NEW t, t = Plan(d, a, v, c, sh, k - 1)
  PROVE  \/ k = 4 /\ s = <<"read", Inv, v.amount>> /\ t = <<"save", Inv, v.amount>>
         \/ k = 3 /\ s = <<"save", Inv, v.amount>> /\ t = <<"post", d, 0>>
<1>1. k \in {3, 4} BY Kinds DEF Longest
<1> QED BY <1>1, Kinds DEF Plan, NotePlan

\* ... and for a refund with m statements for its allocations.
RefundReads(d, a, n, c, m, k, s, t) ==
  \/ a = "approve" /\ k = m + 6 /\ s = <<"read", Inv, n>> /\ t[1] = "read"
  \/ a = "approve" /\ k = m + 5 /\ s = <<"read", c, n>>
                   /\ (t[1] = "read" \/ (k = 5 /\ t = <<"save", Inv, n>>))
  \/ a = "cancel" /\ k = 6 /\ s = <<"read", c, n>> /\ t = <<"save", c, n>>
  \/ a = "cancel" /\ k = 4 /\ s = <<"read", Inv, n>> /\ t = <<"save", Inv, n>>

RefundSaves(d, a, n, c, k, s, t) ==
  \/ a = "approve" /\ k = 4 /\ s = <<"save", Inv, n>> /\ t = <<"save", c, n>>
  \/ a = "approve" /\ k = 3 /\ s = <<"save", c, n>> /\ t = <<"post", d, 0>>
  \/ a = "cancel" /\ k = 5 /\ s = <<"save", c, n>> /\ t = <<"read", Inv, n>>
  \/ a = "cancel" /\ k = 3 /\ s = <<"save", Inv, n>> /\ t = <<"post", d, 0>>

RefundShares(a, n, m, k, s, t) ==
  /\ s[2] \in Payments /\ s[3] \in 1..Total
  /\ (a = "approve" /\ k \in 5..(m + 4)) \/ (a = "cancel" /\ k \in 7..(m + 6))
  /\ s[1] \in {"read", "save"}
  /\ s[1] = "read" => (a = "approve" => k > 5) /\ t[1] = "save" /\ t[2] = s[2]
  /\ s[1] = "save" => t[1] = "read" \/ (a = "approve" /\ k = 5 /\ t = <<"save", Inv, n>>)

\* These are all of them.
LEMMA RefundSteps ==
  ASSUME NEW d \in Refunds, NEW a \in {"approve", "cancel"}, NEW v, NEW c, NEW sh \in Seq(Share),
         NEW m, m = 2 * Len(sh),
         NEW k \in Nat, k >= 3, k <= Longest(d, a, v, sh),
         NEW s, s = Plan(d, a, v, c, sh, k), NEW t, t = Plan(d, a, v, c, sh, k - 1)
  PROVE  \/ RefundReads(d, a, v.amount, c, m, k, s, t)
         \/ RefundSaves(d, a, v.amount, c, k, s, t)
         \/ RefundShares(a, v.amount, m, k, s, t)
<1> DEFINE n == v.amount
<1>0. Len(sh) \in Nat /\ m \in Nat BY LenProperties
<1>1. k \in 3..(m + 6) BY <1>0, Kinds DEF Longest
<1>2. s = RefundPlan(a, n, c, sh, k) BY <1>1, Kinds DEF Plan
<1>3. t = IF k = 3 THEN <<"post", d, 0>> ELSE RefundPlan(a, n, c, sh, k - 1)
  BY <1>1, Kinds DEF Plan
<1> HIDE DEF n
\* The statements of the allocations.
<1>4. ASSUME NEW j \in 1..m
      PROVE  /\ SharePart(sh, j)[1] \in {"read", "save"} /\ SharePart(sh, j)[2] \in Payments
             /\ SharePart(sh, j)[3] \in 1..Total
             /\ SharePart(sh, j)[1] = "read" =>
                  /\ j > 1 /\ SharePart(sh, j - 1)[1] = "save"
                  /\ SharePart(sh, j - 1)[2] = SharePart(sh, j)[2]
             /\ SharePart(sh, j)[1] = "save" /\ j > 1 => SharePart(sh, j - 1)[1] = "read"
             /\ j = m => SharePart(sh, j)[1] = "read"
  <2>1. /\ SharePart(sh, j)[1] \in {"read", "save"} /\ SharePart(sh, j)[2] \in Payments
        /\ SharePart(sh, j)[3] \in 1..Total
        /\ SharePart(sh, j)[1] = "read" =>
             /\ j > 1 /\ SharePart(sh, j - 1)[1] = "save"
             /\ SharePart(sh, j - 1)[2] = SharePart(sh, j)[2]
    BY SharePartFacts
  <2>2. \A i : SharePart(sh, i)[1] = IF (2 * Len(sh) + 1 - i) % 2 = 1 THEN "read" ELSE "save"
    BY DEF SharePart
  <2>3. (2 * Len(sh) + 1 - j) % 2 # 1 => (2 * Len(sh) + 1 - (j - 1)) % 2 = 1 BY <1>0
  <2>4. j = m => (2 * Len(sh) + 1 - j) % 2 = 1 BY <1>0
  <2> QED BY <2>1, <2>2, <2>3, <2>4
<1>5. CASE a = "approve"
  <2>1. CASE k = 3
    <3>1. s = <<"save", c, n>> /\ t = <<"post", d, 0>> BY <1>2, <1>3, <1>5, <2>1 DEF RefundPlan
    <3> QED BY <1>5, <2>1, <3>1 DEF RefundSaves, n
  <2>2. CASE k = 4
    <3>1. s = <<"save", Inv, n>> /\ t = <<"save", c, n>>
      BY <1>2, <1>3, <1>5, <2>2 DEF RefundPlan
    <3> QED BY <1>5, <2>2, <3>1 DEF RefundSaves, n
  <2>3. CASE k \in 5..(m + 4)
    <3>1. k - 4 \in 1..m /\ (k - 1) - 4 = (k - 4) - 1 BY <1>0, <2>3
    <3>2. s = SharePart(sh, k - 4) BY <1>0, <1>2, <1>5, <2>3 DEF RefundPlan
    <3>3. k = 5 => t = <<"save", Inv, n>> BY <1>3, <1>5 DEF RefundPlan
    <3>4. k # 5 => t = SharePart(sh, (k - 4) - 1)
      <4>1. k # 5 => k - 1 \notin {3, 4} /\ k - 1 <= 2 * Len(sh) + 4 /\ k # 3 BY <1>0, <2>3
      <4> QED BY <1>3, <1>5, <3>1, <4>1 DEF RefundPlan
    <3>5. /\ s[1] \in {"read", "save"} /\ s[2] \in Payments /\ s[3] \in 1..Total
          /\ s[1] = "read" => k - 4 > 1 /\ SharePart(sh, (k - 4) - 1)[1] = "save"
                              /\ SharePart(sh, (k - 4) - 1)[2] = s[2]
          /\ s[1] = "save" /\ k - 4 > 1 => SharePart(sh, (k - 4) - 1)[1] = "read"
      BY <1>4, <3>1, <3>2
    <3>6. k # 5 => k - 4 > 1 /\ k > 5 BY <2>3
    <3>7. k - 4 > 1 => k # 5 BY <2>3
    <3> QED BY <1>5, <2>3, <3>3, <3>4, <3>5, <3>6, <3>7 DEF RefundShares, n
  <2>4. CASE k = m + 5
    <3>1. s = <<"read", c, n>> BY <1>0, <1>2, <1>5, <2>4 DEF RefundPlan
    <3>2. CASE m = 0
      <4>1. t = <<"save", Inv, n>> BY <1>3, <1>5, <2>4, <3>2 DEF RefundPlan
      <4> QED BY <1>5, <2>4, <3>1, <3>2, <4>1 DEF RefundReads, n
    <3>3. CASE m # 0
      <4>1. m \in 1..m /\ k - 1 = m + 4 /\ (k - 1) - 4 = m /\ k - 1 \notin {3, 4} /\ k # 3 BY <1>0, <2>4, <3>3
      <4>2. t = SharePart(sh, m) BY <1>3, <1>5, <4>1 DEF RefundPlan
      <4>3. t[1] = "read" BY <1>4, <4>1, <4>2
      <4> QED BY <1>5, <2>4, <3>1, <4>3 DEF RefundReads, n
    <3> QED BY <3>2, <3>3
  <2>5. CASE k = m + 6
    <3>1. s = <<"read", Inv, n>> BY <1>0, <1>2, <1>5, <2>5 DEF RefundPlan
    <3>2. t = <<"read", c, n>> BY <1>0, <1>3, <1>5, <2>5 DEF RefundPlan
    <3> QED BY <1>5, <2>5, <3>1, <3>2 DEF RefundReads, n
  <2> QED BY <1>0, <1>1, <2>1, <2>2, <2>3, <2>4, <2>5
<1>6. CASE a = "cancel"
  <2>1. CASE k = 3
    <3>1. s = <<"save", Inv, n>> /\ t = <<"post", d, 0>> BY <1>2, <1>3, <1>6, <2>1 DEF RefundPlan
    <3> QED BY <1>6, <2>1, <3>1 DEF RefundSaves, n
  <2>2. CASE k = 4
    <3>1. s = <<"read", Inv, n>> /\ t = <<"save", Inv, n>>
      BY <1>2, <1>3, <1>6, <2>2 DEF RefundPlan
    <3> QED BY <1>6, <2>2, <3>1 DEF RefundReads, n
  <2>3. CASE k = 5
    <3>1. s = <<"save", c, n>> /\ t = <<"read", Inv, n>>
      BY <1>2, <1>3, <1>6, <2>3 DEF RefundPlan
    <3> QED BY <1>6, <2>3, <3>1 DEF RefundSaves, n
  <2>4. CASE k = 6
    <3>1. s = <<"read", c, n>> /\ t = <<"save", c, n>>
      BY <1>2, <1>3, <1>6, <2>4 DEF RefundPlan
    <3> QED BY <1>6, <2>4, <3>1 DEF RefundReads, n
  <2>5. CASE k \in 7..(m + 6)
    <3>1. k - 6 \in 1..m /\ (k - 1) - 6 = (k - 6) - 1 BY <1>0, <2>5
    <3>2. s = SharePart(sh, k - 6) BY <1>0, <1>2, <1>6, <2>5 DEF RefundPlan
    <3>3. k = 7 => t[1] = "read"
      <4>1. k = 7 => t = <<"read", c, n>> BY <1>3, <1>6 DEF RefundPlan
      <4> QED BY <4>1
    <3>4. k # 7 => t = SharePart(sh, (k - 6) - 1)
      <4>1. k # 7 => k - 1 \notin {3, 4, 5, 6} /\ k # 3 BY <1>0, <2>5
      <4> QED BY <1>3, <1>6, <3>1, <4>1 DEF RefundPlan
    <3>5. /\ s[1] \in {"read", "save"} /\ s[2] \in Payments /\ s[3] \in 1..Total
          /\ s[1] = "read" => k - 6 > 1 /\ SharePart(sh, (k - 6) - 1)[1] = "save"
                              /\ SharePart(sh, (k - 6) - 1)[2] = s[2]
          /\ s[1] = "save" /\ k - 6 > 1 => SharePart(sh, (k - 6) - 1)[1] = "read"
      BY <1>4, <3>1, <3>2
    <3>6. k # 7 => k - 6 > 1 BY <2>5
    <3>7. k - 6 > 1 => k # 7 BY <2>5
    <3> QED BY <1>6, <2>5, <3>3, <3>4, <3>5, <3>6, <3>7 DEF RefundShares, n
  <2> QED BY <1>0, <1>1, <2>1, <2>2, <2>3, <2>4, <2>5
<1> QED BY <1>5, <1>6

\* ... and for an allocation.
AllocationMoves(p, n, k, s, t) ==
  \/ k = 4 /\ s = <<"read", Inv, n>> /\ t = <<"save", p, 0>>
  \/ k = 3 /\ s = <<"save", p, 0>> /\ t = <<"read", Inv, n>>
  \/ k = 2 /\ s = <<"read", Inv, n>> /\ t = <<"save", Inv, n>>
  \/ k = 1 /\ s = <<"save", Inv, n>>

NoteMoves(d, n, k, s, t) ==
  \/ k = 4 /\ s = <<"read", Inv, n>> /\ t = <<"save", Inv, n>>
  \/ k = 3 /\ s = <<"save", Inv, n>> /\ t = <<"post", d, 0>>

\* Which statement a busy handler executes, of whose effect.
LEMMA HeadPlan ==
  ASSUME IInv, Orderly, NEW h \in Handlers, Busy(h), NEW d, d = doc[h], NEW a, a = act[h],
         NEW k, k = Left(h), NEW s, s = Head(todo[h]), NEW t, t = FromEnd(todo[h], k - 1),
         s[1] \in {"read", "save"}
  PROVE  \/ d = Inv /\ a = "approve" /\ k = 3 /\ s = <<"save", Inv, 0>> /\ t = <<"post", Inv, 0>>
         \/ /\ d \in Payments /\ a \in {"approve", "cancel"} /\ k >= 3
            /\ PaymentReads(d, a, row[d].applied, k, s, t) \/ PaymentSaves(d, a, row[d].applied, k, s, t)
         \/ d \in Notes /\ a = "approve" /\ NoteMoves(d, row[d].amount, k, s, t)
         \/ /\ d \in Refunds /\ a \in {"approve", "cancel"} /\ k >= 3
            /\ source[d] \in Notes \cap approved /\ ShareCount(d) \in Nat
            /\ \/ RefundReads(d, a, row[d].amount, source[d], ShareCount(d), k, s, t)
               \/ RefundSaves(d, a, row[d].amount, source[d], k, s, t)
               \/ RefundShares(a, row[d].amount, ShareCount(d), k, s, t)
         \/ /\ d \in Payments /\ a = "allocate" /\ Allocated(h) \in 1..Total
            /\ AllocationMoves(d, Allocated(h), k, s, t)
<1>1. OnTrack(h) /\ d \in Docs /\ k \in Nat \ {0} /\ s = FromEnd(todo[h], k)
  BY BusyFacts
<1>2. CASE a = "allocate"
  <2>1. /\ d \in Payments /\ k <= 4 /\ Allocated(h) \in 1..Total
        /\ \A j \in 1..k : FromEnd(todo[h], j) = AllocationPlan(d, Allocated(h), j)
    BY <1>1, <1>2 DEF OnTrack, DoneFor, Planned
  <2>2. s = AllocationPlan(d, Allocated(h), k) /\ (k > 1 => t = AllocationPlan(d, Allocated(h), k - 1))
    <3>1. k \in 1..k /\ (k > 1 => k - 1 \in 1..k) BY <1>1
    <3> QED BY <1>1, <2>1, <3>1
  <2>3. k \in {1, 2, 3, 4} BY <1>1, <2>1
  <2>4. AllocationMoves(d, Allocated(h), k, s, t)
    BY <2>2, <2>3 DEF AllocationMoves, AllocationPlan
  <2> QED BY <1>2, <2>1, <2>4
<1>3. CASE a # "allocate"
  <2> DEFINE v == row[d]
             c == source[d]
             sh == share[d]
  <2>1. /\ a \in {"approve", "cancel"} /\ (d \in Notes => a = "approve") /\ (d # Inv => d \in approved)
        /\ k <= Longest(d, a, v, sh)
        /\ \A j \in 1..k : FromEnd(todo[h], j) = Plan(d, a, v, c, sh, j)
    BY <1>1, <1>3 DEF OnTrack, DoneFor, Planned
  <2>2. s = Plan(d, a, v, c, sh, k) /\ (k > 1 => t = Plan(d, a, v, c, sh, k - 1))
    <3>1. k \in 1..k /\ (k > 1 => k - 1 \in 1..k) BY <1>1
    <3> QED BY <1>1, <2>1, <3>1
  <2>3. k >= 3
    <3>1. k = 1 => s = <<"link", d, 0>> BY <2>2 DEF Plan
    <3>2. k = 2 => s = <<"post", d, 0>> BY <2>2 DEF Plan
    <3> QED BY <1>1, <3>1, <3>2
  <2>4. d \in Refunds => source[d] \in Notes \cap approved /\ sh \in Seq(Share)
    <3>1. d \in Docs \ {Inv} => RowsFit BY DEF Orderly
    <3> QED BY <1>1, <2>1, <3>1, ApprovedFacts, Kinds
  <2> HIDE DEF v, c, sh
  <2>5. t = Plan(d, a, v, c, sh, k - 1) BY <1>1, <2>2, <2>3
  <2>6. CASE d = Inv
    <3>1. k = 3 /\ a = "approve" BY <1>1, <2>1, <2>3, <2>6 DEF Longest
    <3>2. s = <<"save", Inv, 0>> BY <2>2, <2>6, <3>1 DEF Plan
    <3>3. t = <<"post", Inv, 0>> BY <2>5, <2>6, <3>1 DEF Plan
    <3> QED BY <2>6, <3>1, <3>2, <3>3
  <2>7. CASE d \in Payments
    <3>1. PaymentReads(d, a, v.applied, k, s, t) \/ PaymentSaves(d, a, v.applied, k, s, t)
      BY <1>1, <2>1, <2>2, <2>3, <2>5, <2>7, PaymentSteps
    <3> QED BY <2>1, <2>3, <2>7, <3>1 DEF v
  <2>8. CASE d \in Notes
    <3>1. NoteMoves(d, v.amount, k, s, t)
      BY <1>1, <2>1, <2>2, <2>3, <2>5, <2>8, NoteSteps DEF NoteMoves
    <3> QED BY <2>1, <2>8, <3>1 DEF v
  <2>9. CASE d \in Refunds
    <3>1. ShareCount(d) = 2 * Len(sh) /\ ShareCount(d) \in Nat
      BY <2>4, <2>9, LenProperties DEF ShareCount, sh
    <3>2. \/ RefundReads(d, a, v.amount, c, ShareCount(d), k, s, t)
          \/ RefundSaves(d, a, v.amount, c, k, s, t)
          \/ RefundShares(a, v.amount, ShareCount(d), k, s, t)
      BY <1>1, <2>1, <2>2, <2>3, <2>4, <2>5, <2>9, <3>1, RefundSteps
    <3> QED BY <2>1, <2>3, <2>4, <2>9, <3>1, <3>2 DEF v, c
  <2> QED BY <1>1, <2>6, <2>7, <2>8, <2>9, Kinds
<1> QED BY <1>2, <1>3

\* What the changes of the copies do to the amounts.
LEMMA CopyChanges ==
  ASSUME NEW v \in Row, NEW n \in Nat
  PROVE  /\ ApplyAllocation(v, n).applied = v.applied + n
         /\ ApplyAllocation(v, n).credited = v.credited /\ ApplyAllocation(v, n).refunded = v.refunded
         /\ ReverseAllocation(v, n).applied = Positive(v.applied - n)
         /\ ReverseAllocation(v, n).credited = v.credited
         /\ ReverseAllocation(v, n).refunded = v.refunded
         /\ CreditInvoice(v, n).credited = v.credited + n
         /\ CreditInvoice(v, n).applied = v.applied /\ CreditInvoice(v, n).refunded = v.refunded
         /\ RefundInvoice(v, n).refunded = v.refunded + n
         /\ RefundInvoice(v, n).applied = v.applied /\ RefundInvoice(v, n).credited = v.credited
         /\ UnrefundInvoice(v, n).refunded = Positive(v.refunded - n)
         /\ UnrefundInvoice(v, n).applied = v.applied /\ UnrefundInvoice(v, n).credited = v.credited
         /\ RefundRow(v, n).refunded = v.refunded + n /\ RefundRow(v, n).status = v.status
         /\ RefundRow(v, n).amount = v.amount /\ RefundRow(v, n).applied = v.applied
         /\ UnrefundRow(v, n).refunded = Positive(v.refunded - n) /\ UnrefundRow(v, n).status = v.status
         /\ UnrefundRow(v, n).amount = v.amount /\ UnrefundRow(v, n).applied = v.applied
<1>1. /\ ApplyAllocation(v, n).applied = v.applied + n
      /\ ApplyAllocation(v, n).credited = v.credited /\ ApplyAllocation(v, n).refunded = v.refunded
  BY DEF ApplyAllocation, Row
<1>2. /\ ReverseAllocation(v, n).applied = Positive(v.applied - n)
      /\ ReverseAllocation(v, n).credited = v.credited
      /\ ReverseAllocation(v, n).refunded = v.refunded
  BY DEF ReverseAllocation, Row
<1>3. /\ CreditInvoice(v, n).credited = v.credited + n
      /\ CreditInvoice(v, n).applied = v.applied /\ CreditInvoice(v, n).refunded = v.refunded
  BY DEF CreditInvoice, Row
<1>4. /\ RefundInvoice(v, n).refunded = v.refunded + n
      /\ RefundInvoice(v, n).applied = v.applied /\ RefundInvoice(v, n).credited = v.credited
  BY DEF RefundInvoice, Row
<1>5. /\ UnrefundInvoice(v, n).refunded = Positive(v.refunded - n)
      /\ UnrefundInvoice(v, n).applied = v.applied /\ UnrefundInvoice(v, n).credited = v.credited
  BY DEF UnrefundInvoice, Row
<1>6. /\ RefundRow(v, n).refunded = v.refunded + n /\ RefundRow(v, n).status = v.status
      /\ RefundRow(v, n).amount = v.amount /\ RefundRow(v, n).applied = v.applied
      /\ UnrefundRow(v, n).refunded = Positive(v.refunded - n) /\ UnrefundRow(v, n).status = v.status
      /\ UnrefundRow(v, n).amount = v.amount /\ UnrefundRow(v, n).applied = v.applied
  BY DEF RefundRow, UnrefundRow, Row
<1> QED BY <1>1, <1>2, <1>3, <1>4, <1>5, <1>6

-----------------------------------------------------------------------------
(***************************************************************************)
(* Reads.                                                                  *)
(***************************************************************************)
\* The handler h executes the statement s for the action a on d; t follows.
Executes(h, d, a, k, s, t) ==
  /\ Busy(h) /\ d = doc[h] /\ a = act[h] /\ k = Left(h) /\ k >= 2
  /\ s = Head(todo[h]) /\ t = FromEnd(todo[h], k - 1)
  /\ todo' = [todo EXCEPT ![h] = Tail(todo[h])]
  /\ UNCHANGED <<submitted, approved, source, share, doc, act, seen>>

\* What it leaves to the next statement.
LEMMA Executed ==
  ASSUME IInv, Orderly, NEW h \in Handlers, NEW d, NEW a, NEW k, NEW s, NEW t,
         Executes(h, d, a, k, s, t)
  PROVE  /\ k \in Nat /\ d \in Docs /\ doc[h] = d /\ act[h] = a /\ Left(h) = k
         /\ doc'[h] = d /\ act'[h] = a /\ Left(h)' = k - 1 /\ Allocated(h)' = Allocated(h)
         /\ Subject(h) = s[2] /\ Amount(h) = s[3]
         /\ Runs(h, "save")' <=> t[1] = "save"
         /\ Subject(h)' = t[2]
<1>1. Busy(h) /\ d = doc[h] /\ a = act[h] /\ k = Left(h) /\ Left(h) >= 2
      /\ s = Head(todo[h]) /\ t = FromEnd(todo[h], k - 1)
      /\ todo' = [todo EXCEPT ![h] = Tail(todo[h])] /\ doc' = doc /\ act' = act
  BY DEF Executes
<1>2. d \in Docs /\ k \in Nat BY <1>1, BusyFacts
<1>3. /\ todo'[h] # << >> /\ Left(h)' = Left(h) - 1 /\ Allocated(h)' = Allocated(h)
      /\ Head(todo'[h]) = FromEnd(todo[h], Left(h) - 1)
  BY <1>1, Moves
<1>4. Runs(h, "save")' <=> t[1] = "save" BY <1>1, <1>3 DEF Runs
<1> QED BY <1>1, <1>2, <1>3, <1>4 DEF Subject, Amount

\* What the copies must be for the next statement.
LEMMA NextCopies ==
  ASSUME IInv, Orderly, NEW h \in Handlers, NEW d, NEW a, NEW k, NEW s, NEW t,
         Executes(h, d, a, k, s, t),
         t[1] = "save" /\ t[2] = Inv => InvFits(h)',
         t[1] = "save" /\ t[2] \in Notes => NoteFits(h, t[2])',
         t[1] = "save" /\ t[2] \in Payments /\ d \in Refunds => ShareFits(h, t[2])',
         d \in Payments /\ k - 1 >= OwnAt(h)' => OwnFits(h)',
         d \in Refunds /\ a = "approve" =>
           /\ k - 1 \in 4..(ShareCount(d) + 4) => InvFits(h)'
           /\ k - 1 \in 3..(ShareCount(d) + 4) => NoteFits(h, source[d])'
           /\ k - 1 = ShareCount(d) + 5 => OnBooks(held[h][Inv], 0, 0, 0)'
  PROVE  CopyFits(h)'
<1>1. /\ doc'[h] = d /\ act'[h] = a /\ Left(h)' = k - 1
      /\ Runs(h, "save")' <=> t[1] = "save"
      /\ Subject(h)' = t[2]
  BY Executed
<1>2. ShareCount(d)' = ShareCount(d) /\ source' = source BY DEF Executes, ShareCount
<1>3. Runs(h, "save")' /\ Subject(h)' = Inv => InvFits(h)' BY <1>1
<1>4. Runs(h, "save")' /\ Subject(h)' \in Notes => NoteFits(h, Subject(h))'
  <2>1. NoteFits(h, t[2])' => NoteFits(h, Subject(h))' BY <1>1 DEF NoteFits
  <2> QED BY <1>1, <2>1
<1>5. Runs(h, "save")' /\ Subject(h)' \in Payments /\ doc'[h] \in Refunds => ShareFits(h, Subject(h))'
  <2>1. ShareFits(h, t[2])' => ShareFits(h, Subject(h))' BY <1>1 DEF ShareFits
  <2> QED BY <1>1, <2>1
<1>6. doc'[h] \in Payments /\ Left(h)' >= OwnAt(h)' => OwnFits(h)' BY <1>1
<1>7. doc'[h] \in Refunds /\ act'[h] = "approve" =>
        /\ Left(h)' \in 4..(ShareCount(doc[h])' + 4) => InvFits(h)'
        /\ Left(h)' \in 3..(ShareCount(doc[h])' + 4) => NoteFits(h, source[doc[h]])'
        /\ Left(h)' = ShareCount(doc[h])' + 5 => OnBooks(held[h][Inv], 0, 0, 0)'
  <2>1. ShareCount(doc[h])' = ShareCount(d) BY <1>1, <1>2 DEF ShareCount
  <2>2. NoteFits(h, source[d])' => NoteFits(h, source[doc[h]])' BY <1>1, <1>2 DEF NoteFits
  <2> QED BY <1>1, <2>1, <2>2
<1> QED BY <1>3, <1>4, <1>5, <1>6, <1>7 DEF CopyFits

\* A copy with the status and the amount of a row.
LEMMA SameFits ==
  ASSUME NEW d, NEW v, NEW w, NEW A, NEW U, w.status = v.status, w.amount = v.amount,
         DocFits(d, v, A, U)
  PROVE  DocFits(d, w, A, U)
BY DEF DocFits

\* A read of a record changes no row, and the copies become what will be saved.
LEMMA ReadMoves ==
  ASSUME IInv, Orderly, NEW h \in Handlers, Read(h)
  PROVE  Orderly'
<1>1. /\ Busy(h) /\ Head(todo[h])[1] = "read"
      /\ held' = [held EXCEPT ![h] = Changed(h, Subject(h), Amount(h))]
      /\ todo' = [todo EXCEPT ![h] = Tail(todo[h])]
      /\ UNCHANGED <<row, submitted, approved, source, share, links, posted, doc, act, seen>>
  BY DEF Read, Runs, docVars, Busy
<1>2. PICK d, a, k, s, t : /\ d = doc[h] /\ a = act[h] /\ k = Left(h) /\ s = Head(todo[h])
                           /\ t = FromEnd(todo[h], k - 1)
  OBVIOUS
<1>3. s[1] = "read" BY <1>1, <1>2
<1>4. OnTrack(h) /\ d \in Docs /\ k \in Nat BY <1>1, <1>2, BusyFacts
<1>r. row'[Inv] = row[Inv] BY <1>1
<1>5. \/ /\ d \in Payments /\ a \in {"approve", "cancel"} /\ PaymentReads(d, a, row[d].applied, k, s, t)
      \/ d \in Notes /\ a = "approve" /\ k = 4 /\ s = <<"read", Inv, row[d].amount>>
                     /\ t = <<"save", Inv, row[d].amount>>
      \/ /\ d \in Refunds /\ a \in {"approve", "cancel"}
         /\ source[d] \in Notes \cap approved /\ ShareCount(d) \in Nat
         /\ \/ RefundReads(d, a, row[d].amount, source[d], ShareCount(d), k, s, t)
            \/ RefundShares(a, row[d].amount, ShareCount(d), k, s, t)
      \/ /\ d \in Payments /\ a = "allocate" /\ Allocated(h) \in 1..Total
         /\ s = <<"read", Inv, Allocated(h)>>
         /\ \/ k = 4 /\ t = <<"save", d, 0>>
            \/ k = 2 /\ t = <<"save", Inv, Allocated(h)>>
  <2>1. ~PaymentSaves(d, a, row[d].applied, k, s, t) BY <1>3 DEF PaymentSaves
  <2>2. ~RefundSaves(d, a, row[d].amount, source[d], k, s, t) BY <1>3 DEF RefundSaves
  <2>3. NoteMoves(d, row[d].amount, k, s, t) =>
          k = 4 /\ s = <<"read", Inv, row[d].amount>> /\ t = <<"save", Inv, row[d].amount>>
    BY <1>3 DEF NoteMoves
  <2>4. AllocationMoves(d, Allocated(h), k, s, t) =>
          /\ s = <<"read", Inv, Allocated(h)>>
          /\ \/ k = 4 /\ t = <<"save", d, 0>>
             \/ k = 2 /\ t = <<"save", Inv, Allocated(h)>>
    BY <1>3 DEF AllocationMoves
  <2>5. s # <<"save", Inv, 0>> BY <1>3
  <2>6. \/ d = Inv /\ a = "approve" /\ k = 3 /\ s = <<"save", Inv, 0>> /\ t = <<"post", Inv, 0>>
        \/ /\ d \in Payments /\ a \in {"approve", "cancel"} /\ k >= 3
           /\ PaymentReads(d, a, row[d].applied, k, s, t) \/ PaymentSaves(d, a, row[d].applied, k, s, t)
        \/ d \in Notes /\ a = "approve" /\ NoteMoves(d, row[d].amount, k, s, t)
        \/ /\ d \in Refunds /\ a \in {"approve", "cancel"} /\ k >= 3
           /\ source[d] \in Notes \cap approved /\ ShareCount(d) \in Nat
           /\ \/ RefundReads(d, a, row[d].amount, source[d], ShareCount(d), k, s, t)
              \/ RefundSaves(d, a, row[d].amount, source[d], k, s, t)
              \/ RefundShares(a, row[d].amount, ShareCount(d), k, s, t)
        \/ /\ d \in Payments /\ a = "allocate" /\ Allocated(h) \in 1..Total
           /\ AllocationMoves(d, Allocated(h), k, s, t)
    BY <1>1, <1>2, <1>3, HeadPlan
  <2> QED BY <2>1, <2>2, <2>3, <2>4, <2>5, <2>6
<1>6. k >= 2 /\ (k >= 3 \/ a = "allocate")
  BY <1>4, <1>5 DEF PaymentReads, RefundReads, RefundShares
<1>7. Executes(h, d, a, k, s, t) BY <1>1, <1>2, <1>6 DEF Executes
<1>8. /\ doc[h] = d /\ act[h] = a /\ Left(h) = k
      /\ doc'[h] = d /\ act'[h] = a /\ Left(h)' = k - 1 /\ Allocated(h)' = Allocated(h)
      /\ Subject(h) = s[2] /\ Amount(h) = s[3]
  BY <1>7, Executed
<1>9. held'[h] = Changed(h, s[2], s[3]) BY <1>1, <1>8 DEF IInv, TypeOK
<1>c. held[h] \in [Docs -> Row] /\ CopyFits(h) /\ Booked(h) /\ Inv \in Docs
  BY <1>4, Kinds DEF IInv, TypeOK, OnTrack
<1>n. /\ row[Inv] \in Row /\ row[Inv].applied \in Nat /\ row[Inv].credited \in Nat /\ row[Inv].refunded \in Nat
      /\ row[d].amount \in Nat /\ row[d].applied \in Nat
      /\ Paid \in Nat /\ Credited \in Nat /\ Refunded \in Nat /\ \A c \in Notes : RefundOf(c) \in Nat
  BY <1>4, RowNumbers, SumNumbers, Kinds DEF IInv
<1>b. /\ row[Inv].applied + OwedPaid(h) = Paid
      /\ row[Inv].refunded + OwedRefund(h) = Refunded
      /\ \A c \in Notes : row[c].refunded + OwedNote(h, c) = RefundOf(c)
  BY <1>c DEF Booked
<1>10. /\ OwedPaid(h)' = OwedPaid(h) /\ OwedCredit(h)' = OwedCredit(h) /\ OwedRefund(h)' = OwedRefund(h)
       /\ \A c \in Notes : OwedNote(h, c)' = OwedNote(h, c)
       /\ CopyFits(h)'
  <2>1. CASE d \in Payments /\ a \in {"approve", "cancel"} /\ PaymentReads(d, a, row[d].applied, k, s, t)
    <3> DEFINE n == row[d].applied
    <3>1. /\ n # 0 /\ s[2] = Inv /\ s[3] = n /\ t[1] = "save" /\ t[2] = Inv
          /\ a = "approve" => k = 4
          /\ a = "cancel" => k = 5
      BY <2>1 DEF PaymentReads
    <3>2. /\ OwedPaid(h) = IF a = "approve" THEN n ELSE -n
          /\ OwedPaid(h)' = IF a = "approve" THEN n ELSE -n
          /\ OwedCredit(h) = 0 /\ OwedCredit(h)' = 0 /\ OwedRefund(h) = 0 /\ OwedRefund(h)' = 0
          /\ \A c \in Notes : OwedNote(h, c) = 0 /\ OwedNote(h, c)' = 0
      BY <1>1, <1>8, <2>1, <3>1, Kinds DEF OwedPaid, OwedCredit, OwedRefund, OwedNote
    <3>3. held'[h] = [held[h] EXCEPT ![Inv] = IF a = "cancel" THEN ReverseAllocation(row[Inv], n)
                                              ELSE ApplyAllocation(row[Inv], n)]
      <4>1. doc[h] \in Payments /\ (act[h] = "cancel" <=> a = "cancel") BY <1>8, <2>1
      <4>2. held'[h] = Changed(h, Inv, n) BY <1>9, <3>1
      <4> HIDE DEF n
      <4> QED BY <4>1, <4>2, <1>8, Kinds DEF Changed
    <3>4. /\ held'[h][Inv].applied = row[Inv].applied + IF a = "approve" THEN n ELSE -n
          /\ held'[h][Inv].credited = row[Inv].credited
          /\ held'[h][Inv].refunded = row[Inv].refunded
      <4>1. held'[h][Inv] = IF a = "cancel" THEN ReverseAllocation(row[Inv], n)
                            ELSE ApplyAllocation(row[Inv], n)
        BY <1>c, <3>3
      <4>2. a = "cancel" => Positive(row[Inv].applied - n) = row[Inv].applied - n
        <5>1. a = "cancel" => row[Inv].applied - n >= 0 BY <1>n, <1>b, <3>2
        <5> QED BY <1>n, <5>1 DEF Positive
      <4>3. /\ ApplyAllocation(row[Inv], n).applied = row[Inv].applied + n
            /\ ApplyAllocation(row[Inv], n).credited = row[Inv].credited
            /\ ApplyAllocation(row[Inv], n).refunded = row[Inv].refunded
            /\ ReverseAllocation(row[Inv], n).applied = Positive(row[Inv].applied - n)
            /\ ReverseAllocation(row[Inv], n).credited = row[Inv].credited
            /\ ReverseAllocation(row[Inv], n).refunded = row[Inv].refunded
        BY <1>n, CopyChanges
      <4> QED BY <1>n, <2>1, <4>1, <4>2, <4>3
    <3>5. InvFits(h)'
      <4>1. OnBooks(held[h][Inv], OwedPaid(h), OwedCredit(h), OwedRefund(h))'
        BY <1>r, <1>n, <3>2, <3>4 DEF OnBooks
      <4> QED BY <4>1 DEF InvFits
    <3>6. k - 1 >= OwnAt(h)' => OwnFits(h)'
      <4>1. OwnAt(h)' = IF a = "approve" THEN 5 ELSE 3 BY <1>1, <1>8, <2>1, <3>1 DEF OwnAt
      <4>2. a = "cancel" => OwnFits(h)
        <5>1. a = "cancel" => OwnAt(h) = 3 BY <1>8 DEF OwnAt
        <5> QED BY <1>c, <1>8, <2>1, <3>1, <5>1 DEF CopyFits
      <4>3. held'[h][d] = held[h][d] BY <1>c, <1>4, <2>1, <3>3, Kinds
      <4>4. OwnFits(h) => OwnFits(h)' BY <1>1, <1>8, <4>3 DEF OwnFits
      <4> QED BY <2>1, <3>1, <4>1, <4>2, <4>4
    <3> QED BY <1>7, <2>1, <3>1, <3>2, <3>5, <3>6, Kinds, NextCopies
  <2>2. CASE d \in Notes /\ a = "approve" /\ k = 4 /\ s = <<"read", Inv, row[d].amount>>
             /\ t = <<"save", Inv, row[d].amount>>
    <3> DEFINE n == row[d].amount
    <3>1. s[2] = Inv /\ s[3] = n /\ t[1] = "save" /\ t[2] = Inv BY <2>2
    <3>2. /\ OwedCredit(h) = n /\ OwedCredit(h)' = n
          /\ OwedPaid(h) = 0 /\ OwedPaid(h)' = 0 /\ OwedRefund(h) = 0 /\ OwedRefund(h)' = 0
          /\ \A c \in Notes : OwedNote(h, c) = 0 /\ OwedNote(h, c)' = 0
      BY <1>1, <1>8, <2>2, <3>1, Kinds DEF OwedPaid, OwedCredit, OwedRefund, OwedNote
    <3>3. held'[h] = [held[h] EXCEPT ![Inv] = CreditInvoice(row[Inv], n)]
      BY <1>8, <1>9, <2>2, <3>1, Kinds DEF Changed
    <3>4. held'[h][Inv] = CreditInvoice(row[Inv], n) BY <1>c, <3>3
    <3>5. InvFits(h)'
      <4>1. /\ held'[h][Inv].credited = row[Inv].credited + n
            /\ held'[h][Inv].applied = row[Inv].applied /\ held'[h][Inv].refunded = row[Inv].refunded
        <5>1. n \in Nat BY <1>n
        <5> HIDE DEF n
        <5>2. /\ CreditInvoice(row[Inv], n).credited = row[Inv].credited + n
              /\ CreditInvoice(row[Inv], n).applied = row[Inv].applied
              /\ CreditInvoice(row[Inv], n).refunded = row[Inv].refunded
          BY <1>n, <5>1, CopyChanges
        <5> QED BY <3>4, <5>2
      <4> QED BY <1>r, <1>n, <3>2, <4>1 DEF InvFits, OnBooks
    <3> QED BY <1>7, <2>2, <3>1, <3>2, <3>5, Kinds, NextCopies
  <2>3. CASE /\ d \in Payments /\ a = "allocate" /\ Allocated(h) \in 1..Total
             /\ s = <<"read", Inv, Allocated(h)>>
             /\ \/ k = 4 /\ t = <<"save", d, 0>>
                \/ k = 2 /\ t = <<"save", Inv, Allocated(h)>>
    <3>0. PICK n \in 1..Total : n = Allocated(h) BY <2>3
    <3>1. s[2] = Inv /\ s[3] = n /\ t[1] = "save" /\ (k = 4 => t[2] = d) /\ (k = 2 => t[2] = Inv)
      BY <2>3, <3>0
    <3>2. /\ OwedPaid(h) = (IF k = 2 THEN n ELSE 0) /\ OwedPaid(h)' = (IF k = 2 THEN n ELSE 0)
          /\ OwedCredit(h) = 0 /\ OwedCredit(h)' = 0 /\ OwedRefund(h) = 0 /\ OwedRefund(h)' = 0
          /\ \A c \in Notes : OwedNote(h, c) = 0 /\ OwedNote(h, c)' = 0
      BY <1>1, <1>8, <2>3, <3>0, Kinds DEF OwedPaid, OwedCredit, OwedRefund, OwedNote
    <3>3. held'[h] = [held[h] EXCEPT ![Inv] = ApplyAllocation(row[Inv], n)]
      BY <1>8, <1>9, <2>3, <3>1, Kinds DEF Changed
    <3>4. held'[h][Inv] = ApplyAllocation(row[Inv], n) BY <1>c, <3>3
    <3>5. k = 2 => InvFits(h)'
      <4>0. n \in Nat BY TotalIsNat
      <4>1. /\ held'[h][Inv].applied = row[Inv].applied + n
            /\ held'[h][Inv].credited = row[Inv].credited
            /\ held'[h][Inv].refunded = row[Inv].refunded
        <5>1. /\ ApplyAllocation(row[Inv], n).applied = row[Inv].applied + n
              /\ ApplyAllocation(row[Inv], n).credited = row[Inv].credited
              /\ ApplyAllocation(row[Inv], n).refunded = row[Inv].refunded
          BY <1>n, <4>0, CopyChanges
        <5> QED BY <3>4, <5>1
      <4> QED BY <1>r, <1>n, <3>2, <4>0, <4>1 DEF InvFits, OnBooks
    <3>6. k - 1 >= OwnAt(h)' => OwnFits(h)'
      <4>1. OwnAt(h)' = 3 /\ OwnAt(h) = 3 BY <1>8, <2>3 DEF OwnAt
      <4>2. k = 4 => OwnFits(h) BY <1>c, <1>8, <2>3, <4>1 DEF CopyFits
      <4>3. held'[h][d] = held[h][d] BY <1>c, <1>4, <2>3, <3>3, Kinds
      <4>4. OwnFits(h) => OwnFits(h)' BY <1>1, <1>8, <4>3 DEF OwnFits
      <4> QED BY <2>3, <4>1, <4>2, <4>4
    <3> QED BY <1>7, <2>3, <3>1, <3>2, <3>5, <3>6, Kinds, NextCopies
  <2>4. CASE /\ d \in Refunds /\ a \in {"approve", "cancel"}
             /\ source[d] \in Notes \cap approved /\ ShareCount(d) \in Nat
             /\ RefundReads(d, a, row[d].amount, source[d], ShareCount(d), k, s, t)
    <3>c. PICK c \in Notes : c = source[d] BY <2>4
    <3> DEFINE n == row[d].amount
               m == ShareCount(d)
    <3>0. c \in Notes /\ m \in Nat /\ row[c] \in Row /\ row[c].refunded \in Nat /\ c # Inv /\ c \in Docs
      BY <2>4, <3>c, Kinds, RowNumbers DEF IInv, TypeOK
    <3>1. /\ a = "approve" => k >= 5
          /\ a = "cancel" => k \in {4, 6}
          /\ s[1] = "read" /\ s[3] = n
      BY <2>4 DEF RefundReads
    <3>2. /\ OwedPaid(h) = 0 /\ OwedPaid(h)' = 0 /\ OwedCredit(h) = 0 /\ OwedCredit(h)' = 0
          /\ OwedRefund(h) = (IF a = "approve" THEN n ELSE -n)
          /\ OwedRefund(h)' = (IF a = "approve" THEN n ELSE -n)
          /\ OwedNote(h, c) = (IF a = "approve" THEN n ELSE IF k = 6 THEN -n ELSE 0)
          /\ OwedNote(h, c)' = (IF a = "approve" THEN n ELSE IF k = 6 THEN -n ELSE 0)
          /\ \A e \in Notes \ {c} : OwedNote(h, e) = 0 /\ OwedNote(h, e)' = 0
      BY <1>1, <1>4, <1>8, <2>4, <3>1, <3>c, Kinds DEF OwedPaid, OwedCredit, OwedRefund, OwedNote
    <3>3. \A e \in Notes : OwedNote(h, e)' = OwedNote(h, e) BY <3>2
    <3>4. doc[h] \in Refunds /\ (act[h] = "cancel" <=> a = "cancel") BY <1>8, <2>4
    <3>5. CASE a = "approve" /\ k = m + 6
      <4>1. s[2] = Inv /\ t[1] = "read" BY <2>4, <3>c, <3>0, <3>5 DEF RefundReads
      <4>2. held'[h] = [held[h] EXCEPT ![Inv] = row[Inv]] BY <1>9, <3>4, <3>5, <4>1, Kinds DEF Changed
      <4>3. held'[h][Inv] = row[Inv] BY <1>c, <4>2
      <4>4. OnBooks(held[h][Inv], 0, 0, 0)' BY <1>r, <1>n, <4>3 DEF OnBooks
      <4> QED BY <1>7, <2>4, <3>0, <3>2, <3>3, <3>5, <4>1, <4>4, Kinds, NextCopies
    <3>6. CASE a = "approve" /\ k = m + 5
      <4>1. s[2] = c /\ (t[1] = "read" \/ t[2] = Inv) BY <2>4, <3>c, <3>0, <3>6 DEF RefundReads
      <4>2. held'[h] = [held[h] EXCEPT ![c] = RefundRow(row[c], n), ![Inv] = RefundInvoice(@, n)]
        <5>1. held'[h] = Changed(h, c, n) BY <1>9, <3>1, <4>1
        <5> HIDE DEF n
        <5> QED BY <3>0, <3>4, <3>6, <5>1, Kinds DEF Changed
      <4>3. held'[h][c] = RefundRow(row[c], n) /\ held'[h][Inv] = RefundInvoice(held[h][Inv], n)
        <5> HIDE DEF n
        <5> QED BY <1>c, <3>0, <4>2
      <4>4. held[h][Inv] \in Row /\ OnBooks(held[h][Inv], 0, 0, 0)
        BY <1>c, <1>8, <2>4, <3>6 DEF CopyFits
      <4>5. InvFits(h)'
        <5>1. /\ held'[h][Inv].refunded = held[h][Inv].refunded + n
              /\ held'[h][Inv].applied = held[h][Inv].applied /\ held'[h][Inv].credited = held[h][Inv].credited
          <6>1. n \in Nat BY <1>n
          <6> HIDE DEF n
          <6> DEFINE w == held[h][Inv]
          <6>2. w \in Row BY <4>4
          <6>3. held'[h][Inv] = RefundInvoice(w, n) BY <4>3
          <6> HIDE DEF w
          <6>4. /\ RefundInvoice(w, n).refunded = w.refunded + n
                /\ RefundInvoice(w, n).applied = w.applied /\ RefundInvoice(w, n).credited = w.credited
            BY <6>1, <6>2, CopyChanges
          <6> QED BY <6>3, <6>4 DEF w
        <5> QED BY <1>r, <1>n, <3>2, <3>6, <4>4, <5>1 DEF InvFits, OnBooks
      <4>6. NoteFits(h, c)'
        <5>1. /\ held'[h][c].refunded = row[c].refunded + n /\ held'[h][c].status = row[c].status
              /\ held'[h][c].amount = row[c].amount
          <6>1. n \in Nat BY <1>n
          <6> HIDE DEF n
          <6>2. /\ RefundRow(row[c], n).refunded = row[c].refunded + n
                /\ RefundRow(row[c], n).status = row[c].status
                /\ RefundRow(row[c], n).amount = row[c].amount
            BY <3>0, <6>1, CopyChanges
          <6> QED BY <4>3, <6>2
        <5>2. DocFits(c, row[c], approved, submitted) BY <3>0 DEF Orderly, RowsFit
        <5>3. DocFits(c, held'[h][c], approved, submitted) BY <5>1, <5>2, SameFits
        <5>4. row' = row /\ approved' = approved /\ submitted' = submitted BY <1>1
        <5>5. source' = source BY <1>1
        <5> QED BY <3>2, <3>6, <5>1, <5>3, <5>4, <5>5 DEF NoteFits
      <4>7. NoteFits(h, source[d])' BY <1>1, <3>c, <4>6 DEF NoteFits
      <4> QED BY <1>7, <2>4, <3>0, <3>2, <3>3, <3>6, <4>1, <4>5, <4>7, Kinds, NextCopies
    <3>7. CASE a = "cancel" /\ k = 6
      <4>1. s[2] = c /\ t[2] = c BY <2>4, <3>c, <3>0, <3>7 DEF RefundReads
      <4>2. held'[h] = [held[h] EXCEPT ![c] = UnrefundRow(row[c], n)]
        <5>1. held'[h] = Changed(h, c, n) BY <1>9, <3>1, <4>1
        <5> HIDE DEF n
        <5> QED BY <3>0, <3>4, <3>7, <5>1, Kinds DEF Changed
      <4>3. held'[h][c] = UnrefundRow(row[c], n)
        <5> HIDE DEF n
        <5> QED BY <1>c, <3>0, <4>2
      <4>4. NoteFits(h, t[2])'
        <5>1. /\ held'[h][c].refunded = Positive(row[c].refunded - n) /\ held'[h][c].status = row[c].status
              /\ held'[h][c].amount = row[c].amount
          <6>1. n \in Nat BY <1>n
          <6> HIDE DEF n
          <6>2. /\ UnrefundRow(row[c], n).refunded = Positive(row[c].refunded - n)
                /\ UnrefundRow(row[c], n).status = row[c].status
                /\ UnrefundRow(row[c], n).amount = row[c].amount
            BY <3>0, <6>1, CopyChanges
          <6> QED BY <4>3, <6>2
        <5>0. row[c].refunded - n = RefundOf(c) BY <1>b, <1>n, <3>0, <3>2, <3>7
        <5>6. Positive(row[c].refunded - n) = row[c].refunded - n
          BY <1>n, <3>0, <5>0 DEF Positive
        <5>2. DocFits(c, row[c], approved, submitted) BY <3>0 DEF Orderly, RowsFit
        <5>3. DocFits(c, held'[h][c], approved, submitted) BY <5>1, <5>2, SameFits
        <5>4. row' = row /\ approved' = approved /\ submitted' = submitted BY <1>1
        <5>7. held'[h][c].refunded = row[c].refunded + OwedNote(h, c)'
          BY <1>n, <3>0, <3>2, <3>7, <5>1, <5>6
        <5>8. NoteFits(h, c)' BY <5>1, <5>3, <5>4, <5>7, <1>1 DEF NoteFits
        <5> QED BY <4>1, <5>8 DEF NoteFits
      <4> QED BY <1>7, <2>4, <3>0, <3>2, <3>3, <3>7, <4>1, <4>4, Kinds, NextCopies
    <3>8. CASE a = "cancel" /\ k = 4
      <4>1. s[2] = Inv /\ t[2] = Inv BY <2>4, <3>c, <3>0, <3>8 DEF RefundReads
      <4>2. held'[h] = [held[h] EXCEPT ![Inv] = UnrefundInvoice(row[Inv], n)]
        <5>1. held'[h] = Changed(h, Inv, n) BY <1>9, <3>1, <4>1
        <5> HIDE DEF n
        <5> QED BY <3>0, <3>4, <3>8, <5>1, Kinds DEF Changed
      <4>3. held'[h][Inv] = UnrefundInvoice(row[Inv], n)
        <5> HIDE DEF n
        <5> QED BY <1>c, <3>0, <4>2
      <4>4. InvFits(h)'
        <5>1. /\ held'[h][Inv].refunded = Positive(row[Inv].refunded - n)
              /\ held'[h][Inv].applied = row[Inv].applied /\ held'[h][Inv].credited = row[Inv].credited
          <6>1. n \in Nat BY <1>n
          <6> HIDE DEF n
          <6>2. /\ UnrefundInvoice(row[Inv], n).refunded = Positive(row[Inv].refunded - n)
                /\ UnrefundInvoice(row[Inv], n).applied = row[Inv].applied
                /\ UnrefundInvoice(row[Inv], n).credited = row[Inv].credited
            BY <1>n, <6>1, CopyChanges
          <6> QED BY <4>3, <6>2
        <5>2. row[Inv].refunded - n = Refunded BY <1>b, <1>n, <3>2, <3>8
        <5>3. Positive(row[Inv].refunded - n) = row[Inv].refunded - n BY <1>n, <5>2 DEF Positive
        <5> QED BY <1>r, <1>n, <3>2, <3>8, <5>1, <5>3 DEF InvFits, OnBooks
      <4> QED BY <1>7, <2>4, <3>0, <3>2, <3>3, <3>8, <4>1, <4>4, Kinds, NextCopies
    <3> QED BY <2>4, <3>5, <3>6, <3>7, <3>8 DEF RefundReads
  <2>5. CASE /\ d \in Refunds /\ a \in {"approve", "cancel"}
             /\ source[d] \in Notes \cap approved /\ ShareCount(d) \in Nat
             /\ RefundShares(a, row[d].amount, ShareCount(d), k, s, t)
    <3>c. PICK c \in Notes : c = source[d] BY <2>5
    <3> DEFINE n == row[d].amount
               m == ShareCount(d)
               p == s[2]
               x == s[3]
    <3>0. /\ c \in Notes /\ m \in Nat /\ c # Inv /\ c \in Docs /\ p \in Payments /\ p \in Docs
          /\ x \in Nat /\ row[p] \in Row /\ p # c /\ p # Inv
      BY <2>5, <3>c, Kinds, TotalIsNat DEF IInv, TypeOK, RefundShares
    <3>1. /\ a = "approve" => k \in 6..(m + 4)
          /\ a = "cancel" => k >= 7
          /\ t[1] = "save" /\ t[2] = p
      BY <1>3, <2>5 DEF RefundShares
    <3>2. /\ OwedPaid(h) = 0 /\ OwedPaid(h)' = 0 /\ OwedCredit(h) = 0 /\ OwedCredit(h)' = 0
          /\ OwedRefund(h) = (IF a = "approve" THEN n ELSE -n)
          /\ OwedRefund(h)' = (IF a = "approve" THEN n ELSE -n)
          /\ OwedNote(h, c) = (IF a = "approve" THEN n ELSE -n)
          /\ OwedNote(h, c)' = (IF a = "approve" THEN n ELSE -n)
          /\ \A e \in Notes \ {c} : OwedNote(h, e) = 0 /\ OwedNote(h, e)' = 0
      BY <1>1, <1>4, <1>8, <2>5, <3>0, <3>1, <3>c, Kinds DEF OwedPaid, OwedCredit, OwedRefund, OwedNote
    <3>3. \A e \in Notes : OwedNote(h, e)' = OwedNote(h, e) BY <3>2
    <3>4. doc[h] \in Refunds /\ (act[h] = "cancel" <=> a = "cancel") BY <1>8, <2>5
    <3>5. held'[h] = [held[h] EXCEPT ![p] = IF a = "cancel" THEN UnrefundRow(row[p], x)
                                            ELSE RefundRow(row[p], x)]
      <4>1. held'[h] = Changed(h, p, x) BY <1>9
      <4> HIDE DEF p, x
      <4> QED BY <3>0, <3>4, <4>1, Kinds DEF Changed
    <3>6. /\ held'[h][p] = IF a = "cancel" THEN UnrefundRow(row[p], x) ELSE RefundRow(row[p], x)
          /\ held'[h][Inv] = held[h][Inv] /\ held'[h][c] = held[h][c]
      <4> HIDE DEF p, x
      <4> QED BY <1>c, <3>0, <3>5
    <3>7. ShareFits(h, t[2])'
      <4>1. /\ held'[h][p].status = row[p].status /\ held'[h][p].amount = row[p].amount
            /\ held'[h][p].applied = row[p].applied
        <5>1. /\ RefundRow(row[p], x).status = row[p].status
              /\ RefundRow(row[p], x).amount = row[p].amount
              /\ RefundRow(row[p], x).applied = row[p].applied
              /\ UnrefundRow(row[p], x).status = row[p].status
              /\ UnrefundRow(row[p], x).amount = row[p].amount
              /\ UnrefundRow(row[p], x).applied = row[p].applied
          BY <3>0, CopyChanges
        <5> QED BY <3>6, <5>1
      <4>2. DocFits(p, row[p], approved, submitted) BY <3>0 DEF Orderly, RowsFit
      <4>3. DocFits(p, held'[h][p], approved, submitted) BY <4>1, <4>2, SameFits
      <4>4. row' = row /\ approved' = approved /\ submitted' = submitted BY <1>1
      <4>5. ShareFits(h, p)' BY <4>1, <4>3, <4>4 DEF ShareFits
      <4> QED BY <3>1, <4>5 DEF ShareFits
    <3>8. a = "approve" => InvFits(h)' /\ NoteFits(h, source[d])'
      <4> SUFFICES ASSUME a = "approve" PROVE InvFits(h)' /\ NoteFits(h, source[d])'
        OBVIOUS
      <4>1. InvFits(h) /\ NoteFits(h, c)
        <5>1. k \in 4..(m + 4) /\ k \in 3..(m + 4) BY <3>0, <3>1
        <5> QED BY <1>c, <1>8, <2>5, <3>c, <5>1 DEF CopyFits
      <4>2. InvFits(h)' BY <1>r, <3>2, <3>6, <4>1 DEF InvFits, OnBooks
      <4>3. row' = row /\ approved' = approved /\ submitted' = submitted /\ source' = source BY <1>1
      <4>4. NoteFits(h, c)' BY <3>2, <3>6, <4>1, <4>3 DEF NoteFits
      <4> QED BY <3>c, <4>2, <4>3, <4>4 DEF NoteFits
    <3>9. a = "approve" => k - 1 # m + 5 BY <3>0, <3>1
    <3> QED BY <1>7, <2>5, <3>0, <3>1, <3>2, <3>3, <3>7, <3>8, <3>9, Kinds, NextCopies
  <2> QED BY <1>5, <2>1, <2>2, <2>3, <2>4, <2>5
<1>11. \A e \in Docs \ {Inv} : SameForce(e) BY <1>1 DEF SameForce, InForce
<1>12. RowsFit' BY <1>1 DEF Orderly, RowsFit
<1>13. \A e \in Docs \ {Inv} : PostingsFit(e)'
  BY <1>1, <1>6, <1>8, <1>11, PostingsStay
<1>14. Booked(h)'
  <2>1. Paid' = Paid /\ Credited' = Credited /\ Refunded' = Refunded
        /\ \A c \in Notes : RefundOf(c)' = RefundOf(c)
    BY <1>1, <1>11, SumsKept
  <2> QED BY <1>1, <1>c, <1>10, <2>1 DEF Booked
<1>15. CopyFits(h)' BY <1>10
<1>16. row'[doc[h]] = row[doc[h]] /\ Left(h) >= 2 BY <1>1, <1>6, <1>8
<1> QED BY <1>1, <1>11, <1>12, <1>13, <1>14, <1>15, <1>16, MoveKeeps

-----------------------------------------------------------------------------
(***************************************************************************)
(* Saves.                                                                  *)
(***************************************************************************)
\* The statement s saves the copy of x; it is not the last one of the effect.
Saves(h, d, a, k, s, t, x) ==
  /\ Executes(h, d, a, k, s, t) /\ s[1] = "save" /\ x = s[2]
  /\ row' = [row EXCEPT ![x] = held[h][x]]
  /\ UNCHANGED <<links, posted, held>>

\* What is known when it does.
LEMMA SaveFacts ==
  ASSUME IInv, Orderly, NEW h \in Handlers, NEW d, NEW a, NEW k, NEW s, NEW t, NEW x,
         Saves(h, d, a, k, s, t, x)
  PROVE  /\ x \in Docs /\ row'[x] = held[h][x] /\ \A e \in Docs : e # x => row'[e] = row[e]
         /\ Runs(h, "save") /\ Subject(h) = x
         /\ OnTrack(h) /\ Booked(h) /\ CopyFits(h) /\ DoneFor(h)
         /\ k \in Nat /\ k >= 2 /\ d \in Docs /\ doc[h] = d /\ act[h] = a /\ Left(h) = k
         /\ doc'[h] = d /\ act'[h] = a /\ Left(h)' = k - 1 /\ Allocated(h)' = Allocated(h)
         /\ held' = held /\ source' = source /\ share' = share
         /\ approved' = approved /\ submitted' = submitted /\ posted' = posted /\ links' = links
<1>1. /\ Executes(h, d, a, k, s, t) /\ s[1] = "save" /\ x = s[2]
      /\ row' = [row EXCEPT ![x] = held[h][x]] /\ held' = held /\ posted' = posted /\ links' = links
  BY DEF Saves
<1>2. /\ Busy(h) /\ k >= 2 /\ s = Head(todo[h]) /\ source' = source /\ share' = share
      /\ approved' = approved /\ submitted' = submitted
  BY <1>1 DEF Executes
<1>3. /\ k \in Nat /\ d \in Docs /\ doc[h] = d /\ act[h] = a /\ Left(h) = k
      /\ doc'[h] = d /\ act'[h] = a /\ Left(h)' = k - 1 /\ Allocated(h)' = Allocated(h)
      /\ Subject(h) = s[2]
  BY <1>1, Executed
<1>4. x \in Docs BY <1>1, <1>2, <1>3, HeadFacts DEF Busy, IInv
<1>5. row'[x] = held[h][x] /\ \A e \in Docs : e # x => row'[e] = row[e]
  BY <1>1, <1>4, NewRow
<1>6. OnTrack(h) /\ Booked(h) /\ CopyFits(h) /\ DoneFor(h) BY <1>2, BusyFacts DEF OnTrack
<1>7. Runs(h, "save") BY <1>1, <1>2 DEF Runs, Busy
<1> QED BY <1>1, <1>2, <1>3, <1>4, <1>5, <1>6, <1>7

\* What the saved copy must be.
LEMMA SaveKeeps ==
  ASSUME IInv, Orderly, NEW h \in Handlers, NEW d, NEW a, NEW k, NEW s, NEW t, NEW x,
         Saves(h, d, a, k, s, t, x), k >= 3 \/ a = "allocate", x \notin Refunds,
         x # Inv => DocFits(x, held[h][x], approved, submitted),
         x \in Payments /\ x \in approved => (held[h][x].status = "cancelled" <=> row[x].status = "cancelled"),
         x = d /\ d \in Payments /\ a # "allocate" => held[h][x].applied = row[x].applied,
         x = d => d \notin Notes,
         Booked(h)', CopyFits(h)'
  PROVE  Orderly'
<1>1. /\ x \in Docs /\ row'[x] = held[h][x] /\ \A e \in Docs : e # x => row'[e] = row[e]
      /\ d \in Docs /\ doc[h] = d /\ act[h] = a /\ Left(h) = k /\ k \in Nat /\ k >= 2
      /\ approved' = approved /\ submitted' = submitted
  BY SaveFacts
<1>2. \A e \in Docs \ {Inv} : SameForce(e) BY <1>1, Kinds DEF SameForce, InForce
<1>3. RowsFit' BY <1>1 DEF Orderly, RowsFit
<1>4. /\ Busy(h) /\ todo' = [todo EXCEPT ![h] = Tail(todo[h])]
      /\ UNCHANGED <<submitted, approved, source, share, doc, act, seen, links, posted>>
  BY DEF Saves, Executes
<1>5. \A e \in Docs \ {Inv} : PostingsFit(e)' BY <1>1, <1>2, <1>4, PostingsStay
<1>6. /\ doc[h] \in Payments /\ act[h] # "allocate" => row'[doc[h]].applied = row[doc[h]].applied
      /\ doc[h] \in Notes \cup Refunds => row'[doc[h]].amount = row[doc[h]].amount
  BY <1>1
<1> QED BY <1>1, <1>2, <1>3, <1>4, <1>5, <1>6, MoveKeeps

\* The invoice is saved.
LEMMA SaveInvoice ==
  ASSUME IInv, Orderly, NEW h \in Handlers, NEW d, NEW a, NEW k, NEW s, NEW t,
         Saves(h, d, a, k, s, t, Inv), k >= 3, a # "allocate",
         OwedPaid(h)' = 0, OwedCredit(h)' = 0, OwedRefund(h)' = 0,
         \A c \in Notes : OwedNote(h, c)' = OwedNote(h, c),
         CopyFits(h)'
  PROVE  Orderly'
<1>1. /\ row'[Inv] = held[h][Inv] /\ \A e \in Docs : e # Inv => row'[e] = row[e]
      /\ Booked(h) /\ CopyFits(h) /\ Runs(h, "save") /\ Subject(h) = Inv
      /\ approved' = approved /\ source' = source
  BY SaveFacts
<1>2. InvFits(h) BY <1>1 DEF CopyFits
<1>3. /\ Paid' = Paid /\ Credited' = Credited /\ Refunded' = Refunded
      /\ \A c \in Notes : RefundOf(c)' = RefundOf(c)
  BY <1>1, SumsKept DEF SameForce, InForce
<1>4. Paid \in Nat /\ Credited \in Nat /\ Refunded \in Nat BY SumNumbers DEF IInv
<1>5. /\ row'[Inv].applied = Paid /\ row'[Inv].credited = Credited /\ row'[Inv].refunded = Refunded
  BY <1>1, <1>2 DEF InvFits, OnBooks, Booked
<1>6. \A c \in Notes : row'[c].refunded + OwedNote(h, c)' = RefundOf(c)
  BY <1>1, Kinds DEF Booked
<1>7. Booked(h)' BY <1>3, <1>4, <1>5, <1>6 DEF Booked
<1> QED BY <1>7, Kinds, SaveKeeps

\* The approval of the invoice saves it.
LEMMA OwnInvoiceSaved ==
  ASSUME IInv, Orderly, NEW h \in Handlers, NEW d, NEW a, NEW k, NEW s, NEW t, NEW x,
         Saves(h, d, a, k, s, t, x), d = Inv, a = "approve", k = 3, x = Inv, t[1] = "post"
  PROVE  Orderly'
<1>1. Executes(h, d, a, k, s, t) BY DEF Saves
<1>2. doc'[h] = d /\ act'[h] = a /\ Left(h)' = k - 1 /\ doc[h] = d BY SaveFacts
<1>3. /\ OwedPaid(h)' = 0 /\ OwedCredit(h)' = 0 /\ OwedRefund(h)' = 0
      /\ \A c \in Notes : OwedNote(h, c)' = OwedNote(h, c)
  BY <1>2, Kinds DEF OwedPaid, OwedCredit, OwedRefund, OwedNote
<1>4. CopyFits(h)' BY <1>1, Kinds, NextCopies
<1> QED BY <1>3, <1>4, SaveInvoice

\* The effect of a credit note saves the invoice.
LEMMA NoteSaved ==
  ASSUME IInv, Orderly, NEW h \in Handlers, NEW d, NEW a, NEW k, NEW s, NEW t, NEW x,
         Saves(h, d, a, k, s, t, x), d \in Notes, a = "approve", k = 3, x = Inv, t[1] = "post"
  PROVE  Orderly'
<1>1. Executes(h, d, a, k, s, t) BY DEF Saves
<1>2. doc'[h] = d /\ act'[h] = a /\ Left(h)' = k - 1 /\ doc[h] = d BY SaveFacts
<1>3. /\ OwedPaid(h)' = 0 /\ OwedCredit(h)' = 0 /\ OwedRefund(h)' = 0
      /\ \A c \in Notes : OwedNote(h, c)' = OwedNote(h, c)
  BY <1>2, Kinds DEF OwedPaid, OwedCredit, OwedRefund, OwedNote
<1>4. CopyFits(h)' BY <1>1, Kinds, NextCopies
<1> QED BY <1>3, <1>4, SaveInvoice

\* The effect of a payment saves the invoice or the payment.
LEMMA PaymentSaved ==
  ASSUME IInv, Orderly, NEW h \in Handlers, NEW d, NEW a, NEW k, NEW s, NEW t, NEW x,
         Saves(h, d, a, k, s, t, x), d \in Payments, a \in {"approve", "cancel"},
         PaymentSaves(d, a, row[d].applied, k, s, t)
  PROVE  Orderly'
<1> DEFINE n == row[d].applied
<1>1. Executes(h, d, a, k, s, t) /\ x = s[2] BY DEF Saves
<1>2. /\ doc'[h] = d /\ act'[h] = a /\ Left(h)' = k - 1 /\ doc[h] = d /\ act[h] = a /\ Left(h) = k
      /\ held' = held /\ approved' = approved /\ submitted' = submitted
      /\ row'[x] = held[h][x] /\ \A e \in Docs : e # x => row'[e] = row[e]
      /\ CopyFits(h) /\ Booked(h) /\ DoneFor(h) /\ Allocated(h)' = Allocated(h)
  BY SaveFacts
<1>3. k >= 3 BY DEF PaymentSaves
<1>d. d # Inv BY Kinds
<1>s. \/ a = "approve" /\ n = 0 /\ k = 3 /\ x = d /\ t[1] = "post"
      \/ a = "approve" /\ n # 0 /\ k = 5 /\ x = d /\ t[1] = "read"
      \/ a = "approve" /\ n # 0 /\ k = 3 /\ x = Inv /\ t[1] = "post"
      \/ a = "cancel" /\ k = 4 /\ x = Inv /\ t[1] = "save" /\ t[2] = d
      \/ a = "cancel" /\ k = 3 /\ x = d /\ t[1] = "post"
  BY <1>1 DEF PaymentSaves
<1>n. n \in Nat BY RowNumbers, Kinds DEF IInv
<1>4. CASE x = Inv
  <2>1. /\ a = "approve" => k = 3 /\ t[1] = "post" /\ n # 0
        /\ a = "cancel" => k = 4 /\ t[1] = "save" /\ t[2] = d
    BY <1>s, <1>d, <1>4
  <2>2. /\ OwedPaid(h)' = 0 /\ OwedCredit(h)' = 0 /\ OwedRefund(h)' = 0
        /\ \A c \in Notes : OwedNote(h, c)' = OwedNote(h, c)
    BY <1>2, <2>1, Kinds DEF OwedPaid, OwedCredit, OwedRefund, OwedNote
  <2>3. row'[d] = row[d] BY <1>2, <1>4, Kinds
  <2>4. k - 1 >= OwnAt(h)' => OwnFits(h)'
    <3>1. OwnAt(h)' = IF a = "approve" THEN 5 ELSE 3 BY <1>2, <2>1, <2>3 DEF OwnAt
    <3>2. a = "cancel" => OwnFits(h)
      <4>1. a = "cancel" => OwnAt(h) = 3 BY <1>2 DEF OwnAt
      <4> QED BY <1>2, <2>1, <4>1 DEF CopyFits
    <3>3. OwnFits(h) => OwnFits(h)' BY <1>2, <2>3 DEF OwnFits
    <3> QED BY <2>1, <3>1, <3>2, <3>3
  <2>5. CopyFits(h)'
    BY <1>1, <2>1, <2>4, Kinds, NextCopies
  <2> QED BY <1>3, <1>4, <2>2, <2>5, SaveInvoice
<1>5. CASE x = d
  <2>1. /\ t[1] \in {"post", "read"}
        /\ a = "approve" => (n = 0 /\ k = 3) \/ (n # 0 /\ k = 5)
        /\ a = "cancel" => k = 3
    BY <1>s, <1>d, <1>5
  <2>2. OwnFits(h)
    <3>1. k >= OwnAt(h) BY <1>2, <2>1 DEF OwnAt
    <3> QED BY <1>2, <3>1 DEF CopyFits
  <2>3. /\ DocFits(d, held[h][d], approved, submitted)
        /\ held[h][d].status = "cancelled" <=> a = "cancel"
        /\ held[h][d].applied = n
    BY <1>2, <1>n, <2>2 DEF OwnFits
  <2>4. d \in approved /\ (row[d].status = "cancelled" <=> a = "cancel")
    BY <1>2, Kinds DEF DoneFor, InForce
  <2>5. row'[d].applied = n BY <1>2, <1>5, <2>3
  <2>6. /\ Paid' = Paid /\ Credited' = Credited /\ Refunded' = Refunded
        /\ \A c \in Notes : RefundOf(c)' = RefundOf(c)
    <3>1. row'[d].status = "cancelled" <=> row[d].status = "cancelled" BY <1>2, <1>5, <2>3, <2>4
    <3>2. \A e \in Docs \ {Inv} : SameForce(e)
      BY <1>2, <1>5, <3>1, Kinds DEF SameForce, InForce
    <3>3. \A e \in Docs \ {Inv} :
            /\ e \in Payments => row'[e].applied = row[e].applied
            /\ e \in Notes \cup Refunds => row'[e].amount = row[e].amount
      BY <1>2, <1>5, <2>5, Kinds
    <3>4. source' = source BY SaveFacts
    <3> QED BY <3>2, <3>3, <3>4, SumsKept
  <2>7. /\ OwedPaid(h)' = OwedPaid(h) /\ OwedCredit(h)' = OwedCredit(h)
        /\ OwedRefund(h)' = OwedRefund(h) /\ \A c \in Notes : OwedNote(h, c)' = OwedNote(h, c)
    <3>1. a = "approve" /\ n = 0 => OwedPaid(h)' = 0 /\ OwedPaid(h) = 0
      BY <1>2, <2>1, <2>5 DEF OwedPaid
    <3>2. a = "approve" /\ n # 0 => OwedPaid(h)' = n /\ OwedPaid(h) = n
      BY <1>2, <2>1, <2>5 DEF OwedPaid
    <3>3. a = "cancel" => OwedPaid(h)' = 0 /\ OwedPaid(h) = 0 BY <1>2, <2>1 DEF OwedPaid
    <3>4. /\ OwedCredit(h)' = OwedCredit(h) /\ OwedRefund(h)' = OwedRefund(h)
          /\ \A c \in Notes : OwedNote(h, c)' = OwedNote(h, c)
      BY <1>2, Kinds DEF OwedCredit, OwedRefund, OwedNote
    <3> QED BY <3>1, <3>2, <3>3, <3>4
  <2>8. Booked(h)'
    <3>1. row'[Inv] = row[Inv] /\ \A c \in Notes : row'[c] = row[c] BY <1>2, <1>5, Kinds
    <3> QED BY <1>2, <2>6, <2>7, <3>1 DEF Booked
  <2>9. ~(k - 1 >= OwnAt(h)') BY <1>2, <2>1, <2>5 DEF OwnAt
  <2>10. CopyFits(h)' BY <1>1, <2>1, <2>9, Kinds, NextCopies
  <2> QED BY <1>3, <1>5, <2>3, <2>4, <2>8, <2>10, Kinds, SaveKeeps
<1> QED BY <1>s, <1>4, <1>5

\* An allocation saves its payment.
LEMMA AllocationSaved ==
  ASSUME IInv, IInv', Orderly, NEW h \in Handlers, NEW d, NEW a, NEW k, NEW s, NEW t, NEW x,
         Saves(h, d, a, k, s, t, x), d \in Payments, a = "allocate", k = 3, x = d, t[1] = "read"
  PROVE  Orderly'
<1> DEFINE n == Allocated(h)
<1>1. Executes(h, d, a, k, s, t) BY DEF Saves
<1>2. /\ doc'[h] = d /\ act'[h] = a /\ Left(h)' = k - 1 /\ doc[h] = d /\ act[h] = a /\ Left(h) = k
      /\ held' = held /\ approved' = approved /\ submitted' = submitted
      /\ row'[x] = held[h][x] /\ \A e \in Docs : e # x => row'[e] = row[e]
      /\ CopyFits(h) /\ Booked(h) /\ DoneFor(h) /\ Allocated(h)' = Allocated(h) /\ OnTrack(h)
      /\ source' = source
  BY SaveFacts
<1>n. n \in Nat /\ row[d].applied \in Nat /\ row[Inv].applied \in Nat /\ Paid \in Nat
  <2>1. n \in 1..Total BY <1>2 DEF OnTrack, Planned
  <2> QED BY <2>1, RowNumbers, SumNumbers, Kinds, TotalIsNat DEF IInv
<1>3. OwnFits(h)
  <2>1. OwnAt(h) = 3 BY <1>2 DEF OwnAt
  <2> QED BY <1>2, <2>1 DEF CopyFits
<1>4. /\ DocFits(d, held[h][d], approved, submitted) /\ held[h][d].status # "cancelled"
      /\ held[h][d].applied = row[d].applied + n
  BY <1>2, <1>3 DEF OwnFits
<1>5. d \in approved /\ row[d].status # "cancelled" BY <1>2, Kinds DEF DoneFor, InForce
<1>6. InForce(d) /\ InForce(d)' /\ row'[d].applied = row[d].applied + n
  BY <1>2, <1>4, <1>5 DEF InForce
<1>7. /\ Paid' = Paid + n /\ Credited' = Credited /\ Refunded' = Refunded
      /\ \A c \in Notes : RefundOf(c)' = RefundOf(c)
  <2>1. \A e \in Docs \ {Inv, d} : SameForce(e) /\ row'[e] = row[e]
    BY <1>2 DEF SameForce, InForce
  <2>2. d \in Docs \ {Inv} /\ d \notin Notes /\ d \notin Refunds BY Kinds
  <2>3. /\ Paid' = Paid - Counted(d, row[d].applied) + Counted(d, row[d].applied)'
        /\ Credited' = Credited /\ Refunded' = Refunded
        /\ \A c \in Notes : RefundOf(c)' = RefundOf(c)
    BY <1>2, <2>1, <2>2, SumsChange DEF IInv
  <2>4. Counted(d, row[d].applied) = row[d].applied /\ Counted(d, row[d].applied)' = row[d].applied + n
    BY <1>6 DEF Counted
  <2> QED BY <1>n, <2>3, <2>4
<1>8. /\ OwedPaid(h) = 0 /\ OwedPaid(h)' = n
      /\ OwedCredit(h)' = OwedCredit(h) /\ OwedRefund(h)' = OwedRefund(h)
      /\ \A c \in Notes : OwedNote(h, c)' = OwedNote(h, c)
  BY <1>2, Kinds DEF OwedPaid, OwedCredit, OwedRefund, OwedNote
<1>9. Booked(h)'
  <2>1. row'[Inv] = row[Inv] /\ \A c \in Notes : row'[c] = row[c] BY <1>2, Kinds
  <2>2. row[Inv].applied = Paid BY <1>2, <1>8, <1>n DEF Booked
  <2> QED BY <1>2, <1>7, <1>8, <2>1, <2>2 DEF Booked
<1>10. ~(k - 1 >= OwnAt(h)') BY <1>2 DEF OwnAt
<1>11. CopyFits(h)' BY <1>1, <1>10, Kinds, NextCopies
<1> QED BY <1>4, <1>5, <1>9, <1>11, Kinds, SaveKeeps

\* The effect of a refund saves the invoice or its credit note ...
LEMMA RefundSaved ==
  ASSUME IInv, Orderly, NEW h \in Handlers, NEW d, NEW a, NEW k, NEW s, NEW t, NEW x,
         Saves(h, d, a, k, s, t, x), d \in Refunds, a \in {"approve", "cancel"},
         NEW c \in Notes, c = source[d], c \in approved, ShareCount(d) \in Nat,
         RefundSaves(d, a, row[d].amount, c, k, s, t)
  PROVE  Orderly'
<1> DEFINE n == row[d].amount
<1>1. Executes(h, d, a, k, s, t) /\ x = s[2] BY DEF Saves
<1>2. /\ doc'[h] = d /\ act'[h] = a /\ Left(h)' = k - 1 /\ doc[h] = d /\ act[h] = a /\ Left(h) = k
      /\ held' = held /\ approved' = approved /\ submitted' = submitted /\ source' = source
      /\ row'[x] = held[h][x] /\ \A e \in Docs : e # x => row'[e] = row[e]
      /\ CopyFits(h) /\ Booked(h) /\ Runs(h, "save") /\ Subject(h) = x
  BY SaveFacts
<1>d. d \in Docs /\ c \in Docs /\ c # Inv /\ d # c /\ c # d BY Kinds
<1>n. n \in Nat BY <1>d, RowNumbers DEF IInv
<1>s. \/ a = "approve" /\ k = 4 /\ x = Inv /\ t[1] = "save" /\ t[2] = c
      \/ a = "approve" /\ k = 3 /\ x = c /\ t[1] = "post"
      \/ a = "cancel" /\ k = 5 /\ x = c /\ t[1] = "read"
      \/ a = "cancel" /\ k = 3 /\ x = Inv /\ t[1] = "post"
  BY <1>1 DEF RefundSaves
<1>o. row'[d] = row[d] BY <1>2, <1>d, <1>s, Kinds
<1>4. CASE x = Inv
  <2>1. (a = "approve" /\ k = 4 /\ t[1] = "save" /\ t[2] = c) \/ (a = "cancel" /\ k = 3 /\ t[1] = "post")
    BY <1>s, <1>d, <1>4
  <2>2. /\ OwedPaid(h)' = 0 /\ OwedCredit(h)' = 0 /\ OwedRefund(h)' = 0
        /\ \A e \in Notes : OwedNote(h, e)' = OwedNote(h, e)
    BY <1>2, <1>o, <2>1, Kinds DEF OwedPaid, OwedCredit, OwedRefund, OwedNote
  <2>3. a = "approve" => NoteFits(h, c)'
    <3> SUFFICES ASSUME a = "approve" PROVE NoteFits(h, c)'
      OBVIOUS
    <3>0. k \in 3..(ShareCount(d) + 4) BY <2>1
    <3>1. NoteFits(h, c) BY <1>2, <3>0 DEF CopyFits
    <3>2. row'[c] = row[c] BY <1>2, <1>4, <1>d
    <3> QED BY <1>2, <2>2, <3>1, <3>2 DEF NoteFits
  <2>4. a = "approve" => NoteFits(h, source[d])' BY <1>2, <2>3 DEF NoteFits
  <2>5. a = "approve" => NoteFits(h, t[2])' BY <2>1, <2>3 DEF NoteFits
  <2>6. a = "approve" => k - 1 \notin 4..(ShareCount(d) + 4) /\ k - 1 # ShareCount(d) + 5 BY <2>1
  <2>7. CopyFits(h)'
    BY <1>1, <1>d, <2>1, <2>4, <2>5, <2>6, Kinds, NextCopies
  <2>8. k >= 3 /\ a # "allocate" BY <2>1
  <2> QED BY <1>4, <2>2, <2>7, <2>8, SaveInvoice
<1>5. CASE x = c
  <2>1. (a = "approve" /\ k = 3 /\ t[1] = "post") \/ (a = "cancel" /\ k = 5 /\ t[1] = "read")
    BY <1>s, <1>d, <1>5
  <2>2. NoteFits(h, c)
    <3>1. NoteFits(h, Subject(h)) BY <1>2, <1>5 DEF CopyFits
    <3> QED BY <1>2, <1>5, <3>1 DEF NoteFits
  <2>3. /\ held[h][c].refunded = row[c].refunded + OwedNote(h, c)
        /\ held[h][c].amount = row[c].amount /\ DocFits(c, held[h][c], approved, submitted)
    BY <2>2 DEF NoteFits
  <2>4. /\ Paid' = Paid /\ Credited' = Credited /\ Refunded' = Refunded
        /\ \A e \in Notes : RefundOf(e)' = RefundOf(e)
    <3>2. \A e \in Docs \ {Inv} : SameForce(e)
      BY <1>2, <1>5, Kinds DEF SameForce, InForce
    <3>3. \A e \in Docs \ {Inv} :
            /\ e \in Payments => row'[e].applied = row[e].applied
            /\ e \in Notes \cup Refunds => row'[e].amount = row[e].amount
      BY <1>2, <1>5, <2>3, Kinds
    <3> QED BY <1>2, <3>2, <3>3, SumsKept
  <2>5. /\ OwedPaid(h)' = OwedPaid(h) /\ OwedCredit(h)' = OwedCredit(h)
        /\ OwedRefund(h)' = OwedRefund(h)
        /\ \A e \in Notes \ {c} : OwedNote(h, e)' = OwedNote(h, e)
        /\ OwedNote(h, c)' = 0
    BY <1>2, <1>o, <2>1, Kinds DEF OwedPaid, OwedCredit, OwedRefund, OwedNote
  <2>6. Booked(h)'
    <3>1. row'[Inv] = row[Inv] /\ \A e \in Notes \ {c} : row'[e] = row[e] BY <1>2, <1>5, <1>d, Kinds
    <3>2. row'[c].refunded + OwedNote(h, c)' = RefundOf(c)'
      <4>1. row'[c].refunded = RefundOf(c) BY <1>2, <1>5, <2>3 DEF Booked
      <4>2. RefundOf(c) \in Nat BY SumNumbers DEF IInv
      <4> QED BY <2>4, <2>5, <4>1, <4>2
    <3>3. \A e \in Notes : row'[e].refunded + OwedNote(h, e)' = RefundOf(e)'
      <4> TAKE e \in Notes
      <4>1. CASE e = c BY <3>2, <4>1
      <4>2. CASE e # c
        <5>1. row[e].refunded + OwedNote(h, e) = RefundOf(e) BY <1>2 DEF Booked
        <5> QED BY <2>4, <2>5, <3>1, <4>2, <5>1
      <4> QED BY <4>1, <4>2
    <3> QED BY <1>2, <2>4, <2>5, <3>1, <3>3 DEF Booked
  <2>7. a = "approve" => /\ k - 1 \notin 4..(ShareCount(d) + 4) /\ k - 1 # ShareCount(d) + 5
                         /\ k - 1 \notin 3..(ShareCount(d) + 4)
    BY <2>1
  <2>8. CopyFits(h)' BY <1>1, <1>d, <2>1, <2>7, Kinds, NextCopies
  <2>9. k >= 3 BY <2>1
  <2>10. x # Inv /\ x \notin Refunds /\ x \notin Payments /\ x # d BY <1>5, <1>d, Kinds
  <2> QED BY <1>5, <2>3, <2>6, <2>8, <2>9, <2>10, SaveKeeps
<1> QED BY <1>s, <1>4, <1>5

\* ... or a payment of its allocations.
LEMMA ShareSaved ==
  ASSUME IInv, Orderly, NEW h \in Handlers, NEW d, NEW a, NEW k, NEW s, NEW t, NEW x,
         Saves(h, d, a, k, s, t, x), d \in Refunds, a \in {"approve", "cancel"},
         NEW c \in Notes, c = source[d], c \in approved, ShareCount(d) \in Nat,
         RefundShares(a, row[d].amount, ShareCount(d), k, s, t)
  PROVE  Orderly'
<1> DEFINE n == row[d].amount
<1>1. Executes(h, d, a, k, s, t) /\ x = s[2] /\ s[1] = "save" BY DEF Saves
<1>2. /\ doc'[h] = d /\ act'[h] = a /\ Left(h)' = k - 1 /\ doc[h] = d /\ act[h] = a /\ Left(h) = k
      /\ held' = held /\ approved' = approved /\ submitted' = submitted /\ source' = source
      /\ row'[x] = held[h][x] /\ \A e \in Docs : e # x => row'[e] = row[e]
      /\ CopyFits(h) /\ Booked(h) /\ Runs(h, "save") /\ Subject(h) = x
  BY SaveFacts
<1>3. /\ a = "approve" => k \in 5..(ShareCount(d) + 4)
      /\ a = "cancel" => k \in 7..(ShareCount(d) + 6)
      /\ x \in Payments
      /\ t[1] = "read" \/ (a = "approve" /\ k = 5 /\ t[1] = "save" /\ t[2] = Inv)
  BY <1>1 DEF RefundShares
<1>d. /\ d \in Docs /\ x \in Docs /\ c \in Docs /\ x # Inv /\ x # d /\ d # x /\ x # c /\ c # x
      /\ x \notin Refunds /\ x \notin Notes /\ d \notin Payments /\ d \notin Notes
  BY <1>3, Kinds
<1>o. row'[d] = row[d] /\ row'[c] = row[c] /\ row'[Inv] = row[Inv] /\ \A e \in Notes : row'[e] = row[e]
  BY <1>2, <1>d, Kinds
<1>4. ShareFits(h, x)
  <2>1. ShareFits(h, Subject(h)) BY <1>2, <1>3 DEF CopyFits
  <2> QED BY <1>2, <2>1 DEF ShareFits
<1>5. /\ DocFits(x, held[h][x], approved, submitted)
      /\ held[h][x].status = "cancelled" <=> row[x].status = "cancelled"
      /\ x \in approved => held[h][x].applied = row[x].applied
  BY <1>4 DEF ShareFits
<1>6. /\ Paid' = Paid /\ Credited' = Credited /\ Refunded' = Refunded
      /\ \A e \in Notes : RefundOf(e)' = RefundOf(e)
  <2>1. \A e \in Docs \ {Inv} : SameForce(e)
    BY <1>2, <1>5, Kinds DEF SameForce, InForce
  <2>2. \A e \in Docs \ {Inv} :
          InForce(e) => /\ e \in Payments => row'[e].applied = row[e].applied
                        /\ e \in Notes \cup Refunds => row'[e].amount = row[e].amount
                        /\ e \in Refunds => source'[e] = source[e]
    BY <1>2, <1>5, <1>d DEF InForce
  <2> QED BY <2>1, <2>2, SumsKept
<1>7. /\ OwedPaid(h)' = OwedPaid(h) /\ OwedCredit(h)' = OwedCredit(h)
      /\ OwedRefund(h)' = OwedRefund(h) /\ \A e \in Notes : OwedNote(h, e)' = OwedNote(h, e)
  BY <1>2, <1>3, <1>o, <1>d DEF OwedPaid, OwedCredit, OwedRefund, OwedNote
<1>8. Booked(h)' BY <1>2, <1>6, <1>7, <1>o DEF Booked
<1>9. a = "approve" => InvFits(h)' /\ NoteFits(h, source[d])'
  <2> SUFFICES ASSUME a = "approve" PROVE InvFits(h)' /\ NoteFits(h, source[d])'
    OBVIOUS
  <2>1. k \in 4..(ShareCount(d) + 4) /\ k \in 3..(ShareCount(d) + 4) BY <1>3
  <2>2. InvFits(h) /\ NoteFits(h, source[d]) BY <1>2, <2>1 DEF CopyFits
  <2>3. InvFits(h)' BY <1>2, <1>7, <1>o, <2>2 DEF InvFits, OnBooks
  <2>4. NoteFits(h, c) BY <2>2 DEF NoteFits
  <2>5. NoteFits(h, c)' BY <1>2, <1>7, <1>o, <2>4 DEF NoteFits
  <2> QED BY <1>2, <2>3, <2>5 DEF NoteFits
<1>10. a = "approve" => k - 1 # ShareCount(d) + 5 BY <1>3
<1>11. CopyFits(h)' BY <1>1, <1>3, <1>9, <1>10, <1>d, Kinds, NextCopies
<1>12. k >= 3 BY <1>3
<1> QED BY <1>5, <1>8, <1>11, <1>12, <1>d, SaveKeeps

\* A save that is not the last statement of its effect.
LEMMA SaveMoves ==
  ASSUME IInv, IInv', Orderly, NEW h \in Handlers, Save(h), Left(h) >= 2
  PROVE  Orderly'
<1>1. /\ Busy(h) /\ Head(todo[h])[1] = "save"
      /\ row' = [row EXCEPT ![Subject(h)] = held[h][Subject(h)]] /\ Advance(h)
      /\ UNCHANGED <<submitted, approved, source, share, links, posted>>
  BY DEF Save, Runs, docVars, Busy
<1>2. PICK d, a, k, s, t, x : /\ d = doc[h] /\ a = act[h] /\ k = Left(h) /\ s = Head(todo[h])
                              /\ t = FromEnd(todo[h], k - 1) /\ x = s[2]
  OBVIOUS
<1>3. s[1] = "save" /\ k >= 2 /\ x = Subject(h) BY <1>1, <1>2 DEF Subject
<1>4. OnTrack(h) /\ d \in Docs /\ k \in Nat /\ Len(todo[h]) = k BY <1>1, <1>2, BusyFacts
<1>5. todo' = [todo EXCEPT ![h] = Tail(todo[h])] /\ UNCHANGED <<doc, act, held, seen>>
  <2>1. Len(todo[h]) # 1 BY <1>3, <1>4
  <2> QED BY <1>1, <2>1 DEF Advance
<1>6. Saves(h, d, a, k, s, t, x) BY <1>1, <1>2, <1>3, <1>5 DEF Saves, Executes
<1>7. \/ d = Inv /\ a = "approve" /\ k = 3 /\ s = <<"save", Inv, 0>> /\ t = <<"post", Inv, 0>>
      \/ /\ d \in Payments /\ a \in {"approve", "cancel"} /\ k >= 3
         /\ PaymentReads(d, a, row[d].applied, k, s, t) \/ PaymentSaves(d, a, row[d].applied, k, s, t)
      \/ d \in Notes /\ a = "approve" /\ NoteMoves(d, row[d].amount, k, s, t)
      \/ /\ d \in Refunds /\ a \in {"approve", "cancel"} /\ k >= 3
         /\ source[d] \in Notes \cap approved /\ ShareCount(d) \in Nat
         /\ \/ RefundReads(d, a, row[d].amount, source[d], ShareCount(d), k, s, t)
            \/ RefundSaves(d, a, row[d].amount, source[d], k, s, t)
            \/ RefundShares(a, row[d].amount, ShareCount(d), k, s, t)
      \/ /\ d \in Payments /\ a = "allocate" /\ Allocated(h) \in 1..Total
         /\ AllocationMoves(d, Allocated(h), k, s, t)
  BY <1>1, <1>2, <1>3, HeadPlan
<1>8. CASE d = Inv /\ a = "approve" /\ k = 3 /\ s = <<"save", Inv, 0>> /\ t = <<"post", Inv, 0>>
  <2>1. x = Inv /\ t[1] = "post" BY <1>2, <1>8
  <2> QED BY <1>6, <1>8, <2>1, OwnInvoiceSaved
<1>9. CASE /\ d \in Payments /\ a \in {"approve", "cancel"}
           /\ PaymentReads(d, a, row[d].applied, k, s, t) \/ PaymentSaves(d, a, row[d].applied, k, s, t)
  <2>1. ~PaymentReads(d, a, row[d].applied, k, s, t) BY <1>3 DEF PaymentReads
  <2>2. PaymentSaves(d, a, row[d].applied, k, s, t) BY <1>9, <2>1
  <2> QED BY <1>6, <1>9, <2>2, PaymentSaved
<1>10. CASE d \in Notes /\ a = "approve" /\ NoteMoves(d, row[d].amount, k, s, t)
  <2>1. k = 3 /\ s = <<"save", Inv, row[d].amount>> /\ t = <<"post", d, 0>>
    BY <1>3, <1>10 DEF NoteMoves
  <2>2. x = Inv /\ t[1] = "post" BY <1>2, <2>1
  <2> QED BY <1>6, <1>10, <2>1, <2>2, NoteSaved
<1>11. CASE /\ d \in Refunds /\ a \in {"approve", "cancel"}
            /\ source[d] \in Notes \cap approved /\ ShareCount(d) \in Nat
            /\ \/ RefundReads(d, a, row[d].amount, source[d], ShareCount(d), k, s, t)
               \/ RefundSaves(d, a, row[d].amount, source[d], k, s, t)
               \/ RefundShares(a, row[d].amount, ShareCount(d), k, s, t)
  <2>0. PICK c \in Notes : c = source[d] /\ c \in approved BY <1>11
  <2>1. ~RefundReads(d, a, row[d].amount, source[d], ShareCount(d), k, s, t) BY <1>3 DEF RefundReads
  <2>2. CASE RefundSaves(d, a, row[d].amount, source[d], k, s, t)
    <3>1. RefundSaves(d, a, row[d].amount, c, k, s, t) BY <2>0, <2>2
    <3> QED BY <1>6, <1>11, <2>0, <3>1, RefundSaved
  <2>3. CASE RefundShares(a, row[d].amount, ShareCount(d), k, s, t)
    BY <1>6, <1>11, <2>0, <2>3, ShareSaved
  <2> QED BY <1>11, <2>1, <2>2, <2>3
<1>12. CASE /\ d \in Payments /\ a = "allocate" /\ Allocated(h) \in 1..Total
            /\ AllocationMoves(d, Allocated(h), k, s, t)
  <2>1. k = 3 /\ s = <<"save", d, 0>> /\ t = <<"read", Inv, Allocated(h)>>
    BY <1>3, <1>12 DEF AllocationMoves
  <2>2. x = d /\ t[1] = "read" BY <1>2, <2>1
  <2> QED BY <1>6, <1>12, <2>1, <2>2, AllocationSaved
<1> QED BY <1>7, <1>8, <1>9, <1>10, <1>11, <1>12

\* The last statement of an allocation.
LEMMA SaveEnds ==
  ASSUME IInv, Orderly, NEW h \in Handlers, Save(h), Left(h) < 2
  PROVE  Orderly'
<1>1. /\ Busy(h) /\ Head(todo[h])[1] = "save" /\ Runs(h, "save")
      /\ row' = [row EXCEPT ![Subject(h)] = held[h][Subject(h)]] /\ Advance(h)
      /\ UNCHANGED <<submitted, approved, source, share, links, posted>>
  BY DEF Save, Runs, docVars, Busy
<1>2. PICK d, a, k, s, t : /\ d = doc[h] /\ a = act[h] /\ k = Left(h) /\ s = Head(todo[h])
                           /\ t = FromEnd(todo[h], k - 1)
  OBVIOUS
<1>3. /\ OnTrack(h) /\ d \in Docs /\ k \in Nat \ {0} /\ Len(todo[h]) = k
      /\ \A e, b : \A j \in {1, 2} :
           StillDoes(e, b, j) <=> doc[h] = e /\ act[h] = b /\ Left(h) >= j
  BY <1>1, <1>2, BusyFacts
<1>4. k = 1 /\ s[1] = "save" BY <1>1, <1>2, <1>3
<1>5. d \in Payments /\ a = "allocate" /\ s = <<"save", Inv, Allocated(h)>> /\ Allocated(h) \in 1..Total
  <2>1. /\ d \in Payments /\ a = "allocate" /\ Allocated(h) \in 1..Total
        /\ AllocationMoves(d, Allocated(h), k, s, t)
    <3>1. ~(k >= 3) BY <1>4
    <3>2. ~NoteMoves(d, row[d].amount, k, s, t) BY <1>4 DEF NoteMoves
    <3>3. s[1] \in {"read", "save"} BY <1>4
    <3>4. k # 3 BY <1>4
    <3> QED BY <1>1, <1>2, <3>1, <3>2, <3>3, <3>4, HeadPlan
  <2> QED BY <1>4, <2>1 DEF AllocationMoves
<1>6. Subject(h) = Inv BY <1>2, <1>5 DEF Subject
<1>7. Done(h) BY <1>1, <1>3, <1>4 DEF Advance
<1>8. row'[Inv] = held[h][Inv] /\ \A e \in Docs : e # Inv => row'[e] = row[e]
  BY <1>1, <1>6, Kinds, NewRow
<1>9. InvFits(h) /\ Booked(h) BY <1>1, <1>3, <1>6 DEF OnTrack, CopyFits
<1>10. /\ Paid' = Paid /\ Credited' = Credited /\ Refunded' = Refunded
       /\ \A c \in Notes : RefundOf(c)' = RefundOf(c)
  BY <1>1, <1>8, SumsKept DEF SameForce, InForce
<1>11. \A c \in Notes : OwedNote(h, c) = 0 /\ row[c].refunded \in Nat
  BY <1>2, <1>5, RowNumbers, Kinds DEF OwedNote, IInv
<1>12. Settled'
  <2>1. /\ row'[Inv].applied = Paid /\ row'[Inv].credited = Credited /\ row'[Inv].refunded = Refunded
    BY <1>8, <1>9 DEF InvFits, OnBooks, Booked
  <2>2. \A c \in Notes : row'[c].refunded = RefundOf(c)
    BY <1>8, <1>9, <1>11, Kinds DEF Booked
  <2> QED BY <1>10, <2>1, <2>2 DEF Settled
<1>13. RowsFit' BY <1>1, <1>8 DEF Orderly, RowsFit
<1>14. ASSUME NEW e \in Docs \ {Inv},
              \A b \in {"approve", "cancel"}, j \in {1, 2} : ~StillDoes(e, b, j)'
       PROVE  PostingsFit(e)'
  <2>1. \A b \in {"approve", "cancel"}, j \in {1, 2} : ~StillDoes(e, b, j)
    BY <1>2, <1>3, <1>5
  <2>2. PostingsFit(e) /\ (InForce(e)' <=> InForce(e)) BY <1>1, <1>8 DEF Orderly, InForce
  <2> QED BY <1>1, <1>14, <2>1, <2>2 DEF PostingsFit
<1> QED BY <1>1, <1>7, <1>12, <1>13, <1>14, EndKeeps

-----------------------------------------------------------------------------
(***************************************************************************)
(* Postings and links.                                                     *)
(***************************************************************************)
\* The statement of an effect, k from the end, is not a posting or a link before
\* the last two.
LEMMA EarlySteps ==
  ASSUME NEW d, NEW a, NEW v, NEW c, NEW sh, NEW k \in Nat, k >= 3
  PROVE  Plan(d, a, v, c, sh, k)[1] \in {"read", "save"}
<1> DEFINE n == v.amount
           m == v.applied
<1>1. PaymentPlan(d, a, m, k)[1] \in {"read", "save"}
  <2> HIDE DEF m
  <2> QED BY DEF PaymentPlan
<1>2. NotePlan(n, k)[1] \in {"read", "save"}
  <2> HIDE DEF n
  <2> QED BY DEF NotePlan
<1>3. RefundPlan(a, n, c, sh, k)[1] \in {"read", "save"}
  <2> HIDE DEF n
  <2>1. \A j : SharePart(sh, j)[1] \in {"read", "save"}
    <3> TAKE j
    <3> DEFINE i == 2 * Len(sh) + 1 - j
               x == sh[(i + 1) \div 2]
    <3>1. SharePart(sh, j) = <<IF i % 2 = 1 THEN "read" ELSE "save", x.payment, x.amount>>
      BY DEF SharePart
    <3> HIDE DEF i, x
    <3> QED BY <3>1
  <2> QED BY <2>1 DEF RefundPlan
<1>4. Plan(d, a, v, c, sh, k) \in
        {<<"save", Inv, 0>>, PaymentPlan(d, a, m, k), NotePlan(n, k), RefundPlan(a, n, c, sh, k)}
  BY DEF Plan
<1> HIDE DEF n, m
<1> QED BY <1>1, <1>2, <1>3, <1>4

\* The last two statements of an approval or a cancellation.
LEMMA ClosingPlan ==
  ASSUME IInv, Orderly, NEW h \in Handlers, Busy(h), Head(todo[h])[1] \in {"post", "link"}
  PROVE  /\ act[h] \in {"approve", "cancel"} /\ Subject(h) = doc[h]
         /\ Head(todo[h])[1] = "post" => Left(h) = 2 /\ FromEnd(todo[h], 1)[1] = "link"
         /\ Head(todo[h])[1] = "link" => Left(h) = 1
<1> DEFINE d == doc[h]
           k == Left(h)
           s == Head(todo[h])
<1>1. OnTrack(h) /\ d \in Docs /\ k \in Nat \ {0} /\ s = FromEnd(todo[h], k)
  BY BusyFacts
<1>2. act[h] # "allocate"
  <2> SUFFICES ASSUME act[h] = "allocate" PROVE FALSE
    OBVIOUS
  <2>1. \A j \in 1..k : FromEnd(todo[h], j) = AllocationPlan(d, Allocated(h), j)
    BY <1>1 DEF OnTrack, Planned
  <2>2. s = AllocationPlan(d, Allocated(h), k) BY <1>1, <2>1
  <2>3. s[1] \in {"read", "save"} BY <2>2 DEF AllocationPlan
  <2> QED BY <2>3
<1>3. /\ act[h] \in {"approve", "cancel"}
      /\ \A j \in 1..k :
           FromEnd(todo[h], j) = Plan(d, act[h], row[d], source[d], share[d], j)
  BY <1>1, <1>2 DEF OnTrack, DoneFor, Planned
<1>4. s = Plan(d, act[h], row[d], source[d], share[d], k) BY <1>1, <1>3
<1>5. k \in {1, 2}
  <2>1. k >= 3 => s[1] \in {"read", "save"} BY <1>1, <1>4, EarlySteps
  <2> QED BY <1>1, <2>1
<1>6. k = 1 => s = <<"link", d, 0>> BY <1>4 DEF Plan
<1>7. k = 2 => s = <<"post", d, 0>> BY <1>4 DEF Plan
<1>8. k = 2 => FromEnd(todo[h], 1) = <<"link", d, 0>>
  <2>1. k = 2 => FromEnd(todo[h], 1) = Plan(d, act[h], row[d], source[d], share[d], 1)
    BY <1>3
  <2> QED BY <2>1 DEF Plan
<1> QED BY <1>3, <1>5, <1>6, <1>7, <1>8 DEF Subject

\* With no more than the last two statements left, everything is on the books.
LEMMA NothingOwed ==
  ASSUME IInv, Orderly, NEW h \in Handlers, act[h] \in {"approve", "cancel"}, Left(h) \in {1, 2}
  PROVE  /\ OwedPaid(h) = 0 /\ OwedCredit(h) = 0 /\ OwedRefund(h) = 0
         /\ \A c \in Notes : OwedNote(h, c) = 0
BY DEF OwedPaid, OwedCredit, OwedRefund, OwedNote

\* The effect ends at its posting or at its link.
LEMMA ClosingEnds ==
  ASSUME IInv, Orderly, NEW h \in Handlers, Busy(h), Done(h), row' = row, source' = source,
         approved' = approved, submitted' = submitted,
         act[h] \in {"approve", "cancel"}, Left(h) \in {1, 2},
         \A d \in Docs \ {Inv} :
           (\A b \in {"approve", "cancel"}, k \in {1, 2} : ~StillDoes(d, b, k)') => PostingsFit(d)'
  PROVE  Orderly'
<1>1. OnTrack(h) BY BusyFacts
<1>2. /\ OwedPaid(h) = 0 /\ OwedCredit(h) = 0 /\ OwedRefund(h) = 0
      /\ \A c \in Notes : OwedNote(h, c) = 0
  BY NothingOwed
<1>3. /\ row[Inv].applied \in Nat /\ row[Inv].credited \in Nat /\ row[Inv].refunded \in Nat
      /\ \A c \in Notes : row[c].refunded \in Nat
  BY RowNumbers, Kinds DEF IInv
<1>4. Settled BY <1>1, <1>2, <1>3 DEF OnTrack, Booked, Settled
<1>5. /\ Paid' = Paid /\ Credited' = Credited /\ Refunded' = Refunded
      /\ \A c \in Notes : RefundOf(c)' = RefundOf(c)
  BY SumsKept DEF SameForce, InForce
<1>6. Settled' BY <1>4, <1>5 DEF Settled
<1>7. RowsFit' BY DEF Orderly, RowsFit
<1> QED BY <1>6, <1>7, EndKeeps

\* The ledger posting.
LEMMA PostMoves ==
  ASSUME IInv, Orderly, NEW h \in Handlers, Post(h)
  PROVE  Orderly'
<1>1. /\ Busy(h) /\ Head(todo[h])[1] = "post"
      /\ UNCHANGED <<row, submitted, approved, source, share, links>>
  BY DEF Post, Runs, docVars, Busy
<1>2. act[h] \in {"approve", "cancel"} /\ Subject(h) = doc[h] /\ Left(h) = 2
      /\ FromEnd(todo[h], 1)[1] = "link"
  BY <1>1, ClosingPlan
<1>3. /\ OnTrack(h) /\ doc[h] \in Docs /\ Len(todo[h]) = 2
      /\ \A e, b : \A j \in {1, 2} :
           StillDoes(e, b, j) <=> doc[h] = e /\ act[h] = b /\ Left(h) >= j
  BY <1>1, <1>2, BusyFacts
<1>4. DoneFor(h) BY <1>3 DEF OnTrack
<1>5. doc[h] # Inv => PostingDue(h)
  BY <1>2, <1>4 DEF DoneFor, PostingDue, Reason
<1>6. CASE ~PostingDue(h)
  <2>1. doc[h] = Inv /\ Done(h) /\ posted' = posted BY <1>5, <1>6 DEF Post
  <2>2. ASSUME NEW e \in Docs \ {Inv},
               \A b \in {"approve", "cancel"}, j \in {1, 2} : ~StillDoes(e, b, j)'
        PROVE  PostingsFit(e)'
    <3>1. \A b \in {"approve", "cancel"}, j \in {1, 2} : ~StillDoes(e, b, j)
      BY <1>3, <2>1
    <3>2. PostingsFit(e) /\ (InForce(e)' <=> InForce(e)) BY <1>1 DEF Orderly, InForce
    <3> QED BY <1>1, <2>1, <2>2, <3>1, <3>2 DEF PostingsFit
  <2> QED BY <1>1, <1>2, <2>1, <2>2, ClosingEnds
<1>7. CASE PostingDue(h)
  <2>1. /\ posted' = [posted EXCEPT ![doc[h]][Reason(h)] = @ + 1]
        /\ todo' = [todo EXCEPT ![h] = Tail(todo[h])] /\ UNCHANGED <<doc, act, held, seen>>
    BY <1>2, <1>3, <1>7 DEF Post, Advance
  <2>2. \A e \in Docs \ {Inv} : SameForce(e) BY <1>1 DEF SameForce, InForce
  <2>3. RowsFit' BY <1>1 DEF Orderly, RowsFit
  <2>4. Left(h)' = 1 /\ Head(todo'[h]) = FromEnd(todo[h], 1)
        /\ \A g \in Handlers : g # h => todo'[g] = << >>
    <3>1. Left(h)' = Left(h) - 1 /\ Head(todo'[h]) = FromEnd(todo[h], Left(h) - 1)
          /\ \A g \in Handlers : g # h => todo'[g] = << >>
      <4>1. Left(h) >= 2 BY <1>2
      <4> QED BY <1>1, <2>1, <4>1, Moves
    <3> QED BY <1>2, <3>1
  <2>5. \A e, b : \A j \in {1, 2} :
          StillDoes(e, b, j)' <=> doc[h] = e /\ act[h] = b /\ j = 1
    <3>1. \A g \in Handlers : g # h => Left(g)' = 0 BY <2>4, EmptySeq DEF Left
    <3> QED BY <2>1, <2>4, <3>1 DEF StillDoes
  <2>6. \A e \in Docs \ {Inv} : PostingsFit(e)'
    <3> TAKE e \in Docs \ {Inv}
    <3>1. PostingsFit(e) /\ (InForce(e)' <=> InForce(e)) BY <1>1 DEF Orderly, InForce
    <3>2. CASE e # doc[h]
      <4>1. posted'[e] = posted[e] BY <2>1, <3>2 DEF IInv, TypeOK
      <4>2. \A b : \A j \in {1, 2} : ~StillDoes(e, b, j) /\ ~StillDoes(e, b, j)'
        BY <1>3, <2>5, <3>2
      <4> QED BY <1>1, <3>1, <4>1, <4>2 DEF PostingsFit
    <3>3. CASE e = doc[h] /\ act[h] = "approve"
      <4>1. e \in approved /\ InForce(e) BY <1>4, <3>3 DEF DoneFor
      <4>2. /\ posted'[e]["issue"] = posted[e]["issue"] + 1
            /\ posted'[e]["reversal"] = posted[e]["reversal"]
        <5>1. Reason(h) = "issue" BY <3>3 DEF Reason
        <5>2. posted \in [Docs -> [Reasons -> Nat]] BY DEF IInv, TypeOK
        <5> QED BY <2>1, <3>3, <5>1, <5>2 DEF Reasons
      <4>3. /\ StillDoes(e, "approve", 1) /\ StillDoes(e, "approve", 2)
            /\ StillDoes(e, "approve", 1)' /\ ~StillDoes(e, "approve", 2)'
            /\ ~StillDoes(e, "cancel", 1) /\ ~StillDoes(e, "cancel", 2)
            /\ ~StillDoes(e, "cancel", 1)' /\ ~StillDoes(e, "cancel", 2)'
        BY <1>2, <1>3, <2>5, <3>3
      <4> QED BY <1>1, <3>1, <4>1, <4>2, <4>3 DEF PostingsFit
    <3>4. CASE e = doc[h] /\ act[h] = "cancel"
      <4>1. e \in approved /\ ~InForce(e) BY <1>4, <3>4 DEF DoneFor
      <4>2. /\ posted'[e]["issue"] = posted[e]["issue"]
            /\ posted'[e]["reversal"] = posted[e]["reversal"] + 1
        <5>1. Reason(h) = "reversal" BY <3>4 DEF Reason
        <5>2. posted \in [Docs -> [Reasons -> Nat]] BY DEF IInv, TypeOK
        <5> QED BY <2>1, <3>4, <5>1, <5>2 DEF Reasons
      <4>3. /\ ~StillDoes(e, "approve", 1) /\ ~StillDoes(e, "approve", 2)
            /\ ~StillDoes(e, "approve", 1)' /\ ~StillDoes(e, "approve", 2)'
            /\ StillDoes(e, "cancel", 1) /\ StillDoes(e, "cancel", 2)
            /\ StillDoes(e, "cancel", 1)' /\ ~StillDoes(e, "cancel", 2)'
        BY <1>2, <1>3, <2>5, <3>4
      <4> QED BY <1>1, <3>1, <4>1, <4>2, <4>3 DEF PostingsFit
    <3> QED BY <1>2, <3>2, <3>3, <3>4
  <2>7. Booked(h)'
    <3>1. /\ OwedPaid(h) = 0 /\ OwedCredit(h) = 0 /\ OwedRefund(h) = 0
          /\ \A c \in Notes : OwedNote(h, c) = 0
      BY <1>2, NothingOwed
    <3>2. /\ OwedPaid(h)' = 0 /\ OwedCredit(h)' = 0 /\ OwedRefund(h)' = 0
          /\ \A c \in Notes : OwedNote(h, c)' = 0
      BY <1>2, <2>1, <2>4 DEF OwedPaid, OwedCredit, OwedRefund, OwedNote
    <3>3. /\ Paid' = Paid /\ Credited' = Credited /\ Refunded' = Refunded
          /\ \A c \in Notes : RefundOf(c)' = RefundOf(c)
      BY <1>1, <2>2, SumsKept
    <3> QED BY <1>1, <1>3, <3>1, <3>2, <3>3 DEF OnTrack, Booked
  <2>8. CopyFits(h)'
    <3>1. ~Runs(h, "save")' BY <1>2, <2>4 DEF Runs
    <3>2. ~(Left(h)' >= OwnAt(h)') BY <2>4 DEF OwnAt
    <3>3. doc'[h] \in Refunds => ShareCount(doc[h])' \in Nat
      BY <1>1, <2>1, LenProperties DEF ShareCount, IInv, TypeOK
    <3> QED BY <2>4, <3>1, <3>2, <3>3 DEF CopyFits
  <2>9. /\ doc[h] \in Payments /\ act[h] # "allocate" => row'[doc[h]].applied = row[doc[h]].applied
        /\ doc[h] \in Notes \cup Refunds => row'[doc[h]].amount = row[doc[h]].amount
        /\ Left(h) >= 2
    BY <1>1, <1>2
  <2> QED BY <1>1, <2>1, <2>2, <2>3, <2>6, <2>7, <2>8, <2>9, MoveKeeps
<1> QED BY <1>6, <1>7

\* The link of the posting.
LEMMA LinkEnds ==
  ASSUME IInv, Orderly, NEW h \in Handlers, Link(h)
  PROVE  Orderly'
<1>1. /\ Busy(h) /\ Head(todo[h])[1] = "link" /\ Done(h)
      /\ links' = [links EXCEPT ![Subject(h)] = @ \cup {Reason(h)}]
      /\ UNCHANGED <<row, submitted, approved, source, share, posted>>
  BY DEF Link, Runs, docVars, Busy
<1>2. act[h] \in {"approve", "cancel"} /\ Subject(h) = doc[h] /\ Left(h) = 1
  BY <1>1, ClosingPlan
<1>3. /\ OnTrack(h) /\ doc[h] \in Docs
      /\ \A e, b : \A j \in {1, 2} :
           StillDoes(e, b, j) <=> doc[h] = e /\ act[h] = b /\ Left(h) >= j
  BY <1>1, <1>2, BusyFacts
<1>4. ASSUME NEW e \in Docs \ {Inv},
             \A b \in {"approve", "cancel"}, j \in {1, 2} : ~StillDoes(e, b, j)'
      PROVE  PostingsFit(e)'
  <2>0. /\ ~StillDoes(e, "approve", 1)' /\ ~StillDoes(e, "approve", 2)'
        /\ ~StillDoes(e, "cancel", 1)' /\ ~StillDoes(e, "cancel", 2)'
    BY <1>4
  <2>1. PostingsFit(e) /\ (InForce(e)' <=> InForce(e)) BY <1>1 DEF Orderly, InForce
  <2>2. CASE e # doc[h]
    <3>1. links'[e] = links[e] BY <1>1, <1>2, <2>2 DEF IInv, TypeOK
    <3>2. \A b : \A j \in {1, 2} : ~StillDoes(e, b, j) BY <1>3, <2>2
    <3> QED BY <1>1, <2>0, <2>1, <3>1, <3>2 DEF PostingsFit
  <2>3. CASE e = doc[h] /\ act[h] = "approve"
    <3>1. e \in approved /\ InForce(e) BY <1>3, <2>3 DEF OnTrack, DoneFor
    <3>2. links'[e] = links[e] \cup {"issue"} BY <1>1, <1>2, <2>3 DEF Reason, IInv, TypeOK
    <3>3. /\ StillDoes(e, "approve", 1) /\ ~StillDoes(e, "approve", 2)
          /\ ~StillDoes(e, "cancel", 1) /\ ~StillDoes(e, "cancel", 2)
      BY <1>2, <1>3, <2>3
    <3> QED BY <1>1, <2>0, <2>1, <3>1, <3>2, <3>3 DEF PostingsFit
  <2>4. CASE e = doc[h] /\ act[h] = "cancel"
    <3>1. e \in approved /\ ~InForce(e) BY <1>3, <2>4 DEF OnTrack, DoneFor
    <3>2. links'[e] = links[e] \cup {"reversal"} BY <1>1, <1>2, <2>4 DEF Reason, IInv, TypeOK
    <3>3. /\ ~StillDoes(e, "approve", 1) /\ ~StillDoes(e, "approve", 2)
          /\ StillDoes(e, "cancel", 1) /\ ~StillDoes(e, "cancel", 2)
      BY <1>2, <1>3, <2>4
    <3> QED BY <1>1, <2>0, <2>1, <3>1, <3>2, <3>3 DEF PostingsFit
  <2> QED BY <1>2, <2>2, <2>3, <2>4
<1> QED BY <1>1, <1>2, <1>4, ClosingEnds

-----------------------------------------------------------------------------
(***************************************************************************)
(* The theorems about the books.                                           *)
(***************************************************************************)
\* A sum of zeros.
LEMMA SumOfZeros ==
  ASSUME NEW f, NEW S, IsFiniteSet(S), \A x \in S : f[x] = 0
  PROVE  SumFunctionOnSet(f, S) = 0
<1> DEFINE g == [x \in {} |-> 0]
<1>1. (\A x \in {} : g[x] \in Int /\ f[x] = g[x]) /\ {} \subseteq S /\ \A x \in S \ {} : f[x] = 0
  OBVIOUS
<1> HIDE DEF g
<1>2. SumFunctionOnSet(f, S) = SumFunctionOnSet(g, {}) BY <1>1, SumSubset
<1> QED BY <1>2, SumEmpty

\* No document but the draft of the invoice.
LEMMA InitOrderly == Init => Orderly
<1> SUFFICES ASSUME Init PROVE Orderly
  OBVIOUS
<1>1. /\ \A d \in Docs \ {Inv} : row[d] = NoRow
      /\ submitted = {} /\ approved = {}
      /\ \A d \in Docs : links[d] = {} /\ posted[d] = [x \in Reasons |-> 0]
      /\ \A h \in Handlers : todo[h] = << >>
  BY DEF Init
<1>2. row[Inv].applied = 0 /\ row[Inv].credited = 0 /\ row[Inv].refunded = 0
  BY Kinds DEF Init, NoRow
<1>3. \A d : ~InForce(d) BY <1>1 DEF InForce
<1>4. Settled
  <2>1. Paid = 0
    <3>1. \A p \in Payments : PaidBy[p] = 0 BY <1>3 DEF PaidBy
    <3> QED BY <3>1, FiniteDocs, SumOfZeros DEF Paid
  <2>2. Credited = 0
    <3>1. \A c \in Notes : CreditedBy[c] = 0 BY <1>3 DEF CreditedBy
    <3> QED BY <3>1, FiniteDocs, SumOfZeros DEF Credited
  <2>3. Refunded = 0
    <3>1. \A r \in Refunds : RefundedBy[r] = 0 BY <1>3 DEF RefundedBy
    <3> QED BY <3>1, FiniteDocs, SumOfZeros DEF Refunded
  <2>4. ASSUME NEW c \in Notes PROVE RefundOf(c) = 0 /\ row[c].refunded = 0
    <3>1. \A r \in Refunds : RefundedOf(c)[r] = 0 BY <1>3 DEF RefundedOf
    <3>2. RefundOf(c) = 0 BY <3>1, FiniteDocs, SumOfZeros DEF RefundOf
    <3> QED BY <1>1, <3>2, Kinds DEF NoRow
  <2> QED BY <1>2, <2>1, <2>2, <2>3, <2>4 DEF Settled
<1>5. ASSUME NEW d \in Docs \ {Inv} PROVE DocFits(d, row[d], approved, submitted)
  BY <1>1 DEF DocFits, NoRow, ApprovedState
<1>6. RowsFit BY <1>1, <1>5 DEF RowsFit
<1>7. ASSUME NEW d \in Docs \ {Inv} PROVE PostingsFit(d)
  BY <1>1 DEF PostingsFit, Reasons
<1>8. OneBusy /\ \A h \in Handlers : ~Busy(h) BY <1>1 DEF OneBusy, Busy
<1> QED BY <1>4, <1>6, <1>7, <1>8 DEF Orderly

\* Every action.
LEMMA NextOrderly ==
  ASSUME IInv, IInv', clean => Orderly, [Next]_vars, clean'
  PROVE  Orderly'
<1>1. CASE UNCHANGED vars
  <2>1. clean /\ Orderly BY <1>1 DEF vars
  <2>2. (OneBusy' <=> OneBusy) /\ (RowsFit' <=> RowsFit)
    BY <1>1 DEF vars, OneBusy, Busy, RowsFit
  <2>3. ASSUME NEW d \in Docs \ {Inv} PROVE PostingsFit(d)' <=> PostingsFit(d)
    BY <1>1 DEF vars, PostingsFit, StillDoes, Left, InForce
  <2>4. (Quiet' <=> Quiet) /\ (Settled' <=> Settled)
    BY <1>1 DEF vars, Quiet, Settled, Paid, PaidBy, Credited, CreditedBy, Refunded, RefundedBy,
                RefundOf, RefundedOf, InForce
  <2>5. ASSUME NEW h \in Handlers PROVE (Busy(h)' <=> Busy(h)) /\ (OnTrack(h)' <=> OnTrack(h))
    <3>1. (Busy(h)' <=> Busy(h)) /\ (DoneFor(h)' <=> DoneFor(h)) /\ (Planned(h)' <=> Planned(h))
      BY <1>1 DEF vars, Busy, DoneFor, Planned, Left, Allocated, InForce
    <3>2. Booked(h)' <=> Booked(h)
      <4>1. /\ OwedPaid(h)' = OwedPaid(h) /\ OwedCredit(h)' = OwedCredit(h)
            /\ OwedRefund(h)' = OwedRefund(h)
            /\ \A c \in Notes : OwedNote(h, c)' = OwedNote(h, c)
        BY <1>1 DEF vars, OwedPaid, OwedCredit, OwedRefund, OwedNote, Left, Allocated
      <4>2. /\ Paid' = Paid /\ Credited' = Credited /\ Refunded' = Refunded
            /\ \A c \in Notes : RefundOf(c)' = RefundOf(c)
        BY <1>1 DEF vars, Paid, PaidBy, Credited, CreditedBy, Refunded, RefundedBy, RefundOf,
                    RefundedOf, InForce
      <4> QED BY <1>1, <4>1, <4>2 DEF vars, Booked
    <3>3. CopyFits(h)' <=> CopyFits(h)
      BY <1>1 DEF vars, CopyFits, Runs, Subject, Left, InvFits, OnBooks, NoteFits, ShareFits, OwnFits,
                  OwnAt, ShareCount, Allocated, OwedPaid, OwedCredit, OwedRefund, OwedNote
    <3> QED BY <3>1, <3>2, <3>3 DEF OnTrack
  <2>6. Orderly' <=> Orderly
    BY <2>2, <2>3, <2>4, <2>5 DEF Orderly
  <2> QED BY <2>1, <2>6
<1>2. CASE \/ \E p \in Payments : \E x \in Receipts[p] : CreatePayment(p, x[1], x[2])
           \/ \E p \in Generated : GeneratePayment(p)
           \/ \E c \in Notes, n \in Credits : CreateNote(c, n)
           \/ \E r \in Refunds, c \in Notes : GenerateRefund(r, c)
  <2>1. clean BY <1>2 DEF CreatePayment, GeneratePayment, CreateNote, GenerateRefund
  <2> QED BY <1>2, <2>1, CreationsAside
<1>3. CASE \/ \E d \in Docs : Submit(d) \/ Reject(d) \/ Reopen(d)
           \/ \E c \in Notes : CancelNote(c)
  <2>1. clean BY <1>3 DEF Submit, Reject, Reopen, Detour, CancelNote
  <2> QED BY <1>3, <2>1, WorkflowAside
<1>4. ASSUME NEW h \in Handlers, NEW d \in Docs, Approve(h, d) \/ ApproveStage(h, d) \/ Cancel(h, d)
      PROVE  Orderly'
  <2>1. clean /\ ~ApproveStage(h, d) BY <1>4 DEF Approve, ApproveStage, Cancel, Start
  <2> QED BY <1>4, <2>1, ApproveStarts, CancelStarts
<1>5. ASSUME NEW h \in Handlers, NEW p \in Payments, NEW n \in 1..Total, AllocatePayment(h, p, n)
      PROVE  Orderly'
  <2>1. clean BY <1>5 DEF AllocatePayment, Start
  <2> QED BY <1>5, <2>1, AllocateStarts
<1>6. ASSUME NEW h \in Handlers, Read(h) PROVE Orderly'
  <2>1. clean BY <1>6 DEF Read
  <2> QED BY <1>6, <2>1, ReadMoves
<1>7. ASSUME NEW h \in Handlers, Save(h) PROVE Orderly'
  <2>1. clean BY <1>7 DEF Save
  <2>2. Left(h) \in Nat
    <3>1. Busy(h) BY <1>7 DEF Save, Runs, Busy
    <3> QED BY <2>1, <3>1, BusyFacts
  <2> QED BY <1>7, <2>1, <2>2, SaveMoves, SaveEnds
<1>8. ASSUME NEW h \in Handlers, Post(h) PROVE Orderly'
  <2>1. clean BY <1>8 DEF Post
  <2> QED BY <1>8, <2>1, PostMoves
<1>9. ASSUME NEW h \in Handlers, Link(h) PROVE Orderly'
  <2>1. clean BY <1>9 DEF Link
  <2> QED BY <1>9, <2>1, LinkEnds
<1>10. ASSUME NEW h \in Handlers, ReadRefused(h) \/ SaveRefused(h) \/ Fail(h) PROVE FALSE
  BY <1>10 DEF ReadRefused, SaveRefused, Fail
<1> QED BY <1>1, <1>2, <1>3, <1>4, <1>5, <1>6, <1>7, <1>8, <1>9, <1>10 DEF Next

\* As long as every effect runs alone, for a document it is due for and to its end,
\* the rows, the copies and the postings are where its statements put them.
THEOREM CleanIsOrderly == Spec => [](clean => Orderly)
<1>1. Init => (clean => Orderly) BY InitOrderly
<1>2. IInv /\ IInv' /\ (clean => Orderly) /\ [Next]_vars => (clean => Orderly)'
  <2> SUFFICES ASSUME IInv, IInv', clean => Orderly, [Next]_vars, clean' PROVE Orderly'
    OBVIOUS
  <2> QED BY NextOrderly
<1> QED BY <1>1, <1>2, Invariance, PTL DEF Spec

\* Between the effects.
LEMMA NetValues ==
  ASSUME IInv, Orderly, Quiet, NEW d \in Docs \ {Inv}
  PROVE  Net(d) = IF InForce(d) THEN 1 ELSE 0
<1>1. \A h \in Handlers : Left(h) = 0 BY EmptySeq DEF Quiet, Left
<1>2. \A a : \A k \in {1, 2} : ~StillDoes(d, a, k) BY <1>1 DEF StillDoes
<1>3. PostingsFit(d) BY DEF Orderly
<1>4. /\ posted[d]["issue"] = IF d \in approved THEN 1 ELSE 0
      /\ posted[d]["reversal"] = IF d \in approved /\ ~InForce(d) THEN 1 ELSE 0
  BY <1>2, <1>3 DEF PostingsFit
<1> QED BY <1>4 DEF Net, InForce

\* Between the effects the amounts are those of the postings.
LEMMA OrderlyAgrees ==
  ASSUME IInv, Orderly, Quiet
  PROVE  /\ row[Inv].applied  = SumFunctionOnSet([p \in Payments |-> Net(p) * row[p].applied], Payments)
         /\ row[Inv].credited = SumFunctionOnSet([c \in Notes |-> Net(c) * row[c].amount], Notes)
         /\ row[Inv].refunded = SumFunctionOnSet([r \in Refunds |-> Net(r) * row[r].amount], Refunds)
         /\ \A c \in Notes :
              LET own == {r \in Refunds : source[r] = c}
              IN row[c].refunded = SumFunctionOnSet([r \in own |-> Net(r) * row[r].amount], own)
<1>1. Settled BY DEF Orderly
<1>2. ASSUME NEW d \in Docs \ {Inv}, NEW n \in Nat
      PROVE  Net(d) * n = IF InForce(d) THEN n ELSE 0
  <2>1. CASE InForce(d)
    <3>1. Net(d) = 1 BY <2>1, NetValues
    <3> QED BY <2>1, <3>1
  <2>2. CASE ~InForce(d)
    <3>1. Net(d) = 0 BY <2>2, NetValues
    <3> QED BY <2>2, <3>1
  <2> QED BY <2>1, <2>2
<1>3. \A d \in Docs \ {Inv} :
        /\ Net(d) * row[d].applied = IF InForce(d) THEN row[d].applied ELSE 0
        /\ Net(d) * row[d].amount = IF InForce(d) THEN row[d].amount ELSE 0
        /\ row[d].applied \in Nat /\ row[d].amount \in Nat
  BY <1>2, RowNumbers DEF IInv
<1>4. row[Inv].applied = SumFunctionOnSet([p \in Payments |-> Net(p) * row[p].applied], Payments)
  <2> DEFINE f == [p \in Payments |-> Net(p) * row[p].applied]
  <2>1. \A p \in Payments : f[p] = PaidBy[p] BY <1>3, Kinds DEF PaidBy
  <2> HIDE DEF f
  <2>2. SumFunctionOnSet(f, Payments) = SumFunctionOnSet(PaidBy, Payments)
    BY <2>1, FiniteDocs, SumSame
  <2> QED BY <1>1, <2>2 DEF Settled, Paid, f
<1>5. row[Inv].credited = SumFunctionOnSet([c \in Notes |-> Net(c) * row[c].amount], Notes)
  <2> DEFINE f == [c \in Notes |-> Net(c) * row[c].amount]
  <2>1. \A c \in Notes : f[c] = CreditedBy[c] BY <1>3, Kinds DEF CreditedBy
  <2> HIDE DEF f
  <2>2. SumFunctionOnSet(f, Notes) = SumFunctionOnSet(CreditedBy, Notes)
    BY <2>1, FiniteDocs, SumSame
  <2> QED BY <1>1, <2>2 DEF Settled, Credited, f
<1>6. row[Inv].refunded = SumFunctionOnSet([r \in Refunds |-> Net(r) * row[r].amount], Refunds)
  <2> DEFINE f == [r \in Refunds |-> Net(r) * row[r].amount]
  <2>1. \A r \in Refunds : f[r] = RefundedBy[r] BY <1>3, Kinds DEF RefundedBy
  <2> HIDE DEF f
  <2>2. SumFunctionOnSet(f, Refunds) = SumFunctionOnSet(RefundedBy, Refunds)
    BY <2>1, FiniteDocs, SumSame
  <2> QED BY <1>1, <2>2 DEF Settled, Refunded, f
<1>7. ASSUME NEW c \in Notes, NEW own, own = {r \in Refunds : source[r] = c}
      PROVE  row[c].refunded = SumFunctionOnSet([r \in own |-> Net(r) * row[r].amount], own)
  <2> DEFINE f == [r \in own |-> Net(r) * row[r].amount]
             g == RefundedOf(c)
  <2>1. own \subseteq Refunds BY <1>7
  <2>2. \A r \in own : f[r] \in Int /\ g[r] = f[r] BY <1>3, <1>7, Kinds DEF RefundedOf
  <2>3. \A r \in Refunds \ own : g[r] = 0 BY <1>7 DEF RefundedOf
  <2> HIDE DEF f, g
  <2>4. SumFunctionOnSet(g, Refunds) = SumFunctionOnSet(f, own)
    BY <2>1, <2>2, <2>3, FiniteDocs, SumSubset
  <2> QED BY <1>1, <2>4 DEF Settled, RefundOf, f, g
<1> QED BY <1>4, <1>5, <1>6, <1>7

\* The amounts of the invoice and of the credit notes agree with the ledger as
\* long as every effect ran alone, for a document it was due for and to its end.
THEOREM BooksAreKept == Spec => []BooksAgree
<1>1. IInv /\ (clean => Orderly) => BooksAgree
  BY OrderlyAgrees DEF BooksAgree
<1> QED BY <1>1, Invariance, CleanIsOrderly, PTL

\* Under the same condition a payment or a refund is posted if it is in force
\* and not otherwise.
THEOREM PostingsAreRight == Spec => []PostingsFollowStatus
<1>1. IInv /\ (clean => Orderly) => PostingsFollowStatus
  <2> SUFFICES ASSUME IInv, Orderly, Quiet, NEW d \in Payments \cup Refunds
               PROVE  /\ row[d].status = ApprovedState(d) => Net(d) = 1
                      /\ row[d].status \in {"none", "submitted", "rejected", "cancelled"} => Net(d) = 0
    BY DEF PostingsFollowStatus
  <2>1. d \in Docs \ {Inv} /\ d \notin Notes BY Kinds
  <2>2. DocFits(d, row[d], approved, submitted) BY <2>1 DEF Orderly, RowsFit
  <2>3. Net(d) = IF InForce(d) THEN 1 ELSE 0 BY <2>1, NetValues
  <2>4. row[d].status = ApprovedState(d) => InForce(d)
    BY <2>2, Kinds DEF DocFits, InForce, ApprovedState
  <2>5. row[d].status \in {"none", "submitted", "rejected", "cancelled"} => ~InForce(d)
    BY <2>1, <2>2 DEF DocFits, InForce
  <2> QED BY <2>3, <2>4, <2>5
<1> QED BY <1>1, Invariance, CleanIsOrderly, PTL
=============================================================================
