----------------------------- MODULE SpendingProofs -----------------------------
(* Proofs about ExpenseReport, for any number of users, items, requests and
   submissions, with and without faults, and of its refinement of
   ExpenseLifecycle; and about Purchasing and Learning, for any number of
   goroutines, any orders, rates, rules, payments, patterns and thresholds, and
   any tables at the start that their Starts allow. *)
EXTENDS ExpenseRefinement, Purchasing, Learning, CommonTheorems, SequenceTheorems, TLAPS

(* The shape of the state, as far as the proofs look at it. *)
IsRow(row) ==
    row = [status |-> row.status, total |-> row.total, approver |-> row.approver,
           accrual |-> row.accrual, payment |-> row.payment]

Shape ==
    /\ IsRow(report)
    /\ report.approver \in Users \cup {None}
    /\ req \in [Requests -> Locals]
    /\ agent = [k \in Runs |-> agent[k]]

(* A row whose columns are in U, for some U that need not be known: the provers
   understand an EXCEPT of a record that is in a set of records. *)
Columns(row) == {row.status, row.total, row.approver, row.accrual, row.payment}
Rows(U) == [status : U, total : U, approver : U, accrual : U, payment : U]

(* Any set that holds a row's columns will do. *)
LEMMA RowHasColumns ==
    ASSUME NEW row, IsRow(row), NEW U, Columns(row) \subseteq U
    PROVE  row \in Rows(U)
<1>1. /\ row.status \in U /\ row.total \in U /\ row.approver \in U
      /\ row.accrual \in U /\ row.payment \in U
  BY DEF Columns
<1> QED BY <1>1, Zenon DEF IsRow, Rows

(* A record with those columns has a row's shape. *)
LEMMA ColumnsMakeRow ==
    ASSUME NEW U, NEW row \in Rows(U)
    PROVE  IsRow(row)
  BY DEF IsRow, Rows

(* What the statements of expenses.sql do to the row: they keep its shape, and
   a write of the status alone keeps the approver. *)
LEMMA StatusWritten ==
    ASSUME IsRow(report), NEW s
    PROVE  LET new == [report EXCEPT !.status = s]
           IN  /\ IsRow(new) /\ new.status = s /\ new.total = report.total
               /\ new.approver = report.approver
               /\ new.accrual = report.accrual /\ new.payment = report.payment
<1> DEFINE U == Columns(report) \cup {s}
<1>1. report \in Rows(U) /\ s \in U BY RowHasColumns
<1>2. /\ [report EXCEPT !.status = s] \in Rows(U)
      /\ [report EXCEPT !.status = s].status = s
      /\ [report EXCEPT !.status = s].total = report.total
      /\ [report EXCEPT !.status = s].approver = report.approver
      /\ [report EXCEPT !.status = s].accrual = report.accrual
      /\ [report EXCEPT !.status = s].payment = report.payment
  <2> HIDE DEF U
  <2> QED BY <1>1 DEF Rows
<1> QED
  <2> HIDE DEF U
  <2> QED BY <1>2, ColumnsMakeRow

(* The same of Submit, which writes the total too. *)
LEMMA SubmissionWritten ==
    ASSUME IsRow(report)
    PROVE  /\ IsRow(Submitted) /\ Submitted.status = "submitted"
           /\ Submitted.total = AmountOf(Present) /\ Submitted.approver = report.approver
           /\ Submitted.accrual = report.accrual /\ Submitted.payment = report.payment
<1> DEFINE U == Columns(report) \cup {"submitted", AmountOf(Present)}
<1>1. report \in Rows(U) /\ "submitted" \in U /\ AmountOf(Present) \in U BY RowHasColumns
<1>2. /\ Submitted \in Rows(U) /\ Submitted.status = "submitted"
      /\ Submitted.total = AmountOf(Present) /\ Submitted.approver = report.approver
      /\ Submitted.accrual = report.accrual /\ Submitted.payment = report.payment
  <2> HIDE DEF U
  <2> QED BY <1>1 DEF Submitted, Rows
<1> QED
  <2> HIDE DEF U
  <2> QED BY <1>2, ColumnsMakeRow

(* A decision writes the approver too. *)
LEMMA DecisionWritten ==
    ASSUME IsRow(report), NEW s, NEW by
    PROVE  /\ IsRow(Decided(s, by)) /\ Decided(s, by).status = s
           /\ Decided(s, by).total = report.total /\ Decided(s, by).approver = by
           /\ Decided(s, by).accrual = report.accrual /\ Decided(s, by).payment = report.payment
<1> DEFINE U == Columns(report) \cup {s, by}
<1>1. report \in Rows(U) /\ s \in U /\ by \in U BY RowHasColumns
<1>2. /\ Decided(s, by) \in Rows(U) /\ Decided(s, by).status = s
      /\ Decided(s, by).total = report.total /\ Decided(s, by).approver = by
      /\ Decided(s, by).accrual = report.accrual /\ Decided(s, by).payment = report.payment
  <2> HIDE DEF U
  <2> QED BY <1>1 DEF Decided, Rows
<1> QED
  <2> HIDE DEF U
  <2> QED BY <1>2, ColumnsMakeRow

(* And an approval, by a human or by the agent, the accrual it made. *)
LEMMA ApprovalWritten ==
    ASSUME IsRow(report), NEW by, NEW link
    PROVE  /\ IsRow(Approved(by, link)) /\ Approved(by, link).status = "approved"
           /\ Approved(by, link).total = report.total /\ Approved(by, link).approver = by
           /\ Approved(by, link).accrual = link /\ Approved(by, link).payment = report.payment
<1> DEFINE U == Columns(report) \cup {"approved", by, link}
<1>1. report \in Rows(U) /\ "approved" \in U /\ by \in U /\ link \in U BY RowHasColumns
<1>2. /\ Approved(by, link) \in Rows(U) /\ Approved(by, link).status = "approved"
      /\ Approved(by, link).total = report.total /\ Approved(by, link).approver = by
      /\ Approved(by, link).accrual = link /\ Approved(by, link).payment = report.payment
  <2> HIDE DEF U
  <2> QED BY <1>1 DEF Approved, Rows
<1> QED
  <2> HIDE DEF U
  <2> QED BY <1>2, ColumnsMakeRow

(* MarkPaid writes the entry that settles the report, or nothing. *)
LEMMA PaymentWritten ==
    ASSUME IsRow(report), NEW link
    PROVE  /\ IsRow(Paid(report, link))
           /\ Paid(report, link).status = IF report.status = "approved" THEN "paid" ELSE report.status
           /\ Paid(report, link).total = report.total
           /\ Paid(report, link).approver = report.approver
           /\ Paid(report, link).accrual = report.accrual
           /\ Paid(report, link).payment = IF report.status = "approved" THEN link ELSE report.payment
<1> DEFINE U == Columns(report) \cup {"paid", link}
<1>1. report \in Rows(U) /\ "paid" \in U /\ link \in U BY RowHasColumns
<1>2. /\ Paid(report, link) \in Rows(U)
      /\ Paid(report, link).status = IF report.status = "approved" THEN "paid" ELSE report.status
      /\ Paid(report, link).total = report.total
      /\ Paid(report, link).approver = report.approver
      /\ Paid(report, link).accrual = report.accrual
      /\ Paid(report, link).payment = IF report.status = "approved" THEN link ELSE report.payment
  <2> HIDE DEF U
  <2> QED BY <1>1 DEF Paid, Rows
<1> QED
  <2> HIDE DEF U
  <2> QED BY <1>2, ColumnsMakeRow

(* No step of a request or of an agent run loses the shape. *)
LEMMA ShapeKept ==
    ASSUME Shape, [Next]_vars
    PROVE  Shape'
<1> USE ExpenseAssumption DEF Shape, Goto, Done, Run
<1>1. ASSUME NEW r \in Requests, ItemStep(r) PROVE Shape'
  BY <1>1 DEF ItemStep, AddRead, AddCount, AddWrite, ItemRead, UpdateItem, DeleteItem, WriteItem,
     Present, Locals, Idle
<1>2. ASSUME NEW r \in Requests, SubmitLock(r) PROVE Shape' BY <1>2 DEF SubmitLock, Locals
<1>3. ASSUME NEW r \in Requests, SubmitCommit(r) PROVE Shape'
  <2>1. IsRow(report') /\ report'.approver = report.approver
    BY <1>3, SubmissionWritten DEF SubmitCommit
  <2> QED BY <1>3, <2>1 DEF SubmitCommit, Locals
<1>4. ASSUME NEW r \in Requests, DecideStep(r) PROVE Shape'
  <2>1. CASE ApproveRead(r) BY <2>1 DEF ApproveRead, Locals
  <2>2. CASE ApproveAccrue(r) BY <2>2 DEF ApproveAccrue, Links, Locals, Idle
  <2>3. CASE ApproveWrite(r)
    BY <2>3, ApprovalWritten DEF ApproveWrite, Locals, Idle, UpdateRow
  <2>4. CASE RejectRead(r) BY <2>4 DEF RejectRead, Locals
  <2>5. CASE RejectWrite(r)
    BY <2>5, DecisionWritten DEF RejectWrite, Locals, Idle, UpdateRow
  <2> QED BY <1>4, <2>1, <2>2, <2>3, <2>4, <2>5 DEF DecideStep
<1>5. ASSUME NEW r \in Requests, PayStep(r) PROVE Shape'
  <2>1. CASE PayRead(r) BY <2>1 DEF PayRead, Locals
  <2>2. CASE PayJournal(r) BY <2>2 DEF PayJournal, Links, Locals
  <2>3. CASE PayWrite(r)
    BY <2>3, PaymentWritten DEF PayWrite, UpdateRow, Locals
  <2> QED BY <1>5, <2>1, <2>2, <2>3 DEF PayStep
<1>6. ASSUME NEW r \in Requests, Refused(r) \/ Abandon(r) PROVE Shape'
  BY <1>6 DEF Refused, Abandon, Locals
<1>7. ASSUME NEW k \in Runs, AgentStep(k) PROVE Shape'
  <2>1. CASE AgentLoad(k) \/ AgentAccrue(k) BY <2>1 DEF AgentLoad, AgentAccrue
  <2>2. CASE AgentReview(k) BY <2>2, StatusWritten DEF AgentReview, UpdateRow
  <2>3. CASE AgentLink(k) BY <2>3, ApprovalWritten DEF AgentLink, UpdateRow
  <2> QED BY <1>7, <2>1, <2>2, <2>3 DEF AgentStep
<1>8. CASE DeleteDraft BY <1>8, StatusWritten DEF DeleteDraft
<1>9. CASE RevertToDraft
  BY <1>9, DecisionWritten DEF RevertToDraft
<1>10. CASE Crash BY <1>10 DEF Crash, Locals
<1>11. CASE UNCHANGED vars BY <1>11 DEF vars
<1> QED
  BY <1>1, <1>2, <1>3, <1>4, <1>5, <1>6, <1>7, <1>8, <1>9, <1>10, <1>11 DEF Next, RequestStep,
     SubmitStep

(* The state the program starts in has the shape. *)
LEMMA ShapeInit == Init => Shape
  BY DEF Init, Shape, IsRow, Locals, Idle

----
(* The approver is written by requests of other users only, and they carry the
   user that passed the check from the read to the write. *)
LEMMA SegregationKept ==
    ASSUME Shape, SegregationOfDuties, [Next]_vars
    PROVE  SegregationOfDuties'
<1> USE ExpenseAssumption DEF Shape, SegregationOfDuties, Goto, Done, Run
<1>1. ASSUME NEW r \in Requests, ItemStep(r) PROVE SegregationOfDuties'
  BY <1>1 DEF ItemStep, AddRead, AddCount, AddWrite, ItemRead, UpdateItem, DeleteItem, WriteItem,
     Idle
<1>2. ASSUME NEW r \in Requests, SubmitLock(r) PROVE SegregationOfDuties' BY <1>2 DEF SubmitLock
<1>3. ASSUME NEW r \in Requests, SubmitCommit(r) PROVE SegregationOfDuties'
  BY <1>3, SubmissionWritten DEF SubmitCommit, Idle
<1>4. ASSUME NEW r \in Requests, DecideStep(r) PROVE SegregationOfDuties'
  <2>1. CASE ApproveRead(r) BY <2>1 DEF ApproveRead, MayDecide
  <2>2. CASE ApproveAccrue(r) BY <2>2 DEF ApproveAccrue
  <2>3. CASE ApproveWrite(r)
    BY <2>3, ApprovalWritten DEF ApproveWrite, UpdateRow, Idle
  <2>4. CASE RejectRead(r) BY <2>4 DEF RejectRead, MayDecide
  <2>5. CASE RejectWrite(r)
    BY <2>5, DecisionWritten DEF RejectWrite, UpdateRow, Idle
  <2> QED BY <1>4, <2>1, <2>2, <2>3, <2>4, <2>5 DEF DecideStep
<1>5. ASSUME NEW r \in Requests, PayStep(r) PROVE SegregationOfDuties'
  <2>1. CASE PayRead(r) \/ PayJournal(r) BY <2>1 DEF PayRead, PayJournal
  <2>2. CASE PayWrite(r)
    BY <2>2, PaymentWritten DEF PayWrite, UpdateRow, Idle
  <2> QED BY <1>5, <2>1, <2>2 DEF PayStep
<1>6. ASSUME NEW r \in Requests, Refused(r) \/ Abandon(r) PROVE SegregationOfDuties'
  BY <1>6 DEF Refused, Abandon, Idle
<1>7. ASSUME NEW k \in Runs, AgentStep(k) PROVE SegregationOfDuties'
  <2>1. CASE AgentLoad(k) \/ AgentAccrue(k) BY <2>1 DEF AgentLoad, AgentAccrue
  <2>2. CASE AgentReview(k) BY <2>2, StatusWritten DEF AgentReview, UpdateRow
  <2>3. CASE AgentLink(k) BY <2>3, ApprovalWritten DEF AgentLink, UpdateRow
  <2> QED BY <1>7, <2>1, <2>2, <2>3 DEF AgentStep
<1>8. CASE DeleteDraft BY <1>8, StatusWritten DEF DeleteDraft
<1>9. CASE RevertToDraft
  BY <1>9, DecisionWritten DEF RevertToDraft
<1>10. CASE Crash BY <1>10 DEF Crash, Idle
<1>11. CASE UNCHANGED vars BY <1>11 DEF vars
<1> QED
  BY <1>1, <1>2, <1>3, <1>4, <1>5, <1>6, <1>7, <1>8, <1>9, <1>10, <1>11 DEF Next, RequestStep,
     SubmitStep

(* In every interleaving, with faults, nobody decides about their own report. *)
THEOREM NobodyApprovesTheirOwn == Spec => []SegregationOfDuties
<1>1. Init => SegregationOfDuties BY ExpenseAssumption DEF Init, SegregationOfDuties, Idle
<1> QED BY <1>1, ShapeInit, ShapeKept, SegregationKept, PTL DEF Spec

----
(* Links lead to entries of their kind, in the row and on the way to it. *)

Linked(kind, n) == n # NoLink => n \in DOMAIN journal /\ journal[n].kind = kind

(* The journal is a sequence, of whatever it holds. *)
JournalOK == journal \in Seq({journal[n] : n \in DOMAIN journal})

LinkInv ==
    /\ JournalOK
    /\ Linked("accrual", report.accrual) /\ Linked("payment", report.payment)
    /\ \A r \in Requests :
         /\ req[r].pc = "approve_write" => Linked("accrual", req[r].link)
         /\ req[r].pc = "pay_write" => Linked("payment", req[r].link)
    /\ \A k \in Runs : agent[k].pc = "link" => Linked("accrual", agent[k].link)

(* A booking appends to the journal, which keeps what it holds. *)
LEMMA BookingAppends ==
    ASSUME JournalOK, NEW kind, NEW amount, NEW link \in Links, Booked(kind, amount, link)
    PROVE  /\ JournalOK' /\ Linked(kind, link)'
           /\ \A other, n : Linked(other, n) => Linked(other, n)'
<1>1. CASE UNCHANGED journal /\ link = NoLink BY <1>1 DEF JournalOK, Linked
<1>2. CASE /\ journal' = Append(journal, [kind |-> kind, amount |-> amount])
           /\ link = Len(journal) + 1
  <2> DEFINE e == [kind |-> kind, amount |-> amount]
             S == {journal[n] : n \in DOMAIN journal}
  <2>1. PICK T : T = S /\ journal \in Seq(T) BY DEF JournalOK
  <2>2. PICK m \in Nat : Len(journal) = m /\ DOMAIN journal = 1..m /\ journal \in [1..m -> T]
    BY <2>1
  <2>3. journal \in Seq(T \cup {e}) BY <2>2
  <2>4. /\ Len(journal') = m + 1 /\ DOMAIN journal' = 1..(m + 1)
        /\ journal'[m + 1] = e /\ \A n \in 1..m : journal'[n] = journal[n]
    BY <1>2, <2>2, <2>3
  <2>5. JournalOK'
    <3>1. PICK V : V = {journal'[n] : n \in DOMAIN journal'} OBVIOUS
    <3>2. journal' \in Seq(T \cup {e}) BY <1>2, <2>3
    <3>3. journal' \in [1..(m + 1) -> V] BY <2>4, <3>1, <3>2
    <3>4. journal' \in Seq(V) BY <2>2, <3>3
    <3> QED BY <3>1, <3>4 DEF JournalOK
  <2>6. Linked(kind, link)' BY <1>2, <2>2, <2>4 DEF Linked
  <2>7. \A other, n : Linked(other, n) => Linked(other, n)' BY <2>2, <2>4 DEF Linked
  <2> QED BY <2>5, <2>6, <2>7
<1> QED BY <1>1, <1>2 DEF Booked

(* What is not booked or linked does not matter to links. *)
LEMMA LinksUntouched ==
    ASSUME LinkInv, UNCHANGED journal,
           report'.accrual = report.accrual, report'.payment = report.payment,
           \A r \in Requests : req'[r] = req[r] \/ req'[r].pc \notin {"approve_write", "pay_write"},
           \A k \in Runs : agent'[k] = agent[k] \/ agent'[k].pc # "link"
    PROVE  LinkInv'
<1>1. \A kind, n : Linked(kind, n) => Linked(kind, n)' BY DEF Linked
<1>2. JournalOK' BY DEF LinkInv, JournalOK
<1> QED BY <1>1, <1>2 DEF LinkInv

(* Every step keeps the links. *)
LEMMA LinksKept ==
    ASSUME Shape, LinkInv, [Next]_vars
    PROVE  LinkInv'
<1> USE DEF Shape, Goto, Done, Run
<1>1. ASSUME NEW r \in Requests, ItemStep(r) PROVE LinkInv'
  BY <1>1, LinksUntouched DEF ItemStep, AddRead, AddCount, AddWrite, ItemRead, UpdateItem,
     DeleteItem, WriteItem, Idle
<1>2. ASSUME NEW r \in Requests, SubmitStep(r) PROVE LinkInv'
  <2>1. CASE SubmitLock(r) BY <2>1, LinksUntouched DEF SubmitLock
  <2>2. CASE SubmitCommit(r)
    BY <2>2, SubmissionWritten, LinksUntouched DEF SubmitCommit, Idle
  <2> QED BY <1>2, <2>1, <2>2 DEF SubmitStep
<1>3. ASSUME NEW r \in Requests, DecideStep(r) PROVE LinkInv'
  <2>1. CASE ApproveRead(r) \/ RejectRead(r) BY <2>1, LinksUntouched DEF ApproveRead, RejectRead
  <2>2. CASE ApproveAccrue(r)
    <3>1. PICK link \in Links :
            /\ Booked("accrual", AmountOf(Present \cap GLItems), link)
            /\ req' = [req EXCEPT ![r] = [pc |-> "approve_write", by |-> req[r].by, link |-> link]]
      BY <2>2 DEF ApproveAccrue
    <3>2. /\ JournalOK' /\ Linked("accrual", link)'
          /\ \A other, n : Linked(other, n) => Linked(other, n)'
      BY <3>1, BookingAppends DEF LinkInv
    <3>3. UNCHANGED <<report, agent>> BY <2>2 DEF ApproveAccrue
    <3> QED BY <3>1, <3>2, <3>3 DEF LinkInv
  <2>3. CASE ApproveWrite(r)
    BY <2>3, ApprovalWritten DEF ApproveWrite, UpdateRow, Linked, LinkInv, JournalOK, Idle
  <2>4. CASE RejectWrite(r)
    BY <2>4, DecisionWritten, LinksUntouched DEF RejectWrite, UpdateRow, Idle
  <2> QED BY <1>3, <2>1, <2>2, <2>3, <2>4 DEF DecideStep
<1>4. ASSUME NEW r \in Requests, PayStep(r) PROVE LinkInv'
  <2>1. CASE PayRead(r) BY <2>1, LinksUntouched DEF PayRead
  <2>2. CASE PayJournal(r)
    <3>1. PICK link \in Links :
            /\ Booked("payment", report.total, link)
            /\ req' = [req EXCEPT ![r] = [pc |-> "pay_write", link |-> link]]
      BY <2>2 DEF PayJournal
    <3>2. /\ JournalOK' /\ Linked("payment", link)'
          /\ \A other, n : Linked(other, n) => Linked(other, n)'
      BY <3>1, BookingAppends DEF LinkInv
    <3>3. UNCHANGED <<report, agent>> BY <2>2 DEF PayJournal
    <3> QED BY <3>1, <3>2, <3>3 DEF LinkInv
  <2>3. CASE PayWrite(r)
    BY <2>3, PaymentWritten DEF PayWrite, UpdateRow, Linked, LinkInv, JournalOK, Idle
  <2> QED BY <1>4, <2>1, <2>2, <2>3 DEF PayStep
<1>5. ASSUME NEW r \in Requests, Refused(r) \/ Abandon(r) PROVE LinkInv'
  BY <1>5, LinksUntouched DEF Refused, Abandon, Idle
<1>6. ASSUME NEW k \in Runs, AgentStep(k) PROVE LinkInv'
  <2>1. CASE AgentLoad(k) BY <2>1, LinksUntouched DEF AgentLoad, Ended
  <2>2. CASE AgentReview(k)
    BY <2>2, StatusWritten, LinksUntouched DEF AgentReview, UpdateRow, Ended
  <2>3. CASE AgentAccrue(k)
    <3>1. PICK link \in Links :
            /\ Booked("accrual", agent[k].booked, link)
            /\ agent' = [agent EXCEPT ![k] = IF link = NoLink THEN Ended
                                             ELSE [pc |-> "link", link |-> link]]
      BY <2>3 DEF AgentAccrue
    <3>2. /\ JournalOK' /\ Linked("accrual", link)'
          /\ \A other, n : Linked(other, n) => Linked(other, n)'
      BY <3>1, BookingAppends DEF LinkInv
    <3>3. UNCHANGED <<report, req>> BY <2>3 DEF AgentAccrue
    <3>4. agent'[k].pc = "link" => agent'[k].link = link BY <3>1 DEF Ended
    <3>5. \A j \in Runs : j # k => agent'[j] = agent[j] BY <3>1
    <3> QED BY <3>2, <3>3, <3>4, <3>5 DEF LinkInv
  <2>4. CASE AgentLink(k)
    BY <2>4, ApprovalWritten DEF AgentLink, UpdateRow, Linked, LinkInv, JournalOK, Ended
  <2> QED BY <1>6, <2>1, <2>2, <2>3, <2>4 DEF AgentStep
<1>7. CASE DeleteDraft BY <1>7, StatusWritten, LinksUntouched DEF DeleteDraft
<1>8. CASE RevertToDraft BY <1>8, DecisionWritten, LinksUntouched DEF RevertToDraft
<1>9. CASE Crash BY <1>9, LinksUntouched DEF Crash, Idle, Ended
<1>10. CASE UNCHANGED vars BY <1>10, LinksUntouched DEF vars
<1> QED BY <1>1, <1>2, <1>3, <1>4, <1>5, <1>6, <1>7, <1>8, <1>9, <1>10 DEF Next, RequestStep

(* The links of a report lead to entries of their kind, in every interleaving. *)
THEOREM LinksAreSound == Spec => []LinksSound
<1>1. Init => LinkInv
  <2> SUFFICES ASSUME Init PROVE LinkInv OBVIOUS
  <2>1. journal = <<>> /\ report.accrual = NoLink /\ report.payment = NoLink BY DEF Init
  <2>2. \A r \in Requests : req[r].pc = "idle" BY DEF Init, Idle
  <2>3. \A k \in Runs : agent[k].pc = "idle" BY DEF Init, Idle
  <2> QED BY <2>1, <2>2, <2>3 DEF LinkInv, JournalOK, Linked
<1>2. LinkInv => LinksSound BY DEF LinkInv, Linked, LinksSound
<1> QED BY <1>1, <1>2, ShapeInit, ShapeKept, LinksKept, PTL DEF Spec

----
(* The item limit.  A request that has counted and not yet inserted is counted
   as an item: counting is then what adds, and there it is below the limit. *)

ItemsOK == items \in [Items -> Amounts \cup {Unused, Removed}] /\ instance \in Instances
Adding == {r \in Requests : req[r].pc = "add_write"}

CountInv ==
    /\ ItemsOK /\ IsFiniteSet(Present)
    /\ Cardinality(Present) + Cardinality(Adding) < MaxItems + Cardinality(Requests)

(* Sets of requests can be counted. *)
LEMMA RequestsCount ==
    ASSUME NEW S \in SUBSET Requests
    PROVE  /\ IsFiniteSet(S) /\ Cardinality(S) \in Nat /\ Cardinality(Requests) \in Nat
           /\ Cardinality(S) <= Cardinality(Requests)
BY ExpenseAssumption, FS_Subset, FS_CardinalityType

(* A part of a set counts no more than the set. *)
LEMMA NoMore ==
    ASSUME NEW S, NEW T, IsFiniteSet(S), T \subseteq S
    PROVE  IsFiniteSet(T) /\ Cardinality(T) <= Cardinality(S)
           /\ Cardinality(S) \in Nat /\ Cardinality(T) \in Nat
BY FS_Subset, FS_CardinalityType

(* Steps that neither count nor insert. *)
LEMMA CountShrinks ==
    ASSUME CountInv, ItemsOK', Present' \subseteq Present, Adding' \subseteq Adding
    PROVE  CountInv'
<1>1. Adding \in SUBSET Requests BY DEF Adding
<1>2. /\ IsFiniteSet(Adding) /\ Cardinality(Requests) \in Nat
  BY <1>1, RequestsCount
<1>3. /\ IsFiniteSet(Present') /\ Cardinality(Present') <= Cardinality(Present)
      /\ Cardinality(Present) \in Nat /\ Cardinality(Present') \in Nat
  BY NoMore DEF CountInv
<1>4. /\ Cardinality(Adding') <= Cardinality(Adding)
      /\ Cardinality(Adding) \in Nat /\ Cardinality(Adding') \in Nat
  BY <1>2, NoMore
<1>5. MaxItems \in Nat BY ExpenseAssumption
<1> QED BY <1>2, <1>3, <1>4, <1>5 DEF CountInv

(* The insert of an item that was counted. *)
LEMMA CountOfInsert ==
    ASSUME CountInv, NEW r \in Requests, AddWrite(r), req \in [Requests -> Locals]
    PROVE  CountInv'
<1>1. PICK i \in Items, a \in Amounts : items[i] = Unused /\ items' = [items EXCEPT ![i] = a]
  <2>1. instance.items \subseteq Items BY ExpenseAssumption DEF CountInv, ItemsOK
  <2> QED BY <2>1 DEF AddWrite
<1>2. /\ req[r].pc = "add_write" /\ req' = [req EXCEPT ![r] = Idle] /\ UNCHANGED instance
  BY DEF AddWrite, Done, Goto
<1>3. i \notin Present /\ Present' = Present \cup {i} /\ ItemsOK'
  BY <1>1, <1>2, ExpenseAssumption DEF Present, Unused, Removed, CountInv, ItemsOK
<1>4. r \in Adding /\ Adding' = Adding \ {r} BY <1>2 DEF Adding, Idle
<1>5. Adding \in SUBSET Requests BY DEF Adding
<1>6. IsFiniteSet(Adding) /\ Cardinality(Adding) \in Nat /\ Cardinality(Requests) \in Nat
  BY <1>5, RequestsCount
<1>7. Cardinality(Adding') = Cardinality(Adding) - 1 BY <1>4, <1>6, FS_RemoveElement
<1>8. /\ IsFiniteSet(Present') /\ Cardinality(Present') = Cardinality(Present) + 1
      /\ Cardinality(Present) \in Nat
  BY <1>3, FS_AddElement, FS_CardinalityType DEF CountInv
<1> QED BY <1>3, <1>6, <1>7, <1>8, ExpenseAssumption DEF CountInv

(* The count itself: the items are below the limit, and at most every request
   is about to insert one. *)
LEMMA CountOfCount ==
    ASSUME CountInv, NEW r \in Requests, AddCount(r), req \in [Requests -> Locals]
    PROVE  CountInv'
<1>1. /\ Cardinality(Present) < MaxItems
      /\ req' = [req EXCEPT ![r] = [pc |-> "add_write"]] /\ UNCHANGED <<items, instance>>
  BY DEF AddCount, Goto
<1>2. Present' = Present /\ ItemsOK' BY <1>1 DEF Present, CountInv, ItemsOK
<1>3. Adding' \in SUBSET Requests BY DEF Adding
<1>4. /\ Cardinality(Adding') \in Nat /\ Cardinality(Requests) \in Nat
      /\ Cardinality(Adding') <= Cardinality(Requests)
  BY <1>3, RequestsCount
<1>5. Cardinality(Present) \in Nat /\ IsFiniteSet(Present) BY FS_CardinalityType DEF CountInv
<1> QED BY <1>1, <1>2, <1>4, <1>5, ExpenseAssumption DEF CountInv

(* Every step keeps the count. *)
LEMMA CountKept ==
    ASSUME Shape, CountInv, [Next]_vars
    PROVE  CountInv'
<1> USE DEF Shape, Goto, Done
<1> DEFINE Smaller == ItemsOK' /\ Present' \subseteq Present /\ Adding' \subseteq Adding
<1>1. Smaller => CountInv' BY CountShrinks
<1>2. ASSUME UNCHANGED <<items, instance>>,
             \A r \in Requests : req'[r] = req[r] \/ req'[r].pc # "add_write" PROVE  CountInv'
  BY <1>1, <1>2 DEF Present, Adding, CountInv, ItemsOK
<1> HIDE DEF Smaller
<1>3. ASSUME NEW r \in Requests, ItemStep(r) PROVE CountInv'
  <2>1. CASE AddRead(r) \/ ItemRead(r) BY <2>1, <1>2 DEF AddRead, ItemRead
  <2>2. CASE UpdateItem(r) \/ DeleteItem(r)
    <3>1. PICK amount \in Amounts \cup {Removed} : WriteItem(r, amount)
      BY <2>2 DEF UpdateItem, DeleteItem
    <3>2. /\ items' = items \/ \E i \in Present : items' = [items EXCEPT ![i] = amount]
          /\ req' = [req EXCEPT ![r] = Idle] /\ UNCHANGED instance
      BY <3>1 DEF WriteItem
    <3>3. ItemsOK' /\ Present' \subseteq Present BY <3>2 DEF Present, CountInv, ItemsOK
    <3>4. Adding' \subseteq Adding BY <3>2 DEF Adding, Idle
    <3> QED BY <3>3, <3>4, <1>1 DEF Smaller
  <2> QED BY <1>3, <2>1, <2>2, CountOfInsert, CountOfCount DEF ItemStep
<1>4. ASSUME NEW r \in Requests, SubmitStep(r) PROVE CountInv'
  BY <1>4, <1>2 DEF SubmitStep, SubmitLock, SubmitCommit, Idle
<1>5. ASSUME NEW r \in Requests, DecideStep(r) PROVE CountInv'
  BY <1>5, <1>2 DEF DecideStep, ApproveRead, ApproveAccrue, ApproveWrite, RejectRead, RejectWrite,
     Idle
<1>6. ASSUME NEW r \in Requests, PayStep(r) PROVE CountInv'
  BY <1>6, <1>2 DEF PayStep, PayRead, PayJournal, PayWrite, Idle
<1>7. ASSUME NEW r \in Requests, Refused(r) \/ Abandon(r) PROVE CountInv'
  BY <1>7, <1>2 DEF Refused, Abandon, Idle
<1>8. ASSUME NEW k \in Runs, AgentStep(k) PROVE CountInv'
  BY <1>8, <1>2 DEF AgentStep, AgentLoad, AgentReview, AgentAccrue, AgentLink
<1>9. CASE DeleteDraft
  BY <1>9, ExpenseAssumption, <1>1 DEF DeleteDraft, Present, CountInv, ItemsOK, Removed, Smaller,
     Adding
<1>10. CASE RevertToDraft BY <1>10, <1>2 DEF RevertToDraft
<1>11. CASE Crash BY <1>11, <1>2 DEF Crash, Idle
<1>12. CASE UNCHANGED vars BY <1>12, <1>2 DEF vars
<1> QED BY <1>3, <1>4, <1>5, <1>6, <1>7, <1>8, <1>9, <1>10, <1>11, <1>12 DEF Next, RequestStep

(* No item, and no request about to insert one. *)
LEMMA CountInit == Init => CountInv
<1> SUFFICES ASSUME Init PROVE CountInv OBVIOUS
<1>1. Present = {} /\ ItemsOK BY ExpenseAssumption DEF Init, Present, ItemsOK, Unused
<1>2. Adding = {} BY DEF Init, Adding, Idle
<1>3. Cardinality({}) = 0 /\ IsFiniteSet({}) BY FS_EmptySet
<1>4. Cardinality(Requests) \in Nat BY ExpenseAssumption, FS_CardinalityType
<1> QED BY <1>1, <1>2, <1>3, <1>4, ExpenseAssumption DEF CountInv

(* However many requests add at once, each passes the limit by one item at
   most. *)
THEOREM ItemsAreBounded == Spec => []ItemsBounded
<1>1. Init => CountInv BY CountInit
<1>2. CountInv => ItemsBounded
  <2> SUFFICES ASSUME CountInv PROVE ItemsBounded OBVIOUS
  <2>1. Adding \in SUBSET Requests BY DEF Adding
  <2>2. Cardinality(Adding) \in Nat /\ Cardinality(Requests) \in Nat BY <2>1, RequestsCount
  <2>3. Cardinality(Present) \in Nat BY FS_CardinalityType DEF CountInv
  <2> QED BY <2>2, <2>3, ExpenseAssumption DEF CountInv, ItemsBounded
<1> QED BY <1>1, <1>2, ShapeInit, ShapeKept, CountKept, PTL DEF Spec

(* What interleaved requests cannot spoil: a report's links lead to entries of
   their kind, and the limit is passed by no more than the requests at once
   (expense_report_service.go, 244-258; expenses.sql, UpdateExpenseReport). *)
THEOREM RequestsAreSound == Spec => []RequestsSound
BY LinksAreSound, ItemsAreBounded, PTL DEF RequestsSound

----
(* One request at a time.  A request that passed the check of a status finds
   the report in that status until it writes, since no agent run is left by
   then that could move it: the run of a submission is in progress only while
   the report is submitted, or approved by that run. *)

RequestInv(r) ==
    /\ req[r].pc \in {"add_count", "add_write", "update", "delete"} =>
         report.status \in {"draft", "deleted"}
    /\ req[r].pc = "submit" => report.status = "draft" /\ lock = r /\ Present # {}
    /\ req[r].pc \in {"approve_items", "approve_write", "reject"} =>
         report.status = "pending_approval"
    /\ req[r].pc \in {"pay_journal", "pay_write"} => report.status = "approved"

AgentInv(k) ==
    /\ agent[k].pc \in {"load", "review"} => report.status = "submitted" /\ k = submits
    /\ agent[k].pc \in {"accrue", "link"} =>
         report.status \in {"approved", "paid"} /\ Present \subseteq AutoItems
    /\ agent[k].pc = "review" =>
         /\ agent[k].decision \in {"approved", "pending_approval"}
         /\ agent[k].decision = "approved" => Present \subseteq AutoItems

ReportInv ==
    /\ report.status \in Final => Present # {} /\ report.total = AmountOf(Present)
    /\ report.status \in {"approved", "paid"} /\ report.approver = None =>
         Present \subseteq AutoItems

OneByOne == \A q, r \in Requests : req[q] # Idle /\ req[r] # Idle => q = r

AloneInv ==
    instance.alone =>
      /\ OneByOne /\ ReportInv
      /\ \A r \in Requests : RequestInv(r)
      /\ \A k \in Runs : AgentInv(k)

(* The sum changes with the items only. *)
LEMMA SumStays ==
    ASSUME UNCHANGED items
    PROVE  Present' = Present /\ AmountOf(Present)' = AmountOf(Present)
BY DEF Present, AmountOf

(* What a request of its own finds, and leaves of the others. *)
LEMMA OthersIdle ==
    ASSUME Shape, AloneInv, instance.alone, NEW r \in Requests, RequestStep(r)
    PROVE  /\ \A q \in Requests : q # r => req[q] = Idle /\ req'[q] = Idle
           /\ UNCHANGED instance /\ OneByOne'
<1>1. \E local : req' = [req EXCEPT ![r] = local]
  BY DEF RequestStep, ItemStep, SubmitStep, DecideStep, PayStep, AddRead, AddCount, AddWrite,
     ItemRead, UpdateItem, DeleteItem, WriteItem, SubmitLock, SubmitCommit, ApproveRead,
     ApproveAccrue, ApproveWrite, RejectRead, RejectWrite, PayRead, PayJournal, PayWrite, Refused,
     Abandon, Goto, Done
<1>2. \A q \in Requests : q # r => req[q] = Idle
  <2>1. CASE req[r] # Idle BY <2>1 DEF AloneInv, OneByOne
  <2>2. CASE req[r] = Idle
    BY <2>2 DEF RequestStep, ItemStep, SubmitStep, DecideStep, PayStep, AddRead, AddCount, AddWrite,
       ItemRead, UpdateItem, DeleteItem, SubmitLock, SubmitCommit, ApproveRead, ApproveAccrue,
       ApproveWrite, RejectRead, RejectWrite, PayRead, PayJournal, PayWrite, Refused, Abandon,
       Starts, Idle
  <2> QED BY <2>1, <2>2
<1>3. UNCHANGED instance
  BY DEF RequestStep, ItemStep, SubmitStep, DecideStep, PayStep, AddRead, AddCount, AddWrite,
     ItemRead, UpdateItem, DeleteItem, WriteItem, SubmitLock, SubmitCommit, ApproveRead,
     ApproveAccrue, ApproveWrite, RejectRead, RejectWrite, PayRead, PayJournal, PayWrite, Refused,
     Abandon
<1>4. \A q \in Requests : q # r => req'[q] = Idle BY <1>1, <1>2 DEF Shape
<1> QED BY <1>2, <1>3, <1>4 DEF OneByOne

(* So only the request itself, the runs and the report are to be looked at. *)
LEMMA AloneOfRequest ==
    ASSUME Shape, AloneInv, instance.alone, NEW r \in Requests, RequestStep(r),
           RequestInv(r)', ReportInv', \A k \in Runs : AgentInv(k)'
    PROVE  AloneInv'
<1>1. \A q \in Requests : q # r => RequestInv(q)' BY OthersIdle DEF RequestInv, Idle
<1> QED BY <1>1, OthersIdle DEF AloneInv

(* A step that leaves report, items and runs alone. *)
LEMMA ReportStays ==
    ASSUME AloneInv, instance.alone, UNCHANGED <<report, items, agent, submits>>
    PROVE  ReportInv' /\ \A k \in Runs : AgentInv(k)'
<1>1. Present' = Present /\ AmountOf(Present)' = AmountOf(Present) BY SumStays
<1> QED BY <1>1 DEF AloneInv, ReportInv, AgentInv

(* In a status that is not under review and not decided, no run is left. *)
LEMMA NoRunLeft ==
    ASSUME AloneInv, instance.alone, report.status \notin {"submitted", "approved", "paid"}
    PROVE  \A k \in Runs : agent[k].pc \notin {"load", "review", "accrue", "link"}
BY DEF AloneInv, AgentInv

(* Items are written while the report is a draft, or gone. *)
LEMMA AloneItems ==
    ASSUME Shape, AloneInv, instance.alone, NEW r \in Requests, ItemStep(r)
    PROVE  AloneInv'
<1> USE DEF Shape, Goto, Done
<1>0. RequestStep(r) /\ UNCHANGED <<report, agent, submits>>
  BY DEF RequestStep, ItemStep, AddRead, AddCount, AddWrite, ItemRead, UpdateItem, DeleteItem,
     WriteItem
<1>1. CASE AddRead(r) \/ ItemRead(r) \/ AddCount(r)
  BY <1>1, <1>0, ReportStays, AloneOfRequest DEF AddRead, ItemRead, AddCount, RequestInv, AloneInv
<1>2. CASE AddWrite(r) \/ UpdateItem(r) \/ DeleteItem(r)
  <2>1. req[r].pc \in {"add_write", "update", "delete"} /\ req' = [req EXCEPT ![r] = Idle]
    BY <1>2 DEF AddWrite, UpdateItem, DeleteItem, WriteItem
  <2>2. report.status \in {"draft", "deleted"} BY <2>1 DEF AloneInv, RequestInv
  <2>3. RequestInv(r)' BY <2>1 DEF RequestInv, Idle
  <2>4. ReportInv' BY <2>2, <1>0 DEF ReportInv, Final
  <2>5. \A k \in Runs : AgentInv(k)' BY <2>2, <1>0, NoRunLeft DEF AgentInv
  <2> QED BY <1>0, <2>3, <2>4, <2>5, AloneOfRequest
<1> QED BY <1>1, <1>2 DEF ItemStep

(* A submission starts the one run there is, over the items it has summed up. *)
LEMMA AloneSubmit ==
    ASSUME Shape, AloneInv, instance.alone, NEW r \in Requests, SubmitStep(r)
    PROVE  AloneInv'
<1> USE DEF Shape, Goto, Done
<1>1. CASE SubmitLock(r)
  <2>1. /\ RequestStep(r) /\ UNCHANGED <<report, items, agent, submits>>
        /\ req' = [req EXCEPT ![r] = [pc |-> "submit"]] /\ lock' = r
        /\ report.status = "draft" /\ Present # {}
    BY <1>1 DEF RequestStep, SubmitStep, SubmitLock
  <2>2. RequestInv(r)' BY <2>1, SumStays DEF RequestInv
  <2> QED BY <2>1, <2>2, ReportStays, AloneOfRequest
<1>2. CASE SubmitCommit(r)
  <2>1. /\ RequestStep(r) /\ UNCHANGED items /\ req' = [req EXCEPT ![r] = Idle]
        /\ req[r].pc = "submit" /\ submits' = submits + 1
        /\ agent' = [agent EXCEPT ![submits + 1] = [pc |-> "load"]]
    BY <1>2 DEF RequestStep, SubmitStep, SubmitCommit, Run
  <2>2. report.status = "draft" /\ Present # {} BY <2>1 DEF AloneInv, RequestInv
  <2>3. report'.status = "submitted" /\ report'.total = AmountOf(Present)
    BY <1>2, SubmissionWritten DEF SubmitCommit
  <2>4. RequestInv(r)' BY <2>1 DEF RequestInv, Idle
  <2>5. ReportInv' BY <2>1, <2>2, <2>3, SumStays DEF ReportInv
  <2>6. \A k \in Runs : AgentInv(k)'
    <3>1. \A k \in Runs : agent[k].pc \notin {"load", "review", "accrue", "link"} BY <2>2, NoRunLeft
    <3>2. ASSUME NEW k \in Runs, k # submits + 1 PROVE AgentInv(k)' BY <2>1, <3>1, <3>2 DEF AgentInv
    <3>3. ASSUME NEW k \in Runs, k = submits + 1 PROVE AgentInv(k)' BY <2>1, <2>3, <3>3 DEF AgentInv
    <3> QED BY <3>2, <3>3
  <2> QED BY <2>1, <2>4, <2>5, <2>6, AloneOfRequest
<1> QED BY <1>1, <1>2 DEF SubmitStep

(* A human decides when the run of the submission is over. *)
LEMMA AloneDecides ==
    ASSUME Shape, AloneInv, instance.alone, NEW r \in Requests, DecideStep(r)
    PROVE  AloneInv'
<1> USE DEF Shape, Goto, Done
<1>0. RequestStep(r) BY DEF RequestStep
<1>1. CASE ApproveRead(r) \/ RejectRead(r)
  BY <1>1, <1>0, ReportStays, AloneOfRequest DEF ApproveRead, RejectRead, MayDecide, RequestInv
<1>2. CASE ApproveAccrue(r)
  BY <1>2, <1>0, ReportStays, AloneOfRequest DEF ApproveAccrue, RequestInv, AloneInv
<1>3. CASE ApproveWrite(r) \/ RejectWrite(r)
  <2>1. /\ req[r].pc \in {"approve_write", "reject"} /\ req' = [req EXCEPT ![r] = Idle]
        /\ UNCHANGED <<items, agent, submits>>
    BY <1>3 DEF ApproveWrite, RejectWrite
  <2>2. report.status = "pending_approval" BY <2>1 DEF AloneInv, RequestInv
  <2>3. req[r].by \in Users BY <1>3 DEF ApproveWrite, RejectWrite, Locals, Idle
  <2>4. /\ report'.status \in {"approved", "rejected"} /\ report'.total = report.total
        /\ report'.approver # None
    BY <1>3, <2>2, <2>3, ApprovalWritten, DecisionWritten, ExpenseAssumption DEF ApproveWrite,
       RejectWrite, UpdateRow
  <2>5. RequestInv(r)' BY <2>1 DEF RequestInv, Idle
  <2>6. ReportInv' BY <2>1, <2>2, <2>4, SumStays DEF ReportInv, AloneInv, Final
  <2>7. \A k \in Runs : AgentInv(k)' BY <2>1, <2>2, NoRunLeft DEF AgentInv
  <2> QED BY <1>0, <2>5, <2>6, <2>7, AloneOfRequest
<1> QED BY <1>1, <1>2, <1>3 DEF DecideStep

(* A payment moves an approved report to paid. *)
LEMMA AlonePays ==
    ASSUME Shape, AloneInv, instance.alone, NEW r \in Requests, PayStep(r)
    PROVE  AloneInv'
<1> USE DEF Shape, Goto, Done
<1>0. RequestStep(r) BY DEF RequestStep
<1>1. CASE PayRead(r) \/ PayJournal(r)
  BY <1>1, <1>0, ReportStays, AloneOfRequest DEF PayRead, PayJournal, RequestInv, AloneInv
<1>2. CASE PayWrite(r)
  <2>1. /\ req[r].pc = "pay_write" /\ req' = [req EXCEPT ![r] = Idle]
        /\ UNCHANGED <<items, agent, submits>>
    BY <1>2 DEF PayWrite
  <2>2. report.status = "approved" BY <2>1 DEF AloneInv, RequestInv
  <2>3. /\ report'.status = "paid" /\ report'.total = report.total
        /\ report'.approver = report.approver
    BY <1>2, <2>2, PaymentWritten DEF PayWrite, UpdateRow
  <2>4. RequestInv(r)' BY <2>1 DEF RequestInv, Idle
  <2>5. ReportInv' BY <2>1, <2>2, <2>3, SumStays DEF ReportInv, AloneInv, Final
  <2>6. \A k \in Runs : AgentInv(k)' BY <2>1, <2>2, <2>3, SumStays DEF AgentInv, AloneInv
  <2> QED BY <1>0, <2>4, <2>5, <2>6, AloneOfRequest
<1> QED BY <1>1, <1>2 DEF PayStep

(* The run writes over the submitted report, and over its own approval. *)
LEMMA AloneAgent ==
    ASSUME Shape, AloneInv, instance.alone, NEW k \in Runs, AgentStep(k)
    PROVE  AloneInv'
<1> USE DEF Shape, Run
<1>0. /\ UNCHANGED <<req, items, lock, submits, instance>>
      /\ Present' = Present /\ AmountOf(Present)' = AmountOf(Present)
  BY SumStays DEF AgentStep, AgentLoad, AgentReview, AgentAccrue, AgentLink
<1>1. CASE AgentLoad(k)
  <2>1. PICK local : /\ agent' = [agent EXCEPT ![k] = local]
                     /\ local.pc \in {"ended", "review"}
                     /\ local.pc = "review" => local.decision \in Decisions
    BY <1>1 DEF AgentLoad, Ended
  <2>2. UNCHANGED report /\ report.status = "submitted" /\ k = submits
    BY <1>1 DEF AgentLoad, AloneInv, AgentInv
  <2>3. /\ "approved" \in Decisions => Present \subseteq AutoItems
        /\ Decisions \subseteq {"approved", "pending_approval"}
    BY DEF Decisions
  <2>4. AgentInv(k)' BY <1>0, <2>1, <2>2, <2>3 DEF AgentInv
  <2>5. \A j \in Runs : j # k => AgentInv(j)' BY <1>0, <2>1, <2>2 DEF AgentInv, AloneInv
  <2>6. ReportInv' /\ \A r \in Requests : RequestInv(r)'
    BY <1>0, <2>2 DEF ReportInv, RequestInv, AloneInv
  <2> QED BY <1>0, <2>4, <2>5, <2>6 DEF AloneInv, OneByOne
<1>2. CASE AgentReview(k)
  <2>1. agent[k].pc = "review" /\ report.status = "submitted" /\ k = submits
    BY <1>2 DEF AgentReview, AloneInv, AgentInv
  <2>2. /\ report'.status = agent[k].decision /\ report'.total = report.total
    BY <1>2, <2>1, StatusWritten DEF AgentReview, UpdateRow
  <2>3. PICK local : /\ agent' = [agent EXCEPT ![k] = local]
                     /\ local.pc \in {"ended", "accrue"}
                     /\ local.pc = "accrue" => agent[k].decision = "approved"
    <3>1. CASE agent[k].decision = "approved"
      <4>1. agent' = [agent EXCEPT ![k] = [pc |-> "accrue", booked |-> agent[k].booked]]
        BY <1>2, <3>1 DEF AgentReview
      <4> QED BY <4>1, <3>1
    <3>2. CASE agent[k].decision # "approved"
      <4>1. agent' = [agent EXCEPT ![k] = Ended] BY <1>2, <3>2 DEF AgentReview
      <4>2. Ended.pc \in {"ended", "accrue"} /\ Ended.pc # "accrue" BY DEF Ended
      <4> QED BY <4>1, <4>2
    <3> QED BY <3>1, <3>2
  <2>4. /\ agent[k].decision \in {"approved", "pending_approval"}
        /\ agent[k].decision = "approved" => Present \subseteq AutoItems
        /\ Present # {} /\ report.total = AmountOf(Present)
    BY <2>1 DEF AloneInv, AgentInv, ReportInv, Final
  <2>5. AgentInv(k)' BY <1>0, <2>2, <2>3, <2>4 DEF AgentInv
  <2>6. \A j \in Runs : j # k => AgentInv(j)' BY <1>0, <2>1, <2>3 DEF AgentInv, AloneInv
  <2>7. ReportInv' BY <1>0, <2>2, <2>4 DEF ReportInv
  <2>8. \A r \in Requests : RequestInv(r)' BY <1>0, <2>1 DEF RequestInv, AloneInv
  <2> QED BY <1>0, <2>5, <2>6, <2>7, <2>8 DEF AloneInv, OneByOne
<1>3. CASE AgentAccrue(k)
  <2>1. PICK local : agent' = [agent EXCEPT ![k] = local] /\ local.pc \in {"ended", "link"}
    BY <1>3 DEF AgentAccrue, Ended
  <2>2. UNCHANGED report /\ agent[k].pc = "accrue" BY <1>3 DEF AgentAccrue
  <2>3. AgentInv(k)' BY <1>0, <2>1, <2>2 DEF AgentInv, AloneInv
  <2>4. \A j \in Runs : j # k => AgentInv(j)' BY <1>0, <2>1, <2>2 DEF AgentInv, AloneInv
  <2>5. ReportInv' /\ \A r \in Requests : RequestInv(r)'
    BY <1>0, <2>2 DEF ReportInv, RequestInv, AloneInv
  <2> QED BY <1>0, <2>3, <2>4, <2>5 DEF AloneInv, OneByOne
<1>4. CASE AgentLink(k)
  <2>1. /\ agent[k].pc = "link" /\ agent' = [agent EXCEPT ![k] = Ended]
        /\ report.status \in {"approved", "paid"} /\ Present \subseteq AutoItems
    BY <1>4 DEF AgentLink, AloneInv, AgentInv
  <2>2. report'.status = "approved" /\ report'.total = report.total
    BY <1>4, <2>1, ApprovalWritten DEF AgentLink, UpdateRow
  <2>3. AgentInv(k)' BY <2>1 DEF AgentInv, Ended
  <2>4. \A j \in Runs : j # k => AgentInv(j)' BY <1>0, <2>1, <2>2 DEF AgentInv, AloneInv
  <2>5. ReportInv' BY <1>0, <2>1, <2>2 DEF ReportInv, AloneInv, Final
  <2>6. \A r \in Requests : RequestInv(r)' BY <1>0, <2>1, <2>2 DEF RequestInv, AloneInv
  <2> QED BY <1>0, <2>3, <2>4, <2>5, <2>6 DEF AloneInv, OneByOne
<1> QED BY <1>1, <1>2, <1>3, <1>4 DEF AgentStep

(* What nobody's request does: deletion, the way back to a draft, a crash. *)
LEMMA AloneOthers ==
    ASSUME Shape, AloneInv, instance.alone, DeleteDraft \/ RevertToDraft \/ Crash
    PROVE  AloneInv'
<1>1. CASE DeleteDraft
  <2>1. /\ report.status = "draft" /\ lock = None
        /\ UNCHANGED <<req, agent, lock, submits, instance>>
    BY <1>1 DEF DeleteDraft, RowFree
  <2>2. report'.status = "deleted" BY <1>1, StatusWritten DEF DeleteDraft, Shape
  <2>3. \A r \in Requests : RequestInv(r)' BY <2>1, <2>2, ExpenseAssumption DEF RequestInv, AloneInv
  <2>4. \A k \in Runs : AgentInv(k)' BY <2>1, NoRunLeft DEF AgentInv
  <2>5. ReportInv' BY <2>2 DEF ReportInv, Final
  <2> QED BY <2>1, <2>3, <2>4, <2>5 DEF AloneInv, OneByOne
<1>2. CASE RevertToDraft
  <2>1. /\ report.status = "rejected"
        /\ UNCHANGED <<req, agent, items, lock, submits, instance>>
    BY <1>2 DEF RevertToDraft
  <2>2. report'.status = "draft" BY <1>2, DecisionWritten DEF RevertToDraft, Shape
  <2>3. \A r \in Requests : RequestInv(r)' BY <2>1, <2>2 DEF RequestInv, AloneInv
  <2>4. \A k \in Runs : AgentInv(k)' BY <2>1, NoRunLeft DEF AgentInv
  <2>5. ReportInv' BY <2>2 DEF ReportInv, Final
  <2> QED BY <2>1, <2>3, <2>4, <2>5 DEF AloneInv, OneByOne
<1>3. CASE Crash
  BY <1>3, SumStays DEF Crash, Idle, Ended, ReportInv, AloneInv, RequestInv, AgentInv, OneByOne
<1> QED BY <1>1, <1>2, <1>3

(* A request that is refused or abandoned leaves the report as it is, and its
   lock is free again. *)
LEMMA AloneEnds ==
    ASSUME Shape, AloneInv, instance.alone, NEW r \in Requests, Refused(r) \/ Abandon(r)
    PROVE  AloneInv'
<1>1. /\ RequestStep(r) /\ UNCHANGED <<report, items, agent, submits>>
      /\ req' = [req EXCEPT ![r] = Idle]
  BY DEF RequestStep, Refused, Abandon, Done, Goto
<1>2. RequestInv(r)' BY <1>1 DEF RequestInv, Idle, Shape
<1> QED BY <1>1, <1>2, ReportStays, AloneOfRequest

(* Every step of requests that run alone keeps what each found. *)
LEMMA OneByOneKept == Shape /\ AloneInv /\ [Next]_vars => AloneInv'
<1> SUFFICES ASSUME Shape, AloneInv, [Next]_vars PROVE AloneInv' OBVIOUS
<1>1. CASE UNCHANGED vars
  BY <1>1, SumStays DEF vars, AloneInv, OneByOne, ReportInv, RequestInv, AgentInv
<1>2. CASE Next /\ instance.alone
  BY <1>2, AloneItems, AloneSubmit, AloneDecides, AlonePays, AloneEnds, AloneAgent, AloneOthers
     DEF Next, RequestStep
<1>3. CASE Next /\ ~instance.alone
  <2>1. ASSUME NEW r \in Requests, RequestStep(r) PROVE UNCHANGED instance
    BY <2>1 DEF RequestStep, ItemStep, SubmitStep, DecideStep, PayStep, AddRead, AddCount, AddWrite,
       ItemRead, UpdateItem, DeleteItem, WriteItem, SubmitLock, SubmitCommit, ApproveRead,
       ApproveAccrue, ApproveWrite, RejectRead, RejectWrite, PayRead, PayJournal, PayWrite, Refused,
       Abandon
  <2>2. ASSUME NEW k \in Runs, AgentStep(k) PROVE UNCHANGED instance
    BY <2>2 DEF AgentStep, AgentLoad, AgentReview, AgentAccrue, AgentLink
  <2>3. UNCHANGED instance BY <1>3, <2>1, <2>2 DEF Next, DeleteDraft, RevertToDraft, Crash
  <2> QED BY <1>3, <2>3 DEF AloneInv
<1> QED BY <1>1, <1>2, <1>3

(* Nothing is under way in the first state. *)
LEMMA AloneInit == Init => AloneInv
BY DEF Init, AloneInv, OneByOne, ReportInv, RequestInv, AgentInv, Idle, Final

(* When requests run one at a time, what is approved and paid is what the items
   add up to, and without a human approver the policy of every item allowed it
   (expense_report_service.go, 244-280; expense_ai_service.go, EvaluateReport). *)
THEOREM DecidedAlone == Spec => []DecidedOnItemsAlone
<1>1. Init => AloneInv BY AloneInit
<1>2. AloneInv => DecidedOnItemsAlone
  BY DEF AloneInv, ReportInv, DecidedOnItemsAlone, TotalIsSumOfItems, ApprovedByPolicyOrHuman, Final
<1> QED BY <1>1, <1>2, ShapeInit, ShapeKept, OneByOneKept, PTL DEF Spec

----
(* Types.  The row lock keeps a second submission out until the first is
   counted, and amounts add up to a number. *)

LockInv == \A r \in Requests : req[r].pc = "submit" => lock = r /\ submits < MaxSubmits

(* Amounts add up to a number, which is not zero if there is an item. *)
LEMMA AmountsAddUp ==
    ASSUME ItemsOK, NEW S \in SUBSET Present, IsFiniteSet(Present)
    PROVE  AmountOf(S) \in Nat /\ (S # {} => AmountOf(S) # 0)
<1>1. AmountOf(S) = SetSum(items, S) BY FoldIsSum DEF AmountOf, SumOf
<1>2. \A i \in S : items[i] \in Nat /\ items[i] # 0 BY ExpenseAssumption DEF Present
<1>3. IsFiniteSet(S) BY FS_Subset
<1> QED BY <1>1, <1>2, <1>3, SumOfNaturals

JournalEntry == [kind : {"accrual", "payment"}, amount : Nat \ {0}]

(* A booking appends an entry of its kind, or nothing. *)
LEMMA BookingTyped ==
    ASSUME journal \in Seq(JournalEntry), NEW kind \in {"accrual", "payment"},
           NEW amount \in Nat, NEW link \in Links, Booked(kind, amount, link)
    PROVE  journal' \in Seq(JournalEntry) /\ link \in Nat
<1>1. link \in Nat BY ExpenseAssumption DEF Links
<1>2. CASE UNCHANGED journal BY <1>1, <1>2
<1>3. CASE amount > 0 /\ journal' = Append(journal, [kind |-> kind, amount |-> amount])
  BY <1>3, <1>1 DEF JournalEntry
<1> QED BY <1>2, <1>3 DEF Booked

(* The lock is held from the check of a submission to its count. *)
LEMMA LockKept ==
    ASSUME req \in [Requests -> Locals], submits \in Nat, LockInv, [Next]_vars
    PROVE  LockInv'
<1> USE ExpenseAssumption DEF LockInv, Goto, Done
<1>1. ASSUME NEW r \in Requests, ItemStep(r) PROVE LockInv'
  BY <1>1 DEF ItemStep, AddRead, AddCount, AddWrite, ItemRead, UpdateItem, DeleteItem, WriteItem,
     Idle
<1>2. ASSUME NEW r \in Requests, SubmitStep(r) PROVE LockInv'
  BY <1>2 DEF SubmitStep, SubmitLock, SubmitCommit, RowFree, Idle
<1>3. ASSUME NEW r \in Requests, DecideStep(r) PROVE LockInv'
  BY <1>3 DEF DecideStep, ApproveRead, ApproveAccrue, ApproveWrite, RejectRead, RejectWrite, Idle
<1>4. ASSUME NEW r \in Requests, PayStep(r) PROVE LockInv'
  BY <1>4 DEF PayStep, PayRead, PayJournal, PayWrite, Idle
<1>5. ASSUME NEW r \in Requests, Refused(r) \/ Abandon(r) PROVE LockInv'
  BY <1>5 DEF Refused, Abandon, Idle
<1>6. ASSUME NEW k \in Runs, AgentStep(k) PROVE LockInv'
  BY <1>6 DEF AgentStep, AgentLoad, AgentReview, AgentAccrue, AgentLink
<1>7. CASE DeleteDraft \/ RevertToDraft \/ Crash BY <1>7 DEF DeleteDraft, RevertToDraft, Crash, Idle
<1>8. CASE UNCHANGED vars BY <1>8 DEF vars
<1> QED BY <1>1, <1>2, <1>3, <1>4, <1>5, <1>6, <1>7, <1>8 DEF Next, RequestStep

(* What a request or a run carries, by where it is. *)
LEMMA LocalsCarry ==
    ASSUME NEW x \in Locals
    PROVE  /\ x.pc \in {"approve_items", "approve_write", "reject"} => x.by \in Users
           /\ x.pc \in {"approve_write", "pay_write"} => x.link \in Nat
<1>1. x.pc \in {"approve_items", "approve_write", "reject"} => x.by \in Users BY DEF Locals, Idle
<1>2. x.pc = "approve_write" => x.link \in Nat BY DEF Locals, Idle
<1>3. x.pc = "pay_write" => x.link \in Nat BY DEF Locals, Idle
<1> QED BY <1>1, <1>2, <1>3

(* Every step keeps the types. *)
LEMMA TypesKept ==
    ASSUME TypeOK, LockInv, CountInv, [Next]_vars
    PROVE  TypeOK'
<1> USE ExpenseAssumption DEF TypeOK, Goto, Done, Run
<1>0. /\ ItemsOK /\ IsFiniteSet(Present) /\ journal \in Seq(JournalEntry)
      /\ AmountOf(Present) \in Nat /\ AmountOf(Present \cap GLItems) \in Nat
  BY AmountsAddUp DEF CountInv, JournalEntry
<1>1. ASSUME NEW r \in Requests, ItemStep(r) PROVE TypeOK'
  <2>1. CASE AddRead(r) \/ AddCount(r) BY <2>1 DEF AddRead, AddCount, Locals
  <2>4. CASE ItemRead(r)
    <3>1. PICK i \in Items, op \in {"update", "delete"} :
            req' = [req EXCEPT ![r] = [pc |-> op, item |-> i]]
      BY <2>4 DEF ItemRead, Present
    <3>2. [pc |-> op, item |-> i] \in Locals BY DEF Locals
    <3> QED BY <2>4, <3>1, <3>2 DEF ItemRead
  <2>2. CASE AddWrite(r)
    <3>1. PICK i \in instance.items, a \in Amounts : items' = [items EXCEPT ![i] = a]
      BY <2>2 DEF AddWrite
    <3> QED BY <2>2, <3>1 DEF AddWrite, Locals
  <2>3. CASE UpdateItem(r) \/ DeleteItem(r)
    <3>1. PICK amount \in Amounts \cup {Removed} : WriteItem(r, amount)
      BY <2>3 DEF UpdateItem, DeleteItem
    <3> QED BY <3>1 DEF WriteItem, Present, Locals
  <2> QED BY <1>1, <2>1, <2>2, <2>3, <2>4 DEF ItemStep
<1>2. ASSUME NEW r \in Requests, SubmitStep(r) PROVE TypeOK'
  <2>1. CASE SubmitLock(r) BY <2>1 DEF SubmitLock, Locals
  <2>2. CASE SubmitCommit(r)
    <3>1. submits + 1 \in Runs BY <2>2 DEF SubmitCommit, LockInv, Runs
    <3>2. report' \in [status : Status, total : Nat, approver : Users \cup {None},
                       accrual : Nat, payment : Nat]
      BY <1>0, <2>2 DEF SubmitCommit, Submitted, Status
    <3>3. agent' \in [Runs -> AgentLocals] BY <2>2 DEF SubmitCommit, AgentLocals
    <3>4. req' \in [Requests -> Locals] /\ submits' \in 0..MaxSubmits
      BY <2>2, <3>1 DEF SubmitCommit, Locals, Runs
    <3> QED BY <2>2, <3>2, <3>3, <3>4 DEF SubmitCommit
  <2> QED BY <1>2, <2>1, <2>2 DEF SubmitStep
<1>3. ASSUME NEW r \in Requests, DecideStep(r) PROVE TypeOK'
  <2>1. CASE ApproveRead(r) \/ RejectRead(r) BY <2>1 DEF ApproveRead, RejectRead, Locals
  <2>2. CASE ApproveAccrue(r)
    <3>1. PICK link \in Links :
            /\ Booked("accrual", AmountOf(Present \cap GLItems), link)
            /\ req' = [req EXCEPT ![r] = [pc |-> "approve_write", by |-> req[r].by, link |-> link]]
      BY <2>2 DEF ApproveAccrue
    <3>2. journal' \in Seq(JournalEntry) /\ link \in Nat BY <1>0, <3>1, BookingTyped
    <3>3. req[r].by \in Users BY <2>2 DEF ApproveAccrue, Locals, Idle
    <3> QED BY <2>2, <3>1, <3>2, <3>3 DEF ApproveAccrue, Locals, JournalEntry
  <2>3. CASE ApproveWrite(r)
    <3>1. req[r].by \in Users /\ req[r].link \in Nat BY <2>3, LocalsCarry DEF ApproveWrite
    <3> QED BY <2>3, <3>1 DEF ApproveWrite, UpdateRow, Approved, Locals, Status
  <2>4. CASE RejectWrite(r)
    <3>1. req[r].by \in Users BY <2>4 DEF RejectWrite, Locals, Idle
    <3> QED BY <2>4, <3>1 DEF RejectWrite, UpdateRow, Decided, Locals, Status
  <2> QED BY <1>3, <2>1, <2>2, <2>3, <2>4 DEF DecideStep
<1>4. ASSUME NEW r \in Requests, PayStep(r) PROVE TypeOK'
  <2>1. CASE PayRead(r) BY <2>1 DEF PayRead, Locals
  <2>2. CASE PayJournal(r)
    <3>1. PICK link \in Links :
            /\ Booked("payment", report.total, link)
            /\ req' = [req EXCEPT ![r] = [pc |-> "pay_write", link |-> link]]
      BY <2>2 DEF PayJournal
    <3>2. journal' \in Seq(JournalEntry) /\ link \in Nat BY <1>0, <3>1, BookingTyped
    <3> QED BY <2>2, <3>1, <3>2 DEF PayJournal, Locals, JournalEntry
  <2>3. CASE PayWrite(r)
    <3>1. req[r].link \in Nat BY <2>3, LocalsCarry DEF PayWrite
    <3> QED BY <2>3, <3>1 DEF PayWrite, UpdateRow, Paid, Locals, Status
  <2> QED BY <1>4, <2>1, <2>2, <2>3 DEF PayStep
<1>5. ASSUME NEW r \in Requests, Refused(r) \/ Abandon(r) PROVE TypeOK'
  BY <1>5 DEF Refused, Abandon, Locals
<1>6. ASSUME NEW k \in Runs, AgentStep(k) PROVE TypeOK'
  <2>1. CASE AgentLoad(k)
    <3>1. Decisions \subseteq {"approved", "pending_approval"} BY DEF Decisions
    <3>2. PICK local \in AgentLocals : agent' = [agent EXCEPT ![k] = local]
      <4>1. CASE report.status = "deleted" BY <2>1, <4>1 DEF AgentLoad, AgentLocals
      <4>2. CASE report.status # "deleted"
        <5>1. PICK d \in Decisions : agent' = [agent EXCEPT ![k] = [pc |-> "review", decision |-> d,
                                               booked |-> AmountOf(Present \cap GLItems)]]
          BY <2>1, <4>2 DEF AgentLoad
        <5>2. [pc |-> "review", decision |-> d, booked |-> AmountOf(Present \cap GLItems)]
                \in AgentLocals
          BY <1>0, <3>1, <5>1 DEF AgentLocals
        <5> QED BY <5>1, <5>2
      <4> QED BY <4>1, <4>2
    <3> QED BY <2>1, <3>2 DEF AgentLoad
  <2>2. CASE AgentReview(k)
    <3>1. /\ agent[k].decision \in {"approved", "pending_approval"}
          /\ agent[k].booked \in Nat
      BY <2>2 DEF AgentReview, AgentLocals, Idle, Ended
    <3> QED BY <2>2, <3>1 DEF AgentReview, UpdateRow, AgentLocals, Status
  <2>3. CASE AgentAccrue(k)
    <3>1. PICK link \in Links :
            /\ Booked("accrual", agent[k].booked, link)
            /\ agent' = [agent EXCEPT ![k] = IF link = NoLink THEN Ended
                                             ELSE [pc |-> "link", link |-> link]]
      BY <2>3 DEF AgentAccrue
    <3>2. agent[k].booked \in Nat BY <2>3 DEF AgentAccrue, AgentLocals, Idle, Ended
    <3>3. journal' \in Seq(JournalEntry) /\ link \in Nat BY <1>0, <3>1, <3>2, BookingTyped
    <3> QED BY <2>3, <3>1, <3>3 DEF AgentAccrue, AgentLocals, JournalEntry
  <2>4. CASE AgentLink(k)
    <3>1. agent[k].link \in Nat BY <2>4 DEF AgentLink, AgentLocals, Idle, Ended
    <3> QED BY <2>4, <3>1 DEF AgentLink, UpdateRow, Approved, AgentLocals, Status
  <2> QED BY <1>6, <2>1, <2>2, <2>3, <2>4 DEF AgentStep
<1>7. CASE DeleteDraft BY <1>7 DEF DeleteDraft, Status
<1>8. CASE RevertToDraft BY <1>8 DEF RevertToDraft, Decided, Status
<1>9. CASE Crash BY <1>9 DEF Crash, Locals, AgentLocals
<1>10. CASE UNCHANGED vars BY <1>10 DEF vars
<1> QED BY <1>1, <1>2, <1>3, <1>4, <1>5, <1>6, <1>7, <1>8, <1>9, <1>10 DEF Next, RequestStep

(* The first state has the types. *)
LEMMA TypesInit == Init => TypeOK /\ LockInv
<1> SUFFICES ASSUME Init PROVE TypeOK /\ LockInv OBVIOUS
<1>1. journal \in Seq([kind : {"accrual", "payment"}, amount : Nat \ {0}]) BY EmptySeq DEF Init
<1>2. /\ report \in [status : Status, total : Nat, approver : Users \cup {None},
                     accrual : Nat, payment : Nat]
      /\ submits \in 0..MaxSubmits
  BY ExpenseAssumption DEF Init, Status, NoLink
<1> QED BY <1>1, <1>2 DEF Init, TypeOK, LockInv, Locals, AgentLocals, Idle

(* Types hold in every state, amounts and totals are numbers. *)
THEOREM TypeCorrect == Spec => []TypeOK
<1>1. Init => TypeOK /\ LockInv BY TypesInit
<1>2. TypeOK => Shape
  <2> SUFFICES ASSUME TypeOK PROVE Shape OBVIOUS
  <2>1. IsRow(report) BY DEF TypeOK, IsRow
  <2> QED BY <2>1 DEF TypeOK, Shape
<1>3. TypeOK => req \in [Requests -> Locals] /\ submits \in Nat BY ExpenseAssumption DEF TypeOK
<1> QED BY <1>1, <1>2, <1>3, CountInit, LockKept, CountKept, TypesKept, PTL DEF Spec

----
(* The workflow in order: one request at a time, nothing fails, no policy
   approves by itself and every item has an account.  The books then say what
   the status says, one step ahead while an approval or a payment is booked and
   not yet written to the row. *)

InOrder ==
    /\ ~Faults /\ AutoItems = {} /\ GLItems = Items /\ MaxJournals >= 2
    /\ \A x \in Instances : x.alone

Booking(pc) == \E r \in Requests : req[r].pc = pc
Accrued == report.status \in {"approved", "paid"} \/ Booking("approve_write")
Settled == report.status = "paid" \/ Booking("pay_write")
EntryFor(kind, amount) == [kind |-> kind, amount |-> amount]
EntriesFor(amount) ==
    IF Settled THEN <<EntryFor("accrual", amount), EntryFor("payment", amount)>>
    ELSE IF Accrued THEN <<EntryFor("accrual", amount)>> ELSE <<>>

JournalInv ==
    /\ journal = EntriesFor(report.total)
    /\ report.accrual = IF report.status \in {"approved", "paid"} THEN 1 ELSE NoLink
    /\ report.payment = IF report.status = "paid" THEN 2 ELSE NoLink
    /\ \A r \in Requests : /\ req[r].pc = "approve_write" => req[r].link = 1
                           /\ req[r].pc = "pay_write" => req[r].link = 2
    /\ \A k \in Runs : agent[k].pc \notin {"accrue", "link"}

(* Everything that is known of a state in which requests run in order. *)
OrderInv == TypeOK /\ Shape /\ LockInv /\ CountInv /\ AloneInv /\ JournalInv

(* Requests run alone. *)
LEMMA InstanceAlone == ASSUME InOrder, TypeOK PROVE instance.alone
BY DEF InOrder, TypeOK

(* A step that books nothing, and moves the report neither to nor from
   "approved" and "paid", keeps the books. *)
LEMMA JournalUntouched ==
    ASSUME JournalInv, UNCHANGED journal,
           report'.accrual = report.accrual, report'.payment = report.payment,
           report'.total = report.total \/ (~Accrued /\ ~Settled),
           report'.status = report.status
             \/ {report.status, report'.status} \cap {"approved", "paid"} = {},
           \A r \in Requests : \/ req'[r] = req[r]
                               \/ /\ req[r].pc \notin {"approve_write", "pay_write"}
                                  /\ req'[r].pc \notin {"approve_write", "pay_write"},
           \A k \in Runs : agent'[k] = agent[k] \/ agent'[k].pc \notin {"accrue", "link"}
    PROVE  JournalInv'
<1>1. Booking("approve_write")' <=> Booking("approve_write") BY DEF Booking
<1>2. Booking("pay_write")' <=> Booking("pay_write") BY DEF Booking
<1>3. (Accrued' <=> Accrued) /\ (Settled' <=> Settled) BY <1>1, <1>2 DEF Accrued, Settled
<1>4. (journal = EntriesFor(report.total))' BY <1>3 DEF JournalInv, EntriesFor
<1>5. /\ report'.accrual = IF report'.status \in {"approved", "paid"} THEN 1 ELSE NoLink
      /\ report'.payment = IF report'.status = "paid" THEN 2 ELSE NoLink
  BY DEF JournalInv
<1> QED BY <1>4, <1>5 DEF JournalInv

(* In order, a booking of an amount is made, as the next entry. *)
LEMMA BookingMade ==
    ASSUME InOrder, NEW kind, NEW amount \in Nat \ {0}, NEW link \in Links,
           Booked(kind, amount, link), Len(journal) \in 0..1
    PROVE  journal' = Append(journal, EntryFor(kind, amount)) /\ link = Len(journal) + 1
<1>1. MaxJournals \in Nat /\ MaxJournals >= 2 /\ ~Faults BY ExpenseAssumption DEF InOrder
<1>2. amount > 0 /\ amount # 0 OBVIOUS
<1>3. Len(journal) # MaxJournals
  <2>1. PICK n \in 0..1 : Len(journal) = n OBVIOUS
  <2>2. n # MaxJournals BY <1>1
  <2> QED BY <2>1, <2>2
<1> QED BY <1>1, <1>2, <1>3 DEF Booked, EntryFor

(* A report that waits for a decision or a payment has items, and the total is
   what they add up to. *)
LEMMA TotalIsAmount ==
    ASSUME InOrder, OrderInv, report.status \in Final
    PROVE  /\ report.total = AmountOf(Present) /\ report.total \in Nat \ {0}
           /\ Present # {} /\ Present \cap GLItems = Present
<1>1. report.total = AmountOf(Present) /\ Present # {}
  BY InstanceAlone DEF OrderInv, AloneInv, ReportInv
<1>2. AmountOf(Present) \in Nat /\ AmountOf(Present) # 0
  BY <1>1, AmountsAddUp DEF OrderInv, CountInv
<1>3. Present \cap GLItems = Present BY DEF InOrder, Present
<1> QED BY <1>1, <1>2, <1>3

(* Items and submissions book nothing; a draft has no entry. *)
LEMMA JournalOfDraft ==
    ASSUME InOrder, OrderInv, NEW r \in Requests, ItemStep(r) \/ SubmitStep(r)
    PROVE  JournalInv'
<1> USE DEF OrderInv, Shape, Goto, Done, Run
<1>1. CASE ItemStep(r)
  <2>1. /\ UNCHANGED <<report, journal, agent>>
        /\ req[r].pc \notin {"approve_write", "pay_write"}
    BY <1>1 DEF ItemStep, AddRead, AddCount, AddWrite, ItemRead, UpdateItem, DeleteItem, WriteItem,
       Starts, Idle
  <2>2. \E local : req' = [req EXCEPT ![r] = local] /\ local.pc \notin {"approve_write", "pay_write"}
    BY <1>1 DEF ItemStep, AddRead, AddCount, AddWrite, ItemRead, UpdateItem, DeleteItem, WriteItem,
       Idle
  <2> QED BY <2>1, <2>2, JournalUntouched
<1>2. CASE SubmitLock(r) BY <1>2, JournalUntouched DEF SubmitLock, Idle, Starts
<1>3. CASE SubmitCommit(r)
  <2>1. /\ req[r].pc = "submit" /\ req' = [req EXCEPT ![r] = Idle] /\ UNCHANGED journal
        /\ agent' = [agent EXCEPT ![submits + 1] = [pc |-> "load"]]
    BY <1>3 DEF SubmitCommit
  <2>2. instance.alone /\ RequestStep(r) BY <1>3, InstanceAlone DEF RequestStep, SubmitStep
  <2>3. report.status = "draft" /\ \A q \in Requests : q # r => req[q].pc = "idle"
    BY <2>1, <2>2, OthersIdle DEF AloneInv, RequestInv, Idle
  <2>4. ~Accrued /\ ~Settled BY <2>1, <2>3 DEF Accrued, Settled, Booking
  <2>5. /\ report'.accrual = report.accrual /\ report'.payment = report.payment
        /\ report'.status = "submitted"
    BY <1>3, SubmissionWritten DEF SubmitCommit
  <2>6. {report.status, report'.status} \cap {"approved", "paid"} = {} BY <2>3, <2>5
  <2>7. \A q \in Requests : \/ req'[q] = req[q]
                            \/ /\ req[q].pc \notin {"approve_write", "pay_write"}
                               /\ req'[q].pc \notin {"approve_write", "pay_write"}
    BY <2>1 DEF Idle
  <2>8. \A k \in Runs : agent'[k] = agent[k] \/ agent'[k].pc \notin {"accrue", "link"} BY <2>1
  <2> QED BY <2>1, <2>4, <2>5, <2>6, <2>7, <2>8, JournalUntouched
<1> QED BY <1>1, <1>2, <1>3 DEF SubmitStep

(* An approval books the total, and the row names the entry. *)
LEMMA JournalOfDecision ==
    ASSUME InOrder, OrderInv, NEW r \in Requests, DecideStep(r)
    PROVE  JournalInv'
<1> USE DEF OrderInv, Shape, Goto, Done
<1>0. /\ instance.alone /\ RequestStep(r)
      /\ \A q \in Requests : q # r => req[q].pc = "idle" /\ req'[q].pc = "idle"
  BY InstanceAlone, OthersIdle DEF RequestStep, Idle
<1>1. CASE ApproveRead(r) \/ RejectRead(r)
  BY <1>1, JournalUntouched DEF ApproveRead, RejectRead, Starts, Idle
<1>2. CASE ApproveAccrue(r)
  <2>1. PICK link \in Links :
          /\ Booked("accrual", AmountOf(Present \cap GLItems), link)
          /\ req' = [req EXCEPT ![r] = [pc |-> "approve_write", by |-> req[r].by, link |-> link]]
    BY <1>2 DEF ApproveAccrue
  <2>2. req[r].pc = "approve_items" /\ UNCHANGED <<report, agent>> BY <1>2 DEF ApproveAccrue
  <2>3. report.status = "pending_approval" BY <1>0, <2>2 DEF AloneInv, RequestInv
  <2>4. report.total \in Nat \ {0} /\ AmountOf(Present \cap GLItems) = report.total
    BY <2>3, TotalIsAmount DEF Final
  <2>5. journal = <<>> BY <1>0, <2>2, <2>3 DEF JournalInv, EntriesFor, Accrued, Settled, Booking
  <2>6. journal' = <<EntryFor("accrual", report.total)>> /\ link = 1
    <3>1. Len(journal) = 0 BY <2>5
    <3>2. journal' = Append(journal, EntryFor("accrual", report.total)) /\ link = Len(journal) + 1
      BY <2>1, <2>4, <3>1, BookingMade
    <3> QED BY <2>5, <3>1, <3>2
  <2>7. Booking("approve_write")' /\ ~Booking("pay_write")'
    BY <2>1, <1>0 DEF Booking
  <2>8. (journal = EntriesFor(report.total))'
    BY <2>2, <2>3, <2>6, <2>7 DEF EntriesFor, Accrued, Settled, EntryFor
  <2>9. \A q \in Requests : /\ req'[q].pc = "approve_write" => req'[q].link = 1
                            /\ req'[q].pc = "pay_write" => req'[q].link = 2
    BY <1>0, <2>1, <2>6
  <2> QED BY <2>2, <2>8, <2>9 DEF JournalInv
<1>3. CASE ApproveWrite(r)
  <2>1. /\ req[r].pc = "approve_write" /\ req' = [req EXCEPT ![r] = Idle]
        /\ UNCHANGED <<journal, agent>>
    BY <1>3 DEF ApproveWrite
  <2>2. report.status = "pending_approval" /\ req[r].link = 1
    BY <1>0, <2>1 DEF AloneInv, RequestInv, JournalInv
  <2>3. /\ report'.status = "approved" /\ report'.total = report.total
        /\ report'.accrual = 1 /\ report'.payment = report.payment
    BY <1>3, <2>2, ApprovalWritten DEF ApproveWrite, UpdateRow
  <2>4. \A q \in Requests : req'[q].pc = "idle" BY <1>0, <2>1 DEF Idle
  <2>5. Booking("approve_write") /\ ~Booking("pay_write") /\ ~Booking("pay_write")'
    BY <1>0, <2>1, <2>4 DEF Booking
  <2>6. journal = <<EntryFor("accrual", report.total)>>
    BY <2>2, <2>5 DEF JournalInv, EntriesFor, Accrued, Settled
  <2>7. (journal = EntriesFor(report.total))'
    BY <2>1, <2>3, <2>5, <2>6 DEF EntriesFor, Accrued, Settled, EntryFor
  <2>8. report.payment = NoLink BY <2>2 DEF JournalInv
  <2> QED BY <2>1, <2>3, <2>4, <2>7, <2>8 DEF JournalInv
<1>4. CASE RejectWrite(r)
  BY <1>4, <1>0, DecisionWritten, JournalUntouched DEF RejectWrite, AloneInv, RequestInv, UpdateRow,
     Idle
<1> QED BY <1>1, <1>2, <1>3, <1>4 DEF DecideStep

(* A payment books the total again, once the accrual is named. *)
LEMMA JournalOfPayment ==
    ASSUME InOrder, OrderInv, NEW r \in Requests, PayStep(r)
    PROVE  JournalInv'
<1> USE DEF OrderInv, Shape, Goto, Done
<1>0. /\ instance.alone /\ RequestStep(r)
      /\ \A q \in Requests : q # r => req[q].pc = "idle" /\ req'[q].pc = "idle"
  BY InstanceAlone, OthersIdle DEF RequestStep, Idle
<1>1. CASE PayRead(r) BY <1>1, JournalUntouched DEF PayRead, Starts, Idle
<1>2. CASE PayJournal(r)
  <2>1. PICK link \in Links :
          /\ Booked("payment", report.total, link)
          /\ req' = [req EXCEPT ![r] = [pc |-> "pay_write", link |-> link]]
    BY <1>2 DEF PayJournal
  <2>2. req[r].pc = "pay_journal" /\ UNCHANGED <<report, agent>> BY <1>2 DEF PayJournal
  <2>3. report.status = "approved" BY <1>0, <2>2 DEF AloneInv, RequestInv
  <2>4. report.total \in Nat \ {0} BY <2>3, TotalIsAmount DEF Final
  <2>5. journal = <<EntryFor("accrual", report.total)>>
    BY <1>0, <2>2, <2>3 DEF JournalInv, EntriesFor, Accrued, Settled, Booking
  <2>6. /\ journal' = <<EntryFor("accrual", report.total), EntryFor("payment", report.total)>>
        /\ link = 2
    BY <2>1, <2>4, <2>5, BookingMade
  <2>7. Booking("pay_write")' BY <2>1 DEF Booking
  <2>8. (journal = EntriesFor(report.total))' BY <2>2, <2>6, <2>7 DEF EntriesFor, Settled, EntryFor
  <2>9. \A q \in Requests : /\ req'[q].pc = "approve_write" => req'[q].link = 1
                            /\ req'[q].pc = "pay_write" => req'[q].link = 2
    BY <1>0, <2>1, <2>6
  <2> QED BY <2>2, <2>8, <2>9 DEF JournalInv
<1>3. CASE PayWrite(r)
  <2>1. /\ req[r].pc = "pay_write" /\ req' = [req EXCEPT ![r] = Idle]
        /\ UNCHANGED <<journal, agent>>
    BY <1>3 DEF PayWrite
  <2>2. report.status = "approved" /\ req[r].link = 2
    BY <1>0, <2>1 DEF AloneInv, RequestInv, JournalInv
  <2>3. /\ report'.status = "paid" /\ report'.total = report.total
        /\ report'.accrual = report.accrual /\ report'.payment = 2
    BY <1>3, <2>2, PaymentWritten DEF PayWrite, UpdateRow
  <2>4. \A q \in Requests : req'[q].pc = "idle" BY <1>0, <2>1 DEF Idle
  <2>5. Booking("pay_write") BY <2>1 DEF Booking
  <2>6. journal = <<EntryFor("accrual", report.total), EntryFor("payment", report.total)>>
    BY <2>5 DEF JournalInv, EntriesFor, Settled
  <2>7. (journal = EntriesFor(report.total))' BY <2>1, <2>3, <2>6 DEF EntriesFor, Settled, EntryFor
  <2>8. report.accrual = 1 BY <2>2 DEF JournalInv
  <2> QED BY <2>1, <2>3, <2>4, <2>7, <2>8 DEF JournalInv
<1> QED BY <1>1, <1>2, <1>3 DEF PayStep

(* The agent sends every report to a human, and books nothing. *)
LEMMA JournalOfAgent ==
    ASSUME InOrder, OrderInv, NEW k \in Runs, AgentStep(k)
    PROVE  JournalInv'
<1> USE DEF OrderInv, Shape, Run
<1>0. instance.alone BY InstanceAlone
<1>1. CASE AgentLoad(k) BY <1>1, JournalUntouched DEF AgentLoad, Ended
<1>2. CASE AgentReview(k)
  <2>1. agent[k].pc = "review" /\ UNCHANGED <<journal, req>> BY <1>2 DEF AgentReview
  <2>2. report.status = "submitted" /\ agent[k].decision = "pending_approval"
    BY <1>0, <2>1, TotalIsAmount DEF AloneInv, AgentInv, InOrder, Final
  <2>3. /\ report'.status = "pending_approval" /\ report'.total = report.total
        /\ report'.accrual = report.accrual /\ report'.payment = report.payment
    BY <1>2, <2>2, StatusWritten DEF AgentReview, UpdateRow
  <2>4. agent' = [agent EXCEPT ![k] = Ended] BY <1>2, <2>2 DEF AgentReview
  <2>5. {report.status, report'.status} \cap {"approved", "paid"} = {} BY <2>2, <2>3
  <2> QED BY <2>1, <2>3, <2>4, <2>5, JournalUntouched DEF Ended
<1>3. CASE AgentAccrue(k) \/ AgentLink(k) BY <1>3 DEF AgentAccrue, AgentLink, JournalInv
<1> QED BY <1>1, <1>2, <1>3 DEF AgentStep

(* So every step keeps the books in line with the status. *)
LEMMA JournalKept ==
    ASSUME InOrder, OrderInv, [Next]_vars
    PROVE  JournalInv'
<1> USE DEF OrderInv, Shape
<1>1. ASSUME NEW r \in Requests, Refused(r) \/ Abandon(r) PROVE JournalInv'
  BY <1>1, JournalUntouched DEF Refused, Abandon, Done, Goto, Idle, InOrder
<1>2. CASE DeleteDraft
  BY <1>2, StatusWritten, JournalUntouched DEF DeleteDraft
<1>3. CASE RevertToDraft
  BY <1>3, DecisionWritten, JournalUntouched DEF RevertToDraft
<1>4. ~Crash BY DEF Crash, InOrder
<1>5. CASE UNCHANGED vars BY <1>5, JournalUntouched DEF vars
<1> QED
  BY <1>1, <1>2, <1>3, <1>4, <1>5, JournalOfDraft, JournalOfDecision, JournalOfPayment,
     JournalOfAgent DEF Next, RequestStep

(* The program starts without entries, and every step keeps all that is known. *)
LEMMA OrderInitially == ASSUME Init, TypeOK, Shape, LockInv, CountInv, AloneInv PROVE OrderInv
<1>1. /\ journal = <<>> /\ report.status = "draft"
      /\ report.accrual = NoLink /\ report.payment = NoLink
  BY DEF Init
<1>2. \A r \in Requests : req[r].pc = "idle" BY DEF Init, Idle
<1>3. \A k \in Runs : agent[k].pc = "idle" BY DEF Init, Idle
<1>4. ~Accrued /\ ~Settled BY <1>1, <1>2 DEF Accrued, Settled, Booking
<1>5. JournalInv BY <1>1, <1>2, <1>3, <1>4 DEF JournalInv, EntriesFor
<1> QED BY <1>5 DEF OrderInv

(* What the invariant says of entries and references. *)
LEMMA BooksFollowStatus ==
    ASSUME InOrder, OrderInv
    PROVE  WorkflowSound
<1> USE DEF OrderInv
<1>1. /\ report.status \in {"approved", "paid"} => Accrued
      /\ report.status = "paid" => Settled
  BY DEF Accrued, Settled
<1>2. Cardinality({}) = 0 /\ \A n : Cardinality({n}) = 1 BY FS_EmptySet, FS_Singleton
<1>3. CASE Settled
  <2>1. journal = <<EntryFor("accrual", report.total), EntryFor("payment", report.total)>>
    BY <1>3 DEF JournalInv, EntriesFor
  <2>2. DOMAIN journal = {1, 2} /\ journal[1].kind = "accrual" /\ journal[2].kind = "payment"
    BY <2>1 DEF EntryFor
  <2>3. journal[1].amount = report.total /\ journal[2].amount = report.total BY <2>1 DEF EntryFor
  <2>4. Entries("accrual") = {1} /\ Entries("payment") = {2} BY <2>2 DEF Entries
  <2>5. report.status \in {"approved", "paid"} => report.accrual = 1 BY DEF JournalInv
  <2>6. report.status = "paid" => report.payment = 2 BY DEF JournalInv
  <2>7. Cardinality(Entries("accrual")) <= 1 /\ Cardinality(Entries("payment")) <= 1
    <3>1. Cardinality(Entries("accrual")) = 1 /\ Cardinality(Entries("payment")) = 1
      BY <2>4, FS_Singleton
    <3> QED BY <3>1
  <2>8. BookedOnce BY <2>3, <2>4, <2>5, <2>6, <2>7 DEF BookedOnce
  <2> QED BY <2>8 DEF WorkflowSound
<1>4. CASE Accrued /\ ~Settled
  <2>1. journal = <<EntryFor("accrual", report.total)>> BY <1>4 DEF JournalInv, EntriesFor
  <2>2. DOMAIN journal = {1} /\ journal[1].kind = "accrual" /\ journal[1].amount = report.total
    BY <2>1 DEF EntryFor
  <2>3. Entries("accrual") = {1} /\ Entries("payment") = {} BY <2>2 DEF Entries
  <2>4. report.status \in {"approved", "paid"} => report.accrual = 1 BY DEF JournalInv
  <2>5. report.status # "paid" BY <1>1, <1>4
  <2>6. BookedOnce BY <1>2, <2>2, <2>3, <2>4, <2>5 DEF BookedOnce
  <2> QED BY <2>6 DEF WorkflowSound
<1>5. CASE ~Accrued /\ ~Settled
  BY <1>5, <1>1, <1>2 DEF JournalInv, EntriesFor, Entries, WorkflowSound, BookedOnce
<1> QED BY <1>3, <1>4, <1>5

(* All of it together, for every execution in order. *)
LEMMA OrderIsKept == ASSUME InOrder PROVE Spec => []OrderInv
<1>1. Init => AloneInv BY AloneInit
<1>2. Init => TypeOK /\ LockInv BY TypesInit
<1>3. Init /\ TypeOK /\ Shape /\ LockInv /\ CountInv /\ AloneInv => OrderInv BY OrderInitially
<1>4. TypeOK => req \in [Requests -> Locals] /\ submits \in Nat BY ExpenseAssumption DEF TypeOK
<1>5. OrderInv /\ [Next]_vars => OrderInv'
  <2> SUFFICES ASSUME OrderInv, [Next]_vars PROVE OrderInv' OBVIOUS
  <2>1. TypeOK' /\ Shape' /\ LockInv' /\ CountInv' /\ AloneInv'
    BY <1>4, ShapeKept, LockKept, CountKept, TypesKept, OneByOneKept DEF OrderInv
  <2>2. JournalInv' BY JournalKept
  <2> QED BY <2>1, <2>2 DEF OrderInv
<1> QED BY <1>1, <1>2, <1>3, <1>5, ShapeInit, CountInit, PTL DEF Spec

(* In order, whatever is rejected, revised and submitted again, the books hold
   one accrual and one payment of the report at most, each of its total, and the
   row names them (expense_gl_service.go, CreateAccrualEntry,
   CreatePaymentEntry). *)
THEOREM WorkflowIsSound == ASSUME InOrder PROVE Spec => []WorkflowSound
<1>1. OrderInv => WorkflowSound BY BooksFollowStatus
<1> QED BY <1>1, OrderIsKept, PTL

----
(* The refinement. *)

(* The money of the abstract report, by the status of the detailed one. *)
LEMMA MoneyByStatus ==
    ASSUME InOrder, OrderInv
    PROVE  /\ AmountOfLink(report.accrual) =
                IF report.status \in {"approved", "paid"} THEN report.total ELSE 0
           /\ AmountOfLink(report.payment) = IF report.status = "paid" THEN report.total ELSE 0
<1>1. WorkflowSound BY BooksFollowStatus
<1>2. /\ report.status \in {"approved", "paid"} =>
           report.accrual = 1 /\ journal[report.accrual].amount = report.total
      /\ report.status = "paid" =>
           report.payment = 2 /\ journal[report.payment].amount = report.total
  BY <1>1 DEF WorkflowSound, BookedOnce, OrderInv, JournalInv
<1>3. /\ report.status \notin {"approved", "paid"} => report.accrual = NoLink
      /\ report.status # "paid" => report.payment = NoLink
  BY DEF OrderInv, JournalInv
<1> QED BY <1>2, <1>3 DEF AmountOfLink, NoLink

(* A step that writes status and total of the abstract report, whose money
   follows from them. *)
LEMMA StepImplements ==
    ASSUME InOrder, OrderInv, OrderInv', [Next]_vars
    PROVE  [Lifecycle!Next]_(Lifecycle!vars)
<1> DEFINE owed == AmountOfLink(report.accrual)
           settled == AmountOfLink(report.payment)
<1>1. /\ owed = IF report.status \in {"approved", "paid"} THEN report.total ELSE 0
      /\ settled = IF report.status = "paid" THEN report.total ELSE 0
  BY MoneyByStatus
<1>2. /\ owed' = IF report'.status \in {"approved", "paid"} THEN report'.total ELSE 0
      /\ settled' = IF report'.status = "paid" THEN report'.total ELSE 0
  <2>1. (OrderInv => /\ owed = IF report.status \in {"approved", "paid"} THEN report.total ELSE 0
                     /\ settled = IF report.status = "paid" THEN report.total ELSE 0)'
    BY MoneyByStatus, PTL
  <2> QED BY <2>1
<1>3. report'.status = report.status /\ report'.total = report.total => UNCHANGED Lifecycle!vars
  BY <1>1, <1>2 DEF Lifecycle!vars
<1> HIDE DEF owed, settled
<1>4. ASSUME NEW r \in Requests, RequestStep(r), report' # report
      PROVE  \/ SubmitCommit(r) \/ ApproveWrite(r) \/ RejectWrite(r) \/ PayWrite(r)
  BY <1>4 DEF RequestStep, ItemStep, SubmitStep, DecideStep, PayStep, AddRead, AddCount, AddWrite,
     ItemRead, UpdateItem, DeleteItem, WriteItem, SubmitLock, ApproveRead, ApproveAccrue,
     RejectRead, PayRead, PayJournal, Refused, Abandon
<1>5. ASSUME NEW r \in Requests, SubmitCommit(r) PROVE Lifecycle!Next
  <2>1. RequestStep(r) /\ req[r].pc = "submit" /\ instance.alone
    BY <1>5, InstanceAlone DEF RequestStep, SubmitStep, SubmitCommit, OrderInv
  <2>2. report.status = "draft" /\ Present # {} BY <2>1 DEF OrderInv, AloneInv, RequestInv
  <2>3. report'.status = "submitted" /\ report'.total = AmountOf(Present)
    BY <1>5, SubmissionWritten DEF SubmitCommit, OrderInv, Shape
  <2>4. report'.total \in Nat \ {0} BY <2>2, <2>3, AmountsAddUp DEF OrderInv, CountInv
  <2>5. Lifecycle!Submit
    BY <1>1, <1>2, <2>2, <2>3, <2>4 DEF Lifecycle!Submit, Lifecycle!Move, owed, settled
  <2> QED BY <2>5 DEF Lifecycle!Next
<1>6. ASSUME NEW r \in Requests, ApproveWrite(r) PROVE Lifecycle!Next
  <2>1. req[r].pc = "approve_write" /\ instance.alone
    BY <1>6, InstanceAlone DEF ApproveWrite, OrderInv
  <2>2. report.status = "pending_approval" BY <2>1 DEF OrderInv, AloneInv, RequestInv
  <2>3. report'.status = "approved" /\ report'.total = report.total
    BY <1>6, <2>2, ApprovalWritten DEF ApproveWrite, UpdateRow, OrderInv, Shape
  <2>4. report.total \in Nat BY <2>2, TotalIsAmount DEF Final
  <2>5. Lifecycle!Approve
    BY <1>1, <1>2, <2>2, <2>3, <2>4 DEF Lifecycle!Approve, Lifecycle!Move, owed, settled
  <2> QED BY <2>5 DEF Lifecycle!Next
<1>7. ASSUME NEW r \in Requests, RejectWrite(r) PROVE Lifecycle!Next
  <2>1. req[r].pc = "reject" /\ instance.alone BY <1>7, InstanceAlone DEF RejectWrite, OrderInv
  <2>2. report.status = "pending_approval" BY <2>1 DEF OrderInv, AloneInv, RequestInv
  <2>3. report'.status = "rejected" /\ report'.total = report.total
    BY <1>7, <2>2, DecisionWritten DEF RejectWrite, UpdateRow, OrderInv, Shape
  <2>4. Lifecycle!Reject
    BY <1>1, <1>2, <2>2, <2>3 DEF Lifecycle!Reject, Lifecycle!Move, owed, settled
  <2> QED BY <2>4 DEF Lifecycle!Next
<1>8. ASSUME NEW r \in Requests, PayWrite(r) PROVE Lifecycle!Next
  <2>1. req[r].pc = "pay_write" /\ instance.alone BY <1>8, InstanceAlone DEF PayWrite, OrderInv
  <2>2. report.status = "approved" BY <2>1 DEF OrderInv, AloneInv, RequestInv
  <2>3. report'.status = "paid" /\ report'.total = report.total
    BY <1>8, <2>2, PaymentWritten DEF PayWrite, UpdateRow, OrderInv, Shape
  <2>4. Lifecycle!Pay BY <1>1, <1>2, <2>2, <2>3 DEF Lifecycle!Pay, Lifecycle!Move, owed, settled
  <2> QED BY <2>4 DEF Lifecycle!Next
<1>9. ASSUME NEW k \in Runs, AgentStep(k) PROVE Lifecycle!Next \/ UNCHANGED report
  <2>1. CASE AgentLoad(k) \/ AgentAccrue(k) BY <2>1 DEF AgentLoad, AgentAccrue
  <2>2. CASE AgentReview(k)
    <3>1. agent[k].pc = "review" /\ instance.alone BY <2>2, InstanceAlone DEF AgentReview, OrderInv
    <3>2. report.status = "submitted" /\ agent[k].decision = "pending_approval"
      BY <3>1, TotalIsAmount DEF OrderInv, AloneInv, AgentInv, InOrder, Final
    <3>3. report'.status = "pending_approval" /\ report'.total = report.total
      BY <2>2, <3>2, StatusWritten DEF AgentReview, UpdateRow, OrderInv, Shape
    <3>4. Lifecycle!Review
      BY <1>1, <1>2, <3>2, <3>3 DEF Lifecycle!Review, Lifecycle!Move, owed, settled
    <3> QED BY <3>4 DEF Lifecycle!Next
  <2>3. CASE AgentLink(k) BY <2>3 DEF AgentLink, OrderInv, JournalInv
  <2> QED BY <1>9, <2>1, <2>2, <2>3 DEF AgentStep
<1>10. CASE DeleteDraft
  <2>1. report.status = "draft" /\ report'.status = "deleted" /\ report'.total = report.total
    BY <1>10, StatusWritten DEF DeleteDraft, OrderInv, Shape
  <2>2. Lifecycle!Delete BY <1>1, <1>2, <2>1 DEF Lifecycle!Delete, Lifecycle!Move, owed, settled
  <2> QED BY <2>2 DEF Lifecycle!Next
<1>11. CASE RevertToDraft
  <2>1. report.status = "rejected" /\ report'.status = "draft" /\ report'.total = report.total
    BY <1>11, DecisionWritten DEF RevertToDraft, OrderInv, Shape
  <2>2. Lifecycle!Revert BY <1>1, <1>2, <2>1 DEF Lifecycle!Revert, Lifecycle!Move, owed, settled
  <2> QED BY <2>2 DEF Lifecycle!Next
<1>12. CASE Crash \/ UNCHANGED vars
  BY <1>12, <1>3 DEF Crash, vars
<1>13. ASSUME NEW r \in Requests, RequestStep(r) PROVE Lifecycle!Next \/ UNCHANGED Lifecycle!vars
  BY <1>3, <1>13, <1>4, <1>5, <1>6, <1>7, <1>8
<1>14. ASSUME NEW k \in Runs, AgentStep(k) PROVE Lifecycle!Next \/ UNCHANGED Lifecycle!vars
  BY <1>14, <1>9, <1>3
<1> QED BY <1>10, <1>11, <1>12, <1>13, <1>14 DEF Next

(* In order, the service, the handlers and the agent implement the promised
   status machine and its obligations, whatever runs when. *)
THEOREM WorkflowImplementsLifecycle == ASSUME InOrder PROVE FairSpec => ImplementsLifecycle
<1>1. Init => Lifecycle!Init BY DEF Init, Lifecycle!Init, AmountOfLink
<1>2. OrderInv /\ OrderInv' /\ [Next]_vars => [Lifecycle!Next]_(Lifecycle!vars) BY StepImplements
<1> QED BY <1>1, <1>2, OrderIsKept, PTL DEF Spec, FairSpec, ImplementsLifecycle, Lifecycle!Spec

(* What follows from the promised status machine alone.  MoneyFollowsStatus does
   not say that nothing was owed when a rejected report is submitted again, nor
   that a debt is at most the total. *)
MoneyInv ==
    /\ report.total \in Nat
    /\ AmountOfLink(report.accrual) \in 0..report.total
    /\ AmountOfLink(report.payment) \in Nat
    /\ Lifecycle!MoneyFollowsStatus

(* Along every path of the promised status machine, through any number of
   rejections and resubmissions, nothing is owed before approval, never more
   than the total, and nothing is settled before payment. *)
THEOREM MoneyOnlyOnTheWayToPaid ==
    Lifecycle!Spec =>
        [](Lifecycle!MoneyFollowsStatus /\ AmountOfLink(report.accrual) <= report.total)
<1>1. Lifecycle!Init => MoneyInv BY DEF Lifecycle!Init, MoneyInv, Lifecycle!MoneyFollowsStatus
<1>2. MoneyInv /\ [Lifecycle!Next]_(Lifecycle!vars) => MoneyInv'
  <2> SUFFICES ASSUME MoneyInv, [Lifecycle!Next]_(Lifecycle!vars) PROVE MoneyInv' OBVIOUS
  <2> USE DEF MoneyInv, Lifecycle!MoneyFollowsStatus, Lifecycle!Move
  <2>1. CASE Lifecycle!Submit BY <2>1 DEF Lifecycle!Submit
  <2>2. CASE Lifecycle!Approve BY <2>2 DEF Lifecycle!Approve
  <2>3. CASE Lifecycle!Pay BY <2>3 DEF Lifecycle!Pay
  <2>4. CASE Lifecycle!Review \/ Lifecycle!Reject \/ Lifecycle!Revert \/ Lifecycle!Delete
    BY <2>4 DEF Lifecycle!Review, Lifecycle!Reject, Lifecycle!Revert, Lifecycle!Delete
  <2>5. CASE UNCHANGED Lifecycle!vars BY <2>5 DEF Lifecycle!vars
  <2> QED BY <2>1, <2>2, <2>3, <2>4, <2>5 DEF Lifecycle!Next
<1>3. MoneyInv => Lifecycle!MoneyFollowsStatus /\ AmountOfLink(report.accrual) <= report.total
  BY DEF MoneyInv
<1> QED BY <1>1, <1>2, <1>3, PTL DEF Lifecycle!Spec
----
(***************************************************************************)
(* Purchasing.  An invoice has an order it was made of: its items are the  *)
(* first of the order's, and a request that is making it holds the others. *)
(***************************************************************************)
Lines == Seq([net : Int, type : STRING])

(* The figures of an invoice are those of its order. *)
Made(inv, lines) ==
    LET new == Invoice(inv.number, inv.auto, lines)
    IN  /\ inv.lines = Len(lines)
        /\ inv.subtotal = new.subtotal /\ inv.vat = new.vat /\ inv.total = new.total
        /\ Len(inv.items) \in 0..Len(lines)
        /\ inv.items = [k \in 1..Len(inv.items) |-> Item(lines[k])]

InvoicesTable(db) ==
    /\ DOMAIN db = {"invoices", "made", "deleted", "broken"}
    /\ db.made \in Nat /\ DOMAIN db.invoices \subseteq 1..db.made
    /\ \A i \in DOMAIN db.invoices :
         /\ DOMAIN db.invoices[i] = {"number", "auto", "status", "lines", "items",
                                     "subtotal", "vat", "total"}
         /\ db.invoices[i].number \in Int
         /\ \E lines \in Orders \cup {<<>>} : Made(db.invoices[i], lines)

InvoiceOps == {"none", "invoice", "get", "list", "status", "delete"}

Making(call, i) == call.op = "invoice" /\ call.at = "items" /\ call.id = i

(* What the request that makes the invoice i still has to insert. *)
Rest(inv, rest) ==
    \E lines \in Orders \cup {<<>>} :
        /\ Made(inv, lines) /\ rest \in Lines /\ Len(inv.items) + Len(rest) = Len(lines)
        /\ \A k \in 1..Len(rest) : rest[k] = lines[Len(inv.items) + k]

InvoiceCall(db, call) ==
    /\ call.op \in InvoiceOps
    /\ call.op = "invoice" => call.at \in {"insert", "items", "answered"}
    /\ (call.op = "invoice" /\ call.at = "insert") => call.lines \in Orders /\ call.number \in Int
    /\ (call.op = "invoice" /\ call.at = "items") =>
         /\ DOMAIN call = {"op", "at", "id", "rest"} /\ call.id \in 1..db.made
         /\ call.id \in DOMAIN db.invoices => Rest(db.invoices[call.id], call.rest)

(* A request alone finds the tables as it has read them. *)
InvoiceAlone(db, call) ==
    /\ db.deleted \subseteq {"draft"}
    /\ (call.op = "invoice" /\ call.at = "insert" /\ call.auto) =>
         \A i \in DOMAIN db.invoices : db.invoices[i].number < call.number
    /\ (call.op = "invoice" /\ call.at = "answered" /\ "auto" \in DOMAIN call) => ~call.auto
    /\ (call.op = "delete" /\ call.at = "delete" /\ call.id \in DOMAIN db.invoices) =>
         db.invoices[call.id].status = "draft"
    /\ call.op = "get" =>
         /\ call.at \in {"items", "answered"}
         /\ call.at = "items" =>
              /\ call.id \in DOMAIN db.invoices /\ call.lines = db.invoices[call.id].lines
         /\ ("items" \in DOMAIN call /\ call.id \notin db.broken) => call.items = call.lines

InvoicesInv ==
    /\ InvoicesTable(rows)
    /\ DOMAIN calls = Callers /\ \A c \in Callers : InvoiceCall(rows, calls[c])
    /\ \A c, d \in Callers : (c # d /\ At(c, "invoice", "items") /\ At(d, "invoice", "items"))
                                => calls[c].id # calls[d].id
    /\ \A i \in DOMAIN rows.invoices :
         \/ Len(rows.invoices[i].items) = rows.invoices[i].lines
         \/ i \in rows.broken
         \/ \E c \in Callers : Making(calls[c], i)
    /\ \A c \in Callers :
         (\A d \in Callers \ {c} : calls[d] = Gone) => InvoiceAlone(rows, calls[c])

----
(* Vendors. *)
VendorOps ==
    {"none", "vendor", "patch", "unvendor", "vendors", "certificate", "download", "sawt", "classify"}

VendorsTable(db) ==
    /\ DOMAIN db = {"vendors", "made", "certificates", "unsure"}
    /\ db.made \in Nat /\ DOMAIN db.vendors \subseteq 1..db.made
    /\ db.certificates \in Seq([vendor : Nat, atc : ATCs, period : {"p1", "p2"},
                                 income : Int, tax : Int])
    /\ \A k \in DOMAIN db.certificates : db.certificates[k].vendor \in DOMAIN db.vendors

(* What a batch has read of a vendor stays, so that the second payment finds
   what the first was decided by. *)
BatchOK(call) ==
    LET done == call.results
        tin == call.batch[1].tin
    IN  /\ DOMAIN call = {"op", "at", "batch", "known", "rules", "results"}
        /\ call.at \in {"lookup", "check", "insert", "fetch", "decide", "answered"}
        /\ \/ done = <<>> /\ call.at # "answered"
           \/ done = <<done[1]>> /\ call.at # "answered"
           \/ done = <<done[1], done[2]>> /\ call.at = "answered"
        /\ call.at \in {"check", "insert", "fetch"} =>
             Current(call).tin # NoText /\ Current(call).tin \notin DOMAIN call.known
        /\ (done # <<>> /\ done[1].source = "vendor") =>
             /\ tin \in DOMAIN call.known /\ KnownCode(call.known[tin])
             /\ done[1] = Classified(TRUE, call.known[tin], "vendor")
        /\ (/\ Len(done) = 2 /\ call.batch[2].tin = tin
            /\ done[1].source = "vendor" /\ ~call.batch[2].exempt) => done[2] = done[1]

VendorCall(db, call) ==
    /\ call.op \in VendorOps
    /\ call.op = "download" =>
         /\ call.at = "vendor" => \E k \in DOMAIN db.certificates : call.vendor = db.certificates[k].vendor
         /\ "printed" \in DOMAIN call => call.printed
    /\ call.op = "classify" => BatchOK(call)

Distinct(db) ==
    \A v, w \in DOMAIN db.vendors :
        (db.vendors[v].tin = db.vendors[w].tin /\ db.vendors[v].tin # NoText) => v = w

VendorAlone(db, call) ==
    /\ ~db.unsure =>
         /\ Distinct(db)
         /\ (call.op = "vendor" /\ call.at = "insert") =>
              call.vendor.tin = NoText \/ GetVendorByTIN(db, call.vendor.tin) = {}
         /\ (call.op = "classify" /\ call.at = "insert") => GetVendorByTIN(db, Current(call).tin) = {}
    /\ call.op = "sawt" =>
         /\ call.at = "answered" => call.total = Len(db.certificates)
         /\ call.entries = SAWT(db, ListWithholdingByCompany(db, MaxListed), call.period)

VendorsInv ==
    /\ VendorsTable(rows)
    /\ DOMAIN calls = Callers /\ \A c \in Callers : VendorCall(rows, calls[c])
    /\ \A c \in Callers :
         (\A d \in Callers \ {c} : calls[d] = Gone) => VendorAlone(rows, calls[c])

PurchasingInv ==
    /\ part \in PurchasingParts
    /\ part = "invoices" => InvoicesInv
    /\ part = "vendors" => VendorsInv
----
Within(n, a) == -n <= a /\ a <= n

(* What is rounded line by line is near to what is rounded at the end. *)
LEMMA CentsNear ==
    ASSUME NEW x \in Int
    PROVE  Cents(x) \in Int /\ Within(500, 1000 * Cents(x) - x)
BY DEF Cents, Within

LEMMA SumsNear ==
    ASSUME NEW S, IsFiniteSet(S), NEW l, NEW m,
           \A s \in S : l[s] \in Int /\ m[s] \in Int /\ Within(500, 1000 * m[s] - l[s])
    PROVE  /\ SetSum(l, S) \in Int /\ SetSum(m, S) \in Int /\ Cardinality(S) \in Nat
           /\ Within(500 * Cardinality(S), 1000 * SetSum(m, S) - SetSum(l, S))
<1> DEFINE Off(T) == 1000 * SetSum(m, T) - SetSum(l, T)
           X == {T \in SUBSET S : Within(500 * Cardinality(T), Off(T))}
<1>1. ASSUME NEW T \in SUBSET S
      PROVE  /\ IsFiniteSet(T) /\ Cardinality(T) \in Nat
             /\ SetSum(l, T) \in Int /\ SetSum(m, T) \in Int
  BY FS_Subset, SumType, FS_CardinalityType
<1>2. ASSUME NEW T \in SUBSET S, \A x \in T : T \ {x} \in X PROVE T \in X
  <2>1. IsFiniteSet(T) BY <1>1
  <2>2. CASE T = {}
    <3>1. SetSum(l, T) = 0 /\ SetSum(m, T) = 0 /\ Cardinality(T) = 0
      <4>1. SetSum(l, T) = 0 /\ SetSum(m, T) = 0 BY <2>1, <2>2, SumIsFirstAndRest
      <4> QED BY <2>1, <2>2, <4>1, FS_EmptySet
    <3> QED BY <3>1 DEF Within
  <2>3. CASE T # {}
    <3>1. PICK x \in T : TRUE BY <2>3
    <3>2. Cardinality(T \ {x}) = Cardinality(T) - 1 BY <2>1, <3>1, FS_RemoveElement
    <3>3. SetSum(l, T) = l[x] + SetSum(l, T \ {x}) /\ SetSum(m, T) = m[x] + SetSum(m, T \ {x})
      BY <2>1, <3>1, SumTakes
    <3>4. Within(500 * Cardinality(T \ {x}), Off(T \ {x})) BY <1>2, <3>1
    <3>5. T \ {x} \in SUBSET S /\ l[x] \in Int /\ m[x] \in Int /\ Within(500, 1000 * m[x] - l[x])
      BY <3>1
    <3>6. Cardinality(T) \in Nat /\ SetSum(l, T \ {x}) \in Int /\ SetSum(m, T \ {x}) \in Int
      BY <1>1, <3>5
    <3> HIDE DEF X
    <3>7. Within(500 * Cardinality(T), Off(T))
      <4> DEFINE n == Cardinality(T)
                 a == SetSum(l, T \ {x})
                 b == SetSum(m, T \ {x})
      <4>1. Within(500 * (n - 1), 1000 * b - a) BY <3>2, <3>4
      <4>2. n \in Nat /\ a \in Int /\ b \in Int BY <3>6
      <4>3. Off(T) = 1000 * (m[x] + b) - (l[x] + a) BY <3>3
      <4> HIDE DEF n, a, b, Off
      <4>4. Within(500 * n, 1000 * (m[x] + b) - (l[x] + a)) BY <3>5, <4>1, <4>2 DEF Within
      <4> QED BY <4>3, <4>4 DEF n
    <3> QED BY <3>7 DEF X
  <2> QED BY <2>2, <2>3
<1>3. \A T \in SUBSET S : T \in X
  <2> HIDE DEF X
  <2> QED BY <1>2, SubsetInduction
<1> QED BY <1>1, <1>3

(* The lines of an order. *)
LEMMA OrderIs ==
    ASSUME NEW lines \in Orders \cup {<<>>}
    PROVE  /\ lines \in Lines /\ Len(lines) \in Nat /\ DOMAIN lines = 1..Len(lines)
           /\ IsFiniteSet(1..Len(lines)) /\ Cardinality(1..Len(lines)) = Len(lines)
           /\ \A k \in 1..Len(lines) : lines[k].net \in Int /\ LineVAT(lines[k]) \in Int
<1>1. lines \in Lines
  <2>1. <<>> \in Lines BY DEF Lines
  <2>2. lines \in Orders => lines \in Lines BY PurchasingAssumption DEF Lines
  <2> QED BY <2>1, <2>2
<1>2. Len(lines) \in Nat /\ DOMAIN lines = 1..Len(lines) BY <1>1 DEF Lines
<1>3. IsFiniteSet(1..Len(lines)) /\ Cardinality(1..Len(lines)) = Len(lines) BY <1>2, FS_Interval
<1>4. \A k \in 1..Len(lines) : lines[k] \in [net : Int, type : STRING]
  <2> DEFINE T == [net : Int, type : STRING]
  <2>1. lines \in Seq(T) BY <1>1 DEF Lines
  <2> HIDE DEF T
  <2>2. \A k \in 1..Len(lines) : lines[k] \in T BY <2>1
  <2> QED BY <2>2 DEF T
<1>5. \A k \in 1..Len(lines) : lines[k].net \in Int /\ LineVAT(lines[k]) \in Int BY <1>4 DEF LineVAT
<1> QED BY <1>1, <1>2, <1>3, <1>5

LEMMA SumLinesIs == \A values : SumLines(values) = SetSum(values, DOMAIN values)
BY AddAllIsSum DEF SumLines

(* A column of figures rounded one by one, and the columns' sum. *)
LEMMA ColumnNear ==
    ASSUME NEW S, IsFiniteSet(S), NEW n \in Nat, Cardinality(S) = n, NEW l, NEW m,
           \A s \in S : l[s] \in Int /\ m[s] \in Int /\ Within(500, 1000 * m[s] - l[s])
    PROVE  /\ SetSum(l, S) \in Int /\ SetSum(m, S) \in Int /\ Cents(SetSum(l, S)) \in Int
           /\ Within(500, 1000 * Cents(SetSum(l, S)) - SetSum(l, S))
           /\ 2 * (Cents(SetSum(l, S)) - SetSum(m, S)) \in -(n + 1)..(n + 1)
<1> DEFINE a == Cents(SetSum(l, S))
<1>1. /\ SetSum(l, S) \in Int /\ SetSum(m, S) \in Int
      /\ Within(500 * Cardinality(S), 1000 * SetSum(m, S) - SetSum(l, S))
  BY SumsNear
<1>2. a \in Int /\ Within(500, 1000 * a - SetSum(l, S)) BY <1>1, CentsNear
<1>3. 2 * (a - SetSum(m, S)) \in -(n + 1)..(n + 1)
  <2> DEFINE u == SetSum(l, S)
             w == SetSum(m, S)
  <2>1. u \in Int /\ w \in Int /\ Within(500 * n, 1000 * w - u) /\ Within(500, 1000 * a - u)
    BY <1>1, <1>2
  <2> HIDE DEF u, w, a
  <2>2. 2 * (a - w) \in -(n + 1)..(n + 1) BY <1>2, <2>1 DEF Within
  <2> QED BY <2>2 DEF w
<1> QED BY <1>1, <1>2, <1>3

(* An invoice with all its items adds up. *)
LEMMA WholeAddsUp ==
    ASSUME NEW inv, NEW lines \in Orders \cup {<<>>}, Made(inv, lines), Len(inv.items) = inv.lines
    PROVE  LET sums == SumLines([k \in DOMAIN inv.items |-> inv.items[k].amount])
               vat == SumLines([k \in DOMAIN inv.items |-> inv.items[k].vat])
               Near(a, b) == 2 * (a - b) \in -(inv.lines + 1)..(inv.lines + 1)
           IN  /\ Near(inv.subtotal, sums) /\ Near(inv.vat, vat)
               /\ inv.total - inv.subtotal - inv.vat \in -1..1
<1> DEFINE S == 1..Len(lines)
           nets == [k \in S |-> lines[k].net]
           vats == [k \in S |-> LineVAT(lines[k])]
           both == [k \in S |-> lines[k].net + LineVAT(lines[k])]
           amounts == [k \in S |-> Cents(lines[k].net)]
           taxes == [k \in S |-> Cents(LineVAT(lines[k]))]
<1>1. /\ Len(lines) \in Nat /\ DOMAIN lines = S /\ IsFiniteSet(S) /\ Cardinality(S) = Len(lines)
      /\ \A k \in S : lines[k].net \in Int /\ LineVAT(lines[k]) \in Int
  BY OrderIs
<1>2. /\ inv.lines = Len(lines)
      /\ inv.subtotal = Cents(SumLines(nets)) /\ inv.vat = Cents(SumLines(vats))
      /\ inv.total = Cents(SumLines(both))
  BY <1>1 DEF Made, Invoice
<1>3. inv.items = [k \in S |-> Item(lines[k])] BY <1>2 DEF Made
<1>4. /\ [k \in DOMAIN inv.items |-> inv.items[k].amount] = amounts
      /\ [k \in DOMAIN inv.items |-> inv.items[k].vat] = taxes
  BY <1>3 DEF Item
<1>5. /\ \A k \in S : nets[k] \in Int /\ amounts[k] \in Int /\ Within(500, 1000 * amounts[k] - nets[k])
      /\ \A k \in S : vats[k] \in Int /\ taxes[k] \in Int /\ Within(500, 1000 * taxes[k] - vats[k])
  <2>1. \A k \in S : /\ Cents(lines[k].net) \in Int
                     /\ Within(500, 1000 * Cents(lines[k].net) - lines[k].net)
                     /\ Cents(LineVAT(lines[k])) \in Int
                     /\ Within(500, 1000 * Cents(LineVAT(lines[k])) - LineVAT(lines[k]))
    BY <1>1, CentsNear
  <2> QED BY <1>1, <2>1
<1>6. \A k \in S : both[k] = nets[k] + vats[k] OBVIOUS
<1>7. DOMAIN nets = S /\ DOMAIN vats = S /\ DOMAIN both = S /\ DOMAIN amounts = S /\ DOMAIN taxes = S
  OBVIOUS
<1> HIDE DEF S, nets, vats, both, amounts, taxes
<1>8. SetSum(both, S) = SetSum(nets, S) + SetSum(vats, S)
  <2>1. \A k \in S : nets[k] \in Int /\ vats[k] \in Int /\ both[k] = nets[k] + vats[k] BY <1>5, <1>6
  <2> QED BY <1>1, <2>1, SumOfSums
<1>9. /\ inv.subtotal = Cents(SetSum(nets, S)) /\ inv.vat = Cents(SetSum(vats, S))
      /\ inv.total = Cents(SetSum(nets, S) + SetSum(vats, S))
  BY <1>2, <1>7, <1>8, SumLinesIs
<1>10. /\ SetSum(nets, S) \in Int /\ SetSum(amounts, S) \in Int /\ inv.subtotal \in Int
       /\ Within(500, 1000 * inv.subtotal - SetSum(nets, S))
       /\ 2 * (inv.subtotal - SetSum(amounts, S)) \in -(inv.lines + 1)..(inv.lines + 1)
  <2>1. \A k \in S : nets[k] \in Int /\ amounts[k] \in Int /\ Within(500, 1000 * amounts[k] - nets[k])
    BY <1>5
  <2>2. IsFiniteSet(S) /\ Len(lines) \in Nat /\ Cardinality(S) = Len(lines) BY <1>1
  <2>3. /\ SetSum(nets, S) \in Int /\ SetSum(amounts, S) \in Int /\ Cents(SetSum(nets, S)) \in Int
        /\ Within(500, 1000 * Cents(SetSum(nets, S)) - SetSum(nets, S))
        /\ 2 * (Cents(SetSum(nets, S)) - SetSum(amounts, S)) \in -(Len(lines) + 1)..(Len(lines) + 1)
    BY <2>1, <2>2, ColumnNear
  <2> QED BY <1>2, <1>9, <2>3
<1>11. /\ SetSum(vats, S) \in Int /\ SetSum(taxes, S) \in Int /\ inv.vat \in Int
       /\ Within(500, 1000 * inv.vat - SetSum(vats, S))
       /\ 2 * (inv.vat - SetSum(taxes, S)) \in -(inv.lines + 1)..(inv.lines + 1)
  <2>1. \A k \in S : vats[k] \in Int /\ taxes[k] \in Int /\ Within(500, 1000 * taxes[k] - vats[k])
    BY <1>5
  <2>2. IsFiniteSet(S) /\ Len(lines) \in Nat /\ Cardinality(S) = Len(lines) BY <1>1
  <2>3. /\ SetSum(vats, S) \in Int /\ SetSum(taxes, S) \in Int /\ Cents(SetSum(vats, S)) \in Int
        /\ Within(500, 1000 * Cents(SetSum(vats, S)) - SetSum(vats, S))
        /\ 2 * (Cents(SetSum(vats, S)) - SetSum(taxes, S)) \in -(Len(lines) + 1)..(Len(lines) + 1)
    BY <2>1, <2>2, ColumnNear
  <2> QED BY <1>2, <1>9, <2>3
<1>12. inv.total - inv.subtotal - inv.vat \in -1..1
  <2> DEFINE u == SetSum(nets, S)
             w == SetSum(vats, S)
             a == inv.subtotal
             b == inv.vat
             t == inv.total
  <2>1. t \in Int /\ Within(500, 1000 * t - (u + w))
    <3>1. u + w \in Int BY <1>10, <1>11
    <3> QED BY <1>9, <3>1, CentsNear
  <2>2. /\ u \in Int /\ w \in Int /\ a \in Int /\ b \in Int
        /\ Within(500, 1000 * a - u) /\ Within(500, 1000 * b - w)
    BY <1>10, <1>11
  <2> HIDE DEF u, w, a, b, t
  <2>3. t - a - b \in -1..1 BY <2>1, <2>2 DEF Within
  <2> QED BY <2>3 DEF a, b, t
<1>16. SumLines(amounts) = SetSum(amounts, S) /\ SumLines(taxes) = SetSum(taxes, S)
  BY <1>7, SumLinesIs
<1> QED BY <1>4, <1>10, <1>11, <1>12, <1>16
----
(* Requests of invoices. *)
LEMMA InvoicesActions ==
    ASSUME InvoicesInv, part = "invoices", PurchasingNext
    PROVE  \E c \in Callers :
             \/ InvoiceCreate(c) \/ InvoiceInsert(c) \/ InvoiceItem(c) \/ InvoiceItemFails(c)
             \/ InvoiceCreated(c) \/ InvoiceGet(c) \/ InvoiceGetItems(c)
             \/ InvoiceList(c) \/ InvoiceListCounts(c) \/ InvoiceUpdateStatus(c)
             \/ InvoiceDelete(c) \/ InvoiceDeletes(c)
<1>1. PICK c \in Callers :
        \/ InvoiceCreate(c) \/ InvoiceInsert(c) \/ InvoiceItem(c) \/ InvoiceItemFails(c)
        \/ InvoiceCreated(c) \/ InvoiceGet(c) \/ InvoiceGetItems(c)
        \/ InvoiceList(c) \/ InvoiceListCounts(c) \/ InvoiceUpdateStatus(c)
        \/ InvoiceDelete(c) \/ InvoiceDeletes(c)
        \/ VendorCreate(c) \/ VendorInsert(c) \/ VendorUpdate(c) \/ VendorUpdateWrites(c)
        \/ VendorUpdateRereads(c) \/ VendorDelete(c) \/ VendorDeletes(c)
        \/ VendorList(c) \/ VendorListCounts(c)
        \/ CertificateCreate(c) \/ CertificateDownload(c) \/ CertificateVendor(c)
        \/ GetSAWT(c) \/ GetSAWTCounts(c)
        \/ Classify(c) \/ ClassifyLooksUp(c) \/ ClassifyChecks(c) \/ ClassifyInserts(c)
        \/ ClassifyFetches(c) \/ ClassifyDecides(c)
  BY DEF PurchasingNext, Serving
<1>2. calls[c].op \in InvoiceOps BY DEF InvoicesInv, InvoiceCall
<1>3. ~Free({"vendors"}, c) BY DEF Free
<1>4. calls[c].op \notin {"vendor", "patch", "unvendor", "vendors", "download", "sawt", "classify"}
  BY <1>2 DEF InvoiceOps
<1>5. ~(VendorCreate(c) \/ VendorUpdate(c) \/ VendorDelete(c) \/ VendorList(c)
          \/ CertificateCreate(c) \/ CertificateDownload(c) \/ GetSAWT(c) \/ Classify(c))
  BY <1>3 DEF VendorCreate, VendorUpdate, VendorDelete, VendorList, CertificateCreate,
     CertificateDownload, GetSAWT, Classify
<1>6. ~(VendorInsert(c) \/ VendorUpdateWrites(c) \/ VendorUpdateRereads(c) \/ VendorDeletes(c)
          \/ VendorListCounts(c) \/ CertificateVendor(c) \/ GetSAWTCounts(c))
  BY <1>4 DEF VendorInsert, VendorUpdateWrites, VendorUpdateRereads, VendorDeletes,
     VendorListCounts, Counted, CertificateVendor, GetSAWTCounts, At
<1>7. ~(ClassifyLooksUp(c) \/ ClassifyChecks(c) \/ ClassifyInserts(c) \/ ClassifyFetches(c)
          \/ ClassifyDecides(c))
  BY <1>4 DEF ClassifyLooksUp, ClassifyChecks, ClassifyInserts, ClassifyFetches, ClassifyDecides, At
<1> QED BY <1>1, <1>5, <1>6, <1>7

LEMMA InvoicesStepped ==
    ASSUME InvoicesInv, NEW c \in Callers, Moved(c), NEW call, calls'[c] = call,
           InvoicesTable(rows'), InvoiceCall(rows', call),
           \A d \in Callers \ {c} : InvoiceCall(rows', calls[d]),
           (call.op = "invoice" /\ call.at = "items") =>
              \A d \in Callers \ {c} : At(d, "invoice", "items") => calls[d].id # call.id,
           \A i \in DOMAIN rows'.invoices :
              \/ Len(rows'.invoices[i].items) = rows'.invoices[i].lines
              \/ i \in rows'.broken
              \/ Making(call, i)
              \/ \E d \in Callers \ {c} : Making(calls[d], i),
           (\A d \in Callers \ {c} : calls[d] = Gone) => InvoiceAlone(rows', call)
    PROVE  InvoicesInv'
<1>1. /\ DOMAIN calls' = Callers /\ calls'[c] = call
      /\ \A d \in Callers \ {c} : calls'[d] = calls[d]
  BY DEF Moved
<1>2. \A d \in Callers : InvoiceCall(rows', calls'[d]) BY <1>1
<1>3. ASSUME NEW d \in Callers, NEW e \in Callers, d # e,
             At(d, "invoice", "items")', At(e, "invoice", "items")'
      PROVE  calls'[d].id # calls'[e].id
  BY <1>1, <1>3 DEF InvoicesInv, At
<1>4. ASSUME NEW i \in DOMAIN rows'.invoices
      PROVE  \/ Len(rows'.invoices[i].items) = rows'.invoices[i].lines
             \/ i \in rows'.broken
             \/ \E d \in Callers : Making(calls'[d], i)
  BY <1>1
<1>5. ASSUME NEW d \in Callers, \A e \in Callers \ {d} : calls'[e] = Gone
      PROVE  InvoiceAlone(rows', calls'[d])
  BY <1>5, <1>1 DEF Gone, Moved
<1> QED BY <1>1, <1>2, <1>3, <1>4, <1>5 DEF InvoicesInv

(* A step that only reads, of a request that is not making an invoice, or is
   done with it. *)
LEMMA InvoicesRead ==
    ASSUME InvoicesInv, NEW c \in Callers, NEW call, calls[c].at # "gone", call.at # "gone",
           Begin(c, call) \/ Continue(c, call), rows' = rows, InvoiceCall(rows, call),
           ~(call.op = "invoice" /\ call.at = "items"),
           \A i \in DOMAIN rows.invoices : Making(calls[c], i) =>
              Len(rows.invoices[i].items) = rows.invoices[i].lines,
           (\A d \in Callers \ {c} : calls[d] = Gone) =>
              (InvoiceAlone(rows, calls[c]) => InvoiceAlone(rows, call))
    PROVE  InvoicesInv' /\ part' = part
<1>1. Moved(c) /\ calls'[c] = call /\ part' = part BY Moves DEF InvoicesInv
<1>2. \A i \in DOMAIN rows.invoices :
         \/ Len(rows.invoices[i].items) = rows.invoices[i].lines
         \/ i \in rows.broken
         \/ \E d \in Callers \ {c} : Making(calls[d], i)
  BY DEF InvoicesInv
<1>3. InvoicesTable(rows) /\ \A d \in Callers : InvoiceCall(rows, calls[d]) BY DEF InvoicesInv
<1>4. (\A d \in Callers \ {c} : calls[d] = Gone) => InvoiceAlone(rows, call) BY DEF InvoicesInv
<1> QED BY <1>1, <1>2, <1>3, <1>4, InvoicesStepped

LEMMA InvoiceAnswers ==
    ASSUME NEW db, NEW old, NEW op \in InvoiceOps, NEW status
    PROVE  /\ InvoiceCall(db, Answered(op, status))
           /\ InvoiceAlone(db, old) => InvoiceAlone(db, Answered(op, status))
           /\ Answered(op, status).at = "answered"
<1> DEFINE call == Answered(op, status)
<1>1. DOMAIN call = {"op", "at", "status"} /\ call.op = op /\ call.at = "answered" BY DEF Answered
<1> HIDE DEF call
<1>2. InvoiceCall(db, call) BY <1>1 DEF InvoiceCall
<1>3. InvoiceAlone(db, old) => InvoiceAlone(db, call) BY <1>1 DEF InvoiceAlone
<1> QED BY <1>1, <1>2, <1>3 DEF call

(* An answer that no step has stored anything for. *)
LEMMA InvoicesAnswered ==
    ASSUME InvoicesInv, NEW c \in Callers, NEW op \in InvoiceOps, NEW status, calls[c].at # "gone",
           \/ AnswerAtOnce(c, op, status)
           \/ Answer(c, status) /\ calls[c].op = op,
           rows' = rows,
           \A i \in DOMAIN rows.invoices : Making(calls[c], i) =>
              Len(rows.invoices[i].items) = rows.invoices[i].lines
    PROVE  InvoicesInv' /\ part' = part
<1> DEFINE call == Answered(op, status)
<1>1. Begin(c, call) \/ Continue(c, call) BY DEF AnswerAtOnce, Answer
<1>2. /\ InvoiceCall(rows, call) /\ call.at = "answered"
      /\ InvoiceAlone(rows, calls[c]) => InvoiceAlone(rows, call)
  BY InvoiceAnswers
<1> HIDE DEF call
<1>3. ~(call.op = "invoice" /\ call.at = "items") BY <1>2
<1> QED BY <1>1, <1>2, <1>3, InvoicesRead

LEMMA InvoicesFinite ==
    ASSUME NEW db, InvoicesTable(db)
    PROVE  IsFiniteSet(DOMAIN db.invoices)
<1>1. IsFiniteSet(1..db.made) /\ DOMAIN db.invoices \subseteq 1..db.made
  BY FS_Interval DEF InvoicesTable
<1> QED BY <1>1, FS_Subset

(* The next number is greater than those there are. *)
LEMMA NextInvoiceNumber ==
    ASSUME NEW db, InvoicesTable(db)
    PROVE  /\ GetNextInvoiceNumber(db) \in Int
           /\ \A i \in DOMAIN db.invoices : db.invoices[i].number < GetNextInvoiceNumber(db)
<1> DEFINE D == DOMAIN db.invoices
           image == {db.invoices[i].number : i \in D}
           nums == {0} \cup image
           f == [i \in D |-> db.invoices[i].number]
<1>1. IsFiniteSet(D) BY InvoicesFinite
<1>2. \A t \in image : \E i \in D : f[i] = t OBVIOUS
<1>3. IsFiniteSet(image)
  <2> HIDE DEF D, image, f
  <2> QED BY <1>1, <1>2, ImageFinite
<1>4. IsFiniteSet(nums)
  <2> HIDE DEF image
  <2> QED BY <1>3, FS_Singleton, FS_Union
<1>5. nums \subseteq Int /\ nums # {} BY DEF InvoicesTable
<1>6. Max(nums) \in nums /\ \A x \in nums : x <= Max(nums)
  <2> HIDE DEF nums
  <2> QED BY <1>4, <1>5, MaxIs
<1>7. GetNextInvoiceNumber(db) = Max(nums) + 1 BY DEF GetNextInvoiceNumber
<1>8. \A i \in D : db.invoices[i].number \in nums OBVIOUS
<1> HIDE DEF nums, D
<1>9. Max(nums) \in Int /\ \A i \in D : db.invoices[i].number \in Int BY <1>5, <1>6, <1>8
<1> QED BY <1>6, <1>7, <1>8, <1>9 DEF D

LEMMA InvoicesCreated ==
    ASSUME InvoicesInv, NEW c \in Callers, InvoiceCreate(c)
    PROVE  InvoicesInv' /\ part' = part
<1>1. PICK lines \in Orders, given \in {0, 1, MaxNumber} :
         LET next == GetNextInvoiceNumber(rows)
         IN  /\ Reads
             /\ IF given = 0 /\ next > MaxNumber
                THEN AnswerAtOnce(c, "invoice", InvoiceCreateResponses.Failed)
                ELSE Begin(c, [op |-> "invoice", at |-> "insert", lines |-> lines,
                               auto |-> given = 0, number |-> IF given = 0 THEN next ELSE given])
  BY DEF InvoiceCreate
<1> DEFINE next == GetNextInvoiceNumber(rows)
           number == IF given = 0 THEN next ELSE given
           call == [op |-> "invoice", at |-> "insert", lines |-> lines, auto |-> given = 0,
                    number |-> number]
<1>2. calls[c].at = "answered" /\ rows' = rows /\ InvoicesTable(rows)
  BY <1>1 DEF InvoiceCreate, Free, Reads, InvoicesInv
<1>3. next \in Int /\ \A i \in DOMAIN rows.invoices : rows.invoices[i].number < next
  BY <1>2, NextInvoiceNumber
<1>4. \A i \in DOMAIN rows.invoices : ~Making(calls[c], i) BY <1>2 DEF Making
<1>5. CASE AnswerAtOnce(c, "invoice", InvoiceCreateResponses.Failed)
  BY <1>2, <1>4, <1>5, InvoicesAnswered DEF InvoiceOps
<1>6. CASE Begin(c, call)
  <2>1. number \in Int BY <1>3, PurchasingAssumption
  <2>2. /\ DOMAIN call = {"op", "at", "lines", "auto", "number"} /\ call.op = "invoice"
        /\ call.at = "insert" /\ call.lines = lines /\ call.number = number
        /\ call.auto = (given = 0)
    OBVIOUS
  <2>3. (given = 0) => number = next OBVIOUS
  <2> HIDE DEF call, number, next
  <2>4. InvoiceCall(rows, call) BY <2>1, <2>2 DEF InvoiceCall, InvoiceOps
  <2>5. ASSUME InvoiceAlone(rows, calls[c]) PROVE InvoiceAlone(rows, call)
    <3>1. rows.deleted \subseteq {"draft"} BY <2>5 DEF InvoiceAlone
    <3>2. call.auto => \A i \in DOMAIN rows.invoices : rows.invoices[i].number < call.number
      BY <1>3, <2>2, <2>3
    <3> QED BY <2>2, <3>1, <3>2 DEF InvoiceAlone
  <2>6. ~(call.op = "invoice" /\ call.at = "items") /\ calls[c].at # "gone" /\ call.at # "gone"
    BY <1>2, <2>2
  <2> QED BY <1>2, <1>4, <1>6, <2>4, <2>5, <2>6, InvoicesRead
<1> QED BY <1>1, <1>5, <1>6

(* What is written of other invoices, and what is made, does not disturb the
   requests that make one. *)
LEMMA SameMade ==
    ASSUME NEW inv, NEW to, NEW lines,
           to.number = inv.number, to.auto = inv.auto, to.lines = inv.lines, to.items = inv.items,
           to.subtotal = inv.subtotal, to.vat = inv.vat, to.total = inv.total
    PROVE  Made(inv, lines) => Made(to, lines)
BY DEF Made

LEMMA SameRest ==
    ASSUME NEW inv, NEW to, NEW rest,
           to.number = inv.number, to.auto = inv.auto, to.lines = inv.lines, to.items = inv.items,
           to.subtotal = inv.subtotal, to.vat = inv.vat, to.total = inv.total
    PROVE  Rest(inv, rest) => Rest(to, rest)
BY SameMade DEF Rest

LEMMA OtherCalls ==
    ASSUME NEW db, NEW to, NEW call, InvoiceCall(db, call), db.made \in Nat, to.made \in Nat,
           to.made >= db.made,
           (call.op = "invoice" /\ call.at = "items" /\ call.id \in DOMAIN to.invoices) =>
              call.id \in DOMAIN db.invoices
                /\ \A rest : Rest(db.invoices[call.id], rest) => Rest(to.invoices[call.id], rest)
    PROVE  InvoiceCall(to, call)
<1>1. ASSUME call.op = "invoice", call.at = "items"
      PROVE  /\ call.id \in 1..to.made
             /\ call.id \in DOMAIN to.invoices => Rest(to.invoices[call.id], call.rest)
  BY <1>1 DEF InvoiceCall
<1> QED BY <1>1 DEF InvoiceCall

LEMMA NewIsMade ==
    ASSUME NEW number, NEW auto, NEW lines \in Orders \cup {<<>>}
    PROVE  LET inv == Invoice(number, auto, lines)
           IN  /\ Made(inv, lines) /\ Rest(inv, lines)
               /\ DOMAIN inv = {"number", "auto", "status", "lines", "items", "subtotal", "vat", "total"}
               /\ inv.number = number
<1> DEFINE inv == Invoice(number, auto, lines)
<1>1. /\ inv.number = number /\ inv.auto = auto /\ inv.lines = Len(lines) /\ inv.items = <<>>
      /\ DOMAIN inv = {"number", "auto", "status", "lines", "items", "subtotal", "vat", "total"}
  BY DEF Invoice
<1> HIDE DEF inv
<1>2. lines \in Lines /\ Len(lines) \in Nat BY OrderIs
<1>3. Len(inv.items) = 0 /\ inv.items = [k \in 1..0 |-> Item(lines[k])] BY <1>1
<1>4. inv = Invoice(inv.number, inv.auto, lines) BY <1>1 DEF inv
<1>5. Made(inv, lines) BY <1>1, <1>2, <1>3, <1>4 DEF Made
<1>6. Rest(inv, lines) BY <1>2, <1>3, <1>5 DEF Rest
<1> QED BY <1>1, <1>5, <1>6 DEF inv

LEMMA InvoicesInserted ==
    ASSUME InvoicesInv, NEW c \in Callers, InvoiceInsert(c)
    PROVE  InvoicesInv' /\ part' = part
<1> DEFINE old == calls[c]
           invoice == Invoice(old.number, old.auto, old.lines)
           new == rows.made + 1
           call == [op |-> "invoice", at |-> "items", id |-> new, rest |-> old.lines]
           refused == [op |-> "invoice", at |-> "answered",
                       status |-> InvoiceCreateResponses.Failed, auto |-> old.auto]
<1>1. old.op = "invoice" /\ old.at = "insert" BY DEF InvoiceInsert, At
<1>2. old.lines \in Orders /\ old.number \in Int /\ InvoicesTable(rows)
  BY <1>1 DEF InvoicesInv, InvoiceCall
<1>3. \A i \in DOMAIN rows.invoices : ~Making(old, i) BY <1>1 DEF Making
<1>4. /\ Made(invoice, old.lines) /\ Rest(invoice, old.lines) /\ invoice.number = old.number
      /\ DOMAIN invoice = {"number", "auto", "status", "lines", "items", "subtotal", "vat", "total"}
  BY <1>2, NewIsMade
<1>5. \/ CanCreateInvoice(rows, invoice) /\ rows' = CreateInvoice(rows, invoice) /\ Continue(c, call)
      \/ ~CanCreateInvoice(rows, invoice) /\ rows' = rows /\ Continue(c, refused)
  BY DEF InvoiceInsert, Store, Reads
<1>6. invoice.auto = old.auto BY DEF Invoice
<1>7. CASE ~CanCreateInvoice(rows, invoice) /\ rows' = rows /\ Continue(c, refused)
  <2>1. /\ DOMAIN refused = {"op", "at", "status", "auto"} /\ refused.op = "invoice"
        /\ refused.at = "answered" /\ refused.auto = old.auto
    OBVIOUS
  <2> HIDE DEF refused, invoice
  <2>2. InvoiceCall(rows, refused) BY <2>1 DEF InvoiceCall, InvoiceOps
  <2>3. ASSUME InvoiceAlone(rows, old) PROVE InvoiceAlone(rows, refused)
    <3>1. old.auto => \A i \in DOMAIN rows.invoices : rows.invoices[i].number < old.number
      BY <1>1, <2>3 DEF InvoiceAlone
    <3>2. PICK i \in DOMAIN rows.invoices : rows.invoices[i].number = invoice.number
      BY <1>7 DEF CanCreateInvoice
    <3>3. ~refused.auto BY <1>2, <1>4, <2>1, <3>1, <3>2
    <3>4. rows.deleted \subseteq {"draft"} BY <2>3 DEF InvoiceAlone
    <3> QED BY <2>1, <3>3, <3>4 DEF InvoiceAlone
  <2> HIDE DEF old
  <2>4. calls[c].at # "gone" /\ refused.at # "gone" /\ ~(refused.op = "invoice" /\ refused.at = "items")
    BY <1>1, <2>1 DEF old
  <2> QED BY <1>3, <1>7, <2>2, <2>3, <2>4, InvoicesRead DEF old
<1>8. CASE rows' = CreateInvoice(rows, invoice) /\ Continue(c, call)
  <2> DEFINE to == CreateInvoice(rows, invoice)
  <2>1. /\ DOMAIN to = DOMAIN rows /\ to.invoices = With(rows.invoices, new, invoice)
        /\ to.made = rows.made + 1 /\ to.deleted = rows.deleted /\ to.broken = rows.broken
    BY <1>2 DEF CreateInvoice, InvoicesTable
  <2>2. /\ DOMAIN call = {"op", "at", "id", "rest"} /\ call.op = "invoice" /\ call.at = "items"
        /\ call.id = new /\ call.rest = old.lines
    OBVIOUS
  <2>3. rows' = to BY <1>8
  <2>4. rows.made \in Nat /\ DOMAIN rows.invoices \subseteq 1..rows.made BY <1>2 DEF InvoicesTable
  <2> HIDE DEF to, call, invoice
  <2>5. /\ DOMAIN to.invoices = DOMAIN rows.invoices \cup {new} /\ to.invoices[new] = invoice
        /\ new \notin DOMAIN rows.invoices
        /\ \A i \in DOMAIN rows.invoices : to.invoices[i] = rows.invoices[i]
    <3>1. new \notin DOMAIN rows.invoices BY <2>4
    <3> HIDE DEF new
    <3>2. to.invoices = With(rows.invoices, new, invoice) BY <2>1
    <3> QED BY <3>1, <3>2 DEF With
  <2>6. InvoicesTable(to)
    <3>1. DOMAIN to.invoices \subseteq 1..to.made /\ to.made \in Nat BY <2>1, <2>4, <2>5
    <3> HIDE DEF new, old
    <3> QED BY <1>2, <1>4, <2>1, <2>5, <3>1 DEF InvoicesTable
  <2>7. InvoiceCall(to, call)
    BY <2>1, <2>2, <2>4, <1>4, <2>5 DEF InvoiceCall, InvoiceOps
  <2>8. ASSUME NEW d \in Callers \ {c}
        PROVE  /\ InvoiceCall(to, calls[d])
               /\ At(d, "invoice", "items") => calls[d].id # call.id
    <3>1. InvoiceCall(rows, calls[d]) BY DEF InvoicesInv
    <3>2. (calls[d].op = "invoice" /\ calls[d].at = "items") => calls[d].id \in 1..rows.made /\ calls[d].id # new
      BY <2>4, <3>1 DEF InvoiceCall
    <3>3. to.made \in Nat /\ to.made >= rows.made BY <2>1, <2>4
    <3>4. ASSUME calls[d].op = "invoice", calls[d].at = "items", calls[d].id \in DOMAIN to.invoices
          PROVE  calls[d].id \in DOMAIN rows.invoices
                   /\ to.invoices[calls[d].id] = rows.invoices[calls[d].id]
      BY <2>5, <3>2, <3>4
    <3>5. InvoiceCall(to, calls[d]) BY <2>4, <3>1, <3>3, <3>4, OtherCalls
    <3> QED BY <2>2, <3>2, <3>5 DEF At
  <2>9. ASSUME NEW i \in DOMAIN to.invoices
        PROVE  \/ Len(to.invoices[i].items) = to.invoices[i].lines
               \/ i \in to.broken \/ Making(call, i)
               \/ \E d \in Callers \ {c} : Making(calls[d], i)
    BY <2>2, <1>3, <2>1, <2>5 DEF Making, InvoicesInv
  <2>10. (\A d \in Callers \ {c} : calls[d] = Gone) => InvoiceAlone(to, call)
    <3>1. ASSUME InvoiceAlone(rows, old) PROVE InvoiceAlone(to, call)
      BY <2>1, <2>2, <3>1 DEF InvoiceAlone
    <3> QED BY <3>1 DEF InvoicesInv
  <2>11. Moved(c) /\ calls'[c] = call /\ part' = part
    BY <1>1, <2>2, <1>8, Moves DEF InvoicesInv
  <2>12. /\ InvoicesTable(rows') /\ InvoiceCall(rows', call)
         /\ \A d \in Callers \ {c} : InvoiceCall(rows', calls[d])
    BY <2>3, <2>6, <2>7, <2>8
  <2>13. \A d \in Callers \ {c} : At(d, "invoice", "items") => calls[d].id # call.id BY <2>8
  <2>14. \A i \in DOMAIN rows'.invoices :
              \/ Len(rows'.invoices[i].items) = rows'.invoices[i].lines
              \/ i \in rows'.broken
              \/ Making(call, i)
              \/ \E d \in Callers \ {c} : Making(calls[d], i)
    BY <2>3, <2>9
  <2>15. (\A d \in Callers \ {c} : calls[d] = Gone) => InvoiceAlone(rows', call) BY <2>3, <2>10
  <2> QED BY <2>11, <2>12, <2>13, <2>14, <2>15, InvoicesStepped
<1> QED BY <1>5, <1>7, <1>8

(* The next item of an order is inserted. *)
LEMMA ItemInserted ==
    ASSUME NEW inv, NEW to, NEW rest, Rest(inv, rest), rest # <<>>,
           to.number = inv.number, to.auto = inv.auto, to.lines = inv.lines,
           to.subtotal = inv.subtotal, to.vat = inv.vat, to.total = inv.total,
           to.items = Append(inv.items, Item(Head(rest)))
    PROVE  Rest(to, Tail(rest)) /\ \E lines \in Orders \cup {<<>>} : Made(to, lines)
<1>1. PICK lines \in Orders \cup {<<>>} :
         /\ Made(inv, lines) /\ rest \in Lines /\ Len(inv.items) + Len(rest) = Len(lines)
         /\ \A k \in 1..Len(rest) : rest[k] = lines[Len(inv.items) + k]
  BY DEF Rest
<1> DEFINE n == Len(inv.items)
           m == Len(rest)
           T == {Item(lines[k]) : k \in 1..(n + 1)}
           item == Item(Head(rest))
<1>2. Len(lines) \in Nat /\ n \in Nat /\ n <= Len(lines) /\ inv.items = [k \in 1..n |-> Item(lines[k])]
  BY <1>1, OrderIs DEF Made
<1>3. /\ m \in Nat /\ m > 0 /\ Head(rest) = rest[1] /\ Tail(rest) \in Lines /\ Len(Tail(rest)) = m - 1
      /\ \A k \in 1..(m - 1) : Tail(rest)[k] = rest[k + 1]
  <2> DEFINE L == [net : Int, type : STRING]
  <2>1. rest \in Seq(L) BY <1>1 DEF Lines
  <2> HIDE DEF L
  <2>2. /\ m \in Nat /\ m > 0 /\ Head(rest) = rest[1] /\ Tail(rest) \in Seq(L) /\ Len(Tail(rest)) = m - 1
        /\ \A k \in 1..(m - 1) : Tail(rest)[k] = rest[k + 1]
    BY <2>1, HeadTailProperties
  <2> QED BY <2>2 DEF L, Lines
<1>4. item = Item(lines[n + 1]) BY <1>1, <1>2, <1>3
<1>5. to.items = [k \in 1..(n + 1) |-> Item(lines[k])] /\ Len(to.items) = n + 1
  <2>1. inv.items \in Seq(T) /\ item \in T BY <1>2, <1>4
  <2> HIDE DEF T, item, n
  <2>2. to.items = Append(inv.items, item) BY DEF item
  <2>3. /\ Len(to.items) = n + 1 /\ to.items \in Seq(T)
        /\ to.items[n + 1] = item /\ \A k \in 1..n : to.items[k] = inv.items[k]
    BY <2>1, <2>2, AppendProperties DEF n
  <2>4. DOMAIN to.items = 1..(n + 1) /\ to.items = [k \in 1..(n + 1) |-> to.items[k]] BY <1>2, <2>3
  <2>5. \A k \in 1..(n + 1) : to.items[k] = Item(lines[k]) BY <1>2, <1>4, <2>3
  <2> QED BY <2>3, <2>4, <2>5
<1>6. Made(to, lines)
  BY <1>1, <1>2, <1>3, <1>5 DEF Made
<1>7. Len(to.items) + Len(Tail(rest)) = Len(lines) BY <1>1, <1>2, <1>3, <1>5
<1>8. \A k \in 1..Len(Tail(rest)) : Tail(rest)[k] = lines[Len(to.items) + k]
  BY <1>1, <1>2, <1>3, <1>5
<1> QED BY <1>3, <1>6, <1>7, <1>8 DEF Rest

LEMMA InvoiceItems ==
    ASSUME InvoicesInv, NEW c \in Callers, InvoiceItem(c)
    PROVE  InvoicesInv' /\ part' = part
<1> DEFINE old == calls[c]
           id == old.id
           inv == rows.invoices[id]
           to == CreateInvoiceItem(rows, id, Head(old.rest))
           call == [old EXCEPT !.rest = Tail(@)]
<1>1. /\ old.op = "invoice" /\ old.at = "items" /\ old.rest # <<>> /\ id \in DOMAIN rows.invoices
      /\ rows' = to /\ Continue(c, call)
  BY DEF InvoiceItem, At, Store
<1>2. InvoicesTable(rows) /\ InvoiceCall(rows, old) BY DEF InvoicesInv
<1>3. DOMAIN old = {"op", "at", "id", "rest"} /\ id \in 1..rows.made /\ Rest(inv, old.rest)
  BY <1>1, <1>2 DEF InvoiceCall
<1>4. /\ DOMAIN call = {"op", "at", "id", "rest"} /\ call.op = "invoice" /\ call.at = "items"
      /\ call.id = id /\ call.rest = Tail(old.rest)
  BY <1>1, <1>3
<1>5. /\ DOMAIN to = DOMAIN rows /\ DOMAIN to.invoices = DOMAIN rows.invoices
      /\ to.made = rows.made /\ to.deleted = rows.deleted /\ to.broken = rows.broken
      /\ to.invoices[id] = [inv EXCEPT !.items = Append(@, Item(Head(old.rest)))]
      /\ \A i \in DOMAIN rows.invoices \ {id} : to.invoices[i] = rows.invoices[i]
  BY <1>1, <1>2 DEF CreateInvoiceItem, InvoicesTable
<1>6. /\ DOMAIN to.invoices[id] = DOMAIN inv
      /\ to.invoices[id].number = inv.number /\ to.invoices[id].auto = inv.auto
      /\ to.invoices[id].lines = inv.lines /\ to.invoices[id].status = inv.status
      /\ to.invoices[id].subtotal = inv.subtotal /\ to.invoices[id].vat = inv.vat
      /\ to.invoices[id].total = inv.total
      /\ to.invoices[id].items = Append(inv.items, Item(Head(old.rest)))
  BY <1>1, <1>2, <1>5 DEF InvoicesTable
<1> HIDE DEF to, call
<1>7. /\ Rest(to.invoices[id], Tail(old.rest))
      /\ \E lines \in Orders \cup {<<>>} : Made(to.invoices[id], lines)
  BY <1>1, <1>3, <1>6, ItemInserted
<1>8. InvoicesTable(to)
  <2>1. ASSUME NEW i \in DOMAIN to.invoices
        PROVE  /\ DOMAIN to.invoices[i] = {"number", "auto", "status", "lines", "items",
                                           "subtotal", "vat", "total"}
               /\ to.invoices[i].number \in Int
               /\ \E lines \in Orders \cup {<<>>} : Made(to.invoices[i], lines)
    BY <1>1, <1>2, <1>6, <1>7, <1>5 DEF InvoicesTable
  <2> QED BY <1>2, <1>5, <2>1 DEF InvoicesTable
<1>9. InvoiceCall(to, call) BY <1>3, <1>4, <1>5, <1>7 DEF InvoiceCall, InvoiceOps
<1>10. ASSUME NEW d \in Callers \ {c}
       PROVE  /\ InvoiceCall(to, calls[d])
              /\ At(d, "invoice", "items") => calls[d].id # call.id
  <2>1. At(d, "invoice", "items") => calls[d].id # call.id BY <1>1, <1>4 DEF InvoicesInv, At
  <2>2. InvoiceCall(rows, calls[d]) BY DEF InvoicesInv
  <2>3. rows.made \in Nat /\ to.made \in Nat /\ to.made >= rows.made BY <1>2, <1>5 DEF InvoicesTable
  <2>4. ASSUME calls[d].op = "invoice", calls[d].at = "items", calls[d].id \in DOMAIN to.invoices
        PROVE  calls[d].id \in DOMAIN rows.invoices
                 /\ to.invoices[calls[d].id] = rows.invoices[calls[d].id]
    BY <1>4, <1>5, <2>1, <2>4 DEF At
  <2>5. InvoiceCall(to, calls[d]) BY <2>2, <2>3, <2>4, OtherCalls
  <2> QED BY <2>1, <2>5
<1>11. ASSUME NEW i \in DOMAIN to.invoices
       PROVE  \/ Len(to.invoices[i].items) = to.invoices[i].lines
              \/ i \in to.broken \/ Making(call, i)
              \/ \E d \in Callers \ {c} : Making(calls[d], i)
  <2>1. CASE i = id BY <1>4, <2>1 DEF Making
  <2>2. CASE i # id
    BY <1>5, <2>2 DEF Making, InvoicesInv
  <2> QED BY <2>1, <2>2
<1>12. (\A d \in Callers \ {c} : calls[d] = Gone) => InvoiceAlone(to, call)
  <2>1. ASSUME InvoiceAlone(rows, old) PROVE InvoiceAlone(to, call)
    BY <1>4, <1>5, <2>1 DEF InvoiceAlone
  <2> QED BY <2>1 DEF InvoicesInv
<1>13. Moved(c) /\ calls'[c] = call /\ part' = part
  BY <1>1, <1>4, Moves DEF InvoicesInv
<1>14. /\ InvoicesTable(rows') /\ InvoiceCall(rows', call)
       /\ \A d \in Callers \ {c} : InvoiceCall(rows', calls[d])
       /\ (\A d \in Callers \ {c} : calls[d] = Gone) => InvoiceAlone(rows', call)
  BY <1>1, <1>8, <1>9, <1>10, <1>12
<1>15. \A d \in Callers \ {c} : At(d, "invoice", "items") => calls[d].id # call.id BY <1>10
<1>16. \A i \in DOMAIN rows'.invoices :
           \/ Len(rows'.invoices[i].items) = rows'.invoices[i].lines
           \/ i \in rows'.broken
           \/ Making(call, i)
           \/ \E d \in Callers \ {c} : Making(calls[d], i)
  BY <1>1, <1>11
<1> QED BY <1>13, <1>14, <1>15, <1>16, InvoicesStepped

(* A table that only names more broken invoices, has other statuses or fewer
   invoices. *)
LEMMA FewerInvoices ==
    ASSUME NEW db, NEW to, InvoicesTable(db), DOMAIN to = DOMAIN db, to.made = db.made,
           DOMAIN to.invoices \subseteq DOMAIN db.invoices,
           \A i \in DOMAIN to.invoices :
              LET a == db.invoices[i]
                  b == to.invoices[i]
              IN  /\ DOMAIN b = DOMAIN a /\ b.number = a.number /\ b.auto = a.auto
                  /\ b.lines = a.lines /\ b.items = a.items
                  /\ b.subtotal = a.subtotal /\ b.vat = a.vat /\ b.total = a.total
    PROVE  /\ InvoicesTable(to)
           /\ \A call : InvoiceCall(db, call) => InvoiceCall(to, call)
<1>1. \A i \in DOMAIN to.invoices : \A lines :
        Made(db.invoices[i], lines) => Made(to.invoices[i], lines)
  BY SameMade
<1>2. \A i \in DOMAIN to.invoices : \A rest :
        Rest(db.invoices[i], rest) => Rest(to.invoices[i], rest)
  BY SameRest
<1>3. InvoicesTable(to)
  <2>1. \A i \in DOMAIN to.invoices :
          /\ DOMAIN to.invoices[i] = {"number", "auto", "status", "lines", "items",
                                      "subtotal", "vat", "total"}
          /\ to.invoices[i].number \in Int
          /\ \E lines \in Orders \cup {<<>>} : Made(to.invoices[i], lines)
    BY <1>1 DEF InvoicesTable
  <2> QED BY <2>1 DEF InvoicesTable
<1>4. ASSUME NEW call, InvoiceCall(db, call) PROVE InvoiceCall(to, call)
  BY <1>2, <1>4, OtherCalls DEF InvoicesTable
<1> QED BY <1>3, <1>4

LEMMA InvoicesChanged ==
    ASSUME InvoicesInv, NEW c \in Callers, NEW op \in InvoiceOps, NEW status, calls[c].at # "gone",
           \/ AnswerAtOnce(c, op, status)
           \/ Answer(c, status) /\ calls[c].op = op,
           DOMAIN rows' = DOMAIN rows, rows'.made = rows.made, rows.broken \subseteq rows'.broken,
           DOMAIN rows'.invoices \subseteq DOMAIN rows.invoices,
           \A i \in DOMAIN rows'.invoices :
              LET a == rows.invoices[i]
                  b == rows'.invoices[i]
              IN  /\ DOMAIN b = DOMAIN a /\ b.number = a.number /\ b.auto = a.auto
                  /\ b.lines = a.lines /\ b.items = a.items
                  /\ b.subtotal = a.subtotal /\ b.vat = a.vat /\ b.total = a.total,
           \A i \in DOMAIN rows'.invoices : Making(calls[c], i) => i \in rows'.broken,
           InvoiceAlone(rows, calls[c]) => rows'.deleted \subseteq {"draft"}
    PROVE  InvoicesInv' /\ part' = part
<1> DEFINE call == Answered(op, status)
<1>1. /\ DOMAIN call = {"op", "at", "status"} /\ call.op = op /\ call.at = "answered"
      /\ Begin(c, call) \/ Continue(c, call)
  BY DEF AnswerAtOnce, Answer, Answered
<1>2. InvoicesTable(rows) /\ \A d \in Callers : InvoiceCall(rows, calls[d]) BY DEF InvoicesInv
<1>3. InvoicesTable(rows') /\ \A any : InvoiceCall(rows, any) => InvoiceCall(rows', any)
  BY <1>2, FewerInvoices
<1> HIDE DEF call
<1>4. InvoiceCall(rows', call) BY <1>1 DEF InvoiceCall
<1>5. Moved(c) /\ calls'[c] = call /\ part' = part
  BY <1>1, Moves DEF InvoicesInv
<1>6. ASSUME NEW i \in DOMAIN rows'.invoices
      PROVE  \/ Len(rows'.invoices[i].items) = rows'.invoices[i].lines
             \/ i \in rows'.broken
             \/ \E d \in Callers \ {c} : Making(calls[d], i)
  BY DEF InvoicesInv
<1>7. (\A d \in Callers \ {c} : calls[d] = Gone) => InvoiceAlone(rows', call)
  <2>1. ASSUME InvoiceAlone(rows, calls[c]) PROVE InvoiceAlone(rows', call)
    BY <1>1, <2>1 DEF InvoiceAlone
  <2> QED BY <2>1 DEF InvoicesInv
<1>8. /\ \A d \in Callers \ {c} : InvoiceCall(rows', calls[d])
      /\ ~(call.op = "invoice" /\ call.at = "items")
  BY <1>1, <1>2, <1>3
<1> QED BY <1>3, <1>4, <1>5, <1>6, <1>7, <1>8, InvoicesStepped

LEMMA InvoiceFails ==
    ASSUME InvoicesInv, NEW c \in Callers, InvoiceItemFails(c)
    PROVE  InvoicesInv' /\ part' = part
<1>1. /\ calls[c].op = "invoice" /\ calls[c].at = "items"
      /\ rows' = [rows EXCEPT !.broken = @ \cup {calls[c].id}]
      /\ Answer(c, InvoiceCreateResponses.Failed)
  BY DEF InvoiceItemFails, At, Store
<1>2. DOMAIN rows = {"invoices", "made", "deleted", "broken"} BY DEF InvoicesInv, InvoicesTable
<1>3. /\ DOMAIN rows' = DOMAIN rows /\ rows'.made = rows.made /\ rows'.invoices = rows.invoices
      /\ rows'.broken = rows.broken \cup {calls[c].id} /\ rows'.deleted = rows.deleted
  BY <1>1, <1>2
<1>4. \A i : Making(calls[c], i) => i \in rows'.broken BY <1>3 DEF Making
<1>5. InvoiceAlone(rows, calls[c]) => rows'.deleted \subseteq {"draft"} BY <1>3 DEF InvoiceAlone
<1>6. "invoice" \in InvoiceOps BY DEF InvoiceOps
<1> QED BY <1>1, <1>3, <1>4, <1>5, <1>6, InvoicesChanged

LEMMA InvoiceFinished ==
    ASSUME InvoicesInv, NEW c \in Callers, InvoiceCreated(c)
    PROVE  InvoicesInv' /\ part' = part
<1>1. /\ calls[c].op = "invoice" /\ calls[c].at = "items" /\ calls[c].rest = <<>>
      /\ rows' = rows /\ Answer(c, InvoiceCreateResponses.Done)
  BY DEF InvoiceCreated, At, Reads
<1>2. ASSUME NEW i \in DOMAIN rows.invoices, Making(calls[c], i)
      PROVE  Len(rows.invoices[i].items) = rows.invoices[i].lines
  <2>1. Rest(rows.invoices[i], <<>>) BY <1>1, <1>2 DEF InvoicesInv, InvoiceCall, Making
  <2>2. PICK lines \in Orders \cup {<<>>} :
          Made(rows.invoices[i], lines) /\ Len(rows.invoices[i].items) + Len(<<>>) = Len(lines)
    BY <2>1 DEF Rest
  <2>3. Len(lines) \in Nat /\ Len(rows.invoices[i].items) \in 0..Len(lines)
    BY <2>2, OrderIs DEF Made
  <2> QED BY <2>2, <2>3 DEF Made
<1>3. "invoice" \in InvoiceOps BY DEF InvoiceOps
<1> QED BY <1>1, <1>2, <1>3, InvoicesAnswered

LEMMA InvoiceShown ==
    ASSUME InvoicesInv, NEW c \in Callers, InvoiceGet(c)
    PROVE  InvoicesInv' /\ part' = part
<1>1. PICK id \in 1..rows.made : IF GetInvoiceByID(rows, id) = {}
         THEN AnswerAtOnce(c, "get", InvoiceGetResponses.NotFound)
         ELSE Begin(c, [op |-> "get", at |-> "items", id |-> id, lines |-> rows.invoices[id].lines])
  BY DEF InvoiceGet
<1>2. calls[c].at = "answered" /\ rows' = rows BY DEF InvoiceGet, Free, Reads
<1>3. \A i \in DOMAIN rows.invoices : ~Making(calls[c], i) BY <1>2 DEF Making
<1>4. CASE GetInvoiceByID(rows, id) = {}
  BY <1>1, <1>2, <1>3, <1>4, InvoicesAnswered DEF InvoiceOps
<1>5. CASE GetInvoiceByID(rows, id) # {}
  <2> DEFINE call == [op |-> "get", at |-> "items", id |-> id, lines |-> rows.invoices[id].lines]
  <2>1. /\ DOMAIN call = {"op", "at", "id", "lines"} /\ call.op = "get" /\ call.at = "items"
        /\ call.id = id /\ call.lines = rows.invoices[id].lines
    OBVIOUS
  <2>2. id \in DOMAIN rows.invoices /\ Begin(c, call) BY <1>1, <1>5 DEF GetInvoiceByID
  <2> HIDE DEF call
  <2>3. InvoiceCall(rows, call) BY <2>1 DEF InvoiceCall, InvoiceOps
  <2>4. InvoiceAlone(rows, calls[c]) => InvoiceAlone(rows, call) BY <2>1, <2>2 DEF InvoiceAlone
  <2>5. calls[c].at # "gone" /\ call.at # "gone" /\ ~(call.op = "invoice" /\ call.at = "items")
    BY <1>2, <2>1
  <2> QED BY <1>2, <1>3, <2>2, <2>3, <2>4, <2>5, InvoicesRead
<1> QED BY <1>4, <1>5

(* Alone, and with nothing else being made, an invoice that is not broken has
   its items. *)
LEMMA InvoiceItemsShown ==
    ASSUME InvoicesInv, NEW c \in Callers, InvoiceGetItems(c)
    PROVE  InvoicesInv' /\ part' = part
<1> DEFINE old == calls[c]
           shown == Len(ListInvoiceItems(rows, old.id))
           call == [op |-> "get", at |-> "answered", id |-> old.id, lines |-> old.lines,
                    items |-> shown]
<1>1. /\ old.op = "get" /\ old.at = "items" /\ rows' = rows /\ Continue(c, call)
  BY DEF InvoiceGetItems, At, Reads
<1>2. /\ call.op = "get" /\ call.at = "answered" /\ call.items = shown
      /\ call.id = old.id /\ call.lines = old.lines
  OBVIOUS
<1>3. \A i \in DOMAIN rows.invoices : ~Making(old, i) BY <1>1 DEF Making
<1>4. InvoiceCall(rows, call)
  <2> HIDE DEF call
  <2> QED BY <1>2 DEF InvoiceCall, InvoiceOps
<1>5. ASSUME \A d \in Callers \ {c} : calls[d] = Gone PROVE InvoiceAlone(rows, call)
  <2>1. InvoiceAlone(rows, old) BY <1>5 DEF InvoicesInv
  <2>2. /\ old.id \in DOMAIN rows.invoices
        /\ old.lines = rows.invoices[old.id].lines /\ rows.deleted \subseteq {"draft"}
    BY <1>1, <2>1 DEF InvoiceAlone
  <2>4. ASSUME old.id \notin rows.broken PROVE shown = old.lines
    BY <1>1, <1>5, <2>2, <2>4 DEF Making, Gone, InvoicesInv, ListInvoiceItems
  <2> HIDE DEF call, shown
  <2> QED BY <1>2, <2>2, <2>4 DEF InvoiceAlone
<1>6. calls[c].at # "gone" /\ call.at # "gone" /\ ~(call.op = "invoice" /\ call.at = "items")
  BY <1>1, <1>2
<1> HIDE DEF call
<1> QED BY <1>1, <1>3, <1>4, <1>5, <1>6, InvoicesRead

LEMMA InvoicesListed ==
    ASSUME InvoicesInv, NEW c \in Callers, InvoiceList(c) \/ InvoiceListCounts(c)
    PROVE  InvoicesInv' /\ part' = part
<1>1. ASSUME NEW call, call.op = "list", call.at # "gone", calls[c].at # "gone",
             ~(calls[c].op = "invoice" /\ calls[c].at = "items"),
             Begin(c, call) \/ Continue(c, call), rows' = rows PROVE  InvoicesInv' /\ part' = part
  BY <1>1, InvoicesRead DEF InvoiceCall, InvoiceOps, InvoiceAlone, Making
<1>2. CASE InvoiceList(c)
  <2>1. PICK status : Listed(c, "list", status, ListInvoicesByCompany(rows, status))
    BY <1>2 DEF InvoiceList
  <2> DEFINE call == [op |-> "list", at |-> "count", filter |-> status,
                      page |-> ListInvoicesByCompany(rows, status)]
  <2>2. Begin(c, call) /\ call.op = "list" /\ call.at # "gone" BY <2>1 DEF Listed
  <2>3. calls[c].at = "answered" /\ rows' = rows BY <1>2 DEF InvoiceList, Free, Reads
  <2> HIDE DEF call
  <2> QED BY <1>1, <2>2, <2>3
<1>3. CASE InvoiceListCounts(c)
  <2> DEFINE call == [op |-> "list", at |-> "answered", page |-> calls[c].page,
                      total |-> CountInvoicesByCompany(rows, calls[c].filter)]
  <2>1. Continue(c, call) /\ call.op = "list" /\ call.at # "gone"
    BY <1>3 DEF InvoiceListCounts, Counted
  <2>2. calls[c].op = "list" /\ calls[c].at = "count" /\ rows' = rows
    BY <1>3 DEF InvoiceListCounts, Counted, At, Reads
  <2> HIDE DEF call
  <2> QED BY <1>1, <2>1, <2>2
<1> QED BY <1>2, <1>3

LEMMA InvoiceStatusWritten ==
    ASSUME InvoicesInv, NEW c \in Callers, InvoiceUpdateStatus(c)
    PROVE  InvoicesInv' /\ part' = part
<1>1. PICK id \in 1..rows.made, status \in InvoiceStatuses :
         /\ rows' = UpdateInvoiceStatus(rows, id, status)
         /\ AnswerAtOnce(c, "status", InvoiceStatusResponses.Done)
  BY DEF InvoiceUpdateStatus, Store
<1>2. calls[c].at = "answered" /\ InvoicesTable(rows) BY DEF InvoiceUpdateStatus, Free, InvoicesInv
<1>3. \A i : ~Making(calls[c], i) BY <1>2 DEF Making
<1>4. "status" \in InvoiceOps BY DEF InvoiceOps
<1>5. CASE id \in DOMAIN rows.invoices
  <2> DEFINE to == UpdateInvoiceStatus(rows, id, status)
  <2>1. /\ DOMAIN to = DOMAIN rows /\ to.made = rows.made /\ to.broken = rows.broken
        /\ to.deleted = rows.deleted /\ DOMAIN to.invoices = DOMAIN rows.invoices
        /\ to.invoices = [rows.invoices EXCEPT ![id].status = status]
    BY <1>2, <1>5 DEF UpdateInvoiceStatus, InvoicesTable
  <2> HIDE DEF to
  <2>2. ASSUME NEW i \in DOMAIN to.invoices
        PROVE  LET a == rows.invoices[i]
                   b == to.invoices[i]
               IN  /\ DOMAIN b = DOMAIN a /\ b.number = a.number /\ b.auto = a.auto
                   /\ b.lines = a.lines /\ b.items = a.items
                   /\ b.subtotal = a.subtotal /\ b.vat = a.vat /\ b.total = a.total
    <3>1. CASE i = id
      BY <1>5, <2>1, <3>1, <1>2 DEF InvoicesTable
    <3>2. CASE i # id BY <2>1, <3>2
    <3> QED BY <3>1, <3>2
  <2>3. InvoiceAlone(rows, calls[c]) => to.deleted \subseteq {"draft"} BY <2>1 DEF InvoiceAlone
  <2>4. rows' = to BY <1>1 DEF to
  <2>5. \A i \in DOMAIN rows'.invoices :
           LET a == rows.invoices[i]
               b == rows'.invoices[i]
           IN  /\ DOMAIN b = DOMAIN a /\ b.number = a.number /\ b.auto = a.auto
               /\ b.lines = a.lines /\ b.items = a.items
               /\ b.subtotal = a.subtotal /\ b.vat = a.vat /\ b.total = a.total
    BY <2>2, <2>4
  <2>6. /\ DOMAIN rows' = DOMAIN rows /\ rows'.made = rows.made /\ rows.broken \subseteq rows'.broken
        /\ DOMAIN rows'.invoices \subseteq DOMAIN rows.invoices
        /\ InvoiceAlone(rows, calls[c]) => rows'.deleted \subseteq {"draft"}
    BY <2>1, <2>3, <2>4
  <2>7. calls[c].at # "gone" /\ AnswerAtOnce(c, "status", InvoiceStatusResponses.Done) BY <1>1, <1>2
  <2> QED BY <1>3, <1>4, <2>5, <2>6, <2>7, InvoicesChanged
<1>6. CASE id \notin DOMAIN rows.invoices
  BY <1>1, <1>6, <1>2, <1>3, <1>4, InvoicesAnswered DEF UpdateInvoiceStatus
<1> QED BY <1>5, <1>6

LEMMA InvoiceDeleteBegins ==
    ASSUME InvoicesInv, NEW c \in Callers, InvoiceDelete(c)
    PROVE  InvoicesInv' /\ part' = part
<1>1. PICK id \in 1..rows.made : IF GetInvoiceByID(rows, id) = {}
         THEN AnswerAtOnce(c, "delete", InvoiceDeleteResponses.Failed)
         ELSE IF rows.invoices[id].status # "draft"
         THEN AnswerAtOnce(c, "delete", InvoiceDeleteResponses.NotDraft)
         ELSE Begin(c, [op |-> "delete", at |-> "delete", id |-> id])
  BY DEF InvoiceDelete
<1>2. calls[c].at = "answered" /\ rows' = rows BY DEF InvoiceDelete, Free, Reads
<1>3. \A i \in DOMAIN rows.invoices : ~Making(calls[c], i) BY <1>2 DEF Making
<1>4. "delete" \in InvoiceOps BY DEF InvoiceOps
<1>5. CASE AnswerAtOnce(c, "delete", InvoiceDeleteResponses.Failed)
           \/ AnswerAtOnce(c, "delete", InvoiceDeleteResponses.NotDraft)
  BY <1>2, <1>3, <1>4, <1>5, InvoicesAnswered
<1>6. CASE /\ GetInvoiceByID(rows, id) # {} /\ rows.invoices[id].status = "draft"
           /\ Begin(c, [op |-> "delete", at |-> "delete", id |-> id])
  <2> DEFINE call == [op |-> "delete", at |-> "delete", id |-> id]
  <2>1. call.op = "delete" /\ call.at = "delete" /\ call.id = id /\ Begin(c, call) BY <1>6
  <2> HIDE DEF call
  <2>2. InvoiceCall(rows, call) BY <1>4, <2>1 DEF InvoiceCall
  <2>3. InvoiceAlone(rows, calls[c]) => InvoiceAlone(rows, call) BY <1>6, <2>1 DEF InvoiceAlone
  <2>4. calls[c].at # "gone" /\ call.at # "gone" /\ ~(call.op = "invoice" /\ call.at = "items")
    BY <1>2, <2>1
  <2> QED BY <1>2, <1>3, <2>1, <2>2, <2>3, <2>4, InvoicesRead
<1> QED BY <1>1, <1>5, <1>6

LEMMA InvoiceGoes ==
    ASSUME InvoicesInv, NEW c \in Callers, InvoiceDeletes(c)
    PROVE  InvoicesInv' /\ part' = part
<1> DEFINE id == calls[c].id
           to == DeleteInvoice(rows, id)
<1>1. /\ calls[c].op = "delete" /\ calls[c].at = "delete" /\ rows' = to
      /\ Answer(c, InvoiceDeleteResponses.Done)
  BY DEF InvoiceDeletes, At, Store
<1>2. InvoicesTable(rows) BY DEF InvoicesInv
<1>3. /\ DOMAIN to = DOMAIN rows /\ to.made = rows.made /\ to.broken = rows.broken
      /\ to.deleted = rows.deleted \cup {rows.invoices[i].status : i \in GetInvoiceByID(rows, id)}
      /\ to.invoices = Without(rows.invoices, {id})
  BY <1>2 DEF DeleteInvoice, InvoicesTable
<1> HIDE DEF to
<1>4. /\ DOMAIN to.invoices \subseteq DOMAIN rows.invoices
      /\ \A i \in DOMAIN to.invoices : to.invoices[i] = rows.invoices[i]
  BY <1>3 DEF Without, Restrict
<1>5. InvoiceAlone(rows, calls[c]) => to.deleted \subseteq {"draft"}
  <2>1. ASSUME InvoiceAlone(rows, calls[c]) PROVE to.deleted \subseteq {"draft"}
    BY <1>1, <2>1, <1>3 DEF InvoiceAlone, GetInvoiceByID
  <2> QED BY <2>1
<1>6. \A i : ~Making(calls[c], i) BY <1>1 DEF Making
<1>7. "delete" \in InvoiceOps BY DEF InvoiceOps
<1>8. /\ \A i \in DOMAIN to.invoices :
           LET a == rows.invoices[i]
               b == to.invoices[i]
           IN  /\ DOMAIN b = DOMAIN a /\ b.number = a.number /\ b.auto = a.auto
               /\ b.lines = a.lines /\ b.items = a.items
               /\ b.subtotal = a.subtotal /\ b.vat = a.vat /\ b.total = a.total
      /\ rows.broken \subseteq to.broken
  BY <1>3, <1>4
<1> QED BY <1>1, <1>3, <1>4, <1>5, <1>6, <1>7, <1>8, InvoicesChanged

LEMMA InvoicesKept ==
    ASSUME InvoicesInv, part = "invoices", PurchasingNext
    PROVE  InvoicesInv' /\ part' = part
BY InvoicesActions, InvoicesCreated, InvoicesInserted, InvoiceItems, InvoiceFails, InvoiceFinished,
   InvoiceShown, InvoiceItemsShown, InvoicesListed, InvoiceStatusWritten, InvoiceDeleteBegins,
   InvoiceGoes

(* What the invariant says of what is promised. *)
LEMMA InvoicesTold ==
    ASSUME InvoicesInv
    PROVE  InvoicesAddUp /\ InvoicesReadWhole /\ NumbersAndDeletionsAlone
<1>1. InvoicesAddUp
  <2> SUFFICES ASSUME NEW i \in DOMAIN rows.invoices
               PROVE  LET inv == rows.invoices[i]
                          sums == SumLines([k \in DOMAIN inv.items |-> inv.items[k].amount])
                          vat == SumLines([k \in DOMAIN inv.items |-> inv.items[k].vat])
                          Near(a, b) == 2 * (a - b) \in -(inv.lines + 1)..(inv.lines + 1)
                      IN  IF Len(inv.items) = inv.lines
                          THEN /\ Near(inv.subtotal, sums) /\ Near(inv.vat, vat)
                               /\ inv.total - inv.subtotal - inv.vat \in -1..1
                          ELSE i \in rows.broken \/ \E c \in Waiting("invoice", "items") : calls[c].id = i
    BY DEF InvoicesAddUp
  <2>1. PICK lines \in Orders \cup {<<>>} : Made(rows.invoices[i], lines)
    BY DEF InvoicesInv, InvoicesTable
  <2>2. CASE Len(rows.invoices[i].items) = rows.invoices[i].lines BY <2>1, <2>2, WholeAddsUp
  <2>3. CASE Len(rows.invoices[i].items) # rows.invoices[i].lines
    BY <2>3 DEF InvoicesInv, Making, Waiting, At
  <2> QED BY <2>2, <2>3
<1>2. ASSUME Alone
      PROVE  /\ rows.deleted \subseteq {"draft"}
             /\ \A c \in Callers : calls[c] = Gone \/ InvoiceAlone(rows, calls[c])
  <2>1. PICK c \in Callers : \A d \in Callers \ {c} : calls[d] = Gone BY <1>2 DEF Alone
  <2>2. InvoiceAlone(rows, calls[c]) BY <2>1 DEF InvoicesInv
  <2> QED BY <2>1, <2>2 DEF InvoiceAlone
<1>3. Gone.op = "none" BY DEF Gone
<1>4. InvoicesReadWhole BY <1>2, <1>3 DEF InvoicesReadWhole, InvoiceAlone
<1>5. NumbersAndDeletionsAlone BY <1>2, <1>3 DEF NumbersAndDeletionsAlone, InvoiceAlone
<1> QED BY <1>1, <1>4, <1>5

LEMMA InvoicesStarted ==
    ASSUME part = "invoices", PurchasingInit
    PROVE  InvoicesInv
<1>1. InvoicesStart(rows) /\ calls \in [Callers -> {NoCall, Gone}]
  BY DEF PurchasingInit, RequestsInit
<1>2. ASSUME NEW i \in DOMAIN rows.invoices
      PROVE  LET inv == rows.invoices[i]
             IN  /\ DOMAIN inv = {"number", "auto", "status", "lines", "items", "subtotal", "vat", "total"}
                 /\ inv.number \in Int /\ Len(inv.items) = inv.lines
                 /\ \E lines \in Orders \cup {<<>>} : Made(inv, lines)
  <2> DEFINE inv == rows.invoices[i]
  <2>1. inv.number \in Nat BY <1>1 DEF InvoicesStart
  <2>2. PICK lines \in Orders \cup {<<>>} : inv = [Invoice(inv.number, inv.auto, lines) EXCEPT
                    !.status = inv.status, !.items = [k \in DOMAIN lines |-> Item(lines[k])]]
    BY <1>1 DEF InvoicesStart
  <2> DEFINE new == Invoice(inv.number, inv.auto, lines)
             fields == {"number", "auto", "status", "lines", "items", "subtotal", "vat", "total"}
  <2>3. DOMAIN new = fields /\ new.lines = Len(lines) BY DEF Invoice
  <2>4. Len(lines) \in Nat /\ DOMAIN lines = 1..Len(lines) BY OrderIs
  <2> HIDE DEF new, inv
  <2>5. /\ DOMAIN inv = fields /\ inv.lines = Len(lines)
        /\ inv.subtotal = new.subtotal /\ inv.vat = new.vat /\ inv.total = new.total
        /\ inv.items = [k \in DOMAIN lines |-> Item(lines[k])]
    BY <2>2, <2>3 DEF new
  <2>6. Len(inv.items) = Len(lines)
    <3> DEFINE T == {Item(lines[k]) : k \in 1..Len(lines)}
    <3>1. inv.items \in [1..Len(lines) -> T] BY <2>4, <2>5
    <3> QED BY <2>4, <3>1
  <2>7. Made(inv, lines)
    BY <2>4, <2>6, <2>5 DEF Made, new
  <2> QED BY <2>1, <2>5, <2>6, <2>7 DEF inv
<1>3. InvoicesTable(rows) BY <1>1, <1>2 DEF InvoicesTable, InvoicesStart
<1>4. ASSUME NEW c \in Callers
      PROVE  /\ InvoiceCall(rows, calls[c]) /\ InvoiceAlone(rows, calls[c])
             /\ ~At(c, "invoice", "items")
  <2>1. calls[c].op = "none" BY <1>1 DEF NoCall, Gone
  <2>2. rows.deleted = {} BY <1>1 DEF InvoicesStart
  <2> QED BY <2>1, <2>2 DEF InvoiceCall, InvoiceOps, InvoiceAlone, At
<1> QED BY <1>1, <1>2, <1>3, <1>4 DEF InvoicesInv
----
(* Requests of vendors. *)
LEMMA VendorsActions ==
    ASSUME VendorsInv, part = "vendors", PurchasingNext
    PROVE  \E c \in Callers :
             \/ VendorCreate(c) \/ VendorInsert(c) \/ VendorUpdate(c) \/ VendorUpdateWrites(c)
             \/ VendorUpdateRereads(c) \/ VendorDelete(c) \/ VendorDeletes(c)
             \/ VendorList(c) \/ VendorListCounts(c)
             \/ CertificateCreate(c) \/ CertificateDownload(c) \/ CertificateVendor(c)
             \/ GetSAWT(c) \/ GetSAWTCounts(c)
             \/ Classify(c) \/ ClassifyLooksUp(c) \/ ClassifyChecks(c) \/ ClassifyInserts(c)
             \/ ClassifyFetches(c) \/ ClassifyDecides(c)
<1>1. PICK c \in Callers :
        \/ InvoiceCreate(c) \/ InvoiceInsert(c) \/ InvoiceItem(c) \/ InvoiceItemFails(c)
        \/ InvoiceCreated(c) \/ InvoiceGet(c) \/ InvoiceGetItems(c)
        \/ InvoiceList(c) \/ InvoiceListCounts(c) \/ InvoiceUpdateStatus(c)
        \/ InvoiceDelete(c) \/ InvoiceDeletes(c)
        \/ VendorCreate(c) \/ VendorInsert(c) \/ VendorUpdate(c) \/ VendorUpdateWrites(c)
        \/ VendorUpdateRereads(c) \/ VendorDelete(c) \/ VendorDeletes(c)
        \/ VendorList(c) \/ VendorListCounts(c)
        \/ CertificateCreate(c) \/ CertificateDownload(c) \/ CertificateVendor(c)
        \/ GetSAWT(c) \/ GetSAWTCounts(c)
        \/ Classify(c) \/ ClassifyLooksUp(c) \/ ClassifyChecks(c) \/ ClassifyInserts(c)
        \/ ClassifyFetches(c) \/ ClassifyDecides(c)
  BY DEF PurchasingNext, Serving
<1>2. calls[c].op \in VendorOps BY DEF VendorsInv, VendorCall
<1>3. ~Free({"invoices"}, c) BY DEF Free
<1>4. calls[c].op \notin {"invoice", "get", "list", "delete"} BY <1>2 DEF VendorOps
<1>5. ~(InvoiceCreate(c) \/ InvoiceGet(c) \/ InvoiceList(c) \/ InvoiceUpdateStatus(c)
          \/ InvoiceDelete(c))
  BY <1>3 DEF InvoiceCreate, InvoiceGet, InvoiceList, InvoiceUpdateStatus, InvoiceDelete
<1>6. ~(InvoiceInsert(c) \/ InvoiceItem(c) \/ InvoiceItemFails(c) \/ InvoiceCreated(c)
          \/ InvoiceGetItems(c) \/ InvoiceListCounts(c) \/ InvoiceDeletes(c))
  BY <1>4 DEF InvoiceInsert, InvoiceItem, InvoiceItemFails, InvoiceCreated, InvoiceGetItems,
     InvoiceListCounts, InvoiceDeletes, At
<1> QED BY <1>1, <1>5, <1>6

(* Certificates stay, and so do the vendors they name. *)
Grows(db, to) ==
    \A k \in DOMAIN db.certificates :
        k \in DOMAIN to.certificates /\ to.certificates[k].vendor = db.certificates[k].vendor

LEMMA VendorsStepped ==
    ASSUME VendorsInv, NEW c \in Callers, Moved(c), NEW call, calls'[c] = call,
           VendorsTable(rows'), Grows(rows, rows'), VendorCall(rows', call),
           (\A d \in Callers \ {c} : calls[d] = Gone) =>
              (VendorAlone(rows, calls[c]) => VendorAlone(rows', call))
    PROVE  VendorsInv'
<1>1. /\ DOMAIN calls' = Callers /\ calls'[c] = call
      /\ \A d \in Callers \ {c} : calls'[d] = calls[d]
  BY DEF Moved
<1>2. ASSUME NEW d \in Callers PROVE VendorCall(rows', calls'[d])
  BY <1>1 DEF VendorsInv, VendorCall, Grows
<1>3. ASSUME NEW d \in Callers, \A e \in Callers \ {d} : calls'[e] = Gone
      PROVE  VendorAlone(rows', calls'[d])
  BY <1>3, <1>1 DEF Gone, Moved, VendorsInv
<1> QED BY <1>1, <1>2, <1>3 DEF VendorsInv

(* A step that only reads. *)
LEMMA VendorsRead ==
    ASSUME VendorsInv, NEW c \in Callers, NEW call, calls[c].at # "gone", call.at # "gone",
           Begin(c, call) \/ Continue(c, call), rows' = rows, VendorCall(rows, call),
           (\A d \in Callers \ {c} : calls[d] = Gone) =>
              (VendorAlone(rows, calls[c]) => VendorAlone(rows, call))
    PROVE  VendorsInv' /\ part' = part
<1>1. Moved(c) /\ calls'[c] = call /\ part' = part BY Moves DEF VendorsInv
<1>2. VendorsTable(rows) /\ Grows(rows, rows) BY DEF VendorsInv, Grows
<1> QED BY <1>1, <1>2, VendorsStepped

(* A request that asks for nothing of its own. *)
Simple(call) ==
    /\ call.op \in VendorOps \ {"sawt", "classify"}
    /\ call.op = "vendor" => call.at # "insert"
    /\ call.op = "download" => call.at # "vendor" /\ "printed" \notin DOMAIN call

LEMMA SimpleIs ==
    ASSUME NEW db, NEW old, NEW call, Simple(call)
    PROVE  /\ VendorCall(db, call)
           /\ VendorAlone(db, old) => VendorAlone(db, call)
           /\ (~db.unsure => Distinct(db)) => VendorAlone(db, call)
BY DEF Simple, VendorCall, VendorAlone

LEMMA VendorAnswer ==
    ASSUME NEW op \in VendorOps \ {"sawt", "classify"}, NEW status
    PROVE  Simple(Answered(op, status)) /\ Answered(op, status).at = "answered"
<1> DEFINE call == Answered(op, status)
<1>1. DOMAIN call = {"op", "at", "status"} /\ call.op = op /\ call.at = "answered" BY DEF Answered
<1> HIDE DEF call
<1> QED BY <1>1 DEF Simple, call

LEMMA VendorsAnswered ==
    ASSUME VendorsInv, NEW c \in Callers, NEW op \in VendorOps \ {"sawt", "classify"}, NEW status,
           calls[c].at # "gone",
           \/ AnswerAtOnce(c, op, status)
           \/ Answer(c, status) /\ calls[c].op = op,
           rows' = rows
    PROVE  VendorsInv' /\ part' = part
<1> DEFINE call == Answered(op, status)
<1>1. Begin(c, call) \/ Continue(c, call) BY DEF AnswerAtOnce, Answer
<1>2. Simple(call) /\ call.at # "gone" BY VendorAnswer
<1> HIDE DEF call
<1>3. VendorCall(rows, call) /\ (VendorAlone(rows, calls[c]) => VendorAlone(rows, call))
  BY <1>2, SimpleIs
<1> QED BY <1>1, <1>2, <1>3, VendorsRead

(* What is stored and answered. *)
LEMMA VendorsStored ==
    ASSUME VendorsInv, NEW c \in Callers, NEW op \in VendorOps \ {"sawt", "classify"}, NEW status,
           calls[c].at # "gone",
           \/ AnswerAtOnce(c, op, status)
           \/ Answer(c, status) /\ calls[c].op = op,
           VendorsTable(rows'), Grows(rows, rows'),
           VendorAlone(rows, calls[c]) => (~rows'.unsure => Distinct(rows'))
    PROVE  VendorsInv' /\ part' = part
<1> DEFINE call == Answered(op, status)
<1>1. Begin(c, call) \/ Continue(c, call) BY DEF AnswerAtOnce, Answer
<1>2. Simple(call) /\ call.at # "gone" BY VendorAnswer
<1> HIDE DEF call
<1>3. VendorCall(rows', call) /\ (VendorAlone(rows, calls[c]) => VendorAlone(rows', call))
  BY <1>2, SimpleIs
<1>4. Moved(c) /\ calls'[c] = call /\ part' = part BY <1>1, <1>2, Moves DEF VendorsInv
<1> QED BY <1>3, <1>4, VendorsStepped

(* Tables. *)
LEMMA VendorAdded ==
    ASSUME NEW db, VendorsTable(db), NEW vendor
    PROVE  LET to == CreateVendor(db, vendor)
           IN  /\ VendorsTable(to) /\ Grows(db, to) /\ to.unsure = db.unsure
               /\ (Distinct(db) /\ (vendor.tin = NoText \/ GetVendorByTIN(db, vendor.tin) = {}))
                    => Distinct(to)
<1> DEFINE to == CreateVendor(db, vendor)
           new == db.made + 1
<1>1. /\ DOMAIN to = DOMAIN db /\ to.vendors = With(db.vendors, new, vendor) /\ to.made = db.made + 1
      /\ to.certificates = db.certificates /\ to.unsure = db.unsure
  BY DEF CreateVendor, VendorsTable
<1> HIDE DEF to
<1>2. /\ db.made \in Nat /\ DOMAIN db.vendors \subseteq 1..db.made /\ new \notin DOMAIN db.vendors
      /\ DOMAIN to.vendors = DOMAIN db.vendors \cup {new} /\ to.vendors[new] = vendor
      /\ \A v \in DOMAIN db.vendors : to.vendors[v] = db.vendors[v]
  <2>1. db.made \in Nat /\ DOMAIN db.vendors \subseteq 1..db.made /\ new \notin DOMAIN db.vendors
    BY DEF VendorsTable
  <2> HIDE DEF new
  <2> QED BY <1>1, <2>1 DEF With
<1>3. VendorsTable(to)
  BY <1>1, <1>2 DEF VendorsTable
<1>4. Grows(db, to) BY <1>1 DEF Grows
<1>5. ASSUME Distinct(db), vendor.tin = NoText \/ GetVendorByTIN(db, vendor.tin) = {}
      PROVE  Distinct(to)
  <2>1. vendor.tin # NoText => \A v \in DOMAIN db.vendors : db.vendors[v].tin # vendor.tin
    BY <1>5 DEF GetVendorByTIN
  <2> HIDE DEF new
  <2> QED BY <1>2, <1>5, <2>1 DEF Distinct
<1> QED BY <1>1, <1>3, <1>4, <1>5 DEF to

(* A vendor is written, or another table that has the same vendors or fewer. *)
LEMMA VendorsWritten ==
    ASSUME NEW db, VendorsTable(db), NEW to, DOMAIN to = DOMAIN db, to.made = db.made,
           to.certificates = db.certificates, DOMAIN to.vendors \subseteq DOMAIN db.vendors,
           \A k \in DOMAIN db.certificates : db.certificates[k].vendor \in DOMAIN to.vendors
    PROVE  /\ VendorsTable(to) /\ Grows(db, to)
           /\ (Distinct(db) /\ \A v \in DOMAIN to.vendors : to.vendors[v].tin = db.vendors[v].tin)
                => Distinct(to)
<1>1. VendorsTable(to) BY DEF VendorsTable
<1>2. Grows(db, to) BY DEF Grows
<1>3. (Distinct(db) /\ \A v \in DOMAIN to.vendors : to.vendors[v].tin = db.vendors[v].tin)
                => Distinct(to)
  BY DEF Distinct
<1> QED BY <1>1, <1>2, <1>3

(* A vendor is overlooked, and one is to be created. *)
LEMMA VendorsOverlooked ==
    ASSUME VendorsInv, NEW c \in Callers, NEW call, calls[c].at # "gone", call.at # "gone",
           Begin(c, call) \/ Continue(c, call), Overlooked,
           \/ call.op = "vendor"
           \/ call.op = "classify" /\ BatchOK(call)
    PROVE  VendorsInv' /\ part' = part
<1>1. Moved(c) /\ calls'[c] = call /\ part' = part BY Moves DEF VendorsInv
<1>2. VendorsTable(rows') /\ Grows(rows, rows') /\ rows'.unsure
  BY DEF Overlooked, Store, VendorsInv, VendorsTable, Grows
<1>3. VendorCall(rows', call) /\ VendorAlone(rows', call)
  BY <1>2 DEF VendorCall, VendorAlone, VendorOps
<1> QED BY <1>1, <1>2, <1>3, VendorsStepped

LEMMA VendorBegins ==
    ASSUME VendorsInv, NEW c \in Callers, VendorCreate(c)
    PROVE  VendorsInv' /\ part' = part
<1>1. PICK tin \in TINs, atc \in ATCs :
         LET insert == [op |-> "vendor", at |-> "insert",
                        vendor |-> [tin |-> tin, atc |-> atc, vat |-> FALSE]]
         IN  \/ Reads /\ AnswerAtOnce(c, "vendor", VendorCreateResponses.Exists)
             \/ Overlooked /\ Begin(c, insert)
             \/ /\ tin = NoText \/ GetVendorByTIN(rows, tin) = {}
                /\ Reads /\ Begin(c, insert)
  BY DEF VendorCreate
<1> DEFINE call == [op |-> "vendor", at |-> "insert",
                    vendor |-> [tin |-> tin, atc |-> atc, vat |-> FALSE]]
<1>2. /\ calls[c].at = "answered" /\ "vendor" \in VendorOps
      /\ call.op = "vendor" /\ call.at = "insert" /\ call.vendor.tin = tin
  BY DEF VendorCreate, Free, VendorOps
<1>3. CASE Reads /\ AnswerAtOnce(c, "vendor", VendorCreateResponses.Exists)
  BY <1>2, <1>3, VendorsAnswered DEF Reads
<1> HIDE DEF call
<1>5. CASE Overlooked /\ Begin(c, call)
  BY <1>2, <1>5, VendorsOverlooked
<1>4. CASE /\ tin = NoText \/ GetVendorByTIN(rows, tin) = {}
           /\ Reads /\ Begin(c, call)
  BY <1>4, <1>2, VendorsRead DEF Reads, VendorCall, VendorAlone
<1> QED BY <1>1, <1>3, <1>4, <1>5 DEF call

LEMMA VendorInserted ==
    ASSUME VendorsInv, NEW c \in Callers, VendorInsert(c)
    PROVE  VendorsInv' /\ part' = part
<1>1. /\ calls[c].op = "vendor" /\ calls[c].at = "insert" /\ "vendor" \in VendorOps
      /\ rows' = CreateVendor(rows, calls[c].vendor) /\ Answer(c, VendorCreateResponses.Done)
  BY DEF VendorInsert, At, Store, VendorOps
<1>2. /\ VendorsTable(rows') /\ Grows(rows, rows') /\ rows'.unsure = rows.unsure
      /\ (/\ Distinct(rows)
          /\ calls[c].vendor.tin = NoText \/ GetVendorByTIN(rows, calls[c].vendor.tin) = {})
            => Distinct(rows')
  BY <1>1, VendorAdded DEF VendorsInv
<1>3. VendorAlone(rows, calls[c]) => (~rows'.unsure => Distinct(rows'))
  BY <1>1, <1>2 DEF VendorAlone
<1> QED BY <1>1, <1>2, <1>3, VendorsStored

(* A request that goes on, and has no part in what is promised for one alone. *)
LEMMA VendorsGoOn ==
    ASSUME VendorsInv, NEW c \in Callers, NEW call, calls[c].at # "gone", call.at # "gone",
           Begin(c, call) \/ Continue(c, call), rows' = rows, Simple(call)
    PROVE  VendorsInv' /\ part' = part
<1>1. VendorCall(rows, call) /\ (VendorAlone(rows, calls[c]) => VendorAlone(rows, call)) BY SimpleIs
<1> QED BY <1>1, VendorsRead

LEMMA VendorPatched ==
    ASSUME VendorsInv, NEW c \in Callers, VendorUpdate(c)
    PROVE  VendorsInv' /\ part' = part
<1>1. PICK v \in 1..rows.made, tin \in TINs, atc \in ATCs, vat \in BOOLEAN :
         IF GetVendorByID(rows, v) = {} THEN AnswerAtOnce(c, "patch", VendorUpdateResponses.Failed)
         ELSE Begin(c, [op |-> "patch", at |-> "write", id |-> v,
                        vendor |-> [tin |-> IF tin = NoText THEN rows.vendors[v].tin ELSE tin,
                                    atc |-> IF atc = NoText THEN rows.vendors[v].atc ELSE atc,
                                    vat |-> vat]])
  BY DEF VendorUpdate
<1>2. calls[c].at = "answered" /\ rows' = rows /\ "patch" \in VendorOps
  BY DEF VendorUpdate, Free, Reads, VendorOps
<1>3. CASE AnswerAtOnce(c, "patch", VendorUpdateResponses.Failed) BY <1>2, <1>3, VendorsAnswered
<1> DEFINE call == [op |-> "patch", at |-> "write", id |-> v,
                    vendor |-> [tin |-> IF tin = NoText THEN rows.vendors[v].tin ELSE tin,
                                atc |-> IF atc = NoText THEN rows.vendors[v].atc ELSE atc,
                                vat |-> vat]]
<1>4. CASE Begin(c, call)
  <2>1. Simple(call) /\ call.at = "write" BY <1>2 DEF Simple
  <2> HIDE DEF call
  <2>2. calls[c].at # "gone" /\ call.at # "gone" BY <1>2, <2>1
  <2> QED BY <1>2, <1>4, <2>1, <2>2, VendorsGoOn
<1> QED BY <1>1, <1>3, <1>4

LEMMA VendorWritten ==
    ASSUME VendorsInv, NEW c \in Callers, VendorUpdateWrites(c)
    PROVE  VendorsInv' /\ part' = part
<1> DEFINE id == calls[c].id
           vendor == calls[c].vendor
           moved == \E v \in GetVendorByID(rows, id) : rows.vendors[v].tin # vendor.tin
           call == [op |-> "patch", at |-> "reread", id |-> id]
           db == UpdateVendor(rows, id, vendor)
<1>1. /\ calls[c].op = "patch" /\ calls[c].at = "write" /\ "patch" \in VendorOps
      /\ rows' = [db EXCEPT !.unsure = @ \/ moved] /\ Continue(c, call)
  BY DEF VendorUpdateWrites, At, Store, VendorOps
<1>2. VendorsTable(rows) BY DEF VendorsInv
<1>3. /\ DOMAIN db = DOMAIN rows /\ db.made = rows.made /\ db.certificates = rows.certificates
      /\ db.unsure = rows.unsure /\ DOMAIN db.vendors = DOMAIN rows.vendors
      /\ \A v \in DOMAIN rows.vendors :
           db.vendors[v] = IF v = id THEN vendor ELSE rows.vendors[v]
  <2>1. CASE id \in DOMAIN rows.vendors
    <3>1. db = [rows EXCEPT !.vendors[id] = vendor] BY <2>1 DEF UpdateVendor
    <3> HIDE DEF db, id, vendor
    <3> QED BY <1>2, <3>1 DEF VendorsTable
  <2>2. CASE id \notin DOMAIN rows.vendors BY <2>2 DEF UpdateVendor
  <2> QED BY <2>1, <2>2
<1> HIDE DEF db, moved, id, vendor
<1>4. /\ DOMAIN rows' = DOMAIN rows /\ rows'.made = rows.made
      /\ rows'.certificates = rows.certificates /\ rows'.unsure = (rows.unsure \/ moved)
      /\ rows'.vendors = db.vendors
  BY <1>1, <1>2, <1>3 DEF VendorsTable
<1>5. /\ VendorsTable(rows') /\ Grows(rows, rows')
      /\ (Distinct(rows) /\ \A v \in DOMAIN rows'.vendors : rows'.vendors[v].tin = rows.vendors[v].tin)
            => Distinct(rows')
  <2>1. \A k \in DOMAIN rows.certificates : rows.certificates[k].vendor \in DOMAIN rows'.vendors
    BY <1>2, <1>3, <1>4 DEF VendorsTable
  <2>2. DOMAIN rows'.vendors \subseteq DOMAIN rows.vendors BY <1>3, <1>4
  <2> QED BY <1>2, <1>4, <2>1, <2>2, VendorsWritten
<1>6. ASSUME ~rows'.unsure
      PROVE  \A v \in DOMAIN rows'.vendors : rows'.vendors[v].tin = rows.vendors[v].tin
  BY <1>3, <1>4, <1>6 DEF moved, GetVendorByID
<1>7. VendorAlone(rows, calls[c]) => (~rows'.unsure => Distinct(rows'))
  BY <1>4, <1>5, <1>6 DEF VendorAlone
<1>8. Simple(call) /\ call.at = "reread" BY <1>1 DEF Simple
<1> HIDE DEF call
<1>9. VendorCall(rows', call) /\ (VendorAlone(rows, calls[c]) => VendorAlone(rows', call))
  BY <1>7, <1>8, SimpleIs
<1>10. Moved(c) /\ calls'[c] = call /\ part' = part
  BY <1>1, <1>8, Moves DEF VendorsInv
<1> QED BY <1>5, <1>9, <1>10, VendorsStepped

LEMMA VendorReread ==
    ASSUME VendorsInv, NEW c \in Callers, VendorUpdateRereads(c)
    PROVE  VendorsInv' /\ part' = part
<1> DEFINE status == IF GetVendorByID(rows, calls[c].id) = {} THEN VendorUpdateResponses.Failed
                                                             ELSE VendorUpdateResponses.Done
<1>1. /\ calls[c].op = "patch" /\ calls[c].at = "reread" /\ "patch" \in VendorOps
      /\ rows' = rows /\ Answer(c, status)
  BY DEF VendorUpdateRereads, At, Reads, VendorOps
<1> HIDE DEF status
<1> QED BY <1>1, VendorsAnswered

LEMMA VendorDeleteBegins ==
    ASSUME VendorsInv, NEW c \in Callers, VendorDelete(c)
    PROVE  VendorsInv' /\ part' = part
<1>1. PICK v \in 1..rows.made : IF GetVendorByID(rows, v) = {}
         THEN AnswerAtOnce(c, "unvendor", VendorDeleteResponses.Failed)
         ELSE Begin(c, [op |-> "unvendor", at |-> "delete", id |-> v])
  BY DEF VendorDelete
<1>2. calls[c].at = "answered" /\ rows' = rows /\ "unvendor" \in VendorOps
  BY DEF VendorDelete, Free, Reads, VendorOps
<1>3. CASE AnswerAtOnce(c, "unvendor", VendorDeleteResponses.Failed) BY <1>2, <1>3, VendorsAnswered
<1> DEFINE call == [op |-> "unvendor", at |-> "delete", id |-> v]
<1>4. CASE Begin(c, call)
  <2>1. Simple(call) /\ call.at = "delete" BY <1>2 DEF Simple
  <2> HIDE DEF call
  <2>2. calls[c].at # "gone" /\ call.at # "gone" BY <1>2, <2>1
  <2> QED BY <1>2, <1>4, <2>1, <2>2, VendorsGoOn
<1> QED BY <1>1, <1>3, <1>4

LEMMA VendorGoes ==
    ASSUME VendorsInv, NEW c \in Callers, VendorDeletes(c)
    PROVE  VendorsInv' /\ part' = part
<1> DEFINE id == calls[c].id
<1>1. calls[c].op = "unvendor" /\ calls[c].at = "delete" /\ "unvendor" \in VendorOps
  BY DEF VendorDeletes, At, VendorOps
<1>2. VendorsTable(rows) BY DEF VendorsInv
<1>3. CASE ~CanDeleteVendor(rows, id) BY <1>1, <1>3, VendorsAnswered DEF VendorDeletes, Reads
<1>4. CASE CanDeleteVendor(rows, id)
  <2>1. rows' = DeleteVendor(rows, id) /\ Answer(c, VendorDeleteResponses.Done)
    BY <1>4 DEF VendorDeletes, Store
  <2>2. /\ DOMAIN rows' = DOMAIN rows /\ rows'.made = rows.made
        /\ rows'.certificates = rows.certificates /\ rows'.unsure = rows.unsure
        /\ rows'.vendors = Without(rows.vendors, {id})
    BY <1>2, <2>1 DEF DeleteVendor, VendorsTable
  <2> HIDE DEF id
  <2>3. /\ DOMAIN rows'.vendors = DOMAIN rows.vendors \ {id}
        /\ \A v \in DOMAIN rows'.vendors : rows'.vendors[v] = rows.vendors[v]
    BY <2>2 DEF Without, Restrict
  <2>4. \A k \in DOMAIN rows.certificates : rows.certificates[k].vendor \in DOMAIN rows'.vendors
    BY <1>2, <1>4, <2>3 DEF VendorsTable, CanDeleteVendor
  <2>5. /\ VendorsTable(rows') /\ Grows(rows, rows')
        /\ (Distinct(rows) /\ \A v \in DOMAIN rows'.vendors : rows'.vendors[v].tin = rows.vendors[v].tin)
             => Distinct(rows')
    BY <1>2, <2>2, <2>3, <2>4, VendorsWritten
  <2>6. VendorAlone(rows, calls[c]) => (~rows'.unsure => Distinct(rows'))
    BY <2>2, <2>3, <2>5 DEF VendorAlone
  <2> QED BY <1>1, <2>1, <2>5, <2>6, VendorsStored
<1> QED BY <1>3, <1>4

LEMMA VendorsShown ==
    ASSUME VendorsInv, NEW c \in Callers, VendorList(c) \/ VendorListCounts(c)
    PROVE  VendorsInv' /\ part' = part
<1>1. CASE VendorList(c)
  <2>1. PICK tin \in TINs : Begin(c, [op |-> "vendors", at |-> "count", filter |-> tin,
                    page |-> IF tin = NoText THEN ListVendorsByCompany(rows)
                                             ELSE SearchVendorsByCompany(rows, tin)])
    BY <1>1 DEF VendorList, Listed
  <2>2. calls[c].at = "answered" /\ rows' = rows /\ "vendors" \in VendorOps
    BY <1>1 DEF VendorList, Free, Reads, VendorOps
  <2> DEFINE call == [op |-> "vendors", at |-> "count", filter |-> tin,
                      page |-> IF tin = NoText THEN ListVendorsByCompany(rows)
                                               ELSE SearchVendorsByCompany(rows, tin)]
  <2>3. Simple(call) /\ call.at = "count" /\ Begin(c, call) BY <2>1, <2>2 DEF Simple
  <2> HIDE DEF call
  <2>4. calls[c].at # "gone" /\ call.at # "gone" BY <2>2, <2>3
  <2> QED BY <2>2, <2>3, <2>4, VendorsGoOn
<1>2. CASE VendorListCounts(c)
  <2> DEFINE call == [op |-> "vendors", at |-> "answered", page |-> calls[c].page,
                      total |-> CountVendorsByCompany(rows)]
  <2>1. calls[c].at = "count" /\ rows' = rows /\ "vendors" \in VendorOps /\ Continue(c, call)
    BY <1>2 DEF VendorListCounts, Counted, At, Reads, VendorOps
  <2>2. Simple(call) /\ call.at = "answered" BY <2>1 DEF Simple
  <2> HIDE DEF call
  <2>3. calls[c].at # "gone" /\ call.at # "gone" BY <2>1, <2>2
  <2> QED BY <2>1, <2>2, <2>3, VendorsGoOn
<1> QED BY <1>1, <1>2

LEMMA CertificateMade ==
    ASSUME VendorsInv, NEW c \in Callers, CertificateCreate(c)
    PROVE  VendorsInv' /\ part' = part
<1>1. PICK v \in 1..rows.made, atc \in ATCs \ {NoText}, period \in {"p1", "p2"} :
         IF GetVendorByID(rows, v) # {}
         THEN /\ rows' = CreateWithholdingCertificate(rows,
                            [vendor |-> v, atc |-> atc, period |-> period, income |-> 100,
                             tax |-> IF period = "p1" THEN 5 ELSE 7])
              /\ AnswerAtOnce(c, "certificate", CertificateResponses.Done)
         ELSE rows' = rows /\ AnswerAtOnce(c, "certificate", CertificateResponses.Failed)
  BY DEF CertificateCreate, Store, Reads
<1>2. calls[c].at = "answered" /\ "certificate" \in VendorOps /\ VendorsTable(rows)
  BY DEF CertificateCreate, Free, VendorOps, VendorsInv
<1>3. CASE GetVendorByID(rows, v) = {} BY <1>1, <1>2, <1>3, VendorsAnswered
<1>4. CASE GetVendorByID(rows, v) # {}
  <2> DEFINE cert == [vendor |-> v, atc |-> atc, period |-> period, income |-> 100,
                      tax |-> IF period = "p1" THEN 5 ELSE 7]
             T == [vendor : Nat, atc : ATCs, period : {"p1", "p2"}, income : Int, tax : Int]
             old == rows.certificates
  <2>1. cert \in T /\ cert.vendor = v OBVIOUS
  <2>2. v \in DOMAIN rows.vendors BY <1>4 DEF GetVendorByID
  <2> HIDE DEF cert
  <2>3. rows' = CreateWithholdingCertificate(rows, cert)
        /\ AnswerAtOnce(c, "certificate", CertificateResponses.Done)
    BY <1>1, <1>4 DEF cert
  <2>4. /\ DOMAIN rows' = DOMAIN rows /\ rows'.made = rows.made /\ rows'.vendors = rows.vendors
        /\ rows'.unsure = rows.unsure /\ rows'.certificates = Append(old, cert)
    BY <1>2, <2>3 DEF CreateWithholdingCertificate, VendorsTable
  <2>5. old \in Seq(T) /\ \A k \in DOMAIN old : old[k].vendor \in DOMAIN rows.vendors
    BY <1>2 DEF VendorsTable
  <2> HIDE DEF old, T
  <2>6. /\ rows'.certificates \in Seq(T) /\ DOMAIN rows'.certificates = 1..(Len(old) + 1)
        /\ DOMAIN old = 1..Len(old) /\ Len(old) \in Nat
        /\ \A k \in DOMAIN old : rows'.certificates[k] = old[k]
        /\ rows'.certificates[Len(old) + 1] = cert
    BY <2>1, <2>4, <2>5
  <2>7. \A k \in DOMAIN rows'.certificates : rows'.certificates[k].vendor \in DOMAIN rows'.vendors
    <3> TAKE k \in DOMAIN rows'.certificates
    <3>1. k \in DOMAIN old \/ k = Len(old) + 1 BY <2>6
    <3> QED BY <2>1, <2>2, <2>4, <2>5, <2>6, <3>1
  <2>8. VendorsTable(rows') BY <1>2, <2>4, <2>6, <2>7 DEF VendorsTable, T
  <2>9. Grows(rows, rows')
    BY <2>6 DEF Grows, old
  <2>10. VendorAlone(rows, calls[c]) => (~rows'.unsure => Distinct(rows'))
    BY <2>4 DEF VendorAlone, Distinct
  <2> QED BY <1>2, <2>3, <2>8, <2>9, <2>10, VendorsStored
<1> QED BY <1>3, <1>4

LEMMA CertificateShown ==
    ASSUME VendorsInv, NEW c \in Callers, CertificateDownload(c) \/ CertificateVendor(c)
    PROVE  VendorsInv' /\ part' = part
<1>1. "download" \in VendorOps /\ VendorsTable(rows) BY DEF VendorOps, VendorsInv
<1>2. CASE CertificateDownload(c)
  <2>1. PICK k \in 0..Len(rows.certificates) : IF k = 0
          THEN AnswerAtOnce(c, "download", DownloadResponses.NotFound)
          ELSE Begin(c, [op |-> "download", at |-> "vendor", vendor |-> rows.certificates[k].vendor])
    BY <1>2 DEF CertificateDownload
  <2>2. calls[c].at = "answered" /\ rows' = rows BY <1>2 DEF CertificateDownload, Free, Reads
  <2>3. CASE k = 0 BY <1>1, <2>1, <2>2, <2>3, VendorsAnswered
  <2>4. CASE k # 0
    <3> DEFINE call == [op |-> "download", at |-> "vendor", vendor |-> rows.certificates[k].vendor]
    <3>1. /\ DOMAIN call = {"op", "at", "vendor"} /\ call.op = "download" /\ call.at = "vendor"
          /\ call.vendor = rows.certificates[k].vendor /\ Begin(c, call)
      BY <2>1, <2>4
    <3> HIDE DEF call
    <3>2. k \in DOMAIN rows.certificates
      <4> DEFINE T == [vendor : Nat, atc : ATCs, period : {"p1", "p2"}, income : Int, tax : Int]
                 s == rows.certificates
      <4>1. s \in Seq(T) /\ k \in 0..Len(s) BY <1>1 DEF VendorsTable
      <4> HIDE DEF T, s
      <4>2. k \in DOMAIN s BY <2>4, <4>1
      <4> QED BY <4>2 DEF s
    <3>3. VendorCall(rows, call) BY <1>1, <3>1, <3>2 DEF VendorCall
    <3>4. VendorAlone(rows, calls[c]) => VendorAlone(rows, call) BY <3>1 DEF VendorAlone
    <3>5. calls[c].at # "gone" /\ call.at # "gone" BY <2>2, <3>1
    <3> QED BY <2>2, <3>1, <3>3, <3>4, <3>5, VendorsRead
  <2> QED BY <2>3, <2>4
<1>4. CASE CertificateVendor(c) /\ Answer(c, DownloadResponses.Done)
  BY <1>4, <1>1, VendorsAnswered DEF CertificateVendor, At, Reads
<1>3. CASE CertificateVendor(c) /\ ~Answer(c, DownloadResponses.Done)
  <2> DEFINE call == [op |-> "download", at |-> "answered", status |-> DownloadResponses.Done,
                      printed |-> GetVendorByID(rows, calls[c].vendor) # {}]
  <2>1. calls[c].op = "download" /\ calls[c].at = "vendor" /\ rows' = rows /\ Continue(c, call)
    BY <1>3 DEF CertificateVendor, At, Reads
  <2>2. GetVendorByID(rows, calls[c].vendor) # {}
    <3>1. PICK k \in DOMAIN rows.certificates : calls[c].vendor = rows.certificates[k].vendor
      BY <2>1 DEF VendorsInv, VendorCall
    <3>2. calls[c].vendor \in DOMAIN rows.vendors BY <1>1, <3>1 DEF VendorsTable
    <3> QED BY <3>2 DEF GetVendorByID
  <2>3. call.op = "download" /\ call.at = "answered" /\ call.printed BY <2>2
  <2> HIDE DEF call
  <2>4. VendorCall(rows, call) BY <1>1, <2>3 DEF VendorCall
  <2>5. VendorAlone(rows, calls[c]) => VendorAlone(rows, call) BY <2>3 DEF VendorAlone
  <2>6. calls[c].at # "gone" /\ call.at # "gone" BY <2>1, <2>3
  <2> QED BY <2>1, <2>4, <2>5, <2>6, VendorsRead
<1> QED BY <1>2, <1>3, <1>4

LEMMA AlphalistMade ==
    ASSUME VendorsInv, NEW c \in Callers, GetSAWT(c) \/ GetSAWTCounts(c)
    PROVE  VendorsInv' /\ part' = part
<1>1. "sawt" \in VendorOps BY DEF VendorOps
<1>2. CASE GetSAWT(c)
  <2>1. PICK period \in {NoText, "p1"} : Begin(c, [op |-> "sawt", at |-> "count", period |-> period,
                    entries |-> SAWT(rows, ListWithholdingByCompany(rows, MaxListed), period)])
    BY <1>2 DEF GetSAWT
  <2> DEFINE entries == SAWT(rows, ListWithholdingByCompany(rows, MaxListed), period)
             call == [op |-> "sawt", at |-> "count", period |-> period, entries |-> entries]
  <2>2. /\ call.op = "sawt" /\ call.at = "count" /\ call.period = period
        /\ call.entries = entries /\ Begin(c, call)
    BY <2>1
  <2>3. calls[c].at = "answered" /\ rows' = rows BY <1>2 DEF GetSAWT, Free, Reads
  <2> HIDE DEF call
  <2>4. VendorCall(rows, call) BY <1>1, <2>2 DEF VendorCall
  <2>5. VendorAlone(rows, calls[c]) => VendorAlone(rows, call) BY <2>2 DEF VendorAlone
  <2>6. calls[c].at # "gone" /\ call.at # "gone" BY <2>2, <2>3
  <2> QED BY <2>2, <2>3, <2>4, <2>5, <2>6, VendorsRead
<1>3. CASE GetSAWTCounts(c)
  <2> DEFINE call == [op |-> "sawt", at |-> "answered", period |-> calls[c].period,
                      entries |-> calls[c].entries, total |-> CountWithholdingByCompany(rows)]
  <2>1. calls[c].op = "sawt" /\ calls[c].at = "count" /\ rows' = rows /\ Continue(c, call)
    BY <1>3 DEF GetSAWTCounts, At, Reads
  <2>2. /\ call.op = "sawt" /\ call.at = "answered" /\ call.period = calls[c].period
        /\ call.entries = calls[c].entries /\ call.total = Len(rows.certificates)
    BY DEF CountWithholdingByCompany
  <2> HIDE DEF call
  <2>3. VendorCall(rows, call) BY <1>1, <2>2 DEF VendorCall
  <2>4. VendorAlone(rows, calls[c]) => VendorAlone(rows, call) BY <2>1, <2>2 DEF VendorAlone
  <2>5. calls[c].at # "gone" /\ call.at # "gone" BY <2>1, <2>2
  <2> QED BY <2>1, <2>3, <2>4, <2>5, VendorsRead
<1> QED BY <1>2, <1>3
----
(* A vendor's code decides, when it is known and the payment is not exempt. *)
LEMMA VendorDecides ==
    ASSUME NEW tx, NEW known, NEW rules, NEW result \in ClassifyEWT(tx, known, rules)
    PROVE  /\ result.source = "vendor" =>
                /\ tx.tin \in DOMAIN known /\ KnownCode(known[tx.tin])
                /\ result = Classified(TRUE, known[tx.tin], "vendor")
           /\ (tx.tin \in DOMAIN known /\ KnownCode(known[tx.tin]) /\ ~tx.exempt) =>
                result = Classified(TRUE, known[tx.tin], "vendor")
<1> DEFINE default == IF tx.tin \in DOMAIN known THEN known[tx.tin] ELSE NoText
           vendors == {Classified(TRUE, default, "vendor")}
           keywords == {Classified(TRUE, code, "keywords") :
                           code \in FindATCByKeywords(tx.words, tx.individual)}
           exempts == {Classified(FALSE, NoText, "exempt")}
           first == ClassifyEWTRuleBased(tx, known)
<1>1. first = IF tx.exempt THEN exempts ELSE IF KnownCode(default) THEN vendors ELSE keywords
  BY DEF ClassifyEWTRuleBased
<1>2. KnownCode(default) => tx.tin \in DOMAIN known /\ default = known[tx.tin]
  BY PurchasingAssumption DEF KnownCode
<1>3. \A r \in exempts \cup keywords : r.source # "vendor" BY DEF Classified
<1>4. \A r \in ApplyLearnedEWTRules(tx, rules) : r.source = "learned"
  <2> DEFINE says == SelectSeq(rules, LAMBDA r :
                        /\ r.words \cap tx.words # {} \/ tx.tin \in r.tins
                        /\ \/ r.field = "atc_code" /\ KnownCode(r.value)
                           \/ r.field = "ewt_applicable" /\ r.value = "false")
             learned == {Classified(says[i].field = "atc_code",
                                    IF says[i].field = "atc_code" THEN says[i].value ELSE NoText,
                                    "learned") : i \in DOMAIN says \cap {1}}
  <2>1. ApplyLearnedEWTRules(tx, rules) = learned BY DEF ApplyLearnedEWTRules
  <2> HIDE DEF says
  <2>2. \A r \in learned : r.source = "learned" BY DEF Classified
  <2> QED BY <2>1, <2>2
<1>5. result \in first \/ (first = {} /\ result.source # "vendor")
  <2>1. Classified(FALSE, NoText, "default").source # "vendor" BY DEF Classified
  <2> HIDE DEF first
  <2> QED BY <1>4, <2>1 DEF ClassifyEWT, first
<1>6. exempts # {} /\ vendors # {} /\ \A r \in vendors : r = Classified(TRUE, default, "vendor")
  OBVIOUS
<1> HIDE DEF first, exempts, vendors, keywords, default
<1>7. ASSUME result.source = "vendor"
      PROVE  /\ tx.tin \in DOMAIN known /\ KnownCode(known[tx.tin])
             /\ result = Classified(TRUE, known[tx.tin], "vendor")
  <2>1. KnownCode(default) /\ result \in vendors BY <1>1, <1>3, <1>5, <1>7
  <2> QED BY <1>2, <1>6, <2>1
<1>8. ASSUME tx.tin \in DOMAIN known, KnownCode(known[tx.tin]), ~tx.exempt
      PROVE  result = Classified(TRUE, known[tx.tin], "vendor")
  <2>1. default = known[tx.tin] BY <1>8 DEF default
  <2>2. first = vendors BY <1>1, <1>8, <2>1
  <2> QED BY <1>5, <1>6, <2>1, <2>2
<1> QED BY <1>7, <1>8

(* The batch goes on to another step of the same payment. *)
LEMMA BatchGoesOn ==
    ASSUME NEW call, BatchOK(call), call.op = "classify", call.at # "answered",
           NEW at \in {"check", "insert", "fetch", "decide"},
           at # "decide" => Current(call).tin # NoText /\ Current(call).tin \notin DOMAIN call.known
    PROVE  LET to == [call EXCEPT !.at = at]
           IN  /\ BatchOK(to) /\ to.op = "classify" /\ to.at = at /\ Current(to) = Current(call)
<1> DEFINE to == [call EXCEPT !.at = at]
<1>1. DOMAIN call = {"op", "at", "batch", "known", "rules", "results"} BY DEF BatchOK
<1>2. /\ DOMAIN to = DOMAIN call /\ to.at = at /\ to.op = call.op /\ to.batch = call.batch
      /\ to.known = call.known /\ to.results = call.results
  BY <1>1
<1> HIDE DEF to
<1>3. Current(to) = Current(call) BY <1>2 DEF Current
<1>4. BatchOK(to) BY <1>2, <1>3 DEF BatchOK
<1> QED BY <1>2, <1>3, <1>4 DEF to

LEMMA BatchBegins ==
    ASSUME VendorsInv, NEW c \in Callers, Classify(c)
    PROVE  VendorsInv' /\ part' = part
<1>1. PICK batch \in Payments \X Payments, seen \in SUBSET ListVendorsByCompany(rows),
            rules \in {LearnedRules, <<>>} :
        \E known \in [{rows.vendors[v].tin : v \in seen} -> {rows.vendors[v].atc : v \in seen}] :
           Begin(c, [op |-> "classify", at |-> "lookup", batch |-> batch,
                     known |-> known, rules |-> rules, results |-> <<>>])
  BY DEF Classify
<1>2. PICK known : Begin(c, [op |-> "classify", at |-> "lookup", batch |-> batch,
                             known |-> known, rules |-> rules, results |-> <<>>])
  BY <1>1
<1>3. calls[c].at = "answered" /\ rows' = rows /\ "classify" \in VendorOps
  BY DEF Classify, Free, Reads, VendorOps
<1> DEFINE call == [op |-> "classify", at |-> "lookup", batch |-> batch,
                    known |-> known, rules |-> rules, results |-> <<>>]
<1>4. /\ DOMAIN call = {"op", "at", "batch", "known", "rules", "results"} /\ call.op = "classify"
      /\ call.at = "lookup" /\ call.results = <<>> /\ Begin(c, call)
  BY <1>2
<1> HIDE DEF call
<1>5. BatchOK(call) BY <1>4 DEF BatchOK
<1>6. VendorCall(rows, call) BY <1>3, <1>4, <1>5 DEF VendorCall
<1>7. VendorAlone(rows, calls[c]) => VendorAlone(rows, call) BY <1>4 DEF VendorAlone
<1>8. calls[c].at # "gone" /\ call.at # "gone" BY <1>3, <1>4
<1> QED BY <1>3, <1>4, <1>6, <1>7, <1>8, VendorsRead

LEMMA BatchReads ==
    ASSUME VendorsInv, NEW c \in Callers, calls[c].op = "classify",
           calls[c].at \notin {"answered", "gone"}, rows' = rows,
           NEW call, Continue(c, call), BatchOK(call), call.op = "classify", call.at # "gone",
           call.at = "insert" => GetVendorByTIN(rows, Current(call).tin) = {}
    PROVE  VendorsInv' /\ part' = part
<1>1. VendorCall(rows, call) BY DEF VendorCall, VendorOps
<1>2. VendorAlone(rows, calls[c]) => VendorAlone(rows, call) BY DEF VendorAlone
<1> QED BY <1>1, <1>2, VendorsRead

LEMMA BatchLooksUp ==
    ASSUME VendorsInv, NEW c \in Callers, ClassifyLooksUp(c)
    PROVE  VendorsInv' /\ part' = part
<1> DEFINE old == calls[c]
           StepOf(found) == IF Current(old).tin \in {NoText} \cup DOMAIN old.known THEN "decide"
                            ELSE IF found # {} THEN "fetch" ELSE "check"
<1>0. PICK found : Continue(c, [old EXCEPT !.at = StepOf(found)]) BY DEF ClassifyLooksUp
<1> DEFINE at == StepOf(found)
           call == [old EXCEPT !.at = at]
<1>1. old.op = "classify" /\ old.at = "lookup" /\ rows' = rows /\ Continue(c, call)
  BY <1>0 DEF ClassifyLooksUp, At, Reads
<1>2. BatchOK(old) BY <1>1 DEF VendorsInv, VendorCall
<1>3. /\ at \in {"check", "insert", "fetch", "decide"} /\ at # "insert"
      /\ at # "decide" => Current(old).tin # NoText /\ Current(old).tin \notin DOMAIN old.known
  OBVIOUS
<1> HIDE DEF at
<1>4. BatchOK(call) /\ call.op = "classify" /\ call.at = at BY <1>1, <1>2, <1>3, BatchGoesOn
<1> HIDE DEF call
<1>5. call.at # "gone" /\ call.at # "insert" BY <1>3, <1>4
<1> QED BY <1>1, <1>4, <1>5, BatchReads

LEMMA BatchChecks ==
    ASSUME VendorsInv, NEW c \in Callers, ClassifyChecks(c)
    PROVE  VendorsInv' /\ part' = part
<1> DEFINE old == calls[c]
           found == GetVendorByTIN(rows, Current(old).tin)
           To(at) == [old EXCEPT !.at = at]
<1>1. old.op = "classify" /\ old.at = "check" /\ old.at \notin {"answered", "gone"}
  BY DEF ClassifyChecks, At
<1>2. PICK at \in {"decide", "insert"} :
        /\ Continue(c, To(at))
        /\ \/ Reads /\ (at = "insert" => found = {})
           \/ Overlooked
  BY DEF ClassifyChecks
<1>3. BatchOK(old) BY <1>1 DEF VendorsInv, VendorCall
<1>4. Current(old).tin # NoText /\ Current(old).tin \notin DOMAIN old.known
  BY <1>1, <1>3 DEF BatchOK
<1> DEFINE call == [old EXCEPT !.at = at]
<1>5. BatchOK(call) /\ call.op = "classify" /\ call.at = at /\ Current(call) = Current(old)
  <2>1. at \in {"check", "insert", "fetch", "decide"} OBVIOUS
  <2> QED BY <1>1, <1>3, <1>4, <2>1, BatchGoesOn
<1>6. Continue(c, call) BY <1>2
<1> HIDE DEF call
<1>7. call.at # "gone" BY <1>2, <1>5
<1>8. CASE Reads /\ (at = "insert" => found = {})
  BY <1>1, <1>5, <1>6, <1>7, <1>8, BatchReads DEF Reads
<1>9. CASE Overlooked BY <1>1, <1>5, <1>6, <1>7, <1>9, VendorsOverlooked
<1> QED BY <1>2, <1>8, <1>9

LEMMA BatchInserts ==
    ASSUME VendorsInv, NEW c \in Callers, ClassifyInserts(c)
    PROVE  VendorsInv' /\ part' = part
<1> DEFINE old == calls[c]
           call == [old EXCEPT !.at = "fetch"]
           vendor == [tin |-> Current(old).tin, atc |-> NoText, vat |-> TRUE]
<1>1. /\ old.op = "classify" /\ old.at = "insert" /\ Continue(c, call)
      /\ rows' = CreateVendor(rows, vendor) /\ vendor.tin = Current(old).tin
  BY DEF ClassifyInserts, At, Store
<1>2. BatchOK(old) /\ VendorsTable(rows) BY <1>1 DEF VendorsInv, VendorCall
<1>3. Current(old).tin # NoText /\ Current(old).tin \notin DOMAIN old.known
  BY <1>1, <1>2 DEF BatchOK
<1>4. BatchOK(call) /\ call.op = "classify" /\ call.at = "fetch" BY <1>1, <1>2, <1>3, BatchGoesOn
<1> HIDE DEF call, vendor
<1>5. /\ VendorsTable(rows') /\ Grows(rows, rows') /\ rows'.unsure = rows.unsure
      /\ (/\ Distinct(rows)
          /\ vendor.tin = NoText \/ GetVendorByTIN(rows, vendor.tin) = {}) => Distinct(rows')
  BY <1>1, <1>2, VendorAdded
<1>6. VendorAlone(rows, old) => VendorAlone(rows', call) BY <1>1, <1>4, <1>5 DEF VendorAlone
<1>7. VendorCall(rows', call) BY <1>4 DEF VendorCall, VendorOps
<1>8. Moved(c) /\ calls'[c] = call /\ part' = part
  BY <1>1, <1>4, Moves DEF VendorsInv
<1> QED BY <1>5, <1>6, <1>7, <1>8, VendorsStepped

LEMMA BatchFetches ==
    ASSUME VendorsInv, NEW c \in Callers, ClassifyFetches(c)
    PROVE  VendorsInv' /\ part' = part
<1> DEFINE old == calls[c]
           tin == Current(old).tin
<1>1. old.op = "classify" /\ old.at = "fetch" /\ rows' = rows BY DEF ClassifyFetches, At, Reads
<1>2. BatchOK(old) BY <1>1 DEF VendorsInv, VendorCall
<1>3. CASE Continue(c, [old EXCEPT !.at = "decide"])
  <2> DEFINE call == [old EXCEPT !.at = "decide"]
  <2>1. BatchOK(call) /\ call.op = "classify" /\ call.at = "decide" BY <1>1, <1>2, BatchGoesOn
  <2> HIDE DEF call
  <2>2. Continue(c, call) BY <1>3 DEF call
  <2> QED BY <1>1, <2>1, <2>2, BatchReads
<1>4. ASSUME NEW v \in GetVendorByTIN(rows, tin),
             Continue(c, [old EXCEPT !.at = "decide", !.known = With(@, tin, rows.vendors[v].atc)])
      PROVE  VendorsInv' /\ part' = part
  <2> DEFINE atc == rows.vendors[v].atc
             call == [old EXCEPT !.at = "decide", !.known = With(@, tin, atc)]
  <2>1. DOMAIN old = {"op", "at", "batch", "known", "rules", "results"} BY <1>2 DEF BatchOK
  <2>2. /\ DOMAIN call = DOMAIN old /\ call.at = "decide" /\ call.op = "classify"
        /\ call.batch = old.batch /\ call.results = old.results
        /\ call.known = With(old.known, tin, atc) /\ Continue(c, call)
    BY <1>1, <1>4, <2>1
  <2>3. tin \notin DOMAIN old.known BY <1>1, <1>2 DEF BatchOK
  <2> HIDE DEF call, atc, tin
  <2>4. /\ DOMAIN call.known = DOMAIN old.known \cup {tin}
        /\ \A t \in DOMAIN old.known : call.known[t] = old.known[t]
    BY <2>2, <2>3 DEF With
  <2>5. BatchOK(call) BY <1>1, <1>2, <2>2, <2>4 DEF BatchOK
  <2> QED BY <1>1, <2>2, <2>5, BatchReads
<1> QED BY <1>3, <1>4 DEF ClassifyFetches

LEMMA AppendToOne ==
    ASSUME NEW a, NEW b
    PROVE  Len(<<a>>) = 1 /\ Append(<<a>>, b) = <<a, b>>
<1> DEFINE T == {a, b}
           s == Append(<<a>>, b)
<1>1. <<a>> \in Seq(T) /\ Len(<<a>>) = 1 /\ b \in T /\ <<a>>[1] = a OBVIOUS
<1>2. s = [i \in 1..2 |-> IF i = 2 THEN b ELSE a]
  <2>1. s \in Seq(T) /\ Len(s) = 2 /\ s[1] = a /\ s[2] = b
    BY <1>1, AppendProperties
  <2>2. DOMAIN s = 1..2 /\ s = [i \in 1..2 |-> s[i]] BY <2>1
  <2>3. \A i \in 1..2 : s[i] = IF i = 2 THEN b ELSE a BY <2>1
  <2> HIDE DEF s
  <2> QED BY <2>2, <2>3
<1>3. <<a, b>> = [i \in 1..2 |-> IF i = 2 THEN b ELSE a] OBVIOUS
<1> QED BY <1>1, <1>2, <1>3

LEMMA BatchDecides ==
    ASSUME VendorsInv, NEW c \in Callers, ClassifyDecides(c)
    PROVE  VendorsInv' /\ part' = part
<1> DEFINE old == calls[c]
<1>1. PICK result \in ClassifyEWT(Current(old), old.known, old.rules) :
        Continue(c, [op |-> "classify", batch |-> old.batch, known |-> old.known,
                     rules |-> old.rules, results |-> Append(old.results, result),
                     at |-> IF Len(old.results) = 1 THEN "answered" ELSE "lookup"])
  BY DEF ClassifyDecides
<1>2. old.op = "classify" /\ old.at = "decide" /\ rows' = rows BY DEF ClassifyDecides, At, Reads
<1>3. BatchOK(old) BY <1>2 DEF VendorsInv, VendorCall
<1> DEFINE call == [op |-> "classify", batch |-> old.batch, known |-> old.known,
                    rules |-> old.rules,
                    results |-> Append(old.results, result),
                    at |-> IF Len(old.results) = 1 THEN "answered" ELSE "lookup"]
<1>4. /\ DOMAIN call = {"op", "at", "batch", "known", "rules", "results"} /\ call.op = "classify"
      /\ call.batch = old.batch /\ call.known = old.known
      /\ call.results = Append(old.results, result)
      /\ call.at = IF Len(old.results) = 1 THEN "answered" ELSE "lookup"
      /\ Continue(c, call)
  BY <1>1
<1> HIDE DEF call
<1> DEFINE tx == Current(old)
<1>5. /\ result.source = "vendor" =>
           /\ tx.tin \in DOMAIN old.known /\ KnownCode(old.known[tx.tin])
           /\ result = Classified(TRUE, old.known[tx.tin], "vendor")
      /\ (tx.tin \in DOMAIN old.known /\ KnownCode(old.known[tx.tin]) /\ ~tx.exempt) =>
           result = Classified(TRUE, old.known[tx.tin], "vendor")
  BY VendorDecides
<1>6. old.results = <<>> \/ old.results = <<old.results[1]>> BY <1>2, <1>3 DEF BatchOK
<1>7. CASE old.results = <<>>
  <2>1. Len(old.results) = 0 /\ Append(old.results, result) = <<result>> /\ tx = old.batch[1]
    BY <1>7 DEF Current
  <2>2. call.results = <<result>> /\ call.at = "lookup" BY <1>4, <2>1
  <2>3. call.results[1] = result /\ Len(call.results) = 1 /\ call.results # <<>> BY <2>2
  <2>4. BatchOK(call) BY <1>4, <1>5, <2>1, <2>2, <2>3 DEF BatchOK
  <2>5. call.at # "gone" /\ call.at # "insert" BY <2>2
  <2> QED BY <1>2, <1>4, <2>4, <2>5, BatchReads
<1>8. CASE old.results = <<old.results[1]>>
  <2> DEFINE first == old.results[1]
  <2>1. Len(old.results) = 1 /\ Append(old.results, result) = <<first, result>>
    <3>1. old.results = <<first>> BY <1>8
    <3> HIDE DEF first, old
    <3> QED BY <3>1, AppendToOne
  <2>2. tx = old.batch[2] BY <2>1 DEF Current
  <2>3. call.results = <<first, result>> /\ call.at = "answered" BY <1>4, <2>1
  <2>4. call.results[1] = first /\ call.results[2] = result /\ Len(call.results) = 2 BY <2>3
  <2>5. first.source = "vendor" =>
           /\ old.batch[1].tin \in DOMAIN old.known /\ KnownCode(old.known[old.batch[1].tin])
           /\ first = Classified(TRUE, old.known[old.batch[1].tin], "vendor")
    <3>1. old.results # <<>> BY <2>1
    <3> QED BY <1>3, <3>1 DEF BatchOK
  <2> HIDE DEF first, tx
  <2>6. (old.batch[2].tin = old.batch[1].tin /\ first.source = "vendor" /\ ~old.batch[2].exempt)
           => result = first
    BY <1>5, <2>2, <2>5
  <2>7. BatchOK(call) BY <1>4, <2>3, <2>4, <2>5, <2>6 DEF BatchOK
  <2>8. call.at # "gone" /\ call.at # "insert" BY <2>3
  <2> QED BY <1>2, <1>4, <2>7, <2>8, BatchReads
<1> QED BY <1>6, <1>7, <1>8
----
(* A part of a sum, given as a table of its own. *)
LEMMA SumOfTable ==
    ASSUME NEW S, IsFiniteSet(S), NEW l, NEW m, DOMAIN m = S, \A s \in S : m[s] = l[s]
    PROVE  SumLines(m) = SetSum(l, S)
<1>1. SumLines(m) = SetSum(m, S) BY SumLinesIs
<1>2. SetSum(m, S) = SetSum(l, S) BY SumAgrees
<1> QED BY <1>1, <1>2

(* The tax by code and the tax of the certificates come to the same. *)
LEMMA AlphalistMeets ==
    ASSUME NEW db, VendorsTable(db), NEW period, Len(db.certificates) <= MaxListed
    PROVE  LET entries == SAWT(db, ListWithholdingByCompany(db, MaxListed), period)
               all == {k \in 1..Len(db.certificates) :
                          period \in {NoText, db.certificates[k].period}}
           IN  SumLines([code \in DOMAIN entries |-> entries[code].tax])
                  = SumLines([k \in all |-> db.certificates[k].tax])
<1> DEFINE s == db.certificates
           T == [vendor : Nat, atc : ATCs, period : {"p1", "p2"}, income : Int, tax : Int]
           all == {k \in 1..Len(s) : period \in {NoText, s[k].period}}
           listed == ListWithholdingByCompany(db, MaxListed)
           entries == SAWT(db, listed, period)
           taxes == [k \in all |-> s[k].tax]
           key == [k \in all |-> s[k].atc]
           codes == {key[k] : k \in all}
           byCode == [code \in DOMAIN entries |-> entries[code].tax]
<1>1. Len(s) \in Nat /\ DOMAIN s = 1..Len(s) /\ \A k \in 1..Len(s) : s[k] \in T
  <2>1. s \in Seq(T) BY DEF VendorsTable
  <2> HIDE DEF s, T
  <2> QED BY <2>1
<1>2. \A k \in all : s[k].tax \in Int
  <2>1. \A k \in all : s[k] \in T BY <1>1
  <2> HIDE DEF all, s
  <2> QED BY <2>1
<1>3. listed = 1..Len(s)
  <2>1. listed = {k \in 1..Len(s) : k > Len(s) - MaxListed} BY <1>1 DEF ListWithholdingByCompany
  <2>2. Len(s) - MaxListed <= 0 /\ Len(s) - MaxListed \in Int BY <1>1, PurchasingAssumption
  <2> HIDE DEF s, listed
  <2>3. \A k \in 1..Len(s) : k > Len(s) - MaxListed BY <1>1, <2>2, PurchasingAssumption
  <2> QED BY <2>1, <2>3
<1>4. {k \in listed : period \in {NoText, s[k].period}} = all BY <1>3
<1>5. entries = [code \in {s[k].atc : k \in all} |->
                    [income |-> SumLines([k \in {i \in all : s[i].atc = code} |-> s[k].income]),
                     tax |-> SumLines([k \in {i \in all : s[i].atc = code} |-> s[k].tax])]]
  <2> HIDE DEF listed
  <2> QED BY <1>4 DEF SAWT
<1>6. IsFiniteSet(all)
  <2>1. IsFiniteSet(1..Len(s)) /\ all \subseteq 1..Len(s) BY <1>1, FS_Interval
  <2> HIDE DEF all, s
  <2> QED BY <2>1, FS_Subset
<1>7. \A k \in all : taxes[k] \in Int /\ key[k] \in codes /\ taxes[k] = s[k].tax BY <1>2
<1>8. IsFiniteSet(codes)
  <2>1. \A t \in codes : \E k \in all : key[k] = t OBVIOUS
  <2> HIDE DEF all, key, codes
  <2> QED BY <1>6, <2>1, ImageFinite
<1>9. DOMAIN byCode = codes BY <1>5
<1>10. ASSUME NEW code \in codes PROVE  byCode[code] = SetSum(taxes, Group(all, key, code))
  <2> DEFINE G == {i \in all : s[i].atc = code}
             own == [k \in G |-> s[k].tax]
  <2>1. byCode[code] = SumLines(own)
    <3>1. code \in DOMAIN entries /\ byCode[code] = entries[code].tax BY <1>9
    <3>2. entries[code] = [income |-> SumLines([k \in G |-> s[k].income]), tax |-> SumLines(own)]
      <4> HIDE DEF entries, byCode, all
      <4> QED BY <1>5 DEF codes, key
    <3> HIDE DEF entries, byCode, own
    <3> QED BY <3>1, <3>2
  <2>2. G = Group(all, key, code) /\ G \subseteq all BY DEF Group
  <2>3. DOMAIN own = G /\ \A k \in G : own[k] = taxes[k] OBVIOUS
  <2> HIDE DEF G, own, taxes, all
  <2>4. IsFiniteSet(G) BY <1>6, <2>2, FS_Subset
  <2>5. SumLines(own) = SetSum(taxes, G) BY <2>3, <2>4, SumOfTable
  <2> QED BY <2>1, <2>2, <2>5
<1>11. DOMAIN taxes = all OBVIOUS
<1> HIDE DEF taxes, all, key, codes, byCode, entries, listed, s
<1>12. SetSum(byCode, codes) = SetSum(taxes, all) BY <1>6, <1>7, <1>8, <1>10, SumOfGroups
<1>13. SumLines(byCode) = SetSum(byCode, codes) /\ SumLines(taxes) = SetSum(taxes, all)
  BY <1>9, <1>11, SumLinesIs
<1>14. SumLines(byCode) = SumLines(taxes) BY <1>12, <1>13
<1> QED BY <1>14 DEF byCode, taxes, entries, all, listed, s

LEMMA VendorsKept ==
    ASSUME VendorsInv, part = "vendors", PurchasingNext
    PROVE  VendorsInv' /\ part' = part
BY VendorsActions, VendorBegins, VendorInserted, VendorPatched, VendorWritten, VendorReread,
   VendorDeleteBegins, VendorGoes, VendorsShown, CertificateMade, CertificateShown, AlphalistMade,
   BatchBegins, BatchLooksUp, BatchChecks, BatchInserts, BatchFetches, BatchDecides

(* What the invariant says of what is promised. *)
LEMMA VendorsTold ==
    ASSUME VendorsInv
    PROVE  VendorsDistinct /\ BatchesConsistent /\ AlphalistComplete
<1>1. Gone.op = "none" BY DEF Gone
<1>2. ASSUME Alone
      PROVE  \E c \in Callers : /\ VendorAlone(rows, calls[c])
                                /\ \A d \in Callers \ {c} : calls[d].op = "none"
  BY <1>1, <1>2 DEF Alone, VendorsInv
<1>3. ASSUME Alone, ~rows.unsure, NEW tin \in TINs \ {NoText}
      PROVE  Cardinality(GetVendorByTIN(rows, tin)) <= 1
  <2> DEFINE found == GetVendorByTIN(rows, tin)
  <2>1. Distinct(rows) BY <1>2, <1>3 DEF VendorAlone
  <2>2. \A v, w \in found : v = w BY <2>1 DEF GetVendorByTIN, Distinct
  <2>3. IsFiniteSet(found)
    <3>1. rows.made \in Nat /\ found \subseteq 1..rows.made
      BY DEF VendorsInv, VendorsTable, GetVendorByTIN
    <3> HIDE DEF found
    <3>2. IsFiniteSet(1..rows.made) BY <3>1, FS_Interval
    <3> QED BY <3>1, <3>2, FS_Subset
  <2> HIDE DEF found
  <2>4. Cardinality(found) < 2 /\ Cardinality(found) \in Nat
    BY <2>2, <2>3, NoTwoMembers, FS_CardinalityType
  <2>5. Cardinality(found) <= 1 BY <2>4
  <2> QED BY <2>5 DEF found
<1>4. \A k \in DOMAIN rows.certificates : GetVendorByID(rows, rows.certificates[k].vendor) # {}
  BY DEF VendorsInv, VendorsTable, GetVendorByID
<1>5. \A c \in Callers : calls[c].op = "download" /\ "printed" \in DOMAIN calls[c] => calls[c].printed
  BY DEF VendorsInv, VendorCall
<1>6. VendorsDistinct BY <1>3, <1>4, <1>5 DEF VendorsDistinct
<1>7. BatchesConsistent BY DEF BatchesConsistent, VendorsInv, VendorCall, BatchOK
<1>8. AlphalistComplete
  <2> SUFFICES ASSUME NEW c \in Callers, calls[c].op = "sawt", calls[c].at = "answered",
                      Alone, calls[c].total <= MaxListed PROVE  LET entries == calls[c].entries
                          all == {k \in 1..calls[c].total :
                                     calls[c].period \in {NoText, rows.certificates[k].period}}
                      IN  SumLines([code \in DOMAIN entries |-> entries[code].tax])
                              = SumLines([k \in all |-> rows.certificates[k].tax])
    BY DEF AlphalistComplete
  <2>1. VendorAlone(rows, calls[c]) BY <1>2
  <2>2. /\ calls[c].total = Len(rows.certificates)
        /\ calls[c].entries = SAWT(rows, ListWithholdingByCompany(rows, MaxListed), calls[c].period)
    BY <2>1 DEF VendorAlone
  <2>3. VendorsTable(rows) BY DEF VendorsInv
  <2> QED BY <2>2, <2>3, AlphalistMeets
<1> QED BY <1>6, <1>7, <1>8

LEMMA VendorsStarted ==
    ASSUME part = "vendors", PurchasingInit
    PROVE  VendorsInv
<1>1. VendorsStart(rows) /\ calls \in [Callers -> {NoCall, Gone}]
  BY DEF PurchasingInit, RequestsInit
<1>2. VendorsTable(rows) /\ Distinct(rows)
  BY <1>1 DEF VendorsStart, VendorsTable, Distinct
<1>3. ASSUME NEW c \in Callers PROVE  VendorCall(rows, calls[c]) /\ VendorAlone(rows, calls[c])
  BY <1>1, <1>2 DEF NoCall, Gone, VendorCall, VendorOps, VendorAlone
<1> QED BY <1>1, <1>2, <1>3 DEF VendorsInv

----
(* Invoices add up to their items, are short of items only while they are made
   or where making them failed, and are read whole, numbered and deleted as
   promised to who is alone; vendors keep TINs of their own and certificates
   their vendors; a batch decides its payments alike; and the alphalist counts
   the tax of every certificate.  All of the invoices' and the vendors' part. *)
THEOREM PurchasingSafe == PurchasingSpec => []PurchasingSound
<1>1. PurchasingInit => PurchasingInv
  BY InvoicesStarted, VendorsStarted DEF PurchasingInit, PurchasingInv
<1>2. PurchasingInv /\ [PurchasingNext]_requestVars => PurchasingInv'
  <2> SUFFICES ASSUME PurchasingInv, [PurchasingNext]_requestVars PROVE  PurchasingInv' OBVIOUS
  <2>1. CASE PurchasingNext
    BY <2>1, InvoicesKept, VendorsKept DEF PurchasingInv, PurchasingParts
  <2>2. CASE UNCHANGED requestVars
    BY <2>2 DEF requestVars, PurchasingInv, InvoicesInv, VendorsInv, At
  <2> QED BY <2>1, <2>2
<1>3. PurchasingInv => PurchasingSound
  BY InvoicesTold, VendorsTold DEF PurchasingInv, PurchasingSound
<1> QED BY <1>1, <1>2, <1>3, PTL DEF PurchasingSpec

----
(* Learning.  What each of its parts keeps: its tables, what a request carries,
   and what else holds of the one request that is served when it is alone. *)
OnlyOne(c) == \A d \in Callers \ {c} : calls[d] = Gone

PreferenceOps == {"none", "prefer", "preference", "unprefer"}

PreferenceAlone(db, call) ==
    ~db.blind =>
        /\ db.kept \subseteq DOMAIN db.pref
        /\ (call.op = "prefer" /\ call.at = "write") =>
             db.kept \subseteq DOMAIN call.merged /\ call.key \in DOMAIN call.merged
        /\ (call.op = "prefer" /\ call.at = "reread") => call.key \in DOMAIN db.pref

PreferencesTable(db) == DOMAIN db = {"pref", "kept", "blind"} /\ db.blind \in BOOLEAN

PreferencesInv ==
    /\ PreferencesTable(rows)
    /\ DOMAIN calls = Callers /\ \A c \in Callers : calls[c].op \in PreferenceOps
    /\ \A c \in Callers : OnlyOne(c) => PreferenceAlone(rows, calls[c])

TagOps == {"none", "tag", "retag", "untag", "tags", "settags", "project", "seed"}

TagsTable(db) ==
    /\ DOMAIN db = {"tags", "links", "made"}
    /\ db.made \in Nat /\ DOMAIN db.tags \subseteq 1..db.made
    /\ \A t \in DOMAIN db.tags : DOMAIN db.tags[t] = {"name", "project"}
    /\ \A l \in db.links : l[2] \in DOMAIN db.tags

TagCall(call) ==
    /\ call.op \in TagOps
    /\ (call.op = "settags" /\ call.at = "add") =>
         /\ DOMAIN call = {"op", "at", "txn", "asked", "rest"}
         /\ call.rest \subseteq Nat /\ call.rest \subseteq call.asked
    /\ (call.op = "project" /\ call.at = "link") =>
         DOMAIN call = {"op", "at", "txn", "name", "tag"}
    /\ (call.op = "seed" /\ call.at = "upsert") => DOMAIN call = {"op", "at", "rest"}

TagAlone(db, call) ==
    /\ call.op = "settags" =>
         /\ call.at = "add" => ListTagsForTransaction(db, call.txn) = call.asked \ call.rest
         /\ "listed" \in DOMAIN call => call.listed = call.asked
    /\ call.op = "project" =>
         /\ call.at = "link" => /\ call.tag \in DOMAIN db.tags /\ db.tags[call.tag].project
                                /\ db.tags[call.tag].name = call.name
         /\ (call.at = "answered" /\ "tag" \in DOMAIN call) =>
              /\ <<call.txn, call.tag>> \in db.links
              /\ call.name \in ListProjectTagsByCompany(db)

TagsInv ==
    /\ TagsTable(rows)
    /\ DOMAIN calls = Callers /\ \A c \in Callers : TagCall(calls[c])
    /\ \A c \in Callers : OnlyOne(c) => TagAlone(rows, calls[c])

KnowledgeOps == {"none", "chunk", "ask", "base", "backfill"}

KnowledgeTable(db) ==
    /\ DOMAIN db = {"chunks"}
    /\ db.chunks \in Seq([category : STRING, jurisdiction : STRING, embedded : BOOLEAN])

AllOf(db, found, j) == \A k \in found : k \in DOMAIN db.chunks /\ db.chunks[k].jurisdiction = j

KnowledgeCall(db, call) ==
    /\ call.op \in KnowledgeOps
    /\ call.op = "ask" =>
         /\ call.at \in {"filtered", "similar", "fallback", "answered"}
         /\ call.at # "answered" =>
              DOMAIN call = {"op", "category", "j", "whole", "there", "at"}
         /\ AllOf(db, call.there, call.j) /\ call.whole \in BOOLEAN
         /\ (call.at = "fallback" /\ call.whole) => call.there = {}
         /\ (call.at = "answered" /\ call.whole /\ call.there # {}) =>
              call.found # {} /\ AllOf(db, call.found, call.j)
    /\ (call.op = "backfill" /\ call.at = "embed") =>
         DOMAIN call = {"op", "at", "rest"} /\ call.rest \subseteq DOMAIN db.chunks

KnowledgeAlone(db, call) ==
    call.op = "base" =>
        /\ call.at \in {"embedded", "categories"} => call.total = Len(db.chunks)
        /\ call.at \in {"categories", "answered"} => call.embedded <= call.total
        /\ call.at = "answered" => call.total = call.sum

KnowledgeInv ==
    /\ KnowledgeTable(rows)
    /\ DOMAIN calls = Callers /\ \A c \in Callers : KnowledgeCall(rows, calls[c])
    /\ \A c \in Callers : OnlyOne(c) => KnowledgeAlone(rows, calls[c])

(* What one transaction may get. *)
ResultOK(tx, j, rules, missed, r) ==
    /\ ClassifyWithoutModel(tx, j, rules, missed) # {}
          => r \in ClassifyWithoutModel(tx, j, rules, missed)
    /\ (tx.purchase /\ r.source \notin {"learned", "vendor"}) => r.category # "sale"
    /\ r.source = "llm" => r.vat \in ToSet(VATTypes[j])

(* What a request has left is for the model; the others have their results. *)
ClassesCall(call) ==
    /\ DOMAIN call = {"op", "at", "batch", "j", "rules", "missed", "rest", "results"}
    /\ call.at \in {"model", "answered"}
    /\ call.at = "answered" => call.rest = {}
    /\ call.j \in DOMAIN VATTypes
    /\ call.rest \subseteq DOMAIN call.batch
    /\ DOMAIN call.results = DOMAIN call.batch \ call.rest
    /\ \A i \in call.rest :
         ClassifyWithoutModel(call.batch[i], call.j, call.rules, i \in call.missed) = {}
    /\ \A i \in DOMAIN call.results :
         ResultOK(call.batch[i], call.j, call.rules, i \in call.missed, call.results[i])

ClassifyInv ==
    /\ DOMAIN calls = Callers
    /\ \A c \in Callers : /\ calls[c].op \in {"none", "classes"}
                          /\ calls[c].op = "classes" => ClassesCall(calls[c])

PolicyOps == {"none", "accept", "corrected", "match", "defaults", "promote", "suggest", "drop",
              "policies"}

Numbered(policy) ==
    /\ DOMAIN policy = {"vendor", "aliases", "category", "usage", "accept", "corr", "conf"}
    /\ policy.usage \in Nat /\ policy.accept \in Nat /\ policy.corr \in Nat

PoliciesTable(db) ==
    /\ DOMAIN db = {"policies", "made", "lost", "dropped"}
    /\ db.made \in Nat /\ DOMAIN db.policies \subseteq 1..db.made
    /\ db.lost \in Seq(STRING) /\ db.dropped \in BOOLEAN
    /\ \A p \in DOMAIN db.policies : Numbered(db.policies[p])

(* Corrections of a vendor that have made their first statement only: those
   under way, and those whose second one failed. *)
Half(call) == call.op = "corrected" /\ call.at = "increment"
Underway(requests, name) ==
    {c \in Callers : Half(requests[c]) /\ requests[c].name = name}
PolicyCall(call) ==
    /\ call.op \in PolicyOps
    /\ Half(call) => call.name \in STRING
    /\ (call.op = "match" /\ call.at = "alias") => DOMAIN call = {"op", "at", "text"}

Lost(db, name) == {i \in DOMAIN db.lost : db.lost[i] = name}

Explained(policy, halves) == policy.usage = policy.accept + 2 * policy.corr + halves

Confident(policy) ==
    policy.conf \in {<<1, 1>>, <<1, 2>>} \/ policy.conf = <<policy.accept, policy.accept + policy.corr>>

PoliciesInv ==
    /\ PoliciesTable(rows)
    /\ DOMAIN calls = Callers
    /\ \A c \in Callers : PolicyCall(calls[c])
    /\ ~rows.dropped =>
         /\ \A p \in DOMAIN rows.policies :
              LET name == rows.policies[p].vendor
              IN  /\ Explained(rows.policies[p],
                               Cardinality(Underway(calls, name)) + Cardinality(Lost(rows, name)))
                  /\ Confident(rows.policies[p])
         /\ \A c \in Waiting("corrected", "increment") :
              GetVendorPolicy(rows, calls[c].name) # {}
         /\ \A i \in DOMAIN rows.lost : GetVendorPolicy(rows, rows.lost[i]) # {}

CorrectionOps == {"none", "correct", "mapping", "persist", "rule", "override", "list", "stats",
                  "learned", "entity"}

RuleRows == [on : {NoText, "desc"} \cup {k.on : k \in SentCandidates},
             field : {k.field : k \in Patterns \cup SentCandidates} \cup {"category"},
             value : {k.value : k \in Patterns \cup SentCandidates},
             kind : {"generic", "override", "client"}, source : Int, active : BOOLEAN]

(* A generic rule rests on so many corrections. *)
Backed(db, rule) ==
    rule.kind = "generic" =>
        /\ rule.on # "desc"
        /\ rule.source \in RuleThreshold..Alike(db.corrections, DOMAIN db.corrections,
                                               [field |-> rule.field, value |-> rule.value])

CorrectionsTable(db) ==
    /\ DOMAIN db = {"corrections", "rules", "analyses", "blind"}
    /\ db.corrections \in Seq(Patterns) /\ db.analyses \in Nat /\ db.blind \in BOOLEAN
    /\ db.rules \in Seq(RuleRows)
    /\ \A r \in DOMAIN db.rules : Backed(db, db.rules[r])

Persisting(call) == call.op \in {"correct", "persist"} /\ call.at = "persist"
Writing(call) == call.op \in {"rule", "override"} /\ call.at = "write"

CorrectionCall(db, call) ==
    /\ call.op \in CorrectionOps
    /\ Persisting(call) =>
         /\ DOMAIN call = {"op", "at", "rest", "kept"} /\ call.kept \in Nat
         /\ \A rule \in call.rest :
              /\ rule \in RuleRows /\ Backed(db, rule) /\ rule.active
              /\ call.op = "correct" => rule.kind = "generic"
         /\ call.op = "persist" => db.blind
    /\ Writing(call) =>
         /\ call.op = "rule" => call.id \in DOMAIN db.rules
         /\ call.id \in DOMAIN db.rules \cup {0}
         /\ call.rule \in RuleRows /\ Backed(db, call.rule)

Described(db) == FindCorrectionRuleByCompanyAndField(db, "category", "desc")

CorrectionAlone(db, call) ==
    ~db.blind =>
        /\ AnalyzeNewMin * db.analyses <= Len(db.corrections)
        /\ RuleThreshold * db.analyses <= Covered(db)
        /\ \A r, s \in Described(db) : r = s
        /\ call.op = "correct" =>
             /\ call.at = "cover" => call.total = Len(db.corrections)
             /\ call.at \in {"analyze", "persist"} =>
                  AnalyzeNewMin * (db.analyses + 1) <= Len(db.corrections)
             /\ (call.at = "persist" /\ call.kept # 0) =>
                  RuleThreshold * (db.analyses + 1) <= Covered(db)
        /\ (call.op = "override" /\ call.at = "write") =>
             IF call.id = 0 THEN Described(db) = {} /\ call.rule.source = 1
             ELSE /\ call.id \in Described(db) /\ call.rule.active
                  /\ call.rule.on = "desc" /\ call.rule.field = "category"
                  /\ call.rule.source = db.rules[call.id].source + 1

CorrectionsInv ==
    /\ CorrectionsTable(rows)
    /\ DOMAIN calls = Callers /\ \A c \in Callers : CorrectionCall(rows, calls[c])
    /\ \A c \in Callers : OnlyOne(c) => CorrectionAlone(rows, calls[c])

LearningInv ==
    /\ part \in LearningParts
    /\ part = "corrections" => CorrectionsInv
    /\ part = "policies" => PoliciesInv
    /\ part = "tags" => TagsInv
    /\ part = "preferences" => PreferencesInv
    /\ part = "knowledge" => KnowledgeInv
    /\ part = "classify" => ClassifyInv

(* A request moves, and the others stay as they are; who is alone is the one
   that moves. *)
LEMMA OthersStay ==
    ASSUME DOMAIN calls = Callers, NEW c \in Callers, NEW call, calls[c].at # "gone",
           call.at # "gone", Begin(c, call) \/ Continue(c, call)
    PROVE  /\ part' = part /\ DOMAIN calls' = Callers /\ calls'[c] = call
           /\ \A d \in Callers \ {c} : calls'[d] = calls[d]
           /\ \A e \in Callers : OnlyOne(e)' => e = c /\ OnlyOne(c)
<1>1. Moved(c) /\ calls'[c] = call /\ part' = part BY Moves
<1>2. ASSUME NEW e \in Callers, OnlyOne(e)' PROVE e = c /\ OnlyOne(c)
  BY <1>2, <1>1 DEF Gone, OnlyOne, Moved
<1> QED BY <1>1, <1>2 DEF Moved

LEMMA AnswerIs ==
    ASSUME NEW op, NEW status
    PROVE  /\ Answered(op, status).op = op /\ Answered(op, status).at = "answered"
           /\ DOMAIN Answered(op, status) = {"op", "at", "status"}
BY DEF Answered

----
(* Preferences. *)
LEMMA PreferencesStepped ==
    ASSUME PreferencesInv, NEW c \in Callers, NEW call, calls[c].at # "gone",
           call.at # "gone", Begin(c, call) \/ Continue(c, call),
           PreferencesTable(rows'), call.op \in PreferenceOps,
           OnlyOne(c) => (PreferenceAlone(rows, calls[c]) => PreferenceAlone(rows', call))
    PROVE  PreferencesInv' /\ part' = part
BY OthersStay DEF PreferencesInv

LEMMA PreferencesKeep ==
    ASSUME PreferencesInv, NEW c \in Callers, PreferencesNext(c)
    PROVE  PreferencesInv' /\ part' = part
<1> DEFINE old == calls[c]
<1>0. PreferencesTable(rows) /\ old.op \in PreferenceOps BY DEF PreferencesInv
<1>1. CASE UpsertPreference(c)
  <2>1. PICK k \in PrefKeys, v \in 1..2, failed \in BOOLEAN :
          /\ rows' = [rows EXCEPT !.blind = @ \/ failed]
          /\ Begin(c, [op |-> "prefer", at |-> "write", key |-> k,
                       merged |-> With(IF failed THEN NoPref
                                       ELSE GetUserPreferenceByCompanyAndType(rows), k, v)])
    BY <1>1 DEF UpsertPreference, Store
  <2> DEFINE merged == With(IF failed THEN NoPref
                            ELSE GetUserPreferenceByCompanyAndType(rows), k, v)
             call == [op |-> "prefer", at |-> "write", key |-> k, merged |-> merged]
  <2>2. k \in DOMAIN merged /\ (~failed => DOMAIN rows.pref \subseteq DOMAIN merged)
    BY DEF With, GetUserPreferenceByCompanyAndType
  <2> HIDE DEF merged
  <2>3. /\ call.op = "prefer" /\ call.at = "write" /\ call.key = k /\ call.merged = merged
    OBVIOUS
  <2>4. Begin(c, call) BY <2>1 DEF merged
  <2> HIDE DEF call
  <2>5. /\ PreferencesTable(rows') /\ rows'.pref = rows.pref /\ rows'.kept = rows.kept
        /\ ~rows'.blind => ~rows.blind /\ ~failed
    BY <1>0, <2>1 DEF PreferencesTable
  <2>6. PreferenceAlone(rows, old) => PreferenceAlone(rows', call)
    BY <2>2, <2>3, <2>5 DEF PreferenceAlone
  <2>7. calls[c].at # "gone" /\ call.at # "gone" /\ call.op \in PreferenceOps
    BY <1>1, <2>3 DEF UpsertPreference, Free, PreferenceOps
  <2> QED BY <2>4, <2>5, <2>6, <2>7, PreferencesStepped
<1>2. CASE UpsertPreferenceWrites(c)
  <2> DEFINE call == [op |-> "prefer", at |-> "reread", key |-> old.key]
  <2>1. /\ rows' = [rows EXCEPT !.pref = old.merged] /\ Continue(c, call)
        /\ old.op = "prefer" /\ old.at = "write"
    BY <1>2 DEF UpsertPreferenceWrites, Store, UpsertUserPreference, At
  <2>2. call.op = "prefer" /\ call.at = "reread" /\ call.key = old.key OBVIOUS
  <2> HIDE DEF call
  <2>3. /\ PreferencesTable(rows') /\ rows'.pref = old.merged /\ rows'.kept = rows.kept
        /\ rows'.blind = rows.blind
    BY <1>0, <2>1 DEF PreferencesTable
  <2>4. PreferenceAlone(rows, old) => PreferenceAlone(rows', call)
    BY <2>1, <2>2, <2>3 DEF PreferenceAlone
  <2> QED BY <2>1, <2>2, <2>3, <2>4, PreferencesStepped DEF PreferenceOps
<1>3. CASE UpsertPreferenceRereads(c)
  <2>1. old.op = "prefer" /\ old.at = "reread" BY <1>3 DEF UpsertPreferenceRereads, At
  <2>2. PICK status : /\ Continue(c, Answered("prefer", status))
                      /\ rows' = rows \/ rows' = [rows EXCEPT !.kept = @ \cup {old.key}]
    BY <1>3, <2>1 DEF UpsertPreferenceRereads, Store, Reads, Answer
  <2> DEFINE call == Answered("prefer", status)
  <2>3. call.op = "prefer" /\ call.at = "answered" BY AnswerIs
  <2> HIDE DEF call
  <2>4. /\ PreferencesTable(rows') /\ rows'.pref = rows.pref
        /\ rows'.kept \subseteq rows.kept \cup {old.key} /\ rows'.blind = rows.blind
    BY <1>0, <2>2 DEF PreferencesTable
  <2>5. PreferenceAlone(rows, old) => PreferenceAlone(rows', call)
    BY <2>1, <2>3, <2>4 DEF PreferenceAlone
  <2>6. Continue(c, call) BY <2>2 DEF call
  <2> QED BY <2>1, <2>3, <2>4, <2>5, <2>6, PreferencesStepped DEF PreferenceOps
<1>4. CASE GetPreference(c) \/ DeletePreference(c)
  <2>1. /\ old.at # "gone"
        /\ \E op, status : op \in {"preference", "unprefer"} /\ Begin(c, Answered(op, status))
    BY <1>4 DEF GetPreference, DeletePreference, Free, AnswerAtOnce
  <2>2. PICK op, status : op \in {"preference", "unprefer"} /\ Begin(c, Answered(op, status))
    BY <2>1
  <2> DEFINE call == Answered(op, status)
  <2>3. call.op = op /\ call.at = "answered" /\ op \in PreferenceOps /\ op # "prefer"
    BY <2>2, AnswerIs DEF PreferenceOps
  <2> HIDE DEF call
  <2>4. rows' = rows \/ rows' = [rows EXCEPT !.pref = NoPref, !.kept = {}]
    BY <1>4 DEF GetPreference, DeletePreference, Reads, Store, DeleteUserPreference
  <2>5. /\ PreferencesTable(rows') /\ rows'.blind = rows.blind
        /\ \/ rows'.kept = rows.kept /\ rows'.pref = rows.pref
           \/ rows'.kept = {}
    BY <1>0, <2>4 DEF PreferencesTable
  <2>6. PreferenceAlone(rows, old) => PreferenceAlone(rows', call) BY <2>3, <2>5 DEF PreferenceAlone
  <2>7. Begin(c, call) BY <2>2 DEF call
  <2> QED BY <2>1, <2>3, <2>5, <2>6, <2>7, PreferencesStepped
<1> QED BY <1>1, <1>2, <1>3, <1>4 DEF PreferencesNext

LEMMA PreferencesTold ==
    ASSUME PreferencesInv
    PROVE  PreferencesKept
BY DEF PreferencesInv, PreferencesKept, Alone, OnlyOne, PreferenceAlone

LEMMA PreferencesStarted ==
    ASSUME PreferencesStart(rows), RequestsInit
    PROVE  PreferencesInv
<1>1. DOMAIN calls = Callers /\ \A c \in Callers : calls[c].op = "none"
  BY DEF RequestsInit, NoCall, Gone
<1> QED BY <1>1 DEF PreferencesStart, PreferencesInv, PreferencesTable, PreferenceOps, PreferenceAlone

----
(* Tags. *)
LEMMA TagsStepped ==
    ASSUME TagsInv, NEW c \in Callers, NEW call, calls[c].at # "gone",
           call.at # "gone", Begin(c, call) \/ Continue(c, call),
           TagsTable(rows'), TagCall(call),
           OnlyOne(c) => (TagAlone(rows, calls[c]) => TagAlone(rows', call))
    PROVE  TagsInv' /\ part' = part
BY OthersStay DEF TagsInv

(* A request that asks for nothing of its own. *)
LEMMA TagsAnswered ==
    ASSUME TagsInv, NEW c \in Callers, NEW call, calls[c].at # "gone",
           call.at = "answered", Begin(c, call) \/ Continue(c, call),
           TagsTable(rows'), call.op \in TagOps, DOMAIN call = {"op", "at", "status"}
    PROVE  TagsInv' /\ part' = part
<1>1. TagCall(call) /\ TagAlone(rows', call) /\ call.at # "gone" BY DEF TagCall, TagAlone
<1> QED BY <1>1, TagsStepped

LEMMA TagAdded ==
    ASSUME NEW db, TagsTable(db), NEW tag, DOMAIN tag = {"name", "project"}
    PROVE  LET to == CreateTag(db, tag)
           IN  /\ TagsTable(to) /\ to.links = db.links
               /\ DOMAIN to.tags = DOMAIN db.tags \cup {db.made + 1} /\ to.tags[db.made + 1] = tag
<1> DEFINE to == CreateTag(db, tag)
           new == db.made + 1
<1>1. /\ DOMAIN to = DOMAIN db /\ to.tags = With(db.tags, new, tag) /\ to.made = db.made + 1
      /\ to.links = db.links
  BY DEF CreateTag, TagsTable
<1> HIDE DEF to
<1>2. db.made \in Nat /\ DOMAIN db.tags \subseteq 1..db.made BY DEF TagsTable
<1>3. new \notin DOMAIN db.tags BY <1>2
<1>4. DOMAIN to.tags \subseteq 1..to.made /\ to.made \in Nat BY <1>1, <1>2 DEF With
<1> HIDE DEF new
<1>5. /\ DOMAIN to.tags = DOMAIN db.tags \cup {new} /\ to.tags[new] = tag
      /\ \A t \in DOMAIN db.tags : to.tags[t] = db.tags[t]
  BY <1>1, <1>3 DEF With
<1>6. TagsTable(to) BY <1>1, <1>4, <1>5 DEF TagsTable
<1> QED BY <1>1, <1>5, <1>6 DEF to, new

(* A project's tag is there after it is upserted, and the others stay. *)
LEMMA ProjectUpserted ==
    ASSUME NEW db, TagsTable(db), NEW name
    PROVE  LET to == UpsertProjectTag(db, name)
           IN  /\ TagsTable(to) /\ to.links = db.links
               /\ TagNamed(to, name) # {}
               /\ \A t \in TagNamed(to, name) : to.tags[t].project
<1> DEFINE to == UpsertProjectTag(db, name)
<1>1. CASE TagNamed(db, name) = {}
  <2> DEFINE tag == [name |-> name, project |-> TRUE]
             new == db.made + 1
  <2>1. DOMAIN tag = {"name", "project"} /\ tag.name = name /\ tag.project OBVIOUS
  <2>2. to = CreateTag(db, tag) BY <1>1 DEF UpsertProjectTag
  <2> HIDE DEF to, tag
  <2>3. /\ TagsTable(to) /\ to.links = db.links
        /\ DOMAIN to.tags = DOMAIN db.tags \cup {new} /\ to.tags[new] = tag
    BY <2>1, <2>2, TagAdded
  <2>4. to.tags = With(db.tags, new, tag) BY <2>2 DEF CreateTag, TagsTable
  <2>5. \A t \in DOMAIN db.tags : db.tags[t].name # name BY <1>1 DEF TagNamed
  <2> HIDE DEF new
  <2>6. \A t \in DOMAIN db.tags \ {new} : to.tags[t] = db.tags[t] BY <2>4 DEF With
  <2>7. TagNamed(to, name) # {} /\ \A t \in TagNamed(to, name) : to.tags[t].project
    BY <2>1, <2>3, <2>5, <2>6 DEF TagNamed
  <2> QED BY <2>3, <2>7 DEF to
<1>2. CASE TagNamed(db, name) # {}
  <2> DEFINE tags == [t \in DOMAIN db.tags |-> IF db.tags[t].name = name
                         THEN [db.tags[t] EXCEPT !.project = TRUE] ELSE db.tags[t]]
  <2>1. to = [db EXCEPT !.tags = tags] BY <1>2 DEF UpsertProjectTag
  <2>2. /\ DOMAIN tags = DOMAIN db.tags
        /\ \A t \in DOMAIN db.tags :
             /\ DOMAIN tags[t] = {"name", "project"} /\ tags[t].name = db.tags[t].name
             /\ db.tags[t].name = name => tags[t].project
    BY DEF TagsTable
  <2> HIDE DEF tags, to
  <2>3. DOMAIN to = DOMAIN db /\ to.tags = tags /\ to.made = db.made /\ to.links = db.links
    BY <2>1 DEF TagsTable
  <2>4. TagsTable(to) BY <2>2, <2>3 DEF TagsTable
  <2>5. TagNamed(to, name) = TagNamed(db, name) BY <2>2, <2>3 DEF TagNamed
  <2>6. \A t \in TagNamed(to, name) : to.tags[t].project BY <2>2, <2>3, <2>5 DEF TagNamed
  <2> QED BY <1>2, <2>3, <2>4, <2>5, <2>6 DEF to
<1> QED BY <1>1, <1>2

(* Of a set of natural numbers that is not empty the least is a member. *)
LEMMA MinIs ==
    ASSUME NEW S, S \subseteq Nat, S # {}
    PROVE  Min(S) \in S
<1>1. PICK m \in S : \A y \in S : m <= y BY HasLeast
<1> QED BY <1>1 DEF Min

LEMMA TagsLinked ==
    ASSUME TagsInv, NEW x, NEW t, CanAddTransactionTag(rows, t), rows' = AddTransactionTag(rows, x, t)
    PROVE  /\ TagsTable(rows') /\ rows'.links = rows.links \cup {<<x, t>>} /\ rows'.tags = rows.tags
           /\ ListTagsForTransaction(rows', x) = ListTagsForTransaction(rows, x) \cup {t}
<1>1. /\ DOMAIN rows' = DOMAIN rows /\ rows'.links = rows.links \cup {<<x, t>>}
      /\ rows'.tags = rows.tags /\ rows'.made = rows.made /\ t \in DOMAIN rows.tags
  BY DEF TagsInv, TagsTable, AddTransactionTag, CanAddTransactionTag
<1>2. TagsTable(rows') BY <1>1 DEF TagsInv, TagsTable
<1>3. ListTagsForTransaction(rows', x) = ListTagsForTransaction(rows, x) \cup {t}
  <2> DEFINE new == <<x, t>>
  <2>1. new[1] = x /\ new[2] = t /\ rows'.links = rows.links \cup {new} BY <1>1
  <2> HIDE DEF new
  <2> QED BY <2>1 DEF ListTagsForTransaction
<1> QED BY <1>1, <1>2, <1>3

LEMMA TagsEdited ==
    ASSUME TagsInv, NEW c \in Callers,
           TagCreate(c) \/ TagUpdate(c) \/ TagDelete(c)
    PROVE  TagsInv' /\ part' = part
<1>0. TagsTable(rows) /\ calls[c].at # "gone" BY DEF TagsInv, TagCreate, TagUpdate, TagDelete, Free
<1>1. \E op, status : op \in {"tag", "retag", "untag"} /\ Begin(c, Answered(op, status))
  <2>1. CASE TagCreate(c) BY <2>1 DEF TagCreate, AnswerAtOnce
  <2>2. CASE TagUpdate(c) BY <2>2 DEF TagUpdate, AnswerAtOnce
  <2>3. CASE TagDelete(c) BY <2>3 DEF TagDelete, AnswerAtOnce
  <2> QED BY <2>1, <2>2, <2>3
<1>2. PICK op, status : op \in {"tag", "retag", "untag"} /\ Begin(c, Answered(op, status)) BY <1>1
<1> DEFINE call == Answered(op, status)
<1>3. call.op \in TagOps /\ call.at = "answered" /\ DOMAIN call = {"op", "at", "status"}
  BY <1>2, AnswerIs DEF TagOps
<1> HIDE DEF call
<1>4. TagsTable(rows')
  <2>1. \/ rows' = rows
        \/ \E name \in TagNames, project \in BOOLEAN :
             rows' = CreateTag(rows, [name |-> name, project |-> project])
        \/ \E t \in DOMAIN rows.tags : \E name \in TagNames, project \in BOOLEAN :
             rows' = UpdateTag(rows, t, [name |-> name, project |-> project])
        \/ \E t : rows' = DeleteTag(rows, t)
    <3>1. CASE TagCreate(c) BY <3>1 DEF TagCreate, Reads, Store
    <3>2. CASE TagUpdate(c) BY <3>2 DEF TagUpdate, Reads, Store
    <3>3. CASE TagDelete(c) BY <3>3 DEF TagDelete, Store
    <3> QED BY <3>1, <3>2, <3>3
  <2>2. ASSUME NEW name, NEW project \in BOOLEAN,
               rows' = CreateTag(rows, [name |-> name, project |-> project]) PROVE  TagsTable(rows')
    BY <1>0, <2>2, TagAdded
  <2>3. ASSUME NEW t \in DOMAIN rows.tags, NEW name, NEW project \in BOOLEAN,
               rows' = UpdateTag(rows, t, [name |-> name, project |-> project])
        PROVE  TagsTable(rows')
    <3> DEFINE tag == [name |-> name, project |-> project]
    <3>1. DOMAIN tag = {"name", "project"} /\ rows' = UpdateTag(rows, t, tag) BY <2>3
    <3> HIDE DEF tag
    <3> QED BY <1>0, <3>1 DEF TagsTable, UpdateTag
  <2>4. ASSUME NEW t, rows' = DeleteTag(rows, t) PROVE  TagsTable(rows')
    BY <1>0, <2>4 DEF TagsTable, DeleteTag, Without, Restrict
  <2> QED BY <1>0, <2>1, <2>2, <2>3, <2>4
<1>5. Begin(c, call) BY <1>2 DEF call
<1> QED BY <1>0, <1>3, <1>4, <1>5, TagsAnswered

LEMMA TagsListed ==
    ASSUME TagsInv, NEW c \in Callers, TagList(c) \/ TagListCounts(c)
    PROVE  TagsInv' /\ part' = part
<1>1. \E call : /\ Begin(c, call) \/ Continue(c, call)
                /\ call.op = "tags" /\ call.at # "gone" /\ rows' = rows
  <2>1. CASE TagList(c) BY <2>1 DEF TagList, Reads
  <2>2. CASE TagListCounts(c)
    <3> DEFINE call == [op |-> "tags", at |-> "answered", page |-> calls[c].page,
                        total |-> CountTagsByCompany(rows, calls[c].project)]
    <3>1. Continue(c, call) /\ call.op = "tags" /\ call.at # "gone" /\ rows' = rows
      BY <2>2 DEF TagListCounts, Reads
    <3> HIDE DEF call
    <3> QED BY <3>1
  <2> QED BY <2>1, <2>2
<1>2. PICK call : /\ Begin(c, call) \/ Continue(c, call)
                  /\ call.op = "tags" /\ call.at # "gone" /\ rows' = rows
  BY <1>1
<1>3. TagCall(call) /\ TagAlone(rows', call) BY <1>2 DEF TagCall, TagOps, TagAlone
<1>4. TagsTable(rows') /\ calls[c].at # "gone" BY <1>2 DEF TagsInv, TagList, TagListCounts, Free, At
<1> QED BY <1>2, <1>3, <1>4, TagsStepped

LEMMA TagsSet ==
    ASSUME TagsInv, NEW c \in Callers, SetTransactionTags(c)
    PROVE  TagsInv' /\ part' = part
<1>1. PICK x \in Transactions, asked \in SUBSET (1..rows.made) :
        /\ rows' = DeleteAllTransactionTags(rows, x)
        /\ Begin(c, [op |-> "settags", at |-> "add", txn |-> x, asked |-> asked, rest |-> asked])
  BY DEF SetTransactionTags, Store
<1> DEFINE call == [op |-> "settags", at |-> "add", txn |-> x, asked |-> asked, rest |-> asked]
<1>2. /\ DOMAIN call = {"op", "at", "txn", "asked", "rest"} /\ call.op = "settags" /\ call.at = "add"
      /\ call.txn = x /\ call.asked = asked /\ call.rest = asked
  OBVIOUS
<1>3. Begin(c, call) BY <1>1
<1> HIDE DEF call
<1>4. /\ DOMAIN rows' = DOMAIN rows /\ rows'.tags = rows.tags /\ rows'.made = rows.made
      /\ rows'.links = {l \in rows.links : l[1] # x} /\ TagsTable(rows) /\ rows.made \in Nat
  BY <1>1 DEF TagsInv, TagsTable, DeleteAllTransactionTags
<1>5. TagsTable(rows') /\ ListTagsForTransaction(rows', x) = {}
  BY <1>4 DEF TagsTable, ListTagsForTransaction
<1>6. TagCall(call) /\ TagAlone(rows', call)
  BY <1>4, <1>2, <1>5 DEF TagCall, TagOps, TagAlone
<1>7. calls[c].at # "gone" /\ call.at # "gone" BY <1>2 DEF SetTransactionTags, Free
<1> QED BY <1>3, <1>5, <1>6, <1>7, TagsStepped

LEMMA TagsSetOne ==
    ASSUME TagsInv, NEW c \in Callers, SetTransactionTagsAdds(c)
    PROVE  TagsInv' /\ part' = part
<1> DEFINE old == calls[c]
           t == Min(old.rest)
<1>1. old.op = "settags" /\ old.at = "add" /\ old.rest # {} /\ TagCall(old) /\ TagsTable(rows)
  BY DEF SetTransactionTagsAdds, At, TagsInv
<1>2. /\ DOMAIN old = {"op", "at", "txn", "asked", "rest"}
      /\ old.rest \subseteq Nat /\ old.rest \subseteq old.asked
  BY <1>1 DEF TagCall
<1>3. t \in old.rest BY <1>1, <1>2, MinIs
<1>4. CASE CanAddTransactionTag(rows, t)
  <2> DEFINE call == [old EXCEPT !.rest = @ \ {t}]
  <2>1. rows' = AddTransactionTag(rows, old.txn, t) /\ Continue(c, call)
    BY <1>4 DEF SetTransactionTagsAdds, Store
  <2>2. /\ DOMAIN call = DOMAIN old /\ call.op = "settags" /\ call.at = "add"
        /\ call.txn = old.txn /\ call.asked = old.asked /\ call.rest = old.rest \ {t}
    BY <1>1, <1>2
  <2> HIDE DEF call, t
  <2>3. /\ TagsTable(rows')
        /\ ListTagsForTransaction(rows', old.txn) = ListTagsForTransaction(rows, old.txn) \cup {t}
    BY <1>4, <2>1, TagsLinked
  <2>4. TagCall(call) BY <1>2, <2>2 DEF TagCall, TagOps
  <2>5. TagAlone(rows, old) => TagAlone(rows', call) BY <1>1, <1>2, <1>3, <2>2, <2>3 DEF TagAlone
  <2> QED BY <1>1, <2>1, <2>2, <2>3, <2>4, <2>5, TagsStepped
<1>5. CASE ~CanAddTransactionTag(rows, t)
  <2> DEFINE call == Answered("settags", 500)
  <2>1. rows' = rows /\ Continue(c, call)
    BY <1>1, <1>5 DEF SetTransactionTagsAdds, Reads, Answer, TagResponses
  <2>2. call.op \in TagOps /\ call.at = "answered" /\ DOMAIN call = {"op", "at", "status"}
    BY AnswerIs DEF TagOps
  <2> HIDE DEF call
  <2> QED BY <1>1, <2>1, <2>2, TagsAnswered
<1> QED BY <1>4, <1>5

LEMMA TagsSetShown ==
    ASSUME TagsInv, NEW c \in Callers, SetTransactionTagsLists(c)
    PROVE  TagsInv' /\ part' = part
<1> DEFINE old == calls[c]
           call == [op |-> "settags", at |-> "answered", asked |-> old.asked,
                    listed |-> ListTagsForTransaction(rows, old.txn)]
<1>1. /\ old.op = "settags" /\ old.at = "add" /\ old.rest = {} /\ TagsTable(rows)
      /\ rows' = rows /\ Continue(c, call)
  BY DEF SetTransactionTagsLists, At, TagsInv, Reads
<1>2. /\ call.op = "settags" /\ call.at = "answered" /\ call.asked = old.asked
      /\ call.listed = ListTagsForTransaction(rows, old.txn)
  OBVIOUS
<1> HIDE DEF call
<1>3. TagCall(call) BY <1>2 DEF TagCall, TagOps
<1>4. TagAlone(rows, old) => TagAlone(rows', call) BY <1>1, <1>2 DEF TagAlone
<1> QED BY <1>1, <1>2, <1>3, <1>4, TagsStepped

LEMMA ProjectLinks ==
    ASSUME TagsInv, NEW c \in Callers, LinkProjectTag(c)
    PROVE  TagsInv' /\ part' = part
<1>1. PICK x \in Transactions, name \in TagNames :
        LET db == UpsertProjectTag(rows, name)
        IN  /\ rows' = db
            /\ Begin(c, [op |-> "project", at |-> "link", txn |-> x, name |-> name,
                         tag |-> Max(TagNamed(db, name))])
  BY DEF LinkProjectTag, Store
<1> DEFINE tag == Max(TagNamed(rows', name))
           call == [op |-> "project", at |-> "link", txn |-> x, name |-> name, tag |-> tag]
<1>2. rows' = UpsertProjectTag(rows, name) /\ Begin(c, call) BY <1>1
<1>3. /\ TagsTable(rows') /\ TagNamed(rows', name) # {}
      /\ \A t \in TagNamed(rows', name) : rows'.tags[t].project
  BY <1>2, ProjectUpserted DEF TagsInv
<1>4. tag \in TagNamed(rows', name)
  <2>1. /\ IsFiniteSet(1..rows'.made) /\ TagNamed(rows', name) \subseteq 1..rows'.made
        /\ rows'.made \in Nat
    BY <1>3, FS_Interval DEF TagsTable, TagNamed
  <2>2. IsFiniteSet(TagNamed(rows', name)) /\ TagNamed(rows', name) \subseteq Int BY <2>1, FS_Subset
  <2> QED BY <1>3, <2>2, MaxIs
<1> HIDE DEF tag
<1>5. /\ DOMAIN call = {"op", "at", "txn", "name", "tag"} /\ call.op = "project" /\ call.at = "link"
      /\ call.name = name /\ call.tag = tag
  OBVIOUS
<1> HIDE DEF call
<1>6. TagCall(call) /\ TagAlone(rows', call)
  BY <1>3, <1>4, <1>5 DEF TagCall, TagOps, TagAlone, TagNamed
<1>7. calls[c].at # "gone" /\ call.at # "gone" BY <1>5 DEF LinkProjectTag, Free
<1> QED BY <1>2, <1>3, <1>6, <1>7, TagsStepped

LEMMA ProjectLinked ==
    ASSUME TagsInv, NEW c \in Callers, LinkProjectTagAdds(c)
    PROVE  TagsInv' /\ part' = part
<1> DEFINE old == calls[c]
<1>1. old.op = "project" /\ old.at = "link" /\ TagCall(old) /\ TagsTable(rows)
  BY DEF LinkProjectTagAdds, At, TagsInv
<1>2. CASE CanAddTransactionTag(rows, old.tag)
  <2> DEFINE call == [old EXCEPT !.at = "answered"]
  <2>1. rows' = AddTransactionTag(rows, old.txn, old.tag) /\ Continue(c, call)
    BY <1>2 DEF LinkProjectTagAdds, Store
  <2>2. /\ DOMAIN call = DOMAIN old /\ call.op = "project" /\ call.at = "answered"
        /\ call.txn = old.txn /\ call.tag = old.tag /\ call.name = old.name
    BY <1>1 DEF TagCall
  <2> HIDE DEF call
  <2>3. /\ TagsTable(rows') /\ rows'.links = rows.links \cup {<<old.txn, old.tag>>}
        /\ rows'.tags = rows.tags
    BY <1>2, <2>1, TagsLinked
  <2>4. TagCall(call) BY <2>2 DEF TagCall, TagOps
  <2>5. TagAlone(rows, old) => TagAlone(rows', call)
    <3> SUFFICES ASSUME TagAlone(rows, old) PROVE TagAlone(rows', call) OBVIOUS
    <3>1. /\ old.tag \in DOMAIN rows.tags /\ rows.tags[old.tag].project
          /\ rows.tags[old.tag].name = old.name
      BY <1>1 DEF TagAlone
    <3>2. old.name \in ListProjectTagsByCompany(rows')
      BY <2>3, <3>1 DEF ListProjectTagsByCompany, ListTagsByCompany
    <3> QED BY <2>2, <2>3, <3>2 DEF TagAlone
  <2> QED BY <1>1, <2>1, <2>2, <2>3, <2>4, <2>5, TagsStepped
<1>3. CASE ~CanAddTransactionTag(rows, old.tag)
  <2> DEFINE call == Answered("project", 500)
  <2>1. rows' = rows /\ Continue(c, call)
    BY <1>1, <1>3 DEF LinkProjectTagAdds, Reads, Answer, TagResponses
  <2>2. call.op \in TagOps /\ call.at = "answered" /\ DOMAIN call = {"op", "at", "status"}
    BY AnswerIs DEF TagOps
  <2> HIDE DEF call
  <2> QED BY <1>1, <2>1, <2>2, TagsAnswered
<1> QED BY <1>2, <1>3

LEMMA ProjectsSeeded ==
    ASSUME TagsInv, NEW c \in Callers,
           SeedProjectTags(c) \/ SeedProjectTag(c) \/ SeedProjectTagsEnds(c)
    PROVE  TagsInv' /\ part' = part
<1>1. TagCall(calls[c]) /\ calls[c].at # "gone" /\ TagsTable(rows)
  BY DEF TagsInv, SeedProjectTags, SeedProjectTag, SeedProjectTagsEnds, Free, At
<1>2. CASE SeedProjectTags(c) \/ SeedProjectTagsEnds(c)
  <2>1. PICK call : /\ Begin(c, call) \/ Continue(c, call)
                    /\ call.op = "seed" /\ call.at # "gone" /\ rows' = rows
                    /\ call.at = "upsert" => DOMAIN call = {"op", "at", "rest"}
    BY <1>2 DEF SeedProjectTags, SeedProjectTagsEnds, Reads
  <2>2. TagCall(call) /\ TagAlone(rows', call) BY <2>1 DEF TagCall, TagOps, TagAlone
  <2> QED BY <1>1, <2>1, <2>2, TagsStepped
<1>3. CASE SeedProjectTag(c)
  <2>1. PICK name \in calls[c].rest :
          /\ rows' = rows \/ rows' = UpsertProjectTag(rows, name)
          /\ Continue(c, [calls[c] EXCEPT !.rest = @ \ {name}])
    BY <1>3 DEF SeedProjectTag, Reads, Store
  <2> DEFINE call == [calls[c] EXCEPT !.rest = @ \ {name}]
  <2>2. calls[c].op = "seed" /\ calls[c].at = "upsert" BY <1>3 DEF SeedProjectTag, At
  <2>3. Continue(c, call) BY <2>1
  <2>4. call.op = "seed" /\ call.at = "upsert" /\ DOMAIN call = {"op", "at", "rest"}
    BY <1>1, <2>2 DEF TagCall
  <2> HIDE DEF call
  <2>5. TagsTable(rows') BY <1>1, <2>1, ProjectUpserted
  <2>6. TagCall(call) /\ TagAlone(rows', call) BY <2>4 DEF TagCall, TagOps, TagAlone
  <2> QED BY <1>1, <2>3, <2>4, <2>5, <2>6, TagsStepped
<1> QED BY <1>2, <1>3

LEMMA TagsKeep ==
    ASSUME TagsInv, NEW c \in Callers, TagsNext(c)
    PROVE  TagsInv' /\ part' = part
BY TagsEdited, TagsListed, TagsSet, TagsSetOne, TagsSetShown, ProjectLinks, ProjectLinked,
   ProjectsSeeded DEF TagsNext

LEMMA TagsTold ==
    ASSUME TagsInv
    PROVE  TagsAsAsked
<1>1. \A l \in rows.links : l[2] \in DOMAIN rows.tags BY DEF TagsInv, TagsTable
<1>2. ASSUME Alone, NEW c \in Callers
      PROVE  /\ (calls[c].op = "settags" /\ "listed" \in DOMAIN calls[c])
                    => calls[c].listed = calls[c].asked
             /\ (At(c, "project", "answered") /\ "tag" \in DOMAIN calls[c])
                    => /\ <<calls[c].txn, calls[c].tag>> \in rows.links
                       /\ calls[c].name \in ListProjectTagsByCompany(rows)
  <2>1. Gone.op = "none" BY DEF Gone
  <2>2. PICK e \in Callers : \A d \in Callers \ {e} : calls[d] = Gone BY <1>2 DEF Alone
  <2>3. CASE c = e BY <2>2, <2>3 DEF TagsInv, TagAlone, OnlyOne, At
  <2>4. CASE c # e BY <2>1, <2>2, <2>4 DEF At
  <2> QED BY <2>3, <2>4
<1> QED BY <1>1, <1>2 DEF TagsAsAsked

LEMMA TagsStarted ==
    ASSUME TagsStart(rows), RequestsInit
    PROVE  TagsInv
<1>1. DOMAIN calls = Callers /\ \A c \in Callers : calls[c].op = "none"
  BY DEF RequestsInit, NoCall, Gone
<1> QED BY <1>1 DEF TagsStart, TagsInv, TagsTable, TagOps, TagAlone, TagCall

----
(* Knowledge.  Chunks stay, and stay of their jurisdiction. *)
KnowledgeGrows(db, to) ==
    \A k \in DOMAIN db.chunks :
        k \in DOMAIN to.chunks /\ to.chunks[k].jurisdiction = db.chunks[k].jurisdiction

LEMMA KnowledgeStepped ==
    ASSUME KnowledgeInv, NEW c \in Callers, NEW call, calls[c].at # "gone",
           call.at # "gone", Begin(c, call) \/ Continue(c, call),
           KnowledgeTable(rows'), KnowledgeGrows(rows, rows'), KnowledgeCall(rows', call),
           OnlyOne(c) => (KnowledgeAlone(rows, calls[c]) => KnowledgeAlone(rows', call))
    PROVE  KnowledgeInv' /\ part' = part
<1>1. \A d \in Callers : KnowledgeCall(rows, calls[d]) => KnowledgeCall(rows', calls[d])
  <2> SUFFICES ASSUME NEW d \in Callers, KnowledgeCall(rows, calls[d])
               PROVE  KnowledgeCall(rows', calls[d]) OBVIOUS
  <2>1. \A found, j : AllOf(rows, found, j) => AllOf(rows', found, j) BY DEF AllOf, KnowledgeGrows
  <2>2. DOMAIN rows.chunks \subseteq DOMAIN rows'.chunks BY DEF KnowledgeGrows
  <2> QED BY <2>1, <2>2 DEF KnowledgeCall
<1> QED BY <1>1, OthersStay DEF KnowledgeInv

(* A step that only reads. *)
LEMMA KnowledgeRead ==
    ASSUME KnowledgeInv, NEW c \in Callers, NEW call, calls[c].at # "gone",
           call.at # "gone", Begin(c, call) \/ Continue(c, call), rows' = rows,
           KnowledgeCall(rows, call),
           OnlyOne(c) => (KnowledgeAlone(rows, calls[c]) => KnowledgeAlone(rows, call))
    PROVE  KnowledgeInv' /\ part' = part
<1>1. KnowledgeTable(rows') /\ KnowledgeGrows(rows, rows') BY DEF KnowledgeInv, KnowledgeGrows
<1> QED BY <1>1, KnowledgeStepped

(* As many as there are is what ones add up to. *)
LEMMA SumOfOnes ==
    ASSUME NEW S, IsFiniteSet(S), NEW l, \A s \in S : l[s] = 1
    PROVE  SetSum(l, S) = Cardinality(S)
<1> DEFINE X == {T \in SUBSET S : SetSum(l, T) = Cardinality(T)}
<1>1. ASSUME NEW T \in SUBSET S, \A x \in T : T \ {x} \in X PROVE T \in X
  <2>1. IsFiniteSet(T) BY FS_Subset
  <2>2. CASE T = {}
    BY <2>1, <2>2, SumIsFirstAndRest, FS_EmptySet
  <2>3. ASSUME NEW x \in T PROVE T \in X
    <3>1. SetSum(l, T) = l[x] + SetSum(l, T \ {x}) /\ l[x] = 1 BY <2>1, SumTakes
    <3>2. SetSum(l, T \ {x}) = Cardinality(T \ {x}) BY <1>1, <2>3
    <3>3. Cardinality(T \ {x}) = Cardinality(T) - 1 /\ Cardinality(T) \in Nat
      BY <2>1, FS_RemoveElement, FS_CardinalityType
    <3>4. SetSum(l, T) = Cardinality(T) BY <3>1, <3>2, <3>3
    <3> QED BY <3>4
  <2> QED BY <2>2, <2>3
<1>2. \A T \in SUBSET S : T \in X
  <2> HIDE DEF X
  <2> QED BY <1>1, SubsetInduction
<1> QED BY <1>2

(* The counts by category add up to all chunks. *)
LEMMA CategoriesAddUp ==
    ASSUME NEW db, KnowledgeTable(db)
    PROVE  LET counts == CountKnowledgeChunksByCategory(db)
           IN  AddAll(counts, DOMAIN counts) = Len(db.chunks)
<1> DEFINE counts == CountKnowledgeChunksByCategory(db)
           S == DOMAIN db.chunks
           key == [k \in S |-> db.chunks[k].category]
           one == [k \in S |-> 1]
           K == DOMAIN counts
<1>1. S = 1..Len(db.chunks) /\ Len(db.chunks) \in Nat BY DEF KnowledgeTable
<1>2. IsFiniteSet(S) /\ Cardinality(S) = Len(db.chunks) BY <1>1, FS_Interval
<1>3. /\ K = {db.chunks[k].category : k \in S}
      /\ \A cat \in K : counts[cat] = Cardinality({k \in S : db.chunks[k].category = cat})
  BY DEF CountKnowledgeChunksByCategory
<1>4. (\A k \in S : key[k] = db.chunks[k].category /\ one[k] = 1) /\ S = DOMAIN db.chunks OBVIOUS
<1> HIDE DEF counts, K, S, key, one
<1>5. \A k \in S : key[k] \in K /\ one[k] \in Int BY <1>3, <1>4
<1>6. IsFiniteSet(K)
  BY <1>3, <1>4, <1>2, ImageFinite
<1>7. ASSUME NEW k \in K PROVE counts[k] = SetSum(one, Group(S, key, k))
  <2>1. Group(S, key, k) = {i \in S : db.chunks[i].category = k} BY <1>4 DEF Group
  <2>2. IsFiniteSet(Group(S, key, k)) /\ Group(S, key, k) \subseteq S BY <1>2, FS_Subset DEF Group
  <2>3. SetSum(one, Group(S, key, k)) = Cardinality(Group(S, key, k)) BY <1>4, <2>2, SumOfOnes
  <2> QED BY <1>3, <2>1, <2>3
<1>8. SetSum(counts, K) = SetSum(one, S) BY <1>2, <1>5, <1>6, <1>7, SumOfGroups
<1>9. SetSum(one, S) = Len(db.chunks) BY <1>2, <1>4, SumOfOnes
<1>10. AddAll(counts, K) = Len(db.chunks) BY <1>8, <1>9, AddAllIsSum
<1> QED BY <1>10 DEF counts, K

(* What is near is some of what there is, and not nothing. *)
LEMMA NearestIs ==
    ASSUME NEW db, NEW S, IsFiniteSet(S), NEW found \in Nearest(db, S, MaxRetrieved)
    PROVE  found \subseteq S /\ (found = {} => S = {})
<1> DEFINE n == Min({MaxRetrieved, Cardinality(S)})
<1>1. found \subseteq S /\ Cardinality(found) = n BY DEF Nearest, kSubset
<1>2. Cardinality(S) \in Nat /\ MaxRetrieved \in Nat /\ MaxRetrieved # 0
  BY FS_CardinalityType, LearningAssumption
<1>3. n \in {MaxRetrieved, Cardinality(S)} BY <1>2, MinIs
<1> HIDE DEF n
<1>4. found = {} => n = 0 BY <1>1, FS_EmptySet
<1>5. found = {} => Cardinality(S) = 0 BY <1>2, <1>3, <1>4
<1>6. Cardinality(S) = 0 => S = {} BY FS_EmptySet
<1> QED BY <1>1, <1>5, <1>6

LEMMA ChunksFinite ==
    ASSUME NEW db, KnowledgeTable(db), NEW S, S \subseteq DOMAIN db.chunks
    PROVE  IsFiniteSet(S) /\ Cardinality(S) \in Nat
<1>1. IsFiniteSet(DOMAIN db.chunks) BY FS_Interval DEF KnowledgeTable
<1> QED BY <1>1, FS_Subset, FS_CardinalityType

LEMMA ChunkAdded ==
    ASSUME KnowledgeInv, NEW c \in Callers, AddChunk(c)
    PROVE  KnowledgeInv' /\ part' = part
<1>1. PICK chunk \in Chunks, embedded \in BOOLEAN : rows' = CreateKnowledgeChunk(rows,
                  [category |-> chunk.category, jurisdiction |-> chunk.jurisdiction,
                   embedded |-> embedded])
  BY DEF AddChunk, Store
<1> DEFINE new == [category |-> chunk.category, jurisdiction |-> chunk.jurisdiction,
                   embedded |-> embedded]
           call == Answered("chunk", 201)
<1>2. new \in [category : STRING, jurisdiction : STRING, embedded : BOOLEAN] BY LearningAssumption
<1>3. /\ DOMAIN rows' = DOMAIN rows /\ rows'.chunks = Append(rows.chunks, new)
      /\ KnowledgeTable(rows)
  BY <1>1 DEF CreateKnowledgeChunk, KnowledgeInv, KnowledgeTable
<1> HIDE DEF new
<1>4. KnowledgeTable(rows') /\ KnowledgeGrows(rows, rows')
  BY <1>2, <1>3, AppendProperties DEF KnowledgeTable, KnowledgeGrows
<1>5. call.op = "chunk" /\ call.at = "answered" BY AnswerIs
<1>6. Begin(c, call) /\ calls[c].at # "gone" BY DEF AddChunk, AnswerAtOnce, ChunkResponses, Free
<1> HIDE DEF call
<1>7. KnowledgeCall(rows', call) /\ KnowledgeAlone(rows', call)
  BY <1>5 DEF KnowledgeCall, KnowledgeAlone, KnowledgeOps
<1> QED BY <1>4, <1>5, <1>6, <1>7, KnowledgeStepped

LEMMA QuestionAsked ==
    ASSUME KnowledgeInv, NEW c \in Callers, RetrieveRelevant(c)
    PROVE  KnowledgeInv' /\ part' = part
<1>1. PICK category \in {NoText, "vat"}, j \in {"PH", "SG"}, embeds \in BOOLEAN :
        Begin(c, [op |-> "ask", category |-> category, j |-> j, whole |-> embeds,
                  there |-> {k \in DOMAIN rows.chunks : rows.chunks[k].jurisdiction = j},
                  at |-> IF ~embeds THEN "fallback"
                         ELSE IF category = NoText THEN "similar" ELSE "filtered"])
  BY DEF RetrieveRelevant
<1> DEFINE there == {k \in DOMAIN rows.chunks : rows.chunks[k].jurisdiction = j}
           at == IF ~embeds THEN "fallback" ELSE IF category = NoText THEN "similar" ELSE "filtered"
           call == [op |-> "ask", category |-> category, j |-> j, whole |-> embeds, there |-> there,
                    at |-> at]
<1>2. Begin(c, call) /\ rows' = rows /\ calls[c].at # "gone"
  BY <1>1 DEF RetrieveRelevant, Free, Reads
<1>3. AllOf(rows, there, j) BY DEF AllOf
<1>4. at \in {"fallback", "similar", "filtered"} /\ (at = "fallback" => ~embeds) OBVIOUS
<1> HIDE DEF there, at
<1>5. /\ DOMAIN call = {"op", "category", "j", "whole", "there", "at"} /\ call.op = "ask"
      /\ call.at = at /\ call.j = j /\ call.whole = embeds /\ call.there = there
  OBVIOUS
<1> HIDE DEF call
<1>6. KnowledgeCall(rows, call) /\ KnowledgeAlone(rows, call) /\ call.at # "gone"
  BY <1>3, <1>4, <1>5 DEF KnowledgeCall, KnowledgeAlone, KnowledgeOps
<1> QED BY <1>2, <1>6, KnowledgeRead

(* A question that goes on, and one that is answered. *)
LEMMA QuestionGoesOn ==
    ASSUME KnowledgeInv, NEW c \in Callers, NEW at \in {"similar", "fallback"},
           calls[c].op = "ask", calls[c].at \in {"filtered", "similar", "fallback"}, rows' = rows,
           NEW call, Continue(c, call),
           DOMAIN call = DOMAIN calls[c], call.op = "ask", call.at = at, call.j = calls[c].j,
           call.there = calls[c].there, call.whole \in BOOLEAN,
           call.whole => calls[c].whole /\ (at = "fallback" => call.there = {})
    PROVE  KnowledgeInv' /\ part' = part
<1>1. KnowledgeCall(rows, calls[c]) BY DEF KnowledgeInv
<1>2. KnowledgeCall(rows, call) /\ KnowledgeAlone(rows, call)
  BY <1>1 DEF KnowledgeCall, KnowledgeAlone
<1> QED BY <1>2, KnowledgeRead

LEMMA QuestionAnswered ==
    ASSUME KnowledgeInv, NEW c \in Callers, NEW found, Retrieved(c, found), rows' = rows,
           calls[c].op = "ask", calls[c].at \in {"filtered", "similar", "fallback"},
           calls[c].whole /\ calls[c].there # {} => found # {} /\ AllOf(rows, found, calls[c].j)
    PROVE  KnowledgeInv' /\ part' = part
<1> DEFINE call == [op |-> "ask", at |-> "answered", j |-> calls[c].j, whole |-> calls[c].whole,
                    there |-> calls[c].there, found |-> found]
<1>1. KnowledgeCall(rows, calls[c]) /\ Continue(c, call) BY DEF KnowledgeInv, Retrieved
<1>2. /\ call.op = "ask" /\ call.at = "answered" /\ call.j = calls[c].j
      /\ call.whole = calls[c].whole /\ call.there = calls[c].there /\ call.found = found
  OBVIOUS
<1> HIDE DEF call
<1>3. KnowledgeCall(rows, call) /\ KnowledgeAlone(rows, call)
  BY <1>1, <1>2 DEF KnowledgeCall, KnowledgeAlone
<1> QED BY <1>1, <1>2, <1>3, KnowledgeRead

LEMMA QuestionServed ==
    ASSUME KnowledgeInv, NEW c \in Callers,
           RetrieveFiltered(c) \/ RetrieveSimilar(c) \/ RetrieveFallback(c)
    PROVE  KnowledgeInv' /\ part' = part
<1> DEFINE old == calls[c]
<1>1. /\ old.op = "ask" /\ old.at \in {"filtered", "similar", "fallback"} /\ rows' = rows
      /\ KnowledgeCall(rows, old) /\ KnowledgeTable(rows)
  BY DEF RetrieveFiltered, RetrieveSimilar, RetrieveFallback, At, Reads, KnowledgeInv
<1>2. /\ DOMAIN old = {"op", "category", "j", "whole", "there", "at"} /\ old.whole \in BOOLEAN
      /\ AllOf(rows, old.there, old.j) /\ (old.at = "fallback" /\ old.whole => old.there = {})
  BY <1>1 DEF KnowledgeCall
(* A statement of it fails, or finds nothing. *)
<1>3. ASSUME NEW at \in {"similar", "fallback"}, Continue(c, [old EXCEPT !.at = at, !.whole = FALSE])
      PROVE  KnowledgeInv' /\ part' = part
  <2> DEFINE call == [old EXCEPT !.at = at, !.whole = FALSE]
  <2>1. /\ DOMAIN call = DOMAIN old /\ call.op = "ask" /\ call.at = at /\ call.j = old.j
        /\ call.there = old.there /\ call.whole = FALSE
    BY <1>1, <1>2
  <2>2. Continue(c, call) BY <1>3
  <2> HIDE DEF call
  <2> QED BY <1>1, <2>1, <2>2, QuestionGoesOn
<1>4. ASSUME NEW at \in {"similar", "fallback"}, Continue(c, [old EXCEPT !.at = at]),
             at = "fallback" => old.there = {} PROVE  KnowledgeInv' /\ part' = part
  <2> DEFINE call == [old EXCEPT !.at = at]
  <2>1. /\ DOMAIN call = DOMAIN old /\ call.op = "ask" /\ call.at = at /\ call.j = old.j
        /\ call.there = old.there /\ call.whole = old.whole
    BY <1>1, <1>2
  <2>2. Continue(c, call) BY <1>4
  <2> HIDE DEF call
  <2> QED BY <1>1, <1>2, <1>4, <2>1, <2>2, QuestionGoesOn
<1>5. CASE RetrieveFiltered(c)
  <2> DEFINE S == {k \in DOMAIN rows.chunks : /\ rows.chunks[k].category = old.category
                                              /\ rows.chunks[k].jurisdiction = old.j}
  <2>1. \/ Continue(c, [old EXCEPT !.at = "similar", !.whole = FALSE])
        \/ \E found \in Nearest(rows, S, MaxRetrieved) :
             IF found = {} THEN Continue(c, [old EXCEPT !.at = "similar"]) ELSE Retrieved(c, found)
    BY <1>5 DEF RetrieveFiltered, SearchSimilarChunksByCategory
  <2>2. IsFiniteSet(S) /\ AllOf(rows, S, old.j) BY <1>1, ChunksFinite DEF AllOf
  <2> HIDE DEF S
  <2>3. ASSUME NEW found \in Nearest(rows, S, MaxRetrieved), found # {}, Retrieved(c, found)
        PROVE  KnowledgeInv' /\ part' = part
    BY <2>2, <2>3, NearestIs, <1>1, QuestionAnswered DEF AllOf
  <2> QED BY <1>3, <1>4, <2>1, <2>3
<1>6. CASE RetrieveSimilar(c)
  <2> DEFINE S == {k \in DOMAIN rows.chunks : rows.chunks[k].jurisdiction = old.j}
  <2>1. \/ Continue(c, [old EXCEPT !.at = "fallback", !.whole = FALSE])
        \/ \E found \in Nearest(rows, S, MaxRetrieved) :
             IF found = {} THEN Continue(c, [old EXCEPT !.at = "fallback"]) ELSE Retrieved(c, found)
    BY <1>6 DEF RetrieveSimilar, SearchSimilarChunks
  <2>2. IsFiniteSet(S) /\ AllOf(rows, S, old.j) /\ old.there \subseteq S
    BY <1>1, <1>2, ChunksFinite DEF AllOf
  <2> HIDE DEF S
  <2>3. ASSUME NEW found \in Nearest(rows, S, MaxRetrieved), found # {}, Retrieved(c, found)
        PROVE  KnowledgeInv' /\ part' = part
    BY <2>2, <2>3, NearestIs, <1>1, QuestionAnswered DEF AllOf
  <2>4. ASSUME NEW found \in Nearest(rows, S, MaxRetrieved), found = {} PROVE  old.there = {}
    BY <2>2, <2>4, NearestIs
  <2> QED BY <1>3, <1>4, <2>1, <2>3, <2>4
<1>7. CASE RetrieveFallback(c)
  <2>1. old.at = "fallback" /\ (old.whole => old.there = {}) BY <1>2, <1>7 DEF RetrieveFallback, At
  <2>2. ASSUME NEW found, Retrieved(c, found) PROVE KnowledgeInv' /\ part' = part
    BY <1>1, <2>1, <2>2, QuestionAnswered
  <2>3. ASSUME Continue(c, [old EXCEPT !.category = NoText, !.whole = FALSE])
        PROVE  KnowledgeInv' /\ part' = part
    <3> DEFINE call == [old EXCEPT !.category = NoText, !.whole = FALSE]
    <3>1. /\ DOMAIN call = DOMAIN old /\ call.op = "ask" /\ call.at = "fallback" /\ call.j = old.j
          /\ call.there = old.there /\ call.whole = FALSE
      BY <1>1, <1>2, <2>1
    <3>2. Continue(c, call) BY <2>3
    <3> HIDE DEF call
    <3> QED BY <1>1, <3>1, <3>2, QuestionGoesOn
  <2> QED BY <1>7, <2>2, <2>3 DEF RetrieveFallback
<1> QED BY <1>5, <1>6, <1>7

LEMMA KnowledgeCounted ==
    ASSUME KnowledgeInv, NEW c \in Callers,
           GetStats(c) \/ GetStatsEmbedded(c) \/ GetStatsCategories(c)
    PROVE  KnowledgeInv' /\ part' = part
<1> DEFINE old == calls[c]
           total == Len(rows.chunks)
<1>1. rows' = rows /\ old.at # "gone" /\ KnowledgeTable(rows) /\ total \in Nat
  BY DEF GetStats, GetStatsEmbedded, GetStatsCategories, Free, At, Reads, KnowledgeInv,
     KnowledgeTable
<1>2. CASE GetStats(c)
  <2> DEFINE call == [op |-> "base", at |-> "embedded", total |-> total]
  <2>1. Begin(c, call) /\ call.op = "base" /\ call.at = "embedded" /\ call.total = total
    BY <1>2 DEF GetStats, CountKnowledgeChunks
  <2> HIDE DEF call
  <2>2. KnowledgeCall(rows, call) /\ KnowledgeAlone(rows, call)
    BY <2>1 DEF KnowledgeCall, KnowledgeAlone, KnowledgeOps
  <2> QED BY <1>1, <2>1, <2>2, KnowledgeRead
<1>3. CASE GetStatsEmbedded(c)
  <2> DEFINE embedded == CountKnowledgeChunksWithEmbedding(rows)
             call == [op |-> "base", at |-> "categories", total |-> old.total, embedded |-> embedded]
  <2>1. old.op = "base" /\ old.at = "embedded" /\ Continue(c, call) BY <1>3 DEF GetStatsEmbedded, At
  <2>2. embedded <= total
    BY <1>1, ChunksFinite DEF GetChunksWithoutEmbedding, CountKnowledgeChunksWithEmbedding
  <2> HIDE DEF embedded
  <2>3. call.op = "base" /\ call.at = "categories" /\ call.total = old.total /\ call.embedded = embedded
    OBVIOUS
  <2> HIDE DEF call
  <2>4. KnowledgeCall(rows, call) /\ (KnowledgeAlone(rows, old) => KnowledgeAlone(rows, call))
    BY <2>1, <2>2, <2>3 DEF KnowledgeCall, KnowledgeAlone, KnowledgeOps
  <2> QED BY <1>1, <2>1, <2>3, <2>4, KnowledgeRead
<1>4. CASE GetStatsCategories(c)
  <2> DEFINE counts == CountKnowledgeChunksByCategory(rows)
             sum == AddAll(counts, DOMAIN counts)
             call == [op |-> "base", at |-> "answered", total |-> old.total,
                      embedded |-> old.embedded, sum |-> sum]
  <2>1. old.op = "base" /\ old.at = "categories" /\ Continue(c, call)
    BY <1>4 DEF GetStatsCategories, At
  <2>2. sum = total BY <1>1, CategoriesAddUp
  <2> HIDE DEF sum
  <2>3. /\ call.op = "base" /\ call.at = "answered" /\ call.total = old.total
        /\ call.embedded = old.embedded /\ call.sum = sum
    OBVIOUS
  <2> HIDE DEF call
  <2>4. KnowledgeCall(rows, call) /\ (KnowledgeAlone(rows, old) => KnowledgeAlone(rows, call))
    BY <2>1, <2>2, <2>3 DEF KnowledgeCall, KnowledgeAlone, KnowledgeOps
  <2> QED BY <1>1, <2>1, <2>3, <2>4, KnowledgeRead
<1> QED BY <1>2, <1>3, <1>4

LEMMA ChunksBackfilled ==
    ASSUME KnowledgeInv, NEW c \in Callers, Backfill(c) \/ BackfillEmbeds(c) \/ BackfillEnds(c)
    PROVE  KnowledgeInv' /\ part' = part
<1> DEFINE old == calls[c]
<1>1. KnowledgeTable(rows) /\ old.at # "gone" /\ KnowledgeCall(rows, old)
  BY DEF KnowledgeInv, Backfill, BackfillEmbeds, BackfillEnds, Free, At
<1>2. CASE Backfill(c)
  <2> DEFINE rest == GetChunksWithoutEmbedding(rows)
             call == [op |-> "backfill", at |-> "embed", rest |-> rest]
  <2>1. rows' = rows /\ Begin(c, call) /\ rest \subseteq DOMAIN rows.chunks
    BY <1>2 DEF Backfill, Reads, GetChunksWithoutEmbedding
  <2> HIDE DEF rest
  <2>2. /\ DOMAIN call = {"op", "at", "rest"} /\ call.op = "backfill" /\ call.at = "embed"
        /\ call.rest = rest
    OBVIOUS
  <2> HIDE DEF call
  <2>3. KnowledgeCall(rows, call) /\ KnowledgeAlone(rows, call)
    BY <2>1, <2>2 DEF KnowledgeCall, KnowledgeAlone, KnowledgeOps
  <2> QED BY <1>1, <2>1, <2>2, <2>3, KnowledgeRead
<1>3. CASE BackfillEmbeds(c)
  <2> DEFINE k == Min(old.rest)
             call == [old EXCEPT !.rest = @ \ {k}]
  <2>1. /\ old.op = "backfill" /\ old.at = "embed" /\ old.rest # {} /\ Continue(c, call)
        /\ rows' = UpdateChunkEmbedding(rows, k) \/ rows' = rows
    BY <1>3 DEF BackfillEmbeds, At, Store, Reads
  <2>2. DOMAIN old = {"op", "at", "rest"} /\ old.rest \subseteq DOMAIN rows.chunks
    BY <1>1, <2>1 DEF KnowledgeCall
  <2>3. k \in DOMAIN rows.chunks
    BY <1>1, <2>2, <2>1, MinIs DEF KnowledgeTable
  <2>4. /\ DOMAIN call = {"op", "at", "rest"} /\ call.op = "backfill" /\ call.at = "embed"
        /\ call.rest \subseteq old.rest
    BY <2>1, <2>2
  <2> HIDE DEF k, call
  <2>5. KnowledgeTable(rows') /\ KnowledgeGrows(rows, rows')
    <3>1. CASE rows' = rows BY <1>1, <3>1 DEF KnowledgeGrows
    <3>2. CASE rows' = UpdateChunkEmbedding(rows, k)
      <4> DEFINE T == [category : STRING, jurisdiction : STRING, embedded : BOOLEAN]
                 new == [rows.chunks[k] EXCEPT !.embedded = TRUE]
      <4>1. rows.chunks \in Seq(T) /\ rows.chunks[k] \in T
        <5>1. rows.chunks \in Seq(T) BY <1>1 DEF KnowledgeTable
        <5> HIDE DEF T
        <5>2. k \in 1..Len(rows.chunks) BY <2>3, <5>1
        <5> QED BY <5>1, <5>2, ElementOfSeq
      <4>2. new \in T /\ new.jurisdiction = rows.chunks[k].jurisdiction BY <4>1
      <4>3. DOMAIN rows' = DOMAIN rows /\ rows'.chunks = [rows.chunks EXCEPT ![k] = new]
        BY <1>1, <3>2 DEF KnowledgeTable, UpdateChunkEmbedding
      <4> HIDE DEF new, T
      <4>4. rows'.chunks \in Seq(T) BY <2>3, <4>1, <4>2, <4>3, ExceptSeq
      <4>5. KnowledgeTable(rows') BY <1>1, <4>3, <4>4 DEF KnowledgeTable, T
      <4>6. KnowledgeGrows(rows, rows') BY <4>2, <4>3 DEF KnowledgeGrows
      <4> QED BY <4>5, <4>6
    <3> QED BY <2>1, <3>1, <3>2
  <2>6. KnowledgeCall(rows', call) /\ KnowledgeAlone(rows', call)
    BY <2>2, <2>4, <2>5 DEF KnowledgeCall, KnowledgeAlone, KnowledgeOps, KnowledgeGrows
  <2> QED BY <1>1, <2>1, <2>4, <2>5, <2>6, KnowledgeStepped
<1>4. CASE BackfillEnds(c)
  <2> DEFINE call == Answered("backfill", 0)
  <2>1. Continue(c, call) /\ rows' = rows BY <1>4 DEF BackfillEnds, At, Answer, Reads
  <2>2. call.op = "backfill" /\ call.at = "answered" BY AnswerIs
  <2> HIDE DEF call
  <2>3. KnowledgeCall(rows, call) /\ KnowledgeAlone(rows, call)
    BY <2>2 DEF KnowledgeCall, KnowledgeAlone, KnowledgeOps
  <2> QED BY <1>1, <2>1, <2>2, <2>3, KnowledgeRead
<1> QED BY <1>2, <1>3, <1>4

LEMMA KnowledgeKeep ==
    ASSUME KnowledgeInv, NEW c \in Callers, KnowledgeNext(c)
    PROVE  KnowledgeInv' /\ part' = part
BY ChunkAdded, QuestionAsked, QuestionServed, KnowledgeCounted, ChunksBackfilled DEF KnowledgeNext

LEMMA KnowledgeTold ==
    ASSUME KnowledgeInv
    PROVE  AnswersFit
<1> SUFFICES ASSUME NEW c \in Callers
             PROVE  /\ (At(c, "ask", "answered") /\ calls[c].whole /\ calls[c].there # {})
                          => /\ calls[c].found # {}
                             /\ \A k \in calls[c].found : rows.chunks[k].jurisdiction = calls[c].j
                    /\ (Alone /\ calls[c].op = "base" /\ calls[c].at = "answered")
                          => calls[c].total = calls[c].sum /\ calls[c].embedded <= calls[c].total
  BY DEF AnswersFit
<1>1. KnowledgeCall(rows, calls[c]) BY DEF KnowledgeInv
<1>2. (At(c, "ask", "answered") /\ calls[c].whole /\ calls[c].there # {})
         => /\ calls[c].found # {}
            /\ \A k \in calls[c].found : rows.chunks[k].jurisdiction = calls[c].j
  BY <1>1 DEF KnowledgeCall, AllOf, At
<1>3. ASSUME Alone, calls[c].op = "base" PROVE KnowledgeAlone(rows, calls[c])
  <2>1. Gone.op = "none" BY DEF Gone
  <2>2. PICK e \in Callers : \A d \in Callers \ {e} : calls[d] = Gone BY <1>3 DEF Alone
  <2>3. c = e BY <1>3, <2>1, <2>2
  <2> QED BY <2>2, <2>3 DEF KnowledgeInv, OnlyOne
<1> QED BY <1>2, <1>3 DEF KnowledgeAlone

LEMMA KnowledgeStarted ==
    ASSUME KnowledgeStart(rows), RequestsInit
    PROVE  KnowledgeInv
<1>1. DOMAIN calls = Callers /\ \A c \in Callers : calls[c].op = "none"
  BY DEF RequestsInit, NoCall, Gone
<1> QED BY <1>1 DEF KnowledgeStart, KnowledgeInv, KnowledgeTable, KnowledgeOps, KnowledgeAlone, KnowledgeCall

----
(* Classification. *)
LEMMA ResultIs ==
    \A vat, category, source :
        /\ Result(vat, category, source).vat = vat
        /\ Result(vat, category, source).category = category
        /\ Result(vat, category, source).source = source
BY DEF Result

(* A jurisdiction's default is one of its types. *)
LEMMA DefaultIsOne ==
    ASSUME NEW j \in DOMAIN VATTypes
    PROVE  DefaultVAT(j) \in ToSet(VATTypes[j])
<1>1. VATTypes[j] \in Seq(STRING) /\ VATTypes[j] # <<>> BY LearningAssumption
<1>2. 1 \in DOMAIN VATTypes[j] BY <1>1, EmptySeq
<1> QED BY <1>2 DEF DefaultVAT, ToSet

LEMMA OwnResult ==
    ASSUME NEW tx, NEW j, NEW rules, NEW missed,
           NEW r \in ClassifyWithoutModel(tx, j, rules, missed)
    PROVE  ResultOK(tx, j, rules, missed, r)
<1>1. ASSUME r \in ApplyRuleBasedClassification(tx, j)
      PROVE  r.source = "rule" /\ (tx.purchase => r.category = "goods")
  BY <1>1, ResultIs DEF ApplyRuleBasedClassification
<1>2. r \in ApplyLearnedRules(tx, rules) => r.source = "learned"
  <2> SUFFICES ASSUME r \in ApplyLearnedRules(tx, rules) PROVE r.source = "learned" OBVIOUS
  <2>1. \E vat, category : r = Result(vat, category, "learned") BY DEF ApplyLearnedRules
  <2> QED BY <2>1, ResultIs
<1>3. r \in ApplyVendorMemory(tx) => r.source = "vendor" BY ResultIs DEF ApplyVendorMemory
<1>4. \/ r \in ApplyRuleBasedClassification(tx, j) \/ r \in ApplyLearnedRules(tx, rules)
      \/ r \in ApplyVendorMemory(tx)
  BY DEF ClassifyWithoutModel
<1> QED BY <1>1, <1>2, <1>3, <1>4 DEF ResultOK

LEMMA DefaultResult ==
    ASSUME NEW tx, NEW j, NEW rules, NEW missed, NEW vat,
           ClassifyWithoutModel(tx, j, rules, missed) = {}
    PROVE  ResultOK(tx, j, rules, missed, Result(vat, "goods", "default"))
BY ResultIs DEF ResultOK

LEMMA ModelResult ==
    ASSUME NEW tx, NEW j \in DOMAIN VATTypes, NEW rules, NEW missed, NEW answer,
           ClassifyWithoutModel(tx, j, rules, missed) = {}
    PROVE  ResultOK(tx, j, rules, missed, AcceptAnswer(tx, answer, j))
<1> DEFINE r == AcceptAnswer(tx, answer, j)
<1>1. /\ r.source = "llm" /\ r.vat \in ToSet(VATTypes[j])
      /\ tx.purchase => r.category # "sale"
  BY ResultIs, DefaultIsOne DEF AcceptAnswer
<1> HIDE DEF r
<1>2. ResultOK(tx, j, rules, missed, r) BY <1>1 DEF ResultOK
<1> QED BY <1>2 DEF r

FirstClasses(batch, j, rules, missed) ==
    LET Own(i) == ClassifyWithoutModel(batch[i], j, rules, i \in missed)
        known == {i \in DOMAIN batch : Own(i) # {}}
    IN  [op |-> "classes", at |-> "model", batch |-> batch, j |-> j,
         rules |-> rules, missed |-> missed, rest |-> DOMAIN batch \ known,
         results |-> [i \in known |-> CHOOSE r \in Own(i) : TRUE]]

LEMMA ClassifyBegun ==
    ASSUME ClassifyInv, NEW c \in Callers, ClassifyTransactions(c)
    PROVE  ClassifyInv' /\ part' = part
<1>1. PICK batch \in Batches, j \in DOMAIN VATTypes, rules \in {ActiveRules, <<>>} :
      \E missed \in SUBSET {i \in DOMAIN batch : ApplyVendorMemory(batch[i]) # {}} :
        LET own == [i \in DOMAIN batch |-> ClassifyWithoutModel(batch[i], j, rules, i \in missed)]
            known == {i \in DOMAIN batch : own[i] # {}}
        IN  Begin(c, [op |-> "classes", at |-> "model", batch |-> batch, j |-> j,
                      rules |-> rules, missed |-> missed, rest |-> DOMAIN batch \ known,
                      results |-> [i \in known |-> CHOOSE r \in own[i] : TRUE]])
  BY Zenon DEF ClassifyTransactions
<1>2. PICK missed : Begin(c, FirstClasses(batch, j, rules, missed))
  <2>1. PICK missed : LET own == [i \in DOMAIN batch |->
                      ClassifyWithoutModel(batch[i], j, rules, i \in missed)]
            known == {i \in DOMAIN batch : own[i] # {}}
        IN  Begin(c, [op |-> "classes", at |-> "model", batch |-> batch, j |-> j,
                      rules |-> rules, missed |-> missed, rest |-> DOMAIN batch \ known,
                      results |-> [i \in known |-> CHOOSE r \in own[i] : TRUE]])
    BY <1>1
  <2> DEFINE Own(i) == ClassifyWithoutModel(batch[i], j, rules, i \in missed)
             own == [i \in DOMAIN batch |-> Own(i)]
             known == {i \in DOMAIN batch : Own(i) # {}}
  <2>2. known = {i \in DOMAIN batch : own[i] # {}} OBVIOUS
  <2>3. [i \in known |-> CHOOSE r \in Own(i) : TRUE] = [i \in known |-> CHOOSE r \in own[i] : TRUE]
    OBVIOUS
  <2> QED BY <2>1, <2>2, <2>3 DEF FirstClasses
<1> DEFINE Own(i) == ClassifyWithoutModel(batch[i], j, rules, i \in missed)
           known == {i \in DOMAIN batch : Own(i) # {}}
           call == FirstClasses(batch, j, rules, missed)
<1> USE DEF FirstClasses
<1>3. ASSUME NEW i \in known PROVE ResultOK(batch[i], j, rules, i \in missed, call.results[i])
  BY OwnResult
<1>4. /\ call.op = "classes" /\ call.at = "model" /\ call.batch = batch /\ call.j = j
      /\ call.rules = rules /\ call.missed = missed /\ call.rest = DOMAIN batch \ known
      /\ DOMAIN call.results = known
      /\ DOMAIN call = {"op", "at", "batch", "j", "rules", "missed", "rest", "results"}
  OBVIOUS
<1>5. /\ known \subseteq DOMAIN batch /\ known = DOMAIN batch \ call.rest
      /\ \A i \in DOMAIN batch \ known : ClassifyWithoutModel(batch[i], j, rules, i \in missed) = {}
  BY <1>4
<1> HIDE DEF call, known, FirstClasses
<1>6. ClassesCall(call) BY <1>3, <1>4, <1>5 DEF ClassesCall
<1>7. DOMAIN calls = Callers /\ calls[c].at # "gone" /\ call.at # "gone"
  BY <1>4 DEF ClassifyInv, ClassifyTransactions, Free
<1> QED BY <1>2, <1>4, <1>6, <1>7, OthersStay DEF ClassifyInv, call

LEMMA SomeOf == \A rest : NextBatch(rest) \subseteq rest
BY Zenon DEF NextBatch

LEMMA ClassifyContinued ==
    ASSUME ClassifyInv, NEW c \in Callers, ClassifyBatches(c) \/ ClassifyEnds(c)
    PROVE  ClassifyInv' /\ part' = part
<1> DEFINE old == calls[c]
           taken == NextBatch(old.rest)
           To(more) == [old EXCEPT !.rest = @ \ taken, !.results = Joined(@, more)]
<1>1. old.op = "classes" /\ old.at = "model" /\ ClassesCall(old) /\ DOMAIN calls = Callers
  BY DEF ClassifyBatches, ClassifyEnds, At, ClassifyInv
<1>2. ASSUME NEW call, Continue(c, call), call.op = "classes", ClassesCall(call)
      PROVE  ClassifyInv' /\ part' = part
  <2>1. call.at # "gone" /\ old.at # "gone" BY <1>1, <1>2 DEF ClassesCall
  <2> QED BY <1>1, <1>2, <2>1, OthersStay DEF ClassifyInv
<1>3. CASE ClassifyEnds(c)
  <2> DEFINE call == [old EXCEPT !.at = "answered"]
  <2>1. Continue(c, call) /\ old.rest = {} BY <1>3 DEF ClassifyEnds
  <2>2. /\ DOMAIN call = DOMAIN old /\ call.op = "classes" /\ call.at = "answered"
        /\ call.batch = old.batch /\ call.j = old.j /\ call.rules = old.rules
        /\ call.missed = old.missed /\ call.rest = old.rest /\ call.results = old.results
    BY <1>1 DEF ClassesCall
  <2> HIDE DEF call, old
  <2>3. ClassesCall(call) BY <1>1, <2>1, <2>2 DEF ClassesCall
  <2> QED BY <1>2, <2>1, <2>2, <2>3
<1>4. ASSUME NEW more, Continue(c, To(more)), DOMAIN more = taken,
             \A i \in taken : ResultOK(old.batch[i], old.j, old.rules, i \in old.missed, more[i])
      PROVE  ClassifyInv' /\ part' = part
  <2> DEFINE call == To(more)
  <2>1. /\ DOMAIN call = DOMAIN old /\ call.op = "classes" /\ call.at = "model"
        /\ call.batch = old.batch /\ call.j = old.j /\ call.rules = old.rules
        /\ call.missed = old.missed /\ call.rest = old.rest \ taken
        /\ call.results = Joined(old.results, more)
    BY <1>1 DEF ClassesCall
  <2>2. taken \subseteq old.rest BY SomeOf
  <2> HIDE DEF call, taken, old
  <2>3. /\ DOMAIN call.results = DOMAIN old.batch \ call.rest
        /\ \A i \in taken : call.results[i] = more[i]
        /\ \A i \in DOMAIN old.results : call.results[i] = old.results[i]
    BY <1>1, <1>4, <2>1, <2>2 DEF ClassesCall, Joined
  <2>4. DOMAIN call.results = DOMAIN old.results \cup taken
    BY <1>1, <2>1, <2>2, <2>3 DEF ClassesCall
  <2>5. \A i \in DOMAIN call.results :
          ResultOK(call.batch[i], call.j, call.rules, i \in call.missed, call.results[i])
    BY <1>1, <1>4, <2>1, <2>3, <2>4 DEF ClassesCall
  <2>6. ClassesCall(call) BY <1>1, <2>1, <2>3, <2>5 DEF ClassesCall
  <2> QED BY <1>2, <1>4, <2>1, <2>6 DEF call
<1>5. CASE ClassifyBatches(c)
  <2>1. PICK more :
           /\ Continue(c, To(more))
           /\ \/ more = [i \in taken |-> Result("vatable", "goods", "default")]
              \/ \E answers : more = ClassifyBatch(old.batch, taken, answers, old.j)
    <3>1. \/ Continue(c, To([i \in taken |-> Result("vatable", "goods", "default")]))
          \/ \E answers : Continue(c, To(ClassifyBatch(old.batch, taken, answers, old.j)))
      BY <1>5 DEF ClassifyBatches
    <3> HIDE DEF To
    <3> QED BY <3>1
  <2>2. \A i \in taken :
          /\ i \in old.rest
          /\ ClassifyWithoutModel(old.batch[i], old.j, old.rules, i \in old.missed) = {}
    BY <1>1, SomeOf DEF ClassesCall
  <2>3. old.j \in DOMAIN VATTypes BY <1>1 DEF ClassesCall
  <2>4. CASE more = [i \in taken |-> Result("vatable", "goods", "default")]
    BY <1>4, <2>1, <2>2, <2>4, DefaultResult
  <2>5. CASE \E answers : more = ClassifyBatch(old.batch, taken, answers, old.j)
    <3>1. PICK answers : more = ClassifyBatch(old.batch, taken, answers, old.j) BY <2>5
    <3>2. DOMAIN more = taken BY <3>1 DEF ClassifyBatch
    <3>3. ASSUME NEW i \in taken
          PROVE  \/ more[i] = Result(DefaultVAT(old.j), "goods", "default")
                 \/ \E answer : more[i] = AcceptAnswer(old.batch[i], answer, old.j)
      BY <3>1 DEF ClassifyBatch
    <3>4. ASSUME NEW i \in taken
          PROVE  ResultOK(old.batch[i], old.j, old.rules, i \in old.missed, more[i])
      BY <2>2, <2>3, <3>3, DefaultResult, ModelResult
    <3> QED BY <1>4, <2>1, <3>2, <3>4
  <2> QED BY <2>1, <2>4, <2>5
<1> QED BY <1>3, <1>5

LEMMA ClassifyKeep ==
    ASSUME ClassifyInv, NEW c \in Callers, ClassifyNext(c)
    PROVE  ClassifyInv' /\ part' = part
BY ClassifyBegun, ClassifyContinued DEF ClassifyNext

LEMMA ClassifyTold ==
    ASSUME ClassifyInv
    PROVE  ClassesFit
<1> SUFFICES ASSUME NEW c \in Callers, At(c, "classes", "answered"), NEW i \in DOMAIN calls[c].batch
             PROVE  /\ i \in DOMAIN calls[c].results
                    /\ ResultOK(calls[c].batch[i], calls[c].j, calls[c].rules,
                                i \in calls[c].missed, calls[c].results[i])
  BY DEF ClassesFit, ResultOK
<1>1. ClassesCall(calls[c]) /\ calls[c].rest = {} BY DEF ClassifyInv, At, ClassesCall
<1> QED BY <1>1 DEF ClassesCall

LEMMA ClassifyStarted ==
    ASSUME RequestsInit
    PROVE  ClassifyInv
<1>1. DOMAIN calls = Callers /\ \A c \in Callers : calls[c].op = "none"
  BY DEF RequestsInit, NoCall, Gone
<1> QED BY <1>1 DEF ClassifyInv

----
(* Vendor memory. *)
Halves(name) == Cardinality(Underway(calls, name)) + Cardinality(Lost(rows, name))

(* How many of a vendor's corrections a step begins, or ends. *)
Begun(old, call, name) ==
    (IF Half(call) /\ call.name = name THEN 1 ELSE 0) - (IF Half(old) /\ old.name = name THEN 1 ELSE 0)

LEMMA UnderwayFinite ==
    \A name : IsFiniteSet(Underway(calls, name)) /\ Cardinality(Underway(calls, name)) \in Nat
BY CallersAssumption, FS_Subset, FS_CardinalityType DEF Underway

LEMMA LostFinite ==
    ASSUME NEW db, PoliciesTable(db)
    PROVE  \A name : IsFiniteSet(Lost(db, name)) /\ Cardinality(Lost(db, name)) \in Nat
<1>1. IsFiniteSet(DOMAIN db.lost) BY FS_Interval DEF PoliciesTable
<1> QED BY <1>1, FS_Subset, FS_CardinalityType DEF Lost

LEMMA UnderwayMoves ==
    ASSUME DOMAIN calls = Callers, NEW c \in Callers, NEW call, calls[c].at # "gone",
           call.at # "gone", Begin(c, call) \/ Continue(c, call), NEW name
    PROVE  /\ IsFiniteSet(Underway(calls', name)) /\ Cardinality(Underway(calls', name)) \in Nat
           /\ Cardinality(Underway(calls', name)) = Cardinality(Underway(calls, name)) + Begun(calls[c], call, name)
<1> DEFINE U == Underway(calls, name)
           V == Underway(calls', name)
<1>1. /\ DOMAIN calls' = Callers /\ calls'[c] = call
      /\ \A d \in Callers \ {c} : calls'[d] = calls[d]
  BY OthersStay
<1>2. /\ c \in U <=> Half(calls[c]) /\ calls[c].name = name
      /\ c \in V <=> Half(call) /\ call.name = name
      /\ \A d \in Callers \ {c} : d \in U <=> d \in V
      /\ U \subseteq Callers /\ V \subseteq Callers
  BY <1>1 DEF Underway
<1>3. IsFiniteSet(U) /\ IsFiniteSet(V) /\ Cardinality(U) \in Nat /\ Cardinality(V) \in Nat
  BY <1>2, CallersAssumption, FS_Subset, FS_CardinalityType
<1> HIDE DEF U, V
<1>4. V \ {c} = U \ {c} BY <1>2
<1>5. ASSUME NEW S, IsFiniteSet(S), Cardinality(S) \in Nat
      PROVE  Cardinality(S \ {c}) = Cardinality(S) - (IF c \in S THEN 1 ELSE 0)
  <2>1. CASE c \in S BY <1>5, <2>1, FS_RemoveElement
  <2>2. CASE c \notin S
    BY <2>2, <1>5
  <2> QED BY <2>1, <2>2
<1>6. /\ Cardinality(U \ {c}) = Cardinality(U) - (IF c \in U THEN 1 ELSE 0)
      /\ Cardinality(V \ {c}) = Cardinality(V) - (IF c \in V THEN 1 ELSE 0)
  BY <1>3, <1>5
<1>7. Cardinality(V) = Cardinality(U) + ((IF c \in V THEN 1 ELSE 0) - (IF c \in U THEN 1 ELSE 0))
  BY <1>3, <1>4, <1>6
<1>8. Begun(calls[c], call, name) = (IF c \in V THEN 1 ELSE 0) - (IF c \in U THEN 1 ELSE 0)
  BY <1>2 DEF Begun
<1> QED BY <1>3, <1>7, <1>8 DEF U, V

(* What a statement does to the policies: those of vendor n use d halves more. *)
Extra(name, n, d) == IF name = n THEN d ELSE 0

Balanced(db, to, n, d) ==
    /\ \A p \in DOMAIN to.policies :
         LET new == to.policies[p]
         IN  /\ Confident(new)
             /\ \/ /\ p \in DOMAIN db.policies /\ new.vendor = db.policies[p].vendor
                   /\ \A h \in Int : Explained(db.policies[p], h)
                                       => Explained(new, h + Extra(new.vendor, n, d))
                \/ GetVendorPolicy(db, new.vendor) = {} /\ Explained(new, Extra(new.vendor, n, d))
    /\ \A p \in DOMAIN db.policies : GetVendorPolicy(to, db.policies[p].vendor) # {}

AllConfident(db) == \A p \in DOMAIN db.policies : Confident(db.policies[p])

LEMMA PoliciesStepped ==
    ASSUME PoliciesInv, NEW c \in Callers, NEW call, calls[c].at # "gone",
           call.at # "gone", Begin(c, call) \/ Continue(c, call),
           PoliciesTable(rows'), PolicyCall(call), NEW n, NEW d \in Int,
           Half(call) => GetVendorPolicy(rows', call.name) # {},
           ~rows'.dropped => ~rows.dropped /\ (AllConfident(rows) => Balanced(rows, rows', n, d)),
           \A name : Begun(calls[c], call, name) + Cardinality(Lost(rows', name))
                       = Cardinality(Lost(rows, name)) + Extra(name, n, d),
           \A i \in DOMAIN rows'.lost :
              \/ i \in DOMAIN rows.lost /\ rows'.lost[i] = rows.lost[i]
              \/ Half(calls[c]) /\ rows'.lost[i] = calls[c].name
    PROVE  PoliciesInv' /\ part' = part
<1>1. /\ part' = part /\ DOMAIN calls' = Callers /\ calls'[c] = call
      /\ \A e \in Callers \ {c} : calls'[e] = calls[e]
  BY OthersStay DEF PoliciesInv
<1>2. \A e \in Waiting("corrected", "increment")' :
         IF e = c THEN Half(call) ELSE e \in Waiting("corrected", "increment")
  BY <1>1 DEF Waiting, At, Half
<1>3. \A e \in Callers : PolicyCall(calls'[e]) BY <1>1 DEF PoliciesInv
<1>4. ASSUME ~rows'.dropped
      PROVE  /\ \A p \in DOMAIN rows'.policies :
                  LET name == rows'.policies[p].vendor
                  IN  /\ Explained(rows'.policies[p], Cardinality(Underway(calls', name))
                                                        + Cardinality(Lost(rows', name)))
                      /\ Confident(rows'.policies[p])
             /\ \A e \in Waiting("corrected", "increment")' :
                  GetVendorPolicy(rows', calls'[e].name) # {}
             /\ \A i \in DOMAIN rows'.lost : GetVendorPolicy(rows', rows'.lost[i]) # {}
  <2>1. /\ \A p \in DOMAIN rows.policies :
              /\ Explained(rows.policies[p], Halves(rows.policies[p].vendor))
              /\ Confident(rows.policies[p])
        /\ \A e \in Waiting("corrected", "increment") : GetVendorPolicy(rows, calls[e].name) # {}
        /\ \A i \in DOMAIN rows.lost : GetVendorPolicy(rows, rows.lost[i]) # {}
        /\ PoliciesTable(rows)
    BY <1>4 DEF PoliciesInv, Halves
  <2>2. Balanced(rows, rows', n, d) BY <1>4, <2>1 DEF AllConfident
  <2>3. ASSUME NEW name
        PROVE  /\ Halves(name) \in Int /\ Extra(name, n, d) \in Int
               /\ Cardinality(Underway(calls', name)) + Cardinality(Lost(rows', name))
                    = Halves(name) + Extra(name, n, d)
    <3>1. /\ Cardinality(Underway(calls', name)) = Cardinality(Underway(calls, name)) + Begun(calls[c], call, name)
          /\ Begun(calls[c], call, name) \in Int
      BY UnderwayMoves DEF PoliciesInv, Begun
    <3>2. /\ Cardinality(Underway(calls, name)) \in Nat /\ Cardinality(Lost(rows, name)) \in Nat
          /\ Cardinality(Lost(rows', name)) \in Nat /\ Extra(name, n, d) \in Int
      BY <2>1, UnderwayFinite, LostFinite DEF Extra
    <3>3. Begun(calls[c], call, name) + Cardinality(Lost(rows', name))
             = Cardinality(Lost(rows, name)) + Extra(name, n, d) OBVIOUS
    <3> DEFINE u == Cardinality(Underway(calls, name))
               v == Cardinality(Underway(calls', name))
               k == Cardinality(Lost(rows, name))
               m == Cardinality(Lost(rows', name))
               b == Begun(calls[c], call, name)
               x == Extra(name, n, d)
    <3>4. /\ u \in Int /\ k \in Int /\ m \in Int /\ x \in Int /\ b \in Int /\ v = u + b
          /\ b + m = k + x
      BY <3>1, <3>2, <3>3
    <3> HIDE DEF u, v, k, m, b, x
    <3>5. v + m = (u + k) + x /\ u + k \in Int BY <3>4
    <3> QED BY <3>4, <3>5 DEF u, v, k, m, x, Halves
  <2>4. \A name : GetVendorPolicy(rows, name) # {} => GetVendorPolicy(rows', name) # {}
    BY <2>2 DEF Balanced, GetVendorPolicy
  <2>5. ASSUME NEW name, GetVendorPolicy(rows, name) = {} PROVE Halves(name) = 0
    <3>1. Underway(calls, name) = {} /\ Lost(rows, name) = {}
      BY <2>1, <2>5 DEF Underway, Lost, Half, Waiting, At
    <3> QED BY <3>1, FS_EmptySet DEF Halves
  <2>6. ASSUME NEW p \in DOMAIN rows'.policies
        PROVE  LET name == rows'.policies[p].vendor
               IN  /\ Explained(rows'.policies[p], Cardinality(Underway(calls', name))
                                                     + Cardinality(Lost(rows', name)))
                   /\ Confident(rows'.policies[p])
    <3> DEFINE new == rows'.policies[p]
               name == new.vendor
    <3>1. /\ Confident(new)
          /\ \/ /\ p \in DOMAIN rows.policies /\ new.vendor = rows.policies[p].vendor
                /\ \A h \in Int : Explained(rows.policies[p], h)
                                    => Explained(new, h + Extra(new.vendor, n, d))
             \/ GetVendorPolicy(rows, new.vendor) = {} /\ Explained(new, Extra(new.vendor, n, d))
      BY <2>2 DEF Balanced
    <3> HIDE DEF new
    <3>2. Explained(new, Halves(name) + Extra(name, n, d))
      <4>1. CASE p \in DOMAIN rows.policies /\ new.vendor = rows.policies[p].vendor
                  /\ \A h \in Int : Explained(rows.policies[p], h)
                                      => Explained(new, h + Extra(new.vendor, n, d))
        BY <2>1, <2>3, <4>1
      <4>2. CASE GetVendorPolicy(rows, new.vendor) = {} /\ Explained(new, Extra(new.vendor, n, d))
        BY <2>3, <2>5, <4>2
      <4> QED BY <3>1, <4>1, <4>2
    <3>3. Cardinality(Underway(calls', name)) + Cardinality(Lost(rows', name)) = Halves(name) + Extra(name, n, d)
      BY <2>3
    <3>4. Explained(new, Cardinality(Underway(calls', name)) + Cardinality(Lost(rows', name)))
      BY <3>2, <3>3
    <3> QED BY <3>1, <3>4 DEF new
  <2>7. ASSUME NEW e \in Waiting("corrected", "increment")'
        PROVE  GetVendorPolicy(rows', calls'[e].name) # {}
    BY <1>1, <1>2, <2>1, <2>4 DEF Waiting
  <2>8. ASSUME NEW i \in DOMAIN rows'.lost PROVE GetVendorPolicy(rows', rows'.lost[i]) # {}
    BY <2>1, <2>4 DEF Half, Waiting, At
  <2> QED BY <2>6, <2>7, <2>8
<1> QED BY <1>1, <1>3, <1>4 DEF PoliciesInv

(* A statement that keeps the policies and their vendors. *)
LEMMA PoliciesUpdated ==
    ASSUME NEW db, PoliciesTable(db), NEW to, DOMAIN to = DOMAIN db, to.made = db.made,
           to.lost = db.lost, to.dropped = db.dropped,
           DOMAIN to.policies = DOMAIN db.policies, NEW n, NEW d \in Int,
           \A p \in DOMAIN db.policies :
              /\ Numbered(to.policies[p]) /\ to.policies[p].vendor = db.policies[p].vendor
              /\ Confident(db.policies[p]) => Confident(to.policies[p])
              /\ \A h \in Int : Explained(db.policies[p], h)
                                  => Explained(to.policies[p], h + Extra(to.policies[p].vendor, n, d))
    PROVE  PoliciesTable(to) /\ (AllConfident(db) => Balanced(db, to, n, d))
<1>1. PoliciesTable(to) BY DEF PoliciesTable
<1>2. \A p \in DOMAIN db.policies : GetVendorPolicy(to, db.policies[p].vendor) # {}
  BY DEF GetVendorPolicy
<1> QED BY <1>1, <1>2 DEF Balanced, AllConfident

(* The row an acceptance or a correction leaves. *)
Upserted(text, category, accept, conf, old) ==
    [vendor |-> text.name, aliases |-> old.aliases \cup {text.raw},
     category |-> IF category = NoText THEN old.category ELSE category,
     usage |-> old.usage + 1, accept |-> old.accept + accept, corr |-> old.corr, conf |-> conf]

LEMMA UpsertedIs ==
    ASSUME NEW text, NEW category, NEW accept \in {0, 1}, NEW conf, NEW old,
           old.usage \in Nat, old.accept \in Nat, old.corr \in Nat
    PROVE  /\ Numbered(Upserted(text, category, accept, conf, old))
           /\ Upserted(text, category, accept, conf, old).vendor = text.name
           /\ Upserted(text, category, accept, conf, old).conf = conf
           /\ Upserted(text, category, accept, conf, old).usage = old.usage + 1
           /\ Upserted(text, category, accept, conf, old).accept = old.accept + accept
           /\ Upserted(text, category, accept, conf, old).corr = old.corr
BY DEF Upserted, Numbered

LEMMA UpsertBalances ==
    ASSUME NEW db, PoliciesTable(db), NEW text, NEW category, NEW accept, accept \in {0, 1},
           NEW conf, conf \in {<<1, 1>>, <<1, 2>>}
    PROVE  LET to == UpsertVendorPolicy(db, text, category, accept, conf)
           IN  /\ PoliciesTable(to) /\ to.lost = db.lost /\ to.dropped = db.dropped
               /\ GetVendorPolicy(to, text.name) # {}
               /\ AllConfident(db) => Balanced(db, to, text.name, 1 - accept)
<1> DEFINE to == UpsertVendorPolicy(db, text, category, accept, conf)
           Row(old) == Upserted(text, category, accept, conf, old)
           d == 1 - accept
<1>1. CASE GetVendorPolicy(db, text.name) = {}
  <2> DEFINE none == [aliases |-> {}, category |-> NoText, usage |-> 0, accept |-> 0, corr |-> 0]
             id == db.made + 1
             row == Row(none)
  <2>1. none.usage = 0 /\ none.accept = 0 /\ none.corr = 0 OBVIOUS
  <2>2. to = [db EXCEPT !.policies = With(@, id, row), !.made = @ + 1]
    BY <1>1 DEF UpsertVendorPolicy, Upserted
  <2> HIDE DEF none
  <2>3. /\ Numbered(row) /\ row.vendor = text.name /\ row.conf = conf
        /\ \A h \in Int : Explained(none, h) => Explained(row, h + (1 - accept))
    <3> HIDE DEF to
    <3>1. none.usage \in Nat /\ none.accept \in Nat /\ none.corr \in Nat BY <2>1
    <3>2. /\ Numbered(Upserted(text, category, accept, conf, none))
          /\ Upserted(text, category, accept, conf, none).vendor = text.name
          /\ Upserted(text, category, accept, conf, none).conf = conf
          /\ Upserted(text, category, accept, conf, none).usage = none.usage + 1
          /\ Upserted(text, category, accept, conf, none).accept = none.accept + accept
          /\ Upserted(text, category, accept, conf, none).corr = none.corr
      BY ONLY <3>1, UpsertedIs, accept \in {0, 1}
    <3> HIDE DEF row
    <3>3. /\ Numbered(row) /\ row.vendor = text.name /\ row.conf = conf
          /\ row.usage = none.usage + 1 /\ row.accept = none.accept + accept
          /\ row.corr = none.corr
      BY <3>2 DEF row
    <3>4. ASSUME NEW h \in Int, Explained(none, h) PROVE Explained(row, h + (1 - accept))
      BY <3>1, <3>3, <3>4 DEF Explained
    <3> QED BY <3>3, <3>4
  <2>4. Explained(none, 0) BY <2>1 DEF Explained
  <2> HIDE DEF row, to
  <2>5. Explained(row, d) /\ Confident(row)
    BY <2>3, <2>4 DEF Confident
  <2>6. /\ DOMAIN to = DOMAIN db /\ to.policies = With(db.policies, id, row)
        /\ to.made = db.made + 1 /\ to.lost = db.lost /\ to.dropped = db.dropped
    BY <2>2 DEF PoliciesTable
  <2>7. db.made \in Nat /\ DOMAIN db.policies \subseteq 1..db.made BY DEF PoliciesTable
  <2>8. DOMAIN to.policies \subseteq 1..to.made /\ to.made \in Nat /\ id \notin DOMAIN db.policies
    BY <2>6, <2>7 DEF With
  <2> HIDE DEF id
  <2>9. /\ DOMAIN to.policies = DOMAIN db.policies \cup {id} /\ to.policies[id] = row
        /\ \A p \in DOMAIN db.policies : to.policies[p] = db.policies[p] /\ p # id
    BY <2>6, <2>8 DEF With
  <2>10. PoliciesTable(to) BY <2>3, <2>6, <2>8, <2>9 DEF PoliciesTable
  <2>11. GetVendorPolicy(to, text.name) # {} BY <2>3, <2>9 DEF GetVendorPolicy
  <2>12. ASSUME AllConfident(db) PROVE Balanced(db, to, text.name, d)
    <3>1. ASSUME NEW p \in DOMAIN db.policies
          PROVE  /\ Confident(to.policies[p]) /\ to.policies[p].vendor = db.policies[p].vendor
                 /\ \A h \in Int : Explained(db.policies[p], h)
                      => Explained(to.policies[p], h + Extra(to.policies[p].vendor, text.name, d))
                 /\ GetVendorPolicy(to, db.policies[p].vendor) # {}
      BY <1>1, <2>9, <2>12 DEF GetVendorPolicy, AllConfident, Extra
    <3>2. /\ Confident(to.policies[id]) /\ GetVendorPolicy(db, to.policies[id].vendor) = {}
          /\ Explained(to.policies[id], Extra(to.policies[id].vendor, text.name, d))
      BY <1>1, <2>3, <2>5, <2>9 DEF Extra
    <3> HIDE DEF d
    <3> QED BY <2>9, <3>1, <3>2 DEF Balanced
  <2> QED BY <2>6, <2>10, <2>11, <2>12 DEF to
<1>2. CASE GetVendorPolicy(db, text.name) # {}
  <2>1. to = [db EXCEPT !.policies = [p \in DOMAIN @ |->
                 IF @[p].vendor = text.name THEN Row(@[p]) ELSE @[p]]]
    BY <1>2 DEF UpsertVendorPolicy, Upserted
  <2> HIDE DEF to
  <2>2. /\ DOMAIN to = DOMAIN db /\ to.made = db.made /\ to.lost = db.lost
        /\ to.dropped = db.dropped
        /\ to.policies = [p \in DOMAIN db.policies |->
              IF db.policies[p].vendor = text.name THEN Row(db.policies[p]) ELSE db.policies[p]]
    BY <2>1 DEF PoliciesTable
  <2>3. ASSUME NEW p \in DOMAIN db.policies
        PROVE  /\ Numbered(to.policies[p]) /\ to.policies[p].vendor = db.policies[p].vendor
               /\ Confident(db.policies[p]) => Confident(to.policies[p])
               /\ \A h \in Int : Explained(db.policies[p], h)
                    => Explained(to.policies[p], h + Extra(to.policies[p].vendor, text.name, d))
    <3> DEFINE old == db.policies[p]
               new == to.policies[p]
    <3>1. Numbered(old) /\ old.usage \in Nat /\ old.accept \in Nat /\ old.corr \in Nat
      BY DEF PoliciesTable, Numbered
    <3>2. CASE old.vendor = text.name
      <4>1. new = Row(old) BY <2>2, <3>2
      <4> HIDE DEF old, new
      <4>2. /\ Numbered(new) /\ new.vendor = text.name /\ new.conf = conf
            /\ \A h \in Int : Explained(old, h) => Explained(new, h + (1 - accept))
        <5>1. /\ Numbered(Upserted(text, category, accept, conf, old))
              /\ Upserted(text, category, accept, conf, old).vendor = text.name
              /\ Upserted(text, category, accept, conf, old).conf = conf
              /\ Upserted(text, category, accept, conf, old).usage = old.usage + 1
              /\ Upserted(text, category, accept, conf, old).accept = old.accept + accept
              /\ Upserted(text, category, accept, conf, old).corr = old.corr
          BY ONLY <3>1, UpsertedIs, accept \in {0, 1}
        <5>2. ASSUME NEW h \in Int, Explained(old, h) PROVE Explained(new, h + (1 - accept))
          BY <3>1, <4>1, <5>1, <5>2 DEF Explained
        <5> QED BY <4>1, <5>1, <5>2
      <4> HIDE DEF d
      <4>3. Extra(new.vendor, text.name, d) = d BY <4>2 DEF Extra
      <4>4. Confident(new) BY <4>2 DEF Confident
      <4> QED BY <3>2, <4>2, <4>3, <4>4 DEF d, old, new
    <3>3. CASE old.vendor # text.name
      <4>1. new = old BY <2>2, <3>3
      <4>2. Extra(new.vendor, text.name, d) = 0 BY <3>3, <4>1 DEF Extra
      <4>3. \A h \in Int : h + 0 = h OBVIOUS
      <4> HIDE DEF old, new, d
      <4> QED BY <3>1, <4>1, <4>2, <4>3 DEF old, new
    <3> QED BY <3>2, <3>3
  <2>4. DOMAIN to.policies = DOMAIN db.policies /\ d \in Int BY <2>2
  <2> HIDE DEF d
  <2>5. PoliciesTable(to) /\ (AllConfident(db) => Balanced(db, to, text.name, d))
    BY <2>2, <2>3, <2>4, PoliciesUpdated
  <2>6. GetVendorPolicy(to, text.name) # {} BY <1>2, <2>3, <2>4 DEF GetVendorPolicy
  <2> QED BY <2>2, <2>5, <2>6 DEF to, d
<1> QED BY <1>1, <1>2

LEMMA NothingBalances ==
    ASSUME NEW db, PoliciesTable(db), NEW n
    PROVE  AllConfident(db) => Balanced(db, db, n, 0)
<1>1. 0 \in Int OBVIOUS
<1>2. ASSUME NEW p \in DOMAIN db.policies
      PROVE  /\ Numbered(db.policies[p])
             /\ \A h \in Int : Explained(db.policies[p], h)
                  => Explained(db.policies[p], h + Extra(db.policies[p].vendor, n, 0))
  BY DEF Extra, PoliciesTable
<1> QED BY <1>1, <1>2, PoliciesUpdated

(* A step of a request that is between no two statements. *)
LEMMA PoliciesWhole ==
    ASSUME PoliciesInv, NEW c \in Callers, NEW call, calls[c].at # "gone",
           call.at # "gone", Begin(c, call) \/ Continue(c, call),
           PoliciesTable(rows'), PolicyCall(call), ~Half(call), ~Half(calls[c]), NEW n,
           rows'.lost = rows.lost,
           ~rows'.dropped => ~rows.dropped /\ (AllConfident(rows) => Balanced(rows, rows', n, 0))
    PROVE  PoliciesInv' /\ part' = part
<1>1. \A name : Begun(calls[c], call, name) = 0 /\ Extra(name, n, 0) = 0 BY DEF Begun, Extra
<1>2. \A name : Cardinality(Lost(rows', name)) = Cardinality(Lost(rows, name))
                  /\ Cardinality(Lost(rows, name)) \in Nat
  BY LostFinite DEF Lost, PoliciesInv
<1>3. \A name : Begun(calls[c], call, name) + Cardinality(Lost(rows', name))
                  = Cardinality(Lost(rows, name)) + Extra(name, n, 0)
  BY <1>1, <1>2
<1>4. \A i \in DOMAIN rows'.lost : i \in DOMAIN rows.lost /\ rows'.lost[i] = rows.lost[i] OBVIOUS
<1>5. 0 \in Int OBVIOUS
<1> QED BY <1>3, <1>4, <1>5, PoliciesStepped

LEMMA PoliciesRead ==
    ASSUME PoliciesInv, NEW c \in Callers, NEW call, calls[c].at # "gone",
           call.at # "gone", Begin(c, call) \/ Continue(c, call), Reads,
           PolicyCall(call), ~Half(call), ~Half(calls[c])
    PROVE  PoliciesInv' /\ part' = part
<1>1. rows' = rows /\ PoliciesTable(rows) BY DEF Reads, PoliciesInv
<1>2. AllConfident(rows) => Balanced(rows, rows, 0, 0) BY <1>1, NothingBalances
<1> QED BY <1>1, <1>2, PoliciesWhole

LEMMA PolicyAnswered ==
    ASSUME NEW op \in PolicyOps, NEW status
    PROVE  /\ PolicyCall(Answered(op, status)) /\ ~Half(Answered(op, status))
           /\ Answered(op, status).at # "gone"
BY DEF Answered, PolicyCall, Half

(* What the statements that keep the vendors do. *)
Accepted(old) ==
    [old EXCEPT !.accept = @ + 1, !.usage = @ + 1,
                !.conf = <<old.accept + 1, old.accept + old.corr + 1>>]

LEMMA AcceptanceBalances ==
    ASSUME NEW db, PoliciesTable(db), NEW name
    PROVE  LET to == IncrementVendorAcceptance(db, name)
           IN  /\ PoliciesTable(to) /\ to.lost = db.lost /\ to.dropped = db.dropped
               /\ AllConfident(db) => Balanced(db, to, name, 0)
<1> DEFINE to == IncrementVendorAcceptance(db, name)
<1>1. to = [db EXCEPT !.policies = [p \in DOMAIN @ |->
                  IF @[p].vendor = name THEN Accepted(@[p]) ELSE @[p]]]
  BY DEF IncrementVendorAcceptance, Accepted
<1> HIDE DEF to
<1>2. /\ DOMAIN to = DOMAIN db /\ to.made = db.made /\ to.lost = db.lost
      /\ to.dropped = db.dropped /\ DOMAIN to.policies = DOMAIN db.policies
  BY <1>1 DEF PoliciesTable
<1>3. to.policies = [p \in DOMAIN db.policies |->
                       IF db.policies[p].vendor = name THEN Accepted(db.policies[p]) ELSE db.policies[p]]
  BY <1>1 DEF PoliciesTable
<1>4. ASSUME NEW p \in DOMAIN db.policies
      PROVE  /\ Numbered(to.policies[p]) /\ to.policies[p].vendor = db.policies[p].vendor
             /\ Confident(db.policies[p]) => Confident(to.policies[p])
             /\ \A h \in Int : Explained(db.policies[p], h)
                  => Explained(to.policies[p], h + Extra(to.policies[p].vendor, name, 0))
  <2> DEFINE old == db.policies[p]
             new == to.policies[p]
  <2>1. Numbered(old) BY DEF PoliciesTable
  <2>2. new = IF old.vendor = name THEN Accepted(old) ELSE old BY <1>3
  <2> HIDE DEF old, new
  <2>3. Extra(new.vendor, name, 0) = 0 /\ \A h \in Int : h + 0 = h BY DEF Extra
  <2>4. CASE old.vendor # name BY <2>1, <2>2, <2>3, <2>4 DEF old, new
  <2>5. CASE old.vendor = name
    <3>1. /\ DOMAIN new = {"vendor", "aliases", "category", "usage", "accept", "corr", "conf"}
          /\ new.vendor = old.vendor /\ new.usage = old.usage + 1 /\ new.accept = old.accept + 1
          /\ new.corr = old.corr
          /\ new.conf = <<old.accept + 1, old.accept + old.corr + 1>>
      BY <2>1, <2>2, <2>5 DEF Numbered, Accepted
    <3>2. old.usage \in Nat /\ old.accept \in Nat /\ old.corr \in Nat BY <2>1 DEF Numbered
    <3>3. Numbered(new) BY <3>1, <3>2 DEF Numbered
    <3>4. old.accept + old.corr + 1 = new.accept + new.corr BY <3>1, <3>2
    <3>5. Confident(new) BY <3>1, <3>4 DEF Confident
    <3>6. ASSUME NEW h \in Int, Explained(old, h) PROVE Explained(new, h)
      BY <3>1, <3>2, <3>6 DEF Explained
    <3> QED BY <2>3, <3>1, <3>3, <3>5, <3>6 DEF old, new
  <2> QED BY <2>4, <2>5
<1>5. PoliciesTable(to) /\ (AllConfident(db) => Balanced(db, to, name, 0))
  <2>1. 0 \in Int OBVIOUS
  <2> QED BY <1>2, <1>4, <2>1, PoliciesUpdated
<1> QED BY <1>2, <1>5 DEF to

Corrected(old) ==
    [old EXCEPT !.corr = @ + 1, !.usage = @ + 1,
                !.conf = <<old.accept, old.accept + old.corr + 1>>]

LEMMA CorrectionBalances ==
    ASSUME NEW db, PoliciesTable(db), NEW name
    PROVE  LET to == IncrementVendorCorrection(db, name)
           IN  /\ PoliciesTable(to) /\ to.lost = db.lost /\ to.dropped = db.dropped
               /\ AllConfident(db) => Balanced(db, to, name, -1)
<1> DEFINE to == IncrementVendorCorrection(db, name)
<1>1. to = [db EXCEPT !.policies = [p \in DOMAIN @ |->
                  IF @[p].vendor = name THEN Corrected(@[p]) ELSE @[p]]]
  BY DEF IncrementVendorCorrection, Corrected
<1> HIDE DEF to
<1>2. /\ DOMAIN to = DOMAIN db /\ to.made = db.made /\ to.lost = db.lost
      /\ to.dropped = db.dropped /\ DOMAIN to.policies = DOMAIN db.policies
  BY <1>1 DEF PoliciesTable
<1>3. to.policies = [p \in DOMAIN db.policies |->
                       IF db.policies[p].vendor = name THEN Corrected(db.policies[p]) ELSE db.policies[p]]
  BY <1>1 DEF PoliciesTable
<1>4. ASSUME NEW p \in DOMAIN db.policies
      PROVE  /\ Numbered(to.policies[p]) /\ to.policies[p].vendor = db.policies[p].vendor
             /\ Confident(db.policies[p]) => Confident(to.policies[p])
             /\ \A h \in Int : Explained(db.policies[p], h)
                  => Explained(to.policies[p], h + Extra(to.policies[p].vendor, name, -1))
  <2> DEFINE old == db.policies[p]
             new == to.policies[p]
  <2>1. Numbered(old) BY DEF PoliciesTable
  <2>2. new = IF old.vendor = name THEN Corrected(old) ELSE old BY <1>3
  <2> HIDE DEF old, new
  <2>3. CASE old.vendor # name
    BY <2>2, <2>3, <2>1 DEF Extra, old, new
  <2>4. CASE old.vendor = name
    <3>1. /\ DOMAIN new = {"vendor", "aliases", "category", "usage", "accept", "corr", "conf"}
          /\ new.vendor = old.vendor /\ new.usage = old.usage + 1 /\ new.accept = old.accept
          /\ new.corr = old.corr + 1
          /\ new.conf = <<old.accept, old.accept + old.corr + 1>>
      BY <2>1, <2>2, <2>4 DEF Numbered, Corrected
    <3>2. old.usage \in Nat /\ old.accept \in Nat /\ old.corr \in Nat BY <2>1 DEF Numbered
    <3>3. Numbered(new) BY <3>1, <3>2 DEF Numbered
    <3>4. old.accept + old.corr + 1 = new.accept + new.corr BY <3>1, <3>2
    <3>5. Confident(new) BY <3>1, <3>4 DEF Confident
    <3>6. Extra(new.vendor, name, -1) = -1 BY <2>4, <3>1 DEF Extra
    <3>7. ASSUME NEW h \in Int, Explained(old, h) PROVE Explained(new, h + (-1))
      BY <3>1, <3>2, <3>7 DEF Explained
    <3> QED BY <3>1, <3>3, <3>5, <3>6, <3>7 DEF old, new
  <2> QED BY <2>3, <2>4
<1>5. PoliciesTable(to) /\ (AllConfident(db) => Balanced(db, to, name, -1))
  BY <1>2, <1>4, PoliciesUpdated
<1> QED BY <1>2, <1>5 DEF to

LEMMA DefaultsBalance ==
    ASSUME NEW db, PoliciesTable(db), NEW name, NEW category
    PROVE  LET to == UpdateVendorDefaults(db, name, category)
           IN  /\ PoliciesTable(to) /\ to.lost = db.lost /\ to.dropped = db.dropped
               /\ AllConfident(db) => Balanced(db, to, name, 0)
<1> DEFINE to == UpdateVendorDefaults(db, name, category)
<1>1. to = [db EXCEPT !.policies = [p \in DOMAIN @ |->
              IF @[p].vendor = name /\ category # NoText THEN [@[p] EXCEPT !.category = category]
              ELSE @[p]]]
  BY DEF UpdateVendorDefaults
<1> HIDE DEF to
<1>2. /\ DOMAIN to = DOMAIN db /\ to.made = db.made /\ to.lost = db.lost
      /\ to.dropped = db.dropped /\ DOMAIN to.policies = DOMAIN db.policies
  BY <1>1 DEF PoliciesTable
<1>3. ASSUME NEW p \in DOMAIN db.policies
      PROVE  /\ Numbered(to.policies[p]) /\ to.policies[p].vendor = db.policies[p].vendor
             /\ Confident(db.policies[p]) => Confident(to.policies[p])
             /\ \A h \in Int : Explained(db.policies[p], h)
                  => Explained(to.policies[p], h + Extra(to.policies[p].vendor, name, 0))
  <2> DEFINE old == db.policies[p]
             new == to.policies[p]
  <2>1. Numbered(old) BY DEF PoliciesTable
  <2>2. new = old \/ new = [old EXCEPT !.category = category] BY <1>1 DEF PoliciesTable
  <2> HIDE DEF old, new
  <2>3. /\ DOMAIN new = DOMAIN old /\ new.vendor = old.vendor /\ new.usage = old.usage
        /\ new.accept = old.accept /\ new.corr = old.corr /\ new.conf = old.conf
    BY <2>1, <2>2 DEF Numbered
  <2>4. Extra(new.vendor, name, 0) = 0 /\ \A h \in Int : h + 0 = h BY DEF Extra
  <2>5. Numbered(new) /\ (Confident(old) => Confident(new)) BY <2>1, <2>3 DEF Numbered, Confident
  <2>6. ASSUME NEW h \in Int, Explained(old, h) PROVE Explained(new, h) BY <2>3, <2>6 DEF Explained
  <2> QED BY <2>3, <2>4, <2>5, <2>6 DEF old, new
<1>4. PoliciesTable(to) /\ (AllConfident(db) => Balanced(db, to, name, 0))
  <2>1. 0 \in Int OBVIOUS
  <2> QED BY <1>2, <1>3, <2>1, PoliciesUpdated
<1> QED BY <1>2, <1>4 DEF to

LEMMA DroppedBalances ==
    ASSUME NEW db, PoliciesTable(db), NEW id
    PROVE  LET to == DeleteVendorPolicy(db, id)
           IN  /\ PoliciesTable(to) /\ to.lost = db.lost
               /\ ~to.dropped => ~db.dropped /\ (AllConfident(db) => Balanced(db, to, 0, 0))
<1> DEFINE to == DeleteVendorPolicy(db, id)
<1>1. to = [db EXCEPT !.policies = Without(@, {id}), !.dropped = @ \/ id \in DOMAIN db.policies]
  BY DEF DeleteVendorPolicy
<1> HIDE DEF to
<1>2. /\ DOMAIN to = DOMAIN db /\ to.policies = Without(db.policies, {id}) /\ to.lost = db.lost
      /\ to.made = db.made /\ to.dropped = (db.dropped \/ id \in DOMAIN db.policies)
  BY <1>1 DEF PoliciesTable
<1>3. /\ DOMAIN to.policies = DOMAIN db.policies \ {id}
      /\ \A p \in DOMAIN to.policies : to.policies[p] = db.policies[p]
  BY <1>2 DEF Without, Restrict
<1>4. to.dropped \in BOOLEAN /\ (~to.dropped => ~db.dropped /\ id \notin DOMAIN db.policies)
  BY <1>2 DEF PoliciesTable
<1>5. PoliciesTable(to) BY <1>2, <1>3, <1>4 DEF PoliciesTable
<1>6. ASSUME id \notin DOMAIN db.policies, AllConfident(db) PROVE Balanced(db, to, 0, 0)
  <2>1. Balanced(db, db, 0, 0) BY <1>6, NothingBalances
  <2>2. DOMAIN to.policies = DOMAIN db.policies BY <1>3, <1>6
  <2>3. \A name : GetVendorPolicy(to, name) = GetVendorPolicy(db, name)
    BY <1>3, <2>2 DEF GetVendorPolicy
  <2> QED BY <1>3, <2>1, <2>2, <2>3 DEF Balanced
<1> QED BY <1>2, <1>4, <1>5, <1>6 DEF to

LEMMA AcceptanceRecorded ==
    ASSUME PoliciesInv, NEW c \in Callers, RecordAcceptance(c)
    PROVE  PoliciesInv' /\ part' = part
<1> DEFINE call == Answered("accept", 200)
<1>1. PolicyCall(call) /\ ~Half(call) /\ call.at # "gone" BY PolicyAnswered DEF PolicyOps
<1>2. calls[c].at = "answered" /\ Begin(c, call) /\ PoliciesTable(rows)
  BY DEF RecordAcceptance, Free, AnswerAtOnce, PoliciesInv
<1>3. PICK text, category : Reads \/ rows' = UpsertVendorPolicy(rows, text, category, 1, <<1, 1>>)
  BY DEF RecordAcceptance, Store
<1> HIDE DEF call
<1>4. ~Half(calls[c]) /\ calls[c].at # "gone" BY <1>2 DEF Half
<1>5. CASE Reads BY <1>1, <1>2, <1>4, <1>5, PoliciesRead
<1>6. CASE rows' = UpsertVendorPolicy(rows, text, category, 1, <<1, 1>>)
  <2> DEFINE accept == 1
             conf == <<1, 1>>
  <2>1. accept \in {0, 1} /\ conf \in {<<1, 1>>, <<1, 2>>} /\ 1 - accept = 0 OBVIOUS
  <2>2. rows' = UpsertVendorPolicy(rows, text, category, accept, conf) BY <1>6
  <2> HIDE DEF accept, conf
  <2>3. /\ PoliciesTable(rows') /\ rows'.lost = rows.lost /\ rows'.dropped = rows.dropped
        /\ AllConfident(rows) => Balanced(rows, rows', text.name, 1 - accept)
    BY <1>2, <2>1, <2>2, UpsertBalances
  <2>4. AllConfident(rows) => Balanced(rows, rows', text.name, 0) BY <2>1, <2>3
  <2> QED BY <1>1, <1>2, <1>4, <2>3, <2>4, PoliciesWhole
<1> QED BY <1>3, <1>5, <1>6

LEMMA CorrectionBegun ==
    ASSUME PoliciesInv, NEW c \in Callers, RecordVendorCorrection(c)
    PROVE  PoliciesInv' /\ part' = part
<1>1. calls[c].at = "answered" /\ PoliciesTable(rows)
  BY DEF RecordVendorCorrection, Free, PoliciesInv
<1>2. PICK text \in VendorTexts :
         \/ /\ rows' = UpsertVendorPolicy(rows, text, "services", 0, <<1, 2>>)
            /\ Begin(c, [op |-> "corrected", at |-> "increment", name |-> text.name])
         \/ Reads /\ Begin(c, Answered("corrected", 500))
  BY DEF RecordVendorCorrection, Store, AnswerAtOnce
<1>3. ~Half(calls[c]) /\ calls[c].at # "gone" BY <1>1 DEF Half
<1>4. CASE Reads /\ Begin(c, Answered("corrected", 500))
  <2> DEFINE call == Answered("corrected", 500)
  <2>1. PolicyCall(call) /\ ~Half(call) /\ call.at # "gone" BY PolicyAnswered DEF PolicyOps
  <2>2. Reads /\ Begin(c, call) BY <1>4
  <2> HIDE DEF call
  <2> QED BY <1>3, <2>1, <2>2, PoliciesRead
<1>5. CASE /\ rows' = UpsertVendorPolicy(rows, text, "services", 0, <<1, 2>>)
           /\ Begin(c, [op |-> "corrected", at |-> "increment", name |-> text.name])
  <2> DEFINE accept == 0
             conf == <<1, 2>>
             category == "services"
             call == [op |-> "corrected", at |-> "increment", name |-> text.name]
  <2>1. accept \in {0, 1} /\ conf \in {<<1, 1>>, <<1, 2>>} /\ 1 - accept = 1 OBVIOUS
  <2>2. rows' = UpsertVendorPolicy(rows, text, category, accept, conf) /\ Begin(c, call) BY <1>5
  <2>3. call.op = "corrected" /\ call.at = "increment" /\ call.name = text.name OBVIOUS
  <2> HIDE DEF accept, conf, category, call
  <2>4. /\ PoliciesTable(rows') /\ rows'.lost = rows.lost /\ rows'.dropped = rows.dropped
        /\ GetVendorPolicy(rows', text.name) # {}
        /\ AllConfident(rows) => Balanced(rows, rows', text.name, 1 - accept)
    BY <1>1, <2>1, <2>2, UpsertBalances
  <2>5. AllConfident(rows) => Balanced(rows, rows', text.name, 1) BY <2>1, <2>4
  <2>6. text.name \in STRING BY LearningAssumption
  <2>7. PolicyCall(call) /\ call.at # "gone" /\ Half(call)
    BY <2>3, <2>6 DEF PolicyCall, PolicyOps, Half
  <2>8. ASSUME NEW name PROVE  Begun(calls[c], call, name) + Cardinality(Lost(rows', name))
                 = Cardinality(Lost(rows, name)) + Extra(name, text.name, 1)
    BY <1>3, <2>3, <2>7, <1>1, <2>4, LostFinite DEF Begun, Extra, Lost
  <2>9. \A i \in DOMAIN rows'.lost : i \in DOMAIN rows.lost /\ rows'.lost[i] = rows.lost[i] BY <2>4
  <2>10. GetVendorPolicy(rows', call.name) # {} /\ (~rows'.dropped => ~rows.dropped) /\ 1 \in Int
    BY <2>3, <2>4
  <2> QED BY <1>3, <2>2, <2>4, <2>5, <2>7, <2>8, <2>9, <2>10, PoliciesStepped
<1> QED BY <1>2, <1>4, <1>5

LEMMA CorrectionEnded ==
    ASSUME PoliciesInv, NEW c \in Callers, VendorCorrectionIncrements(c)
    PROVE  PoliciesInv' /\ part' = part
<1> DEFINE name == calls[c].name
<1>1. Half(calls[c]) /\ calls[c].op = "corrected" /\ calls[c].at # "gone" /\ PoliciesTable(rows)
  BY DEF VendorCorrectionIncrements, At, Half, PoliciesInv
<1>2. name \in STRING BY <1>1 DEF PoliciesInv, PolicyCall
<1>3. PICK status :
         /\ Continue(c, Answered("corrected", status))
         /\ \/ rows' = IncrementVendorCorrection(rows, name)
            \/ rows' = [rows EXCEPT !.lost = Append(@, name)]
  BY <1>1 DEF VendorCorrectionIncrements, Store, Answer
<1> DEFINE call == Answered("corrected", status)
<1>4. PolicyCall(call) /\ ~Half(call) /\ call.at # "gone" /\ Continue(c, call)
  BY <1>3, PolicyAnswered DEF PolicyOps
<1> HIDE DEF call
<1>5. \A n : Begun(calls[c], call, n) = Extra(n, name, -1) BY <1>1, <1>4 DEF Begun, Extra
<1>6. CASE rows' = IncrementVendorCorrection(rows, name)
  <2>1. /\ PoliciesTable(rows') /\ rows'.lost = rows.lost /\ rows'.dropped = rows.dropped
        /\ AllConfident(rows) => Balanced(rows, rows', name, -1)
    BY <1>1, <1>6, CorrectionBalances
  <2>2. ASSUME NEW n PROVE  Begun(calls[c], call, n) + Cardinality(Lost(rows', n))
                 = Cardinality(Lost(rows, n)) + Extra(n, name, -1)
    <3>1. Begun(calls[c], call, n) = Extra(n, name, -1) /\ Extra(n, name, -1) \in Int
      BY <1>5 DEF Extra
    <3>2. Cardinality(Lost(rows', n)) = Cardinality(Lost(rows, n))
          /\ Cardinality(Lost(rows, n)) \in Nat
      BY <1>1, <2>1, LostFinite DEF Lost
    <3> QED BY <3>1, <3>2
  <2>3. \A i \in DOMAIN rows'.lost : i \in DOMAIN rows.lost /\ rows'.lost[i] = rows.lost[i] BY <2>1
  <2>4. (~rows'.dropped => ~rows.dropped) /\ -1 \in Int BY <2>1
  <2> HIDE DEF name
  <2> QED BY <1>1, <1>4, <2>1, <2>2, <2>3, <2>4, PoliciesStepped
<1>7. CASE rows' = [rows EXCEPT !.lost = Append(@, name)]
  <2>1. /\ DOMAIN rows' = DOMAIN rows /\ rows'.policies = rows.policies /\ rows'.made = rows.made
        /\ rows'.lost = Append(rows.lost, name) /\ rows'.dropped = rows.dropped
    BY <1>1, <1>7 DEF PoliciesTable
  <2>2. /\ rows'.lost \in Seq(STRING)
        /\ DOMAIN rows.lost = 1..Len(rows.lost) /\ Len(rows.lost) \in Nat
        /\ DOMAIN rows'.lost = 1..Len(rows.lost) + 1
        /\ rows'.lost[Len(rows.lost) + 1] = name
        /\ \A i \in DOMAIN rows.lost : rows'.lost[i] = rows.lost[i]
    BY <1>1, <1>2, <2>1, AppendProperties DEF PoliciesTable
  <2>3. PoliciesTable(rows') BY <1>1, <2>1, <2>2 DEF PoliciesTable
  <2>4. AllConfident(rows) => Balanced(rows, rows', name, 0)
    <3>1. AllConfident(rows) => Balanced(rows, rows, name, 0) BY <1>1, NothingBalances
    <3> QED BY <2>1, <3>1 DEF Balanced, GetVendorPolicy
  <2> DEFINE last == Len(rows.lost) + 1
  <2>5. last \notin DOMAIN rows.lost /\ DOMAIN rows'.lost = DOMAIN rows.lost \cup {last} BY <2>2
  <2>6. rows'.lost[last] = name BY <2>2
  <2> HIDE DEF last
  <2>7. ASSUME NEW n PROVE  Begun(calls[c], call, n) + Cardinality(Lost(rows', n))
                 = Cardinality(Lost(rows, n)) + Extra(n, name, 0)
    <3>1. IsFiniteSet(Lost(rows, n)) /\ Cardinality(Lost(rows, n)) \in Nat /\ last \notin Lost(rows, n)
      BY <1>1, <2>5, LostFinite DEF Lost
    <3>2. Extra(n, name, 0) = 0 BY DEF Extra
    <3>3. CASE n = name
      <4>1. Lost(rows', n) = Lost(rows, n) \cup {last} BY <2>2, <2>5, <2>6, <3>3 DEF Lost
      <4>2. Cardinality(Lost(rows', n)) = Cardinality(Lost(rows, n)) + 1
        BY <3>1, <4>1, FS_AddElement
      <4>3. Begun(calls[c], call, n) = -1 BY <1>5, <3>3 DEF Extra
      <4> QED BY <3>1, <3>2, <4>2, <4>3
    <3>4. CASE n # name
      <4>1. Lost(rows', n) = Lost(rows, n) BY <2>2, <2>5, <2>6, <3>4 DEF Lost
      <4>2. Begun(calls[c], call, n) = 0 BY <1>5, <3>4 DEF Extra
      <4> QED BY <3>1, <3>2, <4>1, <4>2
    <3> QED BY <3>3, <3>4
  <2>8. \A i \in DOMAIN rows'.lost :
           \/ i \in DOMAIN rows.lost /\ rows'.lost[i] = rows.lost[i]
           \/ Half(calls[c]) /\ rows'.lost[i] = calls[c].name
    BY <1>1, <2>2, <2>5, <2>6
  <2>9. (~rows'.dropped => ~rows.dropped) /\ 0 \in Int BY <2>1
  <2> HIDE DEF name
  <2> QED BY <1>1, <1>4, <2>3, <2>4, <2>7, <2>8, <2>9, PoliciesStepped
<1> QED BY <1>3, <1>6, <1>7

LEMMA PoliciesMatched ==
    ASSUME PoliciesInv, NEW c \in Callers,
           MatchVendor(c) \/ MatchVendorAlias(c) \/ MatchVendorSearch(c)
    PROVE  PoliciesInv' /\ part' = part
<1>1. Reads BY DEF MatchVendor, MatchVendorAlias, MatchVendorSearch
<1>2. calls[c].at # "gone" /\ ~Half(calls[c])
  BY DEF MatchVendor, MatchVendorAlias, MatchVendorSearch, Free, At, Half
<1>3. CASE MatchVendor(c)
  <2>1. PICK text : \/ Begin(c, [op |-> "match", at |-> "alias", text |-> text])
                    \/ \E p : Begin(c, [op |-> "match", at |-> "answered", text |-> text, policy |-> p])
    BY <1>3 DEF MatchVendor
  <2>2. CASE Begin(c, [op |-> "match", at |-> "alias", text |-> text])
    <3> DEFINE call == [op |-> "match", at |-> "alias", text |-> text]
    <3>1. PolicyCall(call) /\ ~Half(call) /\ call.at # "gone" BY DEF PolicyCall, PolicyOps, Half
    <3>2. Begin(c, call) BY <2>2
    <3> HIDE DEF call
    <3> QED BY <1>1, <1>2, <3>1, <3>2, PoliciesRead
  <2>3. ASSUME NEW p, Begin(c, [op |-> "match", at |-> "answered", text |-> text, policy |-> p])
        PROVE  PoliciesInv' /\ part' = part
    <3> DEFINE call == [op |-> "match", at |-> "answered", text |-> text, policy |-> p]
    <3>1. PolicyCall(call) /\ ~Half(call) /\ call.at # "gone" BY DEF PolicyCall, PolicyOps, Half
    <3>2. Begin(c, call) BY <2>3
    <3> HIDE DEF call
    <3> QED BY <1>1, <1>2, <3>1, <3>2, PoliciesRead
  <2> QED BY <2>1, <2>2, <2>3
<1>4. CASE MatchVendorAlias(c) \/ MatchVendorSearch(c)
  <2>1. \/ MatchVendorAlias(c) /\ Continue(c, [calls[c] EXCEPT !.at = "search"])
        \/ \E p : Continue(c, [op |-> "match", at |-> "answered", text |-> calls[c].text, policy |-> p])
    BY <1>4 DEF MatchVendorAlias, MatchVendorSearch
  <2>2. CASE MatchVendorAlias(c) /\ Continue(c, [calls[c] EXCEPT !.at = "search"])
    <3> DEFINE call == [calls[c] EXCEPT !.at = "search"]
    <3>1. calls[c].op = "match" /\ DOMAIN calls[c] = {"op", "at", "text"}
      BY <2>2 DEF MatchVendorAlias, At, PoliciesInv, PolicyCall
    <3>2. call.op = "match" /\ call.at = "search" BY <3>1
    <3>3. PolicyCall(call) /\ ~Half(call) /\ call.at # "gone"
      BY <3>2 DEF PolicyCall, PolicyOps, Half
    <3>4. Continue(c, call) BY <2>2
    <3> HIDE DEF call
    <3> QED BY <1>1, <1>2, <3>3, <3>4, PoliciesRead
  <2>3. ASSUME NEW p,
               Continue(c, [op |-> "match", at |-> "answered", text |-> calls[c].text, policy |-> p])
        PROVE  PoliciesInv' /\ part' = part
    <3> DEFINE call == [op |-> "match", at |-> "answered", text |-> calls[c].text, policy |-> p]
    <3>1. PolicyCall(call) /\ ~Half(call) /\ call.at # "gone" BY DEF PolicyCall, PolicyOps, Half
    <3>2. Continue(c, call) BY <2>3
    <3> HIDE DEF call
    <3> QED BY <1>1, <1>2, <3>1, <3>2, PoliciesRead
  <2> QED BY <2>1, <2>2, <2>3
<1> QED BY <1>3, <1>4

(* The requests that name a policy, and those that answer at once. *)
LEMMA PoliciesAsked ==
    ASSUME PoliciesInv, NEW c \in Callers,
           \/ UpdatePolicy(c) \/ PromotePolicy(c) \/ SuggestRules(c) \/ LearnIgnored(c)
           \/ ListPolicies(c)
    PROVE  PoliciesInv' /\ part' = part
<1>1. Reads
  BY DEF UpdatePolicy, PromotePolicy, PolicyAsked, SuggestRules, LearnIgnored, ListPolicies
<1>2. calls[c].at # "gone" /\ ~Half(calls[c])
  BY DEF UpdatePolicy, PromotePolicy, PolicyAsked, SuggestRules, LearnIgnored, ListPolicies, Free,
     At, Half
<1>3. \/ \E op, status : op \in PolicyOps /\ (\/ Begin(c, Answered(op, status))
                                              \/ Continue(c, Answered(op, status)))
      \/ \E op, at, name : /\ op \in {"defaults", "promote", "suggest"} /\ at # "gone"
                           /\ Begin(c, [op |-> op, at |-> at, name |-> name])
  <2>1. CASE UpdatePolicy(c)
    <3>1. PICK p : \/ Begin(c, Answered("defaults", PolicyResponses.NotFound))
                   \/ Begin(c, [op |-> "defaults", at |-> "write", name |-> rows.policies[p].vendor])
      BY <2>1 DEF UpdatePolicy, PolicyAsked, AnswerAtOnce
    <3>2. "defaults" \in PolicyOps /\ "defaults" \in {"defaults", "promote", "suggest"} /\ "write" # "gone"
      BY DEF PolicyOps
    <3> QED BY <3>1, <3>2
  <2>2. CASE PromotePolicy(c)
    <3>1. PICK p : \/ Begin(c, Answered("promote", PolicyResponses.NotFound))
                   \/ Begin(c, [op |-> "promote", at |-> "write", name |-> rows.policies[p].vendor])
      BY <2>2 DEF PromotePolicy, PolicyAsked, AnswerAtOnce
    <3>2. "promote" \in PolicyOps /\ "promote" \in {"defaults", "promote", "suggest"} /\ "write" # "gone"
      BY DEF PolicyOps
    <3> QED BY <3>1, <3>2
  <2>3. CASE SuggestRules(c) BY <2>3 DEF SuggestRules
  <2>4. CASE LearnIgnored(c) BY <2>4 DEF LearnIgnored, Answer, At, PolicyOps
  <2>5. CASE ListPolicies(c) BY <2>5 DEF ListPolicies, AnswerAtOnce, PolicyOps
  <2> QED BY <2>1, <2>2, <2>3, <2>4, <2>5
<1>4. ASSUME NEW op \in PolicyOps, NEW status,
             Begin(c, Answered(op, status)) \/ Continue(c, Answered(op, status))
      PROVE  PoliciesInv' /\ part' = part
  <2> DEFINE call == Answered(op, status)
  <2>1. PolicyCall(call) /\ ~Half(call) /\ call.at # "gone" BY PolicyAnswered
  <2>2. Begin(c, call) \/ Continue(c, call) BY <1>4
  <2> HIDE DEF call
  <2> QED BY <1>1, <1>2, <2>1, <2>2, PoliciesRead
<1>5. ASSUME NEW op \in {"defaults", "promote", "suggest"}, NEW at, at # "gone", NEW name,
             Begin(c, [op |-> op, at |-> at, name |-> name]) PROVE  PoliciesInv' /\ part' = part
  <2> DEFINE call == [op |-> op, at |-> at, name |-> name]
  <2>1. call.op = op /\ call.at = at OBVIOUS
  <2>2. Begin(c, call) BY <1>5
  <2> HIDE DEF call
  <2>3. PolicyCall(call) /\ ~Half(call) /\ call.at # "gone"
    BY <1>5, <2>1 DEF PolicyCall, PolicyOps, Half
  <2> QED BY <1>1, <1>2, <2>2, <2>3, PoliciesRead
<1> QED BY <1>3, <1>4, <1>5

(* The writes of one statement. *)
LEMMA PoliciesWritten ==
    ASSUME PoliciesInv, NEW c \in Callers,
           UpdatePolicyWrites(c) \/ PromoteRule(c) \/ LearnAccepted(c) \/ DeletePolicy(c)
    PROVE  PoliciesInv' /\ part' = part
<1>1. calls[c].at # "gone" /\ ~Half(calls[c]) /\ PoliciesTable(rows)
  BY DEF UpdatePolicyWrites, PromoteRule, LearnAccepted, DeletePolicy, Free, At, Half, PoliciesInv
<1>2. PICK op, status : op \in PolicyOps /\ (\/ Begin(c, Answered(op, status))
                                            \/ Continue(c, Answered(op, status)))
  BY DEF UpdatePolicyWrites, Answer, At, PolicyOps, PromoteRule, LearnAccepted, DeletePolicy,
     AnswerAtOnce
<1> DEFINE call == Answered(op, status)
<1>3. /\ PolicyCall(call) /\ ~Half(call) /\ call.at # "gone"
      /\ Begin(c, call) \/ Continue(c, call)
  BY <1>2, PolicyAnswered
<1> HIDE DEF call
<1>4. PICK n : /\ PoliciesTable(rows') /\ rows'.lost = rows.lost
               /\ ~rows'.dropped =>
                    ~rows.dropped /\ (AllConfident(rows) => Balanced(rows, rows', n, 0))
  <2> DEFINE name == calls[c].name
  <2>1. CASE UpdatePolicyWrites(c)
    <3>1. PICK category : rows' = UpdateVendorDefaults(rows, name, category)
      BY <2>1 DEF UpdatePolicyWrites, Store
    <3> HIDE DEF name
    <3> QED BY <1>1, <3>1, DefaultsBalance
  <2>2. CASE PromoteRule(c) \/ LearnAccepted(c)
    <3>1. rows' = IncrementVendorAcceptance(rows, name)
      BY <2>2 DEF PromoteRule, LearnAccepted, Store
    <3> HIDE DEF name
    <3> QED BY <1>1, <3>1, AcceptanceBalances
  <2>3. CASE DeletePolicy(c)
    <3>1. PICK p : rows' = DeleteVendorPolicy(rows, p) BY <2>3 DEF DeletePolicy, Store
    <3> QED BY <1>1, <3>1, DroppedBalances
  <2> QED BY <2>1, <2>2, <2>3
<1> QED BY <1>1, <1>3, <1>4, PoliciesWhole

LEMMA PoliciesKeep ==
    ASSUME PoliciesInv, NEW c \in Callers, PoliciesNext(c)
    PROVE  PoliciesInv' /\ part' = part
BY AcceptanceRecorded, CorrectionBegun, CorrectionEnded, PoliciesMatched, PoliciesAsked,
   PoliciesWritten DEF PoliciesNext

LEMMA PoliciesTold ==
    ASSUME PoliciesInv
    PROVE  UsageExplained
<1>1. \A name : Underway(calls, name) = {c \in Waiting("corrected", "increment") : calls[c].name = name}
  BY DEF Underway, Waiting, At, Half
<1>2. ASSUME NEW p \in DOMAIN rows.policies, ~rows.dropped
      PROVE  LET policy == rows.policies[p]
                 underway == {c \in Waiting("corrected", "increment") : calls[c].name = policy.vendor}
                 lost == {i \in DOMAIN rows.lost : rows.lost[i] = policy.vendor}
             IN  /\ policy.usage = policy.accept + 2 * policy.corr
                                     + Cardinality(underway) + Cardinality(lost)
                 /\ policy.conf \in {<<1, 1>>, <<1, 2>>}
                        \/ policy.conf = <<policy.accept, policy.accept + policy.corr>>
  <2> DEFINE policy == rows.policies[p]
             name == policy.vendor
             u == Cardinality(Underway(calls, name))
             k == Cardinality(Lost(rows, name))
  <2>1. PoliciesTable(rows) /\ Explained(policy, u + k) /\ Confident(policy) BY <1>2 DEF PoliciesInv
  <2>2. Numbered(policy) /\ u \in Nat /\ k \in Nat
    BY <2>1, UnderwayFinite, LostFinite DEF PoliciesTable
  <2>3. /\ u = Cardinality({c \in Waiting("corrected", "increment") : calls[c].name = name})
        /\ k = Cardinality({i \in DOMAIN rows.lost : rows.lost[i] = name})
    BY <1>1 DEF Lost
  <2> HIDE DEF u, k
  <2>4. policy.usage = policy.accept + 2 * policy.corr + u + k BY <2>1, <2>2 DEF Explained, Numbered
  <2> QED BY <2>1, <2>3, <2>4 DEF Confident
<1> QED BY <1>2 DEF UsageExplained

LEMMA PoliciesStarted ==
    ASSUME PoliciesStart(rows), RequestsInit
    PROVE  PoliciesInv
<1>1. DOMAIN calls = Callers /\ \A c \in Callers : calls[c].op = "none" /\ calls[c].at # "increment"
  BY DEF RequestsInit, NoCall, Gone
<1>2. \A c \in Callers : PolicyCall(calls[c]) BY <1>1 DEF PolicyCall, PolicyOps, Half
<1>3. PoliciesTable(rows)
  <2>1. \A p \in DOMAIN rows.policies : Numbered(rows.policies[p])
    <3> SUFFICES ASSUME NEW p \in DOMAIN rows.policies PROVE Numbered(rows.policies[p]) OBVIOUS
    <3>1. rows.policies[p].accept \in Nat /\ rows.policies[p].corr \in Nat
          /\ rows.policies[p].usage = rows.policies[p].accept + 2 * rows.policies[p].corr
      BY DEF PoliciesStart
    <3> QED BY <3>1 DEF PoliciesStart, Numbered
  <2>2. rows.lost \in Seq(STRING) BY EmptySeq DEF PoliciesStart
  <2> QED BY <2>1, <2>2 DEF PoliciesStart, PoliciesTable
<1>4. /\ Waiting("corrected", "increment") = {}
      /\ \A name : Underway(calls, name) = {} /\ Lost(rows, name) = {}
  BY EmptySeq, <1>1 DEF PoliciesStart, Waiting, At, Underway, Half, Lost
<1>5. ASSUME NEW p \in DOMAIN rows.policies
      PROVE  /\ Explained(rows.policies[p], Cardinality(Underway(calls, rows.policies[p].vendor))
                                              + Cardinality(Lost(rows, rows.policies[p].vendor)))
             /\ Confident(rows.policies[p])
  <2> DEFINE policy == rows.policies[p]
  <2>1. /\ policy.usage = policy.accept + 2 * policy.corr /\ policy.accept \in Nat
        /\ policy.corr \in Nat /\ policy.conf = <<policy.accept, policy.accept + policy.corr>>
    BY DEF PoliciesStart
  <2>2. Cardinality({}) = 0 BY FS_EmptySet
  <2> HIDE DEF policy
  <2>3. Explained(policy, 0 + 0) /\ Confident(policy) BY <2>1 DEF Explained, Confident
  <2> QED BY <1>4, <2>2, <2>3 DEF policy
<1>6. DOMAIN rows.lost = {} BY EmptySeq DEF PoliciesStart
<1> QED BY <1>1, <1>2, <1>3, <1>4, <1>5, <1>6 DEF PoliciesInv

----
(* Corrections. *)
LEMMA TimesMore == \A m, n \in Nat : m * n \in Nat /\ m * (n + 1) = m * n + m
OBVIOUS

LEMMA TimesAtMost ==
    ASSUME NEW m \in Nat, NEW k \in Nat, m <= k, NEW n \in Nat
    PROVE  m * n <= k * n
<1> DEFINE d == k - m
<1>1. d \in Nat /\ k = m + d OBVIOUS
<1> HIDE DEF d
<1>2. k * n = m * n + d * n BY <1>1
<1>3. m * n \in Nat /\ d * n \in Nat BY <1>1, TimesMore
<1> QED BY <1>2, <1>3

(* What was corrected alike is not taken back. *)
Extended(db, to) ==
    /\ DOMAIN db.corrections \subseteq DOMAIN to.corrections
    /\ \A k \in DOMAIN db.corrections : to.corrections[k] = db.corrections[k]
    /\ DOMAIN db.rules \subseteq DOMAIN to.rules
    /\ db.blind => to.blind

LEMMA AlikeType ==
    ASSUME NEW corrections, corrections \in Seq(Patterns), NEW looked, looked \subseteq DOMAIN corrections,
           NEW pattern
    PROVE  /\ Alike(corrections, looked, pattern) \in Nat
           /\ Alike(corrections, looked, pattern) <= Alike(corrections, DOMAIN corrections, pattern)
<1>1. IsFiniteSet(DOMAIN corrections) BY FS_Interval
<1> DEFINE some == {k \in looked : corrections[k] = pattern}
           all == {k \in DOMAIN corrections : corrections[k] = pattern}
<1>2. IsFiniteSet(all) BY <1>1, FS_Subset
<1>3. some \subseteq all OBVIOUS
<1>4. /\ IsFiniteSet(some) /\ Cardinality(some) \in Nat /\ Cardinality(all) \in Nat
      /\ Cardinality(some) <= Cardinality(all)
  BY <1>2, <1>3, FS_Subset, FS_CardinalityType
<1> QED BY <1>4 DEF Alike

LEMMA AlikeGrows ==
    ASSUME NEW db, db.corrections \in Seq(Patterns), NEW to, to.corrections \in Seq(Patterns),
           Extended(db, to), NEW pattern
    PROVE  /\ Alike(db.corrections, DOMAIN db.corrections, pattern) \in Nat
           /\ Alike(to.corrections, DOMAIN to.corrections, pattern) \in Nat
           /\ Alike(db.corrections, DOMAIN db.corrections, pattern)
                <= Alike(to.corrections, DOMAIN to.corrections, pattern)
<1> DEFINE few == {k \in DOMAIN db.corrections : db.corrections[k] = pattern}
           many == {k \in DOMAIN to.corrections : to.corrections[k] = pattern}
<1>1. IsFiniteSet(DOMAIN to.corrections) BY FS_Interval
<1>2. IsFiniteSet(many) BY <1>1, FS_Subset
<1>3. few \subseteq many BY DEF Extended
<1>4. Cardinality(few) \in Nat /\ Cardinality(many) \in Nat /\ Cardinality(few) <= Cardinality(many)
  BY <1>2, <1>3, FS_Subset, FS_CardinalityType
<1> QED BY <1>4 DEF Alike

LEMMA BackedStays ==
    ASSUME NEW db, db.corrections \in Seq(Patterns), NEW to, to.corrections \in Seq(Patterns),
           Extended(db, to), NEW rule, Backed(db, rule)
    PROVE  Backed(to, rule)
<1> DEFINE pattern == [field |-> rule.field, value |-> rule.value]
           few == Alike(db.corrections, DOMAIN db.corrections, pattern)
           many == Alike(to.corrections, DOMAIN to.corrections, pattern)
<1>1. few \in Nat /\ many \in Nat /\ few <= many BY AlikeGrows
<1>2. rule.kind = "generic" => rule.on # "desc" /\ rule.source \in RuleThreshold..few BY DEF Backed
<1> HIDE DEF few, many
<1>3. rule.kind = "generic" => rule.source \in RuleThreshold..many BY <1>1, <1>2, LearningAssumption
<1> QED BY <1>2, <1>3 DEF Backed, few, many

LEMMA CallStays ==
    ASSUME NEW db, db.corrections \in Seq(Patterns), NEW to, to.corrections \in Seq(Patterns),
           Extended(db, to), NEW call, CorrectionCall(db, call)
    PROVE  CorrectionCall(to, call)
<1>1. \A rule : Backed(db, rule) => Backed(to, rule) BY BackedStays
<1>2. DOMAIN db.rules \subseteq DOMAIN to.rules /\ (db.blind => to.blind) BY DEF Extended
<1> QED BY <1>1, <1>2 DEF CorrectionCall

LEMMA CorrectionsStepped ==
    ASSUME CorrectionsInv, NEW c \in Callers, NEW call, calls[c].at # "gone",
           call.at # "gone", Begin(c, call) \/ Continue(c, call),
           CorrectionsTable(rows'), Extended(rows, rows'), CorrectionCall(rows', call),
           OnlyOne(c) => (CorrectionAlone(rows, calls[c]) => CorrectionAlone(rows', call))
    PROVE  CorrectionsInv' /\ part' = part
<1>1. /\ part' = part /\ DOMAIN calls' = Callers /\ calls'[c] = call
      /\ \A d \in Callers \ {c} : calls'[d] = calls[d]
      /\ \A e \in Callers : OnlyOne(e)' => e = c /\ OnlyOne(c)
  BY OthersStay DEF CorrectionsInv
<1>2. rows.corrections \in Seq(Patterns) /\ rows'.corrections \in Seq(Patterns)
  BY DEF CorrectionsInv, CorrectionsTable
<1>3. \A x : CorrectionCall(rows, x) => CorrectionCall(rows', x) BY <1>2, CallStays
<1>4. \A d \in Callers : CorrectionCall(rows', calls'[d]) BY <1>1, <1>3 DEF CorrectionsInv
<1> QED BY <1>1, <1>4 DEF CorrectionsInv

LEMMA NothingExtended == \A db : Extended(db, db)
BY DEF Extended

(* What the active rules were made of. *)
Sources(db) == [r \in DOMAIN db.rules |-> db.rules[r].source]
Active(db) == ListActiveCorrectionRulesByCompany(db)

LEMMA CoveredIs ==
    ASSUME NEW db, CorrectionsTable(db)
    PROVE  /\ Covered(db) = SetSum(Sources(db), Active(db)) /\ Covered(db) \in Int
           /\ IsFiniteSet(Active(db)) /\ Active(db) \subseteq DOMAIN db.rules
           /\ \A r \in DOMAIN db.rules : Sources(db)[r] = db.rules[r].source /\ Sources(db)[r] \in Int
           /\ DOMAIN db.rules = 1..Len(db.rules) /\ Len(db.rules) \in Nat
<1>1. /\ db.rules \in Seq(RuleRows) /\ DOMAIN db.rules = 1..Len(db.rules) /\ Len(db.rules) \in Nat
      /\ \A r \in DOMAIN db.rules : db.rules[r] \in RuleRows
  BY ElementOfSeq DEF CorrectionsTable
<1>2. \A r \in DOMAIN db.rules : Sources(db)[r] = db.rules[r].source /\ Sources(db)[r] \in Int
  BY <1>1 DEF Sources, RuleRows
<1>3. Active(db) \subseteq DOMAIN db.rules BY DEF Active, ListActiveCorrectionRulesByCompany
<1>4. IsFiniteSet(Active(db))
  <2>1. IsFiniteSet(1..Len(db.rules)) BY <1>1, FS_Interval
  <2> QED BY <1>1, <1>3, <2>1, FS_Subset
<1>5. Covered(db) = SetSum(Sources(db), Active(db)) BY AddAllIsSum DEF Covered, Sources, Active
<1>6. SetSum(Sources(db), Active(db)) \in Int BY <1>2, <1>3, <1>4, SumType
<1> QED BY <1>1, <1>2, <1>3, <1>4, <1>5, <1>6

LEMMA CorrectionCreated ==
    ASSUME NEW db, CorrectionsTable(db), NEW pattern \in Patterns
    PROVE  LET to == CreateCorrection(db, pattern)
           IN  /\ CorrectionsTable(to) /\ Extended(db, to)
               /\ to.rules = db.rules /\ to.analyses = db.analyses /\ to.blind = db.blind
               /\ Len(to.corrections) = Len(db.corrections) + 1 /\ Len(db.corrections) \in Nat
               /\ Covered(to) = Covered(db) /\ Described(to) = Described(db)
<1> DEFINE to == CreateCorrection(db, pattern)
<1>1. to = [db EXCEPT !.corrections = Append(@, pattern)] BY DEF CreateCorrection
<1> HIDE DEF to
<1>2. /\ DOMAIN to = DOMAIN db /\ to.corrections = Append(db.corrections, pattern)
      /\ to.rules = db.rules /\ to.analyses = db.analyses /\ to.blind = db.blind
  BY <1>1 DEF CorrectionsTable
<1>3. /\ to.corrections \in Seq(Patterns) /\ Len(to.corrections) = Len(db.corrections) + 1
      /\ Len(db.corrections) \in Nat
      /\ DOMAIN db.corrections \subseteq DOMAIN to.corrections
      /\ \A k \in DOMAIN db.corrections : to.corrections[k] = db.corrections[k]
  BY <1>2, AppendProperties DEF CorrectionsTable
<1>4. Extended(db, to) BY <1>2, <1>3 DEF Extended
<1>5. \A rule : Backed(db, rule) => Backed(to, rule) BY <1>3, <1>4, BackedStays DEF CorrectionsTable
<1>6. CorrectionsTable(to) BY <1>2, <1>3, <1>5 DEF CorrectionsTable
<1>7. Covered(to) = Covered(db) /\ Described(to) = Described(db)
  BY <1>2 DEF Covered, Described, FindCorrectionRuleByCompanyAndField,
     ListActiveCorrectionRulesByCompany
<1> QED BY <1>2, <1>3, <1>4, <1>6, <1>7 DEF to

OfDescription(rule) == rule.active /\ rule.field = "category" /\ rule.on = "desc"

LEMMA DescribedIs ==
    \A db : Described(db) = {r \in DOMAIN db.rules : OfDescription(db.rules[r])}
BY DEF Described, FindCorrectionRuleByCompanyAndField, ListActiveCorrectionRulesByCompany,
   OfDescription

LEMMA RuleCreated ==
    ASSUME NEW db, CorrectionsTable(db), NEW rule \in RuleRows, Backed(db, rule)
    PROVE  LET to == CreateCorrectionRule(db, rule)
           IN  /\ CorrectionsTable(to) /\ Extended(db, to)
               /\ to.corrections = db.corrections /\ to.analyses = db.analyses
               /\ to.blind = db.blind
               /\ rule.active => Covered(to) = Covered(db) + rule.source
               /\ ~OfDescription(rule) => Described(to) = Described(db)
               /\ Described(db) = {} => \A r, s \in Described(to) : r = s
<1> DEFINE to == CreateCorrectionRule(db, rule)
           new == Len(db.rules) + 1
<1>1. to = [db EXCEPT !.rules = Append(@, rule)] BY DEF CreateCorrectionRule
<1> HIDE DEF to
<1>2. /\ DOMAIN to = DOMAIN db /\ to.rules = Append(db.rules, rule)
      /\ to.corrections = db.corrections /\ to.analyses = db.analyses /\ to.blind = db.blind
  BY <1>1 DEF CorrectionsTable
<1>3. /\ to.rules \in Seq(RuleRows) /\ Len(db.rules) \in Nat
      /\ DOMAIN db.rules = 1..Len(db.rules) /\ DOMAIN to.rules = 1..Len(db.rules) + 1
      /\ to.rules[new] = rule /\ \A r \in DOMAIN db.rules : to.rules[r] = db.rules[r]
  BY <1>2, AppendProperties DEF CorrectionsTable
<1>4. new \notin DOMAIN db.rules /\ DOMAIN to.rules = DOMAIN db.rules \cup {new} BY <1>3
<1>5. to.rules[new] = rule BY <1>3
<1> HIDE DEF new
<1>6. Extended(db, to) BY <1>2, <1>4 DEF Extended
<1>7. \A r : Backed(db, r) => Backed(to, r) BY <1>2, <1>6, BackedStays DEF CorrectionsTable
<1>8. CorrectionsTable(to) BY <1>2, <1>3, <1>4, <1>5, <1>7 DEF CorrectionsTable
<1>9. ASSUME rule.active PROVE Covered(to) = Covered(db) + rule.source
  <2>1. /\ Covered(db) = SetSum(Sources(db), Active(db)) /\ Covered(db) \in Int
        /\ IsFiniteSet(Active(db)) /\ Active(db) \subseteq DOMAIN db.rules
        /\ \A r \in DOMAIN db.rules : Sources(db)[r] = db.rules[r].source
    BY CoveredIs
  <2>2. /\ Covered(to) = SetSum(Sources(to), Active(to))
        /\ IsFiniteSet(Active(to)) /\ Active(to) \subseteq DOMAIN to.rules
        /\ \A r \in DOMAIN to.rules : Sources(to)[r] = to.rules[r].source /\ Sources(to)[r] \in Int
    BY <1>8, CoveredIs
  <2>3. new \in Active(to) /\ Active(to) \ {new} = Active(db)
    BY <1>3, <1>4, <1>5, <1>9 DEF Active, ListActiveCorrectionRulesByCompany
  <2>4. \A r \in Active(to) : Sources(to)[r] \in Int BY <2>2
  <2>5. SetSum(Sources(to), Active(to)) = Sources(to)[new] + SetSum(Sources(to), Active(to) \ {new})
    BY <2>2, <2>3, <2>4, SumTakes
  <2>6. \A r \in Active(db) : Sources(to)[r] = Sources(db)[r] BY <1>3, <1>4, <2>1, <2>2
  <2>7. SetSum(Sources(to), Active(db)) = SetSum(Sources(db), Active(db)) BY <2>1, <2>6, SumAgrees
  <2>8. Sources(to)[new] = rule.source /\ rule.source \in Int BY <1>4, <1>5, <2>2 DEF RuleRows
  <2>9. Covered(to) = rule.source + Covered(db) BY <2>1, <2>2, <2>3, <2>5, <2>7, <2>8
  <2> QED BY <2>1, <2>8, <2>9
<1>10. ~OfDescription(rule) => Described(to) = Described(db) BY <1>3, <1>4, <1>5, DescribedIs
<1>11. Described(db) = {} => \A r, s \in Described(to) : r = s BY <1>3, <1>4, <1>5, DescribedIs
<1> QED BY <1>2, <1>6, <1>8, <1>9, <1>10, <1>11 DEF to

LEMMA RuleUpdated ==
    ASSUME NEW db, CorrectionsTable(db), NEW id \in DOMAIN db.rules, NEW rule \in RuleRows,
           Backed(db, rule)
    PROVE  LET to == UpdateCorrectionRule(db, id, rule)
           IN  /\ CorrectionsTable(to) /\ Extended(db, to)
               /\ to.corrections = db.corrections /\ to.analyses = db.analyses
               /\ to.blind = db.blind
               /\ (OfDescription(rule) /\ id \in Described(db)) =>
                    /\ Described(to) = Described(db)
                    /\ rule.source >= db.rules[id].source => Covered(to) >= Covered(db)
<1> DEFINE to == UpdateCorrectionRule(db, id, rule)
<1>1. to = [db EXCEPT !.rules[id] = rule] BY DEF UpdateCorrectionRule
<1> HIDE DEF to
<1>2. /\ DOMAIN to = DOMAIN db /\ to.rules = [db.rules EXCEPT ![id] = rule]
      /\ to.corrections = db.corrections /\ to.analyses = db.analyses /\ to.blind = db.blind
  BY <1>1 DEF CorrectionsTable
<1>3. /\ to.rules \in Seq(RuleRows) /\ DOMAIN to.rules = DOMAIN db.rules
      /\ to.rules[id] = rule /\ \A r \in DOMAIN db.rules \ {id} : to.rules[r] = db.rules[r]
  BY <1>2, ExceptSeq DEF CorrectionsTable
<1>4. Extended(db, to) BY <1>2, <1>3 DEF Extended
<1>5. \A r : Backed(db, r) => Backed(to, r) BY <1>2, <1>4, BackedStays DEF CorrectionsTable
<1>6. CorrectionsTable(to) BY <1>2, <1>3, <1>5 DEF CorrectionsTable
<1>7. ASSUME OfDescription(rule), id \in Described(db)
      PROVE  /\ Described(to) = Described(db)
             /\ rule.source >= db.rules[id].source => Covered(to) >= Covered(db)
  <2>1. /\ Covered(db) = SetSum(Sources(db), Active(db)) /\ Covered(db) \in Int
        /\ IsFiniteSet(Active(db)) /\ Active(db) \subseteq DOMAIN db.rules
        /\ \A r \in DOMAIN db.rules : Sources(db)[r] = db.rules[r].source /\ Sources(db)[r] \in Int
    BY CoveredIs
  <2>2. /\ Covered(to) = SetSum(Sources(to), Active(to))
        /\ \A r \in DOMAIN to.rules : Sources(to)[r] = to.rules[r].source /\ Sources(to)[r] \in Int
    BY <1>6, CoveredIs
  <2>3. id \in Active(db) /\ Active(to) = Active(db)
    BY <1>3, <1>7, DescribedIs DEF Active, ListActiveCorrectionRulesByCompany, OfDescription
  <2>4. /\ \A r \in Active(db) : Sources(to)[r] \in Int /\ Sources(db)[r] \in Int
    BY <1>3, <2>1, <2>2
  <2> DEFINE others == Active(db) \ {id}
  <2>5. /\ SetSum(Sources(to), Active(db)) = Sources(to)[id] + SetSum(Sources(to), others)
        /\ SetSum(Sources(db), Active(db)) = Sources(db)[id] + SetSum(Sources(db), others)
    BY <2>1, <2>3, <2>4, SumTakes
  <2>6. IsFiniteSet(others) /\ \A r \in others : Sources(to)[r] = Sources(db)[r]
    BY <1>3, <2>1, <2>2, FS_Subset
  <2>7. SetSum(Sources(to), others) = SetSum(Sources(db), others) BY <2>6, SumAgrees
  <2>8. SetSum(Sources(db), others) \in Int BY <2>4, <2>6, SumType
  <2> HIDE DEF others
  <2>9. /\ Sources(to)[id] = rule.source /\ rule.source \in Int
        /\ Sources(db)[id] = db.rules[id].source /\ db.rules[id].source \in Int
    <3>1. Sources(to)[id] = rule.source /\ Sources(to)[id] \in Int
      BY <1>3, <2>2
    <3> QED BY <2>1, <3>1
  <2>10. rule.source >= db.rules[id].source => Covered(to) >= Covered(db)
    BY <2>1, <2>2, <2>3, <2>5, <2>7, <2>8, <2>9
  <2>11. Described(to) = Described(db)
    <3>1. OfDescription(to.rules[id]) /\ OfDescription(db.rules[id]) BY <1>3, <1>7, DescribedIs
    <3>2. \A r \in DOMAIN db.rules : OfDescription(to.rules[r]) <=> OfDescription(db.rules[r])
      BY <1>3, <3>1
    <3> QED BY <1>3, <3>2, DescribedIs
  <2> QED BY <2>10, <2>11
<1> QED BY <1>2, <1>4, <1>6, <1>7 DEF to

(* Candidates are rules, and rest on the corrections they were found in. *)
Candidate(db, rule) ==
    rule \in RuleRows /\ Backed(db, rule) /\ rule.active /\ rule.kind = "generic"

LEMMA CandidatesAre ==
    ASSUME NEW db, CorrectionsTable(db), NEW looked, looked \subseteq DOMAIN db.corrections,
           NEW rule \in DetectPatterns(db.corrections, looked)
    PROVE  Candidate(db, rule)
<1>1. PICK k \in looked : /\ Alike(db.corrections, looked, db.corrections[k]) >= RuleThreshold
                          /\ rule = BuildCandidate(db.corrections, looked, db.corrections[k])
  BY DEF DetectPatterns
<1> DEFINE pattern == db.corrections[k]
           some == Alike(db.corrections, looked, pattern)
           all == Alike(db.corrections, DOMAIN db.corrections, pattern)
<1>2. db.corrections \in Seq(Patterns) BY DEF CorrectionsTable
<1>3. pattern \in Patterns BY <1>2, ElementOfSeq
<1>4. pattern \in [field : STRING, value : STRING] BY <1>3, LearningAssumption
<1>5. some \in Nat /\ some <= all /\ some >= RuleThreshold BY <1>1, <1>2, AlikeType
<1>6. all \in Nat BY <1>2, AlikeType
<1>7. NoText # "desc" BY Zenon DEF NoText
<1>8. rule = [on |-> NoText, field |-> pattern.field, value |-> pattern.value, kind |-> "generic",
              source |-> some, active |-> TRUE]
  BY <1>1 DEF BuildCandidate
<1> HIDE DEF some, pattern
<1>9. /\ rule.on = NoText /\ rule.field = pattern.field /\ rule.value = pattern.value
      /\ rule.kind = "generic" /\ rule.source = some /\ rule.active = TRUE
  BY <1>8
<1>10. rule \in RuleRows
  BY <1>3, <1>5, <1>8 DEF RuleRows
<1>11. [field |-> rule.field, value |-> rule.value] = pattern BY <1>4, <1>9
<1> HIDE DEF all
<1>12. rule.source \in RuleThreshold..all BY <1>5, <1>6, <1>9, LearningAssumption
<1>13. Backed(db, rule) BY <1>7, <1>9, <1>11, <1>12 DEF Backed, all
<1> QED BY <1>9, <1>10, <1>13 DEF Candidate

LEMMA AnalyzedAre ==
    ASSUME NEW db, CorrectionsTable(db), NEW rule \in AnalyzeCorrections(db)
    PROVE  Candidate(db, rule)
<1>1. ListCorrectionsByCompany(db, MaxAnalyzed) \subseteq DOMAIN db.corrections
  BY DEF ListCorrectionsByCompany, Newest
<1> QED BY <1>1, CandidatesAre DEF AnalyzeCorrections

(* A step that reads, or only records, and leaves the request with nothing to
   write. *)
LEMMA CorrectionsIdle ==
    ASSUME CorrectionsInv, NEW c \in Callers, NEW call, calls[c].at # "gone",
           call.at # "gone", Begin(c, call) \/ Continue(c, call),
           CorrectionsTable(rows'), Extended(rows, rows'),
           ~rows'.blind => ~rows.blind,
           rows'.analyses = rows.analyses, Len(rows'.corrections) >= Len(rows.corrections),
           Covered(rows') = Covered(rows), Described(rows') = Described(rows),
           call.op \in CorrectionOps, call.at \notin {"persist", "write", "cover", "analyze"}
    PROVE  CorrectionsInv' /\ part' = part
<1>1. CorrectionCall(rows', call) BY DEF CorrectionCall, Persisting, Writing
<1>2. /\ Len(rows.corrections) \in Nat /\ Len(rows'.corrections) \in Nat /\ rows.analyses \in Nat
  BY DEF CorrectionsInv, CorrectionsTable
<1>3. AnalyzeNewMin * rows.analyses \in Nat BY <1>2, LearningAssumption, TimesMore
<1>4. CorrectionAlone(rows, calls[c]) => CorrectionAlone(rows', call)
  <2> SUFFICES ASSUME CorrectionAlone(rows, calls[c]), ~rows'.blind
               PROVE  CorrectionAlone(rows', call)
    BY DEF CorrectionAlone
  <2>1. /\ AnalyzeNewMin * rows.analyses <= Len(rows.corrections)
        /\ RuleThreshold * rows.analyses <= Covered(rows)
        /\ \A r, s \in Described(rows) : r = s
    BY DEF CorrectionAlone
  <2>2. AnalyzeNewMin * rows.analyses <= Len(rows'.corrections) BY <1>2, <1>3, <2>1
  <2> QED BY <2>1, <2>2 DEF CorrectionAlone
<1> QED BY <1>1, <1>4, CorrectionsStepped

LEMMA CorrectionsRead ==
    ASSUME CorrectionsInv, NEW c \in Callers, NEW call, calls[c].at # "gone",
           call.at # "gone", Begin(c, call) \/ Continue(c, call), Reads,
           CorrectionCall(rows, call),
           OnlyOne(c) => (CorrectionAlone(rows, calls[c]) => CorrectionAlone(rows, call))
    PROVE  CorrectionsInv' /\ part' = part
<1>1. rows' = rows /\ CorrectionsTable(rows) BY DEF Reads, CorrectionsInv
<1> QED BY <1>1, NothingExtended, CorrectionsStepped

LEMMA CorrectionsAnswered ==
    ASSUME CorrectionsInv, NEW c \in Callers, NEW call, calls[c].at # "gone",
           Begin(c, call) \/ Continue(c, call), Reads,
           call.op \in CorrectionOps, call.at \in {"answered", "second", "count"}
    PROVE  CorrectionsInv' /\ part' = part
<1>1. rows' = rows /\ CorrectionsTable(rows) BY DEF Reads, CorrectionsInv
<1>2. Len(rows.corrections) \in Nat BY <1>1 DEF CorrectionsTable
<1> QED BY <1>1, <1>2, NothingExtended, CorrectionsIdle

LEMMA CorrectionsRecorded ==
    ASSUME CorrectionsInv, NEW c \in Callers, RecordCorrection(c) \/ RecordMappingCorrection(c)
    PROVE  CorrectionsInv' /\ part' = part
<1>1. calls[c].at # "gone" /\ CorrectionsTable(rows)
  BY DEF RecordCorrection, RecordMappingCorrection, Free, CorrectionsInv
<1>2. \/ Reads /\ Begin(c, Answered("correct", 500))
      \/ /\ \E pattern \in Patterns : rows' = CreateCorrection(rows, pattern)
         /\ \/ Begin(c, [op |-> "correct", at |-> "count"])
            \/ Begin(c, Answered("mapping", 200))
  BY DEF RecordCorrection, RecordMappingCorrection, Store, AnswerAtOnce, CorrectionResponses
<1>3. CASE Reads /\ Begin(c, Answered("correct", 500))
  <2> DEFINE call == Answered("correct", 500)
  <2>1. call.op \in CorrectionOps /\ call.at \in {"answered", "second", "count"} /\ Begin(c, call)
    BY <1>3, AnswerIs DEF CorrectionOps
  <2> HIDE DEF call
  <2> QED BY <1>1, <1>3, <2>1, CorrectionsAnswered
<1>4. CASE \E pattern \in Patterns : rows' = CreateCorrection(rows, pattern)
  <2>1. PICK pattern \in Patterns : rows' = CreateCorrection(rows, pattern) BY <1>4
  <2>2. /\ CorrectionsTable(rows') /\ Extended(rows, rows') /\ rows'.blind = rows.blind
        /\ rows'.analyses = rows.analyses
        /\ Len(rows'.corrections) = Len(rows.corrections) + 1 /\ Len(rows.corrections) \in Nat
        /\ Covered(rows') = Covered(rows) /\ Described(rows') = Described(rows)
    BY <1>1, <2>1, CorrectionCreated
  <2>3. Len(rows'.corrections) >= Len(rows.corrections) /\ (~rows'.blind => ~rows.blind) BY <2>2
  <2>4. CASE Begin(c, [op |-> "correct", at |-> "count"])
    <3> DEFINE call == [op |-> "correct", at |-> "count"]
    <3>1. /\ call.op \in CorrectionOps /\ call.at # "gone" /\ Begin(c, call)
          /\ call.at \notin {"persist", "write", "cover", "analyze"}
      BY <2>4 DEF CorrectionOps
    <3> HIDE DEF call
    <3> QED BY <1>1, <2>2, <2>3, <3>1, CorrectionsIdle
  <2>5. CASE Begin(c, Answered("mapping", 200))
    <3> DEFINE call == Answered("mapping", 200)
    <3>1. /\ call.op \in CorrectionOps /\ call.at = "answered" /\ Begin(c, call)
      BY <2>5, AnswerIs DEF CorrectionOps
    <3>2. call.at # "gone" /\ call.at \notin {"persist", "write", "cover", "analyze"} BY <3>1
    <3> HIDE DEF call
    <3> QED BY <1>1, <2>2, <2>3, <3>1, <3>2, CorrectionsIdle
  <2>6. CASE Reads /\ Begin(c, Answered("correct", 500)) BY <1>3, <2>6
  <2> QED BY <1>2, <2>4, <2>5, <2>6
<1> QED BY <1>2, <1>3, <1>4

LEMMA CorrectionsCounted ==
    ASSUME CorrectionsInv, NEW c \in Callers, CorrectionCounts(c)
    PROVE  CorrectionsInv' /\ part' = part
<1> DEFINE total == CountCorrectionsByCompany(rows)
<1>1. /\ Reads /\ calls[c].at # "gone" /\ calls[c].op = "correct"
      /\ \/ Continue(c, Answered("correct", 201))
         \/ Continue(c, [op |-> "correct", at |-> "cover", total |-> total])
  BY DEF CorrectionCounts, At, Answer, CorrectionResponses
<1>2. CASE Continue(c, Answered("correct", 201))
  <2> DEFINE call == Answered("correct", 201)
  <2>1. call.op \in CorrectionOps /\ call.at \in {"answered", "second", "count"} /\ Continue(c, call)
    BY <1>2, AnswerIs DEF CorrectionOps
  <2> HIDE DEF call
  <2> QED BY <1>1, <2>1, CorrectionsAnswered
<1>3. CASE Continue(c, [op |-> "correct", at |-> "cover", total |-> total])
  <2> DEFINE call == [op |-> "correct", at |-> "cover", total |-> total]
  <2>1. call.op = "correct" /\ call.at = "cover" /\ call.total = Len(rows.corrections)
    BY DEF CountCorrectionsByCompany
  <2>2. Continue(c, call) BY <1>3
  <2> HIDE DEF call
  <2>3. CorrectionCall(rows, call) BY <2>1 DEF CorrectionCall, CorrectionOps, Persisting, Writing
  <2>4. CorrectionAlone(rows, calls[c]) => CorrectionAlone(rows, call) BY <2>1 DEF CorrectionAlone
  <2> QED BY <1>1, <2>1, <2>2, <2>3, <2>4, CorrectionsRead
<1> QED BY <1>1, <1>2, <1>3

LEMMA CorrectionsCovered ==
    ASSUME CorrectionsInv, NEW c \in Callers, CorrectionCovers(c)
    PROVE  CorrectionsInv' /\ part' = part
<1>1. /\ calls[c].at = "cover" /\ calls[c].op = "correct" /\ CorrectionsTable(rows)
      /\ \/ Reads /\ Continue(c, Answered("correct", 201))
         \/ /\ calls[c].total - Covered(rows) >= AnalyzeNewMin
            /\ Reads /\ Continue(c, [op |-> "correct", at |-> "analyze"])
         \/ /\ rows' = [rows EXCEPT !.blind = TRUE]
            /\ Continue(c, [op |-> "correct", at |-> "analyze"])
  BY DEF CorrectionCovers, At, Answer, Store, CorrectionResponses, CorrectionsInv
<1>2. CASE Reads /\ Continue(c, Answered("correct", 201))
  <2> DEFINE call == Answered("correct", 201)
  <2>1. call.op \in CorrectionOps /\ call.at \in {"answered", "second", "count"} /\ Continue(c, call)
    BY <1>2, AnswerIs DEF CorrectionOps
  <2> HIDE DEF call
  <2> QED BY <1>1, <1>2, <2>1, CorrectionsAnswered
<1> DEFINE call == [op |-> "correct", at |-> "analyze"]
<1>3. call.op = "correct" /\ call.at = "analyze" OBVIOUS
<1>4. CASE /\ calls[c].total - Covered(rows) >= AnalyzeNewMin /\ Reads
           /\ Continue(c, [op |-> "correct", at |-> "analyze"])
  <2>1. Continue(c, call) BY <1>4
  <2> HIDE DEF call
  <2>2. CorrectionCall(rows, call) BY <1>3 DEF CorrectionCall, CorrectionOps, Persisting, Writing
  <2>3. ASSUME CorrectionAlone(rows, calls[c]), ~rows.blind PROVE CorrectionAlone(rows, call)
    <3>1. /\ calls[c].total = Len(rows.corrections) /\ RuleThreshold * rows.analyses <= Covered(rows)
          /\ AnalyzeNewMin * rows.analyses <= Len(rows.corrections)
          /\ \A r, s \in Described(rows) : r = s
      BY <1>1, <2>3 DEF CorrectionAlone
    <3>2. Len(rows.corrections) \in Nat /\ Covered(rows) \in Int /\ rows.analyses \in Nat
      BY <1>1, CoveredIs DEF CorrectionsTable
    <3>3. AnalyzeNewMin * rows.analyses <= RuleThreshold * rows.analyses
      BY <3>2, LearningAssumption, TimesAtMost
    <3>4. /\ AnalyzeNewMin * (rows.analyses + 1) = AnalyzeNewMin * rows.analyses + AnalyzeNewMin
          /\ AnalyzeNewMin * rows.analyses \in Nat /\ RuleThreshold * rows.analyses \in Nat
      BY <3>2, LearningAssumption, TimesMore
    <3> DEFINE x == AnalyzeNewMin * rows.analyses
               y == RuleThreshold * rows.analyses
               z == AnalyzeNewMin * (rows.analyses + 1)
    <3>5. /\ x \in Nat /\ y \in Nat /\ z = x + AnalyzeNewMin /\ x <= y /\ y <= Covered(rows)
          /\ Len(rows.corrections) - Covered(rows) >= AnalyzeNewMin
      BY <1>4, <3>1, <3>3, <3>4
    <3> HIDE DEF x, y, z
    <3>6. z <= Len(rows.corrections) BY <3>2, <3>5, LearningAssumption
    <3> QED BY <1>3, <3>1, <3>6 DEF CorrectionAlone, z
  <2>4. CorrectionAlone(rows, calls[c]) => CorrectionAlone(rows, call) BY <2>3 DEF CorrectionAlone
  <2> QED BY <1>1, <1>3, <1>4, <2>1, <2>2, <2>4, CorrectionsRead
<1>5. CASE /\ rows' = [rows EXCEPT !.blind = TRUE]
           /\ Continue(c, [op |-> "correct", at |-> "analyze"])
  <2>1. Continue(c, call) BY <1>5
  <2> HIDE DEF call
  <2>2. /\ DOMAIN rows' = DOMAIN rows /\ rows'.corrections = rows.corrections
        /\ rows'.rules = rows.rules /\ rows'.analyses = rows.analyses /\ rows'.blind = TRUE
    BY <1>1, <1>5 DEF CorrectionsTable
  <2>3. CorrectionsTable(rows') /\ Extended(rows, rows')
    BY <1>1, <2>2 DEF CorrectionsTable, Extended, Backed
  <2>4. CorrectionCall(rows', call) /\ CorrectionAlone(rows', call)
    BY <1>3, <2>2 DEF CorrectionCall, CorrectionOps, Persisting, Writing, CorrectionAlone
  <2> QED BY <1>1, <1>3, <2>1, <2>3, <2>4, CorrectionsStepped
<1> QED BY <1>1, <1>2, <1>4, <1>5

LEMMA CorrectionsAnalyzed ==
    ASSUME CorrectionsInv, NEW c \in Callers, CorrectionAnalyzes(c)
    PROVE  CorrectionsInv' /\ part' = part
<1> DEFINE found == AnalyzeCorrections(rows)
<1>1. /\ calls[c].at = "analyze" /\ calls[c].op = "correct" /\ CorrectionsTable(rows) /\ Reads
      /\ \/ Continue(c, Answered("correct", 201))
         \/ Continue(c, [op |-> "correct", at |-> "persist", rest |-> found, kept |-> 0])
  BY DEF CorrectionAnalyzes, At, Answer, CorrectionResponses, CorrectionsInv
<1>2. CASE Continue(c, Answered("correct", 201))
  <2> DEFINE call == Answered("correct", 201)
  <2>1. call.op \in CorrectionOps /\ call.at \in {"answered", "second", "count"} /\ Continue(c, call)
    BY <1>2, AnswerIs DEF CorrectionOps
  <2> HIDE DEF call
  <2> QED BY <1>1, <2>1, CorrectionsAnswered
<1>3. CASE Continue(c, [op |-> "correct", at |-> "persist", rest |-> found, kept |-> 0])
  <2>1. \A rule \in found : Candidate(rows, rule) BY <1>1, AnalyzedAre
  <2> HIDE DEF found
  <2> DEFINE call == [op |-> "correct", at |-> "persist", rest |-> found, kept |-> 0]
  <2>2. /\ DOMAIN call = {"op", "at", "rest", "kept"} /\ call.op = "correct"
        /\ call.at = "persist" /\ call.rest = found /\ call.kept = 0
    OBVIOUS
  <2>3. Continue(c, call) BY <1>3
  <2> HIDE DEF call
  <2>4. CorrectionCall(rows, call)
    BY <2>1, <2>2 DEF CorrectionCall, CorrectionOps, Persisting, Writing, Candidate
  <2>5. CorrectionAlone(rows, calls[c]) => CorrectionAlone(rows, call)
    BY <1>1, <2>2 DEF CorrectionAlone
  <2> QED BY <1>1, <2>2, <2>3, <2>4, <2>5, CorrectionsRead
<1> QED BY <1>1, <1>2, <1>3

LEMMA CorrectionsPersisted ==
    ASSUME CorrectionsInv, NEW c \in Callers, CorrectionPersists(c) \/ RulesPersist(c)
    PROVE  CorrectionsInv' /\ part' = part
<1> DEFINE old == calls[c]
<1>1. PICK op \in {"correct", "persist"} : PersistCandidateRule(c, op)
  BY DEF CorrectionPersists, RulesPersist
<1>2. old.op = op /\ old.at = "persist" /\ CorrectionsTable(rows) /\ CorrectionCall(rows, old)
  BY <1>1 DEF PersistCandidateRule, At, CorrectionsInv
<1>3. /\ DOMAIN old = {"op", "at", "rest", "kept"} /\ old.kept \in Nat
      /\ \A rule \in old.rest :
           /\ rule \in RuleRows /\ Backed(rows, rule) /\ rule.active
           /\ op = "correct" => rule.kind = "generic"
      /\ op = "persist" => rows.blind
  BY <1>2 DEF CorrectionCall, Persisting
<1>4. PICK rule \in old.rest :
         \/ /\ rows' = CreateCorrectionRule(rows, rule)
            /\ Continue(c, [old EXCEPT !.rest = @ \ {rule}, !.kept = @ + 1])
         \/ Reads /\ Continue(c, [old EXCEPT !.rest = @ \ {rule}])
  BY <1>1 DEF PersistCandidateRule, Store
<1>5. CASE /\ rows' = CreateCorrectionRule(rows, rule)
           /\ Continue(c, [old EXCEPT !.rest = @ \ {rule}, !.kept = @ + 1])
  <2> DEFINE call == [old EXCEPT !.rest = @ \ {rule}, !.kept = @ + 1]
  <2>1. /\ DOMAIN call = {"op", "at", "rest", "kept"} /\ call.op = op
        /\ call.at = "persist" /\ call.rest = old.rest \ {rule} /\ call.kept = old.kept + 1
    BY <1>2, <1>3
  <2>2. Continue(c, call) BY <1>5
  <2> HIDE DEF call, old
  <2>3. rule \in RuleRows /\ Backed(rows, rule) /\ rule.active BY <1>3
  <2>5. /\ CorrectionsTable(rows') /\ Extended(rows, rows')
        /\ rows'.corrections = rows.corrections /\ rows'.analyses = rows.analyses
        /\ rows'.blind = rows.blind
        /\ Covered(rows') = Covered(rows) + rule.source
        /\ ~OfDescription(rule) => Described(rows') = Described(rows)
    BY <1>2, <1>5, <2>3, RuleCreated
  <2>6. /\ \A r \in call.rest : /\ r \in RuleRows /\ Backed(rows, r) /\ r.active
                                /\ op = "correct" => r.kind = "generic"
        /\ op = "persist" => rows.blind
    BY <1>3, <2>1
  <2>7. \A r : Backed(rows, r) => Backed(rows', r) BY <1>2, <2>5, BackedStays DEF CorrectionsTable
  <2>8. CorrectionCall(rows', call)
    BY <1>3, <2>1, <2>5, <2>6, <2>7 DEF CorrectionCall, CorrectionOps, Persisting, Writing
  <2>9. ASSUME CorrectionAlone(rows, old), ~rows.blind PROVE CorrectionAlone(rows', call)
    <3>1. /\ RuleThreshold * rows.analyses <= Covered(rows)
          /\ AnalyzeNewMin * rows.analyses <= Len(rows.corrections)
          /\ \A r, s \in Described(rows) : r = s
          /\ op = "correct" /\ AnalyzeNewMin * (rows.analyses + 1) <= Len(rows.corrections)
      BY <1>2, <1>3, <2>9 DEF CorrectionAlone
    <3>6. rule.source \in Int /\ rule.source >= RuleThreshold /\ ~OfDescription(rule)
      BY <1>3, <2>3, <3>1, LearningAssumption DEF Backed, RuleRows, OfDescription
    <3>2. Covered(rows) \in Int /\ rows.analyses \in Nat BY <1>2, CoveredIs DEF CorrectionsTable
    <3>3. /\ RuleThreshold * (rows.analyses + 1) = RuleThreshold * rows.analyses + RuleThreshold
          /\ RuleThreshold * rows.analyses \in Nat
      BY <3>2, LearningAssumption, TimesMore
    <3> DEFINE x == RuleThreshold * rows.analyses
               y == RuleThreshold * (rows.analyses + 1)
    <3>4. x \in Nat /\ y = x + RuleThreshold /\ x <= Covered(rows) BY <3>1, <3>3
    <3> HIDE DEF x, y
    <3>5. x <= Covered(rows) + rule.source /\ y <= Covered(rows) + rule.source
      BY <3>2, <3>4, <3>6, LearningAssumption
    <3> QED BY <2>1, <2>5, <3>1, <3>5, <3>6 DEF CorrectionAlone, x, y
  <2>10. CorrectionAlone(rows, old) => CorrectionAlone(rows', call)
    BY <2>5, <2>9 DEF CorrectionAlone
  <2> QED BY <1>2, <2>1, <2>2, <2>5, <2>8, <2>10, CorrectionsStepped DEF old
<1>6. CASE Reads /\ Continue(c, [old EXCEPT !.rest = @ \ {rule}])
  <2> DEFINE call == [old EXCEPT !.rest = @ \ {rule}]
  <2>1. /\ DOMAIN call = {"op", "at", "rest", "kept"} /\ call.op = op
        /\ call.at = "persist" /\ call.rest = old.rest \ {rule} /\ call.kept = old.kept
    BY <1>2, <1>3
  <2>2. Continue(c, call) BY <1>6
  <2> HIDE DEF call, old
  <2>3. CorrectionCall(rows, call)
    BY <1>3, <2>1 DEF CorrectionCall, CorrectionOps, Persisting, Writing
  <2>4. CorrectionAlone(rows, old) => CorrectionAlone(rows, call) BY <1>2, <2>1 DEF CorrectionAlone
  <2> QED BY <1>2, <1>6, <2>1, <2>2, <2>3, <2>4, CorrectionsRead DEF old
<1> QED BY <1>4, <1>5, <1>6

LEMMA CorrectionsDone ==
    ASSUME CorrectionsInv, NEW c \in Callers, CorrectionAnswers(c)
    PROVE  CorrectionsInv' /\ part' = part
<1> DEFINE old == calls[c]
           call == Answered("correct", 201)
<1>1. /\ old.op = "correct" /\ old.at = "persist" /\ CorrectionsTable(rows)
      /\ rows' = [rows EXCEPT !.analyses = @ + (IF old.kept = 0 THEN 0 ELSE 1)]
      /\ Continue(c, call)
  BY DEF CorrectionAnswers, At, Answer, Store, CorrectionResponses, CorrectionsInv
<1>2. call.op = "correct" /\ call.at = "answered" BY AnswerIs
<1> HIDE DEF call, old
<1>3. /\ DOMAIN rows' = DOMAIN rows /\ rows'.corrections = rows.corrections
      /\ rows'.rules = rows.rules /\ rows'.blind = rows.blind
      /\ rows'.analyses = rows.analyses + (IF old.kept = 0 THEN 0 ELSE 1)
  BY <1>1 DEF CorrectionsTable
<1>4. rows.analyses \in Nat BY <1>1 DEF CorrectionsTable
<1>5. CorrectionsTable(rows') /\ Extended(rows, rows')
  BY <1>1, <1>3, <1>4 DEF CorrectionsTable, Extended, Backed
<1>6. CorrectionCall(rows', call) BY <1>2 DEF CorrectionCall, CorrectionOps, Persisting, Writing
<1>7. Covered(rows') = Covered(rows) /\ Described(rows') = Described(rows)
  BY <1>3 DEF Covered, Described, FindCorrectionRuleByCompanyAndField,
     ListActiveCorrectionRulesByCompany
<1>8. ASSUME CorrectionAlone(rows, old), ~rows.blind PROVE CorrectionAlone(rows', call)
  <2>1. /\ RuleThreshold * rows.analyses <= Covered(rows)
        /\ AnalyzeNewMin * rows.analyses <= Len(rows.corrections)
        /\ \A r, s \in Described(rows) : r = s
        /\ AnalyzeNewMin * (rows.analyses + 1) <= Len(rows.corrections)
        /\ old.kept # 0 => RuleThreshold * (rows.analyses + 1) <= Covered(rows)
    BY <1>1, <1>8 DEF CorrectionAlone
  <2>2. CASE old.kept = 0
    BY <1>3, <1>4, <2>2, <1>2, <1>7, <2>1 DEF CorrectionAlone
  <2>3. CASE old.kept # 0
    BY <1>3, <2>3, <1>2, <1>7, <2>1 DEF CorrectionAlone
  <2> QED BY <2>2, <2>3
<1>9. CorrectionAlone(rows, old) => CorrectionAlone(rows', call) BY <1>3, <1>8 DEF CorrectionAlone
<1> QED BY <1>1, <1>2, <1>5, <1>6, <1>9, CorrectionsStepped DEF old

LEMMA SentAre ==
    ASSUME NEW k \in SentCandidates
    PROVE  LET rule == SentRule(k)
           IN  rule \in RuleRows /\ rule.active /\ rule.kind = "client"
<1>1. k \in [on : STRING, field : STRING, value : STRING, source : Int] BY LearningAssumption
<1>2. /\ k.on \in {m.on : m \in SentCandidates} /\ k.source \in Int
      /\ k.field \in {m.field : m \in Patterns \cup SentCandidates}
      /\ k.value \in {m.value : m \in Patterns \cup SentCandidates}
  BY <1>1
<1> QED BY <1>2 DEF SentRule, RuleRows

(* Sent rules, and the lookup of an override that failed, leave a request blind. *)
LEMMA CorrectionsBlind ==
    ASSUME CorrectionsInv, NEW c \in Callers, NEW call, calls[c].at # "gone",
           call.at # "gone", Begin(c, call), rows' = [rows EXCEPT !.blind = TRUE],
           CorrectionCall([rows EXCEPT !.blind = TRUE], call)
    PROVE  CorrectionsInv' /\ part' = part
<1>1. CorrectionsTable(rows) BY DEF CorrectionsInv
<1>2. /\ DOMAIN rows' = DOMAIN rows /\ rows'.corrections = rows.corrections
      /\ rows'.rules = rows.rules /\ rows'.analyses = rows.analyses /\ rows'.blind = TRUE
  BY <1>1 DEF CorrectionsTable
<1>3. CorrectionsTable(rows') /\ Extended(rows, rows')
  BY <1>1, <1>2 DEF CorrectionsTable, Extended, Backed
<1>4. CorrectionCall(rows', call) /\ CorrectionAlone(rows', call) BY <1>2 DEF CorrectionAlone
<1> QED BY <1>3, <1>4, CorrectionsStepped

LEMMA PersistAsked ==
    ASSUME CorrectionsInv, NEW c \in Callers, PersistRules(c)
    PROVE  CorrectionsInv' /\ part' = part
<1> DEFINE to == [rows EXCEPT !.blind = TRUE]
<1>1. calls[c].at # "gone" /\ CorrectionsTable(rows) BY DEF PersistRules, Free, CorrectionsInv
<1>2. PICK sent \in SUBSET SentCandidates :
         /\ rows' = to
         /\ Begin(c, [op |-> "persist", at |-> "persist", kept |-> 0,
                      rest |-> {SentRule(candidate) : candidate \in sent}])
  BY DEF PersistRules, Store
<1> DEFINE found == {SentRule(candidate) : candidate \in sent}
           call == [op |-> "persist", at |-> "persist", kept |-> 0, rest |-> found]
<1>4. \A rule \in found : rule \in RuleRows /\ rule.active /\ rule.kind = "client" BY SentAre
<1>5. Begin(c, call) BY <1>2
<1> HIDE DEF found
<1>6. /\ DOMAIN call = {"op", "at", "rest", "kept"} /\ call.op = "persist"
      /\ call.at = "persist" /\ call.rest = found /\ call.kept = 0
  OBVIOUS
<1>7. to.blind = TRUE BY <1>1 DEF CorrectionsTable
<1> HIDE DEF call, to
<1>8. CorrectionCall(to, call)
  BY <1>4, <1>6, <1>7 DEF CorrectionCall, CorrectionOps, Persisting, Writing, Backed
<1> QED BY <1>1, <1>2, <1>5, <1>6, <1>8, CorrectionsBlind DEF to

(* The requests that change nothing but what they answer. *)
LEMMA CorrectionsListed ==
    ASSUME CorrectionsInv, NEW c \in Callers,
           \/ ListCorrections(c) \/ ListCorrectionsCounts(c) \/ GetCorrectionStats(c)
           \/ GetCorrectionStatsLists(c) \/ GetLearningStats(c) \/ GetLearningStatsRules(c)
           \/ GetEntityCorrections(c) \/ RulesPersisted(c)
    PROVE  CorrectionsInv' /\ part' = part
<1>1. Reads /\ calls[c].at # "gone"
  BY DEF ListCorrections, ListCorrectionsCounts, GetCorrectionStats, GetCorrectionStatsLists,
     GetLearningStats, GetLearningStatsRules, GetEntityCorrections, RulesPersisted, ReadFirst,
     ReadSecond, Free, At
<1>2. ASSUME NEW call, Begin(c, call) \/ Continue(c, call), call.op \in CorrectionOps,
             call.at \in {"answered", "second"} PROVE  CorrectionsInv' /\ part' = part
  BY <1>1, <1>2, CorrectionsAnswered
<1>3. ASSUME NEW op \in {"list", "stats", "learned"}, NEW value, ReadFirst(c, op, value)
      PROVE  CorrectionsInv' /\ part' = part
  <2> DEFINE call == [op |-> op, at |-> "second", first |-> value]
  <2>1. call.op \in CorrectionOps /\ call.at \in {"answered", "second"} BY DEF CorrectionOps
  <2>2. Begin(c, call) BY <1>3 DEF ReadFirst
  <2> HIDE DEF call
  <2> QED BY <1>2, <2>1, <2>2
<1>4. ASSUME NEW op \in {"list", "stats", "learned"}, NEW value, ReadSecond(c, op, value)
      PROVE  CorrectionsInv' /\ part' = part
  <2> DEFINE call == [op |-> op, at |-> "answered", first |-> calls[c].first, second |-> value]
  <2>1. call.op \in CorrectionOps /\ call.at \in {"answered", "second"} BY DEF CorrectionOps
  <2>2. Continue(c, call) BY <1>4 DEF ReadSecond
  <2> HIDE DEF call
  <2> QED BY <1>2, <2>1, <2>2
<1>5. ASSUME NEW op \in CorrectionOps, NEW status,
             Begin(c, Answered(op, status)) \/ Continue(c, Answered(op, status))
      PROVE  CorrectionsInv' /\ part' = part
  BY <1>2, <1>5, AnswerIs
<1>6. CASE ListCorrections(c) BY <1>3, <1>6 DEF ListCorrections
<1>7. CASE ListCorrectionsCounts(c) BY <1>4, <1>7 DEF ListCorrectionsCounts
<1>8. CASE GetCorrectionStats(c) BY <1>3, <1>8 DEF GetCorrectionStats
<1>9. CASE GetCorrectionStatsLists(c) BY <1>4, <1>9 DEF GetCorrectionStatsLists
<1>10. CASE GetLearningStats(c) BY <1>3, <1>10 DEF GetLearningStats
<1>11. CASE GetLearningStatsRules(c) BY <1>4, <1>11 DEF GetLearningStatsRules
<1>12. CASE GetEntityCorrections(c)
  BY <1>12, <1>5 DEF GetEntityCorrections, AnswerAtOnce, CorrectionOps
<1>13. CASE RulesPersisted(c)
  BY <1>13, <1>5 DEF RulesPersisted, Answer, At, CorrectionOps, CorrectionResponses
<1> QED BY <1>6, <1>7, <1>8, <1>9, <1>10, <1>11, <1>12, <1>13

LEMMA RuleAsked ==
    ASSUME CorrectionsInv, NEW c \in Callers, UpdateRule(c)
    PROVE  CorrectionsInv' /\ part' = part
<1>1. calls[c].at # "gone" /\ CorrectionsTable(rows) /\ Reads
  BY DEF UpdateRule, Free, CorrectionsInv
<1>2. PICK r \in 1..Len(rows.rules) + 1, active \in BOOLEAN : IF GetCorrectionRuleByID(rows, r) = {}
         THEN Begin(c, Answered("rule", 404))
         ELSE Begin(c, [op |-> "rule", at |-> "write", id |-> r,
                        rule |-> [rows.rules[r] EXCEPT !.active = active]])
  BY DEF UpdateRule, AnswerAtOnce, RuleResponses
<1>3. CASE GetCorrectionRuleByID(rows, r) = {}
  <2> DEFINE call == Answered("rule", 404)
  <2>1. call.op \in CorrectionOps /\ call.at \in {"answered", "second", "count"} /\ Begin(c, call)
    BY <1>2, <1>3, AnswerIs DEF CorrectionOps
  <2> HIDE DEF call
  <2> QED BY <1>1, <2>1, CorrectionsAnswered
<1>4. CASE GetCorrectionRuleByID(rows, r) # {}
  <2> DEFINE rule == [rows.rules[r] EXCEPT !.active = active]
             call == [op |-> "rule", at |-> "write", id |-> r, rule |-> rule]
  <2>1. r \in DOMAIN rows.rules BY <1>4 DEF GetCorrectionRuleByID
  <2>2. rows.rules[r] \in RuleRows /\ Backed(rows, rows.rules[r])
    BY <1>1, <2>1, ElementOfSeq DEF CorrectionsTable
  <2>3. /\ rule \in RuleRows /\ rule.kind = rows.rules[r].kind /\ rule.on = rows.rules[r].on
        /\ rule.source = rows.rules[r].source /\ rule.field = rows.rules[r].field
        /\ rule.value = rows.rules[r].value
    BY <2>2 DEF RuleRows
  <2>4. Begin(c, call) BY <1>2, <1>4
  <2> HIDE DEF rule
  <2>5. Backed(rows, rule) BY <2>2, <2>3 DEF Backed
  <2>6. call.op = "rule" /\ call.at = "write" /\ call.id = r /\ call.rule = rule OBVIOUS
  <2> HIDE DEF call
  <2>7. CorrectionCall(rows, call)
    BY <2>1, <2>3, <2>5, <2>6 DEF CorrectionCall, CorrectionOps, Persisting, Writing
  <2>8. CorrectionAlone(rows, calls[c]) => CorrectionAlone(rows, call) BY <2>6 DEF CorrectionAlone
  <2> QED BY <1>1, <2>4, <2>6, <2>7, <2>8, CorrectionsRead
<1> QED BY <1>3, <1>4

LEMMA RuleWritten ==
    ASSUME CorrectionsInv, NEW c \in Callers, UpdateRuleWrites(c)
    PROVE  CorrectionsInv' /\ part' = part
<1> DEFINE old == calls[c]
           to == UpdateCorrectionRule(rows, old.id, old.rule)
           call == Answered("rule", 200)
<1>1. /\ old.op = "rule" /\ old.at = "write" /\ CorrectionsTable(rows)
      /\ rows' = [to EXCEPT !.blind = TRUE] /\ Continue(c, call) /\ CorrectionCall(rows, old)
  BY DEF UpdateRuleWrites, At, Answer, Store, RuleResponses, CorrectionsInv
<1>2. old.id \in DOMAIN rows.rules /\ old.rule \in RuleRows /\ Backed(rows, old.rule)
  BY <1>1 DEF CorrectionCall, Writing
<1>3. call.op = "rule" /\ call.at = "answered" BY AnswerIs
<1> HIDE DEF call, old
<1>4. CorrectionsTable(to) /\ Extended(rows, to) BY <1>1, <1>2, RuleUpdated
<1> HIDE DEF to
<1>5. /\ DOMAIN rows' = DOMAIN to /\ rows'.corrections = to.corrections
      /\ rows'.rules = to.rules /\ rows'.analyses = to.analyses /\ rows'.blind = TRUE
  BY <1>1, <1>4 DEF CorrectionsTable
<1>6. CorrectionsTable(rows') /\ Extended(rows, rows')
  BY <1>4, <1>5 DEF CorrectionsTable, Extended, Backed
<1>7. CorrectionCall(rows', call) /\ CorrectionAlone(rows', call)
  BY <1>3, <1>5 DEF CorrectionCall, CorrectionOps, Persisting, Writing, CorrectionAlone
<1> QED BY <1>1, <1>3, <1>6, <1>7, CorrectionsStepped DEF old

(* The rules an override makes, or strengthens. *)
LEMMA RuleOverridden ==
    ASSUME NEW value \in {p.value : p \in Patterns}
    PROVE  [on |-> "desc", field |-> "category", value |-> value, kind |-> "override",
            source |-> 1, active |-> TRUE] \in RuleRows
<1>1. value \in {k.value : k \in Patterns \cup SentCandidates} OBVIOUS
<1> QED BY <1>1 DEF RuleRows

LEMMA RuleStrengthened ==
    ASSUME NEW found, found \in RuleRows, NEW value \in {p.value : p \in Patterns}
    PROVE  LET rule == [found EXCEPT !.value = value, !.source = @ + 1]
           IN  /\ rule \in RuleRows /\ rule.kind = found.kind /\ rule.on = found.on
               /\ rule.active = found.active /\ rule.field = found.field
               /\ rule.source = found.source + 1
<1> DEFINE one == [found EXCEPT !.value = value]
           two == [one EXCEPT !.source = @ + 1]
           rule == [found EXCEPT !.value = value, !.source = @ + 1]
<1>1. found.source \in Int /\ value \in {k.value : k \in Patterns \cup SentCandidates}
  BY DEF RuleRows
<1>2. /\ one \in RuleRows /\ one.source = found.source /\ one.kind = found.kind
      /\ one.on = found.on /\ one.active = found.active /\ one.field = found.field
  BY <1>1 DEF RuleRows
<1>3. rule = two OBVIOUS
<1> HIDE DEF one
<1>4. /\ two \in RuleRows /\ two.kind = one.kind /\ two.on = one.on
      /\ two.active = one.active /\ two.field = one.field /\ two.source = one.source + 1
  BY <1>1, <1>2 DEF RuleRows
<1> QED BY <1>2, <1>3, <1>4

LEMMA OverrideAsked ==
    ASSUME CorrectionsInv, NEW c \in Callers, OverrideTransaction(c)
    PROVE  CorrectionsInv' /\ part' = part
<1>1. calls[c].at # "gone" /\ CorrectionsTable(rows)
  BY DEF OverrideTransaction, Free, CorrectionsInv
<1> DEFINE Fresh1(value) == [on |-> "desc", field |-> "category", value |-> value,
                             kind |-> "override", source |-> 1, active |-> TRUE]
<1>2. PICK value \in {p.value : p \in Patterns} :
         \/ /\ Described(rows) = {} /\ Reads
            /\ Begin(c, [op |-> "override", at |-> "write", id |-> 0, rule |-> Fresh1(value)])
         \/ /\ rows' = [rows EXCEPT !.blind = TRUE]
            /\ Begin(c, [op |-> "override", at |-> "write", id |-> 0, rule |-> Fresh1(value)])
         \/ \E r \in Described(rows) :
              /\ Reads
              /\ Begin(c, [op |-> "override", at |-> "write", id |-> r,
                           rule |-> [rows.rules[r] EXCEPT !.value = value, !.source = @ + 1]])
  BY DEF OverrideTransaction, Described, Store
<1>4. CASE /\ (Described(rows) = {} /\ Reads) \/ rows' = [rows EXCEPT !.blind = TRUE]
           /\ Begin(c, [op |-> "override", at |-> "write", id |-> 0, rule |-> Fresh1(value)])
  <2> DEFINE rule == Fresh1(value)
             call == [op |-> "override", at |-> "write", id |-> 0, rule |-> rule]
  <2>1. rule \in RuleRows /\ rule.kind = "override" /\ rule.source = 1
    BY RuleOverridden
  <2>2. Begin(c, call) BY <1>4
  <2> HIDE DEF rule
  <2>3. call.op = "override" /\ call.at = "write" /\ call.id = 0 /\ call.rule = rule OBVIOUS
  <2> HIDE DEF call
  <2>4. \A db : CorrectionCall(db, call)
    BY <2>1, <2>3 DEF CorrectionCall, CorrectionOps, Persisting, Writing, Backed
  <2>5. Described(rows) = {} => (CorrectionAlone(rows, calls[c]) => CorrectionAlone(rows, call))
    BY <2>1, <2>3 DEF CorrectionAlone
  <2>6. CASE rows' = [rows EXCEPT !.blind = TRUE] BY <1>1, <2>2, <2>3, <2>4, <2>6, CorrectionsBlind
  <2>7. CASE Described(rows) = {} /\ Reads BY <1>1, <2>2, <2>3, <2>4, <2>5, <2>7, CorrectionsRead
  <2> QED BY <1>4, <2>6, <2>7
<1>5. ASSUME NEW r \in Described(rows), Reads,
             Begin(c, [op |-> "override", at |-> "write", id |-> r,
                       rule |-> [rows.rules[r] EXCEPT !.value = value, !.source = @ + 1]])
      PROVE  CorrectionsInv' /\ part' = part
  <2> DEFINE found == rows.rules[r]
             rule == [found EXCEPT !.value = value, !.source = @ + 1]
             call == [op |-> "override", at |-> "write", id |-> r, rule |-> rule]
  <2>1. r \in DOMAIN rows.rules /\ OfDescription(found) BY DescribedIs
  <2>2. found \in RuleRows /\ Backed(rows, found) /\ r # 0
    BY <1>1, <2>1, ElementOfSeq DEF CorrectionsTable
  <2>3. Begin(c, call) BY <1>5
  <2> HIDE DEF found
  <2>4. /\ rule \in RuleRows /\ rule.kind = found.kind /\ rule.on = found.on
        /\ rule.active = found.active /\ rule.field = found.field
        /\ rule.source = found.source + 1
    BY <2>2, RuleStrengthened
  <2> HIDE DEF rule
  <2>5. found.kind # "generic" BY <2>1, <2>2 DEF Backed, OfDescription
  <2>6. Backed(rows, rule) BY <2>4, <2>5 DEF Backed
  <2>7. call.op = "override" /\ call.at = "write" /\ call.id = r /\ call.rule = rule OBVIOUS
  <2> HIDE DEF call
  <2>8. CorrectionCall(rows, call)
    BY <2>1, <2>4, <2>6, <2>7 DEF CorrectionCall, CorrectionOps, Persisting, Writing
  <2>9. CorrectionAlone(rows, calls[c]) => CorrectionAlone(rows, call)
    BY <2>1, <2>2, <2>4, <2>7 DEF CorrectionAlone, OfDescription, found
  <2> QED BY <1>1, <1>5, <2>3, <2>7, <2>8, <2>9, CorrectionsRead
<1> QED BY <1>2, <1>4, <1>5

LEMMA OverrideWritten ==
    ASSUME CorrectionsInv, NEW c \in Callers, OverrideWrites(c)
    PROVE  CorrectionsInv' /\ part' = part
<1> DEFINE old == calls[c]
           call == Answered("override", 200)
<1>1. /\ old.op = "override" /\ old.at = "write" /\ CorrectionsTable(rows)
      /\ CorrectionCall(rows, old) /\ Continue(c, call)
      /\ \/ Reads
         \/ rows' = IF old.id = 0 THEN CreateCorrectionRule(rows, old.rule)
                                  ELSE UpdateCorrectionRule(rows, old.id, old.rule)
  BY DEF OverrideWrites, At, Answer, Store, CorrectionsInv
<1>2. old.id \in DOMAIN rows.rules \cup {0} /\ old.rule \in RuleRows /\ Backed(rows, old.rule)
  BY <1>1 DEF CorrectionCall, Writing
<1>3. call.op = "override" /\ call.at = "answered" /\ call.op \in CorrectionOps
  BY AnswerIs DEF CorrectionOps
<1> HIDE DEF call, old
<1>4. \A db : CorrectionCall(db, call)
  BY <1>3 DEF CorrectionCall, CorrectionOps, Persisting, Writing
<1>5. CASE Reads BY <1>1, <1>3, <1>5, CorrectionsAnswered DEF old
<1>6. CASE old.id = 0 /\ rows' = CreateCorrectionRule(rows, old.rule)
  <2>1. /\ CorrectionsTable(rows') /\ Extended(rows, rows')
        /\ rows'.corrections = rows.corrections /\ rows'.analyses = rows.analyses
        /\ rows'.blind = rows.blind
        /\ old.rule.active => Covered(rows') = Covered(rows) + old.rule.source
        /\ ~OfDescription(old.rule) => Described(rows') = Described(rows)
        /\ Described(rows) = {} => \A r, s \in Described(rows') : r = s
    BY <1>1, <1>2, <1>6, RuleCreated
  <2>2. ASSUME CorrectionAlone(rows, old), ~rows.blind PROVE CorrectionAlone(rows', call)
    <3>1. /\ AnalyzeNewMin * rows.analyses <= Len(rows.corrections)
          /\ RuleThreshold * rows.analyses <= Covered(rows)
          /\ Described(rows) = {} /\ old.rule.source = 1
      BY <1>1, <1>6, <2>2 DEF CorrectionAlone
    <3>2. Covered(rows') >= Covered(rows) /\ Covered(rows) \in Int /\ Covered(rows') \in Int
      <4>1. CASE old.rule.active BY <1>1, <2>1, <3>1, <4>1, CoveredIs
      <4>2. CASE ~old.rule.active
        <5>1. Active(rows') = Active(rows) /\ \A r \in Active(rows) : Sources(rows')[r] = Sources(rows)[r]
          <6> DEFINE new == Len(rows.rules) + 1
          <6>1. /\ rows'.rules = Append(rows.rules, old.rule) /\ rows.rules \in Seq(RuleRows)
            BY <1>1, <1>6 DEF CreateCorrectionRule, CorrectionsTable
          <6>2. /\ DOMAIN rows'.rules = DOMAIN rows.rules \cup {new} /\ new \notin DOMAIN rows.rules
                /\ rows'.rules[new] = old.rule
                /\ \A r \in DOMAIN rows.rules : rows'.rules[r] = rows.rules[r]
            BY <1>2, <6>1, AppendProperties
          <6> HIDE DEF new
          <6> QED BY <4>2, <6>2 DEF Active, Sources, ListActiveCorrectionRulesByCompany
        <5>2. Covered(rows') = SetSum(Sources(rows'), Active(rows'))
              /\ Covered(rows) = SetSum(Sources(rows), Active(rows))
              /\ Covered(rows) \in Int /\ IsFiniteSet(Active(rows))
          BY <1>1, <2>1, CoveredIs
        <5>3. SetSum(Sources(rows'), Active(rows)) = SetSum(Sources(rows), Active(rows))
          BY <5>1, <5>2, SumAgrees
        <5> QED BY <5>1, <5>2, <5>3
      <4> QED BY <4>1, <4>2
    <3>3. RuleThreshold * rows.analyses \in Nat
      BY <1>1, LearningAssumption, TimesMore DEF CorrectionsTable
    <3> DEFINE x == RuleThreshold * rows.analyses
    <3>4. x \in Nat /\ x <= Covered(rows) BY <3>1, <3>3
    <3> HIDE DEF x
    <3>5. x <= Covered(rows') BY <3>2, <3>4
    <3> QED BY <1>3, <2>1, <3>1, <3>5 DEF CorrectionAlone, x
  <2>3. CorrectionAlone(rows, old) => CorrectionAlone(rows', call) BY <2>1, <2>2 DEF CorrectionAlone
  <2> QED BY <1>1, <1>3, <1>4, <2>1, <2>3, CorrectionsStepped DEF old
<1>7. CASE old.id # 0 /\ rows' = UpdateCorrectionRule(rows, old.id, old.rule)
  <2>1. old.id \in DOMAIN rows.rules BY <1>2, <1>7
  <2>2. /\ CorrectionsTable(rows') /\ Extended(rows, rows')
        /\ rows'.corrections = rows.corrections /\ rows'.analyses = rows.analyses
        /\ rows'.blind = rows.blind
        /\ (OfDescription(old.rule) /\ old.id \in Described(rows)) =>
             /\ Described(rows') = Described(rows)
             /\ old.rule.source >= rows.rules[old.id].source => Covered(rows') >= Covered(rows)
    BY <1>1, <1>2, <1>7, <2>1, RuleUpdated
  <2>3. ASSUME CorrectionAlone(rows, old), ~rows.blind PROVE CorrectionAlone(rows', call)
    <3>1. /\ AnalyzeNewMin * rows.analyses <= Len(rows.corrections)
          /\ RuleThreshold * rows.analyses <= Covered(rows)
          /\ \A r, s \in Described(rows) : r = s
          /\ old.id \in Described(rows) /\ OfDescription(old.rule)
          /\ old.rule.source = rows.rules[old.id].source + 1
      BY <1>1, <1>7, <2>3 DEF CorrectionAlone, OfDescription
    <3>2. rows.rules[old.id].source \in Int BY <1>1, <2>1, CoveredIs
    <3>3. Covered(rows') >= Covered(rows) /\ Described(rows') = Described(rows) BY <2>2, <3>1, <3>2
    <3>4. Covered(rows) \in Int /\ Covered(rows') \in Int BY <1>1, <2>2, CoveredIs
    <3>5. RuleThreshold * rows.analyses \in Nat
      BY <1>1, LearningAssumption, TimesMore DEF CorrectionsTable
    <3> DEFINE x == RuleThreshold * rows.analyses
    <3>6. x \in Nat /\ x <= Covered(rows) BY <3>1, <3>5
    <3> HIDE DEF x
    <3>7. x <= Covered(rows') BY <3>3, <3>4, <3>6
    <3> QED BY <1>3, <2>2, <3>1, <3>3, <3>7 DEF CorrectionAlone, x
  <2>4. CorrectionAlone(rows, old) => CorrectionAlone(rows', call) BY <2>2, <2>3 DEF CorrectionAlone
  <2> QED BY <1>1, <1>3, <1>4, <2>2, <2>4, CorrectionsStepped DEF old
<1> QED BY <1>1, <1>5, <1>6, <1>7

LEMMA CorrectionsKeep ==
    ASSUME CorrectionsInv, NEW c \in Callers, CorrectionsNext(c)
    PROVE  CorrectionsInv' /\ part' = part
BY CorrectionsRecorded, CorrectionsCounted, CorrectionsCovered, CorrectionsAnalyzed,
   CorrectionsPersisted, CorrectionsDone, PersistAsked, CorrectionsListed, RuleAsked, RuleWritten,
   OverrideAsked, OverrideWritten DEF CorrectionsNext

LEMMA CorrectionsTold ==
    ASSUME CorrectionsInv
    PROVE  RulesBacked
<1>1. ASSUME NEW r \in DOMAIN rows.rules, rows.rules[r].kind = "generic"
      PROVE  rows.rules[r].source \in RuleThreshold..Alike(rows.corrections,
                DOMAIN rows.corrections,
                [field |-> rows.rules[r].field, value |-> rows.rules[r].value])
  BY <1>1 DEF CorrectionsInv, CorrectionsTable, Backed
<1>2. ASSUME Alone, ~rows.blind
      PROVE  /\ AnalyzeNewMin * rows.analyses <= Len(rows.corrections)
             /\ Cardinality(FindCorrectionRuleByCompanyAndField(rows, "category", "desc")) <= 1
  <2>1. PICK c \in Callers : CorrectionAlone(rows, calls[c])
    BY <1>2 DEF Alone, OnlyOne, CorrectionsInv
  <2>2. Cardinality(Described(rows)) <= 1 BY <1>2, <2>1, NoTwoMembers DEF CorrectionAlone
  <2> QED BY <1>2, <2>1, <2>2 DEF CorrectionAlone, Described
<1> QED BY <1>1, <1>2 DEF RulesBacked

LEMMA CorrectionsStarted ==
    ASSUME CorrectionsStart(rows), RequestsInit
    PROVE  CorrectionsInv
<1>1. DOMAIN calls = Callers /\ \A c \in Callers : calls[c].op = "none"
  BY DEF RequestsInit, NoCall, Gone
<1>2. /\ DOMAIN rows = {"corrections", "rules", "analyses", "blind"}
      /\ rows.corrections \in Seq(Patterns) /\ rows.rules = <<>>
      /\ rows.analyses = 0 /\ rows.blind = FALSE
  BY DEF CorrectionsStart
<1>3. rows.rules \in Seq(RuleRows) /\ DOMAIN rows.rules = {} BY <1>2, EmptySeq
<1>4. CorrectionsTable(rows)
  <2>1. rows.analyses \in Nat /\ rows.blind \in BOOLEAN
    <3>1. rows.analyses \in Nat BY <1>2
    <3>2. rows.blind \in BOOLEAN BY Zenon, <1>2
    <3> QED BY <3>1, <3>2
  <2>2. \A r \in DOMAIN rows.rules : Backed(rows, rows.rules[r]) BY <1>3
  <2> QED BY <1>2, <1>3, <2>1, <2>2 DEF CorrectionsTable
<1>5. \A c \in Callers : CorrectionCall(rows, calls[c])
  BY <1>1 DEF CorrectionCall, CorrectionOps, Persisting, Writing
<1>6. Covered(rows) \in Nat /\ Len(rows.corrections) \in Nat
  BY <1>3, <1>4, CoveredIs, SumOfNaturals, FS_EmptySet DEF CorrectionsTable
<1>7. Described(rows) = {} BY <1>3, DescribedIs
<1>8. AnalyzeNewMin * 0 = 0 /\ RuleThreshold * 0 = 0 BY LearningAssumption
<1>9. \A c \in Callers : CorrectionAlone(rows, calls[c])
  BY <1>1, <1>2, <1>6, <1>7, <1>8 DEF CorrectionAlone
<1> QED BY <1>1, <1>4, <1>5, <1>9 DEF CorrectionsInv

----
(* The parts together.  A part's steps begin its own requests, or continue them. *)
LEMMA CorrectionsNamed ==
    ASSUME NEW c, CorrectionsNext(c)
    PROVE  part = "corrections" \/ calls[c].op \in CorrectionOps \ {"none"}
<1> USE DEF Free, At, CorrectionOps
<1>1. CASE RecordCorrection(c) \/ RecordMappingCorrection(c) \/ PersistRules(c) \/ UpdateRule(c)
           \/ OverrideTransaction(c) \/ ListCorrections(c) \/ GetCorrectionStats(c)
           \/ GetLearningStats(c) \/ GetEntityCorrections(c)
  BY <1>1 DEF RecordCorrection, RecordMappingCorrection, PersistRules, UpdateRule,
     OverrideTransaction, ListCorrections, GetCorrectionStats, GetLearningStats,
     GetEntityCorrections
<1>2. CASE CorrectionCounts(c) \/ CorrectionCovers(c) \/ CorrectionAnalyzes(c)
           \/ CorrectionPersists(c) \/ CorrectionAnswers(c) \/ RulesPersist(c)
           \/ RulesPersisted(c) \/ UpdateRuleWrites(c) \/ OverrideWrites(c)
           \/ ListCorrectionsCounts(c) \/ GetCorrectionStatsLists(c) \/ GetLearningStatsRules(c)
  BY <1>2 DEF CorrectionCounts, CorrectionCovers, CorrectionAnalyzes, CorrectionPersists,
     PersistCandidateRule, CorrectionAnswers, RulesPersist, RulesPersisted, UpdateRuleWrites,
     OverrideWrites, ListCorrectionsCounts, GetCorrectionStatsLists, GetLearningStatsRules
<1> QED BY <1>1, <1>2 DEF CorrectionsNext

LEMMA PoliciesNamed ==
    ASSUME NEW c, PoliciesNext(c)
    PROVE  part = "policies" \/ calls[c].op \in PolicyOps \ {"none"}
<1> USE DEF Free, At, PolicyOps
<1>1. CASE RecordAcceptance(c) \/ RecordVendorCorrection(c) \/ MatchVendor(c) \/ UpdatePolicy(c)
           \/ PromotePolicy(c) \/ SuggestRules(c) \/ DeletePolicy(c) \/ ListPolicies(c)
  BY <1>1 DEF RecordAcceptance, RecordVendorCorrection, MatchVendor, UpdatePolicy, PromotePolicy,
     PolicyAsked, SuggestRules, DeletePolicy, ListPolicies
<1>2. CASE VendorCorrectionIncrements(c) \/ MatchVendorAlias(c) \/ MatchVendorSearch(c)
           \/ UpdatePolicyWrites(c) \/ PromoteRule(c) \/ LearnAccepted(c) \/ LearnIgnored(c)
  BY <1>2 DEF VendorCorrectionIncrements, MatchVendorAlias, MatchVendorSearch, UpdatePolicyWrites,
     PromoteRule, LearnAccepted, LearnIgnored
<1> QED BY <1>1, <1>2 DEF PoliciesNext

LEMMA TagsNamed ==
    ASSUME NEW c, TagsNext(c)
    PROVE  part = "tags" \/ calls[c].op \in TagOps \ {"none"}
<1> USE DEF Free, At, TagOps
<1>1. CASE TagCreate(c) \/ TagUpdate(c) \/ TagDelete(c) \/ TagList(c) \/ SetTransactionTags(c)
           \/ LinkProjectTag(c) \/ SeedProjectTags(c)
  BY <1>1 DEF TagCreate, TagUpdate, TagDelete, TagList, SetTransactionTags, LinkProjectTag,
     SeedProjectTags
<1>2. CASE TagListCounts(c) \/ SetTransactionTagsAdds(c) \/ SetTransactionTagsLists(c)
           \/ LinkProjectTagAdds(c) \/ SeedProjectTag(c) \/ SeedProjectTagsEnds(c)
  BY <1>2 DEF TagListCounts, SetTransactionTagsAdds, SetTransactionTagsLists, LinkProjectTagAdds,
     SeedProjectTag, SeedProjectTagsEnds
<1> QED BY <1>1, <1>2 DEF TagsNext

LEMMA PreferencesNamed ==
    ASSUME NEW c, PreferencesNext(c)
    PROVE  part = "preferences" \/ calls[c].op \in PreferenceOps \ {"none"}
BY DEF PreferencesNext, UpsertPreference, UpsertPreferenceWrites, UpsertPreferenceRereads,
   GetPreference, DeletePreference, Free, At, PreferenceOps

LEMMA KnowledgeNamed ==
    ASSUME NEW c, KnowledgeNext(c)
    PROVE  part = "knowledge" \/ calls[c].op \in KnowledgeOps \ {"none"}
<1> USE DEF Free, At, KnowledgeOps
<1>1. CASE AddChunk(c) \/ RetrieveRelevant(c) \/ GetStats(c) \/ Backfill(c)
  BY <1>1 DEF AddChunk, RetrieveRelevant, GetStats, Backfill
<1>2. CASE RetrieveFiltered(c) \/ RetrieveSimilar(c) \/ RetrieveFallback(c)
           \/ GetStatsEmbedded(c) \/ GetStatsCategories(c) \/ BackfillEmbeds(c) \/ BackfillEnds(c)
  BY <1>2 DEF RetrieveFiltered, RetrieveSimilar, RetrieveFallback, GetStatsEmbedded,
     GetStatsCategories, BackfillEmbeds, BackfillEnds
<1> QED BY <1>1, <1>2 DEF KnowledgeNext

LEMMA ClassifyNamed ==
    ASSUME NEW c, ClassifyNext(c)
    PROVE  part = "classify" \/ calls[c].op = "classes"
BY DEF ClassifyNext, ClassifyTransactions, ClassifyBatches, ClassifyEnds, Free, At

LEMMA LearningKept ==
    ASSUME LearningInv, LearningNext
    PROVE  LearningInv'
<1>1. PICK c \in Callers :
         \/ CorrectionsNext(c) \/ PoliciesNext(c) \/ TagsNext(c)
         \/ PreferencesNext(c) \/ KnowledgeNext(c) \/ ClassifyNext(c)
  BY DEF LearningNext, Serving
<1>2. /\ CorrectionsNext(c) => part = "corrections" \/ calls[c].op \in CorrectionOps \ {"none"}
      /\ PoliciesNext(c) => part = "policies" \/ calls[c].op \in PolicyOps \ {"none"}
      /\ TagsNext(c) => part = "tags" \/ calls[c].op \in TagOps \ {"none"}
      /\ PreferencesNext(c) => part = "preferences" \/ calls[c].op \in PreferenceOps \ {"none"}
      /\ KnowledgeNext(c) => part = "knowledge" \/ calls[c].op \in KnowledgeOps \ {"none"}
      /\ ClassifyNext(c) => part = "classify" \/ calls[c].op = "classes"
  BY CorrectionsNamed, PoliciesNamed, TagsNamed, PreferencesNamed, KnowledgeNamed, ClassifyNamed
<1> USE DEF CorrectionOps, PolicyOps, TagOps, PreferenceOps, KnowledgeOps
<1>3. CASE part = "corrections"
  BY <1>3, <1>1, <1>2, CorrectionsKeep DEF LearningInv, CorrectionsInv, CorrectionCall,
     LearningParts
<1>4. CASE part = "policies"
  BY <1>4, <1>1, <1>2, PoliciesKeep DEF LearningInv, PoliciesInv, PolicyCall, LearningParts
<1>5. CASE part = "tags"
  BY <1>5, <1>1, <1>2, TagsKeep DEF LearningInv, TagsInv, TagCall, LearningParts
<1>6. CASE part = "preferences"
  BY <1>6, <1>1, <1>2, PreferencesKeep DEF LearningInv, PreferencesInv, LearningParts
<1>7. CASE part = "knowledge"
  BY <1>7, <1>1, <1>2, KnowledgeKeep DEF LearningInv, KnowledgeInv, KnowledgeCall, LearningParts
<1>8. CASE part = "classify"
  BY <1>8, <1>1, <1>2, ClassifyKeep DEF LearningInv, ClassifyInv, LearningParts
<1> QED BY <1>3, <1>4, <1>5, <1>6, <1>7, <1>8 DEF LearningInv, LearningParts

LEMMA LearningStarted == LearningInit => LearningInv
<1> SUFFICES ASSUME LearningInit PROVE LearningInv OBVIOUS
<1>1. part \in LearningParts /\ RequestsInit BY DEF LearningInit
<1>2. /\ part = "corrections" => CorrectionsInv
      /\ part = "policies" => PoliciesInv
      /\ part = "tags" => TagsInv
      /\ part = "preferences" => PreferencesInv
      /\ part = "knowledge" => KnowledgeInv
      /\ part = "classify" => ClassifyInv
  BY <1>1, CorrectionsStarted, PoliciesStarted, TagsStarted, PreferencesStarted, KnowledgeStarted,
     ClassifyStarted DEF LearningInit
<1> QED BY <1>1, <1>2 DEF LearningInv

(* A learned rule rests on as many corrections as it says; every use of a vendor
   is an acceptance or a correction, whose two statements each count; links name
   tags that are there; alone, a request leaves the tags and preferences it asked
   for, a question is answered from its own jurisdiction, and the statistics add
   up; each transaction of a batch gets its own class (correction_service.go,
   vendor_memory_service.go, tag_service.go, memory_service.go,
   knowledge_service.go, classifier_service.go). *)
THEOREM LearningSafe == LearningSpec => []LearningSound
<1>1. LearningInv /\ [LearningNext]_requestVars => LearningInv'
  <2> SUFFICES ASSUME LearningInv, [LearningNext]_requestVars PROVE LearningInv' OBVIOUS
  <2>1. CASE LearningNext BY <2>1, LearningKept
  <2>2. CASE UNCHANGED requestVars
    <3>1. part' = part /\ rows' = rows /\ calls' = calls BY <2>2 DEF requestVars
    <3> QED BY <3>1 DEF LearningInv, CorrectionsInv, PoliciesInv, TagsInv, PreferencesInv,
                        KnowledgeInv, ClassifyInv, Waiting, At, OnlyOne
  <2> QED BY <2>1, <2>2
<1>2. LearningInv => LearningSound
  BY CorrectionsTold, PoliciesTold, TagsTold, PreferencesTold, KnowledgeTold, ClassifyTold
     DEF LearningInv, LearningSound
<1> QED BY LearningStarted, <1>1, <1>2, PTL DEF LearningSpec
=============================================================================
