---------------------------- MODULE ExpenseReport ----------------------------
(***************************************************************************)
(* One expense report from draft to paid: its service                      *)
(* (expense_report_service.go), the asynchronous policy agent              *)
(* (expense_ai_service.go), the ledger bookings (expense_gl_service.go)    *)
(* and the approval and finance handlers (expense_handler.go), over the    *)
(* statements of queries/expenses.sql.                                     *)
(*                                                                         *)
(* Handlers run concurrently, each in a slot of Requests, one step per     *)
(* database statement or transaction.  Submit starts an agent goroutine    *)
(* per submission that nobody waits for.  The audit log and notifications  *)
(* are written and never read by the workflow; they are left out.          *)
(***************************************************************************)
EXTENDS Integers, Sequences, FiniteSets, Functions

CONSTANTS
    Requests,    \* the handlers that can be under way at once
    Users,       \* who calls the approval endpoints
    Submitter,   \* the user whose report it is
    Items,       \* identities of rows of expense_items, never reused
    Amounts,     \* amounts of an item
    MaxItems,    \* the item limit of a report (50 in the code)
    GLItems,     \* items that map to a ledger account, or suspense does
    AutoItems,   \* items whose policy lets the agent approve them
    Faults,      \* whether requests, bookings and the process may fail
    MaxSubmits,  \* bound: submissions of the report
    MaxJournals, \* bound: journal entries created for the report
    Instances,   \* bounds: whether requests run alone, and over which items
    None         \* NULL

ASSUME ExpenseAssumption ==
    /\ Submitter \in Users /\ None \notin Users
    /\ Amounts \subseteq Nat \ {0}
    /\ GLItems \subseteq Items /\ AutoItems \subseteq Items
    /\ Faults \in BOOLEAN
    /\ MaxItems \in Nat \ {0} /\ MaxSubmits \in Nat /\ MaxJournals \in Nat
    /\ IsFiniteSet(Requests) /\ None \notin Requests
    /\ Instances \subseteq [alone : BOOLEAN, items : SUBSET Items,
                           amounts : SUBSET Amounts]

VARIABLES
    report,   \* the expense_reports row
    items,    \* the amount of each item, or Unused or Removed
    journal,  \* journal entries created for the report, oldest first
    req,      \* the local state of each request
    agent,    \* the local state of the agent run of each submission
    lock,     \* the request that holds the row FOR UPDATE, or None
    submits,  \* how often the report was submitted
    instance  \* the one of Instances that was chosen

vars == <<report, items, journal, req, agent, lock, submits, instance>>

Unused  == 0
Removed == -1
NoLink  == 0       \* a NULL journal entry reference

Status == {"draft", "submitted", "pending_approval", "approved",
           "rejected", "paid", "deleted"}
Runs == 1..MaxSubmits

Idle == [pc |-> "idle"]
Ended == [pc |-> "ended"]

Present == {i \in Items : items[i] \in Amounts}
SumOf(f, S) == FoldFunctionOnSet(LAMBDA x, y : x + y, 0, f, S)
AmountOf(S) == SumOf(items, S)

Locals ==
    {Idle}
    \cup [pc : {"add_count", "add_write", "submit", "pay_journal"}]
    \cup [pc : {"update", "delete"}, item : Items]
    \cup [pc : {"approve_items", "reject"}, by : Users]
    \cup [pc : {"approve_write"}, by : Users, link : Nat]
    \cup [pc : {"pay_write"}, link : Nat]

AgentLocals ==
    {Idle, Ended}
    \cup [pc : {"load"}]
    \cup [pc : {"review"}, decision : {"approved", "pending_approval"}, booked : Nat]
    \cup [pc : {"accrue"}, booked : Nat]
    \cup [pc : {"link"}, link : Nat]

TypeOK ==
    /\ report \in [status : Status, total : Nat, approver : Users \cup {None},
                   accrual : Nat, payment : Nat]
    /\ items \in [Items -> Amounts \cup {Unused, Removed}]
    /\ journal \in Seq([kind : {"accrual", "payment"}, amount : Nat \ {0}])
    /\ req \in [Requests -> Locals]
    /\ agent \in [Runs -> AgentLocals]
    /\ lock \in Requests \cup {None}
    /\ submits \in 0..MaxSubmits
    /\ instance \in Instances

Init ==
    /\ report = [status |-> "draft", total |-> 0, approver |-> None,
                 accrual |-> NoLink, payment |-> NoLink]
    /\ items = [i \in Items |-> Unused]
    /\ journal = <<>>
    /\ req = [r \in Requests |-> Idle]
    /\ agent = [k \in Runs |-> Idle]
    /\ lock = None
    /\ submits = 0
    /\ instance \in Instances

-----------------------------------------------------------------------------
Goto(r, local) == req' = [req EXCEPT ![r] = local]
Done(r) == Goto(r, Idle)

(* An instance in which requests run alone lets the next one wait. *)
Starts(r) ==
    /\ req[r] = Idle
    /\ instance.alone => \A q \in Requests : req[q] = Idle

Run(k, local) == agent' = [agent EXCEPT ![k] = local]

(* Mutant: every status update asks for the status before a human decision. *)
UpdatePendingRow(row) ==
    report' = IF report.status = "pending_approval" THEN row ELSE report

(* A statement that writes the report row waits for the row lock; one that
   finds the row gone updates nothing. *)
RowFree == lock = None
UpdateRow(row) == report' = IF report.status = "deleted" THEN report ELSE row

(* JournalService.Create leaves a draft entry.  The expense code swallows a
   failure, and then links nothing. *)
Booked(kind, amount, link) ==
    \/ /\ amount > 0
       /\ Len(journal) < MaxJournals
       /\ journal' = Append(journal, [kind |-> kind, amount |-> amount])
       /\ link = Len(journal) + 1
    \/ /\ amount = 0 \/ Faults \/ Len(journal) = MaxJournals
       /\ link = NoLink
       /\ UNCHANGED journal

Links == 0..MaxJournals

-----------------------------------------------------------------------------
(* AddItem, UpdateItem, DeleteItem: the status is read, then the item row is
   written without looking again. *)

AddRead(r) ==
    /\ Starts(r)
    /\ report.status = "draft"
    /\ Goto(r, [pc |-> "add_count"])
    /\ UNCHANGED <<report, items, journal, agent, lock, submits, instance>>

AddCount(r) ==
    /\ req[r].pc = "add_count"
    /\ Cardinality(Present) < MaxItems
    /\ Goto(r, [pc |-> "add_write"])
    /\ UNCHANGED <<report, items, journal, agent, lock, submits, instance>>

(* The foreign key to the report makes the INSERT wait for Submit's FOR UPDATE
   lock, and fail once the report is gone. *)
AddWrite(r) ==
    /\ req[r].pc = "add_write"
    /\ RowFree
    /\ report.status # "deleted"
    /\ \E i \in instance.items, a \in Amounts :
         /\ items[i] = Unused
         /\ a \in instance.amounts
         /\ items' = [items EXCEPT ![i] = a]
    /\ Done(r)
    /\ UNCHANGED <<report, journal, agent, lock, submits, instance>>

ItemRead(r) ==
    /\ Starts(r)
    /\ report.status = "draft"
    /\ \E i \in Present, op \in {"update", "delete"} :
         Goto(r, [pc |-> op, item |-> i])
    /\ UNCHANGED <<report, items, journal, agent, lock, submits, instance>>

WriteItem(r, amount) ==
    /\ items' = IF req[r].item \in Present
                THEN [items EXCEPT ![req[r].item] = amount]
                ELSE items
    /\ Done(r)
    /\ UNCHANGED <<report, journal, agent, lock, submits, instance>>

UpdateItem(r) == req[r].pc = "update" /\ \E a \in Amounts : a \in instance.amounts /\ WriteItem(r, a)
DeleteItem(r) == req[r].pc = "delete" /\ WriteItem(r, Removed)

(* DeleteDraft: one guarded DELETE, which takes the items along. *)
DeleteDraft ==
    /\ RowFree
    /\ report.status = "draft"
    /\ report' = [report EXCEPT !.status = "deleted"]
    /\ items' = [i \in Items |-> IF i \in Present THEN Removed ELSE items[i]]
    /\ UNCHANGED <<journal, req, agent, lock, submits, instance>>

-----------------------------------------------------------------------------
(* Submit: one transaction that locks the row; item rows are not locked.  The
   count belongs to the first step and the sum to the last, since nothing but
   item writes can happen between a statement and the next. *)

SubmitLock(r) ==
    /\ Starts(r)
    /\ RowFree
    /\ report.status = "draft"
    /\ Present # {}
    /\ submits < MaxSubmits
    /\ lock' = r
    /\ Goto(r, [pc |-> "submit"])
    /\ UNCHANGED <<report, items, journal, agent, submits, instance>>

Submitted == [report EXCEPT !.status = "submitted", !.total = AmountOf(Present)]

SubmitCommit(r) ==
    /\ req[r].pc = "submit"
    /\ report' = Submitted
    /\ submits' = submits + 1
    /\ Run(submits + 1, [pc |-> "load"])
    /\ lock' = None
    /\ Done(r)
    /\ UNCHANGED <<items, journal, instance>>

(* What the status updates that name an approver write. *)
Decided(status, by) == [report EXCEPT !.status = status, !.approver = by]

(* RevertToDraft: one guarded UPDATE.  The accrual link stays. *)
RevertToDraft ==
    /\ RowFree
    /\ report.status = "rejected"
    /\ report' = Decided("draft", None)
    /\ UNCHANGED <<items, journal, req, agent, lock, submits, instance>>

-----------------------------------------------------------------------------
(* The agent run of submission k: EvaluateReport. *)

(* Mutant: one item with a policy is enough. *)
SomeItemDecides ==
    IF Present \cap AutoItems # {} THEN {"approved"} ELSE {"pending_approval"}

(* No item means no reason against approval; otherwise every item must have a
   policy that allows it, and the score (duplicates, weekends) may still send
   the report to a human. *)
Decisions ==
    CASE Present = {}             -> {"approved"}
      [] Present \subseteq AutoItems /\ Present # {} -> {"approved", "pending_approval"}
      [] OTHER                    -> {"pending_approval"}

AgentLoad(k) ==
    /\ agent[k].pc = "load"
    /\ IF report.status = "deleted"
       THEN Run(k, Ended)
       ELSE \E d \in Decisions :
              Run(k, [pc |-> "review", decision |-> d, 
                      booked |-> AmountOf(Present \cap GLItems)])
    /\ UNCHANGED <<report, items, journal, req, lock, submits, instance>>

(* Step 6: the status is written whatever it has become. *)
AgentReview(k) ==
    /\ agent[k].pc = "review"
    /\ RowFree
    /\ UpdateRow([report EXCEPT !.status = agent[k].decision])
    /\ Run(k, IF agent[k].decision = "approved"
              THEN [pc |-> "accrue", booked |-> agent[k].booked]
              ELSE Ended)
    /\ UNCHANGED <<items, journal, req, lock, submits, instance>>

(* Step 7: the accrual of an automatic approval, then the link to it, which
   again writes the status, and no approver. *)
AgentAccrue(k) ==
    /\ agent[k].pc = "accrue"
    /\ \E link \in Links :
         /\ Booked("accrual", agent[k].booked, link)
         /\ Run(k, IF link = NoLink THEN Ended ELSE [pc |-> "link", link |-> link])
    /\ UNCHANGED <<report, items, req, lock, submits, instance>>

Approved(by, link) == [report EXCEPT !.status = "approved", !.approver = by,
                                     !.accrual = link]

AgentLink(k) ==
    /\ agent[k].pc = "link"
    /\ RowFree
    /\ UpdateRow(Approved(None, agent[k].link))
    /\ Run(k, Ended)
    /\ UNCHANGED <<items, journal, req, lock, submits, instance>>

-----------------------------------------------------------------------------
(* ApproveReport, RejectReport, MarkPaid: the status is checked when the
   request starts; only MarkPaid's UPDATE looks at it again. *)

(* Mutants: without the self-approval check; already when submitted. *)
AnyoneDecides(u) == report.status = "pending_approval"
MayDecideEarly(u) == u # Submitter /\ report.status \in {"submitted", "pending_approval"}

(* The self-approval and status checks of ApproveReport and RejectReport. *)
MayDecide(u) == u # Submitter /\ report.status = "pending_approval"

ApproveRead(r) ==
    /\ Starts(r)
    /\ \E u \in Users : MayDecide(u) /\ Goto(r, [pc |-> "approve_items", by |-> u])
    /\ UNCHANGED <<report, items, journal, agent, lock, submits, instance>>

(* The items are listed and CreateAccrualEntry books those with an account. *)
ApproveAccrue(r) ==
    /\ req[r].pc = "approve_items"
    /\ report.status # "deleted"
    /\ \E link \in Links :
         /\ Booked("accrual", AmountOf(Present \cap GLItems), link)
         /\ Goto(r, [pc |-> "approve_write", by |-> req[r].by, link |-> link])
    /\ UNCHANGED <<report, items, agent, lock, submits, instance>>

ApproveWrite(r) ==
    /\ req[r].pc = "approve_write"
    /\ RowFree
    /\ UpdateRow(Approved(req[r].by, req[r].link))
    /\ Done(r)
    /\ UNCHANGED <<items, journal, agent, lock, submits, instance>>

RejectRead(r) ==
    /\ Starts(r)
    /\ \E u \in Users : MayDecide(u) /\ Goto(r, [pc |-> "reject", by |-> u])
    /\ UNCHANGED <<report, items, journal, agent, lock, submits, instance>>

RejectWrite(r) ==
    /\ req[r].pc = "reject"
    /\ RowFree
    /\ UpdateRow(Decided("rejected", req[r].by))
    /\ Done(r)
    /\ UNCHANGED <<items, journal, agent, lock, submits, instance>>

(* Mutant: a paid report can be paid. *)
PayReadAgain(r) ==
    /\ Starts(r)
    /\ report.status \in {"approved", "paid"}
    /\ Goto(r, [pc |-> "pay_journal"])
    /\ UNCHANGED <<report, items, journal, agent, lock, submits, instance>>

PayRead(r) ==
    /\ Starts(r)
    /\ report.status = "approved"
    /\ Goto(r, [pc |-> "pay_journal"])
    /\ UNCHANGED <<report, items, journal, agent, lock, submits, instance>>

(* The report is read again and its total is booked, before the UPDATE. *)
PayJournal(r) ==
    /\ req[r].pc = "pay_journal"
    /\ report.status # "deleted"
    /\ \E link \in Links :
         /\ Booked("payment", report.total, link)
         /\ Goto(r, [pc |-> "pay_write", link |-> link])
    /\ UNCHANGED <<report, items, agent, lock, submits, instance>>

(* Mutant: the payment is linked in the wrong column. *)
PaidAsAccrual(row, link) == IF row.status = "approved"
                            THEN [row EXCEPT !.status = "paid", !.accrual = link]
                            ELSE row

(* UPDATE ... WHERE status = 'approved'; no row updated is no error. *)
Paid(row, link) == IF row.status = "approved"
                   THEN [row EXCEPT !.status = "paid", !.payment = link]
                   ELSE row

PayWrite(r) ==
    /\ req[r].pc = "pay_write"
    /\ RowFree
    /\ UpdateRow(Paid(report, req[r].link))
    /\ Done(r)
    /\ UNCHANGED <<items, journal, agent, lock, submits, instance>>

-----------------------------------------------------------------------------
(* A check refuses a request (the item limit is reached, the report is gone),
   which ends it without a write. *)
Refused(r) ==
    /\ \/ req[r].pc = "add_count" /\ Cardinality(Present) >= MaxItems
       \/ /\ req[r].pc \in {"add_write", "approve_items", "pay_journal"}
          /\ report.status = "deleted"
    /\ Done(r)
    /\ UNCHANGED <<report, items, journal, agent, lock, submits, instance>>

(* A statement fails or the client goes away: the request ends where it is,
   and an open transaction rolls back. *)
Abandon(r) ==
    /\ Faults
    /\ req[r] # Idle
    /\ lock' = IF lock = r THEN None ELSE lock
    /\ Done(r)
    /\ UNCHANGED <<report, items, journal, agent, submits, instance>>

(* The process dies: requests and agent runs are gone, and nothing resumes
   them; what is committed stays. *)
Crash ==
    /\ Faults
    /\ req' = [r \in Requests |-> Idle]
    /\ agent' = [k \in Runs |-> IF agent[k] = Idle THEN Idle ELSE Ended]
    /\ lock' = None
    /\ UNCHANGED <<report, items, journal, submits, instance>>

-----------------------------------------------------------------------------
ItemStep(r) == \/ AddRead(r) \/ AddCount(r) \/ AddWrite(r)
               \/ ItemRead(r) \/ UpdateItem(r) \/ DeleteItem(r)
SubmitStep(r) == SubmitLock(r) \/ SubmitCommit(r)
DecideStep(r) == \/ ApproveRead(r) \/ ApproveAccrue(r) \/ ApproveWrite(r)
                 \/ RejectRead(r) \/ RejectWrite(r)
PayStep(r) == PayRead(r) \/ PayJournal(r) \/ PayWrite(r)

RequestStep(r) == \/ ItemStep(r) \/ SubmitStep(r) \/ DecideStep(r) \/ PayStep(r)
                  \/ Refused(r) \/ Abandon(r)
AgentStep(k) == AgentLoad(k) \/ AgentReview(k) \/ AgentAccrue(k) \/ AgentLink(k)

Next ==
    \/ \E r \in Requests : RequestStep(r)
    \/ \E k \in Runs : AgentStep(k)
    \/ DeleteDraft \/ RevertToDraft \/ Crash

Spec == Init /\ [][Next]_vars

(* A goroutine that can run is eventually scheduled, and so is the commit that
   holds the row lock; people need not click anything. *)
Fairness ==
    /\ \A k \in Runs : WF_vars(AgentStep(k))
    /\ \A r \in Requests : WF_vars(SubmitCommit(r))

FairSpec == Spec /\ Fairness

-----------------------------------------------------------------------------
(* Under any interleaving, with failures *)

(* Nobody decides about their own report (design, line 68: "A user MUST NOT
   approve their own expense report"), nor is about to in a request that has
   passed the check. *)
SegregationOfDuties ==
    /\ report.approver # Submitter
    /\ \A r \in Requests :
         req[r].pc \in {"approve_items", "approve_write", "reject"} =>
             req[r].by # Submitter

(* The report's references lead to entries of their kind, whichever request or
   agent run wrote them last: ApproveReport's link and the agent's compete. *)
LinksSound ==
    /\ report.accrual # NoLink =>
         report.accrual \in DOMAIN journal /\ journal[report.accrual].kind = "accrual"
    /\ report.payment # NoLink =>
         report.payment \in DOMAIN journal /\ journal[report.payment].kind = "payment"

(* The count is taken before the insert: requests that counted together can
   pass the limit together, one beyond it each, and no further. *)
ItemsBounded == Cardinality(Present) < MaxItems + Cardinality(Requests)

(* What two requests at once may not spoil: links and the item limit. *)
RequestsSound == LinksSound /\ ItemsBounded

(* A report that waits for its review gets it (design, line 306). *)
ReviewedEventually == report.status = "submitted" ~> report.status # "submitted"

-----------------------------------------------------------------------------
(* One request at a time, the agent beside it *)

Final == {"submitted", "pending_approval", "approved", "rejected", "paid"}

(* What is approved and paid is what the items add up to. *)
TotalIsSumOfItems == report.status \in Final => report.total = AmountOf(Present)

(* A report without a human approver was approved by the agent, which needs a
   policy for every item (design, line 324); no items satisfy no policy. *)
ApprovedByPolicyOrHuman ==
    report.status \in {"approved", "paid"} /\ report.approver = None =>
        Present # {} /\ Present \subseteq AutoItems

(* One at a time, what is approved and paid is what the items add up to, and a
   report that no human approved was approved by the agent, under a policy for
   every item: statements of other requests would come between the check of a
   report and the write of its items (expense_report_service.go, 244-280). *)
DecidedOnItemsAlone ==
    instance.alone => TotalIsSumOfItems /\ ApprovedByPolicyOrHuman

(* The books hold one accrual and one payment at most, and as soon as the
   report is approved (paid) the accrual (payment) it names is for its total. *)
Entries(kind) == {n \in DOMAIN journal : journal[n].kind = kind}
BookedOnce ==
    /\ Cardinality(Entries("accrual")) <= 1
    /\ Cardinality(Entries("payment")) <= 1
    /\ report.status \in {"approved", "paid"} =>
         Entries("accrual") = {report.accrual} /\ journal[report.accrual].amount = report.total
    /\ report.status = "paid" =>
         Entries("payment") = {report.payment} /\ journal[report.payment].amount = report.total

(* The report and its books as a whole: types, and one booking of each kind. *)
WorkflowSound == TypeOK /\ BookedOnce
=============================================================================
