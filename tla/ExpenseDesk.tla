----------------------------- MODULE ExpenseDesk -----------------------------
(***************************************************************************)
(* What expense management does for many reports and users, where          *)
(* ExpenseReport looks at one: the numbers of reports, the queues of       *)
(* approvers and of finance, the duplicates the agent looks for, the       *)
(* analytics, the audit log, and the policies and approvers it is          *)
(* configured with (service/expense_*.go, handler/expense_handler.go,      *)
(* handler/approval_handler.go).                                           *)
(***************************************************************************)
EXTENDS Requests

CONSTANTS
    ItemInputs,    \* [category, amount, merchant, weekend]; no merchant is NoText
    PolicyInputs,  \* [name, category, max, receiptAbove, auto]; no limit is NoLimit
    Staff,         \* the users of the company
    Departments,   \* of the payees, and of the approvers
    NoLimit

ASSUME ExpenseDeskAssumption ==
    NoText \notin Staff /\ \A input \in ItemInputs : input.amount \in Int

ExpenseDeskParts == {"numbers", "expenses", "settings"}

(* The tables.  reports: id -> [by, dept, number, title, status, total, approver,
   dated] (dept NoText if no payee is named; dated: approved_at is set); items: id ->
   an input with its report and whether it has a receipt; policies and
   approvers: id -> a row with active; settings: the approval settings of the
   company.  log: id -> the last thing a user did to a report, but for edits.
   Besides, holder: who holds the lock on the numbers; month: the current one;
   agents: report -> the state of the agent that looks at it.  Remembered:
   auto: the reports the agent approved; turned, refused, removed, failed: the
   month turned, a number was taken already, a report was deleted, a
   statement whose error is ignored did fail. *)
ReportRow(by, dept, number) ==
    [by |-> by, dept |-> dept, number |-> number, title |-> "first", status |-> "draft",
     total |-> 0, approver |-> NoText, dated |-> FALSE]

-----------------------------------------------------------------------------
(* Reports. *)
GetExpenseReportByID(db, r) == DOMAIN db.reports \cap {r}

CreateExpenseReport(db, row) ==
    [db EXCEPT !.reports = With(@, db.made + 1, row), !.made = @ + 1,
               !.log = With(@, db.made + 1, "created")]

(* One more than the highest of the month's numbers. *)
GenerateExpenseReportNumber(db, month) ==
    Max({0} \cup {db.reports[r].number[2] : r \in {s \in DOMAIN db.reports :
                                                     db.reports[s].number[1] = month}}) + 1

NumberFree(db, number) == \A r \in DOMAIN db.reports : db.reports[r].number # number

(* Mutant: nobody waits for the lock. *)
LockAlways(db) == TRUE

(* pg_advisory_xact_lock: held until the transaction ends. *)
AcquireExpenseReportNumberLock(db) == db.holder = {}

Changed(db, r, row) == [db EXCEPT !.reports = [i \in DOMAIN @ |-> IF i = r THEN row ELSE @[i]]]

UpdateExpenseReportDraft(db, r, title) ==
    IF r \in DOMAIN db.reports /\ db.reports[r].status = "draft"
    THEN Changed(db, r, [db.reports[r] EXCEPT !.title = title]) ELSE db

DeleteExpenseReportDraft(db, r) ==
    IF r \in DOMAIN db.reports /\ db.reports[r].status = "draft"
    THEN [db EXCEPT !.reports = Without(@, {r}), !.log = Without(@, {r}), !.removed = TRUE,
                    !.items = Without(@, {i \in DOMAIN @ : @[i].report = r})]
    ELSE db

UpdateExpenseReportRejectToDraft(db, r) ==
    IF r \in DOMAIN db.reports /\ db.reports[r].status = "rejected"
    THEN Changed(db, r, [db.reports[r] EXCEPT !.status = "draft", !.approver = NoText]) ELSE db

SetStatus(db, r, status) == Changed(db, r, [db.reports[r] EXCEPT !.status = status])

CreateExpenseAuditLog(db, r, action) ==
    IF r \in DOMAIN db.reports /\ action # "edited"
    THEN [db EXCEPT !.log = With(@, r, action)] ELSE db

ListExpenseReportsBySubmitter(db, u, status) ==
    {r \in DOMAIN db.reports : db.reports[r].by = u /\ status \in {NoText, db.reports[r].status}}
CountExpenseReportsBySubmitter(db, u, status) ==
    Cardinality(ListExpenseReportsBySubmitter(db, u, status))

ListExpenseReportsByStatus(db, status) ==
    {r \in DOMAIN db.reports : db.reports[r].status = status}
CountExpenseReportsByStatus(db, status) == Cardinality(ListExpenseReportsByStatus(db, status))

(* The limit of an approver is not asked for; a report without a payee has no
   department and is in no queue. *)
ListPendingApprovalsForUser(db, u) ==
    {r \in ListExpenseReportsByStatus(db, "pending_approval") :
        /\ db.reports[r].by # u
        /\ \E a \in DOMAIN db.approvers :
               /\ db.approvers[a].dept = db.reports[r].dept
               /\ db.approvers[a].user = u /\ db.approvers[a].active}
CountPendingApprovalsForUser(db, u) == Cardinality(ListPendingApprovalsForUser(db, u))

-----------------------------------------------------------------------------
(* Items. *)
ItemsOf(db, r) == {i \in DOMAIN db.items : db.items[i].report = r}
CountExpenseItemsByReport(db, r) == Cardinality(ItemsOf(db, r))
SumExpenseItemsByReport(db, r) ==
    AddAll([i \in DOMAIN db.items |-> db.items[i].amount], ItemsOf(db, r))

ItemRow(r, input, receipt) ==
    [report |-> r, category |-> input.category, amount |-> input.amount,
     merchant |-> input.merchant, weekend |-> input.weekend, receipt |-> receipt]

(* The foreign key refuses an item of a report that is gone. *)
CreateExpenseItem(db, r, input) ==
    [db EXCEPT !.items = With(@, db.made + 1, ItemRow(r, input, FALSE)), !.made = @ + 1]

GetExpenseItemByID(db, i) == DOMAIN db.items \cap {i}

RewriteItem(db, i, input) ==
    [db EXCEPT !.items = [j \in DOMAIN @ |-> IF j = i THEN ItemRow(@[j].report, input, @[j].receipt)
                                                      ELSE @[j]]]

DeleteExpenseItem(db, i) == [db EXCEPT !.items = Without(@, {i})]

UpdateExpenseItemReceipt(db, i) ==
    [db EXCEPT !.items = [j \in DOMAIN @ |-> IF j = i THEN [@[j] EXCEPT !.receipt = TRUE] ELSE @[j]]]

(* The same amount at the same merchant in another report of the submitter that
   is under way; the days of the inputs all lie within a week. *)
FindDuplicateExpenseItems(db, r, item) ==
    {j \in DOMAIN db.items :
        LET other == db.reports[db.items[j].report]
        IN  /\ db.items[j].report # r /\ other.by = db.reports[r].by
            /\ other.status \notin {"draft", "rejected"}
            /\ db.items[j].amount = item.amount /\ db.items[j].merchant = item.merchant}

-----------------------------------------------------------------------------
(* Analytics, over the one period of the model. *)
Spent(db) == {r \in DOMAIN db.reports : db.reports[r].status \in {"approved", "paid"}}

GetExpenseSpendByCategory(db) ==
    LET counted == {i \in DOMAIN db.items : /\ db.items[i].report \in Spent(db)
                                            /\ db.reports[db.items[i].report].dated}
    IN  [cat \in {db.items[i].category : i \in counted} |->
            AddAll([i \in DOMAIN db.items |-> db.items[i].amount],
                  {i \in counted : db.items[i].category = cat})]

GetExpenseSpendByDepartment(db) ==
    LET counted == {r \in Spent(db) : db.reports[r].dated}
    IN  [dept \in {db.reports[r].dept : r \in counted} |->
            AddAll([r \in DOMAIN db.reports |-> db.reports[r].total],
                  {r \in counted : db.reports[r].dept = dept})]

(* By the day of creation, and dated or not. *)
GetExpenseSpendSummary(db) ==
    LET Totals(S) == AddAll([r \in DOMAIN db.reports |-> db.reports[r].total], S)
    IN  [approved |-> Totals(Spent(db)), paid |-> Totals(ListExpenseReportsByStatus(db, "paid")),
         pending |-> Totals(ListExpenseReportsByStatus(db, "pending_approval"))]

-----------------------------------------------------------------------------
(* Policies and approvers. *)
CreateExpensePolicy(db, input) ==
    [db EXCEPT !.policies = With(@, db.made + 1, [of |-> input, active |-> TRUE]), !.made = @ + 1]
GetExpensePolicyByID(db, p) == DOMAIN db.policies \cap {p}
ListExpensePolicies(db) == {p \in DOMAIN db.policies : db.policies[p].active}

UpdateExpensePolicy(db, p, input) ==
    [db EXCEPT !.policies = [i \in DOMAIN @ |-> IF i = p THEN [@[i] EXCEPT !.of = input]
                                                         ELSE @[i]]]
DeactivateExpensePolicy(db, p) ==
    [db EXCEPT !.policies = [i \in DOMAIN @ |-> IF i = p THEN [@[i] EXCEPT !.active = FALSE]
                                                         ELSE @[i]]]

(* (company, department, user) is unique, removed approvers included. *)
SeatFree(db, dept, user, but) ==
    \A a \in DOMAIN db.approvers \ but : <<db.approvers[a].dept, db.approvers[a].user>> # <<dept, user>>
CreateExpenseApprover(db, dept, user) ==
    [db EXCEPT !.approvers = With(@, db.made + 1, [dept |-> dept, user |-> user, active |-> TRUE]),
               !.made = @ + 1]
ListExpenseApprovers(db) == {a \in DOMAIN db.approvers : db.approvers[a].active}
UpdateExpenseApprover(db, a, dept) ==
    [db EXCEPT !.approvers = [i \in DOMAIN @ |-> IF i = a THEN [@[i] EXCEPT !.dept = dept] ELSE @[i]]]
DeactivateExpenseApprover(db, a) ==
    [db EXCEPT !.approvers = [i \in DOMAIN @ |-> IF i = a THEN [@[i] EXCEPT !.active = FALSE] ELSE @[i]]]

(* pgx reads numbers from text only: a threshold given as a float stays NULL,
   the error is dropped. *)
FloatToNumeric(f) == NoLimit
UpsertApprovalSettings(db, enabled, threshold) ==
    [db EXCEPT !.settings = [enabled |-> enabled, threshold |-> FloatToNumeric(threshold)]]

-----------------------------------------------------------------------------
(* The agent: its rules of approval, over the reports and policies it reads. *)

(* Of several policies of a category the last by name is the one asked. *)
PolicyOf(db, cat) ==
    LET own == {db.policies[p].of : p \in {q \in ListExpensePolicies(db) :
                                             db.policies[q].of.category = cat}}
    IN  {of \in own : \A other \in own : other.name <= of.name}

Exceeds(amount, limit) == limit # NoLimit /\ amount > limit
Unreceipted(item, of) == Exceeds(item.amount, of.receiptAbove) /\ ~item.receipt

(* The items whose duplicates are looked for; those in unseen, of which the
   query fails, get no points for them. *)
NamedItems(db, r) == {i \in ItemsOf(db, r) : db.items[i].merchant # NoText}

ItemScore(db, r, i, unseen) ==
    LET item == db.items[i]
        of == PolicyOf(db, item.category)
    IN  15 * Cardinality({p \in of : Exceeds(item.amount, p.max)})
        + 20 * Cardinality({p \in of : Unreceipted(item, p)})
        + (IF item.weekend THEN 10 ELSE 0)
        + (IF i \in NamedItems(db, r) \ unseen
           THEN 10 * Cardinality(FindDuplicateExpenseItems(db, r, item)) ELSE 0)

MayApproveItem(db, i) ==
    LET item == db.items[i]
    IN  \E p \in PolicyOf(db, item.category) :
            p.auto /\ ~Exceeds(item.amount, p.max) /\ ~Unreceipted(item, p)

Verdict(db, r, unseen) ==
    LET scores == [i \in ItemsOf(db, r) |-> ItemScore(db, r, i, unseen)]
    IN  IF 10 + AddAll(scores, ItemsOf(db, r)) < 30 /\ \A i \in ItemsOf(db, r) : MayApproveItem(db, i)
        THEN "approved" ELSE "pending_approval"

(* The policies could not be read: no item has one. *)
VerdictWithout(db, r) == IF ItemsOf(db, r) = {} THEN "approved" ELSE "pending_approval"

-----------------------------------------------------------------------------
(* What the handlers make of the outcomes of the services. *)
CreateReportResponses == [Done |-> 201, Failed |-> 500]
ListMineResponses == [Done |-> 200]
GetReportResponses == [Done |-> 200, NotFound |-> 404]
UpdateReportResponses == [Done |-> 200]
DeleteReportResponses == [Done |-> 200]
AddItemResponses == [Done |-> 201, NotDraft |-> 409, NotFound |-> 404]
UpdateItemResponses == [Done |-> 200, Frozen |-> 409, NotFound |-> 404]
DeleteItemResponses == [Done |-> 200, Frozen |-> 409, NotFound |-> 404]
UploadResponses == [Done |-> 200]
ServeResponses == [Done |-> 200, NotFound |-> 404]
SubmitResponses == [Done |-> 200, NoItems |-> 422, NotDraft |-> 409, NotFound |-> 404]
RevertResponses == [Done |-> 200]
QueueResponses == [Done |-> 200]
FinanceResponses == [Done |-> 200]
AnalyticsResponses == [Done |-> 200]
CreatePolicyResponses == [Done |-> 201]
GetPolicyResponses == [Done |-> 200, NotFound |-> 404]
UpdatePolicyResponses == [Done |-> 200]
DeletePolicyResponses == [Done |-> 200]
CreateApproverResponses == [Done |-> 201, Failed |-> 500]
UpdateApproverResponses == [Done |-> 200, Failed |-> 500]
DeleteApproverResponses == [Done |-> 200]

-----------------------------------------------------------------------------
(* Reports and their numbers.  Create is one transaction: it waits for the lock
   on the numbers, reads the highest of the month in which it began, and
   writes the number with the month it is by then. *)
SomeId == 1..rows.made

CreateReport(c) ==
    /\ Free({"numbers"}, c) /\ Reads
    /\ \E u \in Staff, dept \in Departments \cup {NoText} :
           Begin(c, [op |-> "createReport", at |-> "lock", began |-> rows.month, by |-> u,
                     dept |-> dept])

CreateReportNumbers(c) ==
    LET next == <<rows.month, GenerateExpenseReportNumber(rows, calls[c].began)>>
    IN  /\ At(c, "createReport", "lock") /\ AcquireExpenseReportNumberLock(rows)
        /\ Store([rows EXCEPT !.holder = {c}])
        /\ Continue(c, [op |-> "createReport", at |-> "insert", number |-> next,
                        by |-> calls[c].by, dept |-> calls[c].dept])

CreateReportInserts(c) ==
    LET call == calls[c]
        freed == [rows EXCEPT !.holder = @ \ {c}]
    IN  /\ At(c, "createReport", "insert")
        /\ IF NumberFree(rows, call.number)
           THEN /\ Store(CreateExpenseReport(freed, ReportRow(call.by, call.dept, call.number)))
                /\ Answer(c, CreateReportResponses.Done)
           ELSE /\ Store([freed EXCEPT !.refused = TRUE])
                /\ Answer(c, CreateReportResponses.Failed)

MonthTurns ==
    /\ part = "numbers" /\ ~rows.turned
    /\ Store([rows EXCEPT !.month = @ + 1, !.turned = TRUE])
    /\ UNCHANGED <<part, calls, left>>

ListMyReports(c) ==
    /\ Free({"numbers"}, c) /\ Reads
    /\ \E u \in Staff, status \in {NoText, "draft"} :
           Begin(c, [op |-> "myReports", at |-> "count", by |-> u, status |-> status,
                     listed |-> ListExpenseReportsBySubmitter(rows, u, status)])

ListMyReportsCounts(c) ==
    /\ At(c, "myReports", "count") /\ Reads
    /\ Continue(c, [op |-> "myReports", at |-> "answered", listed |-> calls[c].listed,
                    total |-> CountExpenseReportsBySubmitter(rows, calls[c].by, calls[c].status),
                    status |-> ListMineResponses.Done])

GetReport(c) ==
    /\ Free({"numbers"}, c) /\ Reads
    /\ \E r \in SomeId :
           AnswerAtOnce(c, "getReport", IF GetExpenseReportByID(rows, r) = {}
                                        THEN GetReportResponses.NotFound ELSE GetReportResponses.Done)

(* One guarded statement each, and no look at whether it met a row. *)
UpdateDraft(c) ==
    /\ Free({"numbers"}, c)
    /\ \E r \in SomeId : Store(UpdateExpenseReportDraft(rows, r, "second"))
    /\ AnswerAtOnce(c, "updateReport", UpdateReportResponses.Done)

DeleteReport(c) ==
    /\ Free({"numbers", "expenses"}, c)
    /\ \E r \in SomeId : Store(DeleteExpenseReportDraft(rows, r))
    /\ AnswerAtOnce(c, "deleteReport", DeleteReportResponses.Done)

-----------------------------------------------------------------------------
(* Items: the status is read first, and the row written after. *)
AddItem(c) ==
    /\ Free({"expenses"}, c) /\ Reads
    /\ \E r \in SomeId, input \in ItemInputs :
         CASE GetExpenseReportByID(rows, r) = {} ->
                AnswerAtOnce(c, "addItem", AddItemResponses.NotFound)
           [] r \in DOMAIN rows.reports /\ rows.reports[r].status # "draft" ->
                AnswerAtOnce(c, "addItem", AddItemResponses.NotDraft)
           [] OTHER -> Begin(c, [op |-> "addItem", at |-> "insert", report |-> r, input |-> input])

AddItemInserts(c) ==
    LET call == calls[c]
    IN  /\ At(c, "addItem", "insert")
        /\ Store(IF call.report \in DOMAIN rows.reports
                 THEN CreateExpenseItem(rows, call.report, call.input) ELSE rows)
        /\ Answer(c, AddItemResponses.Done)

(* UpdateItem and DeleteItem begin alike. *)
ItemStatus(i) == IF GetExpenseItemByID(rows, i) = {} THEN "none"
                 ELSE rows.reports[rows.items[i].report].status

UpdateItem(c) ==
    /\ Free({"expenses"}, c) /\ Reads
    /\ \E i \in SomeId, input \in ItemInputs :
         CASE ItemStatus(i) = "none" -> AnswerAtOnce(c, "updateItem", UpdateItemResponses.NotFound)
           [] ItemStatus(i) = "draft" ->
                Begin(c, [op |-> "updateItem", at |-> "write", item |-> i, input |-> input])
           [] OTHER -> AnswerAtOnce(c, "updateItem", UpdateItemResponses.Frozen)

UpdateItemWrites(c) ==
    /\ At(c, "updateItem", "write")
    /\ Store(RewriteItem(rows, calls[c].item, calls[c].input))
    /\ Answer(c, UpdateItemResponses.Done)

DeleteItem(c) ==
    /\ Free({"expenses"}, c) /\ Reads
    /\ \E i \in SomeId :
         CASE ItemStatus(i) = "none" -> AnswerAtOnce(c, "deleteItem", DeleteItemResponses.NotFound)
           [] ItemStatus(i) = "draft" -> Begin(c, [op |-> "deleteItem", at |-> "write", item |-> i])
           [] OTHER -> AnswerAtOnce(c, "deleteItem", DeleteItemResponses.Frozen)

DeleteItemWrites(c) ==
    /\ At(c, "deleteItem", "write")
    /\ Store(DeleteExpenseItem(rows, calls[c].item))
    /\ Answer(c, DeleteItemResponses.Done)

(* A receipt may come at any time, also after submission. *)
UploadReceipt(c) ==
    /\ Free({"expenses"}, c)
    /\ \E i \in SomeId : Store(UpdateExpenseItemReceipt(rows, i))
    /\ AnswerAtOnce(c, "upload", UploadResponses.Done)

ServeReceipt(c) ==
    /\ Free({"expenses"}, c) /\ Reads
    /\ \E i \in SomeId :
           AnswerAtOnce(c, "serve", IF \E j \in GetExpenseItemByID(rows, i) : rows.items[j].receipt
                                    THEN ServeResponses.Done ELSE ServeResponses.NotFound)

-----------------------------------------------------------------------------
(* The way of a report.  Submit is one transaction, after which the agent is
   started; the steps of one report are ExpenseReport's. *)
Submit(c) ==
    /\ Free({"expenses"}, c)
    /\ \E r \in SomeId :
         CASE GetExpenseReportByID(rows, r) = {} ->
                Reads /\ AnswerAtOnce(c, "submit", SubmitResponses.NotFound)
           [] r \in DOMAIN rows.reports /\ rows.reports[r].status # "draft" ->
                Reads /\ AnswerAtOnce(c, "submit", SubmitResponses.NotDraft)
           [] r \in DOMAIN rows.reports /\ rows.reports[r].status = "draft"
              /\ CountExpenseItemsByReport(rows, r) = 0 ->
                Reads /\ AnswerAtOnce(c, "submit", SubmitResponses.NoItems)
           [] OTHER ->
                /\ Store([CreateExpenseAuditLog(
                             Changed(rows, r, [rows.reports[r] EXCEPT !.status = "submitted",
                                                !.total = SumExpenseItemsByReport(rows, r)]),
                             r, "submitted") EXCEPT !.agents = With(@, r, "due")])
                /\ AnswerAtOnce(c, "submit", SubmitResponses.Done)

(* What the agent reads, it reads before it writes; nothing but receipts and
   the other reports' statuses changes in between when requests come one at
   a time. *)
AgentEvaluates(r) ==
    /\ rows.agents[r] = "due" /\ r \in DOMAIN rows.reports
    /\ \E unseen \in SUBSET NamedItems(rows, r) :
           \E verdict \in {Verdict(rows, r, unseen), VerdictWithout(rows, r)} :
               Store([rows EXCEPT !.agents[r] = verdict, !.failed = @ \/ unseen # {}])
    /\ UNCHANGED <<part, calls, left>>

(* It does not find its report or its items, or cannot write its verdict. *)
AgentFails(r) ==
    /\ rows.agents[r] \in {"due", "approved", "pending_approval"}
    /\ Store([rows EXCEPT !.agents[r] = "done"])
    /\ UNCHANGED <<part, calls, left>>

AgentWrites(r) ==
    LET verdict == rows.agents[r]
        written == IF r \in DOMAIN rows.reports THEN SetStatus(rows, r, verdict) ELSE rows
    IN  /\ verdict \in {"approved", "pending_approval"}
        /\ Store([written EXCEPT !.agents[r] = IF verdict = "approved" THEN "accrues" ELSE "done",
                                 !.auto = IF verdict = "approved" THEN @ \cup {r} ELSE @])
        /\ UNCHANGED <<part, calls, left>>

(* Only a report whose items are booked gets the date of its approval. *)
AgentLinks(r) ==
    /\ rows.agents[r] = "accrues"
    /\ \E booked \in BOOLEAN :
         Store([IF booked /\ r \in DOMAIN rows.reports
                THEN Changed(rows, r, [rows.reports[r] EXCEPT !.status = "approved", !.dated = TRUE,
                                                              !.approver = NoText])
                ELSE rows EXCEPT !.agents[r] = "done"])
    /\ UNCHANGED <<part, calls, left>>

MayDecide(u, r) == rows.reports[r].by # u /\ rows.reports[r].status = "pending_approval"

(* Approve and reject read, write, and log what they did. *)
Decide(c) ==
    /\ Free({"expenses"}, c) /\ Reads
    /\ \E u \in Staff, r \in DOMAIN rows.reports, status \in {"approved", "rejected"} :
           /\ MayDecide(u, r)
           /\ Begin(c, [op |-> "decideReport", at |-> "write", by |-> u, report |-> r, as |-> status])

DecideWrites(c) ==
    LET call == calls[c]
        r == call.report
    IN  /\ At(c, "decideReport", "write")
        /\ Store(IF r \in DOMAIN rows.reports
                 THEN Changed(rows, r, [rows.reports[r] EXCEPT !.status = call.as, !.approver = call.by,
                                                        !.dated = @ \/ call.as = "approved"])
                 ELSE rows)
        /\ Continue(c, [call EXCEPT !.at = "log"])

MarkPaid(c) ==
    /\ Free({"expenses"}, c) /\ Reads
    /\ \E r \in ListExpenseReportsByStatus(rows, "approved") :
           Begin(c, [op |-> "pay", at |-> "write", report |-> r, as |-> "paid"])

PayWrites(c) ==
    LET r == calls[c].report
    IN  /\ At(c, "pay", "write")
        /\ Store(IF r \in ListExpenseReportsByStatus(rows, "approved")
                 THEN SetStatus(rows, r, "paid") ELSE rows)
        /\ Continue(c, [calls[c] EXCEPT !.at = "log"])

(* Whether or not the statement before it met a row. *)
DecisionLogs(c) ==
    LET logged == CreateExpenseAuditLog(rows, calls[c].report, calls[c].as)
    IN  /\ calls[c].op \in {"decideReport", "pay"} /\ calls[c].at = "log"
        /\ rows' = logged \/ rows' = [rows EXCEPT !.failed = TRUE]
        /\ Answer(c, 200)

RevertToDraft(c) ==
    /\ Free({"expenses"}, c)
    /\ \E r \in SomeId :
           Store(CreateExpenseAuditLog(UpdateExpenseReportRejectToDraft(rows, r), r, "edited"))
    /\ AnswerAtOnce(c, "revert", RevertResponses.Done)

ListPendingApprovals(c) ==
    /\ Free({"expenses"}, c) /\ Reads
    /\ \E u \in Staff : Begin(c, [op |-> "queue", at |-> "count", by |-> u,
                                  listed |-> ListPendingApprovalsForUser(rows, u)])

ListPendingCounts(c) ==
    /\ At(c, "queue", "count") /\ Reads
    /\ Continue(c, [op |-> "queue", at |-> "answered", listed |-> calls[c].listed,
                    total |-> CountPendingApprovalsForUser(rows, calls[c].by),
                    status |-> QueueResponses.Done])

ListFinanceQueue(c) ==
    /\ Free({"expenses"}, c) /\ Reads
    /\ Begin(c, [op |-> "finance", at |-> "count",
                 listed |-> ListExpenseReportsByStatus(rows, "approved")])

ListFinanceCounts(c) ==
    /\ At(c, "finance", "count") /\ Reads
    /\ Continue(c, [op |-> "finance", at |-> "answered", listed |-> calls[c].listed,
                    total |-> CountExpenseReportsByStatus(rows, "approved"),
                    status |-> FinanceResponses.Done])

(* Three statements: the summary, the categories, the departments. *)
GetAnalytics(c) ==
    /\ Free({"expenses"}, c) /\ Reads
    /\ Begin(c, [op |-> "analytics", at |-> "category", summary |-> GetExpenseSpendSummary(rows)])

AnalyticsByCategory(c) ==
    /\ At(c, "analytics", "category") /\ Reads
    /\ Continue(c, [op |-> "analytics", at |-> "department", summary |-> calls[c].summary,
                    categories |-> GetExpenseSpendByCategory(rows)])

AnalyticsByDepartment(c) ==
    /\ At(c, "analytics", "department") /\ Reads
    /\ Continue(c, [op |-> "analytics", at |-> "answered", summary |-> calls[c].summary,
                    categories |-> calls[c].categories,
                    departments |-> GetExpenseSpendByDepartment(rows),
                    status |-> AnalyticsResponses.Done])

-----------------------------------------------------------------------------
(* The configuration: one statement per request. *)
AddPolicy(c) ==
    /\ Free({"settings"}, c)
    /\ \E input \in PolicyInputs : Store(CreateExpensePolicy(rows, input))
    /\ AnswerAtOnce(c, "createPolicy", CreatePolicyResponses.Done)

ShowPolicy(c) ==
    /\ Free({"settings"}, c) /\ Reads
    /\ \E p \in SomeId :
           AnswerAtOnce(c, "getPolicy", IF GetExpensePolicyByID(rows, p) = {}
                                        THEN GetPolicyResponses.NotFound ELSE GetPolicyResponses.Done)

EditPolicy(c) ==
    /\ Free({"settings"}, c)
    /\ \E p \in SomeId, input \in PolicyInputs : Store(UpdateExpensePolicy(rows, p, input))
    /\ AnswerAtOnce(c, "updatePolicy", UpdatePolicyResponses.Done)

RetirePolicy(c) ==
    /\ Free({"settings"}, c)
    /\ \E p \in SomeId :
           Store([DeactivateExpensePolicy(rows, p) EXCEPT !.retired = @ \cup GetExpensePolicyByID(rows, p)])
    /\ AnswerAtOnce(c, "deletePolicy", DeletePolicyResponses.Done)

CreateApprover(c) ==
    /\ Free({"settings"}, c)
    /\ \E dept \in Departments, u \in Staff :
           IF SeatFree(rows, dept, u, {})
           THEN /\ Store(CreateExpenseApprover(rows, dept, u))
                /\ AnswerAtOnce(c, "createApprover", CreateApproverResponses.Done)
           ELSE Reads /\ AnswerAtOnce(c, "createApprover", CreateApproverResponses.Failed)

UpdateApprover(c) ==
    /\ Free({"settings"}, c)
    /\ \E a \in SomeId, dept \in Departments :
           IF a \in DOMAIN rows.approvers => SeatFree(rows, dept, rows.approvers[a].user, {a})
           THEN /\ Store(UpdateExpenseApprover(rows, a, dept))
                /\ AnswerAtOnce(c, "updateApprover", UpdateApproverResponses.Done)
           ELSE Reads /\ AnswerAtOnce(c, "updateApprover", UpdateApproverResponses.Failed)

DeleteApprover(c) ==
    /\ Free({"settings"}, c)
    /\ \E a \in SomeId :
           Store([DeactivateExpenseApprover(rows, a)
                  EXCEPT !.retired = @ \cup (DOMAIN rows.approvers \cap {a})])
    /\ AnswerAtOnce(c, "deleteApprover", DeleteApproverResponses.Done)

(* The configuration is listed, and the settings of approvals shown. *)
ListConfiguration(c) ==
    /\ Free({"settings"}, c) /\ Reads
    /\ \E listed \in {ListExpensePolicies(rows), ListExpenseApprovers(rows)} :
           Begin(c, [op |-> "configuration", at |-> "answered", listed |-> listed, status |-> 200])

UpdateSettings(c) ==
    /\ Free({"settings"}, c)
    /\ \E enabled \in BOOLEAN, threshold \in {100, NoLimit} :
           Store(UpsertApprovalSettings(rows, enabled, threshold))
    /\ AnswerAtOnce(c, "settings", 200)

ExpenseDeskNext ==
    \/ \E c \in Serving(ExpenseDeskParts) :
        \/ CreateReport(c) \/ CreateReportNumbers(c) \/ CreateReportInserts(c)
        \/ ListMyReports(c) \/ ListMyReportsCounts(c) \/ GetReport(c)
        \/ UpdateDraft(c) \/ DeleteReport(c)
        \/ AddItem(c) \/ AddItemInserts(c) \/ UpdateItem(c) \/ UpdateItemWrites(c)
        \/ DeleteItem(c) \/ DeleteItemWrites(c) \/ UploadReceipt(c) \/ ServeReceipt(c)
        \/ Submit(c) \/ Decide(c) \/ DecideWrites(c) \/ MarkPaid(c) \/ PayWrites(c)
        \/ DecisionLogs(c) \/ RevertToDraft(c)
        \/ ListPendingApprovals(c) \/ ListPendingCounts(c)
        \/ ListFinanceQueue(c) \/ ListFinanceCounts(c)
        \/ GetAnalytics(c) \/ AnalyticsByCategory(c) \/ AnalyticsByDepartment(c)
        \/ AddPolicy(c) \/ ShowPolicy(c) \/ EditPolicy(c) \/ RetirePolicy(c)
        \/ CreateApprover(c) \/ UpdateApprover(c) \/ DeleteApprover(c)
        \/ ListConfiguration(c) \/ UpdateSettings(c)
    \/ MonthTurns
    \/ part = "expenses" /\ \E r \in DOMAIN rows.agents :
           AgentEvaluates(r) \/ AgentFails(r) \/ AgentWrites(r) \/ AgentLinks(r)

-----------------------------------------------------------------------------
Unsettled == {"draft", "submitted", "pending_approval"}

(* The log of a report fits its status. *)
LogFits(db, r) ==
    LET row == db.reports[r]
    IN  CASE row.status \in {"paid", "rejected"} -> db.log[r] = row.status
          [] row.status = "approved" /\ row.approver # NoText -> db.log[r] = "approved"
          [] row.status = "draft" -> db.log[r] \in {"created", "rejected"}
          [] row.status \in {"submitted", "pending_approval"} -> db.log[r] = "submitted"
          [] OTHER -> db.log[r] \in {"submitted", "paid"}

(* The tables with the columns of their rows, and ids that were given. *)
HasTables(db) ==
    /\ DOMAIN db = {"reports", "items", "policies", "approvers", "log", "settings", "agents", "auto",
                    "holder", "month", "made", "retired", "turned", "refused", "removed", "failed"}
    /\ db.made \in Nat
    /\ DOMAIN db.reports \cup DOMAIN db.items \cup DOMAIN db.policies
          \cup DOMAIN db.approvers \cup db.retired \subseteq 1..db.made
    /\ \A r \in DOMAIN db.reports : DOMAIN db.reports[r] = DOMAIN ReportRow(NoText, NoText, <<0, 0>>)
    /\ \A i \in DOMAIN db.items :
           DOMAIN db.items[i] = {"report", "category", "amount", "merchant", "weekend", "receipt"}
    /\ \A p \in DOMAIN db.policies : DOMAIN db.policies[p] = {"of", "active"}
    /\ \A a \in DOMAIN db.approvers : DOMAIN db.approvers[a] = {"dept", "user", "active"}

(* What a part starts from: of the numbers that all of
   them are of the month, without a gap. *)
NumbersStart(db) ==
    /\ HasTables(db)
    /\ db.holder = {} /\ ~db.refused /\ ~db.turned
    /\ \A r \in DOMAIN db.reports : db.reports[r].number \in {db.month} \X Nat
    /\ {db.reports[r].number[2] : r \in DOMAIN db.reports} = 1..Cardinality(DOMAIN db.reports)

(* Of the expenses that no agent is at work, and that totals and the log are
   those of the reports' statuses. *)
ExpensesStart(db) ==
    /\ HasTables(db) /\ DOMAIN db.reports \subseteq DOMAIN db.log
    /\ \A i \in DOMAIN db.items :
           db.items[i].report \in DOMAIN db.reports /\ db.items[i].amount \in Int
    /\ db.agents = <<>> /\ db.auto = {} /\ ~db.failed
    /\ \A r \in DOMAIN db.reports :
           /\ db.reports[r].status \in Unsettled \cup {"approved", "rejected", "paid"}
           /\ db.reports[r].status # "draft" => db.reports[r].total = SumExpenseItemsByReport(db, r)
           /\ db.reports[r].status \in Unsettled => db.reports[r].approver = NoText
           /\ LogFits(db, r)

(* Of the configuration that nothing has been taken out that is listed. *)
SettingsStart(db) ==
    /\ HasTables(db) /\ DOMAIN db.policies \cap DOMAIN db.approvers = {}
    /\ db.retired \cap (ListExpensePolicies(db) \cup ListExpenseApprovers(db)) = {}

ExpenseDeskInit ==
    /\ part \in ExpenseDeskParts
    /\ part = "numbers" => NumbersStart(rows)
    /\ part = "expenses" => ExpensesStart(rows)
    /\ part = "settings" => SettingsStart(rows)
    /\ RequestsInit

ExpenseDeskSpec == ExpenseDeskInit /\ [][ExpenseDeskNext]_requestVars

(* No report is refused for its number while the month stays, however many are
   created at once, and as long as none is deleted the numbers of the month
   have no gap (expense_report_service.go, 89: an advisory lock around the
   highest number plus one). *)
NumbersSound ==
    /\ rows.refused => rows.turned
    /\ (~rows.turned /\ ~rows.removed) =>
           {rows.reports[r].number[2] : r \in DOMAIN rows.reports}
               = 1..Cardinality(DOMAIN rows.reports)

(* The pairs of items that make two reports suspect. *)
Shared(db, r, s) ==
    {pair \in ItemsOf(db, r) \X ItemsOf(db, s) :
        LET item == db.items[pair[1]]
            other == db.items[pair[2]]
        IN  item.amount = other.amount /\ item.merchant = other.merchant /\ item.merchant # NoText}

(* Two reports of a submitter that share two expenses are not both approved by
   the agent, in whatever order they were submitted and looked at, if requests
   come one at a time and no ignored error hid a duplicate
   (expense_ai_service.go, 128 and 136: ten points each, and thirty are too
   many; a single shared expense is let through, and so is every one if the
   query fails). *)
DuplicatesFlagged ==
    (Alone /\ ~rows.failed) => \A r, s \in rows.auto \cap DOMAIN rows.reports :
        (r # s /\ rows.reports[r].by = rows.reports[s].by) => Cardinality(Shared(rows, r, s)) < 2

(* What is spent by category, summed over items, is what is spent by
   department, summed over reports, if requests come one at a time: nobody
   changes the items of what has been submitted (queries/expenses.sql, 275 and
   285), and the queue a user is shown holds what they may decide
   (queries/expenses.sql, 229 and expense_handler.go, 593). *)
BreakdownsAgree ==
    /\ Alone => LET categories == GetExpenseSpendByCategory(rows)
                    departments == GetExpenseSpendByDepartment(rows)
                IN  AddAll(categories, DOMAIN categories) = AddAll(departments, DOMAIN departments)
    /\ \A u \in Staff : \A r \in ListPendingApprovalsForUser(rows, u) : MayDecide(u, r)

(* Between requests that come one at a time, and if no log was lost, the log
   says how each report came to its status, unless the agent decided
   (expense_handler.go, 655, 719 and 829: the log is a statement of its own). *)
LogTells ==
    (Alone /\ ~rows.failed /\ \A c \in Callers : ~Open(c)) =>
        \A r \in DOMAIN rows.reports : LogFits(rows, r)

(* What was taken out of the configuration stays out of the lists, and no
   list counts what it does not show if requests come one at a time. *)
RetiredStays ==
    rows.retired \cap (ListExpensePolicies(rows) \cup ListExpenseApprovers(rows)) = {}

TotalsShown ==
    Alone => \A c \in Callers :
        (calls[c].op \in {"myReports", "queue", "finance"} /\ "total" \in DOMAIN calls[c]
         /\ rows.agents = <<>>) => calls[c].total = Cardinality(calls[c].listed)

ExpenseDeskSound ==
    /\ part = "numbers" => NumbersSound
    /\ part = "expenses" => DuplicatesFlagged /\ BreakdownsAgree /\ LogTells
    /\ part = "settings" => RetiredStays
    /\ part \in {"numbers", "expenses"} => TotalsShown
=============================================================================
