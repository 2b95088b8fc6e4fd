------------------------------ MODULE Records ------------------------------
(***************************************************************************)
(* The transactions of a company after they have been recorded: listed and *)
(* classified on the web (service/session_service.go, session_batch.go),   *)
(* edited, removed and summarized over chat (chat_service.go), corrected   *)
(* by replying to the bot (bot/correct.go), and counted on the dashboards. *)
(* Three ways of writing the same rows, none of which knows the others.    *)
(***************************************************************************)
EXTENDS Requests, Audit

CONSTANTS
    Edits,        \* what chat may ask to change: sets of fields with their values
    Overrides,    \* [vat, category] asked on the web, "" for what is left out
    RecordLimit   \* rows of a page, and of a list of vendors

(* The tables.  txns: id -> the row of module Audit, with its vat type, its
   category and whether it is matched; replies: the messages of the bot that may be replied to, each the
   transactions it announced; accounts: user -> Telegram accounts they linked.
   Remembered besides: `told`, the rows as they were last asked to be, of which
   none is removed; whether a statement whose error is ignored `failed`. *)

-----------------------------------------------------------------------------
(* Queries. *)
GetTransactionByID(db, t) == DOMAIN db.txns \cap {t}

(* Mutant: a description that is left out is emptied. *)
UpdateTransactionFieldsAll(db, t, change) ==
    [db EXCEPT !.txns[t] = change @@ [@ EXCEPT !.words = {}]]

UpdateTransactionFields(db, t, change) == [db EXCEPT !.txns[t] = change @@ @]

BulkUpdateTransactionClassification(db, t, vat, category) ==
    IF t \notin DOMAIN db.txns THEN db
    ELSE [db EXCEPT !.txns[t] = [@ EXCEPT !.vat = vat, !.category = category, !.conf = 100,
                                          !.by = "user_override"]]

DeleteTransactionByIDAndCompany(db, t) == [db EXCEPT !.txns = Without(@, {t})]

Page(listed, offset) == SubSeq(listed, offset + 1, Min({offset + RecordLimit, Len(listed)}))

HasCategory(db, category) == {t \in DOMAIN db.txns : category \in {"", db.txns[t].category}}

ListTransactionsBySessionFiltered(db, category, offset) ==
    Page(SetToSortSeq(HasCategory(db, category), <), offset)

CountTransactionsBySessionFiltered(db, category) == Cardinality(HasCategory(db, category))

(* The newest first, once for each account of the submitter. *)
ListCompanyTransactionsFiltered(db, category, offset) ==
    LET newest == SetToSortSeq(HasCategory(db, category), >)
        Repeated(k) == [a \in 1..Max({1, db.accounts[db.txns[newest[k]].from]}) |-> newest[k]]
    IN  Page(FlattenSeq([k \in DOMAIN newest |-> Repeated(k)]), offset)

CountCompanyTransactionsFiltered(db, category) == Cardinality(HasCategory(db, category))

CountUnmatchedTransactionsByCompany(db) ==
    Cardinality({t \in DOMAIN db.txns : ~db.txns[t].matched})

CountLowConfidenceTransactionsByCompany(db) ==
    Cardinality({t \in DOMAIN db.txns : db.txns[t].conf < 50})

InMonth(db) == {t \in DOMAIN db.txns : db.txns[t].day # NoDay /\ db.txns[t].day \in 1..30}

(* Count and total of each group, Of(t) naming the group of t. *)
Grouped(db, Of(_)) ==
    {LET group == {t \in InMonth(db) : Of(t) = key}
     IN  [key |-> key, count |-> Cardinality(group),
          total |-> MapThenSumSet(LAMBDA t : db.txns[t].amount, group)] :
        key \in {Of(t) : t \in InMonth(db)}}

GetSpendingSummaryByCategory(db) == Grouped(db, LAMBDA t : db.txns[t].category)

GetSpendingSummaryByMonth(db) == Grouped(db, LAMBDA t : "this month")

(* The largest totals first, up to the limit. *)
GetSpendingSummaryByVendor(db) ==
    LET all == Grouped(db, LAMBDA t : db.txns[t].words)
        larger(v, w) == w.total > v.total
    IN  CHOOSE top \in SUBSET all :
            /\ Cardinality(top) = Min({RecordLimit, Cardinality(all)})
            /\ \A v \in top, w \in all \ top : ~larger(v, w)

GetIncomeExpenseSummary(db) == Grouped(db, LAMBDA t : db.txns[t].source \in {"sales_record", "sales"})

SearchTransactionsByCompany(db, word) ==
    {t \in DOMAIN db.txns : word \in db.txns[t].words}

(* The latest, a day that is missing counting as the day of the entry. *)
GetRecentTransactionsByCompany(db) ==
    LET Later(s, t) == db.txns[s].day # NoDay /\ db.txns[t].day # NoDay
                          /\ db.txns[s].day > db.txns[t].day
    IN  {S \in SUBSET DOMAIN db.txns :
            /\ Cardinality(S) = Min({RecordLimit, Cardinality(DOMAIN db.txns)})
            /\ \A t \in S, s \in DOMAIN db.txns \ S : ~Later(s, t)}

-----------------------------------------------------------------------------
(* What the handlers make of the outcomes of the services, and the tools. *)
ListTransactionsResponses == [Done |-> 200]
ListCompanyResponses == [Done |-> 200]
PatchResponses == [Done |-> 200, NotFound |-> 404]
BulkResponses == [Done |-> 200]
DashboardResponses == [Done |-> 200]
StatsResponses == [Done |-> 200]
ToolAnswers == [Success |-> 1, Error |-> 0]

(* What the web shows of a classification that needs to be looked at: after
   the page has been read, so that the total does not know of it. *)
NeedsReview(row) == row.by # "user_override" /\ row.conf < 70

-----------------------------------------------------------------------------
(* The lists: a page, then how many there are. *)
ListTransactions(c) ==
    /\ Free({"records"}, c)
    /\ \E category \in {"", "goods"}, offset \in {0, RecordLimit}, review \in BOOLEAN :
           LET page == ListTransactionsBySessionFiltered(rows, category, offset)
           IN  /\ Reads
               /\ Begin(c, [op |-> "txns", at |-> "count", category |-> category,
                            offset |-> offset, review |-> review,
                            page |-> IF review
                                     THEN SelectSeq(page, LAMBDA t : NeedsReview(rows.txns[t]))
                                     ELSE page])

ListTransactionsCounts(c) ==
    /\ At(c, "txns", "count") /\ Reads
    /\ Continue(c, [calls[c] EXCEPT !.at = "answered"] @@
           [total |-> CountTransactionsBySessionFiltered(rows, calls[c].category)])

ListCompanyTransactions(c) ==
    /\ Free({"records"}, c)
    /\ \E category \in {"", "goods"}, offset \in {0, RecordLimit} :
           /\ Reads
           /\ Begin(c, [op |-> "company_txns", at |-> "count", category |-> category,
                        offset |-> offset, review |-> FALSE,
                        page |-> ListCompanyTransactionsFiltered(rows, category, offset)])

ListCompanyCounts(c) ==
    /\ At(c, "company_txns", "count") /\ Reads
    /\ Continue(c, [calls[c] EXCEPT !.at = "answered"] @@
           [total |-> CountCompanyTransactionsFiltered(rows, calls[c].category)])

(* The dashboard: four statements, in this order. *)
Breakdowns == <<"category", "vendor", "month", "income">>

Breakdown(step) ==
    CASE step = "category" -> GetSpendingSummaryByCategory(rows)
      [] step = "vendor" -> GetSpendingSummaryByVendor(rows)
      [] step = "month" -> GetSpendingSummaryByMonth(rows)
      [] OTHER -> GetIncomeExpenseSummary(rows)

GetDashboard(c) ==
    /\ Free({"records"}, c) /\ Reads
    /\ Begin(c, [op |-> "spending", at |-> Breakdowns[2], shown |-> <<Breakdown(Breakdowns[1])>>])

DashboardReads(c) ==
    LET call == calls[c]
        shown == Append(call.shown, Breakdown(call.at))
    IN  /\ call.op = "spending" /\ call.at \in ToSet(Breakdowns) /\ Reads
        /\ Continue(c, [call EXCEPT !.shown = shown,
               !.at = IF Len(shown) = Len(Breakdowns) THEN "answered"
                      ELSE Breakdowns[Len(shown) + 1]])

(* The start page: two of its counts, of which a failure shows as zero. *)
DashboardStats(c) ==
    /\ Free({"records"}, c) /\ Reads
    /\ \E unmatched \in {0, CountUnmatchedTransactionsByCompany(rows)} :
           Begin(c, [op |-> "start_page", at |-> "low", unmatched |-> unmatched])

DashboardLow(c) ==
    /\ At(c, "start_page", "low") /\ Reads
    /\ \E low \in {0, CountLowConfidenceTransactionsByCompany(rows)} :
           Continue(c, [op |-> "start_page", at |-> "answered", unmatched |-> calls[c].unmatched,
                        low |-> low, status |-> StatsResponses.Done])

SearchTransactions(c) ==
    /\ Free({"records"}, c)
    /\ \E t \in DOMAIN rows.txns : \E word \in rows.txns[t].words :
           /\ Reads
           /\ Begin(c, [op |-> "chat_search", at |-> "answered", status |-> ToolAnswers.Success,
                        listed |-> SearchTransactionsByCompany(rows, word)])

ListRecentTransactions(c) ==
    /\ Free({"records"}, c)
    /\ \E listed \in GetRecentTransactionsByCompany(rows) :
           /\ Reads
           /\ Begin(c, [op |-> "chat_recent", at |-> "answered", status |-> ToolAnswers.Success,
                        listed |-> listed])

GetSpendingSummary(c) ==
    /\ Free({"records"}, c)
    /\ Reads
    /\ LET Shown(breakdown) == [op |-> "chat_summary", at |-> "answered", shown |-> breakdown,
                                status |-> ToolAnswers.Success]
       IN  \/ Begin(c, Shown(GetSpendingSummaryByCategory(rows)))
           \/ Begin(c, Shown(GetSpendingSummaryByMonth(rows)))

(* The three scans of the audit, over one list. *)
RunAudit(c) ==
    /\ Free({"records"}, c)
    /\ LET listed == ListTransactionsWithSubmitter(rows.txns, rows.accounts)
       IN  /\ Reads
           /\ Begin(c, [op |-> "audit", at |-> "answered", status |-> ToolAnswers.Success,
                        groups |-> FindDuplicateGroups(rows.txns, listed),
                        missing |-> ScanMissingReceipts(rows.txns, listed, 200),
                        issues |-> ScanClassificationIssues(rows.txns, listed)])

-----------------------------------------------------------------------------
(* Writing. *)
Told(db, t, change) == [db EXCEPT !.told[t] = change @@ @]

(* What an override asks for. *)
Asked(o) == [f \in {g \in {"vat", "category"} : o[g] # ""} |-> o[f]]

(* A row's classification is written whole, so what is not asked for is
   written back as it was read. *)
Rewritten(db, t, o) ==
    [id |-> t, asked |-> Asked(o),
     vat |-> IF o.vat = "" THEN db.txns[t].vat ELSE o.vat,
     category |-> IF o.category = "" THEN db.txns[t].category ELSE o.category]

Overridden(call) ==
    Told(BulkUpdateTransactionClassification(rows, call.item.id, call.item.vat,
                                             call.item.category), call.item.id, call.item.asked)

(* An override on the web, or by the agent's tool: read, write, read again. *)
PatchTransaction(c) ==
    /\ Free({"records"}, c)
    /\ \E t \in DOMAIN rows.told, o \in Overrides :
           /\ Reads
           /\ IF GetTransactionByID(rows, t) = {}
              THEN AnswerAtOnce(c, "reclassify", PatchResponses.NotFound)
              ELSE Begin(c, [op |-> "reclassify", at |-> "write", item |-> Rewritten(rows, t, o)])

PatchWrites(c) ==
    /\ At(c, "reclassify", "write")
    /\ \/ Store(Overridden(calls[c]))
       \/ Store([rows EXCEPT !.failed = TRUE])
    /\ Continue(c, [calls[c] EXCEPT !.at = "reread"])

PatchAnswers(c) ==
    LET item == calls[c].item
    IN  /\ At(c, "reclassify", "reread") /\ Reads
        /\ IF GetTransactionByID(rows, item.id) = {}
           THEN Answer(c, PatchResponses.NotFound)
           ELSE Continue(c, [op |-> "reclassify", at |-> "answered", status |-> PatchResponses.Done,
                             asked |-> item.asked, shown |-> rows.txns[item.id]])

(* Many items, one after the other; an item that fails is counted. *)
BulkUpdateTransactions(c) ==
    /\ Free({"records"}, c)
    /\ \E o \in Overrides :
           /\ Reads
           /\ Begin(c, [op |-> "overrides", at |-> "read", o |-> o, todo |-> DOMAIN rows.told,
                        updated |-> 0, failed |-> 0])

BulkReads(c) ==
    LET call == calls[c]
        t == Min(call.todo)
        rest == [call EXCEPT !.todo = @ \ {t}]
    IN  /\ At(c, "overrides", "read") /\ call.todo # {} /\ Reads
        /\ IF GetTransactionByID(rows, t) = {}
           THEN Continue(c, [rest EXCEPT !.failed = @ + 1])
           ELSE Continue(c, [rest EXCEPT !.at = "write"] @@ [item |-> Rewritten(rows, t, call.o)])

BulkWrites(c) ==
    LET Next(field) == [f \in DOMAIN calls[c] \ {"item"} |->
            IF f = field THEN calls[c][f] + 1 ELSE IF f = "at" THEN "read" ELSE calls[c][f]]
    IN  /\ At(c, "overrides", "write")
        /\ \/ Store(Overridden(calls[c])) /\ Continue(c, Next("updated"))
           \/ Store([rows EXCEPT !.failed = TRUE]) /\ Continue(c, Next("failed"))

BulkAnswers(c) ==
    /\ At(c, "overrides", "read") /\ calls[c].todo = {} /\ Reads
    /\ Continue(c, [op |-> "overrides", at |-> "answered", status |-> BulkResponses.Done,
                    updated |-> calls[c].updated, failed |-> calls[c].failed])

(* Chat changes the fields it is asked to, in the statement. *)
EditTransaction(c) ==
    /\ Free({"records"}, c)
    /\ \E t \in DOMAIN rows.told, change \in Edits :
           /\ Reads
           /\ IF GetTransactionByID(rows, t) = {}
              THEN AnswerAtOnce(c, "chat_edit", ToolAnswers.Error)
              ELSE Begin(c, [op |-> "chat_edit", at |-> "write", id |-> t, change |-> change])

EditWrites(c) ==
    LET call == calls[c]
        found == GetTransactionByID(rows, call.id) # {}
    IN  /\ At(c, "chat_edit", "write")
        /\ \/ /\ found
              /\ Store(Told(UpdateTransactionFields(rows, call.id, call.change),
                            call.id, call.change))
              /\ Answer(c, ToolAnswers.Success)
           \/ Reads /\ Answer(c, ToolAnswers.Error)

RemoveTransaction(c) ==
    /\ Free({"records"}, c)
    /\ \E t \in DOMAIN rows.told :
           /\ Reads
           /\ IF GetTransactionByID(rows, t) = {}
              THEN AnswerAtOnce(c, "chat_remove", ToolAnswers.Error)
              ELSE Begin(c, [op |-> "chat_remove", at |-> "write", id |-> t])

RemoveWrites(c) ==
    /\ At(c, "chat_remove", "write")
    /\ \/ /\ Store(DeleteTransactionByIDAndCompany(rows, calls[c].id))
          /\ Answer(c, ToolAnswers.Success)
       \/ Reads /\ Answer(c, ToolAnswers.Error)

(* A reply to a message of the bot: the message can be replied to once, which
   the reply uses up before it is read. *)
TakeReply(db, reply) == [db EXCEPT !.replies = @ \ {reply}]

CorrectByReply(c) ==
    /\ Free({"records"}, c)
    /\ \E reply \in rows.replies :
           /\ Store(TakeReply(rows, reply))
           /\ \/ AnswerAtOnce(c, "reply", ToolAnswers.Error)
              \/ \E change \in Edits :
                    Begin(c, [op |-> "reply", at |-> "write", todo |-> reply, change |-> change,
                              of |-> reply, updated |-> {}])

(* One statement for each transaction of the message, failures skipped. *)
CorrectWrites(c) ==
    LET call == calls[c]
        t == Min(call.todo)
        rest == [call EXCEPT !.todo = @ \ {t}]
    IN  /\ At(c, "reply", "write") /\ call.todo # {}
        /\ \/ /\ GetTransactionByID(rows, t) # {}
              /\ Store(Told(UpdateTransactionFields(rows, t, call.change), t, call.change))
              /\ Continue(c, [rest EXCEPT !.updated = @ \cup {t}])
           \/ Reads /\ Continue(c, rest)

CorrectAnswers(c) ==
    /\ At(c, "reply", "write") /\ calls[c].todo = {} /\ Reads
    /\ Continue(c, [op |-> "reply", at |-> "answered", of |-> calls[c].of,
                    status |-> IF calls[c].updated = {} THEN ToolAnswers.Error
                               ELSE ToolAnswers.Success])

RecordsNext ==
    \E c \in Serving({"records"}) :
        \/ ListTransactions(c) \/ ListTransactionsCounts(c)
        \/ ListCompanyTransactions(c) \/ ListCompanyCounts(c)
        \/ GetDashboard(c) \/ DashboardReads(c) \/ DashboardStats(c) \/ DashboardLow(c)
        \/ SearchTransactions(c) \/ ListRecentTransactions(c) \/ GetSpendingSummary(c)
        \/ RunAudit(c)
        \/ PatchTransaction(c) \/ PatchWrites(c) \/ PatchAnswers(c)
        \/ BulkUpdateTransactions(c) \/ BulkReads(c) \/ BulkWrites(c) \/ BulkAnswers(c)
        \/ EditTransaction(c) \/ EditWrites(c) \/ RemoveTransaction(c) \/ RemoveWrites(c)
        \/ CorrectByReply(c) \/ CorrectWrites(c) \/ CorrectAnswers(c)

-----------------------------------------------------------------------------
(* However the three ways of writing interleave, a row's day, amount and
   description are what was last asked of them; alone, so is its
   classification, which the web writes back whole (session_service.go, 862-904
   and session_batch.go, 48-87, against chat_service.go, 1085-1127). *)
FieldsAsTold ==
    \A t \in DOMAIN rows.txns :
        /\ \A f \in {"day", "amount", "words"} : rows.txns[t][f] = rows.told[t][f]
        /\ (Alone /\ ~rows.failed) =>
               \A f \in {"vat", "category"} : rows.txns[t][f] = rows.told[t][f]

(* Three lists ask for a second look, below thresholds of their own (0.70,
   0.60 and 0.50).  What a user has decided is in none of them, and the start
   page counts no more than the page that needs review shows
   (session_service.go, 724-731; audit_tools.go, 131-135; transactions.sql, 80). *)
DecidedNotAskedAgain ==
    LET decided == {t \in DOMAIN rows.txns : rows.txns[t].by = "user_override"}
        review == {t \in DOMAIN rows.txns : NeedsReview(rows.txns[t])}
    IN  /\ \A t \in decided : rows.txns[t].conf >= 70
        /\ Alone =>
             /\ \A c \in Waiting("audit", "answered") : calls[c].issues \cap decided = {}
             /\ \A c \in Waiting("start_page", "answered") : calls[c].low <= Cardinality(review)

(* Alone, a page of either list is as long as its total and its offset say,
   the company's unless a row is by somebody with two accounts; and the
   breakdowns of the dashboard are of the same rows, the vendors' if all of
   them were shown. *)
ListsAgree ==
    LET Expected(call) == Max({0, Min({RecordLimit, call.total - call.offset})})
        OnceEach(call) == \A t \in HasCategory(rows, call.category) :
                              rows.accounts[rows.txns[t].from] <= 1
        Sums(groups) == <<MapThenSumSet(LAMBDA g : g.count, groups),
                          MapThenSumSet(LAMBDA g : g.total, groups)>>
    IN  Alone =>
          /\ \A c \in Waiting("txns", "answered") :
                IF calls[c].review THEN Len(calls[c].page) <= Expected(calls[c])
                ELSE Len(calls[c].page) = Expected(calls[c])
          /\ \A c \in Waiting("company_txns", "answered") :
                OnceEach(calls[c]) => Len(calls[c].page) = Expected(calls[c])
          /\ \A c \in Waiting("spending", "answered") :
                \A i, j \in DOMAIN Breakdowns :
                    (Cardinality(calls[c].shown[2]) < RecordLimit \/ 2 \notin {i, j}) =>
                        Sums(calls[c].shown[i]) = Sums(calls[c].shown[j])

(* A message of the bot corrects what it announced at most once, whoever
   replies (bot/chat.go, 38); and alone, an override is answered with what was
   asked, and a batch of them counts the rows that are there. *)
WritesAnswered ==
    /\ \A c, d \in Callers :
          calls[c].op = "reply" /\ calls[d].op = "reply"
              /\ {"of"} \subseteq DOMAIN calls[c] \cap DOMAIN calls[d]
                 => c = d \/ calls[c].of # calls[d].of
    /\ (Alone /\ ~rows.failed) =>
          /\ \A c \in Waiting("reclassify", "answered") : "asked" \in DOMAIN calls[c] =>
                \A f \in DOMAIN calls[c].asked : calls[c].shown[f] = calls[c].asked[f]
          /\ \A c \in Waiting("overrides", "answered") :
                calls[c].updated = Cardinality(DOMAIN rows.txns)

RecordsSound ==
    part = "records" => FieldsAsTold /\ DecidedNotAskedAgain /\ ListsAgree /\ WritesAnswered
=============================================================================
