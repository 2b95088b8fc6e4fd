# Verification of the bookkeeping core of aistarlight-go

`src/` is a multi-tenant bookkeeping and tax service written in Go over
PostgreSQL (sqlc, pgx), Redis (asynq) and a language model, with an HTTP API
(`cmd/api`), a worker (`cmd/worker`) and a Telegram bot (`cmd/bot`).  This
directory holds TLA+ models of its core, TLC configurations that check them on
small instances, and theorems about them checked by TLAPS.

The models follow the code: an action is one database statement, or one
transaction when the code opens one, with everything a handler remembers
between two statements in a local record that may be stale by the next.  Line
numbers of every definition are in `PROJECT.json` under `map`.

## 1. Inventory

Paths are under `src/internal` unless they start otherwise.  "State" is what is
kept in the database unless said otherwise.

| component | state | operations | interacts with |
|---|---|---|---|
| General ledger: `service/journal_service.go`, `service/accounting_period_service.go`, `src/queries/journal_entries.sql`, `src/queries/accounting_periods.sql` | journal entries with lines and status, periods with status | Create, Post, Reverse; period Create, Close, Reopen; balance queries | event bus (Post publishes), every component that books |
| Expense management: `service/expense_*_service.go`, `handler/expense_handler.go`, `src/queries/expenses.sql` | reports, items, policies, approvers, audit log; one goroutine per submission | items, Submit, review by the agent, Approve, Reject, RevertToDraft, MarkPaid | ledger (accrual and payment entries) |
| Agent action plans: `agent/action_plan.go`, `agent/tool_executor.go`, ticker in `src/cmd/api/main.go` | plans with status; row locks and the connection pool | Create, Confirm, Cancel, TimeoutExpired | every tool of the agent |
| Year-end close: `service/year_end_close_service.go` | none of its own | Close: up to three create-and-post pairs | ledger, balance queries |
| HR integration: `service/hr_inbox_processor.go`, `service/hr_integration_service.go`, `handler/webhook_handler.go` | event inbox, payees | receive, poll, book and reverse payroll runs | ledger; polled by api and worker |
| Tax reports: `service/report_service.go`, `report_amendment.go`, `report_approval.go`, `domain/workflow.go` | reports with status and version | create, recalculate, override, status changes, amend, delete | compliance scores |
| Receipts and the bot: `bot/confirm.go`, `bot/approval.go`, `service/approval_service.go`, `receipt_bridge.go` | batches, approvals, transactions; timers and maps in memory | OCR, confirm, edit, cancel, time out, approve | sessions, approvals |
| CAS numbering: `service/cas_service.go` | company sequences, hash chains of entries and audit records | stamp, log, check | ledger |
| Event bus and worker: `event/`, `worker/` | asynq queues in Redis | at-least-once tasks | ledger, tax bridge, reconciliation |
| Bank reconciliation and sessions: `service/bank_recon_service.go`, `reconciliation_engine.go`, `match_scorer.go`, `session_service.go` | batches with JSON lists, transactions | match, suggest, accept, classify | worker's auto-journals |
| Tax engines, rules, calendars: `service/*tax_engine.go`, `compliance_*.go`, `filing_calendar.go`, `ewt_rates.go` | none | formulas | tax reports |
| Accounts: `service/auth_service.go`, `org_service.go`, `company_service.go`, `bot/link.go` | users, organizations, companies, members, revoked tokens, Telegram links | register, invite, log in, refresh, link, limits | every request passes its middleware |
| Invoices and withholding: `service/invoice_service.go`, `vendor_service.go`, `withholding_service.go` | invoices with items, vendors, certificates | number, create, list, classify payments | learned rules |
| Learning: `service/correction_*.go`, `vendor_memory_service.go`, `tag_service.go`, `memory_service.go`, `knowledge_service.go`, `classifier_service.go` | corrections, rules, policies, tags, preferences, chunks | record, analyze, promote, retrieve, classify | sessions, chat |
| Chat and agents: `service/chat_service.go`, `agent/runtime.go`, `bot/chat.go` | messages, threads, action logs | converse, call tools, record expenses | plans, sessions, records |
| Transactions: `service/session_batch.go`, `session_service.go`, `bot/correct.go`, `bot/audit.go` | transactions | list, edit by PATCH, chat or reply, remove, audit | sessions |
| Statements and sheets: `service/bank_parser.go`, `data_processor.go`, `column_mapper.go` | none | find headers, map columns, import rows | sessions |
| QuickBooks, documents, exports, mail | tables of their own | I/O | |

What is hard in this code: almost every operation reads a row, checks its
status in Go and writes in a later statement, often without repeating the
status in the `WHERE`; guarded updates are sqlc `:exec` statements, so an update
of no row is not an error; goroutines, tickers and two pollers run beside the
requests; work outside a transaction (tools, bookings, events) is recorded
after it happened; errors of side effects are swallowed on purpose.  The
hazards, each at its line, are in `PROJECT.json`.

What makes each component correct:

- *Ledger*: entries balance, nothing in the books is rewritten, an entry is
  reversed once and linked to its reversal, closed periods hold no unfinished
  work, reports sum posted entries.
- *Expenses*: nobody decides about their own report, the amount approved is the
  sum of frozen items, one accrual and one payment, only the documented status
  changes, every submission is reviewed.
- *Action plans*: a tool runs once and only after confirmation, its outcome
  stays, one pending plan per thread, no connection is lost.
- *HR inbox*: every event has its effect once, in any order of arrival.
- *Tax reports*: no lost update, valid transitions, a gap-free chain of amendments.
- *Receipts*: one transaction per receipt, of the amount that was evaluated.
- *Reconciliation*: nothing is matched or booked twice, a completed session has
  its result, a user's decisions survive what runs beside them.
- *Accounts*: whoever is told to be a member is one, limits hold, what is
  revoked yields nothing.
- *Purchasing, learning, records*: figures, lists and counts agree with the
  rows; what was learned rests on what was corrected; an edit changes what was
  asked for, by whichever way it comes.
- *Conversations*: turns are stored in order, and what was recorded is told.
- *Statements and sheets*: a row is imported once, as what it says, whatever
  surrounds it.
- *CAS*: gap-free numbers and one chain.

## 2. Modules

| module | models |
|---|---|
| `Ledger`, `LedgerReports` | journal entries, periods and the requests on them; the balance queries over the same tables |
| `YearEndClose` | the year-end close as a client of `Ledger` |
| `ExpenseReport` | one expense report: service, agent, bookings, handlers |
| `ExpenseLifecycle` | the abstract promise: the status machine and the money it moves |
| `ActionPlan` | the action plans of one thread, row locks and the pool |
| `HRInbox` | webhook, inbox, pollers, payroll bookings, tax drafts and payees |
| `TaxReport` | versions, workflow, compliance gate and amendments of tax reports |
| `ReceiptFlow` | receipt batches from the picture to the journal entry |
| `ReconSession` | a reconciliation session, bank runs and the worker's journals |
| `Requests` | the frame of the next seven: goroutines that serve requests statement by statement |
| `Identity` | users, organizations, companies, tokens, Telegram accounts |
| `Purchasing` | invoices, vendors, withholding certificates and classifications |
| `Learning` | corrections, rules, vendor policies, tags, preferences, knowledge, classifier |
| `SessionDesk` | anomalies of a session, batches of bank reconciliations |
| `ExpenseDesk` | numbers, queues, analytics, audit log and settings of expense management |
| `Records` | the transactions of a company as web, chat and bot list and edit them |
| `Conversations` | chat and agent threads, and what they record on the way |
| `MatchEngine`, `Anomalies`, `Audit` | the algorithms over transactions: matching, anomaly detection, the monthly audit |
| `BankParser`, `SheetReader`, `SheetImport` | what is read of statements, sheets and workbooks, and what becomes of a row |
| `TaxEngine` | progressive schedules, corporate forms, the VAT return and the session's summary |
| `ExpenseRefinement` | `ExpenseReport` read as an `ExpenseLifecycle`: the refinement mapping |
| `BooksProofs` (the ledger, the year-end close, `ExpenseDesk`), `SpendingProofs` (expense reports with the refinement, `Purchasing`, `Learning`), `TaxReportProofs`, `HRInboxProofs`, `ReconSessionProofs`, `ReceiptFlowProofs`, `BackOfficeProofs` (action plans, `Identity`, `Conversations`, `SessionDesk`) | theorems |
| `CommonTheorems` | lemmas the proofs share: sums over finite sets, the steps of a request on `Requests` |
| `MC...` | instances for TLC; `MCBackOffice` composes the modules on `Requests` with the calculators |

In every module but the calculators an action is one statement, or one
transaction, of one handler; a mapped operator that stands for a query bears
its sqlc name.  The frames differ in one thing only: the modules of the first
half name each request's state, and those on `Requests` keep the request of
goroutine `c` in `calls[c]`, a record with the operation, the step it is at and
what it has read.

### Ledger and YearEndClose

`entry` is the table `journal_entries` with its lines, `period` the statuses of
`accounting_periods`, `req` what each request in progress knows, `announced` how
often `journal.posted` was enqueued for an entry.

| actions | code |
|---|---|
| `CreateFind`, `CreateCommit` | `JournalService.Create`: validation and period lookup; the transaction |
| `PostRead`, `PostPeriod`, `PostWrite`, `PostPublish` | `JournalService.Post`, statement by statement, and the event |
| `ReverseRead`, `ReverseCommit` | `JournalService.Reverse`: the checks; the transaction |
| `CloseRead`, `CloseCount`, `CloseWrite` | `AccountingPeriodService.Close` |
| `CreatePeriod`, `Reopen` | their services; `GenerateMonthly` repeats the first |
| `Abandon` | any error return, a rollback, a client that is gone, a process that dies |
| `CloseBegin`, `CloseStep`, `CloseEnd` | `YearEndCloseService.Close`: the read of the balances; its calls of Create and Post; its return |

Lines are one signed amount per account, debit positive; two lines on one
account are their sum.  Amounts are integers in `Scale` units per cent and are
rounded when stored (`ToCents`), as `NUMERIC(15,2)` does.  A lookup of a period
that fails is treated as "no period" by Create and skips the check of Post;
`LookupFails` lets it.  The status "locked" of periods is never written by the
code and is left out, as are entry numbers, references and users.  A refused
request takes no step and ends with `Abandon`.  The calls of a close take a
request of `Requests` while they last (`slot`), and every other request steps at
any time, so others' calls come between two of them and into them; `storable` says whether
the table would take the entry's negative amounts.

### ExpenseReport, ExpenseLifecycle and ExpenseDesk

`report` is the row, `items` the amounts of the item rows, `journal` the entries
booked for the report, `req` the handlers, `agent[k]` the goroutine of the k-th
submission, `lock` the holder of Submit's `FOR UPDATE`.

| actions | code |
|---|---|
| `AddRead`, `AddCount`, `AddWrite`; `ItemRead`, `UpdateItem`, `DeleteItem` | item operations of the service |
| `SubmitLock`, `SubmitCommit` | `Submit`: lock and checks; total, update, commit, start of the agent |
| `AgentLoad`, `AgentReview`, `AgentAccrue`, `AgentLink` | `EvaluateReport`: load and score; step 6; step 7 booking; step 7 link |
| `ApproveRead`, `ApproveAccrue`, `ApproveWrite`; `RejectRead`, `RejectWrite` | the approval handlers |
| `PayRead`, `PayJournal`, `PayWrite` | `MarkPaid` |
| `DeleteDraft`, `RevertToDraft` | single guarded statements |
| `Refused`, `Abandon`, `Crash` | refusals; failures; death of the process |

The agent's score is a choice: with a policy for every item it may approve or
ask a human, without one it asks a human.  The agent's two reads are one step,
and ApproveReport's item list, its second read of the report and the booking
are one step.  `ExpenseDesk` takes the other view: several reports and
submitters, their numbers under the advisory lock, duplicates, queues,
breakdowns and audit log, with the score computed; there the bookings are left
out.

### ActionPlan

`plan` is the committed status, `ran` how often a plan's tool took effect,
`lock` the row lock, `free` the connections left in the pool, `req` the
requests.  Confirm is `ConfirmBegin`, then `ConfirmLock`, `ConfirmAgain` or
`ConfirmRefused`, then `ToolSucceeds` or `ToolFails`, then `ConfirmCommit`;
Create is `CreateCount`, `CreateInsert`; Cancel is `CancelRead`, `CancelWrite`;
`Timeout` is the ticker.  `Abandon` is a request that dies, whose transaction is
rolled back; `Restart` the process.  A refused Confirm returns an error its
deferred rollback does not see, so its transaction stays open (`Nobody`).  The
status "confirmed" is written and overwritten inside one transaction and nobody
sees it.  A tool takes effect wholly or not at all.  A statement outside a
transaction borrows a connection only for the step; one that waits for a row
lock is counted as holding none.

### HRInbox

`inbox` holds the status of each event and `arrived` their order; `journal` the
entries booked, `taxed` how often a run is counted in each tax draft, `payee`
the payees, `proc` the pollers.  `Receive`, `ReceiveUnanswered` and `Replay` are
the webhook, whose answer may be lost and which the HR system then calls again;
`Poll` takes a batch, and the steps of `PollerStep` handle its events one after
the other: book, draft by draft for a Philippine run, mark processed or failed;
a draft whose read fails is written as if there was none, and an error of the
write is only logged; `Fails` and `Crash` are
statements that fail and processes that die.

### TaxReport

`row` is the table, `req` the requests.  Every operation is a read and one or
more later writes: `RecalculateRead/Write`, `OverrideRead/Write`,
`StatusRead`, `Gate`, `StatusWrite` (the gate scores the row and stores the
score), `TouchRead/Write` (whatever else rewrites the row), `DeleteRead/Write`,
`ArchiveDuplicates`, `AmendRead/Max/Insert`.  A write whose version is gone
matches no row and goes on.

### ReceiptFlow

`batch`, `approvals`, `txns` and `entries` are tables, `timer` the goroutines
that cancel a batch after five minutes.  A batch is one picture with
`Receipts[b]` receipts, several if it is a screenshot of trips.  `Upload`,
`Recognise` and `Ask` lead to a pending batch; `Confirm`, `Evaluate`,
`RequestApproval`, `FlagBatch` and `Complete` to a completed one; `Convert`,
`Record` (once for each receipt) and `LinkBatch` to its transactions; `Generate`,
`Book`, `LinkEntry` and `PostEntry` are the journal generator, for one transaction
after the other, and `Skip` its error, after which the next has its turn.  What
is evaluated is the amount of the first receipt.  `EditRead/Write` and
`CancelRead/Write` the other buttons; `Decide`, `DecideBatch` the approvals;
`ApiConvert` and `ApiGenerate` what the API reaches by itself (a picture uploaded
there gets a batch of its own, which no step of the bot meets; it is left out); `Restart` the
bot's start, which loses the timers.

### ReconSession

`session` is the row, `rows` its transactions, `events` the tasks in the queue,
`job` the workers, `booked` the entries per transaction.  Each handler is a
sequence of steps after its read (`AddFile` .. `Import`, `WriteFiles`,
`ListRows`; `Classify` .. `MarkClassifying`, `ClassifyRow`, `WriteReviewing`;
`Reconcile` .. `WriteMatch`, `WriteCompleted`; `RunReconciliation` .. `Publish`;
`Delete` .. `DeleteRow`), each write putting back the whole row as it was read.
A task is delivered (`Deliver`), lists what is matched and unlinked
(`ListMatched`), books (`CreateEntry`) and links (`LinkEntry`); a worker that
dies leaves it to be delivered again.

### The modules on Requests

| module | tables in `rows` | actions |
|---|---|---|
| `Identity` | users, orgs, companies, members, links, pairs, revoked ids | one group per operation of the auth, org and company services and of the bot's linking; `IdentityFails` for a statement that fails |
| `Purchasing` | invoices with items, vendors, certificates | invoice creation item by item, lists with their counts, vendor edits, SAWT, batch classification |
| `Learning` | corrections, rules, policies, tags, preferences, chunks | recording and analysis of corrections, promotion, rules of overrides, tags set one by one, retrieval with fallbacks |
| `SessionDesk` | rows, anomalies, batches | detection (delete, then insert one by one), resolution, bank runs, decisions about suggestions |
| `ExpenseDesk` | reports, items, policies, approvers, log | see above; `MonthTurns` and the agents of submitted reports |
| `Records` | transactions, replies | PATCH, bulk edits, chat edits and removals, corrections by reply, lists, dashboard, audit |
| `Conversations` | messages, threads, sessions, expenses, logs, plans | a chat or agent request from the first to the last statement, with calls of the model that may fail |

Tables whose rows may go are functions from ids that are never used again.  A
request that was refused, or got its answer, stays in `calls[c]` as `answered`
until the goroutine begins the next, so that a property can compare what was
answered with the tables.  The parts share no rows; `part` picks one at the
start.  Where the code goes on after an error, the step has both outcomes: a
count that failed is none (`counted`), a lookup finds nothing (`Found`,
`Overlooked`), and a class, a list or a score does without what it could not
read.  `failed`, `unsure` and `blind` remember that such an error hid something,
for the clauses that are only promised without.

### Calculators

Pure functions are operators, and `MCBackOffice` has a job per kind of bounded
input (`part = "calculator"`): one step computes the answer, along two paths
where the code has two.  Where Go ranges over a map the operator returns the set
of results that any order gives.  Scores of header rows are compared as exact
fractions, where the code adds floats: ties are the same, as the summands are
multiples of the same quarters and fifths.

## 3. Runs

| run | instance | shows |
|---|---|---|
| `ledger_concurrent` | 2 requests, 4 entries, 1 period, tenths of a cent, lookups may fail | `ReversalLinked`, `BooksFrozen`; `BooksSound`: types, and entries with two sides stay balanced when rounded; `RequestsBounded`: reversals and announcements are bounded by the requests |
| `year_end` | a close beside one request at a time, 4 entries | `CloseSound`: what was read is closed, Income Summary is emptied; `NoDraftInClosedPeriod` |
| `expense_concurrent` | 2 handlers over 3 items with limit 2, or 1 handler over 2 items of any amount; faults, crashes | `SegregationOfDuties`; `RequestsSound`: links and the item limit; `DecidedOnItemsAlone`: one at a time, what is approved is what the items add up to, under a policy or by a human |
| `expense_orderly` | 1 handler beside the agent, no automatic approval, no faults, fair | `WorkflowSound`: types, and one accrual and one payment of the total; `ImplementsLifecycle`, `ReviewedEventually` |
| `plan_concurrent` | 3 requests, 4 plans, 3 connections; or 2 requests, 3 plans and faults | `RunAtMostOnce`, `OutcomesStay`; `PlansSound`: pending plans bounded by the requests, connections accounted for |
| `hr_inbox` | 4 scenarios of up to three events, runs at home or abroad, 1 or 2 pollers, batches of 2, 1 fault, fair | `ProcessedHasEffect`, `ExactlyOnce`, `EveryEventProcessed`; `InboxSound`: bookings bounded by the pollers and what each fault sends back to them, drafts by bookings, payees as the last event says |
| `tax_reports` | 1 request with 4 reports, or 2 with 2; 4 versions; 1 or 2 faults | `ApprovalNeedsFault`, `ApprovedIsFrozen`; `ReportsSound`: approved figures passed the gate, originals come from the engine, chains of amendments are flat and numbered |
| `receipts` | 1 or 2 updates of the bot and the API, 1 or 2 batches of 1 or 2 receipts, 0 or 1 fault, fair | `FirstNotLarge`: the first receipt of a batch is not recorded above the limit; `PendingEnds`; `ReceiptsSound`: each receipt recorded once, a completed batch linked to all of its transactions, entries bounded |
| `reconciliation` | 1 matching pair, 2 handlers, 2 workers, 4 requests, 1 fault, fair | `PairsWholeAlone`, `MatchedGetsEntry`; `SessionSound`: a completed session has its result, files listed, only matched rows booked, entries bounded |
| `back_office` | each part of the modules on `Requests` with 1 or 2 goroutines, and every calculator job | the invariants below |

`back_office` checks one invariant per module, which conjoins what the comments
at its parts say:

| invariant | parts |
|---|---|
| `IdentitySound` | `AnsweredIsMember`, `LimitsBounded`, `RevokedYieldsNothing`, `LinkedIsMember` |
| `PurchasingSound` | `InvoicesAddUp`, `InvoicesReadWhole`, `NumbersAndDeletionsAlone`, `VendorsDistinct`, `BatchesConsistent`, `AlphalistComplete` |
| `LearningSound` | `RulesBacked`, `UsageExplained`, `TagsAsAsked`, `PreferencesKept`, `AnswersFit`, `ClassesFit` |
| `SessionDeskSound` | `AnomaliesOnFile`, `ResolutionShown`, `CompletedKeepsMatches`, `SuggestionsAccounted` |
| `ExpenseDeskSound` | `NumbersSound`, `DuplicatesFlagged`, `BreakdownsAgree`, `LogTells`, `RetiredStays`, `TotalsShown` |
| `RecordsSound` | `FieldsAsTold`, `DecidedNotAskedAgain`, `ListsAgree`, `WritesAnswered` |
| `ConversationsSound` | `TurnsInOrder`, `ExpensesTold`, `OneSession`, `ThreadsKept` |
| `MatchingSound`, `Stable` | `EntriesOnce`, `SplitsAddUp`, `AnomaliesFit`, `AuditFits`; the greedy assignment is stable |
| `SchedulesAreSlices`, `FormsAgree` | base plus excess is slice by slice; `CorporateFormsAgree`, `DeclaredAgrees`, `StatementsFit` |
| `SheetsRead` | `HeadersFound`, `MappingsApart`, `CombinedReadsTheSame`, `RowsMirrored`, `WorkbookImported` |

Two runs end in a counterexample, each against a sentence of the repository
(quoted under `findings`):

| run | the code does |
|---|---|
| `ledger_double_reversal` | two Reverse calls read the entry before either commits; both reversals are posted |
| `year_end_contra` | a contra-revenue account, which the seeded chart has, is debited again by the close and doubles instead of closing |

The passing properties mark the boundary of what the code guarantees; their
conditions name what is on the other side:

- `NoDraftInClosedPeriod` fails with two requests: Close counts the drafts while
  Create is between its lookup and its transaction.
- `BooksSound` fails with three accounts and `Scale = 10`: 0.5 + 0.5 cent
  against one cent is stored as two against one.
- `DecidedOnItemsAlone` without its condition fails with two handlers: an item
  request that read the draft writes after Submit.
- `ReviewedEventually` fails with `Faults = TRUE`: the goroutine dies with the
  process and nothing resumes it.
- `BookedOnce` and `ImplementsLifecycle` fail with two handlers, with `AutoItems`
  not empty, and when an item has no account (`GLItems`).
- `RunAtMostOnce` and `BookingsBounded` count lost records: a tool ran, or a run
  was booked, and its record was not written.
- `ApprovalNeedsFault` is what remains of the compliance gate: validation writes
  its score to the row and so takes the version the approval needs, and the lost
  update is answered with success.
- `FirstNotLarge` is false of the second receipt of a screenshot, which is
  recorded unevaluated.
- `RecordedOnce` fails with two updates of the bot, `PendingEnds` with an edit
  that writes after the timeout or a restart within ten minutes.
- `FilesListedAlone` and `PairsWholeAlone` fail when requests interleave.
- Of the invariants on `Requests`, the clauses under `Alone` hold with one
  goroutine only; the others with two.  Without their exceptions for ignored
  errors these fail with one: `LimitsBounded` (a count that fails is a count of
  none), `VendorsDistinct`, the one active rule of `RulesBacked`, `OneSession` and
  `ThreadsKept` (a lookup that fails finds nothing, and no unique index stands
  behind it), and `DuplicatesFlagged` (a query that fails adds no points).

*Bounds.*  Two requests are the fewest that interleave, and three for
`ActionPlan`, where one holds the lock, one waits and one creates.  Entries,
plans and items are one more than a property needs to be violated: four entries
are one entry, two reversals and the third that the bound excludes.
`MaxSubmits = 2` lets an agent run of the first submission meet the second;
`MaxJournals` is as many bookings as a run can use before it repeats itself.
`MaxRuns` is never reached while `RunAtMostOnce` holds.  Four versions of a tax
report are creation, validation, approval and one more write.  Batches of two
leave one place beside a reversal that has to wait.  Where instances differ in
bounds that only make sense together (`Instances`, `part`), the initial state
chooses one, so that a run covers each.  On `Requests`, `left` counts the
requests still to come: two to four for one goroutine, one to three for two,
the fewest in which each operation meets each other of its part; a goroutine
that has served nothing is like any other, so the same one is taken first.
Limits of the code are cut down so that they are reached: lists and pages of
1000, 100 or 50 to two (`MaxListed`, `RecordLimit`, `HistoryLimit`), the scan for
a header from 20 rows to 3 (`HeaderScanLimit`), the rows shown of an upload from
10 to 2 (`MaxPreviewRows`), companies and users of an organization from 5 and 10
to 2 and 3, the largest invoice number to 3, the transactions a model is given at
once from 25 to `BatchSize`; a client sends at most the two rules of
`SentCandidates`, and payments are of three kinds.  In `Conversations` at
most one statement whose error is ignored fails.  Symmetry is used for
identities only, and not in the runs with liveness.  Deadlock is checked in the
ledger, which has no final state; elsewhere requests run out, a report is paid
or deleted, or Confirms wait for a leaked lock.

*Fairness.*  `ExpenseReport`: the goroutine of a submission is scheduled (`WF`
of `AgentStep`), and a handler that holds the row lock commits (`WF` of
`SubmitCommit`), since PostgreSQL answers and no user is involved.  `HRInbox`: a
deployed processor keeps ticking (`WF` of `PollerStep`).  `ReceiptFlow`: handlers
that have started run on and a timer fires (`WF` of `Continue`, `TimeoutRead`,
`TimeoutCancel`).  `ReconSession`: the worker polls its queue and finishes what
it has taken (`WF` of `Deliver`, `TaskStep`).  People and clients owe nothing.

## 4. Theorems

Every theorem holds for any values of the constants that satisfy the `ASSUME` of
the module, sets of any size included; `PROJECT.json` lists the main ones.  The
assumptions say what the code fixes: amounts are integers, limits are positive,
`None` and `Gone` are not data, and what is counted or summed over (accounts,
requests, pollers, workers, transactions) is finite.  A theorem with a further
hypothesis states it after `ASSUME`; each hypothesis is one that the run of the
same property has.

*Ledger* (`BooksProofs`).  `ReversalsAreLinked` and `BooksAreFrozen` rest on
what a request in `"reverse"` knows: the lines and the period of an entry that
is in the books and will not change.  `SerializedPeriodsHoldNoDrafts` adds what a
request that runs alone knows: the period it found is still open, the one it
counted still empty.  `RequestsAreBounded` counts the requests between read and
write: an entry that has been reversed is not read again, so reversals made and
reversals still to come are no more than the requests that could have read it
unreversed; announcements likewise, by the requests that read it as a draft.
`BooksBalance` carries "validated" from Create to the table, and from an entry
to its mirror image, under `RoundsBalanced`: rounding upsets nothing a client
sends.  `WholeCentsBalance` shows this hypothesis of whole cents; with half cents
it is false.

*Sums* (`CommonTheorems`).  The fold of the community modules is a recursive
function that takes the members of a set in an order of its own.  That it is
defined at all, and that any member may be taken first, is an induction over the
subsets of a finite set.  The library's induction theorems take an operator as a
parameter, so the induction is stated for a set of subsets, and proved by the
least cardinality of a counterexample.  `SumOfGroups` follows: the sum of the sums
of groups is the sum of all.

*Year-end close* (`ClosesAreSound`).  Invariant: on every account on the normal
side of its section, the entries the close read, the ones it has made and the
ones still in its plan add up to zero (`ReadSums`).  It holds when the plan is
drawn up, since all of its amounts are sums of what was read, and each Create
moves one entry from the plan to the made ones.  Reading whole cents matters:
the table would round anything else, so the invariant of the ledger adds that
rows are whole.  Other requests write rows the close has not read, and never
change lines.  That Income Summary is empty again needs one hypothesis,
`SummaryIsTheirs`: clients send no lines on it.  That no period is closed over a
draft beside a close either (`SerializedClosesLeaveNoDrafts`) is the ledger's own
argument: a step of the close is a step of the ledger, except that it calls
Create for the year's end whatever the client would send.

*Expenses* (`SpendingProofs`).  `NobodyApprovesTheirOwn` follows the user
from the check to the write.  `RequestsAreSound`: entries are only appended, so a
link stays right wherever it is carried, and a request that has counted and not
inserted counts as an item.  `DecidedAlone`: for each place a request can be at,
the status it has checked still holds (`RequestInv`); an agent's run is under way
only while the report is submitted or by that run approved (`AgentInv`).
`TypeCorrect` needs the sums.  `WorkflowIsSound` is about `InOrder`, the
conditions of the run `expense_orderly`: one request at a time, no faults, no
automatic approval, an account for every item.  Its invariant, `JournalInv`, says
the journal is what the status and the request between booking and writing say;
`MaxJournals` only has to allow two entries, and the proof shows that no third is
ever asked for.  `WorkflowImplementsLifecycle` adds that owed and settled are
functions of the status, so that a step of the workflow is the step of
`ExpenseLifecycle` with the same statuses, or a stutter.
`MoneyOnlyOnTheWayToPaid` draws the consequence: nothing is owed before approval,
never more than the total, and nothing is settled before payment.

*Action plans* (`BackOfficeProofs`).  `ConfirmedOnce` ties a request in `"tool"`
or `"commit"` to the row lock it holds.  `PlansAreSound` counts pending plans with
the creates that saw none, and connections as free, with a transaction or leaked.
`RecordsKeepTheirOutcome` is the action property, from the same invariant.

*Tax reports* (`TaxReportProofs`).  One invariant for three theorems: a version
that a request read determines the row it read as long as the row still has it;
the gate's own write takes the version that the approval needs; figures kept as
original are the engine's.

*HR inbox* (`HRInboxProofs`).  `EffectsBeforeMarks`: between booking and mark the
poller's local state says so.  `DraftsCountBookings`: a draft that is read and not
written back counts as what it will be.  `BookingsAreBounded`: for a run with one
event every poller is ahead of it, at it, behind it or failing at it; a booking
moves a poller one stage on, and only a fault sends it, or with several pollers
the others, back (`Rebooking`).  The first bound stated here, the pollers plus
the faults, is false for three pollers; the attempt to prove it showed that.
`PayeesAreLatest` and `RunsAreBookedOnce` are about one poller and no fault: what
is left in the batch and in the inbox is in order of arrival, and an event counts
as filed, being filed or to be filed.

*Reconciliation* (`ReconSessionProofs`).  `SessionInv` has seven parts: what a
request remembers of the row it will write back, what a row's status implies,
the drafts counted against workers and faults, requests that take turns, files,
and pairs (whole, or half written by the request that is writing them).

*Receipts* (`ReceiptFlowProofs`).  A settled status keeps later buttons out; an
amount above the limit is seen before the bot records it of a first receipt.  A
request that records knows the results it converts and the transactions it has
made of them, one for each receipt so far (`Fits`), and a batch keeps the links of
its last conversion (`Known`).  Entries are counted
against the requests that found the transaction unlinked and the faults that can
lose a link; a restart loses one request of the bot at most for each
transaction, since the bot's requests of one batch are apart.

*The back office* (`BackOfficeProofs`).  The modules on `Requests` say what their
tables hold at the start as a predicate (`IdentityStart`, `ConversationsStart`,
`AnomaliesStart`, `BatchesStart`; `NumbersStart`, `ExpensesStart` and
`SettingsStart` for `BooksProofs`; `InvoicesStart`, `VendorsStart`,
`CorrectionsStart`, `PoliciesStart`, `TagsStart`, `PreferencesStart` and
`KnowledgeStart` for `SpendingProofs`), and the theorems are about every behaviour
that starts from such tables, whatever their size and however many goroutines
serve; `SeedsAreStarts` has TLC evaluate the predicates on the tables of the run.
What is said of requests that come one at a time rests on `AloneKept`: who is
alone stays alone, and is the one that moves.

`IdentitySafe`.  A request carries what it has read: a user it made and the
membership it then wrote, the member a link is for, the token that was revoked
before it came.  The limits are counted: the companies, or members, that an
organization has and the requests that are about to add one are no more than
the limit and the requests beside one (`CompanyLimitKept`, `MemberLimitKept`);
companies whose count failed are counted apart.

`ConversationsSafe`.  The invariant has six parts: what a request is at
(`TalkInv`); that of a request at most one question and one answer are stored, in
this order and in one thread, and no answer while it is open (`TurnsInv`); that
an expense is in the answer that tells of it, or in the hands of the request that
will, or the answer was lost (`ToldInv`); sessions and threads counted with the
requests that found none and are about to create one, as long as no lookup failed
(`SessionsInv`, `ThreadsInv`); and that a thread bears the name of its first message, or the
request that created it is about to give it that name (`TitlesInv`).

`SessionDeskSafe`.  Of anomalies: what is detected is on file or in the hands of a
detection that still files it, as often as detections run beside each other, once
if they do not (`FiledInv`); a request that is alone finds what it wrote
(`ShownInv`).  Of batches: matches, suggestions and rejections of a completed
batch are what it offered, through the read, the decision and the write
(`AccountInv`).

*The expense desk* (`BooksProofs`, `ExpenseDeskSafe`).  Each part has an
invariant.  Of numbers (`NumbersInv`): while the month stays, whoever has read
them holds the advisory lock, and the number it carries is above all that are
given and, if none is deleted, one more than there are.  Of lists (`ListsInv`): a
request alone, with no agent at work, counts what it listed.  Of expenses
(`ExpensesInv`): what holds of the tables whatever interleaves (`TablesOK`,
`Entered`), and, for a request that is alone but for the agent, `AloneOK`: the
total of a report is what its items add up to once it is submitted, nobody is its
approver before one decided, the log fits the status unless that request is about
to write it, and a request between check and write finds what it checked
(`Stands`).  `FewShared` is about reports the agent has cleared, written or not:
two of a submitter share one pair of items at most.  It is kept because items
change in drafts only, and because whichever of two such reports is judged second
sees the other one under way and gets ten points for each shared item, on ten to
start with (`VerdictSpares`), unless the query of duplicates failed.  `BreakdownsMeet` then adds up items by category, by
report, and reports by department, with `SumOfGroups`.  The agent moves on its
own; with the requests alone there may be any number of its runs.

*Purchasing* (`SpendingProofs`, `PurchasingSafe`).  An invoice has an order it was
made of, which its row does not name: its items are the first of the order's, and
the request that is making it holds the others (`Made`, `Rest`), and no two
requests make one.  That a whole invoice adds up is `WholeAddsUp`: each line is
rounded by half a cent at most, so a column that is added up and then rounded is
as many half cents, and one, from the column that is rounded and then added up
(`ColumnNear`), and subtotal, VAT and total are a cent apart at most.  A batch of
payments remembers what it read of a vendor and never changes it, so what decided
the first payment decides the second (`BatchOK`, `VendorDecides`).  Vendors keep
taxpayer numbers of their own as long as whoever is about to insert one finds none
like it, which is all that is lost when a lookup fails (`unsure`).  `AlphalistMeets` adds up the certificates by code, with `SumOfGroups`;
a list no shorter than the table is the whole of it, which is what the code's limit
of certificates has to be.

*Learning* (`SpendingProofs`, `LearningSafe`).  Each part has an invariant: its
table, what a request carries, and what else holds of a request that is alone.
Of corrections (`CorrectionsInv`): they are only appended, so what a rule counted
when it was detected it still has (`Backed`), in the table and in the hands of the
request that is about to insert or update it.  That rules are held back is
inductive only with the sum of what the active rules cover: each analysis that
inserted anything adds `RuleThreshold` to it at least, and none starts before the
corrections are `AnalyzeNewMin` ahead of it.  So `AnalyzeNewMin <= RuleThreshold`
is assumed; the code has 3 for both.  A description has one active rule because a
request between read and write knows the one there is, or that there is none,
unless the read failed or clients sent rules of their own (`blind`).  Of
vendors (`PoliciesInv`): the balance of uses counts the corrections between their
two statements (`Underway`) and those whose second statement failed (`Lost`), and
the vendor of each is still there.  Of tags (`TagsInv`) and preferences
(`PreferencesInv`): the transaction has what was asked for but the rest, and the
merge that is about to be written has every preference that was answered.  Of
knowledge (`KnowledgeInv`): chunks keep their jurisdiction, so what was found stays
found; by category they add up with `SumOfGroups`.  Of classes (`ClassifyInv`): a
transaction that goes to the model has as its place among the answers the number
of those before it.

*Only model-checked.*  Liveness under fairness (`ReviewedEventually`,
`EveryEventProcessed`, `PendingEnds`, `MatchedGetsEntry`) and anything about
`ENABLED`, which the prover does not do.  `RecordsSound`: its lists are filters
and sorts of sequences.  `SelectSeq` and the folds of the community modules take
an operator, and what they yield for every sequence is an induction over data.  The calculators (`MatchingSound`, `Stable`, `SchedulesAreSlices`,
`FormsAgree`, `SheetsRead`): what a recursive definition computes for every input
is an induction over data as well.  The two counterexamples are TLC's.

## 5. Plan

Done: the models of the ledger, the year-end close, expenses, action plans, the
HR inbox, tax reports, receipts, reconciliation, the modules on `Requests` and
the calculators; theorems for every safety property of the first eight, and of
`Identity`, `Conversations`, `SessionDesk`, `ExpenseDesk`, `Purchasing` and
`Learning`.  Left, in this order:

1. `RecordsSound`, once its lists are sets of rows with an order beside them.
2. Exports and the remaining tax forms as operators, when their figures are
   computed along more than one path.
3. The CAS chain, when something in the program calls it.

## 6. Where comments, documents and code disagree

Met while modelling; the models follow the code.  None of these is a property
of a run, but for the two above.

*Ledger.*  A date in a closed period finds no open one, so its entry gets no
period at all, and Post's test of the period can never fail.  The balance
queries sum drafts.

*Expenses.*  `MarkPaid` between the agent's two writes leaves a paid report
approved again.  The design asks for every item to be under
`auto_approve_below`; the agent never looks at it, and lets a single shared
expense pass, and every one if its query fails.  A removed approver can never be added again to the department.
Neither `max_amount` nor `ResolveApprover` is used by the queue, and reports
without a payee are in none.  Updates, deletions and reverts answer 200 whether
or not a row matched, and a refused revert is logged as done.  Receipts can be
attached after submission.  Automatically approved reports without a booked item
have no `approved_at`, so that they are missing from both breakdowns but not
from the summary.  A number is found for the database's month and written with
the process's, and the two can collide.  Approval settings set over the API lose
their threshold, and of several policies of a category the last by name wins.

*Plans and conversations.*  A refused Confirm leaks its transaction.  The
effects of a chat tool are kept though the call after it fails.  The retry of
the session lookup has no unique index to rely on, and any error of the lookup
creates a second session, or a second thread.  A thread's history is its oldest twenty messages;
messages about no entity always open a thread; two openers can give a thread a
title that is not its first message; a client that stops reading can block the
agent before it saves.

*Tax reports, approvals.*  Approvals are logged and answered with success though
the `:exec` matched no row.  Two amendments made at once may get one number.

*CAS.*  `LogAuditWithHash` says it prevents forks of the chain, while its read
takes no lock; nothing calls it, nor the numbering of entries.

*Identity.*  A company is created past the limit when the count fails.  Login takes the role to be `company_admin` when access is
withdrawn between its statements.  Single sign-on gives an existing user tokens
for a company they are no member of.  `CompanyUpdate` writes back what it read.
A registration that loses the race for an email leaves a company without
members.

*Receipts.*  Every receipt of a screenshot is recorded, and only the first is
evaluated for approval.  An approved receipt is evaluated anew, and waits again.

*Purchasing.*  A lookup of a TIN that fails makes a second vendor with it.  `UpdateVendor` without `is_vat_registered` turns it off.  Equally
good ATC codes are chosen by map order (10 % or 15 %).  A search of vendors
counts all of them.  The status of an invoice that does not exist is updated
with 200.  A number of too many digits stops automatic numbering.

*Learning.*  The API stores as rules whatever candidates a client sends, with the
counts it claims.  `PromoteRule`'s comment says it resets the count of corrections.
An acceptance resets the confidence to 1.0.  Deactivated rules are learned
again, and patterns twice.  Corrections never carry the description, so only
"generic" rules are learned.  A project tag replaces a plain one.  Only rules
and the model respect "never a sale for a purchase".  Two rule types are not
types of their jurisdictions.  Lists of the knowledge base know no jurisdiction.
A preference that could not be read is overwritten.

*Sessions and records.*  Resolved anomalies come back when detection runs again,
and two at once store each twice.  `unusual_amount` cannot fire below eleven
amounts though five are asked for, nor a ratio of three among three.  A missing
collection is reported although its deposit exists, because the type of bank
entries is dropped.  Each status update of a bank batch empties its row, and a
failed last write leaves it so.  Of two decisions about suggestions one is lost.
Duplicates are reported twice for users with two Telegram accounts; of three
transactions in a chain the last is not.  A reply is used up before it is
parsed.  PATCH ignores the TIN, and an update of one field of a classification
writes the other as it was read.  Both sides of a matched pair are booked.

*Statements and sheets.*  The generic format never reads its "amount"; ties
between formats are broken by map order; a row with a debit and a credit loses
the debit; `parseFlexDate` does not clamp days as its comment says.  Exempt
purchases are no sign of a purchase while exempt sales are one of a sale.
`inferVATType` is given the vatable amount first where it documents the gross.
The fallback for an amount depends on map order and takes a tax for an amount.
An upload that cannot be cleaned keeps the ten rows that were shown, and the
import is cut to them.  `detectConflicts` is "always" applied, but not to reused
and fuzzily matched mappings.  Short names ("date", "rate") match fuzzily.
Columns of one name keep the last.

## 7. Not modelled

- CAS numbering and hash chains: nothing in the program calls what stamps.
- Approval rules, calendars and compliance scores: sequential functions of one
  record with unit tests; their outcome is a choice where a decision depends on
  it.
- QuickBooks, documents, exports, mail: I/O and layout.
- The tax draft refreshed by `journal.posted`: the next posting of the month
  computes it again.
- The cleaning pipeline and OCR: heuristics about text; that they fail is a
  choice.  Embeddings and prompts: what is near, and what a model says, is one.
- Passwords, signatures and expiry of tokens: they only refuse.

Modules share no rows but where they extend each other; one company, thread,
session or report per instance unless its table has more.  Generated code is
represented by the SQL it is generated from.  PostgreSQL is taken at READ
COMMITTED: a statement is atomic and sees what is committed.
