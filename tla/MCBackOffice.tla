---------------------------- MODULE MCBackOffice ----------------------------
(***************************************************************************)
(* The parts of the back end that serve requests over rows of their own,   *)
(* and the algorithms behind them: an initial state chooses the part, the  *)
(* rows it starts from, and whether one goroutine serves requests or two.  *)
(*                                                                         *)
(* The calculator's rows are a job and its answer; its only step computes  *)
(* the answer, and its properties say what the answer has to satisfy.      *)
(***************************************************************************)
EXTENDS Identity, Purchasing, Learning, SessionDesk, ExpenseDesk, Records,
        Conversations, TaxEngine, SheetImport

CONSTANTS c1, c2, x, y, NoAnswer

-----------------------------------------------------------------------------
(* Identity. *)
SeededUsers ==
    [users |-> <<User("ann", "")>>, orgs |-> <<>>,
     companies |-> <<[org |-> 0, tin |-> 0, counted |-> TRUE]>>,
     orgMembers |-> {}, members |-> <<[company |-> 1, user |-> 1, role |-> "company_admin"]>>,
     links |-> <<>>, keys |-> 0, revoked |-> {},
     telegram |-> [t \in TelegramIds |-> [user |-> 0, company |-> 0]],
     pairs |-> <<[user |-> 1, company |-> 1, role |-> "company_admin"]>>]

(* An organization one short of both limits, and two users who are not in it. *)
SeededOrgs ==
    [SeededUsers EXCEPT
        !.users = [i \in 1..4 |-> User(<<"ann", "bob", "cat", "dan">>[i], "")],
        !.orgs = <<[slug |-> "acme"]>>,
        !.companies = <<[org |-> 1, tin |-> 0, counted |-> TRUE]>>,
        !.orgMembers = {[org |-> 1, user |-> 1, role |-> "org_owner"],
                        [org |-> 1, user |-> 2, role |-> "org_member"]}]

(* A user of one company who sees a second one through the organization. *)
SeededTelegram ==
    [SeededOrgs EXCEPT
        !.users = <<User("ann", "")>>,
        !.companies = @ \o <<[org |-> 1, tin |-> 0, counted |-> TRUE]>>,
        !.orgMembers = {[org |-> 1, user |-> 1, role |-> "org_owner"]}]

-----------------------------------------------------------------------------
(* Purchasing. *)
Line(net, type) == [net |-> net, type |-> type]
MCOrders == {<<Line(100400, "vatable")>>, <<Line(100400, "vatable"), Line(33300, "exempt")>>}

Code(words, rate, prefix) == [keywords |-> words, rate |-> rate, prefix |-> prefix]
MCRateTable == [WC010 |-> Code({"professional", "consultant", "corporate"}, 10, "WC"),
               WC020 |-> Code({"professional", "consultant", "corporation"}, 15, "WC"),
               WI010 |-> Code({"professional", "consultant", "individual"}, 5, "WI")]

Payment(tin, words, exempt) ==
    [tin |-> tin, words |-> words, exempt |-> exempt, individual |-> FALSE]
MCPayments == {Payment("t1", {"consultant"}, FALSE), Payment("", {"rent"}, FALSE),
               Payment("t2", {"salary"}, TRUE)}
MCLearnedRules ==
    <<[words |-> {"rent"}, tins |-> {}, field |-> "ewt_rate", value |-> "5"],
      [words |-> {"rent"}, tins |-> {}, field |-> "ewt_applicable", value |-> "false"]>>

(* Two invoices with numbers the system gave them. *)
SeededInvoices ==
    [invoices |-> (1 :> [Invoice(1, TRUE, <<>>) EXCEPT !.status = "issued"])
                  @@ (2 :> Invoice(2, TRUE, <<>>)),
     made |-> 2, deleted |-> {}, broken |-> {}]

SeededVendors == [vendors |-> (1 :> [tin |-> "t1", atc |-> "WC010", vat |-> TRUE]),
                  made |-> 1, certificates |-> <<>>, unsure |-> FALSE]

-----------------------------------------------------------------------------
(* Learning. *)
PC == [field |-> "category", value |-> "goods"]
PV == [field |-> "vat_type", value |-> "exempt"]
MCPatterns == {PC, PV}

MCVendorTexts == {[raw |-> "Meralco Inc.", name |-> "meralco"],
                  [raw |-> "MERALCO", name |-> "meralco"], [raw |-> "Grab", name |-> "grab"]}

Chunk(category, jurisdiction) == [category |-> category, jurisdiction |-> jurisdiction]
MCChunks == {Chunk("vat", "PH"), Chunk("income", "PH")}

Tx(purchase, words, desc, vat) ==
    [purchase |-> purchase, words |-> words, desc |-> desc, vat |-> vat]
MCBatches == BoundedSeq({Tx(TRUE, {"government"}, "d1", NoText), Tx(TRUE, {}, "d1", NoText),
                         Tx(FALSE, {}, "d2", "exempt"), Tx(TRUE, {}, "d3", NoText),
                         Tx(TRUE, {"exempt"}, "d4", NoText)}, 3)
MCSentCandidates == {[on |-> "", field |-> "category", value |-> "capital", source |-> 3],
                 [on |-> "desc", field |-> "category", value |-> "goods", source |-> -2]}
MCActiveRules == <<[on |-> "", field |-> "category", value |-> "goods"],
                   [on |-> "d1", field |-> "category", value |-> "capital"]>>
MCKnownVendors == [d \in {"d2"} |-> "services"]
MCVATTypes == [PH |-> <<"vatable", "exempt", "zero_rated", "government">>,
               SG |-> <<"standard", "zero_rated", "exempt", "out_of_scope">>]

(* One correction short of an analysis; one short of a policy's suggestion. *)
SeededCorrections == [corrections |-> <<PC, PC, PV, PC>>, rules |-> <<>>, analyses |-> 0,
                      blind |-> FALSE]
SeededPolicies ==
    [policies |-> (1 :> [vendor |-> "meralco", aliases |-> {"MERALCO"}, category |-> "",
                         usage |-> 9, accept |-> 1, corr |-> 4, conf |-> <<1, 5>>]),
     made |-> 1, lost |-> <<>>, dropped |-> FALSE]
SeededTags == [tags |-> (1 :> [name |-> "north", project |-> TRUE])
                        @@ (2 :> [name |-> "urgent", project |-> FALSE]),
               links |-> {<<"t1", 2>>}, made |-> 2]
SeededChunks ==
    [chunks |-> <<[category |-> "vat", jurisdiction |-> "SG", embedded |-> TRUE],
                  [category |-> "vat", jurisdiction |-> "PH", embedded |-> FALSE]>>]

-----------------------------------------------------------------------------
(* The session desk. *)
Row(desc, day, amount, source) ==
    [desc |-> desc, day |-> day, amount |-> amount, vat |-> 0, type |-> "vatable", tin |-> FALSE,
     source |-> source]

(* Two bank entries that correspond to the same record, which is there twice. *)
SessionTxns == <<Row("acme", 1, 600, "purchase_record"), Row("acme", 1, 600, "purchase_record"),
                 Row("acme", 2, 600, "bank_statement"), Row("bank", 9, 600, "bank_statement")>>

SeededAnomalies ==
    [txns |-> SessionTxns, made |-> 1, ended |-> 0, failed |-> FALSE,
     anomalies |-> (1 :> [anomaly |-> Anomaly("duplicate", "medium", 1), status |-> "resolved"])]

MCMatches == <<"m">>
MCSuggestions == {<<"s1">>, <<"s1", "s2">>}
SeededBatches ==
    [batches |-> <<[status |-> "completed", summary |-> TRUE, pairs |-> MCMatches,
                    suggestions |-> <<"s1", "s2">>, total |-> 4]>>,
     offered |-> << <<"s1", "s2">> >>, rejected |-> <<0>>, failed |-> FALSE]

Header(amounts) == {"date", "remarks"} \cup amounts
Statement(amounts) ==
    [columns |-> Header(amounts),
     rows |-> <<[col \in Header(amounts) |-> IF col \in amounts THEN 7 ELSE "x"]>>]
EmptySheet(amounts) == [columns |-> Header(amounts), rows |-> <<>>]
MCUploads ==
    {[records |-> {Statement({"amount"})}, bank |-> {Statement({"debit", "credit"})}],
     [records |-> {EmptySheet({"amount"})},
      bank |-> {Statement({"withdrawal", "deposit"}), EmptySheet({"debit", "credit"})}],
     [records |-> {EmptySheet({"amount"})}, bank |-> {EmptySheet({"amount"})}]}

-----------------------------------------------------------------------------
(* The calculator. *)
Recs == {[amount |-> 100, day |-> 1, ref |-> {}],
         [amount |-> 100, day |-> 4, ref |-> {x}],
         [amount |-> 60, day |-> 1, ref |-> {}],
         [amount |-> 40, day |-> 1, ref |-> {}],
         [amount |-> 30, day |-> 2, ref |-> {}],
         [amount |-> 98, day |-> 9, ref |-> {x, y}],
         [amount |-> 50, day |-> NoDay, ref |-> {}]}
Banks == {[amount |-> 100, day |-> 1, ref |-> {}],
          [amount |-> 98, day |-> 2, ref |-> {x}],
          [amount |-> 100, day |-> NoDay, ref |-> {x, y}],
          [amount |-> 130, day |-> 16, ref |-> {}],
          [amount |-> 90, day |-> 8, ref |-> {}]}

(* Thousands: every limit of the three schedules, and what is next to it. *)
Incomes == (-1)..1100 \cup {1499, 1500, 1501, 1999, 2000, 2001, 2499, 2500, 2501,
                            2999, 3000, 3001, 7999, 8000, 8001, 9000}

Companies ==
    [revenue : {0, 10000, 100000, 400000, 5000000, 5000400}, costs : {0, 4000, 300000},
     nonDeductible : {0, 2000}, allowances : {0, 8000}, donations : {0}, losses : {0}]

Txns ==
    [source : {"sales_record"}, type : {"vatable", "government", "zero_rated", "exempt"},
     category : {"goods"}, amount : {100}, vat : {0, 12}]
    \cup [source : {"purchase_record"}, type : {"vatable", "exempt"},
          category : {"goods", "capital", "services", "imports"}, amount : {200}, vat : {0, 7}]

(* Sessions of up to three rows, and ones with an outlier among n equal rows. *)
DeskRows == {Row("acme", 1, 600, "purchase_record"), Row("acme", NoDay, 600, "bank_statement"),
             Row("acme", 3, 601, "bank_statement"), Row("corp", 5, 10000, "sales_record"),
             Row("corp", 8, 9995, "bank_statement"), Row("acme", 5, -600, "purchase_record"),
             [Row("corp", 5, 10000, "sales_record") EXCEPT !.vat = 1300, !.tin = TRUE]}
Outlying(n, amount) ==
    [i \in 1..(n + 1) |-> Row("acme", i, IF i = 1 THEN amount ELSE 10, "sales_record")]
Sessions ==
    BoundedSeq(DeskRows, 4) \cup {Outlying(n, amount) : n \in 2..14, amount \in {1, 90, 200}}

-----------------------------------------------------------------------------
(* Expenses.  Ann has two reports with the same two expenses and one of bob's
   waits; the agent may approve meals with a receipt. *)
Meal(amount, merchant) ==
    [category |-> "meals", amount |-> amount, merchant |-> merchant, weekend |-> FALSE]
MCItemInputs == {Meal(5, "acme"), [Meal(4, "") EXCEPT !.category = "taxi", !.weekend = TRUE]}
Policy(name, category, auto) ==
    [name |-> name, category |-> category, max |-> 8, receiptAbove |-> 6, auto |-> auto]
MCPolicyInputs == {Policy(1, "meals", TRUE), Policy(2, "meals", FALSE)}

NoReports ==
    [reports |-> <<>>, items |-> <<>>, policies |-> <<>>, approvers |-> <<>>, log |-> <<>>,
     settings |-> [enabled |-> FALSE, threshold |-> NoLimit], agents |-> <<>>, auto |-> {},
     holder |-> {}, month |-> 1, made |-> 0, retired |-> {},
     turned |-> FALSE, refused |-> FALSE, removed |-> FALSE, failed |-> FALSE]
SeededReports ==
    [NoReports EXCEPT
        !.reports = <<ReportRow("ann", "ops", <<1, 1>>), ReportRow("ann", "ops", <<1, 2>>),
                      [ReportRow("bob", "", <<1, 3>>) EXCEPT !.status = "pending_approval",
                                                             !.total = 7]>>,
        !.items = <<ItemRow(1, Meal(5, "acme"), TRUE), ItemRow(1, Meal(7, "beta"), TRUE),
                    ItemRow(2, Meal(5, "acme"), TRUE), ItemRow(2, Meal(7, "beta"), TRUE),
                    ItemRow(3, Meal(7, "acme"), FALSE)>>,
        !.policies = <<[of |-> Policy(1, "meals", TRUE), active |-> TRUE]>>,
        !.approvers = <<[dept |-> "ops", user |-> "ann", active |-> TRUE],
                        [dept |-> "ops", user |-> "bob", active |-> TRUE]>>,
        !.log = <<"created", "created", "submitted">>, !.made = 5]
SeededConfiguration ==
    [NoReports EXCEPT
        !.policies = <<[of |-> Policy(1, "meals", TRUE), active |-> TRUE]>>,
        !.approvers = [a \in {2} |-> [dept |-> "ops", user |-> "bob", active |-> TRUE]], !.made = 2]

-----------------------------------------------------------------------------
(* Records.  Two rows of a user with one account, and one of a user with two;
   the bot announced two of them together. *)
Record(day, amount, words, category, conf, by, from) ==
    [day |-> day, amount |-> amount, words |-> words, category |-> category, vat |-> "vatable",
     conf |-> conf, by |-> by, source |-> "receipt", from |-> from, matched |-> FALSE]
SeededRows == <<Record(1, 100, {"acme"}, "goods", 45, "ai", 1),
                Record(3, 100, {"acme", "corp"}, "goods", 80, "default", 1),
                [Record(NoDay, 300, {}, "services", 65, "ai", 2) EXCEPT !.source = "sales"]>>
SeededRecords ==
    [txns |-> SeededRows, told |-> SeededRows, replies |-> {{1, 2}, {3}}, accounts |-> <<1, 2>>,
     failed |-> FALSE]
MCEdits == {[amount |-> 200], [day |-> 9, words |-> {"beta"}], [category |-> "services"]}
MCOverrides == {[vat |-> "exempt", category |-> ""], [vat |-> "", category |-> "capital"]}

-----------------------------------------------------------------------------
(* Conversations: a chat that begins, and a thread in a period that has been
   worked on. *)
SeededChats == [messages |-> <<>>, threads |-> <<>>, sessions |-> <<>>, expenses |-> <<>>,
                logged |-> <<>>, plans |-> <<>>, begun |-> 0, untold |-> {}, failed |-> FALSE]
Said(role) == [role |-> role, request |-> 1, thread |-> 1, expenses |-> {}]
SeededThreads ==
    [SeededChats EXCEPT !.messages = <<Said("user"), Said("assistant")>>, !.begun = 1,
                        !.threads = <<[entity |-> 0, title |-> 1]>>, !.sessions = <<"in_progress">>]

ColumnNames == {"date", "transaction date", "description", "remarks", "particulars",
                "debit", "credit", "withdrawal", "deposit", "amount"}

(* Rows within three days of each other and not, of two amounts. *)
AuditRows == {[day |-> 7, amount |-> 100, words |-> {"acme"}, from |-> 1],
              [day |-> 4, amount |-> 100, words |-> {"acme", "corp"}, from |-> 1],
              [day |-> 1, amount |-> 100, words |-> {"acme"}, from |-> 1],
              [day |-> 4, amount |-> 100, words |-> {"corp"}, from |-> 1],
              [day |-> 4, amount |-> 60, words |-> {}, from |-> 1]}

(* Rows of a sheet: of names, above and below them, of text, of data, of the
   numbering of columns, a total, and a blank one. *)
Cells(kind, ids) == [i \in DOMAIN ids |-> IF ids[i] = 0 THEN Blank ELSE [kind |-> kind, id |-> ids[i]]]
Figures(text, ids) == Cells("text", <<text>>) \o Cells("figure", ids)
SheetRows == {Cells("name", <<1, 2, 3, 4>>), Cells("name", <<1, 2, 2>>), Cells("name", <<1, 2, 0, 4>>),
              Cells("text", <<5, 0, 6, 0>>), Cells("text", <<0, 7, 0, 0>>),
              Cells("text", <<1, 2, 3, 4>>), Figures(8, <<1, 2, 3>>), Figures(9, <<1, 0, 3>>),
              Cells("int", <<1, 2, 3, 4>>), Cells("paren", <<1, 2, 3>>),
              Cells("sum", <<1>>) \o Cells("figure", <<0, 9, 0>>), Cells("text", <<0, 0, 0, 0>>)}
TitleRow == Cells("text", <<20>>)
NumberRow == Cells("paren", <<1, 2, 3>>)

(* Columns that differ in so many letters. *)
Named(n) == [side |-> "", id |-> n]
Letters(a, b) == Size(a.id - b.id)
NamedColumns == {{Named(a), Named(b)} : a, b \in 1..6}
FieldsOfColumns == {Field("gross", "sales"), Field("gross", "purchase")}

(* Columns of a file of both sides, and rows of which at most three fields
   are not empty. *)
SidedColumns == [1..3 -> Sides \cup {"both", ""}]
RowFields == {Field(w, s) : w \in {"gross", "vatable", "tax", "zero", "exempt", "party"}, s \in Sides}
             \cup {Field("total", ""), Field("amount", "")}
RowCells == {[f \in DOMAIN v |-> IF f.what = "party" THEN 1 ELSE v[f]] :
                v \in UNION {[fields -> {5, 7}] : fields \in UNION {kSubset(n, RowFields) : n \in 1..3}}}

(* Sheets of so many rows, each with an amount of no side. *)
Amounts(side, n) ==
    [side |-> side,
     read |-> [columns |-> <<Field("amount", "")>>,
               rows |-> [i \in 1..n |-> Field("amount", "") :> i]]]

Jobs ==
    [kind : {"match"}, recs : BoundedSeq(Recs, 3), banks : BoundedSeq(Banks, 2)]
    \cup [kind : {"income"}, income : Incomes]
    \cup [kind : {"company"}, company : Companies]
    \cup [kind : {"vat"}, txns : BoundedSeq(Txns, 3)]
    \cup [kind : {"session"}, txns : Sessions]
    \cup [kind : {"audit"}, txns : BoundedSeq(AuditRows, 4), accounts : 1..2]
    \cup [kind : {"statement"}, columns : SUBSET ColumnNames]
    \cup [kind : {"sheet"}, sheet : BoundedSeq(SheetRows, 3) \ {<<>>}]
    \cup [kind : {"names"}, columns : NamedColumns,
          saved : UNION {[old -> FieldsOfColumns] : old \in NamedColumns}]
    \cup [kind : {"import"}, sides : SidedColumns, whats : [1..3 -> {"gross", "tax", "party"}],
          cells : [1..3 -> {0, 5}]]
    \cup [kind : {"row"}, cells : RowCells, said : Sides \cup {"combined"}, side : {"", "sales"}]
    \cup [kind : {"workbook"}, first : 0..3, second : 0..3, cleaned : SUBSET {1, 2},
          asked : 0..2, said : Sides]

Compute(answer) == rows' = [rows EXCEPT !.answer = answer] /\ UNCHANGED <<part, calls, left>>

Ready(kind) == part = "calculator" /\ rows.answer = NoAnswer /\ rows.job.kind = kind

Match == Ready("match") /\ Compute(MatchResult(rows.job.recs, rows.job.banks))

Schedules ==
    /\ Ready("income")
    /\ Compute([ph |-> GraduatedTax(rows.job.income), sg |-> SGProgressiveTax(rows.job.income),
                lk |-> LKProgressiveTax(rows.job.income)])

CompanyForms ==
    /\ Ready("company")
    /\ Compute([c |-> FormC(rows.job.company), cs |-> FormCS(rows.job.company),
                eci |-> ECI(rows.job.company)])

VATForms ==
    /\ Ready("vat")
    /\ LET summary == GenerateVATSummary(rows.job.txns)
       IN  Compute([summary |-> summary, form |-> FormOfSummary(summary),
                    rows |-> FormOfRows(rows.job.txns)])

SessionAnomalies ==
    /\ Ready("session")
    /\ Compute([found |-> RunAnomalyDetection(rows.job.txns), taken |-> Taken(rows.job.txns),
                reversed |-> RunAnomalyDetection(Reverse(rows.job.txns))])

AuditScan ==
    /\ Ready("audit")
    /\ LET txns == rows.job.txns
       IN  Compute(FindDuplicateGroups(txns, ListTransactionsWithSubmitter(txns,
                       <<rows.job.accounts>>)))

(* A row with money in one of the columns of amounts, read in every format
   that its columns may choose. *)
StatementEntries ==
    /\ Ready("statement")
    /\ LET Paid(col) == [name \in rows.job.columns |->
               IF name = col THEN 7
               ELSE IF name \in {"debit", "credit", "withdrawal", "deposit", "amount"} THEN 0
               ELSE name]
           money == rows.job.columns \cap {"debit", "credit", "withdrawal", "deposit", "amount"}
       IN  Compute({[money |-> col,
                     entries |-> {ParseBankRow(Paid(col), BankFormats[name]) :
                                     name \in DetectBankFormat(rows.job.columns)}] : col \in money})

(* A sheet as it is, under a title, with its columns numbered, and with any
   row more; and as a model has it read that knows the columns. *)
Sheets ==
    /\ Ready("sheet")
    /\ LET sheet == rows.job.sheet
           headers == ResolveHeaders(sheet)
           end == DetectHeaderZone(sheet, DetectHeaderRow(sheet)).end
       IN  Compute([read |-> ParseAllRows(sheet),
                    titled |-> ParseAllRows(<<TitleRow>> \o sheet),
                    numbered |-> ParseAllRows(InsertAt(sheet, end + 1, NumberRow)),
                    longer |-> [row \in SheetRows |-> ParseAllRows(Append(sheet, row))],
                    told |-> [first \in headers.data..(Len(sheet) + 1) |->
                                 WithAI(sheet, headers.columns, first, 0)]])

MappedColumns ==
    /\ Ready("names")
    /\ LET job == rows.job
       IN  Compute(AutoMapColumns(job.columns, job.saved,
               [col \in job.columns, old \in DOMAIN job.saved |-> Letters(col, old)],
               [job.columns -> FieldsOfColumns]))

(* A row of a file whose columns were all mapped to fields of one side. *)
CombinedFile ==
    /\ Ready("import")
    /\ LET Col(i) == [side |-> rows.job.sides[i], id |-> i]
           row == [col \in {Col(i) : i \in 1..3} |-> rows.job.cells[col.id]]
           Under(said) == [col \in DOMAIN row |-> Field(rows.job.whats[col.id], said)]
       IN  Compute([said \in Sides |->
               [fixed |-> FixMixedColumnMappings(Under(said)),
                txns |-> UNION {ImportRow([cells |-> cells, side |-> ""], said) :
                                   cells \in Mapped(row, FixMixedColumnMappings(Under(said)))}]])

ImportedRow ==
    /\ Ready("row")
    /\ LET row == [cells |-> rows.job.cells, side |-> rows.job.side]
       IN  Compute([row |-> ImportRow(row, rows.job.said),
                    mirrored |-> ImportRow(MirrorRow(row), Other(rows.job.said))])

Workbook ==
    /\ Ready("workbook")
    /\ LET given == <<Amounts("sales", rows.job.first), Amounts("purchase", rows.job.second)>>
           saved == [i \in 1..2 |-> SavedSheet(given[i].side, given[i].read, i \in rows.job.cleaned)]
       IN  Compute({[i \in DOMAIN loaded |-> ImportRow(loaded[i], rows.job.said)] :
                       loaded \in LoadRows(saved, rows.job.asked)})

-----------------------------------------------------------------------------
(* The parts: what each starts from. *)
Seeds ==
    [users |-> SeededUsers, orgs |-> SeededOrgs, telegram |-> SeededTelegram,
     invoices |-> SeededInvoices, vendors |-> SeededVendors,
     corrections |-> SeededCorrections, policies |-> SeededPolicies, tags |-> SeededTags,
     preferences |-> [pref |-> NoPref, kept |-> {}, blind |-> FALSE],
     knowledge |-> SeededChunks, classify |-> [none |-> 0],
     anomalies |-> SeededAnomalies, batches |-> SeededBatches,
     numbers |-> NoReports, expenses |-> SeededReports, settings |-> SeededConfiguration,
     records |-> SeededRecords, chats |-> SeededChats, threads |-> SeededThreads]

(* What the theorems of BackOfficeProofs and BooksProofs assume of the tables at
   the start. *)
ASSUME SeedsAreStarts ==
    /\ \A q \in IdentityParts : IdentityStart(Seeds[q])
    /\ \A q \in ConversationParts : ConversationsStart(Seeds[q])
    /\ AnomaliesStart(Seeds.anomalies) /\ BatchesStart(Seeds.batches)
    /\ NumbersStart(Seeds.numbers) /\ ExpensesStart(Seeds.expenses)
    /\ SettingsStart(Seeds.settings)
    /\ InvoicesStart(Seeds.invoices) /\ VendorsStart(Seeds.vendors)
    /\ CorrectionsStart(Seeds.corrections) /\ PoliciesStart(Seeds.policies)
    /\ TagsStart(Seeds.tags) /\ PreferencesStart(Seeds.preferences)
    /\ KnowledgeStart(Seeds.knowledge)

(* The requests that come, when one goroutine serves them and when two do. *)
Requests1 == [p \in DOMAIN Seeds |-> CASE p = "classify" -> 1
                                       [] p \in {"orgs", "chats", "threads"} -> 2
                                       [] p \in LearningParts -> 4
                                       [] OTHER -> 3]
Requests2 == [p \in DOMAIN Seeds |-> CASE p = "classify" -> 1
                                       [] p \in {"users", "telegram"} -> 3
                                       [] OTHER -> 2]

Both == [c \in Callers |-> NoCall]
OneAlone == [Both EXCEPT ![CHOOSE c \in Callers : TRUE] = Gone]
Nobody == [c \in Callers |-> Gone]

Init ==
    \/ /\ part \in DOMAIN Seeds /\ rows = Seeds[part]
       /\ \/ calls = Both /\ left = Requests2[part]
          \/ calls = OneAlone /\ left = Requests1[part]
    \/ /\ part = "calculator" /\ calls = Nobody /\ left = 0
       /\ \E job \in Jobs : rows = [job |-> job, answer |-> NoAnswer]

Next ==
    \/ IdentityNext
    \/ PurchasingNext
    \/ LearningNext
    \/ SessionDeskNext
    \/ ExpenseDeskNext
    \/ RecordsNext
    \/ ConversationsNext
    \/ Match
    \/ Schedules
    \/ CompanyForms
    \/ VATForms
    \/ SessionAnomalies
    \/ AuditScan
    \/ StatementEntries
    \/ Sheets
    \/ MappedColumns
    \/ CombinedFile
    \/ ImportedRow
    \/ Workbook

Spec == Init /\ [][Next]_requestVars

Computed(kind) == part = "calculator" /\ rows.answer # NoAnswer /\ rows.job.kind = kind
-----------------------------------------------------------------------------
(* Every record and every bank entry ends up in exactly one place: in one
   pair, in one split, or among the unmatched (reconciliation_engine.go,
   177-303: two passes over the same rows with bookkeeping of their own). *)
EntriesOnce ==
    Computed("match") =>
        /\ \A i \in DOMAIN rows.job.recs :
             Cardinality({p \in rows.answer.pairs : p[1] = i})
               + Cardinality({s \in rows.answer.splits : i \in s.recs})
               + (IF i \in rows.answer.leftRecords THEN 1 ELSE 0) = 1
        /\ \A j \in DOMAIN rows.job.banks :
             Cardinality({p \in rows.answer.pairs : p[2] = j})
               + Cardinality({s \in rows.answer.splits : s.bank = j})
               + (IF j \in rows.answer.leftBank THEN 1 ELSE 0) = 1

(* The greedy assignment is stable: of every acceptable pair, one of the two
   entries is matched at least as well (reconciliation_engine.go, 176-204). *)
Stable ==
    Computed("match") =>
        \A i \in DOMAIN rows.job.recs, j \in DOMAIN rows.job.banks :
            Score(rows.job.recs[i], rows.job.banks[j]) >= MinMatchScore =>
                \E p \in rows.answer.pairs :
                    /\ p[1] = i \/ p[2] = j
                    /\ Score(rows.job.recs[p[1]], rows.job.banks[p[2]])
                         >= Score(rows.job.recs[i], rows.job.banks[j])

(* The two or three records of a split make up the bank entry, and none of
   them would have been an acceptable match for it alone (match_scorer.go,
   122-205, after the 1:1 pass). *)
SplitsAddUp ==
    Computed("match") =>
        \A s \in rows.answer.splits :
            /\ Cardinality(s.recs) \in {2, 3}
            /\ Size(AmountOf(rows.job.recs, s.recs) - rows.job.banks[s.bank].amount) <= Tolerance
            /\ \A i \in s.recs : Score(rows.job.recs[i], rows.job.banks[s.bank]) < MinMatchScore

(* The typed base amounts of the three schedules are what the brackets below
   add up to, so base plus excess and slice by slice are one function
   (tax_engine.go 726, sg_tax_engine.go 315, lk_tax_engine.go 172). *)
SchedulesAreSlices ==
    Computed("income") =>
        /\ rows.answer.ph = SliceBySlice(TRAINBrackets, rows.job.income)
        /\ rows.answer.sg = SliceBySlice(SGTaxBrackets, rows.job.income)
        /\ rows.answer.lk = BaseAndExcess(LKIncomeTaxBrackets, rows.job.income)

(* A company without donations and losses owes the same on Form C, on Form
   C-S if it may use it, and on its estimate, and never less than nothing
   (sg_tax_engine.go, 98, 150 and 363). *)
CorporateFormsAgree ==
    Computed("company") =>
        /\ rows.answer.c = rows.answer.eci
        /\ rows.answer.cs \in {rows.answer.c, -1}
        /\ rows.answer.c >= 0

(* A return calculated from the summary of a session declares that summary
   line by line, and so does one calculated from the session's rows, if the
   vatable sales all carry their tax or none does, no other sale does, and an
   exempt purchase carries its own: CompareWithDeclared finds no difference
   (two aggregations written apart: tax_engine.go 137-213 and
   reconciliation_engine.go 80-137; outside the condition they disagree). *)
DeclaredAgrees ==
    Computed("vat") =>
        LET sales == SelectSeq(rows.job.txns, IsSale)
            taxed == {t \in ToSet(sales) : t.vat # 0}
            vatable == {t \in ToSet(sales) : t.type = "vatable"}
        IN  /\ LinesApart(rows.answer.summary, rows.answer.form) = {}
            /\ (/\ taxed \in {{}, vatable}
                /\ \A t \in ToSet(rows.job.txns) : t.type = "exempt" /\ ~IsSale(t) => t.vat # 0)
               => LinesApart(rows.answer.summary, rows.answer.rows) = {}

(* Of the records and bank entries reported as missing a counterpart no two
   would have done for each other, none was taken twice, no amount is unusual
   among fewer than eleven or thrice the average of three, and but for
   the bank entries' choice of records the order of the rows does not matter:
   what is reported of a row stays, and of a group as often
   (anomaly_service.go, 44, 96, 170, 242 and 340). *)
AnomaliesFit ==
    Computed("session") =>
        LET txns == rows.job.txns
            Of(found, kinds) == {a \in found : a.kind \in kinds}
            ofRows == {"vat_mismatch", "incomplete_tin", "unusual_amount",
                       "abnormal_supplier_amount"}
            ofGroups == {"duplicate", "missing_collection", "missing_payment"}
            Mirrored(a) == [a EXCEPT !.on = Len(txns) + 1 - @]
        IN  /\ \A b \in Of(rows.answer.found, {"unmatched_payment"}),
                  r \in Of(rows.answer.found, {"missing_invoice"}) :
                    ~Corresponds(txns[b.on], txns[r.on])
            /\ \A p, q \in rows.answer.taken : p[1] = q[1] \/ p[2] = q[2] => p = q
            /\ Of(rows.answer.found, {"unusual_amount"}) # {} => Len(txns) >= 11
            /\ Len(txns) = 3 => \A a \in Of(rows.answer.found, {"abnormal_supplier_amount"}) :
                                   5 * txns[a.on].amount < AmountsOf(txns, DOMAIN txns)
            /\ {Mirrored(a) : a \in Of(rows.answer.found, ofRows)}
                   = Of(rows.answer.reversed, ofRows)
            /\ \A k \in ofGroups : Cardinality(Of(rows.answer.found, {k}))
                                      = Cardinality(Of(rows.answer.reversed, {k}))

(* Among submitters of one account each, no transaction is reported as a
   duplicate twice, those of a group are of one amount and within three days, and
   of two that resemble each other at least one is reported: not always both,
   for the rows that resembled an earlier one of a group are used up, and whom
   they resemble is not asked again (audit_tools.go, 207-272). *)
AuditFits ==
    Computed("audit") =>
        LET txns == rows.job.txns
            reported == UNION {ToSet(group) : group \in rows.answer}
        IN  rows.job.accounts = 1 =>
              /\ MapThenSumSet(Len, rows.answer) = Cardinality(reported)
              /\ \A group \in rows.answer : \A i, j \in ToSet(group) :
                     txns[i].amount = txns[j].amount /\ Size(txns[i].day - txns[j].day) <= 3
              /\ \A i, j \in DOMAIN txns :
                     i # j /\ txns[i].amount = txns[j].amount /\ IsSuspiciousPair(txns[i], txns[j])
                         => {i, j} \cap reported # {}

(* A statement with a date, a description and one whole way of giving amounts
   yields each row's amount, debit or credit by its column, whichever of the
   equally good formats is taken; one with a single column of amounts does if
   its description is called so (bank_parser.go, 94-144 and 147). *)
StatementsFit ==
    Computed("statement") =>
        LET columns == rows.job.columns
            money == columns \cap {"debit", "credit", "withdrawal", "deposit", "amount"}
        IN  (/\ columns \cap {"date", "transaction date"} # {}
             /\ columns \cap {"description", "remarks", "particulars"} # {}
             /\ \/ money \in {{"debit", "credit"}, {"withdrawal", "deposit"}}
                \/ money = {"amount"} /\ {"date", "description"} \subseteq columns)
            => \A a \in rows.answer : \A e \in a.entries :
                   /\ e.amount = 7
                   /\ e.type = IF a.money \in {"debit", "withdrawal"} THEN "debit" ELSE "credit"

(* If any row looks like a header, the sheet is read the same under a title of
   one cell and with its columns numbered below the header; a row more, which
   looks no more like one, leaves the columns and the rows that were read.
   A model that names the same columns reads the same rows, from the first
   one on that it points to (data_processor.go, 299-393, 406-494, 538-658 and
   756; ties, sparse rows and the scan limit have no test). *)
HeadersFound ==
    Computed("sheet") =>
        LET sheet == rows.job.sheet
            width == Widest(sheet)
            header == DetectHeaderRow(sheet)
            seen == {i \in DOMAIN sheet : MayBeHeader(sheet[i], width)}
        IN  /\ seen # {} /\ width = 4 /\ Len(sheet) < HeaderScanLimit
                  => rows.answer.titled = rows.answer.read
            /\ seen # {} => rows.answer.numbered = rows.answer.read
            /\ \A row \in SheetRows :
                  /\ seen # {} /\ Len(row) <= width
                  /\ ResolveHeaders(sheet).data \in DOMAIN sheet
                  /\ MayBeHeader(row, width) /\ Len(sheet) < HeaderScanLimit
                        => ~Higher(HeaderScore(row), HeaderScore(sheet[header]))
                  => /\ rows.answer.longer[row].columns = rows.answer.read.columns
                     /\ IsPrefix(rows.answer.read.rows, rows.answer.longer[row].rows)
            /\ \A first \in DOMAIN rows.answer.told :
                  IsSuffix(rows.answer.told[first].rows, rows.answer.read.rows)

(* A saved mapping is taken without asking the model only for a file that has
   at least one of its columns, and the columns that it has keep their fields.
   Two columns are then mapped to one field only if two saved ones are, or
   their names are alike to the same or to several of them (column_mapper.go,
   550-706 and 861: the saved mappings are ranged over in any order). *)
MappingsApart ==
    Computed("names") =>
        LET columns == rows.job.columns
            saved == rows.job.saved
            asked == \E result \in rows.answer : result.mapping = <<>>
            AlikeTo(col) == {old \in DOMAIN saved : Letters(col, old) <= 3}
        IN  asked \/ (/\ columns \cap DOMAIN saved # {}
                     /\ \A result \in rows.answer :
                          /\ \A col \in columns \cap DOMAIN saved :
                                result.mapping[col] = saved[col]
                          /\ \/ DetectConflicts(result.mapping) = {}
                             \/ DetectConflicts(saved) # {}
                             \/ \E col \in columns : Cardinality(AlikeTo(col)) # 1
                             \/ \E a, b \in columns : a # b /\ AlikeTo(a) = AlikeTo(b))

(* Whatever side a file of both is said to be of, a row with figures in
   columns of one side only, one column to a field, becomes the same
   transaction, and no column of one side feeds the other's fields
   (session_service.go, 1421-1519). *)
CombinedReadsTheSame ==
    Computed("import") =>
        LET fixed == rows.answer["sales"].fixed
            filled == {col \in DOMAIN fixed : rows.job.cells[col.id] # 0}
        IN  IsMixed(DOMAIN fixed)
            => /\ \A said \in Sides, col \in DOMAIN fixed :
                     SideOf(col) \in Sides => rows.answer[said].fixed[col].side = SideOf(col)
               /\ (/\ filled # {} /\ \A said \in Sides : DetectConflicts(rows.answer[said].fixed) = {}
                   /\ \E side \in Sides : \A col \in filled : SideOf(col) = side)
                  => rows.answer["sales"].txns = rows.answer["purchase"].txns

(* Sales and purchases are imported alike: a row and its mirror image become
   mirror images, unless both sides have a tax, or both an amount of the kinds
   that decide its VAT type, or one side has nothing but what is exempt or
   zero-rated (session_service.go, 320-520, with the sides' names written
   out each time). *)
RowsMirrored ==
    Computed("row") =>
        LET Has(what, side) == Cell(rows.job.cells, what, side) # 0
            Only(side) == \E w \in {"exempt", "zero"} : Has(w, side)
                              /\ \A v \in {"gross", "vatable", "tax", "party"} : ~Has(v, side)
        IN  (/\ rows.job.said \in Sides
             /\ \A what \in {"tax", "exempt", "zero", "vatable"} :
                   ~(\A side \in Sides : Has(what, side))
             /\ \A side \in Sides : ~Only(side))
            => rows.answer.mirrored = {[t EXCEPT !.source = Other(@)] : t \in rows.answer.row}

(* A workbook of a sheet of sales and one of purchases: every row is imported
   once, after those above it, on its sheet's side if both were asked for, on
   the side it is said to be of if one was; but of a sheet that could not be
   cleaned only the rows that were shown (data_handler.go, 115-150;
   session_handler.go, 197-314). *)
WorkbookImported ==
    Computed("workbook") =>
        LET given == <<rows.job.first, rows.job.second>>
            Kept(i) == IF i \in rows.job.cleaned THEN given[i] ELSE Min({MaxPreviewRows, given[i]})
            From(i, side) == [k \in 1..Kept(i) |-> {<<side, k>>}]
            Sided(txns) == [i \in DOMAIN txns |-> {<<t.source, t.amount>> : t \in txns[i]}]
        IN  {Sided(txns) : txns \in rows.answer}
            = IF rows.job.asked # 0 THEN {From(rows.job.asked, rows.job.said)}
              ELSE {From(1, "sales") \o From(2, "purchase"), From(2, "purchase") \o From(1, "sales")}

(* What is read of a spreadsheet is what it says. *)
SheetsRead ==
    /\ HeadersFound
    /\ MappingsApart
    /\ CombinedReadsTheSame
    /\ RowsMirrored
    /\ WorkbookImported

(* Nothing is matched twice or lost, and splits are what they claim to be. *)
MatchingSound == EntriesOnce /\ SplitsAddUp /\ AnomaliesFit /\ AuditFits

(* Forms that are calculated along two paths come out the same. *)
FormsAgree == CorporateFormsAgree /\ DeclaredAgrees /\ StatementsFit
=============================================================================
