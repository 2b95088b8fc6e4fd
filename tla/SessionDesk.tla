---------------------------- MODULE SessionDesk ----------------------------
(***************************************************************************)
(* What is done beside the flow of a reconciliation session: the detection *)
(* of anomalies and their resolution (service/session_service.go), and the *)
(* batches of bank reconciliations with the suggestions for what they left *)
(* unmatched (service/bank_recon_service.go, match_analyzer.go), with      *)
(* their handlers.                                                         *)
(***************************************************************************)
EXTENDS Requests, Anomalies, BankParser

CONSTANTS
    Uploads,      \* [records: sheets, bank: sheets] that are sent to be reconciled
    Matches,      \* the pairs MatchTransactions finds, a sequence
    Suggestions   \* what the model may suggest for the rest, a set of sequences

SessionDeskParts == {"anomalies", "batches"}

Pairings == ToSet(Matches) \cup UNION {ToSet(list) : list \in Suggestions}
Distinct(list) == \A i, j \in DOMAIN list : list[i] = list[j] => i = j

ASSUME SessionDeskAssumption ==
    /\ Matches \in Seq(Pairings) /\ Suggestions \subseteq Seq(Pairings)
    /\ \A list \in Suggestions : Distinct(list)

(* The tables.  txns: the rows of the session, which stay; anomalies: id ->
   [anomaly, status]; batches: [status, summary, pairs, suggestions, total] in
   the order of creation.  Remembered besides: how often a detection `ended`,
   whether a statement whose error is ignored `failed`; of each batch what was
   suggested (`offered`), and the suggestions rejected. *)
AnomalyFields == {"txns", "anomalies", "made", "ended", "failed"}
BatchFields == {"batches", "offered", "rejected", "failed"}
BatchRows ==
    [status : {"pending", "parsing", "matching", "analyzing", "completed"}, summary : BOOLEAN,
     pairs : Seq(Pairings), suggestions : Seq(Pairings), total : Nat]

-----------------------------------------------------------------------------
(* Queries. *)
CreateAnomaly(db, anomaly) ==
    [db EXCEPT !.anomalies = With(@, db.made + 1, [anomaly |-> anomaly, status |-> "open"]),
               !.made = @ + 1]

(* Mutant: what has been resolved stays. *)
DeleteOpenAnomalies(db) ==
    [db EXCEPT !.anomalies =
        Without(@, {a \in DOMAIN @ : @[a].status = "open"})]

DeleteAnomaliesBySession(db) == [db EXCEPT !.anomalies = Without(@, DOMAIN @)]

GetAnomalyByID(db, a) == DOMAIN db.anomalies \cap {a}

UpdateAnomaly(db, a, status) ==
    [db EXCEPT !.anomalies = [i \in DOMAIN @ |-> IF i = a THEN [@[i] EXCEPT !.status = status]
                                                          ELSE @[i]]]

ListAnomaliesBySessionFiltered(db, status) ==
    {a \in DOMAIN db.anomalies : status \in {"", db.anomalies[a].status}}

CountAnomaliesBySessionFiltered(db, status) ==
    Cardinality(ListAnomaliesBySessionFiltered(db, status))

CreateBankReconBatch(db) ==
    [db EXCEPT !.batches = Append(@, [status |-> "pending", summary |-> FALSE, pairs |-> <<>>,
                                      suggestions |-> <<>>, total |-> 0]),
               !.offered = Append(@, <<>>), !.rejected = Append(@, 0)]

(* The whole row: what a caller leaves out is emptied. *)
UpdateBankReconBatch(db, b, batch) == [db EXCEPT !.batches[b] = batch]

GetBankReconBatchByID(db, b) == DOMAIN db.batches \cap {b}

ListBankReconBatchesByCompany(db) == DOMAIN db.batches

CountBankReconBatchesByCompany(db) == Len(db.batches)

-----------------------------------------------------------------------------
(* What the handlers make of the outcomes of the services. *)
DetectResponses == [Done |-> 200, Failed |-> 500]
ListResponses == [Done |-> 200]
ResolveResponses == [Done |-> 200, NotFound |-> 404]
ProcessResponses == [Done |-> 200, NoData |-> 400, Failed |-> 500]
AcceptResponses == [Done |-> 200, OutOfRange |-> 500]
GetResponses == [Done |-> 200, NotFound |-> 404]

(* A statement whose error the caller ignores. *)
Ignoring(effect) == rows' = effect \/ rows' = [rows EXCEPT !.failed = TRUE]

-----------------------------------------------------------------------------
(* Anomalies: the rows are read, the old anomalies deleted, the new ones
   inserted, each in a statement of its own. *)
DetectAnomalies(c) ==
    /\ Free({"anomalies"}, c)
    /\ Reads
    /\ IF rows.txns = <<>>
       THEN AnswerAtOnce(c, "detect", DetectResponses.Failed)
       ELSE Begin(c, [op |-> "detect", at |-> "delete", todo |-> RunAnomalyDetection(rows.txns)])

DetectDeletes(c) ==
    /\ At(c, "detect", "delete")
    /\ Ignoring(DeleteAnomaliesBySession(rows))
    /\ Continue(c, [calls[c] EXCEPT !.at = "insert"])

DetectInserts(c) ==
    /\ At(c, "detect", "insert")
    /\ \E anomaly \in calls[c].todo :
           /\ Ignoring(CreateAnomaly(rows, anomaly))
           /\ Continue(c, [calls[c] EXCEPT !.todo = @ \ {anomaly}])

DetectAnswers(c) ==
    /\ At(c, "detect", "insert") /\ calls[c].todo = {}
    /\ Store([rows EXCEPT !.ended = @ + 1])
    /\ Answer(c, DetectResponses.Done)

ListAnomalies(c) ==
    /\ Free({"anomalies"}, c)
    /\ \E status \in {"", "open", "resolved"} :
           /\ Reads
           /\ Begin(c, [op |-> "anomalies", at |-> "count", status |-> status,
                        listed |-> ListAnomaliesBySessionFiltered(rows, status)])

ListAnomaliesCounts(c) ==
    /\ At(c, "anomalies", "count") /\ Reads
    /\ Continue(c, [op |-> "anomalies", at |-> "answered", listed |-> calls[c].listed,
                    total |-> CountAnomaliesBySessionFiltered(rows, calls[c].status),
                    status |-> ListResponses.Done])

ResolveAnomaly(c) ==
    /\ Free({"anomalies"}, c)
    /\ \E a \in 1..rows.made, status \in {"resolved", "ignored"} :
           /\ Reads
           /\ IF GetAnomalyByID(rows, a) = {}
              THEN AnswerAtOnce(c, "resolve", ResolveResponses.NotFound)
              ELSE Begin(c, [op |-> "resolve", at |-> "update", id |-> a, asked |-> status])

ResolveUpdates(c) ==
    /\ At(c, "resolve", "update")
    /\ Ignoring(UpdateAnomaly(rows, calls[c].id, calls[c].asked))
    /\ Continue(c, [calls[c] EXCEPT !.at = "reread"])

(* An anomaly that is gone by now is answered as an empty one. *)
ResolveAnswers(c) ==
    LET a == GetAnomalyByID(rows, calls[c].id)
    IN  /\ At(c, "resolve", "reread") /\ Reads
        /\ Continue(c, [op |-> "resolve", at |-> "answered", asked |-> calls[c].asked,
                        shown |-> {rows.anomalies[i].status : i \in a},
                        status |-> ResolveResponses.Done])

-----------------------------------------------------------------------------
(* Batches.  Of the sheets of an uploaded workbook the records come from any
   one; the columns of the statement come from any one, and its rows from any
   one that has rows, which need not be the same: the map chooses each time. *)
ChosenSheets(sheets) ==
    LET filled == {sheet \in sheets : sheet.rows # <<>>}
    IN  IF filled = {} THEN {<<sheet.columns, <<>> >> : sheet \in sheets}
        ELSE {<<sheet.columns, other.rows>> : sheet \in sheets, other \in filled}

Process(c) ==
    /\ Free({"batches"}, c)
    /\ \E upload \in Uploads : \E records \in upload.records, bank \in ChosenSheets(upload.bank) :
           IF records.rows = <<>> /\ bank[2] = <<>>
           THEN Reads /\ AnswerAtOnce(c, "process", ProcessResponses.NoData)
           ELSE \/ Reads /\ AnswerAtOnce(c, "process", ProcessResponses.Failed)
                \/ \E name \in DetectBankFormat(bank[1]) :
                     /\ Store(CreateBankReconBatch(rows))
                     /\ Begin(c, [op |-> "process", at |-> "parsing", id |-> Len(rows.batches) + 1,
                                  total |-> Len(records.rows)
                                     + Len(ParseBankStatement(bank[2], BankFormats[name]))])

(* The six updates of a run, of which those that say only how far it is empty
   the rest of the row, and the last restores it. *)
After == [parsing |-> "parsed", parsed |-> "matching", matching |-> "matched",
          matched |-> "analyzing", analyzing |-> "completed", completed |-> "answered"]

Written(step, total) ==
    LET bare == [status |-> step, summary |-> FALSE, pairs |-> <<>>, suggestions |-> <<>>,
                 total |-> 0]
    IN  CASE step = "parsed" ->
               [bare EXCEPT !.status = "parsing", !.summary = TRUE, !.total = total]
          [] step = "matched" -> [bare EXCEPT !.status = "matching", !.pairs = Matches]
          [] step = "completed" ->
               [bare EXCEPT !.summary = TRUE, !.total = total, !.pairs = Matches]
          [] OTHER -> bare

BatchRuns(c) ==
    LET call == calls[c]
    IN  /\ call.op = "process" /\ call.at \in DOMAIN After \ {"completed"}
        /\ Ignoring(UpdateBankReconBatch(rows, call.id, Written(call.at, call.total)))
        /\ Continue(c, [call EXCEPT !.at = After[@]])

(* The model answers, in whatever words, or not at all. *)
BatchCompletes(c) ==
    LET call == calls[c]
        batch == Written("completed", call.total)
    IN  /\ At(c, "process", "completed")
        /\ \E list \in Suggestions \cup {<<>>} :
               Ignoring([UpdateBankReconBatch(rows, call.id, [batch EXCEPT !.suggestions = list])
                         EXCEPT !.offered[call.id] = list])
        /\ Answer(c, ProcessResponses.Done)

(* GetBatch, behind three of the handlers; running the analysis again is one. *)
GetBatch(c) ==
    /\ Free({"batches"}, c)
    /\ \E b \in 1..2 :
           /\ Reads
           /\ IF GetBankReconBatchByID(rows, b) = {}
              THEN AnswerAtOnce(c, "batch", GetResponses.NotFound)
              ELSE AnswerAtOnce(c, "batch", GetResponses.Done)

ListBatches(c) ==
    /\ Free({"batches"}, c) /\ Reads
    /\ Begin(c, [op |-> "batches", at |-> "count", listed |-> ListBankReconBatchesByCompany(rows)])

ListBatchesCounts(c) ==
    /\ At(c, "batches", "count") /\ Reads
    /\ Continue(c, [op |-> "batches", at |-> "answered", listed |-> calls[c].listed,
                    total |-> CountBankReconBatchesByCompany(rows), status |-> ListResponses.Done])

(* A decision about a suggestion, by its place in the list as read: accepted
   it becomes a pair, and either way it leaves the list. *)
Decided(batch, i, accepted) ==
    [batch EXCEPT !.suggestions = RemoveAt(@, i),
                  !.pairs = IF accepted THEN Append(@, batch.suggestions[i]) ELSE @]

UpdateSuggestionStatus(c) ==
    /\ Free({"batches"}, c)
    /\ \E b \in DOMAIN rows.batches, i \in 1..2, accepted \in BOOLEAN :
           /\ Reads
           /\ IF i \notin DOMAIN rows.batches[b].suggestions
              THEN AnswerAtOnce(c, "decide", AcceptResponses.OutOfRange)
              ELSE Begin(c, [op |-> "decide", at |-> "write", id |-> b, accepted |-> accepted,
                             row |-> Decided(rows.batches[b], i, accepted)])

SuggestionWrites(c) ==
    LET call == calls[c]
        effect == UpdateBankReconBatch(rows, call.id, call.row)
    IN  /\ At(c, "decide", "write")
        /\ Ignoring([effect EXCEPT !.rejected[call.id] = @ + (IF call.accepted THEN 0 ELSE 1)])
        /\ Continue(c, [call EXCEPT !.at = "reread"])

SuggestionAnswers(c) == At(c, "decide", "reread") /\ Reads /\ Answer(c, AcceptResponses.Done)

SessionDeskNext ==
    \E c \in Serving(SessionDeskParts) :
        \/ DetectAnomalies(c) \/ DetectDeletes(c) \/ DetectInserts(c) \/ DetectAnswers(c)
        \/ ListAnomalies(c) \/ ListAnomaliesCounts(c)
        \/ ResolveAnomaly(c) \/ ResolveUpdates(c) \/ ResolveAnswers(c)
        \/ Process(c) \/ BatchRuns(c) \/ BatchCompletes(c) \/ GetBatch(c)
        \/ ListBatches(c) \/ ListBatchesCounts(c)
        \/ UpdateSuggestionStatus(c) \/ SuggestionWrites(c) \/ SuggestionAnswers(c)

-----------------------------------------------------------------------------
AnomaliesStart(db) ==
    /\ DOMAIN db = AnomalyFields
    /\ db.made \in Nat /\ DOMAIN db.anomalies \subseteq 1..db.made
    /\ \A a \in DOMAIN db.anomalies : DOMAIN db.anomalies[a] = {"anomaly", "status"}
    /\ db.ended = 0 /\ ~db.failed

(* Of a completed batch no suggestion has been decided, or some have, each one
   way. *)
BatchesStart(db) ==
    /\ DOMAIN db = BatchFields
    /\ db.batches \in Seq(BatchRows) /\ db.offered \in Seq(Seq(Pairings)) /\ db.rejected \in Seq(Nat)
    /\ Len(db.offered) = Len(db.batches) /\ Len(db.rejected) = Len(db.batches) /\ ~db.failed
    /\ \A b \in DOMAIN db.batches :
         LET batch == db.batches[b]
         IN  /\ Distinct(batch.suggestions)
             /\ batch.status = "completed" =>
                  /\ batch.summary /\ IsPrefix(Matches, batch.pairs)
                  /\ Len(batch.pairs) - Len(Matches) + Len(batch.suggestions) + db.rejected[b]
                        = Len(db.offered[b])
                  /\ \A i \in DOMAIN batch.pairs, j \in DOMAIN batch.suggestions :
                        i > Len(Matches) => batch.pairs[i] # batch.suggestions[j]

SessionDeskInit ==
    /\ part \in SessionDeskParts
    /\ part = "anomalies" => AnomaliesStart(rows)
    /\ part = "batches" => BatchesStart(rows)
    /\ RequestsInit

SessionDeskSpec == SessionDeskInit /\ [][SessionDeskNext]_requestVars

(* When no detection is between its delete and its answer and no statement has
   failed, each anomaly of the session is on file, once if requests come one
   at a time and at most once per goroutine otherwise, whatever was resolved
   before (session_service.go, 997-1031: no transaction around them). *)
AnomaliesOnFile ==
    (rows.ended > 0 /\ Waiting("detect", "insert") = {} /\ ~rows.failed) =>
        LET Copies(a) == {i \in DOMAIN rows.anomalies : rows.anomalies[i].anomaly = a}
        IN  /\ {rows.anomalies[i].anomaly : i \in DOMAIN rows.anomalies}
                   = RunAnomalyDetection(rows.txns)
            /\ \A a \in RunAnomalyDetection(rows.txns) :
                   Cardinality(Copies(a)) \in 1..(IF Alone THEN 1 ELSE Cardinality(Callers))

(* Alone, the answer to a resolution shows it, and a list as many anomalies as
   it counts (1074-1096 and 1037-1071: two statements each). *)
ResolutionShown ==
    (Alone /\ ~rows.failed) =>
        \A c \in Callers :
            /\ calls[c].op = "resolve" /\ "shown" \in DOMAIN calls[c]
                   => calls[c].shown = {calls[c].asked}
            /\ At(c, "anomalies", "answered") => calls[c].total = Cardinality(calls[c].listed)

(* A completed batch shows the pairs of its matching, before those accepted,
   and what it was made of, although the run empties its row again and again
   and the decisions write back rows they read (bank_recon_service.go, 104-242
   and 348). *)
CompletedKeepsMatches ==
    \A b \in DOMAIN rows.batches : rows.batches[b].status = "completed" =>
        IsPrefix(Matches, rows.batches[b].pairs) /\ rows.batches[b].summary

(* Alone, every suggestion is still offered, accepted or rejected, and only
   one of these. *)
SuggestionsAccounted ==
    (Alone /\ ~rows.failed) =>
        \A b \in DOMAIN rows.batches :
            LET batch == rows.batches[b]
                accepted == SubSeq(batch.pairs, Len(Matches) + 1, Len(batch.pairs))
            IN  batch.status = "completed" =>
                    /\ Len(accepted) + Len(batch.suggestions) + rows.rejected[b]
                           = Len(rows.offered[b])
                    /\ ToSet(accepted) \cap ToSet(batch.suggestions) = {}

SessionDeskSound ==
    /\ part = "anomalies" => AnomaliesOnFile /\ ResolutionShown
    /\ part = "batches" => CompletedKeepsMatches /\ SuggestionsAccounted
=============================================================================
