---------------------------- MODULE ReconSession ----------------------------
(***************************************************************************)
(* A reconciliation session: files become transactions, transactions are   *)
(* classified, summarised and matched (session_service.go), a bank         *)
(* reconciliation matches records too and announces it                     *)
(* (bank_recon_service.go), and the worker books what is matched           *)
(* (worker/event_handlers.go).                                             *)
(*                                                                         *)
(* Every handler reads the session's row once and later writes the whole   *)
(* row back from what it read, without a transaction or a version.  A file *)
(* has one row, so a transaction stands for its file too.  What is matched *)
(* with what is decided by MatchEngine; here Pairs match when both of      *)
(* their transactions are there.                                           *)
(***************************************************************************)
EXTENDS Integers, FiniteSets, Sequences, SequencesExt

CONSTANTS
    Records,     \* transactions of sales and purchase files
    Entries,     \* transactions of bank statement files
    Pairs,       \* set of <<record, bank entry>> that match
    Handlers,    \* requests that can be in progress at once
    Workers,     \* tasks the worker runs at once
    Gone,        \* the session after it was deleted
    None,        \* a JSON column that is NULL
    MaxRequests, \* requests begun
    MaxFaults    \* failed statements, failed calls and processes that die

Txns == Records \cup Entries

ASSUME ReconAssumption ==
    /\ IsFiniteSet(Txns)
    /\ Pairs \subseteq Records \X Entries
    /\ Records \cap Entries = {}
    /\ \A p, q \in Pairs : p[1] = q[1] <=> p[2] = q[2]
    /\ IsFiniteSet(Workers)
    /\ MaxRequests \in Nat
    /\ MaxFaults \in Nat

VARIABLES
    session,  \* row of reconciliation_sessions
    rows,     \* its transactions
    req,      \* what each handler is doing
    events,   \* reconciliation_completed tasks in the queue
    job,      \* what each worker task is doing
    booked,   \* draft entries in the ledger, per transaction
    requests, \* auxiliary: requests begun
    faults,   \* auxiliary: faults so far
    raced     \* auxiliary: two requests have been in progress at once

vars == <<session, rows, req, events, job, booked, requests, faults, raced>>
aux == <<requests, faults, raced>>

NoGroup == [by |-> "nobody", n |-> 0]
Groups == {NoGroup} \cup [by : {"session", "batch"}, n : 1..MaxRequests]

(* A transaction of the session: who classified it, its match group and
   whether its journal_entry_id is set. *)
NoRow == [here |-> FALSE, class |-> "none", group |-> NoGroup, linked |-> FALSE]
Row == [here : BOOLEAN, class : {"none", "ai", "user"}, group : Groups, linked : BOOLEAN]

Session == [status : {"draft", "classifying", "reviewing", "completed"},
            files : SUBSET Txns,
            summary : {None} \cup SUBSET Txns, result : {None} \cup SUBSET Txns]

(* No data is a marker. *)
ASSUME MarkersAssumption == Gone \notin Session /\ None \notin Txns /\ \A S \in SUBSET Txns : None # S

(* A request, with what it knows when it begins. *)
Request(op, pc, seen) ==
    [pc |-> pc, op |-> op, force |-> FALSE, file |-> None, seen |-> seen,
     list |-> {}, todo |-> <<>>, group |-> NoGroup]
Idle == Request("none", "idle", Gone)
NoJob == [pc |-> "idle", todo |-> {}, txn |-> None]

Here == {t \in Txns : rows[t].here}

(* CreateSession *)
Init ==
    /\ session = [status |-> "draft", files |-> {}, summary |-> None, result |-> None]
    /\ rows = [t \in Txns |-> NoRow]
    /\ req = [h \in Handlers |-> Idle]
    /\ events = 0
    /\ job = [w \in Workers |-> NoJob]
    /\ booked = [t \in Txns |-> 0]
    /\ requests = 0 /\ faults = 0 /\ raced = FALSE

-----------------------------------------------------------------------------
(* A request begins with reading the row of the session; the row is written
   whole, and not at all when it is gone. *)

Fault == faults < MaxFaults /\ faults' = faults + 1

Count ==
    /\ requests < MaxRequests
    /\ requests' = requests + 1
    /\ raced' = (raced \/ \E h \in Handlers : req[h].pc # "idle")
    /\ UNCHANGED faults

Is(h, local) == req' = [req EXCEPT ![h] = local]

Begin(h, local) ==
    /\ req[h].pc = "idle"
    /\ Count
    /\ Is(h, local)
    /\ UNCHANGED <<session, rows, events, job, booked>>

At(local, pc) == [local EXCEPT !.pc = pc]
GoTo(h, pc) == Is(h, At(req[h], pc))
Finish(h) == Is(h, Idle)

(* UpdateReconciliationSession *)
WriteRow(row) == session' = IF session = Gone THEN Gone ELSE row

-----------------------------------------------------------------------------
(* AddFile *)

AddFile(h, t) ==
    /\ session # Gone
    /\ ~rows[t].here /\ \A g \in Handlers : req[g].file # t
    /\ Begin(h, [Request("addFile", "import", session) EXCEPT !.file = t])

Imported(row) == [row EXCEPT !.here = TRUE]

(* A row that cannot be inserted is skipped, and the file listed all the
   same; without its session it cannot. *)
Import(h) ==
    /\ req[h].pc = "import"
    /\ \/ session # Gone /\ rows' = [rows EXCEPT ![req[h].file] = Imported(@)] /\ UNCHANGED faults
       \/ session = Gone /\ UNCHANGED <<rows, faults>>
       \/ Fault /\ UNCHANGED rows
    /\ GoTo(h, "files")
    /\ UNCHANGED <<session, events, job, booked, requests, raced>>

(* Mutant: only what AddFile is about is written, the rest is left empty. *)
OnlyFile(row, t) == [row EXCEPT !.files = @ \cup {t}, !.summary = None, !.result = None]
WithFile(row, t) == [row EXCEPT !.files = @ \cup {t}]

WriteFiles(h) ==
    /\ req[h].pc = "files"
    /\ WriteRow(WithFile(req[h].seen, req[h].file))
    /\ Finish(h)
    /\ UNCHANGED <<rows, events, job, booked, aux>>

-----------------------------------------------------------------------------
(* ListAllTransactionsBySession, for all but AddFile and Delete.  Nothing to
   classify or to reconcile ends the request. *)

ToClassify(force) == IF force THEN Here ELSE {t \in Here : rows[t].class = "none"}

(* The writes of a reconciliation: the record of each pair, then its entry.
   Those of a bank reconciliation: its records; its entries are parsed from
   the statement and are no transactions. *)
PairsOf(S) == {p \in Pairs : {p[1], p[2]} \subseteq S}

(* Mutant: the bank entry of a pair is not written. *)
RecordWrites(S) == [i \in DOMAIN SetToSeq(PairsOf(S)) |-> SetToSeq(PairsOf(S))[i][1]]
MatchWrites(S) == LET ps == SetToSeq(PairsOf(S))
                  IN  [i \in 1..2 * Len(ps) |-> IF i % 2 = 1 THEN ps[(i + 1) \div 2][1]
                                                           ELSE ps[i \div 2][2]]

Listed(local, pc, todo) ==
    [pc |-> pc, op |-> local.op, force |-> local.force, file |-> local.file, seen |-> local.seen,
     list |-> Here, todo |-> todo, group |-> local.group]

ListRows(h) ==
    /\ req[h].pc = "list"
    /\ \/ /\ req[h].op = "classify" /\ ToClassify(req[h].force) # {}
          /\ Is(h, Listed(req[h], "mark", SetToSeq(ToClassify(req[h].force))))
       \/ req[h].op = "classify" /\ ToClassify(req[h].force) = {} /\ Finish(h)
       \/ req[h].op = "summary" /\ Is(h, Listed(req[h], "summary", <<>>))
       \/ req[h].op = "reconcile" /\ Here # {} /\ Is(h, Listed(req[h], "match", MatchWrites(Here)))
       \/ req[h].op = "reconcile" /\ Here = {} /\ Finish(h)
    /\ UNCHANGED <<session, rows, events, job, booked, aux>>

-----------------------------------------------------------------------------
(* ClassifySession *)

Classify(h, force) ==
    /\ session # Gone
    /\ Begin(h, [Request("classify", "list", session) EXCEPT !.force = force])

WithStatus(row, status) == [row EXCEPT !.status = status]

MarkClassifying(h) ==
    /\ req[h].pc = "mark"
    /\ WriteRow(WithStatus(req[h].seen, "classifying"))
    /\ GoTo(h, "classify")
    /\ UNCHANGED <<rows, events, job, booked, aux>>

(* The model cannot be reached: the session stays in classifying. *)
ClassifierFails(h) ==
    /\ req[h].pc = "classify"
    /\ Fault /\ Finish(h)
    /\ UNCHANGED <<session, rows, events, job, booked, requests, raced>>

Classed(row, by) == [row EXCEPT !.class = by]
Rest(local) == [local EXCEPT !.todo = Tail(@)]

(* Row by row, from the list made before the model was asked. *)
ClassifyRow(h) ==
    LET t == Head(req[h].todo)
    IN  /\ req[h].pc = "classify" /\ req[h].todo # <<>>
        /\ rows' = IF rows[t].here THEN [rows EXCEPT ![t] = Classed(@, "ai")] ELSE rows
        /\ Is(h, Rest(req[h]))
        /\ UNCHANGED <<session, events, job, booked, aux>>

WriteReviewing(h) ==
    /\ req[h].pc = "classify" /\ req[h].todo = <<>>
    /\ WriteRow(WithStatus(req[h].seen, "reviewing"))
    /\ Finish(h)
    /\ UNCHANGED <<rows, events, job, booked, aux>>

(* UpdateTransaction: what it reads first is only to check the row is there. *)
UpdateTransaction(t) ==
    /\ rows[t].here
    /\ Count
    /\ rows' = [rows EXCEPT ![t] = Classed(@, "user")]
    /\ UNCHANGED <<session, req, events, job, booked>>

-----------------------------------------------------------------------------
(* GetVATSummary, a GET that writes *)

WithSummary(row, S) == [row EXCEPT !.summary = S]

GetVATSummary(h) == session # Gone /\ Begin(h, Request("summary", "list", session))

WriteSummary(h) ==
    /\ req[h].pc = "summary"
    /\ WriteRow(WithSummary(req[h].seen, req[h].list))
    /\ Finish(h)
    /\ UNCHANGED <<rows, events, job, booked, aux>>

-----------------------------------------------------------------------------
(* ReconcileSession and RunReconciliation *)

InGroup(local, group) == [local EXCEPT !.group = group]

Reconcile(h) ==
    /\ session # Gone
    /\ Begin(h, InGroup(Request("reconcile", "list", session), [by |-> "session", n |-> requests + 1]))

(* Records of the session sent to a bank reconciliation *)
RunReconciliation(h, t) ==
    /\ rows[t].here /\ t \in Records
    /\ Begin(h, InGroup([Request("batch", "match", Gone) EXCEPT !.todo = <<t>>],
                        [by |-> "batch", n |-> requests + 1]))

Grouped(row, group) == [row EXCEPT !.group = group]

WriteMatch(h) ==
    LET t == Head(req[h].todo)
    IN  /\ req[h].pc = "match" /\ req[h].todo # <<>>
        /\ rows' = IF rows[t].here THEN [rows EXCEPT ![t] = Grouped(@, req[h].group)] ELSE rows
        /\ Is(h, Rest(req[h]))
        /\ UNCHANGED <<session, events, job, booked, aux>>

Completed(row, S) == [status |-> "completed", files |-> row.files, summary |-> S, result |-> S]

WriteCompleted(h) ==
    /\ req[h].pc = "match" /\ req[h].op = "reconcile" /\ req[h].todo = <<>>
    /\ WriteRow(Completed(req[h].seen, req[h].list))
    /\ Finish(h)
    /\ UNCHANGED <<rows, events, job, booked, aux>>

(* The event is lost when it cannot be enqueued. *)
Publish(h) ==
    /\ req[h].pc = "match" /\ req[h].op = "batch" /\ req[h].todo = <<>>
    /\ \/ events' = events + 1 /\ UNCHANGED faults
       \/ Fault /\ UNCHANGED events
    /\ Finish(h)
    /\ UNCHANGED <<session, rows, job, booked, requests, raced>>

-----------------------------------------------------------------------------
(* DeleteSession: drafts only; the transactions go with the session. *)

Delete(h) ==
    /\ session # Gone /\ session.status = "draft"
    /\ Begin(h, Request("delete", "delete", session))

DeleteRow(h) ==
    /\ req[h].pc = "delete"
    /\ session' = Gone
    /\ rows' = [t \in Txns |-> NoRow]
    /\ Finish(h)
    /\ UNCHANGED <<events, job, booked, aux>>

-----------------------------------------------------------------------------
(* handleReconciliationCompleted *)

Task(w, pc, todo, txn) == job' = [job EXCEPT ![w] = [pc |-> pc, todo |-> todo, txn |-> txn]]
EndTask(w) == job' = [job EXCEPT ![w] = NoJob]

Deliver(w) ==
    /\ job[w].pc = "idle" /\ events > 0
    /\ events' = events - 1
    /\ Task(w, "list", {}, None)
    /\ UNCHANGED <<session, rows, req, booked, aux>>

Matched(t) == rows[t].here /\ rows[t].group # NoGroup

(* GetMatchedTransactionsWithoutJournal, of the company *)
MatchedWithoutJournal == {t \in Txns : Matched(t) /\ ~rows[t].linked}

(* When the list or the account of the bank cannot be read, the task is done
   and not retried. *)
ListMatched(w) ==
    /\ job[w].pc = "list"
    /\ \/ Task(w, "next", MatchedWithoutJournal, None) /\ UNCHANGED faults
       \/ Fault /\ EndTask(w)
    /\ UNCHANGED <<session, rows, req, events, booked, requests, raced>>

(* createJournalForTransaction: one that fails is passed over. *)
CreateEntry(w, t) ==
    /\ job[w].pc = "next" /\ t \in job[w].todo
    /\ \/ /\ booked' = [booked EXCEPT ![t] = @ + 1]
          /\ Task(w, "link", job[w].todo \ {t}, t)
          /\ UNCHANGED faults
       \/ /\ Fault /\ UNCHANGED booked
          /\ Task(w, "next", job[w].todo \ {t}, None)
    /\ UNCHANGED <<session, rows, req, events, requests, raced>>

LinkedRow(row) == [row EXCEPT !.linked = TRUE]

(* Mutant: the transaction is not linked to its entry. *)
LinkNothing(w) ==
    /\ job[w].pc = "link"
    /\ Task(w, "next", job[w].todo, None)
    /\ UNCHANGED <<session, rows, req, events, booked, aux>>

(* The error of the link is dropped. *)
LinkEntry(w) ==
    LET t == job[w].txn
    IN  /\ job[w].pc = "link"
        /\ \/ /\ rows' = IF rows[t].here THEN [rows EXCEPT ![t] = LinkedRow(@)] ELSE rows
              /\ UNCHANGED faults
           \/ Fault /\ UNCHANGED rows
        /\ Task(w, "next", job[w].todo, None)
        /\ UNCHANGED <<session, req, events, booked, requests, raced>>

TaskDone(w) ==
    /\ job[w].pc = "next" /\ job[w].todo = {}
    /\ EndTask(w)
    /\ UNCHANGED <<session, rows, req, events, booked, aux>>

-----------------------------------------------------------------------------
(* A request dies with its process; a task is delivered again. *)

RequestDies(h) ==
    /\ req[h].pc # "idle"
    /\ Fault /\ Finish(h)
    /\ UNCHANGED <<session, rows, events, job, booked, requests, raced>>

WorkerDies(w) ==
    /\ job[w].pc # "idle"
    /\ Fault
    /\ EndTask(w)
    /\ events' = events + 1
    /\ UNCHANGED <<session, rows, req, booked, requests, raced>>

Handle(h) ==
    \/ \E t \in Txns : AddFile(h, t) \/ RunReconciliation(h, t)
    \/ \E force \in BOOLEAN : Classify(h, force)
    \/ GetVATSummary(h) \/ Reconcile(h) \/ Delete(h)
    \/ Import(h) \/ WriteFiles(h) \/ ListRows(h)
    \/ MarkClassifying(h) \/ ClassifierFails(h) \/ ClassifyRow(h) \/ WriteReviewing(h)
    \/ WriteSummary(h) \/ WriteMatch(h) \/ WriteCompleted(h) \/ Publish(h)
    \/ DeleteRow(h) \/ RequestDies(h)

TaskStep(w) ==
    ListMatched(w) \/ (\E t \in Txns : CreateEntry(w, t)) \/ LinkEntry(w) \/ TaskDone(w)

Next ==
    \/ \E h \in Handlers : Handle(h)
    \/ \E t \in Txns : UpdateTransaction(t)
    \/ \E w \in Workers : Deliver(w) \/ TaskStep(w) \/ WorkerDies(w)

Spec == Init /\ [][Next]_vars

(* The worker polls its queue and runs a task it has taken to its end. *)
FairSpec ==
    /\ Spec
    /\ WF_vars(\E w \in Workers : Deliver(w))
    /\ \A w \in Workers : WF_vars(TaskStep(w))

-----------------------------------------------------------------------------
Requests ==
    [pc : {"idle", "import", "files", "list", "mark", "classify", "summary", "match", "delete"},
     op : {"none", "addFile", "classify", "summary", "reconcile", "batch", "delete"},
     force : BOOLEAN, file : Txns \cup {None}, seen : Session \cup {Gone},
     list : SUBSET Txns, todo : Seq(Txns), group : Groups]

(* Types; and a transaction exists only within its session. *)
TypeOK ==
    /\ session \in Session \cup {Gone}
    /\ rows \in [Txns -> Row]
    /\ session = Gone => Here = {}
    /\ req \in [Handlers -> Requests]
    /\ events \in Nat
    /\ job \in [Workers -> [pc : {"idle", "list", "next", "link"}, todo : SUBSET Txns,
                            txn : Txns \cup {None}]]
    /\ booked \in [Txns -> Nat]
    /\ requests \in 0..MaxRequests /\ faults \in 0..MaxFaults /\ raced \in BOOLEAN

(* However stale the rows that are written back, a completed session shows the
   result and the summary of one reconciliation: status, summary and result
   travel together through every whole-row write (session_service.go 534, 607,
   649, 1122 and 1261). *)
CompletedHasResult ==
    session # Gone /\ session.status = "completed" =>
        /\ session.result # None /\ session.summary # None
        /\ session.result # {}

(* While requests run one at a time and nothing fails, every imported file is
   on the session's list, whatever other operations have written the row since
   (session_service.go 524-542: the list is read before the import). *)
FilesListedAlone ==
    (~raced /\ faults = 0) =>
        \A t \in Here : t \in session.files \/ \E h \in Handlers : req[h].file = t

(* While requests run one at a time and nothing fails, the two sides of a pair
   that a session reconciliation matched are in the same group, unless it is
   being written or a bank reconciliation has taken the record since
   (session_service.go 1196-1215: two statements per pair). *)
PairsWholeAlone ==
    (~raced /\ faults = 0 /\ \A h \in Handlers : req[h].pc # "match") =>
        \A p \in Pairs : "session" \in {rows[p[1]].group.by, rows[p[2]].group.by} =>
            \/ rows[p[1]].group = rows[p[2]].group
            \/ rows[p[1]].group.by = "batch"

(* No more drafts of a transaction than tasks run at once and faults: the list
   of unlinked transactions stops every later task (event_handlers.go 125-158,
   account_mappings.sql.go 50). *)
EntriesBounded ==
    \A t \in Txns : booked[t] <= Cardinality(Workers) + faults

(* Nothing is booked or linked that no reconciliation has matched
   (event_handlers.go 125, where the query is the only guard). *)
OnlyMatchedBooked ==
    \A t \in Here : (booked[t] > 0 \/ rows[t].linked) => Matched(t) /\ booked[t] > 0

(* A matched transaction gets its entry from the next event in the queue,
   unless something fails or the session is deleted (event_handlers.go 104). *)
MatchedGetsEntry ==
    \A t \in Txns :
        (Matched(t) /\ events > 0) ~> (rows[t].linked \/ faults > 0 \/ session = Gone)

(* The session and its transactions as a whole. *)
SessionSound ==
    TypeOK /\ CompletedHasResult /\ FilesListedAlone /\ OnlyMatchedBooked /\ EntriesBounded
=============================================================================
