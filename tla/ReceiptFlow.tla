----------------------------- MODULE ReceiptFlow -----------------------------
(***************************************************************************)
(* Receipts sent to the Telegram bot (bot/receipt.go, bot/confirm.go),     *)
(* their approval (bot/approval.go, service/approval_service.go), and the  *)
(* way to the books: service/receipt_bridge.go turns each receipt of a     *)
(* completed batch into a transaction, service/journal_generator.go books  *)
(* it.  The api reaches the bridge, the generator and the approvals on its *)
(* own.                                                                    *)
(*                                                                         *)
(* The bot runs each update in a goroutine.  Every handler reads the batch *)
(* first and later writes a status that depends on nothing: no UPDATE of   *)
(* receipt_batches has a condition but the id.                             *)
(***************************************************************************)
EXTENDS Integers, Sequences, FiniteSets

CONSTANTS
    Batches,      \* identities of receipt batches, each of one picture
    Receipts,     \* Receipts[b]: how many receipts are on it; several when it is a
                  \* screenshot of the trips of a ride-hailing app
    BotRequests,  \* updates the bot handles at once
    ApiRequests,  \* requests the api handles at once
    Instances,    \* the bounds of a behaviour: its requests and batches, the rows of
                  \* its tables and the statements and processes that fail
    RiskFlags     \* the company setting risk_flags_require_approval; approvals are
                  \* enabled, with an amount threshold

Requests == BotRequests \cup ApiRequests

ASSUME ReceiptFlowAssumption ==
    /\ BotRequests \cap ApiRequests = {} /\ IsFiniteSet(Requests)
    /\ Receipts \in [Batches -> Nat \ {0}]
    /\ RiskFlags \in BOOLEAN
    /\ Instances \subseteq [requests : SUBSET Requests, batches : SUBSET Batches,
                             txns : Nat, entries : Nat, approvals : Nat, faults : Nat]

VARIABLES
    instance,   \* the bounds of this behaviour
    batch,      \* receipt_batches
    timer,      \* the goroutine that waits to cancel a batch
    approvals,  \* receipt_approvals, oldest first
    txns,       \* transactions, oldest first
    entries,    \* journal entries of transactions, oldest first
    req,        \* the local state of each request
    faults      \* the faults so far

vars == <<instance, batch, timer, approvals, txns, entries, req, faults>>
books == <<approvals, txns, entries>>

-----------------------------------------------------------------------------
Amounts == {"small", "large"}   \* below and above the approval threshold
Decisions == {"pending", "approved", "rejected"}

BatchRow == [status : {"none", "processing", "completed", "failed",
                        "pending_confirmation", "cancelled"},
             results : Seq(Amounts), approval : Decisions \cup {"none"},
             linked : Seq(Nat)]    \* transaction_ids
NoBatch == [status |-> "none", results |-> <<>>, approval |-> "none", linked |-> <<>>]
Txn == [batch : Batches, row : Nat, amount : Amounts, by : {"bot", "api"}, entry : Nat]
JournalEntry == [txn : Nat, status : {"draft", "posted"}]

Idle == [pc |-> "idle"]
Locals ==
    {Idle}
    \cup [pc : {"ocr", "cancel", "request", "flag", "complete", "convert"}, batch : Batches]
    \cup [pc : {"ask", "edit"}, batch : Batches, results : Seq(Amounts)]
    \cup [pc : {"evaluate"}, batch : Batches, amount : Amounts, duplicate : BOOLEAN]
    \cup [pc : {"record"}, batch : Batches, results : Seq(Amounts), made : Seq(Nat)]
    \cup [pc : {"decide"}, batch : Batches, decision : Decisions]
    \cup [pc : {"generate", "book"}, todo : Seq(Nat)]
    \cup [pc : {"link", "post"}, todo : Seq(Nat), entry : Nat]

TypeOK ==
    /\ instance \in Instances
    /\ batch \in [Batches -> BatchRow]
    /\ timer \in [Batches -> {"off", "armed", "due"}]
    /\ approvals \in Seq([batch : Batches, status : Decisions])
    /\ txns \in Seq(Txn) /\ \A t \in DOMAIN txns : txns[t].entry \in 0..Len(entries)
    /\ entries \in Seq(JournalEntry) /\ \A e \in DOMAIN entries : entries[e].txn \in DOMAIN txns
    /\ req \in [Requests -> Locals]
    /\ faults \in 0..instance.faults

Init ==
    /\ instance \in Instances
    /\ batch = [b \in Batches |-> NoBatch]
    /\ timer = [b \in Batches |-> "off"]
    /\ approvals = <<>> /\ txns = <<>> /\ entries = <<>>
    /\ req = [r \in Requests |-> Idle]
    /\ faults = 0

Fault == faults < instance.faults /\ faults' = faults + 1
NoFault == UNCHANGED faults

Goto(r, local) == req' = [req EXCEPT ![r] = local]
Done(r) == Goto(r, Idle)
Starts(r) == r \in instance.requests /\ req[r] = Idle
At(r, label) == req[r].pc = label

(* UpdateReceiptBatchStatus, UpdateReceiptBatch, UpdateBatchApprovalStatus *)
SetStatus(b, status) == batch' = [batch EXCEPT ![b].status = status]
SetResults(b, status, results) ==
    batch' = [batch EXCEPT ![b].status = status, ![b].results = results]
SetApproval(b, decision) == batch' = [batch EXCEPT ![b].approval = decision]

(* The guard every button and every reply starts with. *)
Pending(b) == batch[b].status = "pending_confirmation"

-----------------------------------------------------------------------------
(* processReceipt: ProcessBatch stores the results under status completed or
   failed, and looks past an error of that; the bot then asks for confirmation
   and starts the timeout. *)
Upload(r, b) ==
    /\ r \in BotRequests /\ Starts(r)
    /\ b \in instance.batches /\ batch[b] = NoBatch
    /\ SetStatus(b, "processing")
    /\ Goto(r, [pc |-> "ocr", batch |-> b])
    /\ UNCHANGED <<instance, timer, books, faults>>

Scan(b) == [1..Receipts[b] -> Amounts]

Recognise(r) ==
    /\ At(r, "ocr")
    /\ \/ \E results \in Scan(req[r].batch) :
            /\ \/ SetResults(req[r].batch, "completed", results) /\ NoFault
               \/ UNCHANGED batch /\ Fault
            /\ Goto(r, [pc |-> "ask", batch |-> req[r].batch, results |-> results])
       \/ SetStatus(req[r].batch, "failed") /\ Done(r) /\ NoFault
    /\ UNCHANGED <<instance, timer, books>>

(* The caption of the picture may say the amount of a single receipt. *)
WithFirst(results, amount) == [results EXCEPT ![1] = amount]
Captioned(results) ==
    IF Len(results) = 1 THEN {WithFirst(results, a) : a \in Amounts} ELSE {results}

(* Mutant: no timeout, as when a branch of processReceipt forgets to start it. *)
AskUntimed(r) ==
    /\ At(r, "ask")
    /\ SetResults(req[r].batch, "pending_confirmation", req[r].results)
    /\ Done(r)
    /\ UNCHANGED <<instance, timer, books, faults>>

Ask(r) ==
    /\ At(r, "ask")
    /\ \/ /\ \E results \in Captioned(req[r].results) :
               SetResults(req[r].batch, "pending_confirmation", results)
          /\ NoFault
       \/ UNCHANGED batch /\ Fault
    /\ timer' = [timer EXCEPT ![req[r].batch] = "armed"]
    /\ Done(r)
    /\ UNCHANGED <<instance, books>>

(* receiptTimeout *)
TimeoutRead(b) ==
    /\ timer[b] = "armed"
    /\ timer' = [timer EXCEPT ![b] = IF Pending(b) THEN "due" ELSE "off"]
    /\ UNCHANGED <<instance, batch, books, req, faults>>

TimeoutCancel(b) ==
    /\ timer[b] = "due"
    /\ \/ SetStatus(b, "cancelled") /\ NoFault
       \/ UNCHANGED batch /\ Fault
    /\ timer' = [timer EXCEPT ![b] = "off"]
    /\ UNCHANGED <<instance, books, req>>

(* handleReceiptCancel *)
CancelRead(r, b) ==
    /\ r \in BotRequests /\ Starts(r) /\ Pending(b)
    /\ Goto(r, [pc |-> "cancel", batch |-> b])
    /\ UNCHANGED <<instance, batch, timer, books, faults>>

CancelWrite(r) ==
    /\ At(r, "cancel")
    /\ SetStatus(req[r].batch, "cancelled")
    /\ Done(r)
    /\ UNCHANGED <<instance, timer, books, faults>>

(* handleReceiptEditReply, handleAmountSelect, handleCustomAmountInput: the
   results that were read are written back, the first of them edited, with
   status pending_confirmation. *)
EditRead(r, b) ==
    /\ r \in BotRequests /\ Starts(r) /\ Pending(b)
    /\ \E a \in Amounts :
         Goto(r, [pc |-> "edit", batch |-> b, results |-> WithFirst(batch[b].results, a)])
    /\ UNCHANGED <<instance, batch, timer, books, faults>>

EditWrite(r) ==
    /\ At(r, "edit")
    /\ SetResults(req[r].batch, "pending_confirmation", req[r].results)
    /\ Done(r)
    /\ UNCHANGED <<instance, timer, books, faults>>

-----------------------------------------------------------------------------
(* handleReceiptConfirm and handleCategorySelect; handleCustomCategoryInput
   takes every receipt whose image has a hash for a duplicate.  The amount of
   a batch is that of its first receipt (extractReceiptInfo). *)

Confirm(r, b) ==
    /\ r \in BotRequests /\ Starts(r) /\ Pending(b)
    /\ \E typed \in BOOLEAN :
         Goto(r, [pc |-> "evaluate", batch |-> b, amount |-> batch[b].results[1],
                  duplicate |-> typed])
    /\ UNCHANGED <<instance, batch, timer, books, faults>>

(* Mutant: the threshold is looked at for duplicates only. *)
NeedsApprovalOfDuplicate(amount, duplicate, newVendor) ==
    (duplicate /\ (RiskFlags \/ amount = "large")) \/ newVendor

(* EvaluateApproval *)
NeedsApproval(amount, duplicate, newVendor) ==
    (duplicate /\ RiskFlags) \/ amount = "large" \/ newVendor

(* checkAndRequestApproval: an error of any step lets the receipt through.  The
   vendor may be one of whom the company has few receipts yet. *)
Evaluate(r) ==
    /\ At(r, "evaluate")
    /\ \/ /\ \E newVendor \in BOOLEAN :
               Goto(r, [pc |-> IF NeedsApproval(req[r].amount, req[r].duplicate, newVendor)
                               THEN "request" ELSE "complete",
                        batch |-> req[r].batch])
          /\ NoFault
       \/ /\ Fault
          /\ Goto(r, [pc |-> "complete", batch |-> req[r].batch])
    /\ UNCHANGED <<instance, batch, timer, books>>

(* CreateApproval *)
RequestApproval(r) ==
    /\ At(r, "request")
    /\ \/ /\ Len(approvals) < instance.approvals
          /\ approvals' = Append(approvals, [batch |-> req[r].batch, status |-> "pending"])
          /\ Goto(r, [pc |-> "flag", batch |-> req[r].batch])
          /\ NoFault
       \/ /\ Fault
          /\ Goto(r, [pc |-> "complete", batch |-> req[r].batch])
          /\ UNCHANGED approvals
    /\ UNCHANGED <<instance, batch, timer, txns, entries>>

FlagBatch(r) ==
    /\ At(r, "flag")
    /\ \/ SetApproval(req[r].batch, "pending") /\ Done(r) /\ NoFault
       \/ /\ Fault
          /\ Goto(r, [pc |-> "complete", batch |-> req[r].batch])
          /\ UNCHANGED batch
    /\ UNCHANGED <<instance, timer, books>>

(* Approve and Reject, from either process, whatever the row's status is. *)
Decide(r, i, decision) ==
    /\ Starts(r)
    /\ approvals' = [approvals EXCEPT ![i].status = decision]
    /\ Goto(r, [pc |-> "decide", batch |-> approvals[i].batch, decision |-> decision])
    /\ UNCHANGED <<instance, batch, timer, txns, entries, faults>>

DecideBatch(r) ==
    /\ At(r, "decide")
    /\ SetApproval(req[r].batch, req[r].decision)
    /\ Done(r)
    /\ UNCHANGED <<instance, timer, books, faults>>

-----------------------------------------------------------------------------
(* confirmAndProcess: the status first (its error is ignored), then the
   transaction, then the journal entry (its errors are logged). *)
Complete(r) ==
    /\ At(r, "complete")
    /\ \/ SetStatus(req[r].batch, "completed") /\ NoFault
       \/ UNCHANGED batch /\ Fault
    /\ Goto(r, [pc |-> "convert", batch |-> req[r].batch])
    /\ UNCHANGED <<instance, timer, books>>

(* POST /receipts/:id/convert, for a batch of any history, any number of times *)
ApiConvert(r, b) ==
    /\ r \in ApiRequests /\ Starts(r) /\ batch[b] # NoBatch
    /\ Goto(r, [pc |-> "convert", batch |-> b])
    /\ UNCHANGED <<instance, batch, timer, books, faults>>

(* Mutant: the guard also lets pass what is not confirmed. *)
ConvertibleUnlessCancelled(b) == batch[b].status \in {"completed", "pending_confirmation"}

Convertible(b) == batch[b].status = "completed"

(* ConvertReceiptToTransactions *)
Convert(r) ==
    /\ At(r, "convert")
    /\ LET b == req[r].batch
       IN  IF Convertible(b)
           THEN Goto(r, [pc |-> "record", batch |-> b, results |-> batch[b].results, made |-> <<>>])
           ELSE Done(r)
    /\ UNCHANGED <<instance, batch, timer, books, faults>>

(* createTransactionFromReceipt, receipt after receipt *)
Record(r) ==
    LET row == Len(req[r].made) + 1
    IN  /\ At(r, "record") /\ row <= Len(req[r].results)
        /\ Len(txns) < instance.txns
        /\ txns' = Append(txns, [batch |-> req[r].batch, row |-> row,
                                 amount |-> req[r].results[row], entry |-> 0,
                                 by |-> IF r \in BotRequests THEN "bot" ELSE "api"])
        /\ Goto(r, [req[r] EXCEPT !.made = Append(@, Len(txns) + 1)])
        /\ UNCHANGED <<instance, batch, timer, approvals, entries, faults>>

(* LinkReceiptToTransactions; only the bot goes on to the generator *)
LinkBatch(r) ==
    /\ At(r, "record") /\ Len(req[r].made) = Len(req[r].results)
    /\ batch' = [batch EXCEPT ![req[r].batch].linked = req[r].made]
    /\ IF r \in BotRequests THEN Goto(r, [pc |-> "generate", todo |-> req[r].made]) ELSE Done(r)
    /\ UNCHANGED <<instance, timer, books, faults>>

-----------------------------------------------------------------------------
(* GenerateFromTransaction, for each transaction of a conversion or through the
   api; a session or a batch of transactions runs the same steps for each. *)
ApiGenerate(r, t) ==
    /\ r \in ApiRequests /\ Starts(r)
    /\ Goto(r, [pc |-> "generate", todo |-> <<t>>])
    /\ UNCHANGED <<instance, batch, timer, books, faults>>

Unlinked(t) == txns[t].entry = 0
Current(r) == Head(req[r].todo)
NextTxn(r) == LET rest == Tail(req[r].todo)
              IN  IF rest = <<>> THEN Done(r) ELSE Goto(r, [pc |-> "generate", todo |-> rest])

Generate(r) ==
    /\ At(r, "generate")
    /\ IF Unlinked(Current(r)) THEN Goto(r, [pc |-> "book", todo |-> req[r].todo]) ELSE NextTxn(r)
    /\ UNCHANGED <<instance, batch, timer, books, faults>>

(* createJournalFromTxn *)
Book(r) ==
    /\ At(r, "book")
    /\ Len(entries) < instance.entries
    /\ entries' = Append(entries, [txn |-> Current(r), status |-> "draft"])
    /\ Goto(r, [pc |-> "link", todo |-> req[r].todo, entry |-> Len(entries) + 1])
    /\ UNCHANGED <<instance, batch, timer, approvals, txns, faults>>

(* LinkTransactionToJournalEntry *)
LinkEntry(r) ==
    /\ At(r, "link")
    /\ txns' = [txns EXCEPT ![Current(r)].entry = req[r].entry]
    /\ Goto(r, [pc |-> "post", todo |-> req[r].todo, entry |-> req[r].entry])
    /\ UNCHANGED <<instance, batch, timer, approvals, entries, faults>>

(* JournalService.Post, here of a draft in an open period *)
PostEntry(r) ==
    /\ At(r, "post")
    /\ entries' = [entries EXCEPT ![req[r].entry].status = "posted"]
    /\ NextTxn(r)
    /\ UNCHANGED <<instance, batch, timer, approvals, txns, faults>>

(* An error of the generator is logged, and the next transaction has its turn. *)
Skip(r) ==
    /\ req[r].pc \in {"generate", "book", "link", "post"}
    /\ Fault
    /\ NextTxn(r)
    /\ UNCHANGED <<instance, batch, timer, books>>

-----------------------------------------------------------------------------
(* A statement fails or a deadline passes, and the handler gives up. *)
GiveUp(r) ==
    /\ req[r] # Idle
    /\ Fault
    /\ Done(r)
    /\ UNCHANGED <<instance, batch, timer, books>>

(* Start: the bot comes back without its goroutines and cancels the pending
   batches that are older than ten minutes. *)
Restart ==
    /\ Fault
    /\ req' = [r \in Requests |-> IF r \in BotRequests THEN Idle ELSE req[r]]
    /\ timer' = [b \in Batches |-> "off"]
    /\ \E stale \in SUBSET {b \in Batches : Pending(b)} :
         batch' = [b \in Batches |-> IF b \in stale THEN [batch[b] EXCEPT !.status = "cancelled"]
                                                    ELSE batch[b]]
    /\ UNCHANGED <<instance, books>>

Continue(r) ==
    \/ Recognise(r) \/ Ask(r) \/ CancelWrite(r) \/ EditWrite(r)
    \/ Evaluate(r) \/ RequestApproval(r) \/ FlagBatch(r) \/ DecideBatch(r)
    \/ Complete(r) \/ Convert(r) \/ Record(r) \/ LinkBatch(r)
    \/ Generate(r) \/ Book(r) \/ LinkEntry(r) \/ PostEntry(r)

Next ==
    \/ \E r \in Requests :
         \/ \E b \in Batches :
              Upload(r, b) \/ CancelRead(r, b) \/ EditRead(r, b) \/ Confirm(r, b) \/ ApiConvert(r, b)
         \/ \E i \in DOMAIN approvals, d \in {"approved", "rejected"} : Decide(r, i, d)
         \/ \E t \in DOMAIN txns : ApiGenerate(r, t)
         \/ Continue(r)
         \/ Skip(r) \/ GiveUp(r)
    \/ \E b \in Batches : TimeoutRead(b) \/ TimeoutCancel(b)
    \/ Restart

Spec == Init /\ [][Next]_vars

(* Handlers that have started run on, and a timer fires after five minutes. *)
Fairness ==
    /\ \A r \in Requests : WF_vars(Continue(r))
    /\ \A b \in Batches : WF_vars(TimeoutRead(b)) /\ WF_vars(TimeoutCancel(b))
FairSpec == Spec /\ Fairness

-----------------------------------------------------------------------------
Active == instance.requests \cap BotRequests
Quiet == \A r \in Requests : req[r] = Idle
TxnsOf(b) == {t \in DOMAIN txns : txns[t].batch = b}
BotTxnsOf(b) == {t \in TxnsOf(b) : txns[t].by = "bot"}
EntriesOf(t) == {e \in DOMAIN entries : entries[e].txn = t}

(* While the bot handles one update at a time, it records each receipt of a
   batch once, whatever the timeout, the api and crashes do in between: the
   status it writes before it converts the batch keeps every later button out. *)
RecordedOnce ==
    Cardinality(Active) = 1 =>
        \A b \in Batches : \A s, t \in BotTxnsOf(b) : txns[s].row = txns[t].row => s = t

(* While the bot handles one update at a time and nothing fails, the first
   receipt of a batch is not recorded above the threshold, whichever edits came
   before: the amount that was evaluated is the amount that is converted.  (No
   approval changes that: an approved receipt is evaluated anew, and waits
   again.)  The other receipts of a batch are recorded unevaluated. *)
FirstNotLarge ==
    Cardinality(Active) = 1 /\ instance.faults = 0
        => \A t \in DOMAIN txns : txns[t].by = "bot" /\ txns[t].row = 1 => txns[t].amount = "small"

(* The batch names a transaction for each of its receipts. *)
Recorded(b) ==
    /\ Len(batch[b].linked) = Receipts[b]
    /\ \A row \in 1..Receipts[b] :
         /\ batch[b].linked[row] \in TxnsOf(b)
         /\ txns[batch[b].linked[row]].row = row

(* When nothing fails and the handlers have finished, a completed batch has
   its transactions, one for each receipt, however confirmations, edits,
   cancellations and timeouts were interleaved: confirmAndProcess completes a
   batch before it converts it, whoever takes the status away leaves it in
   another one, and every conversion links all it has recorded. *)
CompletedIsRecorded ==
    Quiet /\ instance.faults = 0
        => \A b \in Batches : batch[b].status = "completed" => Recorded(b)

(* However the generators interleave, a transaction gets at most one entry
   for each request that found it unlinked, and one for each that died
   between creating and linking it. *)
EntriesBounded ==
    \A t \in DOMAIN txns :
        Cardinality(EntriesOf(t)) <= Cardinality(instance.requests) + faults

(* Without faults and second thoughts, no receipt waits for ever: it is
   confirmed, cancelled, or its time runs out.  (An edit that writes after
   the timeout leaves a pending receipt with no timer, and so does a restart
   within ten minutes.) *)
Unhurried == instance.faults = 0 /\ \A r \in Requests : ~At(r, "edit")
PendingEnds ==
    [](\A b \in Batches : Pending(b) => Unhurried) =>
        \A b \in Batches : Pending(b) ~> ~Pending(b)

(* What is recorded and booked, and that it was: in one invariant. *)
ReceiptsSound == TypeOK /\ RecordedOnce /\ CompletedIsRecorded /\ EntriesBounded
=============================================================================
