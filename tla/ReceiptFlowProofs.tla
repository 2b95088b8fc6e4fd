-------------------------- MODULE ReceiptFlowProofs --------------------------
(***************************************************************************)
(* That receipts are recorded and booked as ReceiptFlow promises, for any  *)
(* number of updates, api requests, batches and faults: an update of the   *)
(* bot records a receipt once and no first one above the threshold, a      *)
(* completed batch is not lost, a transaction's entries are accounted for. *)
(***************************************************************************)
EXTENDS ReceiptFlow, FiniteSetTheorems, SequenceTheorems, TLAPS

Statuses == {"none", "processing", "completed", "failed", "pending_confirmation", "cancelled"}

(* Where a request holds a transaction; what only the bot's handlers do; where
   a batch may still come to be recorded, and where it may not. *)
Booking   == {"generate", "book", "link", "post"}
BotLabels == {"ocr", "ask", "cancel", "edit", "evaluate", "request", "flag", "complete"}
Undecided == {"ocr", "ask", "edit", "evaluate", "request", "flag", "complete", "convert", "record"}
Settled   == {"completed", "cancelled"}

Elements(seq) == {seq[k] : k \in DOMAIN seq}

(* What a local state says of the tables: the receipts of its batch are known,
   and it has made, or is to book, transactions that are there. *)
Fits(l, B, T, E) ==
    /\ l.pc \in {"ask", "edit", "record"} => Len(l.results) = Receipts[l.batch]
    /\ l.pc \in {"evaluate", "request", "flag", "complete"} =>
         Len(B[l.batch].results) = Receipts[l.batch]
    /\ l.pc = "record" =>
         /\ Len(l.made) <= Len(l.results)
         /\ \A k \in DOMAIN l.made : /\ l.made[k] \in DOMAIN T
                                     /\ T[l.made[k]].batch = l.batch /\ T[l.made[k]].row = k
    /\ l.pc \in Booking => l.todo # <<>> /\ Elements(l.todo) \subseteq DOMAIN T
    /\ l.pc \in {"link", "post"} => l.entry \in DOMAIN E /\ E[l.entry].txn = Head(l.todo)

Held(r) ==
    /\ r \notin instance.requests => req[r] = Idle
    /\ req[r].pc \in BotLabels => r \in BotRequests
    /\ Fits(req[r], batch, txns, entries)

Known(b) == Len(batch[b].results) = Receipts[b]
Shape ==
    /\ TypeOK
    /\ \A b \in Batches : batch[b].status \in {"completed", "pending_confirmation"} => Known(b)
    /\ \A r \in Requests : Held(r)

(* What the local state of a request holds at each label. *)
LEMMA LocalFacts ==
    ASSUME NEW l \in Locals
    PROVE  /\ l.pc \in {"idle", "cancel", "decide"} \cup Undecided \cup Booking
           /\ l.pc \in Undecided \cup {"cancel", "decide"} => l.batch \in Batches
           /\ l.pc = "evaluate" => l.amount \in Amounts /\ l.duplicate \in BOOLEAN
           /\ l.pc \in {"ask", "edit", "record"} => l.results \in Seq(Amounts)
           /\ l.pc = "record" => l.made \in Seq(Nat)
           /\ l.pc = "decide" => l.decision \in Decisions
           /\ l.pc \in Booking => l.todo \in Seq(Nat)
           /\ l.pc \in {"link", "post"} => l.entry \in Nat
           /\ l.pc = "idle" <=> l = Idle
BY DEF Locals, Idle, Undecided, Booking

(* The first of a sequence of transactions, the others, and one more. *)
LEMMA WorkOfSeq ==
    ASSUME NEW w \in Seq(Nat)
    PROVE  /\ w # <<>> =>
                /\ Head(w) \in Elements(w) /\ Tail(w) \in Seq(Nat)
                /\ Elements(Tail(w)) \subseteq Elements(w)
           /\ \A t \in Nat : Elements(Append(w, t)) = Elements(w) \cup {t}
<1>1. ASSUME w # <<>>
      PROVE  /\ Head(w) \in Elements(w) /\ Tail(w) \in Seq(Nat)
             /\ Elements(Tail(w)) \subseteq Elements(w)
  <2>1. Len(w) \in Nat \ {0} /\ DOMAIN w = 1..Len(w) /\ Head(w) = w[1] BY <1>1
  <2>2. /\ Tail(w) \in Seq(Nat) /\ Len(Tail(w)) = Len(w) - 1
        /\ \A i \in 1..Len(Tail(w)) : Tail(w)[i] = w[i + 1]
    BY <1>1, HeadTailProperties
  <2>3. \A i \in DOMAIN Tail(w) : i \in 1..Len(Tail(w)) /\ i + 1 \in DOMAIN w BY <2>1, <2>2
  <2> QED BY <2>1, <2>2, <2>3 DEF Elements
<1>2. ASSUME NEW t \in Nat PROVE Elements(Append(w, t)) = Elements(w) \cup {t}
  <2>1. /\ DOMAIN Append(w, t) = DOMAIN w \cup {Len(w) + 1} /\ Append(w, t)[Len(w) + 1] = t
        /\ \A i \in DOMAIN w : Append(w, t)[i] = w[i]
    OBVIOUS
  <2> QED BY <2>1 DEF Elements
<1> QED BY <1>1, <1>2

(* Work on one transaction. *)
LEMMA WorkOfOne ==
    ASSUME NEW t \in Nat
    PROVE  <<t>> \in Seq(Nat) /\ <<t>> # <<>> /\ Elements(<<t>>) = {t}
BY DEF Elements

(* A request at a label is one of the behaviour's, and a step of it leaves the
   others where they are. *)
LEMMA OthersStay ==
    ASSUME Shape, NEW r \in Requests, NEW l, Goto(r, l)
    PROVE  /\ req'[r] = l
           /\ \A q \in Requests : q # r => req'[q] = req[q]
           /\ l \in Locals => req' \in [Requests -> Locals]
BY DEF Shape, TypeOK, Goto

(* Tables that grow, and rows that change. *)
LEMMA SeqElements ==
    ASSUME NEW S, NEW s \in Seq(S)
    PROVE  DOMAIN s = 1..Len(s) /\ Len(s) \in Nat /\ \A i \in DOMAIN s : s[i] \in S
OBVIOUS

(* What Append does to a table kept as a sequence. *)
LEMMA SeqAppends ==
    ASSUME NEW S, NEW s \in Seq(S), NEW x \in S
    PROVE  /\ Append(s, x) \in Seq(S) /\ Len(Append(s, x)) = Len(s) + 1
           /\ DOMAIN Append(s, x) = DOMAIN s \cup {Len(s) + 1}
           /\ Append(s, x)[Len(s) + 1] = x /\ \A i \in DOMAIN s : Append(s, x)[i] = s[i]
OBVIOUS

(* Changing a row of such a table. *)
LEMMA SeqChanges ==
    ASSUME NEW S, NEW s \in Seq(S), NEW i \in DOMAIN s, NEW x \in S
    PROVE  [s EXCEPT ![i] = x] \in Seq(S) /\ Len([s EXCEPT ![i] = x]) = Len(s)
OBVIOUS

(* What a step leaves of receipt_batches: rows whose receipts are known, where
   they were or where there is something to confirm or to record. *)
BatchesKeep ==
    /\ batch' \in [Batches -> BatchRow]
    /\ \A b \in Batches :
         /\ Known(b) => Known(b)'
         /\ batch'[b].status \in {"completed", "pending_confirmation"} => Known(b)'

(* What the statements on receipt_batches write. *)
LEMMA StatusSet ==
    ASSUME Shape, NEW b \in Batches, NEW s \in Statuses, SetStatus(b, s)
    PROVE  /\ s \notin {"completed", "pending_confirmation"} \/ Known(b) => BatchesKeep
           /\ batch'[b].status = s
           /\ \A c \in Batches : c # b => batch'[c].status = batch[c].status
           /\ \A c \in Batches : /\ batch'[c].results = batch[c].results
                                 /\ batch'[c].linked = batch[c].linked
<1>1. /\ batch' \in [Batches -> BatchRow] /\ batch'[b].status = s
      /\ \A c \in Batches : c # b => batch'[c].status = batch[c].status
      /\ \A c \in Batches : /\ batch'[c].results = batch[c].results
                            /\ batch'[c].linked = batch[c].linked
  BY DEF Shape, TypeOK, SetStatus, BatchRow, Statuses
<1> QED BY <1>1 DEF Shape, BatchesKeep, Known

(* UpdateReceiptBatch writes the status and the results of one row. *)
LEMMA ResultsSet ==
    ASSUME Shape, NEW b \in Batches, NEW s \in Statuses, NEW results \in Seq(Amounts),
           SetResults(b, s, results), Len(results) = Receipts[b]
    PROVE  /\ BatchesKeep
           /\ batch'[b].status = s /\ batch'[b].results = results
           /\ \A c \in Batches : c # b => /\ batch'[c].status = batch[c].status
                                          /\ batch'[c].results = batch[c].results
           /\ \A c \in Batches : batch'[c].linked = batch[c].linked
<1>1. /\ batch' \in [Batches -> BatchRow] /\ batch'[b].status = s /\ batch'[b].results = results
      /\ \A c \in Batches : c # b => /\ batch'[c].status = batch[c].status
                                     /\ batch'[c].results = batch[c].results
      /\ \A c \in Batches : batch'[c].linked = batch[c].linked
  BY DEF Shape, TypeOK, SetResults, BatchRow, Statuses
<1> QED BY <1>1 DEF Shape, BatchesKeep, Known

(* A decision touches neither status nor results, nor do the links. *)
LEMMA ApprovalSet ==
    ASSUME Shape,
           \/ \E b \in Batches, d \in Decisions : SetApproval(b, d)
           \/ \E b \in Batches, made \in Seq(Nat) : batch' = [batch EXCEPT ![b].linked = made]
    PROVE  /\ BatchesKeep
           /\ \A c \in Batches : /\ batch'[c].status = batch[c].status
                                 /\ batch'[c].results = batch[c].results
<1>1. ASSUME NEW b \in Batches, NEW row \in BatchRow, batch' = [batch EXCEPT ![b] = row],
             row.status = batch[b].status, row.results = batch[b].results
      PROVE  /\ batch' \in [Batches -> BatchRow]
             /\ \A c \in Batches : /\ batch'[c].status = batch[c].status
                                   /\ batch'[c].results = batch[c].results
  BY <1>1 DEF Shape, TypeOK
<1>2. ASSUME NEW row \in BatchRow
      PROVE  /\ \A d \in Decisions : LET new == [row EXCEPT !.approval = d]
               IN new \in BatchRow /\ new.status = row.status /\ new.results = row.results
             /\ \A made \in Seq(Nat) : LET new == [row EXCEPT !.linked = made]
               IN new \in BatchRow /\ new.status = row.status /\ new.results = row.results
  <2>1. ASSUME NEW d \in Decisions PROVE  LET new == [row EXCEPT !.approval = d]
               IN  new \in BatchRow /\ new.status = row.status /\ new.results = row.results
    BY DEF BatchRow
  <2>2. ASSUME NEW made \in Seq(Nat) PROVE  LET new == [row EXCEPT !.linked = made]
               IN  new \in BatchRow /\ new.status = row.status /\ new.results = row.results
    BY DEF BatchRow
  <2> QED BY <2>1, <2>2
<1>3. /\ batch' \in [Batches -> BatchRow]
      /\ \A c \in Batches : /\ batch'[c].status = batch[c].status
                            /\ batch'[c].results = batch[c].results
  <2>1. ASSUME NEW b \in Batches, NEW d \in Decisions, SetApproval(b, d)
        PROVE  batch' = [batch EXCEPT ![b] = [batch[b] EXCEPT !.approval = d]]
    BY <2>1 DEF SetApproval
  <2>2. ASSUME NEW b \in Batches, NEW made \in Seq(Nat), batch' = [batch EXCEPT ![b].linked = made]
        PROVE  batch' = [batch EXCEPT ![b] = [batch[b] EXCEPT !.linked = made]]
    BY <2>2
  <2>3. \A b \in Batches : batch[b] \in BatchRow BY DEF Shape, TypeOK
  <2>4. ASSUME NEW b \in Batches, NEW d \in Decisions, SetApproval(b, d)
        PROVE  /\ batch' \in [Batches -> BatchRow]
               /\ \A c \in Batches : /\ batch'[c].status = batch[c].status
                                     /\ batch'[c].results = batch[c].results
    <3> DEFINE row == [batch[b] EXCEPT !.approval = d]
    <3>1. row \in BatchRow /\ row.status = batch[b].status /\ row.results = batch[b].results
      BY <1>2, <2>3
    <3>2. batch' = [batch EXCEPT ![b] = row] BY <2>1, <2>4
    <3> HIDE DEF row
    <3> QED BY <1>1, <3>1, <3>2
  <2>5. ASSUME NEW b \in Batches, NEW made \in Seq(Nat), batch' = [batch EXCEPT ![b].linked = made]
        PROVE  /\ batch' \in [Batches -> BatchRow]
               /\ \A c \in Batches : /\ batch'[c].status = batch[c].status
                                     /\ batch'[c].results = batch[c].results
    <3> DEFINE row == [batch[b] EXCEPT !.linked = made]
    <3>1. row \in BatchRow /\ row.status = batch[b].status /\ row.results = batch[b].results
      BY <1>2, <2>3
    <3>2. batch' = [batch EXCEPT ![b] = row] BY <2>2, <2>5
    <3> HIDE DEF row
    <3> QED BY <1>1, <3>1, <3>2
  <2> QED BY <2>4, <2>5
<1> QED BY <1>3 DEF Shape, BatchesKeep, Known

(* Neither does a step that writes no batch. *)
LEMMA NoBatchSet == Shape /\ UNCHANGED batch => BatchesKeep
BY DEF Shape, TypeOK, BatchesKeep, Known

(* What a scan finds, and an edit of its first receipt. *)
LEMMA Scanned ==
    ASSUME NEW b \in Batches
    PROVE  /\ Receipts[b] \in Nat \ {0}
           /\ \A f \in Scan(b) : f \in Seq(Amounts) /\ Len(f) = Receipts[b]
           /\ \A f \in Seq(Amounts), a \in Amounts : Len(f) = Receipts[b] =>
                WithFirst(f, a) \in Seq(Amounts) /\ Len(WithFirst(f, a)) = Receipts[b]
<1>1. Receipts[b] \in Nat \ {0} BY ReceiptFlowAssumption
<1>2. ASSUME NEW f \in Seq(Amounts), NEW a \in Amounts, Len(f) = Receipts[b]
      PROVE  WithFirst(f, a) \in Seq(Amounts) /\ Len(WithFirst(f, a)) = Receipts[b]
  <2>1. 1 \in DOMAIN f BY <1>1, <1>2, SeqElements
  <2> QED BY <1>2, <2>1, SeqChanges DEF WithFirst
<1> QED BY <1>1, <1>2 DEF Scan

(* A transaction is appended with the entry 0, and only that changes later. *)
LEMMA TxnAppended ==
    ASSUME Shape, NEW r \in Requests, Record(r)
    PROVE  /\ txns' \in Seq(Txn) /\ DOMAIN txns' = DOMAIN txns \cup {Len(txns) + 1}
           /\ Len(txns) + 1 \notin DOMAIN txns /\ Len(txns) + 1 \in Nat
           /\ \A t \in DOMAIN txns : txns'[t] = txns[t]
           /\ LET t == txns'[Len(txns) + 1]
              IN  /\ t.batch = req[r].batch /\ t.row = Len(req[r].made) + 1
                  /\ t.amount = req[r].results[t.row] /\ t.entry = 0
                  /\ t.by = IF r \in BotRequests THEN "bot" ELSE "api"
<1>1. /\ req[r].batch \in Batches /\ req[r].results \in Seq(Amounts) /\ req[r].made \in Seq(Nat)
      /\ Len(req[r].made) + 1 <= Len(req[r].results)
  BY LocalFacts DEF Record, At, Shape, TypeOK, Undecided
<1>2. Len(req[r].made) + 1 \in Nat /\ req[r].results[Len(req[r].made) + 1] \in Amounts
  <2>1. Len(req[r].made) \in Nat /\ Len(req[r].results) \in Nat BY <1>1
  <2>2. Len(req[r].made) + 1 \in 1..Len(req[r].results) BY <1>1, <2>1
  <2> QED BY <1>1, <2>1, <2>2, ElementOfSeq
<1>3. PICK t : /\ t = [batch |-> req[r].batch, row |-> Len(req[r].made) + 1,
                      amount |-> req[r].results[Len(req[r].made) + 1], entry |-> 0,
                      by |-> IF r \in BotRequests THEN "bot" ELSE "api"]
             /\ txns' = Append(txns, t)
  BY DEF Record
<1>4. t \in Txn BY <1>1, <1>2, <1>3 DEF Txn
<1>5. /\ t.batch = req[r].batch /\ t.row = Len(req[r].made) + 1
      /\ t.amount = req[r].results[t.row] /\ t.entry = 0
      /\ t.by = IF r \in BotRequests THEN "bot" ELSE "api"
  BY <1>3
<1>6. txns \in Seq(Txn) BY DEF Shape, TypeOK
<1>7. txns'[Len(txns) + 1] = t BY <1>3, <1>6
<1>8. /\ txns' \in Seq(Txn) /\ DOMAIN txns' = DOMAIN txns \cup {Len(txns) + 1}
      /\ Len(txns) + 1 \notin DOMAIN txns /\ Len(txns) + 1 \in Nat
      /\ \A i \in DOMAIN txns : txns'[i] = txns[i]
  BY <1>3, <1>4, <1>6, SeqAppends, SeqElements
<1> QED BY <1>5, <1>7, <1>8

(* What the recording request goes on with. *)
LEMMA MadeGrows ==
    ASSUME Shape, NEW r \in Requests, Record(r)
    PROVE  \E l \in Locals :
             /\ Goto(r, l) /\ l.pc = "record" /\ l.batch = req[r].batch
             /\ l.results = req[r].results /\ l.made = Append(req[r].made, Len(txns) + 1)
<1>1. req[r] \in [pc : {"record"}, batch : Batches, results : Seq(Amounts), made : Seq(Nat)]
  <2>1. ASSUME NEW l \in Locals, l.pc = "record"
        PROVE  l \in [pc : {"record"}, batch : Batches, results : Seq(Amounts), made : Seq(Nat)]
    BY <2>1 DEF Locals, Idle
  <2> QED BY <2>1 DEF Record, At, Shape, TypeOK
<1>2. Append(req[r].made, Len(txns) + 1) \in Seq(Nat) BY <1>1, TxnAppended
<1>3. PICK l : l = [req[r] EXCEPT !.made = Append(@, Len(txns) + 1)] /\ Goto(r, l) BY DEF Record
<1>4. /\ l \in [pc : {"record"}, batch : Batches, results : Seq(Amounts), made : Seq(Nat)]
      /\ l.batch = req[r].batch /\ l.results = req[r].results
      /\ l.made = Append(req[r].made, Len(txns) + 1)
  BY <1>1, <1>2, <1>3
<1> QED BY <1>3, <1>4 DEF Locals

(* Linking an entry changes nothing else of a transaction. *)
LEMMA EntryOfTxn ==
    ASSUME NEW t \in Txn, NEW e \in Nat
    PROVE  /\ [t EXCEPT !.entry = e] \in Txn
           /\ [t EXCEPT !.entry = e].batch = t.batch
           /\ [t EXCEPT !.entry = e].row = t.row
           /\ [t EXCEPT !.entry = e].amount = t.amount
           /\ [t EXCEPT !.entry = e].by = t.by
           /\ [t EXCEPT !.entry = e].entry = e
BY DEF Txn

(* A request that books is at a transaction that is there. *)
LEMMA AtTxn ==
    ASSUME Shape, NEW r \in Requests, req[r].pc \in Booking
    PROVE  /\ req[r] \in Locals /\ req[r].todo \in Seq(Nat) /\ req[r].todo # <<>>
           /\ Elements(req[r].todo) \subseteq DOMAIN txns
           /\ Current(r) = Head(req[r].todo) /\ Current(r) \in DOMAIN txns
           /\ r \in instance.requests
           /\ req[r].pc \in {"link", "post"} =>
                req[r].entry \in DOMAIN entries /\ entries[req[r].entry].txn = Current(r)
<1>1. req[r] \in Locals /\ Held(r) BY DEF Shape, TypeOK
<1>2. req[r].todo \in Seq(Nat) /\ req[r].todo # <<>> /\ Elements(req[r].todo) \subseteq DOMAIN txns
  BY <1>1, LocalFacts DEF Held, Fits
<1>3. Head(req[r].todo) \in DOMAIN txns BY <1>2, WorkOfSeq
<1>4. req[r] # Idle BY DEF Idle, Booking
<1> QED BY <1>1, <1>2, <1>3, <1>4 DEF Held, Fits, Current

(* The next transaction, or the end. *)
LEMMA NextTxnGoes ==
    ASSUME Shape, NEW r \in Requests, req[r].pc \in Booking, NextTxn(r)
    PROVE  \E l \in Locals :
             /\ Goto(r, l)
             /\ \/ l = Idle
                \/ /\ l.pc = "generate" /\ l.todo \in Seq(Nat) /\ l.todo # <<>>
                   /\ Elements(l.todo) \subseteq Elements(req[r].todo)
<1>1. req[r].todo \in Seq(Nat) /\ req[r].todo # <<>> BY AtTxn
<1>2. Tail(req[r].todo) \in Seq(Nat) /\ Elements(Tail(req[r].todo)) \subseteq Elements(req[r].todo)
  BY <1>1, WorkOfSeq
<1>3. CASE Tail(req[r].todo) = <<>> BY <1>3 DEF NextTxn, Done, Locals
<1>4. CASE Tail(req[r].todo) # <<>>
  <2>1. PICK l : l = [pc |-> "generate", todo |-> Tail(req[r].todo)] OBVIOUS
  <2>2. l \in Locals /\ l.pc = "generate" /\ l.todo = Tail(req[r].todo) BY <1>2, <2>1 DEF Locals
  <2>3. Goto(r, l) BY <1>4, <2>1 DEF NextTxn
  <2> QED BY <1>2, <1>4, <2>2, <2>3
<1> QED BY <1>3, <1>4

(* The link of the generator, which keeps batch, amount and origin. *)
LEMMA TxnLinked ==
    ASSUME Shape, NEW r \in Requests, LinkEntry(r)
    PROVE  /\ Current(r) \in DOMAIN txns /\ req[r].entry \in DOMAIN entries
           /\ txns' \in Seq(Txn) /\ DOMAIN txns' = DOMAIN txns
           /\ \A t \in DOMAIN txns : /\ txns'[t].batch = txns[t].batch
                                     /\ txns'[t].row = txns[t].row
                                     /\ txns'[t].amount = txns[t].amount
                                     /\ txns'[t].by = txns[t].by
           /\ \A t \in DOMAIN txns : t # Current(r) => txns'[t] = txns[t]
           /\ txns'[Current(r)].entry = req[r].entry
<1>1. Current(r) \in DOMAIN txns /\ req[r].entry \in DOMAIN entries
  BY AtTxn DEF LinkEntry, At, Booking
<1>2. req[r].entry \in Nat BY <1>1 DEF Shape, TypeOK
<1>3. txns' = [txns EXCEPT ![Current(r)].entry = req[r].entry] BY DEF LinkEntry
<1>4. \A t \in DOMAIN txns : txns[t] \in Txn BY DEF Shape, TypeOK
<1>5. [txns[Current(r)] EXCEPT !.entry = req[r].entry] \in Txn BY <1>1, <1>2, <1>4, EntryOfTxn
<1>6. txns' \in Seq(Txn) /\ DOMAIN txns' = DOMAIN txns BY <1>1, <1>3, <1>5 DEF Shape, TypeOK
<1>7. \A t \in DOMAIN txns : t # Current(r) => txns'[t] = txns[t] BY <1>3, <1>4
<1>8. txns'[Current(r)] = [txns[Current(r)] EXCEPT !.entry = req[r].entry] BY <1>1, <1>3
<1>9. LET t == Current(r)
      IN  /\ txns'[t].batch = txns[t].batch /\ txns'[t].amount = txns[t].amount
          /\ txns'[t].row = txns[t].row
          /\ txns'[t].by = txns[t].by /\ txns'[t].entry = req[r].entry
  BY <1>1, <1>2, <1>4, <1>8, EntryOfTxn
<1> QED BY <1>1, <1>6, <1>7, <1>9

(* A step of one request keeps the shape when what it writes has it. *)
LEMMA RequestKeeps ==
    ASSUME Shape, NEW r \in Requests, NEW l \in Locals, Goto(r, l), UNCHANGED instance,
           BatchesKeep, timer' \in [Batches -> {"off", "armed", "due"}],
           approvals' \in Seq([batch : Batches, status : Decisions]),
           faults' \in 0..instance.faults,
           txns' \in Seq(Txn), DOMAIN txns \subseteq DOMAIN txns',
           \A t \in DOMAIN txns : txns'[t].batch = txns[t].batch /\ txns'[t].row = txns[t].row,
           \A t \in DOMAIN txns' : txns'[t].entry \in 0..Len(entries'),
           entries' \in Seq(JournalEntry), DOMAIN entries \subseteq DOMAIN entries',
           \A e \in DOMAIN entries' : entries'[e].txn \in DOMAIN txns',
           \A e \in DOMAIN entries : entries'[e].txn = entries[e].txn,
           l # Idle => r \in instance.requests,
           l.pc \in BotLabels => r \in BotRequests,
           Fits(l, batch', txns', entries')
    PROVE  Shape'
<1>1. /\ req'[r] = l /\ \A q \in Requests : q # r => req'[q] = req[q]
      /\ req' \in [Requests -> Locals]
  BY OthersStay
<1>2. TypeOK' BY <1>1 DEF Shape, TypeOK, BatchesKeep
<1>3. Held(r)' BY <1>1 DEF Held
<1>4. ASSUME NEW q \in Requests, q # r PROVE Held(q)'
  <2>1. Held(q) /\ req[q] \in Locals /\ req'[q] = req[q] BY <1>1, <1>4 DEF Shape, TypeOK
  <2>2. Fits(req[q], batch', txns', entries')
    <3> DEFINE k == req[q]
    <3>1. k \in Locals /\ Fits(k, batch, txns, entries) BY <2>1 DEF Held
    <3>2. k.pc \in Undecided => k.batch \in Batches BY <3>1, LocalFacts
    <3> HIDE DEF k
    <3>3. Fits(k, batch', txns', entries') BY <3>1, <3>2 DEF Fits, BatchesKeep, Known, Undecided
    <3> QED BY <3>3 DEF k
  <2> QED BY <2>1, <2>2 DEF Held
<1> QED BY <1>2, <1>3, <1>4 DEF Shape, BatchesKeep

(* The same for a step that leaves the books alone. *)
LEMMA RequestKeepsBooks ==
    ASSUME Shape, NEW r \in Requests, NEW l \in Locals, Goto(r, l),
           UNCHANGED <<instance, txns, entries>>,
           BatchesKeep, timer' \in [Batches -> {"off", "armed", "due"}],
           approvals' \in Seq([batch : Batches, status : Decisions]),
           faults' \in 0..instance.faults,
           l # Idle => r \in instance.requests,
           l.pc \in BotLabels => r \in BotRequests,
           Fits(l, batch', txns, entries)
    PROVE  Shape'
BY RequestKeeps DEF Shape, TypeOK

(* And for one that ends. *)
LEMMA EndKeeps ==
    ASSUME Shape, NEW r \in Requests, Done(r), UNCHANGED <<instance, txns, entries>>,
           BatchesKeep, timer' \in [Batches -> {"off", "armed", "due"}],
           approvals' \in Seq([batch : Batches, status : Decisions]),
           faults' \in 0..instance.faults
    PROVE  Shape'
<1>1. Idle \in Locals /\ Idle.pc = "idle" BY DEF Locals, Idle
<1>2. Fits(Idle, batch', txns, entries) BY <1>1 DEF Fits, Booking
<1> QED BY <1>1, <1>2, RequestKeepsBooks DEF Done, BotLabels

(* The counter of faults stays within the instance's bound. *)
LEMMA FaultCounts ==
    ASSUME Shape, Fault \/ NoFault
    PROVE  faults' \in 0..instance.faults /\ instance.faults \in Nat
<1>1. instance.faults \in Nat BY ReceiptFlowAssumption DEF Shape, TypeOK
<1> QED BY <1>1 DEF Fault, NoFault, Shape, TypeOK

(* A request under way is one of the behaviour's, and holds what its label
   says. *)
LEMMA UnderWay ==
    ASSUME Shape, NEW r \in Requests, req[r].pc # "idle"
    PROVE  /\ r \in instance.requests /\ Held(r) /\ req[r] \in Locals
           /\ req[r].pc \in {"cancel", "decide"} \cup Undecided \cup Booking
           /\ req[r].pc \in Undecided \cup {"cancel", "decide"} => req[r].batch \in Batches
           /\ req[r].pc = "evaluate" => req[r].amount \in Amounts
           /\ req[r].pc \in {"ask", "edit", "record"} =>
                req[r].results \in Seq(Amounts) /\ Len(req[r].results) = Receipts[req[r].batch]
           /\ req[r].pc = "record" => req[r].made \in Seq(Nat)
           /\ req[r].pc \in {"evaluate", "request", "flag", "complete"} => Known(req[r].batch)
           /\ req[r].pc = "decide" => req[r].decision \in Decisions
BY LocalFacts DEF Shape, TypeOK, Held, Idle, Fits, Known

(* The bot's handlers up to the decision about a receipt. *)
LEMMA UploadKeeps ==
    ASSUME Shape, NEW r \in Requests, NEW b \in Batches,
           Upload(r, b) \/ CancelRead(r, b) \/ EditRead(r, b) \/ Confirm(r, b) \/ ApiConvert(r, b)
    PROVE  Shape'
<1> USE DEF Starts, Booking, BotLabels
<1>1. /\ BatchesKeep /\ UNCHANGED <<instance, txns, entries>> /\ faults' \in 0..instance.faults
      /\ timer' \in [Batches -> {"off", "armed", "due"}] /\ r \in instance.requests
      /\ approvals' \in Seq([batch : Batches, status : Decisions])
  BY StatusSet, NoBatchSet DEF Upload, CancelRead, EditRead, Confirm, ApiConvert, Statuses, books,
     Shape, TypeOK
<1>2. Pending(b) => Known(b) /\ batch[b].results \in Seq(Amounts)
  BY DEF Pending, Shape, TypeOK, BatchRow
<1>3. PICK l : /\ l \in Locals /\ Goto(r, l)
               /\ l.pc \in BotLabels => r \in BotRequests
               /\ Fits(l, batch', txns, entries)
  <2>1. CASE Upload(r, b) \/ CancelRead(r, b) \/ ApiConvert(r, b)
    <3>1. PICK pc \in {"ocr", "cancel", "convert"} :
            Goto(r, [pc |-> pc, batch |-> b]) /\ (pc = "convert" \/ r \in BotRequests)
      BY <2>1 DEF Upload, CancelRead, ApiConvert
    <3>2. [pc |-> pc, batch |-> b] \in Locals /\ Fits([pc |-> pc, batch |-> b], batch', txns, entries)
      BY DEF Locals, Fits
    <3> QED BY <3>1, <3>2
  <2>2. CASE EditRead(r, b)
    <3>1. PICK a \in Amounts :
            Goto(r, [pc |-> "edit", batch |-> b, results |-> WithFirst(batch[b].results, a)])
      BY <2>2 DEF EditRead
    <3>2. PICK f : f = WithFirst(batch[b].results, a) OBVIOUS
    <3>3. f \in Seq(Amounts) /\ Len(f) = Receipts[b] /\ r \in BotRequests
      BY <1>2, <2>2, <3>2, Scanned DEF EditRead, Known
    <3>4. /\ [pc |-> "edit", batch |-> b, results |-> f] \in Locals
          /\ Fits([pc |-> "edit", batch |-> b, results |-> f], batch', txns, entries)
      BY <3>3 DEF Locals, Fits
    <3> QED BY <3>1, <3>2, <3>3, <3>4
  <2>3. CASE Confirm(r, b)
    <3>1. PICK typed, a : /\ typed \in BOOLEAN /\ a = batch[b].results[1]
                          /\ Goto(r, [pc |-> "evaluate", batch |-> b, amount |-> a, duplicate |-> typed])
      BY <2>3 DEF Confirm
    <3>2. a \in Amounts /\ r \in BotRequests /\ batch' = batch /\ Known(b)
      BY <1>2, <2>3, <3>1, Scanned, ElementOfSeq DEF Confirm, Known
    <3>3. /\ [pc |-> "evaluate", batch |-> b, amount |-> a, duplicate |-> typed] \in Locals
          /\ Fits([pc |-> "evaluate", batch |-> b, amount |-> a, duplicate |-> typed],
                   batch', txns, entries)
      BY <3>1, <3>2 DEF Locals, Fits, Known
    <3> QED BY <3>1, <3>2, <3>3
  <2> QED BY <2>1, <2>2, <2>3
<1> QED BY <1>1, <1>3, RequestKeepsBooks

(* Shape through the pictures and the two other buttons. *)
LEMMA AskKeeps ==
    ASSUME Shape, NEW r \in Requests, Recognise(r) \/ Ask(r) \/ CancelWrite(r) \/ EditWrite(r)
    PROVE  Shape'
<1> USE DEF At, Booking, BotLabels, Undecided
<1>1. /\ r \in instance.requests /\ Held(r) /\ req[r].batch \in Batches
      /\ req[r].pc \in {"ask", "edit"} =>
           req[r].results \in Seq(Amounts) /\ Len(req[r].results) = Receipts[req[r].batch]
  BY UnderWay DEF Recognise, Ask, CancelWrite, EditWrite
<1>2. /\ UNCHANGED <<instance, txns, entries>> /\ faults' \in 0..instance.faults
      /\ timer' \in [Batches -> {"off", "armed", "due"}]
      /\ approvals' \in Seq([batch : Batches, status : Decisions])
  BY <1>1, FaultCounts DEF Recognise, Ask, CancelWrite, EditWrite, books, NoFault, Shape, TypeOK
<1>3. CASE Recognise(r)
  <2>1. CASE SetStatus(req[r].batch, "failed") /\ Done(r)
    BY <1>1, <1>2, <2>1, StatusSet, EndKeeps DEF Statuses
  <2>2. ASSUME NEW f \in Scan(req[r].batch),
               SetResults(req[r].batch, "completed", f) \/ UNCHANGED batch,
               Goto(r, [pc |-> "ask", batch |-> req[r].batch, results |-> f]) PROVE  Shape'
    <3>1. f \in Seq(Amounts) /\ Len(f) = Receipts[req[r].batch] BY <1>1, Scanned
    <3>2. BatchesKeep BY <1>1, <2>2, <3>1, ResultsSet, NoBatchSet DEF Statuses
    <3>3. PICK l : l = [pc |-> "ask", batch |-> req[r].batch, results |-> f] OBVIOUS
    <3>4. l \in Locals /\ Fits(l, batch', txns, entries) BY <1>1, <3>1, <3>3 DEF Locals, Fits
    <3>5. r \in BotRequests BY <1>1, <1>3 DEF Recognise, Held
    <3> QED BY <1>1, <1>2, <2>2, <3>2, <3>3, <3>4, <3>5, RequestKeepsBooks
  <2> QED BY <1>3, <2>1, <2>2 DEF Recognise
<1>4. CASE Ask(r)
  <2>1. ASSUME NEW f \in Captioned(req[r].results), SetResults(req[r].batch, "pending_confirmation", f)
        PROVE  BatchesKeep
    <3>1. f \in Seq(Amounts) /\ Len(f) = Receipts[req[r].batch]
      BY <1>1, <1>4, Scanned DEF Ask, Captioned
    <3> QED BY <1>1, <2>1, <3>1, ResultsSet DEF Statuses
  <2> QED BY <1>2, <1>4, <2>1, NoBatchSet, EndKeeps DEF Ask
<1>5. CASE CancelWrite(r) \/ EditWrite(r)
  <2>1. BatchesKeep BY <1>1, <1>5, StatusSet, ResultsSet DEF CancelWrite, EditWrite, Statuses
  <2> QED BY <1>2, <1>5, <2>1, EndKeeps DEF CancelWrite, EditWrite
<1> QED BY <1>3, <1>4, <1>5
(* The approvals. *)
LEMMA ApprovalKeeps ==
    ASSUME Shape, NEW r \in Requests,
           \/ Evaluate(r) \/ RequestApproval(r) \/ FlagBatch(r) \/ DecideBatch(r)
           \/ \E i \in DOMAIN approvals, d \in {"approved", "rejected"} : Decide(r, i, d)
    PROVE  Shape'
<1> USE DEF At, Booking, BotLabels, Undecided
<1>1. /\ UNCHANGED <<instance, timer, txns, entries>>
      /\ timer' \in [Batches -> {"off", "armed", "due"}] /\ faults' \in 0..instance.faults
  BY FaultCounts DEF Evaluate, RequestApproval, FlagBatch, DecideBatch, Decide, books, NoFault,
     Shape, TypeOK
<1>2. BatchesKeep
  <2>1. CASE DecideBatch(r) \/ (FlagBatch(r) /\ SetApproval(req[r].batch, "pending"))
    BY <2>1, UnderWay, ApprovalSet DEF DecideBatch, FlagBatch, Decisions
  <2> QED BY <2>1, NoBatchSet DEF Evaluate, RequestApproval, FlagBatch, Decide, books
<1>3. approvals' \in Seq([batch : Batches, status : Decisions])
  <2>1. approvals \in Seq([batch : Batches, status : Decisions]) BY DEF Shape, TypeOK
  <2>2. CASE RequestApproval(r) /\ approvals' # approvals
    <3>1. [batch |-> req[r].batch, status |-> "pending"] \in [batch : Batches, status : Decisions]
      BY <2>2, UnderWay DEF Decisions, RequestApproval
    <3>2. ASSUME NEW S, approvals \in Seq(S), [batch |-> req[r].batch, status |-> "pending"] \in S
          PROVE approvals' \in Seq(S)
      BY <2>2, <3>2 DEF RequestApproval
    <3> QED BY <2>1, <3>1, <3>2
  <2>3. ASSUME NEW i \in DOMAIN approvals, NEW d \in {"approved", "rejected"}, Decide(r, i, d)
        PROVE  approvals' \in Seq([batch : Batches, status : Decisions])
    <3>1. [approvals[i] EXCEPT !.status = d] \in [batch : Batches, status : Decisions]
      <4>1. approvals[i] \in [batch : Batches, status : Decisions] BY <2>1, SeqElements
      <4> QED BY <4>1 DEF Decisions
    <3>2. approvals' = [approvals EXCEPT ![i] = [approvals[i] EXCEPT !.status = d]]
      BY <2>3 DEF Decide
    <3> QED BY <2>1, <3>1, <3>2, SeqChanges
  <2> QED BY <2>1, <2>2, <2>3 DEF Evaluate, RequestApproval, FlagBatch, DecideBatch, books
<1>4. CASE Done(r) BY <1>1, <1>2, <1>3, <1>4, EndKeeps
<1>5. CASE (Evaluate(r) \/ RequestApproval(r) \/ FlagBatch(r)) /\ ~Done(r)
  <2>1. PICK pc \in {"request", "flag", "complete"} : Goto(r, [pc |-> pc, batch |-> req[r].batch])
    BY <1>5 DEF Evaluate, RequestApproval, FlagBatch
  <2>2. r \in instance.requests /\ Held(r) /\ req[r].batch \in Batches /\ Known(req[r].batch)
    BY <1>5, UnderWay DEF Evaluate, RequestApproval, FlagBatch
  <2>3. r \in BotRequests BY <1>5, <2>2 DEF Held, Evaluate, RequestApproval, FlagBatch
  <2>4. PICK l : l = [pc |-> pc, batch |-> req[r].batch] OBVIOUS
  <2>5. l \in Locals /\ Fits(l, batch', txns, entries)
    BY <1>2, <2>1, <2>2, <2>4 DEF Locals, Fits, BatchesKeep, Known
  <2> QED BY <1>1, <1>2, <1>3, <2>1, <2>2, <2>3, <2>4, <2>5, RequestKeepsBooks
<1>6. ASSUME NEW i \in DOMAIN approvals, NEW d \in {"approved", "rejected"}, Decide(r, i, d)
      PROVE Shape'
  <2>1. approvals[i] \in [batch : Batches, status : Decisions] BY SeqElements DEF Shape, TypeOK
  <2>2. PICK l : l = [pc |-> "decide", batch |-> approvals[i].batch, decision |-> d] /\ Goto(r, l)
    BY <1>6 DEF Decide
  <2>3. l \in Locals /\ l.pc = "decide" /\ Fits(l, batch', txns, entries)
    BY <2>1, <2>2 DEF Locals, Decisions, Fits
  <2> QED BY <1>1, <1>2, <1>3, <1>6, <2>2, <2>3, RequestKeepsBooks DEF Decide, Starts
<1> QED BY <1>4, <1>5, <1>6 DEF DecideBatch

(* From the confirmed batch to the posted entry. *)
LEMMA BooksKeep ==
    ASSUME Shape, NEW r \in Requests,
           \/ Complete(r) \/ Convert(r) \/ Record(r) \/ LinkBatch(r)
           \/ Generate(r) \/ Book(r) \/ LinkEntry(r) \/ PostEntry(r) \/ Skip(r)
           \/ \E t \in DOMAIN txns : ApiGenerate(r, t)
    PROVE  Shape'
<1> USE DEF At, Booking, BotLabels, Undecided
<1>1. /\ UNCHANGED <<instance, timer, approvals>> /\ faults' \in 0..instance.faults
      /\ timer' \in [Batches -> {"off", "armed", "due"}]
      /\ approvals' \in Seq([batch : Batches, status : Decisions])
  BY FaultCounts DEF Complete, Convert, Record, LinkBatch, Generate, Book, LinkEntry, PostEntry,
     Skip, ApiGenerate, books, NoFault, Shape, TypeOK
<1>2. BatchesKeep
  <2>1. CASE Complete(r) BY <2>1, UnderWay, StatusSet, NoBatchSet DEF Complete, Statuses
  <2>2. CASE LinkBatch(r) BY <2>2, UnderWay, ApprovalSet DEF LinkBatch
  <2> QED BY <2>1, <2>2, NoBatchSet
          DEF Convert, Record, LinkBatch, Generate, Book, LinkEntry, PostEntry, Skip, ApiGenerate
<1>3. req[r].pc # "idle" => r \in instance.requests /\ Held(r) BY UnderWay
<1>4. ASSUME NEW l \in Locals, Goto(r, l), l.pc \notin BotLabels, l # Idle => r \in instance.requests,
             UNCHANGED <<txns, entries>>, Fits(l, batch', txns, entries) PROVE  Shape'
  BY <1>1, <1>2, <1>4, RequestKeepsBooks
<1>5. ASSUME NEW l \in Locals, Goto(r, l), l.pc = "generate", r \in instance.requests,
             UNCHANGED <<txns, entries>>, l.todo # <<>>, Elements(l.todo) \subseteq DOMAIN txns
      PROVE  Shape'
  BY <1>4, <1>5 DEF Fits
<1>6. CASE Done(r) /\ UNCHANGED <<txns, entries>> BY <1>1, <1>2, <1>6, EndKeeps
<1>7. CASE NextTxn(r) /\ UNCHANGED <<txns, entries>> /\ req[r].pc \in Booking
  <2>1. PICK l \in Locals :
          /\ Goto(r, l)
          /\ \/ l = Idle
             \/ /\ l.pc = "generate" /\ l.todo \in Seq(Nat) /\ l.todo # <<>>
                /\ Elements(l.todo) \subseteq Elements(req[r].todo)
    BY <1>7, NextTxnGoes
  <2>2. CASE l = Idle BY <1>6, <1>7, <2>1, <2>2 DEF Done
  <2> QED BY <1>5, <1>7, <2>1, <2>2, AtTxn
<1>8. CASE Complete(r)
  <2>1. PICK l : l = [pc |-> "convert", batch |-> req[r].batch] /\ Goto(r, l) BY <1>8 DEF Complete
  <2>2. l \in Locals /\ l.pc = "convert" /\ Fits(l, batch', txns, entries)
    BY <1>8, <2>1, UnderWay DEF Complete, Locals, Fits
  <2> QED BY <1>3, <1>4, <1>8, <2>1, <2>2 DEF Complete, books
<1>9. CASE Convert(r) /\ Convertible(req[r].batch)
  <2>1. req[r].batch \in Batches /\ Known(req[r].batch) /\ batch[req[r].batch].results \in Seq(Amounts)
    BY <1>9, UnderWay DEF Convert, Convertible, Shape, TypeOK, BatchRow
  <2>2. PICK l : /\ l = [pc |-> "record", batch |-> req[r].batch,
                         results |-> batch[req[r].batch].results, made |-> <<>>]
                 /\ Goto(r, l)
    BY <1>9 DEF Convert
  <2>3. l \in Locals /\ l.pc = "record" /\ Fits(l, batch', txns, entries)
    BY <2>1, <2>2, Scanned DEF Locals, Fits, Known
  <2> QED BY <1>3, <1>4, <1>9, <2>2, <2>3 DEF Convert, books
<1>10. CASE Record(r)
  <2>1. PICK l \in Locals :
          /\ Goto(r, l) /\ l.pc = "record" /\ l.batch = req[r].batch
          /\ l.results = req[r].results /\ l.made = Append(req[r].made, Len(txns) + 1)
    BY <1>10, MadeGrows
  <2>2. /\ txns' \in Seq(Txn) /\ DOMAIN txns' = DOMAIN txns \cup {Len(txns) + 1}
        /\ \A t \in DOMAIN txns : txns'[t] = txns[t]
        /\ txns'[Len(txns) + 1].batch = req[r].batch
        /\ txns'[Len(txns) + 1].row = Len(req[r].made) + 1
        /\ txns'[Len(txns) + 1].entry = 0
    BY <1>10, TxnAppended
  <2>3. \A t \in DOMAIN txns' : txns'[t].entry \in 0..Len(entries)
    <3>1. \A t \in DOMAIN txns : txns[t].entry \in 0..Len(entries) BY DEF Shape, TypeOK
    <3>2. Len(entries) \in Nat BY DEF Shape, TypeOK
    <3> QED BY <2>2, <3>1, <3>2
  <2>4. UNCHANGED entries /\ r \in instance.requests /\ Len(req[r].made) + 1 <= Len(req[r].results)
    BY <1>3, <1>10 DEF Record
  <2>5. /\ Fits(req[r], batch, txns, entries) /\ req[r].made \in Seq(Nat)
        /\ Len(txns) + 1 \in Nat /\ req[r].pc = "record"
    BY <1>10, UnderWay, TxnAppended DEF Record, Held
  <2>6. /\ Len(l.made) = Len(req[r].made) + 1 /\ DOMAIN l.made = DOMAIN req[r].made \cup {Len(req[r].made) + 1}
        /\ l.made[Len(req[r].made) + 1] = Len(txns) + 1
        /\ \A k \in DOMAIN req[r].made : l.made[k] = req[r].made[k]
    <3>1. ASSUME NEW m \in Seq(Nat), NEW x \in Nat, l.made = Append(m, x)
          PROVE  /\ Len(l.made) = Len(m) + 1 /\ DOMAIN l.made = DOMAIN m \cup {Len(m) + 1}
                 /\ l.made[Len(m) + 1] = x /\ \A k \in DOMAIN m : l.made[k] = m[k]
      BY <3>1, SeqAppends
    <3> QED BY <2>1, <2>5, <3>1
  <2>7. Fits(l, batch', txns', entries')
    <3>1. ASSUME NEW k \in DOMAIN l.made
          PROVE  /\ l.made[k] \in DOMAIN txns'
                 /\ txns'[l.made[k]].batch = l.batch /\ txns'[l.made[k]].row = k
      <4>1. CASE k \in DOMAIN req[r].made
        <5>1. /\ req[r].made[k] \in DOMAIN txns
              /\ txns[req[r].made[k]].batch = req[r].batch /\ txns[req[r].made[k]].row = k
          BY <2>5, <4>1 DEF Fits
        <5> QED BY <2>1, <2>2, <2>6, <4>1, <5>1
      <4>2. CASE k = Len(req[r].made) + 1 BY <2>1, <2>2, <2>6, <4>2
      <4> QED BY <2>6, <3>1, <4>1, <4>2
    <3>2. Len(l.results) = Receipts[l.batch] /\ Len(l.made) <= Len(l.results)
      BY <2>1, <2>4, <2>5, <2>6 DEF Fits
    <3> QED BY <2>1, <3>1, <3>2 DEF Fits
  <2>8. /\ entries \in Seq(JournalEntry)
        /\ \A e \in DOMAIN entries : entries[e].txn \in DOMAIN txns'
    BY <2>2 DEF Shape, TypeOK
  <2> QED BY <1>1, <1>2, <2>1, <2>2, <2>3, <2>4, <2>7, <2>8, RequestKeeps
<1>11. CASE LinkBatch(r) /\ r \in BotRequests
  <2>1. PICK l : l = [pc |-> "generate", todo |-> req[r].made] /\ Goto(r, l) BY <1>11 DEF LinkBatch
  <2>2. /\ req[r].made \in Seq(Nat) /\ Len(req[r].made) = Receipts[req[r].batch]
        /\ req[r].batch \in Batches
        /\ \A k \in DOMAIN req[r].made : req[r].made[k] \in DOMAIN txns
    BY <1>3, <1>11, UnderWay DEF LinkBatch, Held, Fits
  <2>3. l \in Locals /\ l.pc = "generate" /\ l.todo # <<>> /\ Elements(l.todo) \subseteq DOMAIN txns
    BY <2>1, <2>2, Scanned DEF Locals, Elements
  <2> QED BY <1>3, <1>5, <1>11, <2>1, <2>3 DEF LinkBatch, books
<1>12. ASSUME NEW t \in DOMAIN txns, ApiGenerate(r, t) PROVE Shape'
  <2>1. PICK l : l = [pc |-> "generate", todo |-> <<t>>] /\ Goto(r, l) BY <1>12 DEF ApiGenerate
  <2>2. t \in Nat BY DEF Shape, TypeOK
  <2>3. <<t>> \in Seq(Nat) /\ <<t>> # <<>> /\ Elements(<<t>>) = {t} BY <2>2, WorkOfOne
  <2>4. l \in Locals /\ l.pc = "generate" /\ l.todo # <<>> /\ Elements(l.todo) \subseteq DOMAIN txns
    BY <2>1, <2>3 DEF Locals
  <2> QED BY <1>5, <1>12, <2>1, <2>4 DEF ApiGenerate, Starts, books
<1>13. CASE Generate(r) /\ ~NextTxn(r)
  <2>1. PICK l : l = [pc |-> "book", todo |-> req[r].todo] /\ Goto(r, l) BY <1>13 DEF Generate
  <2>2. l \in Locals /\ l.pc = "book" /\ Fits(l, batch', txns, entries) /\ r \in instance.requests
    BY <1>13, <2>1, AtTxn DEF Generate, Locals, Fits
  <2> QED BY <1>4, <1>13, <2>1, <2>2 DEF Generate, books
<1>14. CASE Book(r)
  <2>1. /\ r \in instance.requests /\ Current(r) \in DOMAIN txns /\ req[r].todo \in Seq(Nat)
        /\ req[r].todo # <<>> /\ Elements(req[r].todo) \subseteq DOMAIN txns
        /\ Current(r) = Head(req[r].todo)
    BY <1>14, AtTxn DEF Book
  <2>2. [txn |-> Current(r), status |-> "draft"] \in JournalEntry
    BY <2>1 DEF JournalEntry, Shape, TypeOK
  <2>3. /\ entries' \in Seq(JournalEntry) /\ Len(entries') = Len(entries) + 1
        /\ DOMAIN entries' = DOMAIN entries \cup {Len(entries) + 1}
        /\ \A e \in DOMAIN entries : entries'[e] = entries[e]
        /\ entries'[Len(entries) + 1].txn = Current(r) /\ Len(entries) + 1 \in Nat
    BY <1>14, <2>2 DEF Book, Shape, TypeOK
  <2>4. PICK l : l = [pc |-> "link", todo |-> req[r].todo, entry |-> Len(entries) + 1] /\ Goto(r, l)
    BY <1>14 DEF Book
  <2>5. UNCHANGED txns BY <1>14 DEF Book
  <2>6. l \in Locals /\ l.pc = "link" /\ Fits(l, batch', txns', entries')
    BY <2>1, <2>3, <2>4, <2>5 DEF Locals, Fits
  <2>7. /\ \A t \in DOMAIN txns' : txns'[t].entry \in 0..Len(entries')
        /\ txns' \in Seq(Txn)
    BY <2>3, <2>5 DEF Shape, TypeOK
  <2>8. \A e \in DOMAIN entries' : entries'[e].txn \in DOMAIN txns'
    BY <2>1, <2>3, <2>5 DEF Shape, TypeOK
  <2> QED BY <1>1, <1>2, <2>1, <2>3, <2>4, <2>5, <2>6, <2>7, <2>8, RequestKeeps
<1>15. CASE LinkEntry(r)
  <2>1. /\ r \in instance.requests /\ req[r].todo \in Seq(Nat) /\ req[r].entry \in DOMAIN entries
        /\ req[r].todo # <<>> /\ Elements(req[r].todo) \subseteq DOMAIN txns
        /\ entries[req[r].entry].txn = Head(req[r].todo)
    BY <1>15, AtTxn DEF LinkEntry
  <2>2. PICK l : l = [pc |-> "post", todo |-> req[r].todo, entry |-> req[r].entry] /\ Goto(r, l)
    BY <1>15 DEF LinkEntry
  <2>3. UNCHANGED entries BY <1>15 DEF LinkEntry
  <2>4. /\ txns' \in Seq(Txn) /\ DOMAIN txns' = DOMAIN txns
        /\ \A t \in DOMAIN txns : txns'[t].batch = txns[t].batch /\ txns'[t].row = txns[t].row
    BY <1>15, TxnLinked
  <2>5. \A t \in DOMAIN txns' : txns'[t].entry \in 0..Len(entries')
    <3>1. ASSUME NEW t \in DOMAIN txns, t # Current(r) PROVE txns'[t].entry \in 0..Len(entries)
      BY <1>15, <3>1, TxnLinked DEF Shape, TypeOK
    <3>2. txns'[Current(r)].entry \in 0..Len(entries)
      BY <1>15, <2>1, TxnLinked, SeqElements DEF Shape, TypeOK
    <3> QED BY <2>3, <2>4, <3>1, <3>2
  <2>6. l \in Locals /\ l.pc = "post" /\ Fits(l, batch', txns', entries')
    BY <2>1, <2>2, <2>3, <2>4 DEF Locals, Fits, Shape, TypeOK
  <2>7. entries \in Seq(JournalEntry) /\ \A e \in DOMAIN entries : entries[e].txn \in DOMAIN txns
    BY DEF Shape, TypeOK
  <2> QED BY <1>1, <1>2, <2>1, <2>2, <2>3, <2>4, <2>5, <2>6, <2>7, RequestKeeps
<1>16. CASE PostEntry(r)
  <2>1. req[r].entry \in DOMAIN entries BY <1>16, AtTxn DEF PostEntry
  <2>2. entries \in Seq(JournalEntry) /\ \A e \in DOMAIN entries : entries[e] \in JournalEntry
    BY DEF Shape, TypeOK
  <2>3. /\ entries' \in Seq(JournalEntry) /\ DOMAIN entries' = DOMAIN entries
        /\ Len(entries') = Len(entries)
        /\ \A e \in DOMAIN entries : entries'[e].txn = entries[e].txn
    <3>1. [entries[req[r].entry] EXCEPT !.status = "posted"] \in JournalEntry
      BY <2>1, <2>2 DEF JournalEntry
    <3>2. entries' = [entries EXCEPT ![req[r].entry] = [entries[req[r].entry] EXCEPT !.status = "posted"]]
      BY <1>16 DEF PostEntry
    <3>3. entries' \in Seq(JournalEntry) /\ Len(entries') = Len(entries)
      BY <2>1, <2>2, <3>1, <3>2, SeqChanges
    <3>4. ASSUME NEW e \in DOMAIN entries PROVE entries'[e].txn = entries[e].txn
      BY <2>1, <2>2, <3>2 DEF JournalEntry
    <3> QED BY <3>2, <3>3, <3>4
  <2>4. UNCHANGED txns BY <1>16 DEF PostEntry
  <2>5. /\ txns' \in Seq(Txn)
        /\ \A t \in DOMAIN txns' : txns'[t].entry \in 0..Len(entries')
        /\ \A e \in DOMAIN entries' : entries'[e].txn \in DOMAIN txns'
    BY <2>3, <2>4 DEF Shape, TypeOK
  <2>6. PICK l \in Locals :
          /\ Goto(r, l)
          /\ \/ l = Idle
             \/ /\ l.pc = "generate" /\ l.todo \in Seq(Nat) /\ l.todo # <<>>
                /\ Elements(l.todo) \subseteq Elements(req[r].todo)
    BY <1>16, NextTxnGoes DEF PostEntry
  <2>7. r \in instance.requests /\ Elements(req[r].todo) \subseteq DOMAIN txns
    BY <1>16, AtTxn DEF PostEntry
  <2>8. Fits(l, batch', txns', entries') /\ l.pc \notin BotLabels BY <2>4, <2>6, <2>7 DEF Fits, Idle
  <2> QED BY <1>1, <1>2, <2>3, <2>4, <2>5, <2>6, <2>7, <2>8, RequestKeeps
<1> QED BY <1>6, <1>7, <1>8, <1>9, <1>10, <1>11, <1>12, <1>13, <1>14, <1>15, <1>16
        DEF Convert, LinkBatch, Generate, Skip, books
(* Failures, and the timeout of a batch. *)
LEMMA OthersKeep ==
    ASSUME Shape, \/ \E r \in Requests : GiveUp(r)
                  \/ \E b \in Batches : TimeoutRead(b) \/ TimeoutCancel(b)
                  \/ Restart
    PROVE  Shape'
<1>1. Idle \in Locals /\ Idle.pc = "idle" BY DEF Locals, Idle
<1>2. UNCHANGED <<instance, books>> /\ faults' \in 0..instance.faults
  BY FaultCounts DEF GiveUp, TimeoutRead, TimeoutCancel, Restart, NoFault, Shape, TypeOK
<1>3. BatchesKeep
  <2>1. CASE \E b \in Batches : TimeoutCancel(b) /\ SetStatus(b, "cancelled")
    BY <2>1, StatusSet DEF Statuses
  <2>2. CASE Restart
    <3>1. \A b \in Batches : LET row == [batch[b] EXCEPT !.status = "cancelled"]
                            IN  /\ row \in BatchRow /\ row.status = "cancelled"
                                /\ row.results = batch[b].results
      BY DEF Shape, TypeOK, BatchRow
    <3>2. \A b \in Batches : batch'[b] = batch[b] \/ batch'[b] = [batch[b] EXCEPT !.status = "cancelled"]
      BY <2>2 DEF Restart
    <3>3. batch' \in [Batches -> BatchRow] BY <2>2, <3>1 DEF Restart, Shape, TypeOK
    <3>4. \A b \in Batches : /\ batch'[b].results = batch[b].results
                            /\ batch'[b].status \in {batch[b].status, "cancelled"}
      BY <3>1, <3>2
    <3> QED BY <3>3, <3>4 DEF BatchesKeep, Known, Shape
  <2> QED BY <2>1, <2>2, NoBatchSet DEF GiveUp, TimeoutRead, TimeoutCancel
<1>4. timer' \in [Batches -> {"off", "armed", "due"}]
  BY DEF GiveUp, TimeoutRead, TimeoutCancel, Restart, Shape, TypeOK
<1>5. ASSUME NEW r \in Requests, GiveUp(r) PROVE Shape'
  BY <1>2, <1>3, <1>4, <1>5, EndKeeps DEF GiveUp, books, Shape, TypeOK
<1>6. CASE \A r \in Requests : req'[r] = Idle \/ req'[r] = req[r]
  <2>1. ASSUME NEW r \in Requests, req'[r] = Idle PROVE Held(r)'
    BY <1>1, <2>1 DEF Held, Fits, BotLabels, Booking
  <2>2. ASSUME NEW r \in Requests, req'[r] = req[r] PROVE Held(r)'
    <3> DEFINE l == req[r]
    <3>1. l \in Locals /\ Fits(l, batch, txns, entries) /\ Held(r) BY DEF Shape, TypeOK, Held
    <3>2. l.pc \in Undecided => l.batch \in Batches BY <3>1, LocalFacts
    <3> HIDE DEF l
    <3>3. Fits(l, batch', txns, entries) BY <1>3, <3>1, <3>2 DEF Fits, BatchesKeep, Known, Undecided
    <3> QED BY <1>2, <2>2, <3>1, <3>3 DEF Held, l, books
  <2>3. req' \in [Requests -> Locals]
    BY <1>1, <1>6 DEF GiveUp, Done, Goto, TimeoutRead, TimeoutCancel, Restart, Shape, TypeOK
  <2>4. TypeOK' BY <1>2, <1>3, <1>4, <2>3 DEF Shape, TypeOK, books, BatchesKeep
  <2> QED BY <1>3, <1>6, <2>1, <2>2, <2>4 DEF Shape, BatchesKeep
<1> QED BY <1>5, <1>6 DEF TimeoutRead, TimeoutCancel, Restart

(* Shape holds at first. *)
LEMMA ShapeInit == Init => Shape
BY ReceiptFlowAssumption DEF Init, Shape, TypeOK, Held, Fits, Idle, Locals, BatchRow, NoBatch,
   Amounts, BotLabels, Booking

(* Every step keeps it. *)
LEMMA ShapeKept == Shape /\ [Next]_vars => Shape'
<1> SUFFICES ASSUME Shape, [Next]_vars PROVE Shape' OBVIOUS
<1>1. CASE UNCHANGED vars BY <1>1 DEF vars, books, Shape, TypeOK, Held, Known
<1>2. CASE Next
  BY <1>2, UploadKeeps, AskKeeps, ApprovalKeeps, BooksKeep, OthersKeep DEF Next, Continue
<1> QED BY <1>1, <1>2
----
(* What is said of the state besides its shape. *)

OneBot == Cardinality(Active) = 1

(* A batch with a transaction of the bot is settled, no handler that could
   record it anew, or open it again, is under way, and one that is recording it
   has come further than all that is recorded. *)
OnceInv(b) ==
    /\ BotTxnsOf(b) # {} =>
         /\ batch[b].status \in Settled
         /\ \A r \in BotRequests : ~(req[r].pc \in Undecided \ {"record"} /\ req[r].batch = b)
    /\ \A r \in BotRequests : req[r].pc = "record" /\ req[r].batch = b =>
         /\ batch[b].status \in Settled
         /\ \A t \in BotTxnsOf(b) : txns[t].row <= Len(req[r].made)
    /\ \A s, t \in BotTxnsOf(b) : txns[s].row = txns[t].row => s = t

(* The amount that was evaluated is that of the first receipt, until it is
   recorded. *)
SmallInv(b) ==
    \A r \in BotRequests : req[r].pc \in Undecided /\ req[r].batch = b =>
      /\ req[r].pc = "evaluate" => req[r].amount = batch[b].results[1]
      /\ req[r].pc \in {"complete", "convert"} => batch[b].results[1] = "small"
      /\ req[r].pc = "record" => req[r].results[1] = "small"

BotTxnsSmall ==
    \A t \in DOMAIN txns : txns[t].by = "bot" /\ txns[t].row = 1 => txns[t].amount = "small"

(* A completed batch has its transactions, or somebody on the way to record
   them or to ask about it. *)
DueInv(b) ==
    batch[b].status = "completed" =>
      \/ Recorded(b)
      \/ \E r \in Requests : req[r].pc \in {"ask", "convert", "record"} /\ req[r].batch = b

(* Of the bot's handlers at most one holds a transaction, since each books what
   it has recorded. *)
Work(l) ==
    IF l.pc = "record" THEN Elements(l.made)
    ELSE IF l.pc \in Booking THEN Elements(l.todo) ELSE {}
BotApart ==
    \A q, r \in BotRequests : \A t \in Work(req[q]) : t \in Work(req[r]) => q = r

(* The entries of a transaction without a link are those on the way to be
   linked and those that were lost; whoever is about to book another is one of
   the requests. *)
Bookers(t) == {r \in Requests : req[r].pc = "book" /\ Current(r) = t}
Linkers(t) == {r \in Requests : req[r].pc = "link" /\ Current(r) = t}

EntryInv(t) ==
    /\ Unlinked(t) => Cardinality(EntriesOf(t)) <= Cardinality(Linkers(t)) + faults
    /\ Cardinality(EntriesOf(t)) + Cardinality(Bookers(t))
         <= Cardinality(instance.requests) + faults

(* Only one handler of the bot is ever under way then. *)
LEMMA OnlyBot ==
    ASSUME Shape, OneBot, NEW q \in BotRequests, NEW r \in BotRequests,
           q \in instance.requests, r \in instance.requests
    PROVE  q = r
<1>1. Active \in SUBSET Requests /\ IsFiniteSet(Requests)
  BY ReceiptFlowAssumption DEF Active, Requests
<1>2. IsFiniteSet(Active) BY <1>1, FS_Subset
<1>3. PICK x : Active = {x} BY <1>2, FS_Singleton DEF OneBot
<1> QED BY <1>3 DEF Active

(* An instance without faults has none. *)
LEMMA NoFaults == ASSUME Shape, instance.faults = 0 PROVE ~Fault
BY DEF Shape, TypeOK, Fault

(* The instance is chosen once. *)
LEMMA InstanceStays == [Next]_vars => UNCHANGED instance
BY DEF Next, vars, Continue, Upload, CancelRead, EditRead, Confirm, ApiConvert, Decide, ApiGenerate,
   Skip, GiveUp, TimeoutRead, TimeoutCancel, Restart, Recognise, Ask, CancelWrite, EditWrite,
   Evaluate, RequestApproval, FlagBatch, DecideBatch, Complete, Convert, Record, LinkBatch,
   Generate, Book, LinkEntry, PostEntry

(* Who owns a transaction is settled when it is recorded. *)
LEMMA TxnsStay ==
    ASSUME UNCHANGED txns
    PROVE  /\ \A b \in Batches : TxnsOf(b)' = TxnsOf(b) /\ BotTxnsOf(b)' = BotTxnsOf(b)
           /\ \A b \in Batches : \A t \in BotTxnsOf(b) : txns'[t].row = txns[t].row
           /\ BotTxnsSmall => BotTxnsSmall'
BY DEF TxnsOf, BotTxnsOf, BotTxnsSmall

(* A link moves no transaction from batch to batch. *)
LEMMA TxnsStayLinked ==
    ASSUME Shape, NEW r \in Requests, LinkEntry(r)
    PROVE  /\ \A b \in Batches : TxnsOf(b)' = TxnsOf(b) /\ BotTxnsOf(b)' = BotTxnsOf(b)
           /\ \A b \in Batches : \A t \in BotTxnsOf(b) : txns'[t].row = txns[t].row
           /\ BotTxnsSmall => BotTxnsSmall'
BY TxnLinked DEF TxnsOf, BotTxnsOf, BotTxnsSmall

(* Recording adds one transaction to the batch of the request. *)
LEMMA TxnsGrow ==
    ASSUME Shape, NEW r \in Requests, Record(r), NEW b \in Batches
    PROVE  /\ TxnsOf(b)' = TxnsOf(b) \cup (IF req[r].batch = b THEN {Len(txns) + 1} ELSE {})
           /\ BotTxnsOf(b)' = BotTxnsOf(b) \cup (IF req[r].batch = b /\ r \in BotRequests
                                                THEN {Len(txns) + 1} ELSE {})
           /\ \A t \in BotTxnsOf(b) : txns'[t].row = txns[t].row
<1>1. TxnsOf(b)' = TxnsOf(b) \cup (IF req[r].batch = b THEN {Len(txns) + 1} ELSE {})
  BY TxnAppended DEF TxnsOf
<1>2. \A t \in TxnsOf(b) : txns'[t].by = txns[t].by /\ t # Len(txns) + 1 BY TxnAppended DEF TxnsOf
<1>3. txns'[Len(txns) + 1].by = IF r \in BotRequests THEN "bot" ELSE "api" BY TxnAppended
<1>4. \A t \in TxnsOf(b) : txns'[t].row = txns[t].row BY TxnAppended DEF TxnsOf
<1> QED BY <1>1, <1>2, <1>3, <1>4 DEF BotTxnsOf

(* What the handlers of pictures and of the two other buttons write. *)
LEMMA PictureWrites ==
    ASSUME Shape, NEW r \in Requests, Recognise(r) \/ Ask(r) \/ CancelWrite(r) \/ EditWrite(r)
    PROVE  /\ req[r].batch \in Batches
           /\ \A c \in Batches : /\ c # req[r].batch => batch'[c].status = batch[c].status
                                 /\ batch'[c].linked = batch[c].linked
           /\ \/ Recognise(r) \/ Fault
              \/ batch'[req[r].batch].status \in {"pending_confirmation", "cancelled"}
<1> USE DEF At, Undecided
<1>1. /\ req[r].batch \in Batches
      /\ req[r].pc \in {"ask", "edit"} =>
           req[r].results \in Seq(Amounts) /\ Len(req[r].results) = Receipts[req[r].batch]
  BY UnderWay DEF Recognise, Ask, CancelWrite, EditWrite
<1>2. CASE UNCHANGED batch /\ Fault BY <1>1, <1>2
<1>3. ASSUME NEW status \in {"cancelled", "failed"}, SetStatus(req[r].batch, status)
      PROVE  /\ \A c \in Batches : /\ c # req[r].batch => batch'[c].status = batch[c].status
                                   /\ batch'[c].linked = batch[c].linked
             /\ batch'[req[r].batch].status = status
  BY <1>1, <1>3, StatusSet DEF Statuses
<1>4. ASSUME NEW status \in {"completed", "pending_confirmation"}, NEW f \in Seq(Amounts),
             Len(f) = Receipts[req[r].batch], SetResults(req[r].batch, status, f)
      PROVE  /\ \A c \in Batches : /\ c # req[r].batch => batch'[c].status = batch[c].status
                                   /\ batch'[c].linked = batch[c].linked
             /\ batch'[req[r].batch].status = status
  BY <1>1, <1>4, ResultsSet DEF Statuses
<1>5. CASE Recognise(r)
  <2>1. \A f \in Scan(req[r].batch) : f \in Seq(Amounts) /\ Len(f) = Receipts[req[r].batch]
    BY <1>1, Scanned
  <2> QED BY <1>1, <1>2, <1>3, <1>4, <1>5, <2>1 DEF Recognise
<1>6. CASE Ask(r)
  <2>1. \A f \in Captioned(req[r].results) : f \in Seq(Amounts) /\ Len(f) = Receipts[req[r].batch]
    BY <1>1, <1>6, Scanned DEF Ask, Captioned
  <2> QED BY <1>1, <1>2, <1>4, <1>6, <2>1 DEF Ask
<1>7. CASE CancelWrite(r) BY <1>1, <1>3, <1>7 DEF CancelWrite
<1>8. CASE EditWrite(r) BY <1>1, <1>4, <1>8 DEF EditWrite
<1> QED BY <1>5, <1>6, <1>7, <1>8
----
(* One update of the bot at a time. *)

(* Its step keeps OnceInv when it leaves recorded batches settled and goes on
   with another. *)
LEMMA OnceOfBot ==
    ASSUME Shape, OneBot, \A b \in Batches : OnceInv(b),
           NEW r \in BotRequests, r \in instance.requests, NEW l, Goto(r, l), UNCHANGED txns,
           \A b \in Batches : BotTxnsOf(b) # {} => batch'[b].status \in Settled,
           \A b \in Batches : l.pc \in Undecided /\ l.batch = b => BotTxnsOf(b) = {},
           \A b \in Batches : l.pc = "record" /\ l.batch = b => batch'[b].status \in Settled
    PROVE  \A b \in Batches : OnceInv(b)'
<1>1. r \in Requests BY DEF Requests
<1>2. req'[r] = l /\ \A q \in Requests : q # r => req'[q] = req[q] BY <1>1, OthersStay
<1>3. \A q \in BotRequests : q # r => req'[q] = Idle BY <1>2, OnlyBot DEF Shape, Held, Requests
<1>4. \A b \in Batches : BotTxnsOf(b)' = BotTxnsOf(b) BY TxnsStay
<1> QED BY <1>2, <1>3, <1>4 DEF OnceInv, Idle, Undecided

(* Whatever else happens keeps it when settled batches stay so. *)
LEMMA OnceOfOthers ==
    ASSUME \A b \in Batches : OnceInv(b),
           \A r \in BotRequests : req'[r] = req[r] \/ req'[r] = Idle,
           \A b \in Batches : BotTxnsOf(b)' = BotTxnsOf(b),
           \A b \in Batches : \A t \in BotTxnsOf(b) : txns'[t].row = txns[t].row,
           \A b \in Batches : batch[b].status \in Settled => batch'[b].status \in Settled
    PROVE  \A b \in Batches : OnceInv(b)'
BY DEF OnceInv, Idle, Undecided
(* A button of the bot starts on a batch that is pending, an upload on none. *)
LEMMA OnceStarts ==
    ASSUME Shape, OneBot, \A b \in Batches : OnceInv(b), NEW r \in Requests, NEW b \in Batches,
           Upload(r, b) \/ CancelRead(r, b) \/ EditRead(r, b) \/ Confirm(r, b) \/ ApiConvert(r, b)
    PROVE  \A c \in Batches : OnceInv(c)'
<1> USE DEF Undecided
<1>1. UNCHANGED txns /\ r \in instance.requests
  BY DEF Upload, CancelRead, EditRead, Confirm, ApiConvert, Starts, books
<1>2. CASE Upload(r, b)
  <2>1. batch[b].status = "none" BY <1>2 DEF Upload, NoBatch
  <2>2. \A c \in Batches : BotTxnsOf(c) # {} => c # b /\ batch'[c].status \in Settled
    BY <1>2, <2>1, StatusSet DEF Upload, OnceInv, Settled, Statuses
  <2>3. r \in BotRequests /\ Goto(r, [pc |-> "ocr", batch |-> b]) BY <1>2 DEF Upload
  <2> QED BY <1>1, <2>2, <2>3, OnceOfBot
<1>3. CASE CancelRead(r, b) \/ EditRead(r, b) \/ Confirm(r, b)
  <2>1. BotTxnsOf(b) = {} /\ UNCHANGED batch /\ r \in BotRequests
    BY <1>3 DEF CancelRead, EditRead, Confirm, Pending, OnceInv, Settled
  <2>2. PICK l : Goto(r, l) /\ l.pc # "record" /\ l.batch = b
    <3>1. CASE CancelRead(r, b) BY <3>1 DEF CancelRead
    <3>2. CASE EditRead(r, b) BY <3>2 DEF EditRead
    <3>3. CASE Confirm(r, b)
      <4>1. PICK typed : Goto(r, [pc |-> "evaluate", batch |-> b, amount |-> batch[b].results[1],
                                  duplicate |-> typed])
        BY <3>3 DEF Confirm
      <4> QED BY <4>1
    <3> QED BY <1>3, <3>1, <3>2, <3>3
  <2> QED BY <1>1, <2>1, <2>2, OnceOfBot DEF OnceInv
<1>4. CASE ApiConvert(r, b)
  <2>1. \A q \in BotRequests : req'[q] = req[q]
    BY <1>4, OthersStay, ReceiptFlowAssumption DEF ApiConvert, Requests
  <2> QED BY <1>1, <1>4, <2>1, TxnsStay, OnceOfOthers DEF ApiConvert
<1> QED BY <1>2, <1>3, <1>4

(* A handler that writes a status writes it to a batch without a transaction,
   or settles it. *)
LEMMA OnceWrites ==
    ASSUME Shape, OneBot, \A b \in Batches : OnceInv(b), NEW r \in Requests,
           Recognise(r) \/ Ask(r) \/ CancelWrite(r) \/ EditWrite(r) \/ Complete(r)
    PROVE  \A c \in Batches : OnceInv(c)'
<1> USE DEF Undecided, At
<1>1. /\ UNCHANGED txns /\ r \in instance.requests /\ req[r].batch \in Batches
      /\ r \in BotRequests
  BY UnderWay DEF Recognise, Ask, CancelWrite, EditWrite, Complete, books, Held, BotLabels
<1>2. CASE Recognise(r) \/ Ask(r) \/ EditWrite(r)
  <2>1. BotTxnsOf(req[r].batch) = {} BY <1>1, <1>2 DEF OnceInv, Recognise, Ask, EditWrite
  <2>2. \A c \in Batches : c # req[r].batch => batch'[c].status = batch[c].status
    BY <1>2, PictureWrites
  <2>3. PICK l : Goto(r, l) /\ l.pc # "record" /\ (l.pc \in Undecided => l.batch = req[r].batch)
    <3>1. CASE Recognise(r) /\ ~Done(r)
      <4>1. PICK f : Goto(r, [pc |-> "ask", batch |-> req[r].batch, results |-> f])
        BY <3>1 DEF Recognise
      <4> QED BY <4>1
    <3>2. CASE Done(r) BY <3>2 DEF Done, Idle
    <3> QED BY <1>2, <3>1, <3>2 DEF Ask, EditWrite
  <2> QED BY <1>1, <2>1, <2>2, <2>3, OnceOfBot DEF OnceInv
<1>3. CASE CancelWrite(r)
  <2>1. \A c \in Batches : batch[c].status \in Settled => batch'[c].status \in Settled
    BY <1>1, <1>3, StatusSet DEF CancelWrite, Settled, Statuses
  <2>2. Goto(r, Idle) /\ Idle.pc = "idle" BY <1>3 DEF CancelWrite, Done, Idle
  <2> QED BY <1>1, <2>1, <2>2, OnceOfBot DEF OnceInv
<1>4. CASE Complete(r)
  <2>1. \A c \in Batches : batch[c].status \in Settled => batch'[c].status \in Settled
    BY <1>1, <1>4, StatusSet DEF Complete, Settled, Statuses
  <2>2. BotTxnsOf(req[r].batch) = {} BY <1>1, <1>4 DEF OnceInv, Complete
  <2>3. PICK l : Goto(r, l) /\ l.pc = "convert" /\ l.batch = req[r].batch BY <1>4 DEF Complete
  <2>4. \A c \in Batches : BotTxnsOf(c) # {} => batch'[c].status \in Settled BY <2>1 DEF OnceInv
  <2> QED BY <1>1, <2>2, <2>3, <2>4, OnceOfBot
<1> QED BY <1>2, <1>3, <1>4

(* The approval and the conversion go on with the batch they had. *)
LEMMA OnceGoesOn ==
    ASSUME Shape, OneBot, \A b \in Batches : OnceInv(b), NEW r \in Requests,
           \/ Evaluate(r) \/ RequestApproval(r) \/ FlagBatch(r) \/ Convert(r)
           \/ DecideBatch(r) \/ LinkBatch(r) \/ Generate(r) \/ Book(r) \/ PostEntry(r)
           \/ Skip(r) \/ GiveUp(r)
           \/ \E i \in DOMAIN approvals, d \in {"approved", "rejected"} : Decide(r, i, d)
           \/ \E t \in DOMAIN txns : ApiGenerate(r, t)
    PROVE  \A c \in Batches : OnceInv(c)'
<1> USE DEF Undecided, At
<1>1. UNCHANGED txns /\ r \in instance.requests
  BY UnderWay, LocalFacts DEF Evaluate, RequestApproval, FlagBatch, Convert, DecideBatch, LinkBatch,
     Generate, Book, PostEntry, Skip, GiveUp, Decide, ApiGenerate, books, Starts, Shape, Held
<1>2. \A c \in Batches : batch'[c].status = batch[c].status
  BY UnderWay, ApprovalSet DEF Evaluate, RequestApproval, FlagBatch, Convert, DecideBatch,
     LinkBatch, Generate, Book, PostEntry, Skip, GiveUp, Decide, ApiGenerate, books, Decisions
<1>3. PICK l : /\ Goto(r, l)
               /\ l.pc \in Undecided => req[r].pc \in Undecided \ {"record"} /\ l.batch = req[r].batch
               /\ l.pc = "record" => Convertible(req[r].batch)
  <2>1. CASE Evaluate(r)
    <3>1. PICK pc \in {"request", "complete"} : Goto(r, [pc |-> pc, batch |-> req[r].batch])
      BY <2>1 DEF Evaluate
    <3> QED BY <2>1, <3>1 DEF Evaluate
  <2>2. CASE RequestApproval(r) \/ FlagBatch(r) BY <2>2 DEF RequestApproval, FlagBatch, Done, Idle
  <2>3. CASE Convert(r) BY <2>3 DEF Convert, Done, Idle
  <2>4. CASE DecideBatch(r) \/ LinkBatch(r) \/ GiveUp(r)
    BY <2>4 DEF DecideBatch, LinkBatch, GiveUp, Done, Idle
  <2>5. CASE Generate(r) \/ Book(r) \/ PostEntry(r) \/ Skip(r)
    BY <2>5, NextTxnGoes DEF Generate, Book, PostEntry, Skip, Idle, Booking
  <2>6. CASE \E i \in DOMAIN approvals, d \in {"approved", "rejected"} : Decide(r, i, d)
    BY <2>6 DEF Decide
  <2>7. CASE \E t \in DOMAIN txns : ApiGenerate(r, t) BY <2>7 DEF ApiGenerate
  <2> QED BY <2>1, <2>2, <2>3, <2>4, <2>5, <2>6, <2>7
<1>4. CASE r \in BotRequests
  <2>1. \A c \in Batches : l.pc \in Undecided /\ l.batch = c => BotTxnsOf(c) = {}
    BY <1>3, <1>4 DEF OnceInv
  <2>2. \A c \in Batches : l.pc = "record" /\ l.batch = c => batch'[c].status \in Settled
    BY <1>2, <1>3 DEF Convertible, Settled
  <2> QED BY <1>1, <1>2, <1>3, <1>4, <2>1, <2>2, OnceOfBot DEF OnceInv
<1>5. CASE r \notin BotRequests
  <2>1. \A q \in BotRequests : req'[q] = req[q] BY <1>3, <1>5, OthersStay DEF Requests
  <2> QED BY <1>1, <1>2, <2>1, TxnsStay, OnceOfOthers
<1> QED BY <1>4, <1>5
(* A receipt is recorded, and its transaction linked. *)
LEMMA OnceRecords ==
    ASSUME Shape, OneBot, \A b \in Batches : OnceInv(b), NEW r \in Requests,
           Record(r) \/ LinkEntry(r)
    PROVE  \A c \in Batches : OnceInv(c)'
<1> USE DEF Undecided, At
<1>1. UNCHANGED batch BY DEF Record, LinkEntry
<1>2. CASE Record(r) /\ r \in BotRequests
  <2>1. r \in instance.requests /\ req[r].batch \in Batches /\ req[r].pc = "record"
    BY <1>2, UnderWay DEF Record
  <2>2. PICK l \in Locals :
          /\ Goto(r, l) /\ l.pc = "record" /\ l.batch = req[r].batch
          /\ l.made = Append(req[r].made, Len(txns) + 1)
    BY <1>2, MadeGrows
  <2>3. req'[r] = l /\ \A q \in BotRequests : q # r => req'[q].pc = "idle"
    BY <1>2, <2>1, <2>2, OthersStay, OnlyBot DEF Shape, Held, Requests, Idle
  <2>4. /\ req[r].made \in Seq(Nat) /\ Len(l.made) = Len(req[r].made) + 1
        /\ Len(req[r].made) \in Nat
    BY <1>2, <2>1, <2>2, UnderWay, TxnAppended, AppendProperties
  <2>5. txns'[Len(txns) + 1].row = Len(req[r].made) + 1 BY <1>2, TxnAppended
  <2>6. \A c \in Batches : \A t \in BotTxnsOf(c) : txns[t].row \in Nat
    <3>1. \A t \in DOMAIN txns : txns[t] \in Txn BY SeqElements DEF Shape, TypeOK
    <3> QED BY <3>1 DEF BotTxnsOf, TxnsOf, Txn
  <2>7. /\ batch[req[r].batch].status \in Settled
        /\ \A t \in BotTxnsOf(req[r].batch) : txns[t].row <= Len(req[r].made)
    BY <1>2, <2>1 DEF OnceInv
  <2>8. ASSUME NEW c \in Batches PROVE OnceInv(c)'
    <3>1. CASE c # req[r].batch
      <4>1. \A t \in BotTxnsOf(c) : txns'[t].row = txns[t].row BY <1>2, TxnsGrow
      <4>2. BotTxnsOf(c)' = BotTxnsOf(c) BY <1>2, <3>1, TxnsGrow
      <4> QED BY <1>1, <2>2, <2>3, <3>1, <4>1, <4>2 DEF OnceInv
    <3>2. CASE c = req[r].batch
      <4>1. /\ BotTxnsOf(c)' = BotTxnsOf(c) \cup {Len(txns) + 1}
            /\ \A t \in BotTxnsOf(c) : txns'[t].row = txns[t].row
        BY <1>2, <3>2, TxnsGrow
      <4>2. \A s, t \in BotTxnsOf(c) : txns[s].row = txns[t].row => s = t BY DEF OnceInv
      <4>3. \A s, t \in BotTxnsOf(c)' : txns'[s].row = txns'[t].row => s = t
        BY <2>4, <2>5, <2>6, <2>7, <3>2, <4>1, <4>2
      <4>4. \A t \in BotTxnsOf(c)' : txns'[t].row <= Len(l.made)
        BY <2>4, <2>5, <2>6, <2>7, <3>2, <4>1
      <4> QED BY <1>1, <2>2, <2>3, <2>7, <3>2, <4>3, <4>4 DEF OnceInv
    <3> QED BY <3>1, <3>2
  <2> QED BY <2>8
<1>3. CASE Record(r) /\ r \notin BotRequests
  <2>1. \A c \in Batches : /\ BotTxnsOf(c)' = BotTxnsOf(c)
                           /\ \A t \in BotTxnsOf(c) : txns'[t].row = txns[t].row
    BY <1>3, TxnsGrow
  <2>2. \A q \in BotRequests : req'[q] = req[q] BY <1>3, OthersStay DEF Record, Requests
  <2> QED BY <1>1, <2>1, <2>2, OnceOfOthers
<1>4. CASE LinkEntry(r)
  <2>1. \A c \in Batches : /\ BotTxnsOf(c)' = BotTxnsOf(c)
                           /\ \A t \in BotTxnsOf(c) : txns'[t].row = txns[t].row
    BY <1>4, TxnsStayLinked
  <2>2. PICK l : Goto(r, l) /\ l.pc = "post" BY <1>4 DEF LinkEntry
  <2>3. req'[r] = l /\ \A q \in Requests : q # r => req'[q] = req[q] BY <2>2, OthersStay
  <2> QED BY <1>1, <2>1, <2>2, <2>3 DEF OnceInv, Requests
<1> QED BY <1>2, <1>3, <1>4

(* The timeout cancels, and so does a restart, of what is pending. *)
LEMMA OnceCancels ==
    ASSUME Shape, \A b \in Batches : OnceInv(b),
           Restart \/ \E b \in Batches : TimeoutRead(b) \/ TimeoutCancel(b)
    PROVE  \A c \in Batches : OnceInv(c)'
<1>1. UNCHANGED txns /\ \A r \in BotRequests : req'[r] = req[r] \/ req'[r] = Idle
  BY DEF Restart, TimeoutRead, TimeoutCancel, books, Requests
<1>2. \A c \in Batches : batch[c].status \in Settled => batch'[c].status \in Settled
  <2>1. CASE Restart BY <2>1 DEF Restart, Pending, Settled
  <2>2. CASE \E b \in Batches : TimeoutRead(b) \/ TimeoutCancel(b)
    BY <2>2, StatusSet DEF TimeoutRead, TimeoutCancel, Statuses, Settled
  <2> QED BY <2>1, <2>2
<1> QED BY <1>1, <1>2, TxnsStay, OnceOfOthers

BotInv == OneBot => \A b \in Batches : OnceInv(b)

(* Every step keeps what the only update of the bot knows. *)
LEMMA BotKept == Shape /\ BotInv /\ [Next]_vars => BotInv'
<1> SUFFICES ASSUME Shape, BotInv, [Next]_vars PROVE BotInv' OBVIOUS
<1>1. OneBot' = OneBot BY InstanceStays DEF OneBot, Active
<1>2. CASE ~OneBot BY <1>1, <1>2 DEF BotInv
<1>3. CASE OneBot /\ UNCHANGED vars
  <2>1. \A b \in Batches : OnceInv(b)' BY <1>3, TxnsStay, OnceOfOthers DEF vars, books, BotInv
  <2> QED BY <2>1 DEF BotInv
<1>4. CASE OneBot /\ Next
  <2>1. \A b \in Batches : OnceInv(b)'
    BY <1>4, OnceStarts, OnceWrites, OnceGoesOn, OnceRecords, OnceCancels DEF Next, Continue, BotInv
  <2> QED BY <2>1 DEF BotInv
<1> QED BY <1>2, <1>3, <1>4

(* One update of the bot at a time records a receipt once. *)
LEMMA BotRecordsOnce == BotInv => RecordedOnce
BY DEF BotInv, OnceInv, RecordedOnce, OneBot

(* The amounts, when nothing fails either. *)
LEMMA SmallOfBot ==
    ASSUME Shape, OneBot, NEW r \in BotRequests, r \in instance.requests, NEW l, Goto(r, l),
           \A b \in Batches : l.pc \in Undecided /\ l.batch = b =>
             /\ l.pc = "evaluate" => l.amount = batch'[b].results[1]
             /\ l.pc \in {"complete", "convert"} => batch'[b].results[1] = "small"
             /\ l.pc = "record" => l.results[1] = "small"
    PROVE  \A b \in Batches : SmallInv(b)'
<1>1. r \in Requests BY DEF Requests
<1>2. req'[r] = l /\ \A q \in Requests : q # r => req'[q] = req[q] BY <1>1, OthersStay
<1>3. \A q \in BotRequests : q # r => req'[q] = Idle BY <1>2, OnlyBot DEF Shape, Held, Requests
<1> QED BY <1>2, <1>3 DEF SmallInv, Idle, Undecided

(* SmallInv through steps that at most end requests of the bot. *)
LEMMA SmallOfOthers ==
    ASSUME \A b \in Batches : SmallInv(b),
           \A r \in BotRequests : req'[r] = req[r] \/ req'[r] = Idle,
           \A b \in Batches : batch'[b].results = batch[b].results
    PROVE  \A b \in Batches : SmallInv(b)'
BY DEF SmallInv, Idle, Undecided

(* What a handler writes, and what it goes on with. *)
LEMMA SmallStep ==
    ASSUME Shape, OneBot, instance.faults = 0, \A b \in Batches : SmallInv(b),
           NEW r \in Requests,
           \/ \E b \in Batches : \/ Upload(r, b) \/ CancelRead(r, b) \/ EditRead(r, b)
                                 \/ Confirm(r, b) \/ ApiConvert(r, b)
           \/ \E i \in DOMAIN approvals, d \in {"approved", "rejected"} : Decide(r, i, d)
           \/ \E t \in DOMAIN txns : ApiGenerate(r, t)
           \/ Continue(r) \/ Skip(r)
    PROVE  \A b \in Batches : SmallInv(b)'
<1> USE DEF Undecided, At
<1>1. ~Fault BY NoFaults
<1>2. r \in instance.requests
  BY <1>1, UnderWay DEF Upload, CancelRead, EditRead, Confirm, ApiConvert, Decide, ApiGenerate,
     Starts, Continue, Skip, Recognise, Ask, CancelWrite, EditWrite, Evaluate, RequestApproval,
     FlagBatch, DecideBatch, Complete, Convert, Record, LinkBatch, Generate, Book, LinkEntry,
     PostEntry
<1>3. CASE r \notin BotRequests
  <2>1. \E l : Goto(r, l)
    BY DEF Upload, CancelRead, EditRead, Confirm, ApiConvert, Decide, ApiGenerate, Continue,
       Recognise, Ask, CancelWrite, EditWrite, Evaluate, RequestApproval, FlagBatch, DecideBatch,
       Complete, Convert, Record, LinkBatch, Generate, Book, LinkEntry, PostEntry, Skip, NextTxn,
       Done
  <2>2. \A b \in Batches : batch'[b].results = batch[b].results
    <3>1. req[r].pc \notin BotLabels BY <1>3 DEF Shape, Held
    <3>2. UNCHANGED batch \/ DecideBatch(r) \/ LinkBatch(r)
      BY <1>3, <3>1 DEF Upload, CancelRead, EditRead, Confirm, ApiConvert, Decide, ApiGenerate,
         Continue, Recognise, Ask, CancelWrite, EditWrite, Evaluate, RequestApproval, FlagBatch,
         Complete, Convert, Record, Generate, Book, LinkEntry, PostEntry, Skip, books, BotLabels
    <3> QED BY <3>2, UnderWay, ApprovalSet DEF DecideBatch, LinkBatch
  <2> QED BY <1>3, <2>1, <2>2, OthersStay, SmallOfOthers DEF Requests
<1>4. ASSUME r \in BotRequests,
             NEW l, Goto(r, l), l.pc \notin {"evaluate", "complete", "convert", "record"}
      PROVE \A b \in Batches : SmallInv(b)'
  BY <1>2, <1>4, SmallOfBot
<1>5. CASE r \in BotRequests /\ \E b \in Batches : Upload(r, b) \/ CancelRead(r, b)
  BY <1>5, <1>4 DEF Upload, CancelRead
<1>6. CASE r \in BotRequests /\ \E b \in Batches : EditRead(r, b)
  <2>1. PICK l : Goto(r, l) /\ l.pc = "edit" BY <1>6 DEF EditRead
  <2> QED BY <1>6, <2>1, <1>4
<1>7. CASE r \in BotRequests /\ \E b \in Batches : Confirm(r, b)
  <2>1. PICK b \in Batches, typed \in BOOLEAN :
          Goto(r, [pc |-> "evaluate", batch |-> b, amount |-> batch[b].results[1], duplicate |-> typed])
    BY <1>7 DEF Confirm
  <2>2. UNCHANGED batch BY <1>7 DEF Confirm
  <2> QED BY <1>2, <1>7, <2>1, <2>2, SmallOfBot
<1>8. CASE r \in BotRequests /\ \E b \in Batches : ApiConvert(r, b)
  BY <1>8, ReceiptFlowAssumption DEF ApiConvert
<1>9. CASE r \in BotRequests /\ \E i \in DOMAIN approvals, d \in {"approved", "rejected"} : Decide(r, i, d)
  BY <1>9, <1>4 DEF Decide
<1>10. CASE r \in BotRequests /\ \E t \in DOMAIN txns : ApiGenerate(r, t)
  BY <1>10, <1>4 DEF ApiGenerate
<1>11. CASE r \in BotRequests /\ Continue(r)
  <2>1. CASE Recognise(r) \/ Ask(r) \/ CancelWrite(r) \/ EditWrite(r) \/ DecideBatch(r)
    <3>1. PICK l : Goto(r, l) /\ l.pc \in {"ask", "idle"}
      <4>1. CASE Done(r) BY <4>1 DEF Done, Idle
      <4>2. CASE Recognise(r) /\ ~Done(r)
        <5>1. PICK f : Goto(r, [pc |-> "ask", batch |-> req[r].batch, results |-> f])
          BY <4>2 DEF Recognise
        <5> QED BY <5>1
      <4> QED BY <2>1, <4>1, <4>2 DEF Ask, CancelWrite, EditWrite, DecideBatch
    <3> QED BY <1>11, <3>1, <1>4
  <2>2. CASE Evaluate(r)
    <3>1. PICK newVendor \in BOOLEAN :
            /\ Goto(r, [pc |-> IF NeedsApproval(req[r].amount, req[r].duplicate, newVendor)
                               THEN "request" ELSE "complete", batch |-> req[r].batch])
            /\ UNCHANGED batch /\ req[r].pc = "evaluate"
      BY <1>1, <2>2 DEF Evaluate
    <3>2. req[r].amount \in Amounts /\ req[r].batch \in Batches BY <3>1, UnderWay
    <3>3. CASE NeedsApproval(req[r].amount, req[r].duplicate, newVendor) BY <1>4, <1>11, <3>1, <3>3
    <3>4. CASE ~NeedsApproval(req[r].amount, req[r].duplicate, newVendor)
      <4>1. req[r].amount = "small" BY <3>2, <3>4 DEF NeedsApproval, Amounts
      <4>2. batch'[req[r].batch].results[1] = "small" BY <1>11, <3>1, <3>2, <4>1 DEF SmallInv
      <4>3. Goto(r, [pc |-> "complete", batch |-> req[r].batch]) BY <3>1, <3>4
      <4> QED BY <1>2, <1>11, <4>2, <4>3, SmallOfBot
    <3> QED BY <3>3, <3>4
  <2>3. CASE RequestApproval(r) \/ FlagBatch(r)
    <3>1. PICK l : Goto(r, l) /\ l.pc \in {"flag", "idle"}
      BY <1>1, <2>3 DEF RequestApproval, FlagBatch, Done, Idle
    <3> QED BY <1>11, <3>1, <1>4
  <2>4. CASE Complete(r)
    <3>1. req[r].batch \in Batches /\ req[r].pc = "complete" BY <2>4, UnderWay DEF Complete
    <3>2. batch'[req[r].batch].results[1] = "small"
      BY <1>11, <2>4, <3>1, StatusSet DEF Complete, SmallInv, Statuses
    <3>3. Goto(r, [pc |-> "convert", batch |-> req[r].batch]) BY <2>4 DEF Complete
    <3> QED BY <1>2, <1>11, <3>2, <3>3, SmallOfBot
  <2>5. CASE Convert(r)
    <3>1. req[r].batch \in Batches /\ req[r].pc = "convert" /\ UNCHANGED batch
      BY <2>5, UnderWay DEF Convert
    <3>2. batch[req[r].batch].results[1] = "small" BY <1>11, <3>1 DEF SmallInv
    <3>3. CASE Convertible(req[r].batch)
      <4>1. PICK l : /\ Goto(r, l) /\ l.pc = "record"
                     /\ l.results = batch[req[r].batch].results
        BY <2>5, <3>3 DEF Convert
      <4> QED BY <1>2, <1>11, <3>2, <4>1, SmallOfBot
    <3>4. CASE Done(r) BY <1>4, <1>11, <3>4 DEF Done, Idle
    <3> QED BY <2>5, <3>3, <3>4 DEF Convert
  <2>6. CASE Record(r)
    <3>1. PICK l : /\ Goto(r, l) /\ l.pc = "record" /\ l.batch = req[r].batch
                   /\ l.results = req[r].results
      BY <2>6, MadeGrows
    <3>2. req[r].batch \in Batches /\ req[r].pc = "record" BY <2>6, UnderWay DEF Record
    <3>3. req[r].results[1] = "small" BY <1>11, <3>2 DEF SmallInv
    <3> QED BY <1>2, <1>11, <3>1, <3>3, SmallOfBot
  <2>7. CASE LinkBatch(r) \/ Generate(r) \/ Book(r) \/ LinkEntry(r) \/ PostEntry(r)
    <3>1. PICK l : Goto(r, l) /\ l.pc \in {"generate", "book", "link", "post", "idle"}
      <4>1. CASE LinkBatch(r) BY <4>1 DEF LinkBatch, Done, Idle
      <4>2. CASE Generate(r) \/ PostEntry(r)
        BY <4>2, NextTxnGoes DEF Generate, PostEntry, Idle, Booking
      <4>3. CASE Book(r) \/ LinkEntry(r) BY <4>3 DEF Book, LinkEntry
      <4> QED BY <2>7, <4>1, <4>2, <4>3
    <3> QED BY <1>11, <3>1, <1>4
  <2> QED BY <1>11, <2>1, <2>2, <2>3, <2>4, <2>5, <2>6, <2>7 DEF Continue
<1> QED BY <1>1, <1>3, <1>5, <1>6, <1>7, <1>8, <1>9, <1>10, <1>11 DEF Skip

(* SmallInv through giving up, the timers and the bot's start. *)
LEMMA SmallElse ==
    ASSUME Shape, \A b \in Batches : SmallInv(b),
           \/ \E r \in Requests : GiveUp(r)
           \/ \E b \in Batches : TimeoutRead(b) \/ TimeoutCancel(b)
           \/ Restart
    PROVE  \A b \in Batches : SmallInv(b)'
<1>1. \A r \in BotRequests : req'[r] = req[r] \/ req'[r] = Idle
  <2>1. ASSUME NEW r \in Requests, GiveUp(r) PROVE \A q \in BotRequests : req'[q] = req[q] \/ req'[q] = Idle
    BY <2>1, OthersStay DEF GiveUp, Done, Requests
  <2> QED BY <2>1 DEF Restart, TimeoutRead, TimeoutCancel, Requests
<1>2. \A b \in Batches : batch'[b].results = batch[b].results
  <2>1. CASE Restart
    <3>1. \A b \in Batches : [batch[b] EXCEPT !.status = "cancelled"].results = batch[b].results
      BY DEF Shape, TypeOK, BatchRow
    <3> QED BY <2>1, <3>1 DEF Restart
  <2>2. CASE \E r \in Requests : GiveUp(r) BY <2>2 DEF GiveUp
  <2>3. CASE \E b \in Batches : TimeoutRead(b) \/ TimeoutCancel(b)
    BY <2>3, StatusSet DEF TimeoutRead, TimeoutCancel, Statuses
  <2> QED BY <2>1, <2>2, <2>3
<1> QED BY <1>1, <1>2, SmallOfOthers

(* A transaction of the bot has the amount its handler had. *)
LEMMA TxnsStaySmall ==
    ASSUME Shape, \A b \in Batches : SmallInv(b), BotTxnsSmall, Next
    PROVE  BotTxnsSmall'
<1>1. ASSUME NEW r \in Requests, Record(r) PROVE BotTxnsSmall'
  <2>1. req[r].pc = "record" /\ req[r].batch \in Batches BY <1>1, UnderWay DEF Record, At, Undecided
  <2>2. r \in BotRequests => req[r].results[1] = "small" BY <2>1 DEF SmallInv, Undecided
  <2>3. /\ txns'[Len(txns) + 1].amount = req[r].results[txns'[Len(txns) + 1].row]
        /\ txns'[Len(txns) + 1].by = IF r \in BotRequests THEN "bot" ELSE "api"
    BY <1>1, TxnAppended
  <2>4. /\ DOMAIN txns' = DOMAIN txns \cup {Len(txns) + 1}
        /\ \A t \in DOMAIN txns : txns'[t] = txns[t]
    BY <1>1, TxnAppended
  <2> QED BY <2>2, <2>3, <2>4 DEF BotTxnsSmall
<1>2. ASSUME NEW r \in Requests, LinkEntry(r) PROVE BotTxnsSmall' BY <1>2, TxnsStayLinked
<1>3. CASE UNCHANGED txns BY <1>3, TxnsStay
<1> QED BY <1>1, <1>2, <1>3
        DEF Next, Continue, Upload, CancelRead, EditRead, Confirm, ApiConvert, Decide, ApiGenerate, books,
            Skip, GiveUp, TimeoutRead, TimeoutCancel, Restart, Recognise, Ask, CancelWrite, EditWrite,
            Evaluate, RequestApproval, FlagBatch, DecideBatch, Complete, Convert, LinkBatch, Generate, Book,
            PostEntry

AmountInv ==
    OneBot /\ instance.faults = 0 => BotTxnsSmall /\ \A b \in Batches : SmallInv(b)

(* Every step keeps AmountInv. *)
LEMMA AmountKept == Shape /\ AmountInv /\ [Next]_vars => AmountInv'
<1> SUFFICES ASSUME Shape, AmountInv, [Next]_vars PROVE AmountInv' OBVIOUS
<1>1. OneBot' = OneBot /\ instance' = instance BY InstanceStays DEF OneBot, Active
<1>2. CASE ~(OneBot /\ instance.faults = 0) BY <1>1, <1>2 DEF AmountInv
<1>3. CASE OneBot /\ instance.faults = 0 /\ UNCHANGED vars
  <2>1. BotTxnsSmall' /\ \A b \in Batches : SmallInv(b)'
    BY <1>3, TxnsStay, SmallOfOthers DEF vars, books, AmountInv
  <2> QED BY <2>1 DEF AmountInv
<1>4. CASE OneBot /\ instance.faults = 0 /\ Next
  <2>1. \A b \in Batches : SmallInv(b)' BY <1>4, SmallStep, SmallElse DEF Next, AmountInv
  <2>2. BotTxnsSmall' BY <1>4, TxnsStaySmall DEF AmountInv
  <2> QED BY <2>1, <2>2 DEF AmountInv
<1> QED BY <1>2, <1>3, <1>4

(* However one update at a time is interleaved with timeouts, the api and
   approvals, the first receipt of a batch gets no transaction from the bot
   above the threshold while nothing fails (confirm.go, checkAndRequestApproval
   and extractReceiptInfo). *)
THEOREM FirstIsNotLarge == Spec => []FirstNotLarge
<1>1. Init => AmountInv BY DEF Init, AmountInv, BotTxnsSmall, SmallInv, Idle, Undecided, Requests
<1>2. AmountInv => FirstNotLarge BY DEF AmountInv, FirstNotLarge, OneBot, BotTxnsSmall
<1> QED BY <1>1, <1>2, ShapeInit, ShapeKept, AmountKept, PTL DEF Spec
----
(* A completed batch is on the way to its transactions. *)

DueBy(r, b) == req[r].pc \in {"ask", "convert", "record"} /\ req[r].batch = b
Due == \A b \in Batches : DueInv(b)
CompletedInv == instance.faults = 0 => Due

(* What a batch is linked to stays its transaction of that row. *)
LEMMA RecordedStays ==
    ASSUME Shape, UNCHANGED txns \/ \E r \in Requests : Record(r) \/ LinkEntry(r),
           NEW b \in Batches, batch'[b].linked = batch[b].linked
    PROVE  Recorded(b) => Recorded(b)'
<1>1. /\ DOMAIN txns \subseteq DOMAIN txns'
      /\ \A t \in DOMAIN txns : txns'[t].batch = txns[t].batch /\ txns'[t].row = txns[t].row
  BY TxnAppended, TxnLinked
<1> QED BY <1>1 DEF Recorded, TxnsOf

(* One request's step keeps that when what it writes is not completed, or it
   goes on with it, and it gives up nothing that is. *)
LEMMA DueOfRequest ==
    ASSUME Shape, Due, NEW r \in Requests, NEW l, Goto(r, l),
           \A b \in Batches : Recorded(b) => Recorded(b)',
           \A b \in Batches : batch'[b].status = "completed" =>
             \/ l.pc \in {"ask", "convert", "record"} /\ l.batch = b
             \/ Recorded(b)'
             \/ batch[b].status = "completed" /\ ~DueBy(r, b)
    PROVE  Due'
<1>1. req'[r] = l /\ \A q \in Requests : q # r => req'[q] = req[q] BY OthersStay
<1>2. ASSUME NEW b \in Batches, batch'[b].status = "completed", ~Recorded(b)'
      PROVE \E q \in Requests : DueBy(q, b)'
  <2>1. CASE l.pc \in {"ask", "convert", "record"} /\ l.batch = b BY <1>1, <2>1 DEF DueBy
  <2>2. CASE batch[b].status = "completed" /\ ~DueBy(r, b)
    <3>1. PICK q \in Requests : DueBy(q, b) BY <1>2, <2>2 DEF Due, DueInv, DueBy
    <3>2. DueBy(q, b)' BY <1>1, <2>2, <3>1 DEF DueBy
    <3> QED BY <3>2
  <2> QED BY <1>2, <2>1, <2>2
<1> QED BY <1>2 DEF Due, DueInv, DueBy

(* A request that starts takes nothing from a completed batch. *)
LEMMA DueStarts ==
    ASSUME Shape, Due, NEW r \in Requests,
           \/ \E b \in Batches : \/ Upload(r, b) \/ CancelRead(r, b) \/ EditRead(r, b)
                                 \/ Confirm(r, b) \/ ApiConvert(r, b)
           \/ \E i \in DOMAIN approvals, d \in {"approved", "rejected"} : Decide(r, i, d)
           \/ \E t \in DOMAIN txns : ApiGenerate(r, t)
    PROVE  Due'
<1>1. req[r] = Idle /\ UNCHANGED txns
  BY DEF Upload, CancelRead, EditRead, Confirm, ApiConvert, Decide, ApiGenerate, Starts, books
<1>2. \A b \in Batches : ~DueBy(r, b) BY <1>1 DEF DueBy, Idle
<1>3. \A b \in Batches : /\ batch'[b].status = "completed" => batch[b].status = "completed"
                         /\ batch'[b].linked = batch[b].linked
  BY StatusSet DEF Upload, CancelRead, EditRead, Confirm, ApiConvert, Decide, ApiGenerate, Statuses
<1>4. \E l : Goto(r, l)
  BY DEF Upload, CancelRead, EditRead, Confirm, ApiConvert, Decide, ApiGenerate
<1> QED BY <1>1, <1>2, <1>3, <1>4, RecordedStays, DueOfRequest

(* One that goes on hands its batch to its next step, or has recorded it. *)
LEMMA DueGoesOn ==
    ASSUME Shape, Due, instance.faults = 0, NEW r \in Requests, Continue(r)
    PROVE  Due'
<1> USE DEF At, Undecided
<1>1. ~Fault BY NoFaults
<1>2. ASSUME UNCHANGED txns, \A b \in Batches : batch'[b].linked = batch[b].linked
      PROVE  \A b \in Batches : Recorded(b) => Recorded(b)'
  BY <1>2, RecordedStays
<1>3. CASE Recognise(r)
  <2>1. req[r].batch \in Batches /\ req[r].pc = "ocr" /\ UNCHANGED txns
    BY <1>3, UnderWay DEF Recognise, books
  <2>2. \A b \in Batches : ~DueBy(r, b) BY <2>1 DEF DueBy
  <2>3. \A b \in Batches : /\ b # req[r].batch => batch'[b].status = batch[b].status
                           /\ batch'[b].linked = batch[b].linked
    BY <1>3, PictureWrites
  <2>4. ASSUME NEW f, Goto(r, [pc |-> "ask", batch |-> req[r].batch, results |-> f]) PROVE Due'
    BY <1>2, <2>1, <2>2, <2>3, <2>4, DueOfRequest
  <2>5. CASE SetStatus(req[r].batch, "failed") /\ Done(r)
    <3>1. batch'[req[r].batch].status = "failed" BY <2>1, <2>5, StatusSet DEF Statuses
    <3> QED BY <1>2, <2>1, <2>2, <2>3, <2>5, <3>1, DueOfRequest DEF Done
  <2> QED BY <1>3, <2>4, <2>5 DEF Recognise
<1>4. CASE Ask(r) \/ CancelWrite(r) \/ EditWrite(r)
  <2>1. UNCHANGED txns /\ Goto(r, Idle) /\ ~Recognise(r)
    BY <1>4 DEF Ask, CancelWrite, EditWrite, Recognise, books, Done
  <2>2. \A b \in Batches :
          /\ batch'[b].status = "completed" => b # req[r].batch /\ batch[b].status = "completed"
          /\ batch'[b].linked = batch[b].linked
    BY <1>1, <1>4, <2>1, PictureWrites
  <2> QED BY <1>2, <2>1, <2>2, DueOfRequest DEF DueBy
<1>5. CASE Evaluate(r) \/ RequestApproval(r) \/ FlagBatch(r) \/ DecideBatch(r)
           \/ Generate(r) \/ Book(r) \/ PostEntry(r)
  <2>1. UNCHANGED txns /\ req[r].pc \notin {"ask", "convert", "record"}
    BY <1>5 DEF Evaluate, RequestApproval, FlagBatch, DecideBatch, Generate, Book, PostEntry, books
  <2>2. \A b \in Batches : batch'[b].status = batch[b].status /\ batch'[b].linked = batch[b].linked
    <3>1. CASE UNCHANGED batch BY <3>1
    <3>2. ASSUME NEW b \in Batches, NEW d \in Decisions, SetApproval(b, d)
          PROVE  \A c \in Batches : batch'[c].status = batch[c].status /\ batch'[c].linked = batch[c].linked
      BY <3>2 DEF SetApproval, Shape, TypeOK, BatchRow
    <3> QED BY <1>5, <3>1, <3>2, UnderWay
            DEF Evaluate, RequestApproval, FlagBatch, DecideBatch, Generate, Book, PostEntry, Decisions
  <2>3. \E l : Goto(r, l)
    BY <1>5 DEF Evaluate, RequestApproval, FlagBatch, DecideBatch, Generate, Book, PostEntry,
       NextTxn, Done
  <2> QED BY <1>2, <2>1, <2>2, <2>3, DueOfRequest DEF DueBy
<1>6. CASE Complete(r)
  <2>1. /\ req[r].batch \in Batches /\ UNCHANGED txns /\ req[r].pc = "complete"
        /\ Goto(r, [pc |-> "convert", batch |-> req[r].batch])
    BY <1>6, UnderWay DEF Complete, books
  <2>2. \A b \in Batches : /\ b # req[r].batch => batch'[b].status = batch[b].status
                           /\ batch'[b].linked = batch[b].linked
    BY <1>6, <2>1, StatusSet DEF Complete, Statuses
  <2> QED BY <1>2, <2>1, <2>2, DueOfRequest DEF DueBy
<1>7. CASE Convert(r)
  <2>1. req[r].batch \in Batches /\ UNCHANGED <<txns, batch>> BY <1>7, UnderWay DEF Convert, books
  <2>2. CASE Convertible(req[r].batch)
    <3>1. PICK l : Goto(r, l) /\ l.pc = "record" /\ l.batch = req[r].batch BY <1>7, <2>2 DEF Convert
    <3> QED BY <1>2, <2>1, <3>1, DueOfRequest DEF DueBy
  <2>3. CASE ~Convertible(req[r].batch)
    <3>1. Goto(r, Idle) BY <1>7, <2>3 DEF Convert, Done
    <3> QED BY <1>2, <2>1, <2>3, <3>1, DueOfRequest DEF DueBy, Convertible
  <2> QED BY <2>2, <2>3
<1>8. CASE Record(r)
  <2>1. UNCHANGED batch BY <1>8 DEF Record
  <2>2. PICK l : Goto(r, l) /\ l.pc = "record" /\ l.batch = req[r].batch BY <1>8, MadeGrows
  <2>3. \A b \in Batches : Recorded(b) => Recorded(b)' BY <1>8, <2>1, RecordedStays
  <2> QED BY <2>1, <2>2, <2>3, DueOfRequest DEF DueBy
<1>9. CASE LinkBatch(r)
  <2>1. /\ req[r].batch \in Batches /\ req[r].made \in Seq(Nat) /\ UNCHANGED txns
        /\ Len(req[r].made) = Receipts[req[r].batch] /\ Fits(req[r], batch, txns, entries)
        /\ req[r].pc = "record"
    BY <1>9, UnderWay DEF LinkBatch, Held, books
  <2>2. \A b \in Batches : batch'[b].status = batch[b].status
    BY <1>9, <2>1, ApprovalSet DEF LinkBatch
  <2>3. /\ batch'[req[r].batch].linked = req[r].made
        /\ \A b \in Batches : b # req[r].batch => batch'[b].linked = batch[b].linked
    BY <1>9, <2>1 DEF LinkBatch, Shape, TypeOK, BatchRow
  <2>4. ASSUME NEW b \in Batches, b = req[r].batch PROVE Recorded(b)'
    <3>1. \A k \in 1..Receipts[req[r].batch] :
            /\ req[r].made[k] \in DOMAIN txns
            /\ txns[req[r].made[k]].batch = req[r].batch /\ txns[req[r].made[k]].row = k
      BY <2>1, SeqElements DEF Fits
    <3> QED BY <2>1, <2>3, <2>4, <3>1 DEF Recorded, TxnsOf
  <2>5. \A b \in Batches : Recorded(b) => Recorded(b)' BY <2>1, <2>3, <2>4, RecordedStays
  <2>6. \E l : Goto(r, l) BY <1>9 DEF LinkBatch, Done
  <2> QED BY <2>2, <2>4, <2>5, <2>6, DueOfRequest DEF DueBy
<1>10. CASE LinkEntry(r)
  <2>1. UNCHANGED batch /\ req[r].pc = "link" /\ \E l : Goto(r, l) BY <1>10 DEF LinkEntry
  <2>2. \A b \in Batches : Recorded(b) => Recorded(b)' BY <1>10, <2>1, RecordedStays
  <2> QED BY <2>1, <2>2, DueOfRequest DEF DueBy
<1> QED BY <1>3, <1>4, <1>5, <1>6, <1>7, <1>8, <1>9, <1>10 DEF Continue

(* Every step keeps CompletedInv. *)
LEMMA CompletedKept == Shape /\ CompletedInv /\ [Next]_vars => CompletedInv'
<1> SUFFICES ASSUME Shape, CompletedInv, [Next]_vars PROVE CompletedInv' OBVIOUS
<1>1. instance' = instance BY InstanceStays
<1>2. CASE instance.faults # 0 BY <1>1, <1>2 DEF CompletedInv
<1>3. CASE instance.faults = 0
  <2>1. ASSUME NEW b \in Batches, TimeoutRead(b) \/ TimeoutCancel(b) PROVE Due'
    <3>1. UNCHANGED <<req, txns>> BY <2>1 DEF TimeoutRead, TimeoutCancel, books
    <3>2. \A c \in Batches : /\ batch'[c].status = "completed" => batch[c].status = "completed"
                             /\ batch'[c].linked = batch[c].linked
      BY <2>1, StatusSet DEF TimeoutRead, TimeoutCancel, Statuses
    <3> QED BY <1>3, <3>1, <3>2, RecordedStays DEF CompletedInv, Due, DueInv
  <2>2. CASE UNCHANGED vars BY <1>3, <2>2, RecordedStays DEF vars, books, CompletedInv, Due, DueInv
  <2>3. CASE Next
    BY <1>3, <2>1, <2>3, NoFaults, DueStarts, DueGoesOn DEF CompletedInv, Next, Skip, GiveUp,
       Restart
  <2> QED BY <2>2, <2>3 DEF CompletedInv
<1> QED BY <1>2, <1>3
----
(* Entries are counted against the requests and the faults. *)

LEMMA ApartOfRequest ==
    ASSUME Shape, BotApart, NEW r \in Requests, NEW l, Goto(r, l),
           r \in BotRequests => \A t \in Work(l) : t \in Work(req[r]) \/ t \notin DOMAIN txns
    PROVE  BotApart'
<1>1. req'[r] = l /\ \A q \in Requests : q # r => req'[q] = req[q] BY OthersStay
<1>2. ASSUME NEW q \in BotRequests, NEW t \in Work(req[q]) PROVE t \in DOMAIN txns
  <2>1. Fits(req[q], batch, txns, entries) BY DEF Shape, Held, Requests
  <2> QED BY <1>2, <2>1 DEF Fits, Work, Elements
<1>3. ASSUME NEW q \in BotRequests PROVE q \in Requests /\ Work(req[q])' = Work(req'[q])
  BY DEF Work, Requests
<1> QED BY <1>1, <1>2, <1>3 DEF BotApart

(* Two updates of the bot never link entries of one transaction. *)
LEMMA ApartKept == Shape /\ BotApart /\ [Next]_vars => BotApart'
<1> SUFFICES ASSUME Shape, BotApart, [Next]_vars PROVE BotApart' OBVIOUS
<1> USE DEF At
<1>1. ASSUME NEW r \in Requests, Record(r) PROVE BotApart'
  <2>1. PICK l \in Locals :
          /\ Goto(r, l) /\ l.pc = "record" /\ l.made = Append(req[r].made, Len(txns) + 1)
    BY <1>1, MadeGrows
  <2>2. /\ Len(txns) + 1 \notin DOMAIN txns /\ Len(txns) + 1 \in Nat
        /\ req[r].made \in Seq(Nat) /\ req[r].pc = "record"
    BY <1>1, TxnAppended, UnderWay DEF Record
  <2>3. Elements(l.made) = Elements(req[r].made) \cup {Len(txns) + 1} BY <2>1, <2>2, WorkOfSeq
  <2> QED BY <2>1, <2>2, <2>3, ApartOfRequest DEF Work
<1>2. ASSUME NEW r \in Requests, LinkBatch(r) \/ Generate(r) \/ Book(r) \/ LinkEntry(r) \/ PostEntry(r) \/ Skip(r)
      PROVE BotApart'
  <2>1. CASE Done(r) BY <2>1, ApartOfRequest DEF Done, Idle, Booking, Work
  <2>2. CASE LinkBatch(r) /\ ~Done(r) BY <2>2, ApartOfRequest DEF LinkBatch, Booking, Work
  <2>3. CASE NextTxn(r) /\ req[r].pc \in Booking
    <3>1. PICK l \in Locals :
            /\ Goto(r, l)
            /\ \/ l = Idle
               \/ l.pc = "generate" /\ Elements(l.todo) \subseteq Elements(req[r].todo)
      BY <2>3, NextTxnGoes
    <3>2. Work(l) \subseteq Work(req[r]) BY <2>3, <3>1 DEF Work, Idle, Booking
    <3> QED BY <3>1, <3>2, ApartOfRequest
  <2>4. CASE Generate(r) /\ ~NextTxn(r) BY <2>4, ApartOfRequest DEF Generate, Booking, Work
  <2>5. CASE Book(r) \/ LinkEntry(r) BY <2>5, ApartOfRequest DEF Book, LinkEntry, Booking, Work
  <2> QED BY <1>2, <2>1, <2>2, <2>3, <2>4, <2>5 DEF Generate, PostEntry, Skip, Booking
<1>3. ASSUME NEW r \in Requests, NEW t \in DOMAIN txns, ApiGenerate(r, t) PROVE BotApart'
  <2>1. r \notin BotRequests BY <1>3, ReceiptFlowAssumption DEF ApiGenerate
  <2> QED BY <1>3, <2>1, ApartOfRequest DEF ApiGenerate
<1>4. ASSUME NEW r \in Requests, NEW l, Goto(r, l), l.pc \notin Booking \cup {"record"} PROVE BotApart'
  BY <1>4, ApartOfRequest DEF Work
<1>5. ASSUME NEW r \in Requests, NEW b \in Batches,
             Upload(r, b) \/ CancelRead(r, b) \/ EditRead(r, b) \/ Confirm(r, b) \/ ApiConvert(r, b)
      PROVE BotApart'
  <2>1. CASE Upload(r, b) \/ CancelRead(r, b) \/ ApiConvert(r, b)
    BY <2>1, <1>4 DEF Upload, CancelRead, ApiConvert, Booking
  <2>2. CASE EditRead(r, b) BY <2>2, <1>4 DEF EditRead, Booking
  <2>3. CASE Confirm(r, b) BY <2>3, <1>4 DEF Confirm, Booking
  <2> QED BY <1>5, <2>1, <2>2, <2>3
<1>6. ASSUME NEW r \in Requests,
             \/ Recognise(r) \/ Ask(r) \/ CancelWrite(r) \/ EditWrite(r) \/ Evaluate(r)
             \/ RequestApproval(r) \/ FlagBatch(r) \/ DecideBatch(r) \/ Complete(r) \/ Convert(r)
             \/ GiveUp(r)
             \/ \E i \in DOMAIN approvals, d \in {"approved", "rejected"} : Decide(r, i, d)
      PROVE BotApart'
  <2>1. CASE Done(r) BY <2>1, <1>4 DEF Done, Idle, Booking
  <2>2. CASE Recognise(r) /\ ~Done(r) BY <2>2, <1>4 DEF Recognise, Booking
  <2>3. CASE Evaluate(r) BY <2>3, <1>4 DEF Evaluate, Booking
  <2>4. CASE (RequestApproval(r) \/ FlagBatch(r) \/ Complete(r)) /\ ~Done(r)
    BY <2>4, <1>4 DEF RequestApproval, FlagBatch, Complete, Booking
  <2>5. CASE Convert(r) /\ ~Done(r)
    <3>1. PICK l : Goto(r, l) /\ l.pc = "record" /\ l.made = <<>> BY <2>5 DEF Convert
    <3>2. Work(l) = {} BY <3>1 DEF Work, Elements
    <3> QED BY <3>1, <3>2, ApartOfRequest
  <2>6. CASE \E i \in DOMAIN approvals, d \in {"approved", "rejected"} : Decide(r, i, d)
    BY <2>6, <1>4 DEF Decide, Booking
  <2> QED BY <1>6, <2>1, <2>2, <2>3, <2>4, <2>5, <2>6
          DEF Ask, CancelWrite, EditWrite, DecideBatch, GiveUp
<1>7. ASSUME NEW b \in Batches, TimeoutRead(b) \/ TimeoutCancel(b) PROVE BotApart'
  BY <1>7 DEF TimeoutRead, TimeoutCancel, BotApart, Work
<1>8. CASE Restart BY <1>8 DEF Restart, BotApart, Idle, Booking, Requests, Work
<1>9. CASE UNCHANGED vars BY <1>9 DEF vars, BotApart, Work
<1> QED BY <1>1, <1>2, <1>3, <1>5, <1>6, <1>7, <1>8, <1>9 DEF Next, Continue

(* Counting. *)
LEMMA EntryCounts ==
    ASSUME Shape
    PROVE  /\ \A t \in DOMAIN txns :
                /\ IsFiniteSet(EntriesOf(t)) /\ Cardinality(EntriesOf(t)) \in Nat
                /\ IsFiniteSet(Bookers(t)) /\ Cardinality(Bookers(t)) \in Nat
                /\ IsFiniteSet(Linkers(t)) /\ Cardinality(Linkers(t)) \in Nat
           /\ IsFiniteSet(instance.requests) /\ Cardinality(instance.requests) \in Nat
           /\ faults \in Nat
<1>1. ASSUME NEW t \in DOMAIN txns
      PROVE /\ IsFiniteSet(EntriesOf(t)) /\ Cardinality(EntriesOf(t)) \in Nat
            /\ IsFiniteSet(Bookers(t)) /\ Cardinality(Bookers(t)) \in Nat
            /\ IsFiniteSet(Linkers(t)) /\ Cardinality(Linkers(t)) \in Nat
  <2>1. Len(entries) \in Nat /\ DOMAIN entries = 1..Len(entries) BY SeqElements DEF Shape, TypeOK
  <2>2. IsFiniteSet(DOMAIN entries) BY <2>1, FS_Interval
  <2>3. EntriesOf(t) \in SUBSET DOMAIN entries /\ Bookers(t) \in SUBSET Requests
        /\ Linkers(t) \in SUBSET Requests
    BY DEF EntriesOf, Bookers, Linkers
  <2> QED BY <2>2, <2>3, FS_Subset, FS_CardinalityType, ReceiptFlowAssumption
<1>2. instance.requests \in SUBSET Requests /\ faults \in Nat
  BY ReceiptFlowAssumption DEF Shape, TypeOK
<1> QED BY <1>1, <1>2, FS_Subset, FS_CardinalityType, ReceiptFlowAssumption

(* Counting part of a finite set. *)
LEMMA CountSubset ==
    ASSUME NEW S, IsFiniteSet(S), NEW T \in SUBSET S
    PROVE  IsFiniteSet(T) /\ Cardinality(T) \in Nat /\ Cardinality(T) <= Cardinality(S)
BY FS_Subset, FS_CardinalityType

(* One more element counts one more. *)
LEMMA CountInsert ==
    ASSUME NEW S, IsFiniteSet(S), NEW x, x \notin S
    PROVE  IsFiniteSet(S \cup {x}) /\ Cardinality(S \cup {x}) = Cardinality(S) + 1
BY FS_AddElement, FS_CardinalityType

(* One element less counts one less. *)
LEMMA CountRemove ==
    ASSUME NEW S, IsFiniteSet(S), NEW x \in S
    PROVE  /\ IsFiniteSet(S \ {x}) /\ Cardinality(S \ {x}) \in Nat
           /\ Cardinality(S) = Cardinality(S \ {x}) + 1
<1>1. IsFiniteSet(S \ {x}) /\ Cardinality(S \ {x}) = Cardinality(S) - 1 BY FS_RemoveElement
<1>2. Cardinality(S) \in Nat /\ Cardinality(S \ {x}) \in Nat BY <1>1, FS_CardinalityType
<1> QED BY <1>1, <1>2

(* Sets that share nothing are counted apart. *)
LEMMA CountDisjoint ==
    ASSUME NEW S, NEW T, IsFiniteSet(S), IsFiniteSet(T), S \cap T = {}
    PROVE  Cardinality(S \cup T) = Cardinality(S) + Cardinality(T)
<1>1. Cardinality(S \cap T) = 0 BY FS_EmptySet
<1>2. Cardinality(S) \in Nat /\ Cardinality(T) \in Nat BY FS_CardinalityType
<1>3. Cardinality(S \cup T) = Cardinality(S) + Cardinality(T) - Cardinality(S \cap T) BY FS_Union
<1> QED BY <1>1, <1>2, <1>3

(* Who books and links after a step of r. *)
LEMMA HoldersMove ==
    ASSUME Shape, NEW r \in Requests, NEW l, Goto(r, l), NEW t
    PROVE  /\ Bookers(t)' = (Bookers(t) \ {r})
                              \cup (IF l.pc = "book" /\ Head(l.todo) = t THEN {r} ELSE {})
           /\ Linkers(t)' = (Linkers(t) \ {r})
                              \cup (IF l.pc = "link" /\ Head(l.todo) = t THEN {r} ELSE {})
<1>1. req'[r] = l /\ \A q \in Requests : q # r => req'[q] = req[q] BY OthersStay
<1> QED BY <1>1 DEF Bookers, Linkers, Current

Entries == \A t \in DOMAIN txns : EntryInv(t)

(* A step that books nothing, and takes no unlinked entry's request away. *)
LEMMA EntryStays ==
    ASSUME Shape, Shape', NEW t \in DOMAIN txns, EntryInv(t), UNCHANGED instance,
           EntriesOf(t)' = EntriesOf(t), Bookers(t)' \subseteq Bookers(t), faults <= faults',
           Unlinked(t)' => Unlinked(t) /\ Linkers(t)' = Linkers(t)
    PROVE  EntryInv(t)'
<1>1. Cardinality(Bookers(t)') <= Cardinality(Bookers(t)) /\ Cardinality(Bookers(t)') \in Nat
  BY EntryCounts, CountSubset
<1>2. faults' \in Nat /\ faults \in Nat BY EntryCounts DEF Shape, TypeOK
<1> QED BY <1>1, <1>2, EntryCounts DEF EntryInv

(* Faults are never taken back. *)
LEMMA FaultsGrow ==
    ASSUME Shape, [Next]_vars
    PROVE  faults \in Nat /\ faults' \in Nat /\ faults <= faults'
<1>1. Shape' BY ShapeKept
<1>2. faults \in Nat /\ faults' \in Nat BY <1>1 DEF Shape, TypeOK
<1>3. UNCHANGED faults \/ faults' = faults + 1
  BY DEF Next, vars, Continue, Upload, CancelRead, EditRead, Confirm, ApiConvert, Decide,
     ApiGenerate, Skip, GiveUp, TimeoutRead, TimeoutCancel, Restart, Recognise, Ask, CancelWrite,
     EditWrite, Evaluate, RequestApproval, FlagBatch, DecideBatch, Complete, Convert, Record,
     LinkBatch, Generate, Book, LinkEntry, PostEntry, Fault, NoFault
<1> QED BY <1>2, <1>3

(* Neither before the transaction nor after its link does a request count. *)
LEMMA EntryOfRequest ==
    ASSUME Shape, Shape', Entries, [Next]_vars, NEW r \in Requests, NEW l, Goto(r, l),
           UNCHANGED <<txns, entries>>,
           req[r].pc # "link", l.pc \notin {"book", "link"}
    PROVE  Entries'
<1>1. ASSUME NEW t \in DOMAIN txns PROVE EntryInv(t)'
  <2>1. Bookers(t)' \subseteq Bookers(t) /\ Linkers(t)' = Linkers(t) BY HoldersMove DEF Linkers
  <2>2. EntriesOf(t)' = EntriesOf(t) /\ Unlinked(t)' = Unlinked(t) BY DEF EntriesOf, Unlinked
  <2> QED BY <2>1, <2>2, FaultsGrow, InstanceStays, EntryStays DEF Entries
<1> QED BY <1>1 DEF Entries

(* A generator that starts is counted among the requests. *)
LEMMA EntryGenerate ==
    ASSUME Shape, Shape', Entries, [Next]_vars, NEW r \in Requests, Generate(r)
    PROVE  Entries'
<1> USE DEF At
<1>1. UNCHANGED <<txns, entries, instance, faults>> /\ req[r].pc = "generate" BY DEF Generate, books
<1>2. CASE NextTxn(r)
  <2>1. PICK l : Goto(r, l) /\ l.pc \in {"idle", "generate"}
    BY <1>1, <1>2, NextTxnGoes DEF Idle, Booking
  <2> QED BY <1>1, <2>1, EntryOfRequest
<1>3. CASE Goto(r, [pc |-> "book", todo |-> req[r].todo]) /\ Unlinked(Current(r))
  <2>1. ASSUME NEW t \in DOMAIN txns, t # Current(r) PROVE EntryInv(t)'
    <3>1. Bookers(t)' \subseteq Bookers(t) /\ Linkers(t)' = Linkers(t)
      <4>1. PICK l : Goto(r, l) /\ l.pc = "book" /\ Head(l.todo) = Current(r) BY <1>3 DEF Current
      <4> QED BY <1>1, <2>1, <4>1, HoldersMove DEF Linkers
    <3>2. EntriesOf(t)' = EntriesOf(t) /\ Unlinked(t)' = Unlinked(t) BY <1>1 DEF EntriesOf, Unlinked
    <3> QED BY <1>1, <3>1, <3>2, FaultsGrow, EntryStays DEF Entries
  <2>2. ASSUME NEW t \in DOMAIN txns, t = Current(r) PROVE EntryInv(t)'
    <3>1. Linkers(t)' = Linkers(t) /\ EntriesOf(t)' = EntriesOf(t)
      BY <1>1, <1>3, HoldersMove DEF Linkers, EntriesOf
    <3>2. Cardinality(EntriesOf(t)) <= Cardinality(Linkers(t)) + faults
      BY <1>3, <2>2 DEF Entries, EntryInv
    <3>3. Bookers(t)' \cap Linkers(t) = {} BY <3>1 DEF Bookers, Linkers
    <3>4. Bookers(t)' \cup Linkers(t)' \in SUBSET instance.requests
      BY <1>1 DEF Shape, Held, Bookers, Linkers, Idle
    <3>5. /\ IsFiniteSet(Bookers(t)') /\ Cardinality(Bookers(t)') \in Nat
          /\ IsFiniteSet(Linkers(t)) /\ Cardinality(Linkers(t)) \in Nat
          /\ Cardinality(EntriesOf(t)) \in Nat
          /\ Cardinality(instance.requests) \in Nat /\ IsFiniteSet(instance.requests) /\ faults \in Nat
      <4>1. Bookers(t)' \in SUBSET instance.requests BY <3>4
      <4> QED BY <4>1, EntryCounts, CountSubset
    <3>6. Cardinality(Bookers(t)' \cup Linkers(t)) = Cardinality(Bookers(t)') + Cardinality(Linkers(t))
      BY <3>3, <3>5, CountDisjoint
    <3>7. Cardinality(Bookers(t)' \cup Linkers(t)) <= Cardinality(instance.requests)
      BY <3>1, <3>4, <3>5, CountSubset
    <3>8. Cardinality(EntriesOf(t)) + Cardinality(Bookers(t)') <= Cardinality(instance.requests) + faults
      BY <3>2, <3>5, <3>6, <3>7
    <3> QED BY <1>1, <3>1, <3>2, <3>8 DEF EntryInv
  <2> QED BY <1>1, <2>1, <2>2 DEF Entries
<1> QED BY <1>2, <1>3 DEF Generate

(* A booking takes its request from those that book to those that link. *)
LEMMA EntryBook ==
    ASSUME Shape, Shape', Entries, [Next]_vars, NEW r \in Requests, Book(r)
    PROVE  Entries'
<1> USE DEF At
<1>1. /\ UNCHANGED <<txns, instance, faults>> /\ req[r].pc = "book" /\ Current(r) \in DOMAIN txns
      /\ Goto(r, [pc |-> "link", todo |-> req[r].todo, entry |-> Len(entries) + 1])
  BY AtTxn DEF Book, Booking
<1>2. /\ DOMAIN entries' = DOMAIN entries \cup {Len(entries) + 1}
      /\ Len(entries) + 1 \notin DOMAIN entries
      /\ \A e \in DOMAIN entries : entries'[e] = entries[e]
      /\ entries'[Len(entries) + 1].txn = Current(r)
  BY DEF Book, Shape, TypeOK
<1>3. ASSUME NEW t \in DOMAIN txns, t # Current(r) PROVE EntryInv(t)'
  <2>1. Bookers(t)' \subseteq Bookers(t) /\ Linkers(t)' = Linkers(t)
    BY <1>1, <1>3, HoldersMove DEF Linkers, Current
  <2>2. EntriesOf(t)' = EntriesOf(t) /\ Unlinked(t)' = Unlinked(t)
    BY <1>1, <1>2, <1>3 DEF EntriesOf, Unlinked
  <2> QED BY <1>1, <2>1, <2>2, FaultsGrow, EntryStays DEF Entries
<1>4. ASSUME NEW t \in DOMAIN txns, t = Current(r) PROVE EntryInv(t)'
  <2>1. /\ Bookers(t)' = Bookers(t) \ {r} /\ r \in Bookers(t)
        /\ Linkers(t)' = Linkers(t) \cup {r} /\ r \notin Linkers(t)
    BY <1>1, <1>4, HoldersMove DEF Linkers, Bookers, Current
  <2>2. /\ EntriesOf(t)' = EntriesOf(t) \cup {Len(entries) + 1}
        /\ Len(entries) + 1 \notin EntriesOf(t)
    BY <1>2, <1>4 DEF EntriesOf
  <2>3. /\ Cardinality(EntriesOf(t)') = Cardinality(EntriesOf(t)) + 1
        /\ Cardinality(Linkers(t)') = Cardinality(Linkers(t)) + 1
        /\ Cardinality(Bookers(t)) = Cardinality(Bookers(t)') + 1
        /\ Cardinality(Bookers(t)') \in Nat
    BY <2>1, <2>2, EntryCounts, CountInsert, CountRemove
  <2>4. Unlinked(t)' = Unlinked(t) BY <1>1 DEF Unlinked
  <2>5. /\ Unlinked(t) => Cardinality(EntriesOf(t)) <= Cardinality(Linkers(t)) + faults
        /\ Cardinality(EntriesOf(t)) + Cardinality(Bookers(t))
             <= Cardinality(instance.requests) + faults
    BY DEF EntryInv, Entries
  <2>6. /\ Cardinality(EntriesOf(t)) \in Nat /\ Cardinality(Linkers(t)) \in Nat
        /\ Cardinality(instance.requests) \in Nat /\ faults \in Nat
    BY EntryCounts
  <2>7. /\ Unlinked(t)' => Cardinality(EntriesOf(t)') <= Cardinality(Linkers(t)') + faults
        /\ Cardinality(EntriesOf(t)') + Cardinality(Bookers(t)')
             <= Cardinality(instance.requests) + faults
    BY <2>3, <2>4, <2>5, <2>6
  <2> QED BY <1>1, <2>7 DEF EntryInv
<1> QED BY <1>1, <1>3, <1>4 DEF Entries
(* The link ends the count of the unlinked, the posting changes no count. *)
LEMMA EntryLink ==
    ASSUME Shape, Shape', Entries, [Next]_vars, NEW r \in Requests, LinkEntry(r) \/ PostEntry(r)
    PROVE  Entries'
<1> USE DEF At
<1>1. CASE LinkEntry(r)
  <2>1. PICK l : Goto(r, l) /\ l.pc = "post" BY <1>1 DEF LinkEntry
  <2>2. /\ UNCHANGED <<entries, instance, faults>> /\ req[r].pc = "link"
        /\ req[r].entry \in DOMAIN entries
    BY <1>1, AtTxn DEF LinkEntry, Booking
  <2>3. ASSUME NEW t \in DOMAIN txns PROVE EntryInv(t)'
    <3>1. Bookers(t)' \subseteq Bookers(t) /\ EntriesOf(t)' = EntriesOf(t)
      BY <2>1, <2>2, HoldersMove DEF EntriesOf
    <3>2. CASE t = Current(r)
      <4>1. txns'[t].entry # 0 BY <1>1, <2>2, <3>2, TxnLinked, SeqElements DEF Shape, TypeOK
      <4> QED BY <2>2, <3>1, <4>1, FaultsGrow, EntryStays DEF Entries, Unlinked
    <3>3. CASE t # Current(r)
      <4>1. txns'[t] = txns[t] BY <1>1, <3>3, TxnLinked
      <4>2. Linkers(t)' = Linkers(t) BY <2>1, <2>2, <3>3, HoldersMove DEF Linkers
      <4> QED BY <2>2, <3>1, <4>1, <4>2, FaultsGrow, EntryStays DEF Entries, Unlinked
    <3> QED BY <3>2, <3>3
  <2>4. DOMAIN txns' = DOMAIN txns BY <1>1, TxnLinked
  <2> QED BY <2>3, <2>4 DEF Entries
<1>2. CASE PostEntry(r)
  <2>1. /\ UNCHANGED <<txns, instance, faults>> /\ req[r].pc = "post"
        /\ \E l : Goto(r, l) /\ l.pc \in {"idle", "generate"}
    BY <1>2, NextTxnGoes DEF PostEntry, Idle, Booking
  <2>2. req[r].entry \in DOMAIN entries /\ entries \in Seq(JournalEntry)
    BY <1>2, AtTxn DEF PostEntry, Booking, Shape, TypeOK
  <2>3. entries' = [entries EXCEPT ![req[r].entry] = [entries[req[r].entry] EXCEPT !.status = "posted"]]
    BY <1>2 DEF PostEntry
  <2>4. DOMAIN entries' = DOMAIN entries BY <2>3
  <2>5. \A e \in DOMAIN entries : entries'[e].txn = entries[e].txn
    BY <2>2, <2>3, SeqElements DEF JournalEntry
  <2>6. ASSUME NEW t \in DOMAIN txns PROVE EntryInv(t)'
    <3>1. EntriesOf(t)' = EntriesOf(t) /\ Unlinked(t)' = Unlinked(t)
      BY <2>1, <2>4, <2>5 DEF EntriesOf, Unlinked
    <3>2. Bookers(t)' \subseteq Bookers(t) /\ Linkers(t)' = Linkers(t)
      BY <2>1, HoldersMove DEF Linkers
    <3> QED BY <2>1, <3>1, <3>2, FaultsGrow, EntryStays DEF Entries
  <2> QED BY <2>1, <2>6 DEF Entries
<1> QED BY <1>1, <1>2

(* A new transaction has no entries, and nobody on the way to one. *)
LEMMA EntryRecord ==
    ASSUME Shape, Shape', Entries, [Next]_vars, NEW r \in Requests, Record(r)
    PROVE  Entries'
<1> USE DEF At
<1>1. UNCHANGED <<entries, instance, faults>> /\ req[r].pc = "record" BY DEF Record
<1>2. PICK l : Goto(r, l) /\ l.pc \notin {"book", "link"} BY MadeGrows
<1>3. ASSUME NEW t \in DOMAIN txns PROVE EntryInv(t)'
  <2>1. Bookers(t)' \subseteq Bookers(t) /\ Linkers(t)' = Linkers(t)
    BY <1>1, <1>2, HoldersMove DEF Linkers
  <2>2. EntriesOf(t)' = EntriesOf(t) /\ Unlinked(t)' = Unlinked(t)
    BY <1>1, TxnAppended DEF EntriesOf, Unlinked
  <2> QED BY <1>1, <2>1, <2>2, FaultsGrow, EntryStays DEF Entries
<1>4. ASSUME NEW t, t = Len(txns) + 1 PROVE EntryInv(t)'
  <2>1. t \notin DOMAIN txns BY <1>4, TxnAppended
  <2>2. EntriesOf(t)' = {} BY <1>1, <2>1 DEF EntriesOf, Shape, TypeOK
  <2>3. Bookers(t) = {} /\ Linkers(t) = {}
    <3>1. \A q \in Requests : req[q].pc \in {"book", "link"} => Current(q) \in DOMAIN txns
      BY AtTxn DEF Booking
    <3> QED BY <2>1, <3>1 DEF Bookers, Linkers
  <2>4. Bookers(t)' = {} /\ Linkers(t)' = {} BY <1>2, <2>3, HoldersMove
  <2>5. Cardinality({}) = 0 /\ Cardinality(instance.requests) \in Nat /\ faults \in Nat
    BY EntryCounts, FS_EmptySet
  <2> QED BY <1>1, <2>2, <2>4, <2>5 DEF EntryInv
<1>5. DOMAIN txns' = DOMAIN txns \cup {Len(txns) + 1} BY TxnAppended
<1> QED BY <1>3, <1>4, <1>5 DEF Entries

(* A fault pays for the unlinked entry whose request is gone. *)
LEMMA EntryLost ==
    ASSUME Shape, Shape', NEW t \in DOMAIN txns, EntryInv(t), UNCHANGED <<entries, txns, instance>>,
           faults' = faults + 1, Bookers(t)' \subseteq Bookers(t),
           Linkers(t)' \subseteq Linkers(t), \A q, r \in Linkers(t) \ Linkers(t)' : q = r
    PROVE  EntryInv(t)'
<1>1. EntriesOf(t)' = EntriesOf(t) /\ Unlinked(t)' = Unlinked(t) BY DEF EntriesOf, Unlinked
<1>2. Cardinality(Bookers(t)') <= Cardinality(Bookers(t)) /\ Cardinality(Bookers(t)') \in Nat
  BY EntryCounts, CountSubset
<1>3. Cardinality(Linkers(t)) <= Cardinality(Linkers(t)') + 1 /\ Cardinality(Linkers(t)') \in Nat
  <2>1. Cardinality(Linkers(t)') \in Nat BY EntryCounts, CountSubset
  <2>2. CASE Linkers(t)' = Linkers(t) BY <2>1, <2>2
  <2>3. ASSUME NEW r \in Linkers(t) \ Linkers(t)'
        PROVE Cardinality(Linkers(t)) <= Cardinality(Linkers(t)') + 1
    <3>1. Linkers(t)' = Linkers(t) \ {r} BY <2>3
    <3>2. Cardinality(Linkers(t)) = Cardinality(Linkers(t) \ {r}) + 1 BY EntryCounts, CountRemove
    <3> QED BY <2>1, <3>1, <3>2
  <2> QED BY <2>1, <2>2, <2>3
<1>4. /\ Cardinality(EntriesOf(t)) \in Nat /\ Cardinality(Linkers(t)) \in Nat
      /\ Cardinality(Bookers(t)) \in Nat
      /\ Cardinality(instance.requests) \in Nat /\ faults \in Nat
  BY EntryCounts
<1>5. /\ Unlinked(t) => Cardinality(EntriesOf(t)) <= Cardinality(Linkers(t)) + faults
      /\ Cardinality(EntriesOf(t)) + Cardinality(Bookers(t))
           <= Cardinality(instance.requests) + faults
  BY DEF EntryInv
<1>6. /\ Unlinked(t) => Cardinality(EntriesOf(t)) <= Cardinality(Linkers(t)') + faults'
      /\ Cardinality(EntriesOf(t)) + Cardinality(Bookers(t)')
           <= Cardinality(instance.requests) + faults'
  BY <1>2, <1>3, <1>4, <1>5
<1> QED BY <1>1, <1>6 DEF EntryInv

(* A request that dies, or all at a restart, is paid for by a fault. *)
LEMMA EntryFaults ==
    ASSUME Shape, Shape', BotApart, Entries, Restart \/ \E r \in Requests : Skip(r) \/ GiveUp(r)
    PROVE  Entries'
<1>1. UNCHANGED <<entries, txns, instance>> /\ faults' = faults + 1
  BY DEF Restart, Skip, GiveUp, Fault, books
<1>2. ASSUME NEW t \in DOMAIN txns, NEW r \in Requests, Skip(r) \/ GiveUp(r) PROVE EntryInv(t)'
  <2>1. Bookers(t)' = Bookers(t) \ {r} /\ Linkers(t)' = Linkers(t) \ {r}
    <3>1. PICK l : Goto(r, l) /\ l.pc \in {"idle", "generate"}
      BY <1>2, NextTxnGoes DEF Skip, GiveUp, Done, Idle, Booking
    <3> QED BY <3>1, HoldersMove
  <2> QED BY <1>1, <2>1, EntryLost DEF Entries
<1>3. ASSUME NEW t \in DOMAIN txns, Restart PROVE EntryInv(t)'
  <2>1. \A r \in Requests : req'[r] = IF r \in BotRequests THEN Idle ELSE req[r] BY <1>3 DEF Restart
  <2>2. Bookers(t)' = Bookers(t) \ BotRequests /\ Linkers(t)' = Linkers(t) \ BotRequests
    BY <2>1 DEF Bookers, Linkers, Current, Idle
  <2>3. \A q, r \in Linkers(t) \ Linkers(t)' : q = r
    <3>1. \A q \in Linkers(t) : t \in Work(req[q])
      BY AtTxn, WorkOfSeq DEF Linkers, Booking, Work, Current
    <3> QED BY <2>2, <3>1 DEF BotApart, Linkers
  <2> QED BY <1>1, <2>2, <2>3, EntryLost DEF Entries
<1> QED BY <1>1, <1>2, <1>3 DEF Entries

(* Every step keeps the count of entries. *)
LEMMA EntriesKept == Shape /\ BotApart /\ Entries /\ [Next]_vars => Entries'
<1> SUFFICES ASSUME Shape, BotApart, Entries, [Next]_vars PROVE Entries' OBVIOUS
<1> USE DEF At
<1>1. Shape' BY ShapeKept
<1>2. ASSUME NEW r \in Requests, NEW b \in Batches,
             Upload(r, b) \/ CancelRead(r, b) \/ EditRead(r, b) \/ Confirm(r, b) \/ ApiConvert(r, b)
      PROVE Entries'
  <2>1. PICK l : Goto(r, l) /\ l.pc \notin {"book", "link"}
    <3>1. CASE Upload(r, b) \/ CancelRead(r, b) \/ ApiConvert(r, b)
      BY <3>1 DEF Upload, CancelRead, ApiConvert
    <3>2. CASE EditRead(r, b) BY <3>2 DEF EditRead
    <3>3. CASE Confirm(r, b)
      <4>1. PICK typed : Goto(r, [pc |-> "evaluate", batch |-> b, amount |-> batch[b].results[1],
                                  duplicate |-> typed])
        BY <3>3 DEF Confirm
      <4> QED BY <4>1
    <3> QED BY <1>2, <3>1, <3>2, <3>3
  <2>2. UNCHANGED <<txns, entries>> /\ req[r].pc # "link"
    BY <1>2 DEF Upload, CancelRead, EditRead, Confirm, ApiConvert, books, Starts, Idle
  <2> QED BY <1>1, <2>1, <2>2, EntryOfRequest
<1>3. ASSUME NEW r \in Requests,
             \/ \E i \in DOMAIN approvals, d \in {"approved", "rejected"} : Decide(r, i, d)
             \/ \E t \in DOMAIN txns : ApiGenerate(r, t)
      PROVE Entries'
  <2>1. PICK l : Goto(r, l) /\ l.pc \notin {"book", "link"}
    <3>1. CASE \E i \in DOMAIN approvals, d \in {"approved", "rejected"} : Decide(r, i, d)
      BY <3>1 DEF Decide
    <3>2. CASE \E t \in DOMAIN txns : ApiGenerate(r, t) BY <3>2 DEF ApiGenerate
    <3> QED BY <1>3, <3>1, <3>2
  <2>2. UNCHANGED <<txns, entries>> /\ req[r].pc # "link"
    <3>1. req[r] = Idle /\ UNCHANGED <<txns, entries>>
      BY <1>3 DEF Decide, ApiGenerate, books, Starts
    <3> QED BY <3>1 DEF Idle
  <2> QED BY <1>1, <2>1, <2>2, EntryOfRequest
<1>4. ASSUME NEW r \in Requests,
             \/ Recognise(r) \/ Ask(r) \/ CancelWrite(r) \/ EditWrite(r) \/ Evaluate(r)
             \/ RequestApproval(r) \/ FlagBatch(r) \/ DecideBatch(r) \/ Complete(r) \/ Convert(r)
             \/ LinkBatch(r)
      PROVE Entries'
  <2>1. PICK l : Goto(r, l) /\ l.pc \notin {"book", "link"}
    <3>1. CASE Done(r) BY <3>1 DEF Done, Idle
    <3>2. CASE (RequestApproval(r) \/ FlagBatch(r) \/ Complete(r) \/ LinkBatch(r)) /\ ~Done(r)
      BY <3>2 DEF RequestApproval, FlagBatch, Complete, LinkBatch
    <3>5. CASE Recognise(r) /\ ~Done(r)
      <4>1. PICK f : Goto(r, [pc |-> "ask", batch |-> req[r].batch, results |-> f])
        BY <3>5 DEF Recognise
      <4> QED BY <4>1
    <3>3. CASE Evaluate(r)
      <4>1. PICK pc \in {"request", "complete"} : Goto(r, [pc |-> pc, batch |-> req[r].batch])
        BY <3>3 DEF Evaluate
      <4> QED BY <4>1
    <3>4. CASE Convert(r) /\ ~Done(r) BY <3>4 DEF Convert
    <3> QED BY <1>4, <3>1, <3>2, <3>3, <3>4, <3>5 DEF Ask, CancelWrite, EditWrite, DecideBatch
  <2>2. UNCHANGED <<txns, entries>> /\ req[r].pc # "link"
    BY <1>4 DEF Recognise, Ask, CancelWrite, EditWrite, Evaluate, RequestApproval, FlagBatch,
       DecideBatch, Complete, Convert, LinkBatch, books
  <2> QED BY <1>1, <2>1, <2>2, EntryOfRequest
<1>5. ASSUME NEW b \in Batches, TimeoutRead(b) \/ TimeoutCancel(b) PROVE Entries'
  <2>1. UNCHANGED <<txns, entries, req, instance>> BY <1>5 DEF TimeoutRead, TimeoutCancel, books
  <2>2. ASSUME NEW t \in DOMAIN txns PROVE EntryInv(t)'
    <3>1. /\ EntriesOf(t)' = EntriesOf(t) /\ Unlinked(t)' = Unlinked(t)
          /\ Bookers(t)' = Bookers(t) /\ Linkers(t)' = Linkers(t)
      BY <2>1 DEF EntriesOf, Unlinked, Bookers, Linkers, Current
    <3> QED BY <1>1, <2>1, <3>1, FaultsGrow, EntryStays DEF Entries
  <2> QED BY <2>1, <2>2 DEF Entries
<1>6. CASE UNCHANGED vars
  BY <1>6 DEF vars, books, Entries, EntryInv, EntriesOf, Unlinked, Bookers, Linkers, Current
<1>7. CASE Next
  BY <1>1, <1>2, <1>3, <1>4, <1>5, <1>7, EntryGenerate, EntryBook, EntryLink, EntryRecord,
     EntryFaults DEF Next, Continue
<1> QED BY <1>6, <1>7

(* The count gives the bound that is checked. *)
LEMMA EntriesAreBounded == Shape /\ Entries => EntriesBounded
<1> SUFFICES ASSUME Shape, Entries, NEW t \in DOMAIN txns
             PROVE  Cardinality(EntriesOf(t)) <= Cardinality(instance.requests) + faults
  BY DEF EntriesBounded
<1>1. Cardinality(EntriesOf(t)) + Cardinality(Bookers(t)) <= Cardinality(instance.requests) + faults
  BY DEF Entries, EntryInv
<1> QED BY <1>1, EntryCounts

(* When nothing is due any more, it has been recorded. *)
LEMMA CompletedIsDue == CompletedInv => CompletedIsRecorded
BY DEF CompletedInv, Due, DueInv, CompletedIsRecorded, Quiet, Idle

(* For any number of updates, requests, batches and faults: a receipt is
   recorded once while the bot handles one update at a time, no completed batch
   is forgotten when nothing fails, and a transaction has no more entries than
   requests that found it unlinked and faults (confirm.go, confirmAndProcess;
   journal_generator.go, GenerateFromTransaction). *)
THEOREM ReceiptsAreSound == Spec => []ReceiptsSound
<1> DEFINE Inv == Shape /\ BotInv /\ CompletedInv /\ BotApart /\ Entries
<1>1. Init => Inv
  <2> SUFFICES ASSUME Init PROVE Inv OBVIOUS
  <2>1. txns = <<>> /\ \A r \in Requests : req[r] = Idle BY DEF Init
  <2>2. BotInv BY <2>1 DEF BotInv, OnceInv, BotTxnsOf, TxnsOf, Idle, Undecided, Requests
  <2>3. CompletedInv BY DEF Init, CompletedInv, Due, DueInv, NoBatch
  <2>4. BotApart /\ Entries BY <2>1 DEF BotApart, Work, Entries, Idle, Booking, Requests
  <2> QED BY <2>2, <2>3, <2>4, ShapeInit
<1>2. Inv /\ [Next]_vars => Inv' BY ShapeKept, BotKept, CompletedKept, ApartKept, EntriesKept
<1>3. Inv => ReceiptsSound
  BY BotRecordsOnce, CompletedIsDue, EntriesAreBounded DEF ReceiptsSound, Shape
<1> QED BY <1>1, <1>2, <1>3, PTL DEF Spec
=============================================================================
