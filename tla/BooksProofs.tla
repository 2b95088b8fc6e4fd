----------------------------- MODULE BooksProofs -----------------------------
(***************************************************************************)
(* Proofs about the books.  First Ledger and YearEndClose, for any number  *)
(* of entries, periods, accounts and requests; then ExpenseDesk, for any   *)
(* number of goroutines, any inputs, and any tables at the start that its  *)
(* Start allows.                                                           *)
(***************************************************************************)
EXTENDS YearEndClose, ExpenseDesk, CommonTheorems, SequenceTheorems

----
(* Ledger and YearEndClose. *)

(* Sound lines stay lines: what is stored and what Reverse derives. *)
LEMMA LinesClosed ==
    ASSUME NEW l \in LinesOf
    PROVE  /\ Stored(l) \in LinesOf
           /\ Opposite(l) \in LinesOf
<1> USE LedgerAssumption DEF LinesOf
<1>1. ASSUME NEW x \in Int PROVE ToCents(x) \in Int BY <1>1 DEF ToCents
<1>2. Stored(l) \in LinesOf BY <1>1 DEF Stored
<1>3. Opposite(l) \in LinesOf BY DEF Opposite
<1> QED BY <1>2, <1>3

(* Every step keeps the types of the ledger. *)
LEMMA TypeKept ==
    ASSUME TypeOK, [Next]_vars
    PROVE  TypeOK'
<1> USE DEF TypeOK, Goto, Done
<1>1. ASSUME NEW r \in Requests, CreateFind(r) PROVE TypeOK'
  <2>0. PICK l \in Inputs, d \in Dates : \E p \in FoundPeriods(d) :
            Goto(r, [pc |-> "create", date |-> d, period |-> p, lines |-> l])
    BY <1>1 DEF CreateFind
  <2>1. PICK p \in FoundPeriods(d) :
           Goto(r, [pc |-> "create", date |-> d, period |-> p, lines |-> l])
    BY <2>0
  <2>2. p \in Periods \cup {None} /\ l \in LinesOf
    BY LedgerAssumption DEF FoundPeriods, OpenCovering, LinesOf
  <2>3. [pc |-> "create", date |-> d, period |-> p, lines |-> l] \in Locals BY <2>2 DEF Locals
  <2> QED BY <1>1, <2>1, <2>3 DEF CreateFind
<1>2. ASSUME NEW r \in Requests, CreateCommit(r) PROVE TypeOK'
  <2>1. req[r] \in [pc : {"create"}, date : Dates, period : Periods \cup {None}, lines : LinesOf]
    BY <1>2 DEF CreateCommit, Locals, Idle
  <2>2. Draft(req[r]) \in EntryRow BY <2>1, LinesClosed DEF Draft, NoEntry, EntryRow, EntryStatus
  <2> QED BY <1>2, <2>2 DEF CreateCommit, Locals, Idle
<1>3. ASSUME NEW r \in Requests, PostRead(r) PROVE TypeOK' BY <1>3 DEF PostRead, Locals, EntryRow
<1>4. ASSUME NEW r \in Requests, PostPeriod(r) PROVE TypeOK' BY <1>4 DEF PostPeriod, Locals, Idle
<1>5. ASSUME NEW r \in Requests, PostWrite(r) PROVE TypeOK'
  BY <1>5 DEF PostWrite, MarkPosted, Locals, Idle, EntryRow, EntryStatus
<1>6. ASSUME NEW r \in Requests, PostPublish(r) PROVE TypeOK' BY <1>6 DEF PostPublish, Locals, Idle
<1>7. ASSUME NEW r \in Requests, ReverseRead(r) PROVE TypeOK'
  BY <1>7 DEF ReverseRead, Locals, EntryRow
<1>8. ASSUME NEW r \in Requests, ReverseCommit(r) PROVE TypeOK'
  <2>1. req[r] \in [pc : {"reverse"}, entry : Entries, period : Periods \cup {None},
                    lines : LinesOf]
    BY <1>8 DEF ReverseCommit, Locals, Idle
  <2>2. ASSUME NEW today \in Dates PROVE Reversal(req[r], today) \in EntryRow
    BY <2>1, LinesClosed DEF Reversal, EntryRow, EntryStatus
  <2>3. ASSUME NEW o \in Entries, NEW e \in Entries PROVE  MarkReversed(entry[o], e) \in EntryRow
    BY <2>3 DEF MarkReversed, EntryRow, EntryStatus
  <2> QED BY <1>8, <2>1, <2>2, <2>3 DEF ReverseCommit, Locals, Idle
<1>9. ASSUME NEW r \in Requests, CloseRead(r) PROVE TypeOK' BY <1>9 DEF CloseRead, Locals
<1>10. ASSUME NEW r \in Requests, CloseCount(r) PROVE TypeOK' BY <1>10 DEF CloseCount, Locals, Idle
<1>11. ASSUME NEW r \in Requests, CloseWrite(r) PROVE TypeOK'
  BY <1>11 DEF CloseWrite, Locals, Idle, PeriodStatus
<1>12. ASSUME NEW r \in Requests, Abandon(r) PROVE TypeOK' BY <1>12 DEF Abandon, Locals
<1>13. ASSUME NEW p \in Periods, PeriodStep(p) PROVE TypeOK'
  BY <1>13 DEF PeriodStep, CreatePeriod, Reopen, PeriodStatus
<1>14. CASE UNCHANGED vars BY <1>14 DEF vars
<1> QED
  BY <1>1, <1>2, <1>3, <1>4, <1>5, <1>6, <1>7, <1>8, <1>9, <1>10, <1>11, <1>12, <1>13, <1>14
     DEF Next, RequestStep

(* Type correctness of the ledger. *)
THEOREM TypeCorrect == Spec => []TypeOK
<1>1. Init => TypeOK
  BY DEF Init, TypeOK, NoEntry, EntryRow, EntryStatus, PeriodStatus, NoLines, LinesOf, Locals, Idle
<1> QED BY <1>1, TypeKept, PTL DEF Spec

----
(* Reversals.  A request that is about to commit a reversal read its original
   when it was posted.  The original may be reversed by now, but what was read
   of it - its lines and its period - cannot have changed, which is what keeps
   the links of ReversalLinked sound when the commit comes late. *)

InBooks(e) == entry[e].status \in {"posted", "reversed"}

ReadsAreCurrent ==
    \A r \in Requests : req[r].pc = "reverse" =>
        /\ InBooks(req[r].entry)
        /\ req[r].lines = entry[req[r].entry].lines
        /\ req[r].period = entry[req[r].entry].period

(* Reversing entries are in the books and name a reversed original. *)
ReversingRows ==
    \A e \in Entries : entry[e].reverses # None =>
        InBooks(e) /\ entry[entry[e].reverses].status = "reversed"

(* An original is reversed when it names its reversal, which mirrors it. *)
ReversedRows ==
    \A o \in Entries :
        /\ entry[o].status = "reversed" <=> entry[o].reversedBy # None
        /\ entry[o].reversedBy # None =>
               LET e == entry[o].reversedBy
               IN  /\ entry[e].reverses = o
                   /\ InBooks(e)
                   /\ entry[e].lines = Opposite(entry[o].lines)
                   /\ entry[e].period = entry[o].period

ReversalInv == TypeOK /\ ReadsAreCurrent /\ ReversingRows /\ ReversedRows

(* The four things a step can do to the rows. *)
SameRows == entry' = entry
DraftStep ==
    \E e \in Entries :
        /\ entry[e].status = "none"
        /\ entry'[e].status = "draft"
        /\ entry'[e].reverses = None /\ entry'[e].reversedBy = None
        /\ \A x \in Entries \ {e} : entry'[x] = entry[x]
PostStep ==
    \E e \in Entries :
        /\ entry[e].status = "draft"
        /\ entry' = [entry EXCEPT ![e].status = "posted"]
ReversalStep(o, e) ==
    /\ entry[e].status = "none"
    /\ InBooks(o)
    /\ entry'[e].status = "posted"
    /\ entry'[e].reverses = o /\ entry'[e].reversedBy = None
    /\ entry'[e].lines = Opposite(entry[o].lines)
    /\ entry'[e].period = entry[o].period
    /\ entry'[o] = MarkReversed(entry[o], e)
    /\ \A x \in Entries \ {e, o} : entry'[x] = entry[x]

RowStep == \/ SameRows \/ DraftStep \/ PostStep
           \/ \E o, e \in Entries : ReversalStep(o, e)

(* Every action is one of the four, and a request that comes to hold a read of
   a posted entry has just made it. *)
LEMMA ActionsAreRowSteps ==
    ASSUME TypeOK, ReadsAreCurrent, [Next]_vars
    PROVE  /\ RowStep
           /\ \A r \in Requests : req'[r].pc = "reverse" =>
                \/ req'[r] = req[r]
                \/ /\ entry' = entry
                   /\ entry[req'[r].entry].status = "posted"
                   /\ req'[r].lines = entry[req'[r].entry].lines
                   /\ req'[r].period = entry[req'[r].entry].period
<1> USE DEF TypeOK, Goto, Done
<1>1. ASSUME NEW r \in Requests, CreateFind(r)
      PROVE  SameRows /\ \A s \in Requests : req'[s].pc = "reverse" => req'[s] = req[s]
  BY <1>1 DEF CreateFind, SameRows
<1>2. ASSUME NEW r \in Requests, CreateCommit(r)
      PROVE  DraftStep /\ \A s \in Requests : req'[s].pc = "reverse" => req'[s] = req[s]
  BY <1>2 DEF CreateCommit, DraftStep, Draft, NoEntry, Idle
<1>3. ASSUME NEW r \in Requests, PostRead(r)
      PROVE  SameRows /\ \A s \in Requests : req'[s].pc = "reverse" => req'[s] = req[s]
  BY <1>3 DEF PostRead, SameRows
<1>4. ASSUME NEW r \in Requests, PostPeriod(r)
      PROVE  SameRows /\ \A s \in Requests : req'[s].pc = "reverse" => req'[s] = req[s]
  BY <1>4 DEF PostPeriod, SameRows
<1>5. ASSUME NEW r \in Requests, PostWrite(r)
      PROVE  /\ SameRows \/ PostStep
             /\ \A s \in Requests : req'[s].pc = "reverse" => req'[s] = req[s]
  <2>1. req[r].entry \in Entries BY <1>5 DEF PostWrite, Locals, Idle
  <2> QED BY <1>5, <2>1 DEF PostWrite, MarkPosted, SameRows, PostStep
<1>6. ASSUME NEW r \in Requests, PostPublish(r)
      PROVE  SameRows /\ \A s \in Requests : req'[s].pc = "reverse" => req'[s] = req[s]
  BY <1>6 DEF PostPublish, SameRows, Idle
<1>7. ASSUME NEW r \in Requests, ReverseRead(r)
      PROVE  /\ SameRows
             /\ \A s \in Requests : req'[s].pc = "reverse" =>
                  \/ req'[s] = req[s]
                  \/ /\ entry[req'[s].entry].status = "posted"
                     /\ req'[s].lines = entry[req'[s].entry].lines
                     /\ req'[s].period = entry[req'[s].entry].period
  BY <1>7 DEF ReverseRead, SameRows
<1>8. ASSUME NEW r \in Requests, ReverseCommit(r)
      PROVE  /\ \E o, e \in Entries : ReversalStep(o, e)
             /\ \A s \in Requests : req'[s].pc = "reverse" => req'[s] = req[s]
  <2> DEFINE o == req[r].entry
  <2>1. o \in Entries /\ InBooks(o) BY <1>8 DEF ReverseCommit, Locals, Idle, ReadsAreCurrent
  <2>2. PICK e \in Entries, today \in Dates :
           /\ entry[e].status = "none"
           /\ entry' = [entry EXCEPT ![e] = Reversal(req[r], today),
                                     ![o] = MarkReversed(entry[o], e)]
    BY <1>8 DEF ReverseCommit
  <2>3. e # o BY <2>1, <2>2 DEF InBooks
  <2>4. /\ entry'[e] = Reversal(req[r], today)
        /\ entry'[o] = MarkReversed(entry[o], e)
        /\ \A x \in Entries \ {e, o} : entry'[x] = entry[x]
    BY <2>1, <2>2, <2>3
  <2>5. req[r].lines = entry[o].lines /\ req[r].period = entry[o].period
    BY <1>8 DEF ReverseCommit, ReadsAreCurrent
  <2>6. ReversalStep(o, e) BY <2>1, <2>2, <2>4, <2>5 DEF ReversalStep, Reversal
  <2>7. \A s \in Requests : req'[s].pc = "reverse" => req'[s] = req[s]
    BY <1>8 DEF ReverseCommit, Idle
  <2> QED BY <2>1, <2>6, <2>7
<1>9. ASSUME NEW r \in Requests, CloseRead(r) \/ CloseCount(r) \/ CloseWrite(r) \/ Abandon(r)
      PROVE  SameRows /\ \A s \in Requests : req'[s].pc = "reverse" => req'[s] = req[s]
  BY <1>9 DEF CloseRead, CloseCount, CloseWrite, Abandon, SameRows, Idle
<1>10. ASSUME NEW p \in Periods, PeriodStep(p) PROVE  SameRows /\ req' = req
  BY <1>10 DEF PeriodStep, CreatePeriod, Reopen, SameRows
<1>11. CASE UNCHANGED vars BY <1>11 DEF vars, RowStep, SameRows
<1>12. CASE \E p \in Periods : PeriodStep(p) BY <1>10, <1>12 DEF RowStep
<1>13. CASE \E r \in Requests : RequestStep(r)
  <2>1. PICK r \in Requests : RequestStep(r) BY <1>13
  <2>2. CASE ReverseRead(r) BY <1>7, <2>2 DEF RowStep, SameRows
  <2>3. CASE ~ReverseRead(r)
    <3>1. /\ RowStep
          /\ \A s \in Requests : req'[s].pc = "reverse" => req'[s] = req[s]
      BY <1>1, <1>2, <1>3, <1>4, <1>5, <1>6, <1>8, <1>9, <2>1, <2>3 DEF RequestStep, RowStep
    <3> QED BY <3>1
  <2> QED BY <2>2, <2>3
<1> QED BY <1>11, <1>12, <1>13 DEF Next

(* Marking a row touches its status and the link, and only of a posted row. *)
LEMMA MarkedRow ==
    ASSUME NEW row \in EntryRow, NEW by \in Entries
    PROVE  /\ MarkReversed(row, by).lines = row.lines
           /\ MarkReversed(row, by).period = row.period
           /\ MarkReversed(row, by).reverses = row.reverses
           /\ row.status = "posted" => /\ MarkReversed(row, by).status = "reversed"
                                       /\ MarkReversed(row, by).reversedBy = by
           /\ row.status # "posted" => MarkReversed(row, by) = row
  BY DEF MarkReversed, EntryRow

(* What is in the books stays in the books, with its lines and its period. *)
LEMMA BooksKept ==
    ASSUME TypeOK, RowStep, NEW x \in Entries, InBooks(x)
    PROVE  /\ InBooks(x)'
           /\ entry'[x].lines = entry[x].lines
           /\ entry'[x].period = entry[x].period
           /\ entry'[x].reverses = entry[x].reverses
           /\ entry[x].status = "reversed" => entry'[x] = entry[x]
<1> USE DEF InBooks, TypeOK, EntryRow
<1>1. CASE SameRows BY <1>1 DEF SameRows
<1>2. CASE DraftStep BY <1>2 DEF DraftStep
<1>3. CASE PostStep BY <1>3 DEF PostStep
<1>4. ASSUME NEW o \in Entries, NEW e \in Entries, ReversalStep(o, e)
      PROVE  /\ InBooks(x)'
             /\ entry'[x].lines = entry[x].lines
             /\ entry'[x].period = entry[x].period
             /\ entry'[x].reverses = entry[x].reverses
             /\ entry[x].status = "reversed" => entry'[x] = entry[x]
  <2>1. entry[o] \in EntryRow OBVIOUS
  <2>2. x # e BY <1>4 DEF ReversalStep
  <2>3. CASE x = o
    BY <1>4, <2>3, <2>1, MarkedRow DEF ReversalStep
  <2>4. CASE x # o BY <1>4, <2>2, <2>4 DEF ReversalStep
  <2> QED BY <2>3, <2>4
<1> QED BY <1>1, <1>2, <1>3, <1>4 DEF RowStep

(* What a Reverse has read of its original stays true: it is in the books. *)
LEMMA ReadsStayCurrent ==
    ASSUME TypeOK, ReadsAreCurrent, [Next]_vars, TypeOK'
    PROVE  ReadsAreCurrent'
<1> SUFFICES ASSUME NEW r \in Requests, req'[r].pc = "reverse"
             PROVE  /\ InBooks(req[r].entry)'
                    /\ req'[r].lines = entry'[req'[r].entry].lines
                    /\ req'[r].period = entry'[req'[r].entry].period
  BY DEF ReadsAreCurrent
<1>1. CASE req'[r] = req[r]
  BY <1>1, ActionsAreRowSteps, BooksKept DEF TypeOK, Locals, Idle, ReadsAreCurrent, InBooks
<1>2. CASE req'[r] # req[r] BY <1>2, ActionsAreRowSteps DEF InBooks
<1> QED BY <1>1, <1>2

(* A reversal names an original that is marked reversed, and keeps naming it. *)
LEMMA ReversingRowsKept ==
    ASSUME ReversalInv, RowStep, TypeOK'
    PROVE  ReversingRows'
<1> USE LedgerAssumption DEF ReversalInv
<1> SUFFICES ASSUME NEW x \in Entries, entry'[x].reverses # None
             PROVE  InBooks(x)' /\ entry'[entry'[x].reverses].status = "reversed"
  BY DEF ReversingRows
<1>1. CASE InBooks(x) /\ entry[x].reverses # None
  BY <1>1, BooksKept DEF TypeOK, EntryRow, ReversingRows, InBooks
<1>2. CASE ~(InBooks(x) /\ entry[x].reverses # None)
  <2>1. entry[x].reverses = None BY <1>2 DEF ReversingRows
  <2>2. PICK o \in Entries, e \in Entries : ReversalStep(o, e)
    BY <2>1 DEF RowStep, SameRows, DraftStep, PostStep, TypeOK, EntryRow
  <2>3. entry'[o] = MarkReversed(entry[o], e) /\ entry[o] \in EntryRow
    BY <2>2 DEF ReversalStep, TypeOK
  <2>4. entry'[o].reverses = entry[o].reverses /\ entry'[o].status = "reversed"
    BY <2>2, <2>3, MarkedRow DEF ReversalStep, InBooks
  <2>5. x = e BY <2>1, <2>2, <2>4 DEF ReversalStep
  <2> QED BY <2>2, <2>4, <2>5 DEF ReversalStep, InBooks
<1> QED BY <1>1, <1>2

(* An original marked reversed leads to its reversal, and keeps leading there. *)
LEMMA ReversedRowsKept ==
    ASSUME ReversalInv, RowStep, TypeOK'
    PROVE  ReversedRows'
<1> USE LedgerAssumption DEF ReversalInv
<1> DEFINE Linked(o, e) == /\ entry[e].reverses = o
                           /\ InBooks(e)
                           /\ entry[e].lines = Opposite(entry[o].lines)
                           /\ entry[e].period = entry[o].period
<1> SUFFICES ASSUME NEW x \in Entries
             PROVE  /\ entry'[x].status = "reversed" <=> entry'[x].reversedBy # None
                    /\ entry'[x].reversedBy # None => Linked(x, entry[x].reversedBy)'
  BY DEF ReversedRows
<1>1. CASE entry[x].status = "reversed"
  BY <1>1, BooksKept DEF InBooks, ReversedRows, TypeOK, EntryRow
<1>2. CASE entry[x].status # "reversed" /\ entry'[x].reversedBy = None
  <2>1. entry[x].reversedBy = None BY <1>2 DEF ReversedRows
  <2>2. entry'[x].status # "reversed"
    <3>1. CASE SameRows \/ DraftStep \/ PostStep
      BY <1>2, <3>1 DEF SameRows, DraftStep, PostStep, TypeOK, EntryRow
    <3>2. ASSUME NEW o \in Entries, NEW e \in Entries, ReversalStep(o, e)
          PROVE  entry'[x].status # "reversed"
      <4>1. entry'[o] = MarkReversed(entry[o], e) /\ entry[o] \in EntryRow
        BY <3>2 DEF ReversalStep, TypeOK
      <4>2. CASE x = o BY <1>2, <4>1, <4>2, MarkedRow, LedgerAssumption
      <4>3. CASE x # o BY <1>2, <3>2, <4>3 DEF ReversalStep
      <4> QED BY <4>2, <4>3
    <3> QED BY <3>1, <3>2 DEF RowStep
  <2> QED BY <1>2, <2>2
<1>3. CASE entry[x].status # "reversed" /\ entry'[x].reversedBy # None
  <2>1. entry[x].reversedBy = None BY <1>3 DEF ReversedRows
  <2>2. PICK o \in Entries, e \in Entries : ReversalStep(o, e)
    <3>1. CASE SameRows \/ DraftStep BY <1>3, <2>1, <3>1 DEF SameRows, DraftStep
    <3>2. CASE PostStep
      BY <3>2, <1>3, <2>1 DEF PostStep, TypeOK, EntryRow
    <3> QED BY <3>1, <3>2 DEF RowStep
  <2>3. x = o /\ entry[o].status = "posted"
    BY <1>3, <2>1, <2>2 DEF ReversalStep, MarkReversed, TypeOK, EntryRow
  <2>4. entry'[o] = [entry[o] EXCEPT !.status = "reversed", !.reversedBy = e]
    BY <2>2, <2>3 DEF ReversalStep, MarkReversed
  <2>5. /\ entry'[o].status = "reversed" /\ entry'[o].reversedBy = e
        /\ entry'[o].lines = entry[o].lines /\ entry'[o].period = entry[o].period
    BY <2>4 DEF TypeOK, EntryRow
  <2> QED BY <2>2, <2>3, <2>5 DEF ReversalStep, InBooks
<1> QED BY <1>1, <1>2, <1>3

(* Rows and reads are sound throughout. *)
THEOREM ReversalInvAlways == Spec => []ReversalInv
<1>1. Init => ReadsAreCurrent /\ ReversingRows /\ ReversedRows
  BY LedgerAssumption DEF Init, ReadsAreCurrent, ReversingRows, ReversedRows, NoEntry, Idle
<1>2. TypeOK /\ TypeOK' /\ ReadsAreCurrent /\ ReversingRows /\ ReversedRows /\ [Next]_vars
      => (ReadsAreCurrent /\ ReversingRows /\ ReversedRows)'
  BY ActionsAreRowSteps, ReadsStayCurrent, ReversingRowsKept, ReversedRowsKept DEF ReversalInv
<1> QED BY <1>1, <1>2, TypeCorrect, PTL DEF Spec, ReversalInv

(* The links between an original and its reversal are sound in every reachable
   state, for any number of concurrent requests. *)
THEOREM ReversalsAreLinked == Spec => []ReversalLinked
<1>1. ReversalInv => ReversalLinked
  BY LedgerAssumption DEF ReversalInv, TypeOK, EntryRow, ReversingRows, ReversedRows,
     ReversalLinked, InBooks
<1> QED BY <1>1, ReversalInvAlways, PTL

(* A posted entry is never rewritten, in any interleaving: reversing it is the
   one change, and that happens once. *)
THEOREM BooksAreFrozen == Spec => BooksFrozen
<1> DEFINE Frozen == \A e \in Entries : entry[e].status \in {"posted", "reversed"} =>
               \/ entry'[e] = entry[e]
               \/ /\ entry[e].status = "posted"
                  /\ \E by \in Entries :
                       entry'[e] = [entry[e] EXCEPT !.status = "reversed",
                                                    !.reversedBy = by]
<1>1. ASSUME TypeOK, ReadsAreCurrent, [Next]_vars PROVE  Frozen
  <2> SUFFICES ASSUME NEW x \in Entries, InBooks(x)
               PROVE  \/ entry'[x] = entry[x]
                      \/ /\ entry[x].status = "posted"
                         /\ \E by \in Entries :
                              entry'[x] = [entry[x] EXCEPT !.status = "reversed",
                                                           !.reversedBy = by]
    BY DEF InBooks
  <2>1. RowStep BY <1>1, ActionsAreRowSteps
  <2>2. CASE SameRows \/ DraftStep \/ PostStep
    BY <1>1, <2>2 DEF SameRows, DraftStep, PostStep, InBooks, TypeOK
  <2>3. CASE \E o, e \in Entries : ReversalStep(o, e)
    BY <2>3 DEF ReversalStep, MarkReversed, InBooks
  <2> QED BY <2>1, <2>2, <2>3 DEF RowStep
<1>2. Init => ReadsAreCurrent BY DEF Init, ReadsAreCurrent, Idle
<1>3. TypeOK /\ TypeOK' /\ ReadsAreCurrent /\ [Next]_vars => ReadsAreCurrent' BY ReadsStayCurrent
<1> QED BY <1>1, <1>2, <1>3, TypeCorrect, PTL DEF Spec, BooksFrozen

----
(* One request at a time.  Create and Close each check before they write; with
   a single request nothing comes between, and what was checked still holds at
   the write.  CloseCount's answer is the delicate one: nobody else can leave a
   draft before CloseWrite. *)

Serialized == \A r, s \in Requests : r = s

CheckedCreate(r) ==
    req[r].pc = "create" /\ req[r].period # None => period[req[r].period] = "open"

CheckedClose(r) == req[r].pc = "close_write" => DraftsIn(req[r].period) = {}

Checked == \A r \in Requests : CheckedCreate(r) /\ CheckedClose(r)

PeriodInv == Checked /\ NoDraftInClosedPeriod

(* With one request at a time no step leaves a draft in a closed period. *)
LEMMA PeriodInvKept ==
    ASSUME Serialized, TypeOK, PeriodInv, [Next]_vars
    PROVE  PeriodInv'
<1> USE LedgerAssumption DEF Serialized, TypeOK, PeriodInv, Checked, CheckedCreate, CheckedClose,
            NoDraftInClosedPeriod, DraftsIn, Goto, Done
<1>1. ASSUME NEW r \in Requests, CreateFind(r) PROVE PeriodInv'
  <2>1. PICK l \in Inputs, d \in Dates : \E p \in FoundPeriods(d) :
            Goto(r, [pc |-> "create", date |-> d, period |-> p, lines |-> l])
    BY <1>1 DEF CreateFind
  <2>2. PICK p \in FoundPeriods(d) :
            Goto(r, [pc |-> "create", date |-> d, period |-> p, lines |-> l])
    BY <2>1
  <2>3. p # None => period[p] = "open" BY DEF FoundPeriods, OpenCovering
  <2> QED BY <1>1, <2>2, <2>3 DEF CreateFind
<1>2. ASSUME NEW r \in Requests, CreateCommit(r) PROVE PeriodInv'
  <2>1. req[r].period \in Periods \cup {None} BY <1>2 DEF CreateCommit, Locals, Idle
  <2>2. PICK e \in Entries : entry' = [entry EXCEPT ![e] = Draft(req[r])] BY <1>2 DEF CreateCommit
  <2>3. Draft(req[r]).period = req[r].period BY DEF Draft, NoEntry
  <2>4. NoDraftInClosedPeriod' BY <1>2, <2>1, <2>2, <2>3 DEF CreateCommit
  <2>5. \A s \in Requests : req'[s] = Idle BY <1>2 DEF CreateCommit
  <2> QED BY <2>4, <2>5 DEF Idle
<1>3. ASSUME NEW r \in Requests, PostRead(r) PROVE PeriodInv' BY <1>3 DEF PostRead
<1>4. ASSUME NEW r \in Requests, PostPeriod(r) PROVE PeriodInv' BY <1>4 DEF PostPeriod
<1>5. ASSUME NEW r \in Requests, PostWrite(r) PROVE PeriodInv'
  BY <1>5 DEF PostWrite, MarkPosted, EntryRow
<1>6. ASSUME NEW r \in Requests, PostPublish(r) PROVE PeriodInv' BY <1>6 DEF PostPublish, Idle
<1>7. ASSUME NEW r \in Requests, ReverseRead(r) PROVE PeriodInv' BY <1>7 DEF ReverseRead
<1>8. ASSUME NEW r \in Requests, ReverseCommit(r) PROVE PeriodInv'
  BY <1>8 DEF ReverseCommit, Reversal, MarkReversed, EntryRow, Idle
<1>9. ASSUME NEW r \in Requests, CloseRead(r) PROVE PeriodInv' BY <1>9 DEF CloseRead
<1>10. ASSUME NEW r \in Requests, CloseCount(r) PROVE PeriodInv' BY <1>10 DEF CloseCount
<1>11. ASSUME NEW r \in Requests, CloseWrite(r) PROVE PeriodInv' BY <1>11 DEF CloseWrite, Idle
<1>12. ASSUME NEW r \in Requests, Abandon(r) PROVE PeriodInv' BY <1>12 DEF Abandon, Idle
<1>13. ASSUME NEW p \in Periods, PeriodStep(p) PROVE PeriodInv'
  <2>1. /\ entry' = entry /\ req' = req
        /\ period' = [period EXCEPT ![p] = "open"]
    BY <1>13 DEF PeriodStep, CreatePeriod, Reopen
  <2>2. \A q \in Periods : period'[q] \in {period[q], "open"} BY <2>1
  <2>3. NoDraftInClosedPeriod' BY <2>1, <2>2
  <2>4. ASSUME NEW r \in Requests PROVE CheckedCreate(r)'
    BY <2>1, <2>2 DEF Locals, Idle
  <2> QED BY <2>1, <2>3, <2>4
<1>14. CASE UNCHANGED vars BY <1>14 DEF vars
<1> QED
  BY <1>1, <1>2, <1>3, <1>4, <1>5, <1>6, <1>7, <1>8, <1>9, <1>10, <1>11, <1>12, <1>13, <1>14
     DEF Next, RequestStep

(* When requests are serialized, no period is ever closed over a draft. *)
THEOREM SerializedPeriodsHoldNoDrafts ==
    ASSUME Serialized
    PROVE  Spec => []NoDraftInClosedPeriod
<1>1. Init => PeriodInv
  BY DEF Init, PeriodInv, Checked, CheckedCreate, CheckedClose, NoDraftInClosedPeriod, Idle
<1>2. TypeOK /\ PeriodInv /\ [Next]_vars => PeriodInv' BY PeriodInvKept
<1>3. PeriodInv => NoDraftInClosedPeriod BY DEF PeriodInv
<1> QED BY <1>1, <1>2, <1>3, TypeCorrect, PTL DEF Spec

----
(* What requests can do twice.  A request that has passed the check of an entry
   may still reverse or announce it; the check refuses an entry for which that
   was done before, so what is done and what is still to be done together never
   exceed the requests. *)

Reversing(o) == {r \in Requests : req[r].pc = "reverse" /\ req[r].entry = o}
Posting(e) == {r \in Requests : /\ req[r].pc \in {"post_period", "post_write", "post_publish"}
                                /\ req[r].entry = e}

ReversalCount ==
    \A o \in Entries :
        /\ IsFiniteSet(ReversalsOf(o))
        /\ Cardinality(ReversalsOf(o)) + Cardinality(Reversing(o)) <= Cardinality(Requests)

AnnouncementCount ==
    \A e \in Entries :
        /\ announced[e] + Cardinality(Posting(e)) <= Cardinality(Requests)
        /\ announced[e] > 0 => InBooks(e)

(* What is posted is not "none", and what is announced is in the books. *)
PostsAreCurrent ==
    \A r \in Requests :
        /\ req[r].pc \in {"post_period", "post_write"} => entry[req[r].entry].status # "none"
        /\ req[r].pc = "post_publish" => InBooks(req[r].entry)

(* The sets of requests are finite. *)
LEMMA RequestsFinite ==
    /\ \A S \in SUBSET Requests :
         IsFiniteSet(S) /\ Cardinality(S) \in Nat /\ Cardinality(S) <= Cardinality(Requests)
    /\ Cardinality(Requests) \in Nat
BY LedgerAssumption, FS_Subset, FS_CardinalityType

(* What one step does to a finite set. *)
LEMMA OneMore ==
    ASSUME NEW S, NEW T, IsFiniteSet(S), NEW x, x \notin S, T \subseteq S \cup {x}
    PROVE  IsFiniteSet(T) /\ Cardinality(T) <= Cardinality(S) + 1
           /\ Cardinality(S) \in Nat /\ Cardinality(T) \in Nat
<1>1. IsFiniteSet(S \cup {x}) /\ Cardinality(S \cup {x}) = Cardinality(S) + 1 BY FS_AddElement
<1>2. IsFiniteSet(T) /\ Cardinality(T) <= Cardinality(S \cup {x}) BY <1>1, FS_Subset
<1> QED BY <1>1, <1>2, FS_CardinalityType

(* A set without one of its members counts one less. *)
LEMMA OneLess ==
    ASSUME NEW S, NEW T, IsFiniteSet(S), NEW x \in S, T \subseteq S \ {x}
    PROVE  IsFiniteSet(T) /\ Cardinality(T) <= Cardinality(S) - 1
           /\ Cardinality(S) \in Nat /\ Cardinality(T) \in Nat
<1>1. IsFiniteSet(S \ {x}) /\ Cardinality(S \ {x}) = Cardinality(S) - 1 BY FS_RemoveElement
<1>2. IsFiniteSet(T) /\ Cardinality(T) <= Cardinality(S \ {x}) BY <1>1, FS_Subset
<1> QED BY <1>1, <1>2, FS_CardinalityType

(* A part of a set counts no more than the set. *)
LEMMA NoMore ==
    ASSUME NEW S, NEW T, IsFiniteSet(S), T \subseteq S
    PROVE  IsFiniteSet(T) /\ Cardinality(T) <= Cardinality(S)
           /\ Cardinality(S) \in Nat /\ Cardinality(T) \in Nat
BY FS_Subset, FS_CardinalityType

(* Which rows reverse which is only changed by the commit of a reversal. *)
LEMMA ReversalsKept ==
    ASSUME TypeOK, ReversingRows, Next, \A r \in Requests : ~ReverseCommit(r)
    PROVE  \A o \in Entries : ReversalsOf(o)' = ReversalsOf(o)
<1> USE LedgerAssumption DEF ReversalsOf, TypeOK
<1>1. ASSUME UNCHANGED entry PROVE \A o \in Entries : ReversalsOf(o)' = ReversalsOf(o) BY <1>1
<1>2. ASSUME NEW r \in Requests, CreateCommit(r)
      PROVE  \A o \in Entries : ReversalsOf(o)' = ReversalsOf(o)
  <2>1. PICK e \in Entries : entry[e].status = "none" /\ entry' = [entry EXCEPT ![e] = Draft(req[r])]
    BY <1>2 DEF CreateCommit
  <2>2. Draft(req[r]).reverses = None BY DEF Draft, NoEntry
  <2>3. entry[e].reverses = None BY <2>1 DEF ReversingRows, InBooks
  <2>4. \A x \in Entries : x # e => entry'[x] = entry[x] BY <2>1
  <2>5. entry'[e].reverses = None BY <2>1, <2>2
  <2> QED BY <2>3, <2>4, <2>5
<1>3. ASSUME NEW r \in Requests, PostWrite(r)
      PROVE  \A o \in Entries : ReversalsOf(o)' = ReversalsOf(o)
  BY <1>3 DEF PostWrite, MarkPosted, EntryRow
<1> QED BY <1>1, <1>2, <1>3
     DEF Next, RequestStep, PeriodStep, CreateFind, PostRead, PostPeriod, PostPublish,
         ReverseRead, CloseRead, CloseCount, CloseWrite, Abandon, CreatePeriod, Reopen

(* A reversal that is still to come was allowed by an entry without one. *)
LEMMA ReversalCountKept ==
    ASSUME ReversalInv, ReversalCount, Next
    PROVE  ReversalCount'
<1> USE DEF ReversalInv
<1> SUFFICES ASSUME NEW o \in Entries
             PROVE  /\ IsFiniteSet(ReversalsOf(o)')
                    /\ Cardinality(ReversalsOf(o)') + Cardinality(Reversing(o)')
                         <= Cardinality(Requests)
  BY DEF ReversalCount
<1>1. /\ Reversing(o) \in SUBSET Requests /\ Reversing(o)' \in SUBSET Requests
      /\ IsFiniteSet(ReversalsOf(o))
      /\ Cardinality(ReversalsOf(o)) + Cardinality(Reversing(o)) <= Cardinality(Requests)
  BY DEF Reversing, ReversalCount
<1> USE DEF Goto, Done, TypeOK
<1>2. CASE Reversing(o)' \subseteq Reversing(o) /\ ReversalsOf(o)' = ReversalsOf(o)
  BY <1>1, <1>2, NoMore, RequestsFinite
<1>3. ASSUME NEW r \in Requests, ReverseRead(r)
      PROVE  Reversing(o)' \subseteq Reversing(o) \/ ReversalsOf(o) = {}
  <2>1. PICK e \in Entries : entry[e].status = "posted" /\ req' = [req EXCEPT ![r] =
                   [pc |-> "reverse", entry |-> e, period |-> entry[e].period,
                    lines |-> entry[e].lines]]
    BY <1>3 DEF ReverseRead
  <2>2. CASE e = o BY <2>1, <2>2, LedgerAssumption DEF ReversalsOf, ReversingRows
  <2>3. CASE e # o BY <2>1, <2>3 DEF Reversing
  <2> QED BY <2>2, <2>3
<1>4. ASSUME ReversalsOf(o)' = ReversalsOf(o), ReversalsOf(o) = {}
      PROVE  /\ IsFiniteSet(ReversalsOf(o)')
             /\ Cardinality(ReversalsOf(o)') + Cardinality(Reversing(o)')
                  <= Cardinality(Requests)
  BY <1>1, <1>4, RequestsFinite, FS_EmptySet
<1>5. ASSUME NEW r \in Requests, ReverseCommit(r)
      PROVE  /\ IsFiniteSet(ReversalsOf(o)')
             /\ Cardinality(ReversalsOf(o)') + Cardinality(Reversing(o)')
                  <= Cardinality(Requests)
  <2>1. PICK original \in Entries : original = req[r].entry BY <1>5 DEF ReverseCommit, Locals, Idle
  <2>2. PICK e \in Entries, today \in Dates :
           /\ entry[e].status = "none"
           /\ entry' = [entry EXCEPT ![e] = Reversal(req[r], today),
                                     ![original] = MarkReversed(entry[original], e)]
    BY <1>5, <2>1 DEF ReverseCommit
  <2>3. InBooks(original) /\ e # original
    BY <1>5, <2>1, <2>2 DEF ReverseCommit, ReadsAreCurrent, InBooks
  <2>4. /\ entry'[e].reverses = original
        /\ entry'[original].reverses = entry[original].reverses
        /\ \A x \in Entries \ {e, original} : entry'[x] = entry[x]
    BY MarkedRow, <2>1, <2>2, <2>3 DEF Reversal
  <2>5. e \notin ReversalsOf(o) /\ ReversalsOf(o)' \subseteq ReversalsOf(o) \cup {e}
    BY <2>2, <2>4, LedgerAssumption DEF ReversalsOf, ReversingRows, InBooks
  <2>6. CASE original = o
    <3>1. r \in Reversing(o) /\ Reversing(o)' \subseteq Reversing(o) \ {r}
      BY <1>5, <2>1, <2>6 DEF ReverseCommit, Reversing, Idle
    <3>2. IsFiniteSet(Reversing(o)) BY <1>1, RequestsFinite
    <3>3. /\ Cardinality(Reversing(o)') <= Cardinality(Reversing(o)) - 1
          /\ Cardinality(Reversing(o)') \in Nat /\ Cardinality(Reversing(o)) \in Nat
      BY <3>1, <3>2, OneLess
    <3>4. /\ IsFiniteSet(ReversalsOf(o)') /\ Cardinality(ReversalsOf(o)) \in Nat
          /\ Cardinality(ReversalsOf(o)') \in Nat
          /\ Cardinality(ReversalsOf(o)') <= Cardinality(ReversalsOf(o)) + 1
      BY <1>1, <2>5, OneMore
    <3> QED BY <1>1, <3>3, <3>4, RequestsFinite
  <2>7. CASE original # o
    <3>1. ReversalsOf(o)' \subseteq ReversalsOf(o) BY <2>4, <2>5, <2>7 DEF ReversalsOf
    <3>2. Reversing(o)' \subseteq Reversing(o) BY <1>5 DEF ReverseCommit, Reversing, Idle
    <3>3. IsFiniteSet(Reversing(o)) BY <1>1, RequestsFinite
    <3>4. /\ IsFiniteSet(ReversalsOf(o)') /\ Cardinality(ReversalsOf(o)) \in Nat
          /\ Cardinality(ReversalsOf(o)') \in Nat
          /\ Cardinality(ReversalsOf(o)') <= Cardinality(ReversalsOf(o))
      BY <1>1, <3>1, NoMore
    <3>5. /\ Cardinality(Reversing(o)) \in Nat /\ Cardinality(Reversing(o)') \in Nat
          /\ Cardinality(Reversing(o)') <= Cardinality(Reversing(o))
      BY <3>2, <3>3, NoMore
    <3> QED BY <1>1, <3>4, <3>5, RequestsFinite
  <2> QED BY <2>6, <2>7
<1>6. CASE \A r \in Requests : ~ReverseCommit(r) /\ ~ReverseRead(r)
  <2>1. ReversalsOf(o)' = ReversalsOf(o) BY <1>6, ReversalsKept
  <2>2. Reversing(o)' \subseteq Reversing(o)
    BY <1>6 DEF Next, RequestStep, PeriodStep, CreateFind, CreateCommit, PostRead, PostPeriod,
       PostWrite, PostPublish, CloseRead, CloseCount, CloseWrite, Abandon, CreatePeriod, Reopen,
       Reversing, Idle
  <2> QED BY <1>2, <2>1, <2>2
<1>7. ASSUME NEW r \in Requests, ReverseRead(r) PROVE  ReversalsOf(o)' = ReversalsOf(o)
  BY <1>7 DEF ReverseRead, ReversalsOf
<1> QED BY <1>2, <1>3, <1>4, <1>5, <1>6, <1>7

(* Who posts an entry has seen it, and who announces it has it in the books. *)
LEMMA PostsStayCurrent ==
    ASSUME TypeOK, PostsAreCurrent, RowStep, Next
    PROVE  PostsAreCurrent'
<1> USE DEF Goto, Done, TypeOK
<1>1. \A e \in Entries : /\ entry[e].status # "none" => entry'[e].status # "none"
                         /\ InBooks(e) => InBooks(e)'
  <2>1. \A e \in Entries : InBooks(e) => InBooks(e)' BY BooksKept
  <2>2. ASSUME NEW e \in Entries, entry[e].status = "draft" PROVE entry'[e].status # "none"
    <3>1. CASE SameRows \/ DraftStep \/ PostStep
      BY <2>2, <3>1 DEF SameRows, DraftStep, PostStep, EntryRow
    <3>2. ASSUME NEW o \in Entries, NEW x \in Entries, ReversalStep(o, x)
          PROVE  entry'[e].status # "none"
      BY <2>2, <3>2 DEF ReversalStep, MarkReversed, InBooks
    <3> QED BY <3>1, <3>2 DEF RowStep
  <2> QED BY <2>1, <2>2 DEF InBooks, EntryRow, EntryStatus
<1> SUFFICES ASSUME NEW s \in Requests
             PROVE  /\ req'[s].pc \in {"post_period", "post_write"} =>
                         entry'[req'[s].entry].status # "none"
                    /\ req'[s].pc = "post_publish" =>
                         entry'[req'[s].entry].status \in {"posted", "reversed"}
  BY DEF PostsAreCurrent, InBooks
<1>2. CASE req'[s] = req[s]
  BY <1>1, <1>2 DEF Locals, Idle, PostsAreCurrent, InBooks
<1>3. CASE PostRead(s) BY <1>3 DEF PostRead
<1>4. CASE PostPeriod(s) BY <1>4 DEF PostPeriod, PostsAreCurrent
<1>5. CASE PostWrite(s)
  <2>1. PICK e \in Entries : e = req[s].entry BY <1>5 DEF PostWrite, Locals, Idle
  <2>2. entry[e].status \in {"draft", "posted", "reversed"}
    BY <1>5, <2>1 DEF PostWrite, PostsAreCurrent, EntryRow, EntryStatus
  <2>3. entry'[e].status \in {"posted", "reversed"}
    BY <1>5, <2>1, <2>2 DEF PostWrite, MarkPosted, EntryRow
  <2> QED BY <1>5, <2>1, <2>3 DEF PostWrite
<1>6. ASSUME req'[s] # req[s], ~PostRead(s), ~PostPeriod(s), ~PostWrite(s)
      PROVE  req'[s].pc \notin {"post_period", "post_write", "post_publish"}
  BY <1>6 DEF Next, RequestStep, PeriodStep, CreateFind, CreateCommit, PostRead, PostPeriod,
     PostWrite, PostPublish, ReverseRead, ReverseCommit, CloseRead, CloseCount, CloseWrite, Abandon,
     CreatePeriod, Reopen, Idle
<1> QED BY <1>2, <1>3, <1>4, <1>5, <1>6

(* An announcement that is still to come was allowed by a draft. *)
LEMMA AnnouncementCountKept ==
    ASSUME TypeOK, RowStep, PostsAreCurrent, AnnouncementCount, Next
    PROVE  AnnouncementCount'
<1> USE DEF Goto, Done, TypeOK
<1> SUFFICES ASSUME NEW e \in Entries
             PROVE  /\ announced'[e] + Cardinality(Posting(e)') <= Cardinality(Requests)
                    /\ announced'[e] > 0 => InBooks(e)'
  BY DEF AnnouncementCount
<1>1. /\ Posting(e) \in SUBSET Requests /\ Posting(e)' \in SUBSET Requests
      /\ announced[e] \in Nat
      /\ announced[e] + Cardinality(Posting(e)) <= Cardinality(Requests)
      /\ announced[e] > 0 => InBooks(e)'
  BY BooksKept DEF Posting, AnnouncementCount
<1>2. /\ IsFiniteSet(Posting(e)) /\ Cardinality(Posting(e)) \in Nat
      /\ Cardinality(Posting(e)') \in Nat /\ Cardinality(Requests) \in Nat
      /\ Cardinality(Posting(e)') <= Cardinality(Requests)
  BY <1>1, RequestsFinite
<1>3. ASSUME NEW r \in Requests, PostRead(r)
      PROVE  /\ announced'[e] = announced[e]
             /\ Posting(e)' \subseteq Posting(e) \/ announced[e] = 0
  <2>1. PICK x \in Entries : entry[x].status = "draft" /\ req' = [req EXCEPT ![r] =
                   [pc |-> "post_period", entry |-> x, period |-> entry[x].period]]
    BY <1>3 DEF PostRead
  <2>2. CASE x = e BY <1>1, <1>3, <2>1, <2>2 DEF PostRead, AnnouncementCount, InBooks
  <2>3. CASE x # e BY <1>3, <2>1, <2>3 DEF PostRead, Posting
  <2> QED BY <2>2, <2>3
<1>4. ASSUME NEW r \in Requests, PostPublish(r)
      PROVE  /\ announced'[e] + Cardinality(Posting(e)') <= Cardinality(Requests)
             /\ announced'[e] > 0 => InBooks(e)'
  <2>1. PICK x \in Entries : x = req[r].entry BY <1>4 DEF PostPublish, Locals, Idle
  <2>2. CASE x = e
    <3>1. announced'[e] = announced[e] + 1 BY <1>4, <2>1, <2>2 DEF PostPublish
    <3>2. r \in Posting(e) /\ Posting(e)' \subseteq Posting(e) \ {r}
      BY <1>4, <2>1, <2>2 DEF PostPublish, Posting, Idle
    <3>3. Cardinality(Posting(e)') <= Cardinality(Posting(e)) - 1 BY <1>2, <3>2, OneLess
    <3>4. InBooks(e)'
      <4>1. InBooks(e) BY <1>4, <2>1, <2>2 DEF PostPublish, PostsAreCurrent
      <4> QED BY <4>1, BooksKept
    <3> QED BY <1>1, <1>2, <3>1, <3>3, <3>4
  <2>3. CASE x # e
    BY <1>4, <2>1, <2>3, <1>2, NoMore, <1>1 DEF PostPublish, Posting, Idle
  <2> QED BY <2>2, <2>3
<1>5. ASSUME \A r \in Requests : ~PostRead(r) /\ ~PostPublish(r)
      PROVE  announced'[e] = announced[e] /\ Posting(e)' \subseteq Posting(e)
  BY <1>5 DEF Next, RequestStep, PeriodStep, CreateFind, CreateCommit, PostPeriod, PostWrite,
     ReverseRead, ReverseCommit, CloseRead, CloseCount, CloseWrite, Abandon, CreatePeriod, Reopen,
     Posting, Idle
<1>6. ASSUME announced'[e] = announced[e], Posting(e)' \subseteq Posting(e) \/ announced[e] = 0
      PROVE  /\ announced'[e] + Cardinality(Posting(e)') <= Cardinality(Requests)
             /\ announced'[e] > 0 => InBooks(e)'
  BY <1>2, NoMore, <1>1, <1>6
<1> QED BY <1>3, <1>4, <1>5, <1>6

(* However requests interleave and fail, an entry is reversed and announced no
   more often than there are requests, and only what is in the books is
   announced. *)
THEOREM RequestsAreBounded == Spec => []RequestsBounded
<1> DEFINE Counts == ReversalCount /\ AnnouncementCount /\ PostsAreCurrent
<1>1. Init => Counts
  <2> SUFFICES ASSUME Init PROVE Counts OBVIOUS
  <2>1. ASSUME NEW e \in Entries
        PROVE  ReversalsOf(e) = {} /\ Reversing(e) = {} /\ Posting(e) = {} /\ announced[e] = 0
    BY LedgerAssumption DEF Init, ReversalsOf, Reversing, Posting, NoEntry, Idle
  <2>2. ReversalCount /\ AnnouncementCount
    BY <2>1, FS_EmptySet, RequestsFinite DEF ReversalCount, AnnouncementCount
  <2>3. PostsAreCurrent BY DEF Init, PostsAreCurrent, Idle
  <2> QED BY <2>2, <2>3
<1>2. ReversalInv /\ Counts /\ [Next]_vars => Counts'
  <2> SUFFICES ASSUME ReversalInv, Counts, [Next]_vars PROVE Counts' OBVIOUS
  <2>1. CASE Next
    BY ActionsAreRowSteps, <2>1, ReversalCountKept, AnnouncementCountKept, PostsStayCurrent
       DEF ReversalInv
  <2>2. CASE UNCHANGED vars
    BY <2>2 DEF vars, ReversalCount, AnnouncementCount, PostsAreCurrent, ReversalsOf, Reversing,
       Posting, InBooks
  <2> QED BY <2>1, <2>2
<1>3. ReversalInv /\ Counts => RequestsBounded
  <2> SUFFICES ASSUME ReversalInv, Counts, NEW e \in Entries
               PROVE  /\ Cardinality(ReversalsOf(e)) <= Cardinality(Requests)
                      /\ announced[e] > 0 => entry[e].status \in {"posted", "reversed"}
                      /\ announced[e] <= Cardinality(Requests)
    BY DEF RequestsBounded, ReversalsBounded, AnnouncementsBounded
  <2>1. /\ IsFiniteSet(ReversalsOf(e))
        /\ Cardinality(ReversalsOf(e)) + Cardinality(Reversing(e)) <= Cardinality(Requests)
        /\ announced[e] + Cardinality(Posting(e)) <= Cardinality(Requests)
        /\ announced[e] > 0 => InBooks(e)
    BY DEF ReversalCount, AnnouncementCount
  <2>2. Reversing(e) \in SUBSET Requests /\ Posting(e) \in SUBSET Requests BY DEF Reversing, Posting
  <2>3. /\ Cardinality(ReversalsOf(e)) \in Nat /\ announced[e] \in Nat
        /\ Cardinality(Reversing(e)) \in Nat /\ Cardinality(Posting(e)) \in Nat
    BY <2>1, <2>2, RequestsFinite, FS_CardinalityType DEF ReversalInv, TypeOK
  <2>4. Cardinality(Requests) \in Nat BY RequestsFinite
  <2> QED BY <2>1, <2>3, <2>4 DEF InBooks
<1> QED BY <1>1, <1>2, <1>3, ReversalInvAlways, PTL DEF Spec

----
(* The books balance. *)

(* An amount in whole cents is stored as it is. *)
LEMMA WholeCentsStay ==
    ASSUME NEW k \in Int
    PROVE  ToCents(Scale * k) = Scale * k
<1>1. Scale \in Nat \ {0} BY LedgerAssumption
<1>2. \A n \in Nat : (2 * (Scale * n) + Scale) \div (2 * Scale) = n
  <2> SUFFICES ASSUME NEW n \in Nat PROVE (2 * (Scale * n) + Scale) \div (2 * Scale) = n OBVIOUS
  <2>1. 2 * (Scale * n) = (2 * Scale) * n BY <1>1
  <2>2. 2 * Scale \in Nat \ {0} /\ Scale \in Nat /\ Scale < 2 * Scale BY <1>1
  <2>3. ((2 * Scale) * n + Scale) \div (2 * Scale) = n BY <2>2, DivIs
  <2> QED BY <2>1, <2>3
<1>3. CASE k >= 0
  BY <1>1, <1>3, <1>2 DEF ToCents
<1>4. CASE k < 0
  BY <1>1, <1>4, <1>2 DEF ToCents
<1> QED BY <1>3, <1>4

(* The total of an entry is a sum over the chart of accounts. *)
LEMMA TotalIsSum ==
    ASSUME NEW l \in LinesOf
    PROVE  Total(l) = SetSum(l, Accounts) /\ Total(l) \in Int
<1>1. DOMAIN l = Accounts /\ \A a \in Accounts : l[a] \in Int BY DEF LinesOf
<1>2. Total(l) = SetSum(l, Accounts) BY <1>1, FoldIsSum DEF Total, FoldFunction
<1>3. SetSum(l, Accounts) \in Int BY <1>1, SumType, LedgerAssumption
<1> QED BY <1>2, <1>3

(* What reverses a balanced entry is balanced, *)
LEMMA OppositeBalances ==
    ASSUME NEW l \in LinesOf, IsBalanced(l)
    PROVE  IsBalanced(Opposite(l))
<1>1. Opposite(l) \in LinesOf BY LinesClosed
<1>2. \A a \in Accounts : l[a] \in Int /\ Opposite(l)[a] = -l[a] BY DEF LinesOf, Opposite
<1>3. SetSum(Opposite(l), Accounts) = -SetSum(l, Accounts) BY <1>2, SumOfOpposites, LedgerAssumption
<1>4. SetSum(l, Accounts) = 0 BY TotalIsSum DEF IsBalanced
<1> QED BY <1>1, <1>3, <1>4, TotalIsSum DEF IsBalanced

(* and so is one without lines. *)
LEMMA NoLinesBalance == NoLines \in LinesOf /\ IsBalanced(NoLines)
<1>1. NoLines \in LinesOf /\ \A a \in Accounts : NoLines[a] \in Int /\ NoLines[a] = -NoLines[a]
  <2>1. NoLines \in LinesOf /\ \A a \in Accounts : NoLines[a] = 0 BY DEF NoLines, LinesOf
  <2> QED BY <2>1
<1>2. SetSum(NoLines, Accounts) = -SetSum(NoLines, Accounts)
  BY <1>1, SumOfOpposites, LedgerAssumption
<1>3. SetSum(NoLines, Accounts) \in Int BY <1>1, TotalIsSum
<1>4. SetSum(NoLines, Accounts) = 0 BY <1>2, <1>3
<1> QED BY <1>1, <1>4, TotalIsSum DEF IsBalanced

(* Clients send no entry that balances only until it is rounded. *)
RoundsBalanced ==
    \A l \in Inputs : IsBalanced(l) /\ HasTwoLines(l) /\ Storable(l) => IsBalanced(Stored(l))

(* What is about to be created was validated. *)
Validated ==
    \A r \in Requests : req[r].pc = "create" =>
        req[r].lines \in Inputs /\ IsBalanced(req[r].lines) /\ HasTwoLines(req[r].lines)

(* Every step keeps it so. *)
LEMMA ValidatedKept ==
    ASSUME TypeOK, Validated, [Next]_vars
    PROVE  Validated'
<1> USE DEF TypeOK, Goto, Done, Validated
<1>1. ASSUME NEW r \in Requests, CreateFind(r) PROVE Validated'
  <2>1. PICK l \in Inputs, d \in Dates :
          /\ HasTwoLines(l) /\ IsBalanced(l)
          /\ \E p \in FoundPeriods(d) :
               Goto(r, [pc |-> "create", date |-> d, period |-> p, lines |-> l])
    BY <1>1 DEF CreateFind
  <2>2. PICK p \in FoundPeriods(d) :
             Goto(r, [pc |-> "create", date |-> d, period |-> p, lines |-> l])
    BY <2>1
  <2> QED BY <2>1, <2>2
<1>2. ASSUME NEW r \in Requests, RequestStep(r), ~CreateFind(r) PROVE Validated'
  <2>1. \A s \in Requests : req'[s].pc = "create" => req'[s] = req[s]
    BY <1>2 DEF RequestStep, CreateCommit, PostRead, PostPeriod, PostWrite, PostPublish,
       ReverseRead, ReverseCommit, CloseRead, CloseCount, CloseWrite, Abandon, Idle
  <2> QED BY <2>1
<1>3. CASE UNCHANGED req BY <1>3
<1> QED BY <1>1, <1>2, <1>3 DEF Next, PeriodStep, CreatePeriod, Reopen, vars

(* Every step keeps the entries balanced. *)
LEMMA BalanceKept ==
    ASSUME RoundsBalanced, TypeOK, ReadsAreCurrent, Validated, StoredBalanced, [Next]_vars
    PROVE  StoredBalanced'
<1> USE DEF TypeOK
<1>1. \A e \in Entries : entry[e].lines \in LinesOf BY DEF EntryRow
<1>2. CASE \A e \in Entries : entry'[e].lines = entry[e].lines BY <1>2 DEF StoredBalanced
<1>3. ASSUME NEW r \in Requests, CreateCommit(r) PROVE StoredBalanced'
  <2>1. PICK e \in Entries : entry' = [entry EXCEPT ![e] = Draft(req[r])] BY <1>3 DEF CreateCommit
  <2>2. Draft(req[r]).lines = Stored(req[r].lines) BY DEF Draft, NoEntry
  <2>3. IsBalanced(Stored(req[r].lines)) BY <1>3 DEF CreateCommit, Validated, RoundsBalanced
  <2> QED BY <2>1, <2>2, <2>3 DEF StoredBalanced
<1>4. ASSUME NEW r \in Requests, ReverseCommit(r) PROVE StoredBalanced'
  <2>1. PICK o \in Entries : o = req[r].entry /\ req[r].lines = entry[o].lines
    BY <1>4 DEF ReverseCommit, Locals, Idle, ReadsAreCurrent
  <2>2. PICK e \in Entries, today \in Dates : entry' = [entry EXCEPT ![e] = Reversal(req[r], today),
                                  ![o] = MarkReversed(entry[o], e)]
    BY <1>4, <2>1 DEF ReverseCommit
  <2>3. /\ Reversal(req[r], today).lines = Opposite(entry[o].lines)
        /\ MarkReversed(entry[o], e).lines = entry[o].lines
    BY <2>1, MarkedRow DEF Reversal
  <2>4. IsBalanced(Opposite(entry[o].lines)) BY <1>1, OppositeBalances DEF StoredBalanced
  <2> QED BY <2>2, <2>3, <2>4 DEF StoredBalanced
<1>5. ASSUME NEW r \in Requests, PostWrite(r) PROVE StoredBalanced'
  BY <1>5, <1>2 DEF PostWrite, MarkPosted, EntryRow
<1>6. ASSUME entry' = entry PROVE StoredBalanced' BY <1>6 DEF StoredBalanced
<1> QED BY <1>3, <1>4, <1>5, <1>6
       DEF Next, RequestStep, PeriodStep, CreatePeriod, Reopen, vars, CreateFind, PostRead, PostPeriod,
           PostPublish, ReverseRead, CloseRead, CloseCount, CloseWrite, Abandon

(* Double entry: unless rounding upsets what a client sends, every entry in the
   books balances, those that Reverse writes included. *)
THEOREM BooksBalance ==
    ASSUME RoundsBalanced
    PROVE  Spec => []BooksSound
<1>1. Init => Validated /\ StoredBalanced
  BY NoLinesBalance DEF Init, Validated, StoredBalanced, NoEntry, Idle
<1>2. TypeOK /\ ReversalInv /\ Validated /\ StoredBalanced /\ [Next]_vars
      => Validated' /\ StoredBalanced'
  BY ValidatedKept, BalanceKept DEF ReversalInv
<1>3. TypeOK /\ StoredBalanced => BooksSound BY DEF BooksSound
<1> QED BY <1>1, <1>2, <1>3, TypeCorrect, ReversalInvAlways, PTL DEF Spec

(* Whole cents are never upset. *)
THEOREM WholeCentsBalance ==
    ASSUME \A l \in Inputs, a \in Accounts : \E k \in Int : l[a] = Scale * k
    PROVE  RoundsBalanced
<1> SUFFICES ASSUME NEW l \in Inputs, IsBalanced(l) PROVE IsBalanced(Stored(l))
  BY DEF RoundsBalanced
<1>1. l \in LinesOf BY LedgerAssumption DEF LinesOf
<1>2. ASSUME NEW a \in Accounts PROVE ToCents(l[a]) = l[a] BY WholeCentsStay
<1>3. Stored(l) = l BY <1>1, <1>2 DEF Stored, LinesOf
<1> QED BY <1>3

----
(* The year-end close. *)

(* Amounts in whole cents. *)
Whole(x) == \E k \in Int : x = Scale * k
WholeLines == {l \in LinesOf : \A a \in Accounts : Whole(l[a])}

(* What is stored is in whole cents, and is stored again as it is. *)
LEMMA StoredIsWhole ==
    ASSUME NEW x \in Int
    PROVE  Whole(ToCents(x)) /\ (Whole(x) => ToCents(x) = x)
<1>1. Scale \in Nat \ {0} BY LedgerAssumption
<1>2. Whole(ToCents(x))
  <2> DEFINE m == (2 * (IF x < 0 THEN -x ELSE x) + Scale) \div (2 * Scale)
  <2>1. m \in Int BY <1>1
  <2>2. ToCents(x) = Scale * (IF x < 0 THEN -m ELSE m) BY DEF ToCents
  <2> HIDE DEF m
  <2>3. (IF x < 0 THEN -m ELSE m) \in Int BY <2>1
  <2> QED BY <2>2, <2>3 DEF Whole
<1>3. Whole(x) => ToCents(x) = x BY WholeCentsStay DEF Whole
<1> QED BY <1>2, <1>3

(* Whole cents add up to whole cents. *)
LEMMA WholeAdds ==
    ASSUME NEW x \in Int, Whole(x), NEW y \in Int, Whole(y)
    PROVE  Whole(x + y) /\ Whole(-x) /\ Whole(x - y)
<1>1. PICK j \in Int : x = Scale * j BY DEF Whole
<1>2. PICK k \in Int : y = Scale * k BY DEF Whole
<1>3. Scale \in Int BY LedgerAssumption
<1>4. x + y = Scale * (j + k) /\ -x = Scale * (-j) /\ x - y = Scale * (j - k) BY <1>1, <1>2, <1>3
<1>5. j + k \in Int /\ -j \in Int /\ j - k \in Int OBVIOUS
<1> QED BY <1>4, <1>5 DEF Whole

(* Nothing is in whole cents. *)
LEMMA ZeroIsWhole == Whole(0) /\ NoLines \in WholeLines
<1>1. 0 = Scale * 0 BY LedgerAssumption
<1>2. Whole(0) BY <1>1 DEF Whole
<1> QED BY <1>2, NoLinesBalance DEF WholeLines, NoLines

(* A sum of whole cents is one of whole cents. *)
LEMMA SumIsWhole ==
    ASSUME NEW S, IsFiniteSet(S), NEW l, \A s \in S : l[s] \in Int /\ Whole(l[s])
    PROVE  SetSum(l, S) \in Int /\ Whole(SetSum(l, S))
<1> DEFINE X == {T \in SUBSET S : SetSum(l, T) \in Int /\ Whole(SetSum(l, T))}
<1>1. ASSUME NEW T \in SUBSET S, \A x \in T : T \ {x} \in X PROVE  T \in X
  <2>1. SetSum(l, T) = IF T = {} THEN 0 ELSE l[FirstOf(T)] + SetSum(l, T \ {FirstOf(T)})
    BY FS_Subset, SumIsFirstAndRest
  <2>2. CASE T = {} BY <2>1, <2>2, ZeroIsWhole
  <2>3. CASE T # {}
    <3>1. FirstOf(T) \in T BY <2>3 DEF FirstOf
    <3>2. PICK rest \in Int : rest = SetSum(l, T \ {FirstOf(T)}) /\ Whole(rest) BY <1>1, <3>1
    <3>3. PICK first \in Int : first = l[FirstOf(T)] /\ Whole(first) BY <3>1
    <3>4. SetSum(l, T) = first + rest BY <2>1, <2>3, <3>2, <3>3
    <3>5. first + rest \in Int /\ Whole(first + rest)
      <4>1. Whole(first) /\ Whole(rest) BY <3>2, <3>3
      <4> HIDE DEF Whole
      <4> QED BY <4>1, WholeAdds
    <3> QED BY <3>4, <3>5
  <2> QED BY <2>2, <2>3
<1>2. \A T \in SUBSET S : T \in X
  <2> HIDE DEF X
  <2> QED BY <1>1, SubsetInduction
<1> QED BY <1>2

(* Lines in whole cents are stored as they are, and stay in whole cents. *)
LEMMA WholeLinesClosed ==
    ASSUME NEW l \in LinesOf
    PROVE  /\ Stored(l) \in WholeLines
           /\ l \in WholeLines => Stored(l) = l /\ Opposite(l) \in WholeLines
<1>1. \A a \in Accounts : l[a] \in Int BY DEF LinesOf
<1>2. Stored(l) \in WholeLines BY <1>1, LinesClosed, StoredIsWhole DEF WholeLines, Stored
<1>3. ASSUME l \in WholeLines PROVE Stored(l) = l
  BY <1>1, <1>3, StoredIsWhole DEF WholeLines, Stored, LinesOf
<1>4. ASSUME l \in WholeLines PROVE Opposite(l) \in WholeLines
  BY <1>1, <1>4, WholeAdds, LinesClosed DEF WholeLines, Opposite
<1> QED BY <1>2, <1>3, <1>4

(* What a step can do to the lines of the books: nothing, or one entry enters. *)
Unmoved(S) == \A x \in S : /\ entry'[x].lines = entry[x].lines
                           /\ entry'[x].reverses = entry[x].reverses
                           /\ entry'[x].status = "none" <=> entry[x].status = "none"

Enters(e, l, o) ==
    /\ entry[e].status = "none" /\ entry'[e].status # "none"
    /\ entry'[e].lines = l /\ entry'[e].reverses = o
    /\ Unmoved(Entries \ {e})

(* The commit of Create enters one draft, as it is stored. *)
LEMMA CreateEnters ==
    ASSUME TypeOK, NEW r \in Requests, CreateCommit(r)
    PROVE  \E e \in Entries :
             /\ Enters(e, Stored(req[r].lines), None)
             /\ entry'[e].status = "draft"
             /\ \A x \in Entries \ {e} : entry'[x] = entry[x]
<1>1. PICK e \in Entries : entry[e].status = "none" /\ entry' = [entry EXCEPT ![e] = Draft(req[r])]
  BY DEF CreateCommit
<1>2. /\ Draft(req[r]).lines = Stored(req[r].lines)
      /\ Draft(req[r]).reverses = None /\ Draft(req[r]).status = "draft"
  BY DEF Draft, NoEntry
<1> QED BY <1>1, <1>2 DEF Enters, Unmoved, TypeOK

(* A step of a request enters a draft, enters the opposite of a row, or leaves
   the lines as they are; *)
LEMMA RequestRows ==
    ASSUME TypeOK, ReadsAreCurrent, NEW r \in Requests, RequestStep(r)
    PROVE  \/ Unmoved(Entries)
           \/ CreateCommit(r) /\ \E e \in Entries : Enters(e, Stored(req[r].lines), None)
           \/ \E o \in Entries, e \in Entries : Enters(e, Opposite(entry[o].lines), o)
<1> USE DEF TypeOK
<1>1. CASE CreateCommit(r) BY <1>1, CreateEnters
<1>2. CASE ReverseCommit(r)
  <2>1. PICK o \in Entries : o = req[r].entry /\ InBooks(o) /\ req[r].lines = entry[o].lines
    BY <1>2 DEF ReverseCommit, Locals, Idle, ReadsAreCurrent
  <2>2. PICK e \in Entries, today \in Dates :
           /\ entry[e].status = "none"
           /\ entry' = [entry EXCEPT ![e] = Reversal(req[r], today),
                                     ![o] = MarkReversed(entry[o], e)]
    BY <1>2, <2>1 DEF ReverseCommit
  <2>3. /\ Reversal(req[r], today).lines = Opposite(entry[o].lines)
        /\ Reversal(req[r], today).reverses = o
        /\ Reversal(req[r], today).status = "posted"
    BY <2>1 DEF Reversal
  <2>4. /\ MarkReversed(entry[o], e).lines = entry[o].lines
        /\ MarkReversed(entry[o], e).reverses = entry[o].reverses
        /\ MarkReversed(entry[o], e).status # "none"
    BY <2>1 DEF MarkReversed, InBooks, EntryRow
  <2>5. e # o BY <2>1, <2>2 DEF InBooks
  <2>6. Enters(e, Opposite(entry[o].lines), o)
    BY <2>1, <2>2, <2>3, <2>4, <2>5 DEF Enters, Unmoved, InBooks
  <2> QED BY <2>6
<1>3. CASE PostWrite(r) BY <1>3 DEF PostWrite, MarkPosted, EntryRow, Unmoved
<1>4. CASE entry' = entry BY <1>4 DEF Unmoved
<1> QED BY <1>1, <1>2, <1>3, <1>4
       DEF RequestStep, CreateFind, PostRead, PostPeriod, PostPublish, ReverseRead, CloseRead,
           CloseCount, CloseWrite, Abandon

(* so does every step. *)
LEMMA RowsGrow ==
    ASSUME TypeOK, ReadsAreCurrent, [Next]_vars
    PROVE  \/ Unmoved(Entries)
           \/ \E r \in Requests, e \in Entries :
                CreateCommit(r) /\ Enters(e, Stored(req[r].lines), None)
           \/ \E o \in Entries, e \in Entries : Enters(e, Opposite(entry[o].lines), o)
<1>1. CASE entry' = entry BY <1>1 DEF Unmoved
<1> QED BY <1>1, RequestRows DEF Next, PeriodStep, CreatePeriod, Reopen, vars

----
(* The amounts of an account, and their sum. *)
Column(booked, a) == [e \in Entries |-> booked[e].lines[a]]

(* Which is what the report queries compute. *)
LEMMA SumIsOfColumn ==
    ASSUME NEW S, NEW a
    PROVE  SumAmounts(S, a) = SetSum(Column(entry, a), S)
BY FoldIsSum DEF SumAmounts, Column

(* Sums do not notice what happens to other rows. *)
LEMMA SumKept ==
    ASSUME NEW S \in SUBSET Entries, IsFiniteSet(S), Unmoved(S), NEW a
    PROVE  SetSum(Column(entry', a), S) = SetSum(Column(entry, a), S)
<1>1. \A s \in S : Column(entry', a)[s] = Column(entry, a)[s] BY DEF Unmoved, Column
<1> QED BY <1>1, SumAgrees

(* A row that enters adds its amount. *)
LEMMA SumGrows ==
    ASSUME TypeOK', NEW S \in SUBSET Entries, IsFiniteSet(S), NEW e \in Entries, e \notin S,
           NEW l, NEW o, Enters(e, l, o), NEW a \in Accounts
    PROVE  SetSum(Column(entry', a), S \cup {e}) = SetSum(Column(entry, a), S) + l[a]
<1>1. \A s \in S \cup {e} : Column(entry', a)[s] \in Int BY DEF TypeOK, EntryRow, LinesOf, Column
<1>2. IsFiniteSet(S \cup {e}) /\ (S \cup {e}) \ {e} = S BY FS_AddElement
<1>3. SetSum(Column(entry', a), S \cup {e}) = Column(entry', a)[e] + SetSum(Column(entry', a), S)
  BY <1>1, <1>2, SumTakes
<1>4. SetSum(Column(entry', a), S) \in Int BY <1>1, SumType
<1>5. SetSum(Column(entry', a), S) = SetSum(Column(entry, a), S)
  BY SumKept DEF Enters, Unmoved
<1>6. Column(entry', a)[e] = l[a] /\ l[a] \in Int BY <1>1 DEF Enters, Column
<1> QED BY <1>3, <1>4, <1>5, <1>6

(* The books that a close works on: finitely many rows, in whole cents. *)
BooksInv ==
    /\ TypeOK /\ ReadsAreCurrent
    /\ IsFiniteSet(Stocked)
    /\ \A e \in Entries : entry[e].lines \in WholeLines

(* What the books hold adds up to whole cents. *)
LEMMA SumsAreWhole ==
    ASSUME BooksInv, NEW S \in SUBSET Stocked, NEW a \in Accounts
    PROVE  /\ IsFiniteSet(S)
           /\ SetSum(Column(entry, a), S) \in Int
           /\ Whole(SetSum(Column(entry, a), S))
<1>1. IsFiniteSet(S) BY FS_Subset DEF BooksInv
<1>2. \A s \in S : Column(entry, a)[s] \in Int /\ Whole(Column(entry, a)[s])
  BY DEF BooksInv, Stocked, Column, WholeLines, LinesOf
<1> QED BY <1>1, <1>2, SumIsWhole

(* What enters is in whole cents, and rows only enter. *)
LEMMA WholeBooksKept ==
    ASSUME BooksInv, [Next]_vars \/ (TypeOK' /\ ReadsAreCurrent' /\ UNCHANGED entry)
    PROVE  BooksInv' /\ Stocked \subseteq Stocked'
<1>1. TypeOK' /\ ReadsAreCurrent' BY TypeKept, ReadsStayCurrent DEF BooksInv
<1>2. ASSUME Unmoved(Entries) PROVE BooksInv' /\ Stocked' = Stocked
  BY <1>2, <1>1 DEF Unmoved, Stocked, BooksInv
<1>3. ASSUME NEW e \in Entries, NEW l \in WholeLines, NEW o, Enters(e, l, o)
      PROVE  BooksInv' /\ Stocked' = Stocked \cup {e}
  <2>1. Stocked' = Stocked \cup {e} BY <1>3 DEF Enters, Unmoved, Stocked
  <2>2. IsFiniteSet(Stocked') BY <2>1, FS_AddElement DEF BooksInv
  <2>3. \A x \in Entries : entry'[x].lines \in WholeLines BY <1>3 DEF Enters, Unmoved, BooksInv
  <2> QED BY <1>1, <2>1, <2>2, <2>3 DEF BooksInv
<1>4. CASE UNCHANGED entry BY <1>2, <1>4 DEF Unmoved
<1>5. ASSUME [Next]_vars, NEW r \in Requests, CreateCommit(r) PROVE Stored(req[r].lines) \in WholeLines
  BY <1>5, WholeLinesClosed DEF CreateCommit, BooksInv, TypeOK, Locals, Idle
<1>6. ASSUME NEW o \in Entries PROVE Opposite(entry[o].lines) \in WholeLines
  BY WholeLinesClosed DEF BooksInv, WholeLines
<1>7. CASE [Next]_vars
  <2>1. \/ Unmoved(Entries)
        \/ \E r \in Requests, e \in Entries :
             CreateCommit(r) /\ Enters(e, Stored(req[r].lines), None)
        \/ \E o \in Entries, e \in Entries : Enters(e, Opposite(entry[o].lines), o)
    BY <1>7, RowsGrow DEF BooksInv
  <2>2. CASE \E r \in Requests, e \in Entries :
               CreateCommit(r) /\ Enters(e, Stored(req[r].lines), None)
    <3>1. PICK r \in Requests, e \in Entries :
               CreateCommit(r) /\ Enters(e, Stored(req[r].lines), None)
      BY <2>2
    <3>2. PICK l \in WholeLines : l = Stored(req[r].lines) BY <1>5, <1>7, <3>1
    <3> QED BY <1>3, <3>1, <3>2
  <2>3. CASE \E o \in Entries, e \in Entries : Enters(e, Opposite(entry[o].lines), o)
    <3>1. PICK o \in Entries, e \in Entries : Enters(e, Opposite(entry[o].lines), o) BY <2>3
    <3>2. PICK l \in WholeLines : l = Opposite(entry[o].lines) BY <1>6
    <3> QED BY <1>3, <3>1, <3>2
  <2> QED BY <1>2, <2>1, <2>2, <2>3
<1> QED BY <1>4, <1>7

----
(* The entries a close still has to make. *)
Closings == [lines : WholeLines, storable : BOOLEAN]

Amount(todo, i, a) == IF i \in DOMAIN todo THEN todo[i].lines[a] ELSE 0
Left(todo, a) == Amount(todo, 1, a) + Amount(todo, 2, a) + Amount(todo, 3, a)

(* A close with nothing left to make adds nothing. *)
LEMMA NothingLeft == \A a \in Accounts : Left(<<>>, a) = 0
BY DEF Left, Amount

(* The first of them is one of them. *)
LEMMA LeftAfter ==
    ASSUME NEW s \in Seq(Closings), Len(s) \in 0..3, s # <<>>, NEW a \in Accounts
    PROVE  /\ Head(s) \in Closings
           /\ Tail(s) \in Seq(Closings) /\ Len(Tail(s)) \in 0..3
           /\ Head(s).lines[a] \in Int /\ Left(Tail(s), a) \in Int
           /\ Left(s, a) = Head(s).lines[a] + Left(Tail(s), a)
<1>1. PICK n \in 0..3 : n = Len(s) OBVIOUS
<1>2. PICK t \in Seq(Closings) : t = Tail(s) BY HeadTailProperties
<1>3. Len(t) = n - 1 /\ n # 0 /\ \A i \in 1..n - 1 : t[i] = s[i + 1]
  BY <1>1, <1>2, HeadTailProperties, EmptySeq
<1>4. Head(s) \in Closings /\ Head(s) = s[1] BY HeadTailProperties DEF Head
<1>5. DOMAIN s = 1..n /\ DOMAIN t = 1..n - 1 BY <1>1, <1>3, LenProperties
<1>6. \A i \in 1..n : s[i] \in Closings BY <1>1, ElementOfSeq
<1>7. \A i \in 1..n : s[i].lines[a] \in Int BY <1>6 DEF Closings, WholeLines, LinesOf
<1>8. n - 1 \in 0..3 BY <1>1, <1>3
<1>9. Amount(t, 1, a) = Amount(s, 2, a) /\ Amount(t, 2, a) = Amount(s, 3, a) /\ Amount(t, 3, a) = 0
  BY <1>1, <1>3, <1>5 DEF Amount
<1>10. /\ Amount(s, 1, a) = Head(s).lines[a] /\ Head(s).lines[a] \in Int
       /\ Amount(s, 2, a) \in Int /\ Amount(s, 3, a) \in Int
  BY <1>1, <1>3, <1>4, <1>5, <1>7 DEF Amount
<1>11. /\ Left(s, a) = Amount(s, 1, a) + Amount(s, 2, a) + Amount(s, 3, a)
       /\ Left(t, a) = Amount(t, 1, a) + Amount(t, 2, a) + Amount(t, 3, a)
  BY DEF Left
<1>12. /\ Left(t, a) \in Int
       /\ Left(s, a) = Head(s).lines[a] + Left(t, a)
  BY <1>9, <1>10, <1>11
<1> QED BY <1>2, <1>3, <1>4, <1>8, <1>10, <1>12

(* An entry is put before others, or left out when it has no lines and would
   have added nothing. *)
LEMMA PutFirst ==
    ASSUME NEW c \in Closings, NEW t \in Seq(Closings), NEW n \in 0..2, Len(t) \in 0..n
    PROVE  /\ IfAny(c) \in Seq(Closings)
           /\ IfAny(c) \o t \in Seq(Closings)
           /\ Len(IfAny(c) \o t) \in 0..n + 1
           /\ \A a \in Accounts : Left(IfAny(c) \o t, a) = c.lines[a] + Left(t, a)
<1>1. PICK m \in 0..n : m = Len(t) OBVIOUS
<1>2. DOMAIN t = 1..m BY <1>1, LenProperties
<1>3. \A i \in 1..m : t[i] \in Closings BY <1>1, ElementOfSeq
<1>4. \A k \in Closings, a \in Accounts :
        k.lines[a] \in Int /\ (k.lines = NoLines => k.lines[a] = 0)
  BY DEF Closings, WholeLines, LinesOf, NoLines
<1>5. \A a \in Accounts : Amount(t, 1, a) \in Int /\ Amount(t, 2, a) \in Int /\ Amount(t, 3, a) = 0
  BY <1>2, <1>3, <1>4 DEF Amount
<1>6. CASE c.lines = NoLines
  BY <1>6, EmptySeq, ConcatEmptySeq, <1>4, <1>5, <1>1 DEF IfAny, Left
<1>7. CASE c.lines # NoLines
  <2>1. IfAny(c) = <<c>> /\ <<c>> \in Seq(Closings) /\ Len(<<c>>) = 1 /\ <<c>>[1] = c
    BY <1>7 DEF IfAny
  <2>2. PICK s : s = <<c>> \o t OBVIOUS
  <2>3. /\ s \in Seq(Closings) /\ Len(s) = 1 + m
        /\ \A i \in 1..1 + m : s[i] = IF i <= 1 THEN c ELSE t[i - 1]
    BY <1>1, <2>1, <2>2, ConcatProperties
  <2>4. DOMAIN s = 1..1 + m BY <2>3, LenProperties
  <2>5. ASSUME NEW a \in Accounts PROVE Left(s, a) = c.lines[a] + Left(t, a)
    <3>1. /\ Amount(s, 1, a) = c.lines[a]
          /\ Amount(s, 2, a) = Amount(t, 1, a) /\ Amount(s, 3, a) = Amount(t, 2, a)
      BY <1>2, <2>3, <2>4 DEF Amount
    <3>2. /\ c.lines[a] \in Int /\ Amount(t, 1, a) \in Int /\ Amount(t, 2, a) \in Int
          /\ Amount(t, 3, a) = 0
      BY <1>4, <1>5
    <3> QED BY <3>1, <3>2 DEF Left
  <2>6. Len(s) \in 0..n + 1 BY <2>3
  <2> QED BY <2>1, <2>2, <2>3, <2>5, <2>6
<1> QED BY <1>6, <1>7

(* A plan adds what its entries add. *)
LEMMA PlanIs ==
    ASSUME NEW x \in Closings, NEW y \in Closings, NEW z \in Closings
    PROVE  /\ IfAny(x) \o IfAny(y) \o IfAny(z) \in Seq(Closings)
           /\ Len(IfAny(x) \o IfAny(y) \o IfAny(z)) \in 0..3
           /\ \A a \in Accounts :
                Left(IfAny(x) \o IfAny(y) \o IfAny(z), a) = x.lines[a] + y.lines[a] + z.lines[a]
<1>1. IfAny(x) \in Seq(Closings) /\ IfAny(y) \in Seq(Closings) /\ IfAny(z) \in Seq(Closings)
  <2>1. <<>> \in Seq(Closings) /\ Len(<<>>) \in 0..0 /\ 0 \in 0..2 BY EmptySeq
  <2> QED BY <2>1, PutFirst
<1>2. /\ IfAny(z) \o <<>> = IfAny(z)
      /\ IfAny(x) \o IfAny(y) \o IfAny(z) = IfAny(x) \o (IfAny(y) \o IfAny(z))
  BY <1>1, ConcatEmptySeq, ConcatAssociative
<1>3. /\ Len(IfAny(z)) \in 0..1
      /\ \A a \in Accounts : Left(IfAny(z), a) = z.lines[a] + 0
  <2>1. <<>> \in Seq(Closings) /\ Len(<<>>) \in 0..0 /\ 0 \in 0..2 BY EmptySeq
  <2>2. /\ Len(IfAny(z) \o <<>>) \in 0..0 + 1
        /\ \A a \in Accounts : Left(IfAny(z) \o <<>>, a) = z.lines[a] + Left(<<>>, a)
    BY <2>1, PutFirst
  <2> QED BY <1>2, <2>2, NothingLeft
<1>4. PICK t \in Seq(Closings) : t = IfAny(y) \o IfAny(z) BY <1>1, ConcatProperties
<1>5. /\ Len(t) \in 0..2
      /\ \A a \in Accounts : Left(t, a) = y.lines[a] + Left(IfAny(z), a)
  BY <1>1, <1>3, PutFirst, <1>4
<1>6. /\ IfAny(x) \o t \in Seq(Closings) /\ Len(IfAny(x) \o t) \in 0..2 + 1
      /\ \A a \in Accounts : Left(IfAny(x) \o t, a) = x.lines[a] + Left(t, a)
  BY <1>5, PutFirst
<1>7. ASSUME NEW a \in Accounts PROVE  Left(IfAny(x) \o t, a) = x.lines[a] + y.lines[a] + z.lines[a]
  BY <1>3, <1>5, <1>6 DEF Closings, WholeLines, LinesOf
<1> QED BY <1>2, <1>4, <1>6, <1>7

----
(* What a close plans *)

(* The balance of an account, on its normal side. *)
LEMMA BalanceIs ==
    ASSUME BooksInv, NEW a \in Accounts
    PROVE  /\ SetSum(Column(entry, a), Stocked) \in Int
           /\ Balance(a) = IF a \in DebitNormal THEN SetSum(Column(entry, a), Stocked)
                                                ELSE -SetSum(Column(entry, a), Stocked)
           /\ Balance(a) \in Int /\ Whole(Balance(a))
<1>1. SetSum(Column(entry, a), Stocked) \in Int /\ Whole(SetSum(Column(entry, a), Stocked))
  BY SumsAreWhole
<1>2. Balance(a) = IF a \in DebitNormal THEN SetSum(Column(entry, a), Stocked)
                                        ELSE -SetSum(Column(entry, a), Stocked)
  BY SumIsOfColumn DEF Balance, AccountBalance
<1>3. Whole(-SetSum(Column(entry, a), Stocked))
  <2> HIDE DEF Whole
  <2> QED BY <1>1, WholeAdds
<1> QED BY <1>1, <1>2, <1>3

(* The totals of the sections, and the net income. *)
LEMMA SectionsAreWhole ==
    ASSUME BooksInv
    PROVE  /\ SumOver(Revenue) \in Int /\ Whole(SumOver(Revenue)) /\ Whole(-SumOver(Revenue))
           /\ SumOver(Expenses) \in Int /\ Whole(SumOver(Expenses))
           /\ NetIncome = SumOver(Revenue) - SumOver(Expenses)
           /\ Whole(NetIncome) /\ Whole(-NetIncome)
<1>1. ASSUME NEW S \in SUBSET Accounts PROVE SumOver(S) \in Int /\ Whole(SumOver(S))
  <2> DEFINE b == [a \in Accounts |-> Balance(a)]
  <2>1. IsFiniteSet(S) BY FS_Subset, LedgerAssumption
  <2>2. \A s \in S : b[s] \in Int /\ Whole(b[s]) BY BalanceIs
  <2>3. SumOver(S) = SetSum(b, S) BY FoldIsSum DEF SumOver
  <2> HIDE DEF b
  <2> QED BY <2>1, <2>2, <2>3, SumIsWhole
<1>2. Revenue \in SUBSET Accounts /\ Expenses \in SUBSET Accounts BY YearEndAssumption
<1>3. PICK x \in Int : x = SumOver(Revenue) /\ Whole(x) BY <1>1, <1>2
<1>4. PICK y \in Int : y = SumOver(Expenses) /\ Whole(y) BY <1>1, <1>2
<1>5. NetIncome = x - y /\ x - y \in Int BY <1>3, <1>4 DEF NetIncome
<1>6. Whole(-x) /\ Whole(x - y) BY <1>3, <1>4, WholeAdds
<1>7. Whole(-(x - y)) BY <1>3, <1>5, <1>6, WholeAdds
<1> QED BY <1>3, <1>4, <1>5, <1>6, <1>7

(* The closing entries take every account on the normal side of its section
   back to zero, and lead through Income Summary. *)
LEMMA ClosingsAre ==
    ASSUME BooksInv
    PROVE  /\ RevenueClosed \in Closings /\ ExpensesClosed \in Closings /\ SummaryClosed \in Closings
           /\ \A a \in NormalSided :
                RevenueClosed.lines[a] + ExpensesClosed.lines[a] + SummaryClosed.lines[a]
                  = -SetSum(Column(entry, a), Stocked)
           /\ RevenueClosed.lines[Summary] + ExpensesClosed.lines[Summary]
                + SummaryClosed.lines[Summary] = 0
<1> USE YearEndAssumption
<1>1. \A a \in Accounts : Balance(a) \in Int /\ Whole(Balance(a)) /\ Whole(-Balance(a))
  <2>1. ASSUME NEW a \in Accounts, NEW x \in Int, Whole(x) PROVE Whole(-x) BY <2>1, WholeAdds
  <2> QED BY <2>1, BalanceIs
<1>2. PICK rev \in Int : rev = SumOver(Revenue) /\ Whole(rev) /\ Whole(-rev) BY SectionsAreWhole
<1>3. PICK exp \in Int : exp = SumOver(Expenses) /\ Whole(exp) BY SectionsAreWhole
<1>4. PICK net \in Int : net = NetIncome /\ net = rev - exp /\ Whole(net) /\ Whole(-net)
  BY <1>2, <1>3, SectionsAreWhole
<1> DEFINE R == [a \in Accounts |-> IF a \in Revenue THEN Balance(a)
                                    ELSE IF a = Summary THEN -rev ELSE 0]
           E == [a \in Accounts |-> IF a \in Expenses THEN -Balance(a)
                                    ELSE IF a = Summary THEN exp ELSE 0]
           S == [a \in Accounts |-> IF a = Summary THEN net
                                    ELSE IF a = Retained THEN -net ELSE 0]
<1>5. RevenueClosed.lines = R /\ ExpensesClosed.lines = E /\ SummaryClosed.lines = S
  BY <1>2, <1>3, <1>4 DEF RevenueClosed, ExpensesClosed, SummaryClosed, ClosingEntry
<1>6. R \in WholeLines /\ E \in WholeLines /\ S \in WholeLines
  <2> HIDE DEF Whole
  <2>1. R \in LinesOf /\ E \in LinesOf /\ S \in LinesOf BY <1>1 DEF LinesOf
  <2>2. \A a \in Accounts : Whole(R[a]) /\ Whole(E[a]) /\ Whole(S[a])
    BY <1>1, <1>2, <1>3, <1>4, ZeroIsWhole
  <2> QED BY <2>1, <2>2 DEF WholeLines
<1>7. RevenueClosed \in Closings /\ ExpensesClosed \in Closings /\ SummaryClosed \in Closings
  BY <1>5, <1>6 DEF Closings, RevenueClosed, ExpensesClosed, SummaryClosed, ClosingEntry
<1>8. ASSUME NEW a \in NormalSided PROVE  R[a] + E[a] + S[a] = -SetSum(Column(entry, a), Stocked)
  <2>1. a \in Accounts /\ a # Summary /\ a # Retained BY DEF NormalSided
  <2>2. PICK n \in Int : /\ n = SetSum(Column(entry, a), Stocked)
                         /\ Balance(a) = IF a \in DebitNormal THEN n ELSE -n
    BY <2>1, BalanceIs
  <2>3. CASE a \in Revenue \ DebitNormal
    BY <2>1, <2>2, <2>3
  <2>4. CASE a \in Expenses \cap DebitNormal
    BY <2>1, <2>2, <2>4
  <2> QED BY <2>3, <2>4 DEF NormalSided
<1>9. R[Summary] + E[Summary] + S[Summary] = 0
  BY <1>4
<1> QED BY <1>5, <1>7, <1>8, <1>9

(* So does the plan, which leaves out those without lines. *)
LEMMA PlanOfClose ==
    ASSUME BooksInv
    PROVE  /\ ClosingEntries \in Seq(Closings) /\ Len(ClosingEntries) \in 0..3
           /\ \A a \in NormalSided : SetSum(Column(entry, a), Stocked) + Left(ClosingEntries, a) = 0
           /\ Left(ClosingEntries, Summary) = 0
<1>1. PICK x \in Closings : x = RevenueClosed BY ClosingsAre
<1>2. PICK y \in Closings : y = ExpensesClosed BY ClosingsAre
<1>3. PICK z \in Closings : z = SummaryClosed BY ClosingsAre
<1>4. PICK plan : plan = ClosingEntries OBVIOUS
<1>5. /\ plan \in Seq(Closings) /\ Len(plan) \in 0..3
      /\ \A a \in Accounts : Left(plan, a) = x.lines[a] + y.lines[a] + z.lines[a]
  BY <1>1, <1>2, <1>3, <1>4, PlanIs DEF ClosingEntries
<1>6. NormalSided \subseteq Accounts /\ Summary \in Accounts BY YearEndAssumption DEF NormalSided
<1>7. Left(plan, Summary) = 0 BY <1>1, <1>2, <1>3, <1>5, <1>6, ClosingsAre
<1>8. ASSUME NEW a \in NormalSided PROVE SetSum(Column(entry, a), Stocked) + Left(plan, a) = 0
  BY <1>6, BalanceIs, <1>1, <1>2, <1>3, <1>5, ClosingsAre
<1> QED BY <1>4, <1>5, <1>7, <1>8

----
(* The invariant of a close *)

(* Its state, and what the call it waits for was given. *)
CloserOK ==
    /\ closer \in [pc : {"idle", "call", "creating", "post", "posting", "done"},
                   todo : Seq(Closings), entry : Entries \cup {None}, slot : SUBSET Requests]
    /\ Len(closer.todo) \in 0..3
    /\ closer.pc \in {"idle", "done"} => closer.todo = <<>>
    /\ closer.pc = "post" => closer.entry \in Entries
    /\ InCall => \E r \in Requests : closer.slot = {r}
    /\ ~InCall => closer.slot = {}

CallIsNext ==
    closer.pc = "creating" =>
        /\ closer.todo # <<>>
        /\ \A r \in Requests : Serves(r) =>
              req[r].pc = "create" /\ req[r].lines = Head(closer.todo).lines

(* What it read and what it made are different rows of the books. *)
TraceOK ==
    /\ trace \in [closes : 0..MaxCloses, seen : SUBSET Entries,
                  made : SUBSET Entries, broken : BOOLEAN]
    /\ trace.seen \cup trace.made \subseteq Stocked
    /\ trace.seen \cap trace.made = {}

(* With what is left to make, the entries it read and made cancel out. *)
ReadSums ==
    closer.pc # "idle" =>
        \A a \in NormalSided :
            SetSum(Column(entry, a), trace.seen \cup trace.made) + Left(closer.todo, a) = 0

CloseInv == BooksInv /\ CloserOK /\ CallIsNext /\ TraceOK /\ ReadSums

(* Steps of the close are steps of the ledger, but for the call of Create, *)
LEMMA StepsOfClose ==
    ASSUME CloseInv, [CloseNext]_allVars
    PROVE  [Next]_vars \/ \E r \in Requests : CallCreate(r)
<1> USE DEF CloseInv, BooksInv
<1>1. ASSUME NEW r \in Requests, CallCreate(r) PROVE \E q \in Requests : CallCreate(q) BY <1>1
<1>2. ASSUME NEW r \in Requests, CreateReturns(r) PROVE Next
  BY <1>2 DEF CreateReturns, Next, RequestStep
<1>3. ASSUME NEW r \in Requests, CallPost(r) PROVE Next
  BY <1>3 DEF CallPost, PostRead, CloserOK, Next, RequestStep
<1>4. ASSUME NEW r \in Requests, PostGoesOn(r) PROVE Next BY <1>4 DEF PostGoesOn, Next, RequestStep
<1>5. ASSUME NEW r \in Requests, PostReturns(r) PROVE Next
  BY <1>5 DEF PostReturns, Next, RequestStep
<1>6. ASSUME NEW r \in Requests, CloseFails(r) PROVE [Next]_vars
  BY <1>6 DEF CloseFails, Next, RequestStep
<1>7. CASE OthersStep BY <1>7 DEF OthersStep, Next
<1>8. CASE PeriodsStep BY <1>8 DEF PeriodsStep, Next
<1>9. CASE UNCHANGED vars BY <1>9
<1> QED BY <1>1, <1>2, <1>3, <1>4, <1>5, <1>6, <1>7, <1>8, <1>9
       DEF CloseNext, CloseStep, CloseBegin, CloseEnd, allVars

(* which only begins what a Create begins. *)
LEMMA CloseStepIs ==
    ASSUME CloseInv, [CloseNext]_allVars
    PROVE  [Next]_vars \/ (TypeOK' /\ ReadsAreCurrent' /\ UNCHANGED entry)
<1> USE DEF CloseInv, BooksInv
<1>1. ASSUME NEW r \in Requests, CallCreate(r) PROVE  TypeOK' /\ ReadsAreCurrent' /\ UNCHANGED entry
  <2>1. PICK l \in LinesOf : l = Head(closer.todo).lines
    <3>1. Head(closer.todo) \in Closings BY <1>1, HeadTailProperties DEF CallCreate, CloserOK
    <3> QED BY <3>1 DEF Closings, WholeLines
  <2>2. PICK p \in FoundPeriods(YearEnd) :
           Goto(r, [pc |-> "create", date |-> YearEnd, period |-> p, lines |-> l])
    BY <1>1, <2>1 DEF CallCreate
  <2>3. p \in Periods \cup {None} /\ YearEnd \in Dates
    BY YearEndAssumption DEF FoundPeriods, OpenCovering
  <2>4. [pc |-> "create", date |-> YearEnd, period |-> p, lines |-> l] \in Locals BY <2>3 DEF Locals
  <2>5. TypeOK' BY <1>1, <2>2, <2>4 DEF CallCreate, TypeOK, Goto
  <2>6. ReadsAreCurrent' BY <1>1, <2>2 DEF CallCreate, TypeOK, Goto, ReadsAreCurrent, InBooks
  <2> QED BY <1>1, <2>5, <2>6 DEF CallCreate
<1> QED BY <1>1, StepsOfClose

(* What the books hold stays as it is. *)
LEMMA StockedUnmoved ==
    ASSUME CloseInv, [CloseNext]_allVars
    PROVE  Unmoved(Stocked)
<1> USE DEF CloseInv, BooksInv
<1>1. CASE UNCHANGED entry BY <1>1 DEF Unmoved
<1>2. CASE [Next]_vars
  <2>2. ASSUME NEW e \in Entries, NEW l, NEW o, Enters(e, l, o) PROVE Unmoved(Stocked)
    BY <2>2 DEF Enters, Unmoved, Stocked
  <2> QED BY <1>2, <2>2, RowsGrow DEF Unmoved, Stocked
<1> QED BY <1>1, <1>2, CloseStepIs

(* The parts of the invariant, one by one, are kept by every step. *)
LEMMA CloserKept ==
    ASSUME CloseInv, [CloseNext]_allVars
    PROVE  CloserOK'
<1> USE DEF CloseInv, CloserOK, InCall
<1>1. CASE CloseBegin
  <2>1. ClosingEntries \in Seq(Closings) /\ Len(ClosingEntries) \in 0..3 BY PlanOfClose
  <2> QED BY <1>1, <2>1 DEF CloseBegin, CloserIdle
<1>2. CASE CloseEnd BY <1>2 DEF CloseEnd
<1>3. ASSUME NEW r \in Requests, CallCreate(r) PROVE CloserOK' BY <1>3 DEF CallCreate
<1>4. ASSUME NEW r \in Requests, CreateReturns(r) PROVE CloserOK'
  <2>1. Tail(closer.todo) \in Seq(Closings) /\ Len(Tail(closer.todo)) \in 0..3
    BY <1>4, YearEndAssumption, LeftAfter DEF CreateReturns, CallIsNext
  <2> QED BY <1>4, <2>1 DEF CreateReturns
<1>5. ASSUME NEW r \in Requests, CallPost(r) PROVE CloserOK' BY <1>5 DEF CallPost
<1>6. ASSUME NEW r \in Requests, PostReturns(r) PROVE CloserOK' BY <1>6 DEF PostReturns
<1>7. ASSUME NEW r \in Requests, CloseFails(r) PROVE CloserOK'
  BY <1>7, EmptySeq DEF CloseFails, CloserIdle
<1>8. CASE UNCHANGED closer BY <1>8
<1> QED BY <1>1, <1>2, <1>3, <1>4, <1>5, <1>6, <1>7, <1>8
       DEF CloseNext, CloseStep, PostGoesOn, OthersStep, PeriodsStep, closeVars, allVars

(* The call that the close waits for is its next entry. *)
LEMMA CallKept ==
    ASSUME CloseInv, [CloseNext]_allVars
    PROVE  CallIsNext'
<1> USE DEF CloseInv, CallIsNext, Serves, BooksInv, TypeOK, Goto, Done
<1>1. ASSUME NEW r \in Requests, CallCreate(r) PROVE CallIsNext' BY <1>1 DEF CallCreate, CloserOK
<1>2. CASE OthersStep
  <2>1. PICK r \in Requests : ~Serves(r) /\ RequestStep(r) BY <1>2 DEF OthersStep
  <2>2. \A s \in Requests : s # r => req'[s] = req[s]
    BY <2>1 DEF RequestStep, CreateFind, CreateCommit, PostRead, PostPeriod, PostWrite, PostPublish,
       ReverseRead, ReverseCommit, CloseRead, CloseCount, CloseWrite, Abandon
  <2> QED BY <1>2, <2>1, <2>2 DEF OthersStep, closeVars
<1>3. CASE PeriodsStep BY <1>3 DEF PeriodsStep, PeriodStep, CreatePeriod, Reopen, closeVars
<1>4. CASE closer'.pc # "creating" BY <1>4
<1>5. CASE UNCHANGED allVars BY <1>5 DEF allVars, vars, closeVars
<1>6. CASE CloseBegin \/ CloseEnd BY <1>6 DEF CloseBegin, CloseEnd, CloserIdle, CloserOK
<1>7. ASSUME NEW r \in Requests, CreateReturns(r) PROVE closer'.pc # "creating"
  BY <1>7 DEF CreateReturns
<1>8. ASSUME NEW r \in Requests, CallPost(r) \/ PostGoesOn(r) \/ PostReturns(r)
      PROVE  closer'.pc # "creating"
  BY <1>8 DEF CallPost, PostGoesOn, PostReturns, CloserOK, closeVars
<1>9. ASSUME NEW r \in Requests, CloseFails(r) PROVE closer'.pc # "creating"
  BY <1>9 DEF CloseFails, CloserIdle
<1> QED BY <1>1, <1>2, <1>3, <1>4, <1>5, <1>6, <1>7, <1>8, <1>9 DEF CloseNext, CloseStep

(* A step of the close, by what it does to what was read and made: it begins,
   an entry of its plan enters the books, or nothing happens to them. *)
Begins == CloseBegin /\ UNCHANGED vars
Makes(e) ==
    /\ closer.pc = "creating"
    /\ e \notin Stocked
    /\ closer.todo # <<>>
    /\ Enters(e, Head(closer.todo).lines, None)
    /\ closer' = [pc |-> "post", todo |-> Tail(closer.todo), entry |-> e, slot |-> {}]
    /\ trace' = [trace EXCEPT !.made = @ \cup {e}]
Keeps ==
    \/ /\ closer'.pc # "idle" => closer.pc # "idle"
       /\ closer'.todo = closer.todo
       /\ trace' = trace
    \/ /\ closer'.pc = "idle"
       /\ trace' = [trace EXCEPT !.broken = TRUE]

(* When Create returns, the next entry of the plan is in the books. *)
LEMMA CreateMakes ==
    ASSUME CloseInv, NEW r \in Requests, CreateReturns(r)
    PROVE  \E e \in Entries : Makes(e)
<1> USE DEF CloseInv, BooksInv
<1>1. closer.pc = "creating" /\ CreateCommit(r) /\ closer.todo # <<>>
      /\ req[r].lines = Head(closer.todo).lines
  BY DEF CreateReturns, CallIsNext
<1>2. PICK e \in Entries :
        /\ Enters(e, Stored(req[r].lines), None)
        /\ entry'[e].status = "draft"
        /\ \A x \in Entries \ {e} : entry'[x] = entry[x]
  BY <1>1, CreateEnters
<1>3. PICK x \in Entries :
        /\ entry[x].status # entry'[x].status
        /\ closer' = [pc |-> "post", todo |-> Tail(closer.todo), entry |-> x, slot |-> {}]
        /\ trace' = [trace EXCEPT !.made = @ \cup {x}]
  BY DEF CreateReturns
<1>4. x = e BY <1>2, <1>3
<1>5. Stored(req[r].lines) = Head(closer.todo).lines
  <2>1. Head(closer.todo) \in Closings BY <1>1, HeadTailProperties DEF CloserOK
  <2>2. Head(closer.todo).lines \in WholeLines /\ Head(closer.todo).lines \in LinesOf
    BY <2>1 DEF Closings, WholeLines
  <2> QED BY <1>1, <2>2, WholeLinesClosed
<1>6. e \notin Stocked BY <1>2 DEF Enters, Stocked
<1> QED BY <1>1, <1>2, <1>3, <1>4, <1>5, <1>6 DEF Makes

(* Every step is of one of the three kinds. *)
LEMMA CloseKinds ==
    ASSUME CloseInv, [CloseNext]_allVars
    PROVE  Begins \/ Keeps \/ \E e \in Entries : Makes(e)
<1> USE DEF CloseInv, Keeps, TraceOK
<1>1. CASE CloseBegin BY <1>1 DEF CloseBegin, Begins
<1>2. CASE CloseEnd BY <1>2 DEF CloseEnd, CloserOK
<1>3. ASSUME NEW r \in Requests, CallCreate(r) PROVE Keeps BY <1>3 DEF CallCreate, CloserOK
<1>4. ASSUME NEW r \in Requests, CreateReturns(r) PROVE \E e \in Entries : Makes(e)
  BY <1>4, CreateMakes
<1>5. ASSUME NEW r \in Requests, CallPost(r) PROVE Keeps BY <1>5 DEF CallPost, CloserOK
<1>6. ASSUME NEW r \in Requests, PostReturns(r) PROVE Keeps BY <1>6 DEF PostReturns, CloserOK
<1>7. ASSUME NEW r \in Requests, CloseFails(r) PROVE Keeps BY <1>7 DEF CloseFails, CloserIdle
<1>8. CASE UNCHANGED closeVars BY <1>8 DEF closeVars
<1> QED BY <1>1, <1>2, <1>3, <1>4, <1>5, <1>6, <1>7, <1>8
       DEF CloseNext, CloseStep, PostGoesOn, OthersStep, PeriodsStep, allVars

(* What was read and made stays apart, and in the books. *)
LEMMA TraceKept ==
    ASSUME CloseInv, [CloseNext]_allVars, Stocked \subseteq Stocked'
    PROVE  TraceOK'
<1> USE DEF CloseInv, TraceOK
<1>1. CASE Begins
  <2>1. /\ trace' = [trace EXCEPT !.closes = @ + 1, !.seen = Stocked, !.made = {}]
        /\ trace.closes < MaxCloses
    BY <1>1 DEF Begins, CloseBegin
  <2>2. Stocked \subseteq Entries BY DEF Stocked
  <2>3. trace.closes + 1 \in 0..MaxCloses BY <2>1, YearEndAssumption
  <2> QED BY <2>1, <2>2, <2>3
<1>2. CASE Keeps BY <1>2 DEF Keeps
<1>3. ASSUME NEW e \in Entries, Makes(e) PROVE TraceOK'
  BY <1>3 DEF Makes, Enters, Stocked
<1> QED BY <1>1, <1>2, <1>3, CloseKinds

(* What was read, made and is left to make still cancels out. *)
LEMMA ReadKept ==
    ASSUME CloseInv, BooksInv', Unmoved(Stocked), Begins \/ Keeps \/ \E e \in Entries : Makes(e)
    PROVE  ReadSums'
<1> USE DEF CloseInv
<1>1. ASSUME NEW a \in NormalSided, closer'.pc # "idle"
      PROVE  SetSum(Column(entry', a), trace'.seen \cup trace'.made) + Left(closer'.todo, a) = 0
  <2>1. a \in Accounts BY YearEndAssumption DEF NormalSided
  <2>2. PICK S \in SUBSET Stocked : S = trace.seen \cup trace.made BY DEF TraceOK
  <2>3. IsFiniteSet(S) /\ SetSum(Column(entry, a), S) \in Int /\ S \in SUBSET Entries
    BY <2>1, SumsAreWhole DEF Stocked
  <2>4. CASE Begins
    BY <2>4, PlanOfClose DEF Begins, CloseBegin, CloserIdle, TraceOK, vars
  <2>5. CASE Keeps
    <3>1. /\ trace'.seen \cup trace'.made = S /\ closer'.todo = closer.todo
          /\ closer.pc # "idle"
      BY <1>1, <2>2, <2>5 DEF Keeps
    <3>2. SetSum(Column(entry, a), S) + Left(closer.todo, a) = 0 BY <2>2, <3>1 DEF ReadSums
    <3>3. SetSum(Column(entry', a), S) = SetSum(Column(entry, a), S)
      BY <2>3, SumKept DEF Unmoved
    <3> QED BY <3>1, <3>2, <3>3
  <2>6. ASSUME NEW e \in Entries, Makes(e)
        PROVE  SetSum(Column(entry', a), trace'.seen \cup trace'.made) + Left(closer'.todo, a) = 0
    <3>1. /\ trace'.seen \cup trace'.made = S \cup {e} /\ e \notin S
          /\ closer'.todo = Tail(closer.todo)
      BY <2>2, <2>6 DEF Makes, TraceOK
    <3>2. PICK l : l = Head(closer.todo).lines OBVIOUS
    <3>3. SetSum(Column(entry', a), S \cup {e}) = SetSum(Column(entry, a), S) + l[a]
      <4>1. Enters(e, l, None) /\ TypeOK' BY <2>6, <3>2 DEF Makes, BooksInv
      <4>2. /\ S \in SUBSET Entries /\ IsFiniteSet(S) /\ e \in Entries /\ e \notin S
            /\ a \in Accounts
        BY <2>1, <2>3, <3>1
      <4> QED BY ONLY <4>1, <4>2, SumGrows
    <3>4. /\ l[a] \in Int /\ Left(Tail(closer.todo), a) \in Int
          /\ Left(closer.todo, a) = l[a] + Left(Tail(closer.todo), a)
      BY <2>6, <2>1, <3>2, LeftAfter DEF Makes, CloserOK
    <3>5. SetSum(Column(entry, a), S) + Left(closer.todo, a) = 0 BY <2>2, <2>6 DEF ReadSums, Makes
    <3>6. SetSum(Column(entry', a), S \cup {e}) + Left(Tail(closer.todo), a) = 0
      <4>1. PICK n \in Int : n = SetSum(Column(entry, a), S) BY <2>3
      <4>2. PICK m \in Int : m = Left(Tail(closer.todo), a) BY <3>4
      <4>3. PICK k \in Int : k = l[a] BY <3>4
      <4>4. n + (k + m) = 0 BY <3>4, <3>5, <4>1, <4>2, <4>3
      <4> QED BY <3>3, <4>1, <4>2, <4>3, <4>4
    <3> QED BY <3>1, <3>6
  <2> QED BY <2>4, <2>5, <2>6
<1> QED BY <1>1 DEF ReadSums

(* Together: the invariant is inductive, *)
LEMMA CloseInvKept ==
    ASSUME CloseInv, [CloseNext]_allVars
    PROVE  CloseInv'
<1>1. BooksInv' /\ Stocked \subseteq Stocked' BY CloseStepIs, WholeBooksKept DEF CloseInv
<1>2. ReadSums' BY <1>1, StockedUnmoved, CloseKinds, ReadKept
<1> QED BY <1>1, <1>2, CloserKept, CallKept, TraceKept DEF CloseInv

(* and holds in every reachable state. *)
LEMMA CloseInvHolds == CloseSpec => []CloseInv
<1>1. CloseInit => CloseInv
  <2> SUFFICES ASSUME CloseInit PROVE CloseInv OBVIOUS
  <2> USE DEF CloseInit, Init, CloserInit
  <2>1. TypeOK
    BY DEF TypeOK, NoEntry, EntryRow, EntryStatus, PeriodStatus, NoLines, LinesOf, Locals, Idle
  <2>2. Stocked = {} /\ ReadsAreCurrent BY DEF Stocked, NoEntry, ReadsAreCurrent, Idle
  <2>3. BooksInv BY <2>1, <2>2, FS_EmptySet, ZeroIsWhole DEF BooksInv, NoEntry
  <2>4. CloserOK BY EmptySeq DEF CloserOK, CloserIdle, InCall
  <2>5. CallIsNext /\ ReadSums BY DEF CallIsNext, ReadSums, CloserIdle
  <2>6. TraceOK BY YearEndAssumption DEF TraceOK
  <2> QED BY <2>3, <2>4, <2>5, <2>6 DEF CloseInv
<1> QED BY <1>1, CloseInvKept, PTL DEF CloseSpec

(* Beside a close, too, no period is closed over a draft when at most one request
   is under way, the calls of the close included (year_end_close_service.go:
   139-150; Close of accounting_period_service.go). *)
THEOREM SerializedClosesLeaveNoDrafts ==
    ASSUME Serialized
    PROVE  CloseSpec => []NoDraftInClosedPeriod
<1>1. CloseInit => PeriodInv
  BY DEF CloseInit, Init, PeriodInv, Checked, CheckedCreate, CheckedClose, NoDraftInClosedPeriod,
     Idle
<1>2. CloseInv /\ PeriodInv /\ [CloseNext]_allVars => PeriodInv'
  <2> SUFFICES ASSUME CloseInv, PeriodInv, [CloseNext]_allVars PROVE PeriodInv' OBVIOUS
  <2>1. TypeOK BY DEF CloseInv, BooksInv
  <2>2. CASE [Next]_vars BY <2>1, <2>2, PeriodInvKept
  <2>3. ASSUME NEW r \in Requests, CallCreate(r) PROVE PeriodInv'
    <3>1. PICK p \in FoundPeriods(YearEnd) :
             req' = [req EXCEPT ![r] = [pc |-> "create", date |-> YearEnd, period |-> p,
                                        lines |-> Head(closer.todo).lines]]
      BY <2>3 DEF CallCreate, Goto
    <3>2. UNCHANGED <<entry, period>> BY <2>3 DEF CallCreate
    <3>3. p # None => period[p] = "open" BY DEF FoundPeriods, OpenCovering
    <3>4. NoDraftInClosedPeriod' BY <3>2 DEF PeriodInv, NoDraftInClosedPeriod, DraftsIn
    <3>5. ASSUME NEW q \in Requests PROVE CheckedCreate(q)' /\ CheckedClose(q)'
      BY <2>1, <3>1, <3>2, <3>3 DEF PeriodInv, Checked, CheckedCreate, CheckedClose, DraftsIn,
         TypeOK
    <3> QED BY <3>4, <3>5 DEF PeriodInv, Checked
  <2> QED BY <2>2, <2>3, StepsOfClose
<1>3. PeriodInv => NoDraftInClosedPeriod BY DEF PeriodInv
<1> QED BY <1>1, <1>2, <1>3, CloseInvHolds, PTL DEF CloseSpec

----
(* Income Summary.  What clients and the close create is not a reversal. *)
Originals == {e \in Stocked : entry[e].reverses = None}

(* No client books to Income Summary itself. *)
SummaryIsTheirs == \A l \in Inputs : l[Summary] = 0

SummaryInv ==
    /\ \A r \in Requests : req[r].pc = "create" /\ ~Serves(r) => req[r].lines[Summary] = 0
    /\ ~trace.broken => SetSum(Column(entry, Summary), Originals) + Left(closer.todo, Summary) = 0

(* What others are about to create has no line on Income Summary. *)
LEMMA OthersLinesKept ==
    ASSUME SummaryIsTheirs, CloseInv, SummaryInv, [CloseNext]_allVars
    PROVE  \A r \in Requests : (req[r].pc = "create" /\ ~Serves(r))' => req'[r].lines[Summary] = 0
<1> USE DEF CloseInv, SummaryInv, CloserOK, Serves, InCall, BooksInv, TypeOK, Goto, Done
<1> DEFINE Fine == \A r \in Requests :
                      (req[r].pc = "create" /\ ~Serves(r))' => req'[r].lines[Summary] = 0
<1>1. CASE CloseBegin BY <1>1 DEF CloseBegin, vars, CloserIdle
<1>2. CASE CloseEnd BY <1>2 DEF CloseEnd, vars
<1>3. ASSUME NEW r \in Requests, CallCreate(r) PROVE Fine BY <1>3 DEF CallCreate
<1>4. ASSUME NEW r \in Requests, CreateReturns(r) PROVE Fine
  BY <1>4 DEF CreateReturns, CreateCommit, Idle
<1>5. ASSUME NEW r \in Requests, CallPost(r) PROVE Fine BY <1>5 DEF CallPost
<1>6. ASSUME NEW r \in Requests, PostGoesOn(r) PROVE Fine
  BY <1>6 DEF PostGoesOn, PostPeriod, PostWrite, closeVars
<1>7. ASSUME NEW r \in Requests, PostReturns(r) PROVE Fine
  BY <1>7 DEF PostReturns, PostPublish, Abandon, Idle
<1>8. ASSUME NEW r \in Requests, CloseFails(r) PROVE Fine
  <2>1. closer'.slot = {} BY <1>8 DEF CloseFails, CloserIdle
  <2>2. CASE InCall
    BY <1>8, <2>2, <2>1 DEF CloseFails, Abandon, Idle
  <2>3. CASE ~InCall BY <1>8, <2>1, <2>3 DEF CloseFails, vars
  <2> QED BY <2>2, <2>3
<1>9. ASSUME OthersStep PROVE Fine
  <2>1. PICK r \in Requests : ~Serves(r) /\ RequestStep(r) BY <1>9 DEF OthersStep
  <2>2. CASE CreateFind(r)
    <3>1. PICK l \in Inputs, d \in Dates : \E p \in FoundPeriods(d) :
              Goto(r, [pc |-> "create", date |-> d, period |-> p, lines |-> l])
      BY <2>2 DEF CreateFind
    <3>2. PICK p \in FoundPeriods(d) :
              Goto(r, [pc |-> "create", date |-> d, period |-> p, lines |-> l])
      BY <3>1
    <3>3. l[Summary] = 0 BY DEF SummaryIsTheirs
    <3>4. req'[r].lines = l /\ \A s \in Requests : s # r => req'[s] = req[s] BY <3>2
    <3> QED BY <1>9, <3>3, <3>4 DEF OthersStep, closeVars
  <2>3. CASE ~CreateFind(r)
    <3>1. \A s \in Requests : req'[s].pc = "create" => req'[s] = req[s]
      BY <2>1, <2>3 DEF RequestStep, CreateCommit, PostRead, PostPeriod, PostWrite, PostPublish,
         ReverseRead, ReverseCommit, CloseRead, CloseCount, CloseWrite, Abandon, Idle
    <3> QED BY <1>9, <3>1 DEF OthersStep, closeVars
  <2> QED BY <2>2, <2>3
<1>10. CASE PeriodsStep BY <1>10 DEF PeriodsStep, PeriodStep, CreatePeriod, Reopen, closeVars
<1>11. CASE UNCHANGED allVars BY <1>11 DEF allVars, vars, closeVars
<1> QED BY <1>1, <1>2, <1>3, <1>4, <1>5, <1>6, <1>7, <1>8, <1>9, <1>10, <1>11 DEF CloseNext, CloseStep

(* Without a return of Create, what enters is someone else's. *)
LEMMA RowsOfOthers ==
    ASSUME CloseInv, [CloseNext]_allVars, \A r \in Requests : ~CreateReturns(r)
    PROVE  \/ Unmoved(Entries)
           \/ \E r \in Requests, e \in Entries :
                /\ CreateCommit(r) /\ ~Serves(r)
                /\ Enters(e, Stored(req[r].lines), None)
           \/ \E o \in Entries, e \in Entries : Enters(e, Opposite(entry[o].lines), o)
<1> USE DEF CloseInv, BooksInv
<1>1. CASE OthersStep
  <2>1. PICK r \in Requests : ~Serves(r) /\ RequestStep(r) BY <1>1 DEF OthersStep
  <2> QED BY <2>1, RequestRows
<1>2. ASSUME NEW r \in Requests, PostGoesOn(r) PROVE Unmoved(Entries)
  BY <1>2 DEF PostGoesOn, PostPeriod, PostWrite, MarkPosted, TypeOK, EntryRow, Unmoved
<1>3. CASE UNCHANGED entry BY <1>3 DEF Unmoved
<1>4. \/ OthersStep \/ UNCHANGED entry
      \/ \E r \in Requests : PostGoesOn(r)
  BY DEF CloseNext, CloseStep, CloseBegin, CloseEnd, CallCreate, CallPost, PostReturns, PostPublish,
     CloseFails, Abandon, PeriodsStep, PeriodStep, CreatePeriod, Reopen, vars, allVars
<1> QED BY <1>1, <1>2, <1>3, <1>4

(* Others do not change what Income Summary holds, reversals aside. *)
LEMMA OriginalsKept ==
    ASSUME CloseInv, SummaryInv, BooksInv', [CloseNext]_allVars, \A r \in Requests : ~CreateReturns(r)
    PROVE  SetSum(Column(entry', Summary), Originals') = SetSum(Column(entry, Summary), Originals)
<1> USE DEF CloseInv
<1>1. Summary \in Accounts BY YearEndAssumption
<1>2. PICK S \in SUBSET Stocked : S = Originals BY DEF Originals
<1>3. IsFiniteSet(S) /\ SetSum(Column(entry, Summary), S) \in Int /\ S \in SUBSET Entries
  BY <1>1, SumsAreWhole DEF Stocked
<1>4. Unmoved(S) BY StockedUnmoved DEF Unmoved
<1>5. CASE Originals' = S BY <1>2, <1>3, <1>4, <1>5, SumKept
<1>6. ASSUME Unmoved(Entries) PROVE Originals' = S BY <1>2, <1>6 DEF Originals, Stocked, Unmoved
<1>7. ASSUME NEW o \in Entries, NEW e \in Entries, NEW l, Enters(e, l, o) PROVE Originals' = S
  BY <1>2, <1>7, LedgerAssumption DEF Originals, Stocked, Enters, Unmoved
<1>8. ASSUME NEW r \in Requests, NEW e \in Entries, CreateCommit(r), ~Serves(r),
             Enters(e, Stored(req[r].lines), None)
      PROVE  SetSum(Column(entry', Summary), Originals') = SetSum(Column(entry, Summary), S)
  <2>1. PICK l : l = Stored(req[r].lines) OBVIOUS
  <2>2. l[Summary] = 0
    BY <1>8, StoredIsWhole, ZeroIsWhole, <1>1, <2>1 DEF CreateCommit, SummaryInv, Stored
  <2>3. Originals' = S \cup {e} /\ e \notin S BY <1>2, <1>8 DEF Originals, Stocked, Enters, Unmoved
  <2>4. SetSum(Column(entry', Summary), S \cup {e}) = SetSum(Column(entry, Summary), S) + l[Summary]
    <3>1. Enters(e, l, None) /\ TypeOK' BY <1>8, <2>1 DEF BooksInv
    <3> QED BY <1>1, <1>3, <2>3, <3>1, SumGrows
  <2> QED BY <1>3, <2>2, <2>3, <2>4
<1> QED BY <1>2, <1>5, <1>6, <1>7, <1>8, RowsOfOthers

(* Income Summary holds what the close has still to take out of it. *)
LEMMA SummaryKept ==
    ASSUME SummaryIsTheirs, CloseInv, SummaryInv, BooksInv', [CloseNext]_allVars
    PROVE  SummaryInv'
<1> USE DEF CloseInv
<1>1. Summary \in Accounts BY YearEndAssumption
<1>2. PICK S \in SUBSET Stocked : S = Originals BY DEF Originals
<1>3. IsFiniteSet(S) /\ SetSum(Column(entry, Summary), S) \in Int /\ S \in SUBSET Entries
  BY <1>1, SumsAreWhole DEF Stocked
<1> DEFINE Zero == SetSum(Column(entry', Summary), Originals') + Left(closer'.todo, Summary) = 0
<1>4. ASSUME NEW e \in Entries, Makes(e), ~trace'.broken PROVE Zero
  <2>1. ~trace.broken /\ closer'.todo = Tail(closer.todo) BY <1>4 DEF Makes, TraceOK
  <2>2. PICK l : l = Head(closer.todo).lines OBVIOUS
  <2>3. Enters(e, l, None) /\ TypeOK' BY <1>4, <2>2 DEF Makes, BooksInv
  <2>4. Originals' = S \cup {e} /\ e \notin S BY <1>2, <2>3 DEF Originals, Stocked, Enters, Unmoved
  <2>5. SetSum(Column(entry', Summary), S \cup {e}) = SetSum(Column(entry, Summary), S) + l[Summary]
    BY <1>1, <1>3, <2>3, <2>4, SumGrows
  <2>6. /\ l[Summary] \in Int /\ Left(Tail(closer.todo), Summary) \in Int
        /\ Left(closer.todo, Summary) = l[Summary] + Left(Tail(closer.todo), Summary)
    BY <1>4, <1>1, <2>2, LeftAfter DEF Makes, CloserOK
  <2>7. SetSum(Column(entry, Summary), S) + Left(closer.todo, Summary) = 0
    BY <1>2, <2>1 DEF SummaryInv
  <2> QED BY <1>3, <2>1, <2>4, <2>5, <2>6, <2>7
<1>5. ASSUME Begins, ~trace'.broken PROVE Zero
  <2>1. /\ ~trace.broken /\ entry' = entry
        /\ closer.todo = <<>> /\ closer'.todo = ClosingEntries
    BY <1>5 DEF Begins, CloseBegin, CloserIdle, TraceOK, CloserOK, vars
  <2>2. Originals' = S BY <1>2, <2>1 DEF Originals, Stocked
  <2>3. Left(<<>>, Summary) = 0 /\ Left(ClosingEntries, Summary) = 0
    BY <1>1, NothingLeft, PlanOfClose
  <2>4. SetSum(Column(entry, Summary), S) + Left(<<>>, Summary) = 0 BY <1>2, <2>1 DEF SummaryInv
  <2> QED BY <2>1, <2>2, <2>3, <2>4
<1>6. ASSUME Keeps, \A r \in Requests : ~CreateReturns(r), ~trace'.broken PROVE Zero
  BY <1>6, OriginalsKept DEF Keeps, TraceOK, SummaryInv
<1>7. ~trace'.broken => Zero BY <1>4, <1>5, <1>6, CloseKinds, CreateMakes
<1> QED BY <1>7, OthersLinesKept DEF SummaryInv

(* What a close leaves behind, for any chart of accounts, any number of requests
   beside it and any books: if no client books to Income Summary itself, a close
   that ends has closed what it read, and Income Summary is empty again. *)
THEOREM ClosesAreSound ==
    ASSUME SummaryIsTheirs
    PROVE  CloseSpec => []CloseSound
<1>1. CloseInit => SummaryInv
  <2> SUFFICES ASSUME CloseInit PROVE SummaryInv OBVIOUS
  <2>1. Originals = {} /\ closer.todo = <<>> /\ \A r \in Requests : req[r].pc # "create"
    BY DEF CloseInit, Init, CloserInit, CloserIdle, Originals, Stocked, NoEntry, Idle
  <2>2. SetSum(Column(entry, Summary), {}) = 0 BY FS_EmptySet, SumIsFirstAndRest
  <2>3. Left(<<>>, Summary) = 0 BY YearEndAssumption, NothingLeft
  <2> QED BY <2>1, <2>2, <2>3 DEF SummaryInv
<1>2. CloseInv /\ CloseInv' /\ SummaryInv /\ [CloseNext]_allVars => SummaryInv'
  BY SummaryKept DEF CloseInv
<1>3. CloseInv /\ SummaryInv => CloseSound
  <2> SUFFICES ASSUME CloseInv, SummaryInv PROVE CloseSound OBVIOUS
  <2> USE DEF CloseInv
  <2>1. CloseTypeOK
    <3>1. Closings \subseteq [lines : LinesOf, storable : BOOLEAN] BY DEF Closings, WholeLines
    <3>2. closer.todo \in Seq([lines : LinesOf, storable : BOOLEAN])
      BY <3>1, SeqMonotonic DEF CloserOK
    <3> QED BY <3>2 DEF CloseTypeOK, CloserOK, TraceOK, BooksInv
  <2>2. ClosesWhatItRead
    <3> SUFFICES ASSUME closer.pc = "done", NEW a \in NormalSided
                 PROVE  SumAmounts(trace.seen \cup trace.made, a) = 0
      BY DEF ClosesWhatItRead
    <3>1. /\ a \in Accounts /\ closer.todo = <<>>
          /\ trace.seen \cup trace.made \in SUBSET Stocked
      BY YearEndAssumption DEF NormalSided, CloserOK, TraceOK
    <3>2. SetSum(Column(entry, a), trace.seen \cup trace.made) \in Int BY <3>1, SumsAreWhole
    <3>3. SetSum(Column(entry, a), trace.seen \cup trace.made) + 0 = 0
      BY <3>1, NothingLeft DEF ReadSums
    <3> QED BY <3>2, <3>3, SumIsOfColumn
  <2>3. SummaryEmpty
    <3> SUFFICES ASSUME closer.pc \in {"idle", "done"}, ~trace.broken
                 PROVE  SumAmounts(Originals, Summary) = 0
      BY DEF Originals, Stocked, SummaryEmpty
    <3>1. closer.todo = <<>> /\ Summary \in Accounts /\ Originals \in SUBSET Stocked
      BY YearEndAssumption DEF CloserOK, Originals
    <3>2. SetSum(Column(entry, Summary), Originals) \in Int BY <3>1, SumsAreWhole
    <3>3. SetSum(Column(entry, Summary), Originals) + 0 = 0 BY <3>1, NothingLeft DEF SummaryInv
    <3> QED BY <3>2, <3>3, SumIsOfColumn
  <2> QED BY <2>1, <2>2, <2>3 DEF CloseSound
<1> QED BY <1>1, <1>2, <1>3, CloseInvHolds, PTL DEF CloseSpec

----
(***************************************************************************)
(* ExpenseDesk.  The numbers of reports and the configuration each have an *)
(* invariant of their own.  So have the expenses: what holds of the tables *)
(* whatever interleaves, and, of a request that has the tables to itself   *)
(* but for the agent, what it may count on between its steps.              *)
(***************************************************************************)

(* Numbers.  While the month stays, a request that has read the numbers holds
   the lock, so that no number it has not read comes in between. *)
NumbersOps == {"none", "createReport", "myReports", "getReport", "updateReport", "deleteReport"}

NumberOK(db, c, call) ==
    /\ call.op \in NumbersOps
    /\ (call.op = "createReport" /\ call.at = "lock") => (db.turned \/ call.began = db.month)
    /\ (call.op = "createReport" /\ call.at = "insert") =>
         /\ db.holder = {c} /\ call.number = <<call.number[1], call.number[2]>>
         /\ call.number[2] \in Nat
         /\ ~db.turned =>
              /\ call.number[1] = db.month
              /\ \A r \in DOMAIN db.reports : db.reports[r].number[2] < call.number[2]
              /\ ~db.removed => call.number[2] = Cardinality(DOMAIN db.reports) + 1

NumbersTable(db) ==
    /\ HasTables(db)
    /\ db.refused => db.turned
    /\ \A r \in DOMAIN db.reports :
         LET number == db.reports[r].number
         IN  /\ number = <<number[1], number[2]>> /\ number[2] \in Nat
             /\ ~db.turned => number[1] = db.month
    /\ (~db.turned /\ ~db.removed) =>
         {db.reports[r].number[2] : r \in DOMAIN db.reports} = 1..Cardinality(DOMAIN db.reports)

NumbersInv ==
    /\ NumbersTable(rows)
    /\ DOMAIN calls = Callers /\ \A c \in Callers : NumberOK(rows, c, calls[c])

(* Lists.  A request alone, while there is no agent, counts what it listed. *)
ListOps == {"myReports", "queue", "finance"}

CountOf(db, call) ==
    CASE call.op = "myReports" -> CountExpenseReportsBySubmitter(db, call.by, call.status)
      [] call.op = "queue" -> CountPendingApprovalsForUser(db, call.by)
      [] OTHER -> CountExpenseReportsByStatus(db, "approved")

ListOK(db, call) ==
    call.op \in ListOps =>
        /\ call.at \in {"count", "answered"}
        /\ call.at = "count" => /\ "total" \notin DOMAIN call
                                /\ Cardinality(call.listed) = CountOf(db, call)
        /\ "total" \in DOMAIN call => call.total = Cardinality(call.listed)

ListsInv ==
    /\ DOMAIN calls = Callers
    /\ (Alone /\ DOMAIN rows.agents = {}) => \A c \in Callers : ListOK(rows, calls[c])

----
(* Configuration. *)
SettingsOps ==
    {"none", "createPolicy", "getPolicy", "updatePolicy", "deletePolicy", "createApprover",
     "updateApprover", "deleteApprover", "configuration", "settings"}

SettingsInv ==
    /\ SettingsStart(rows)
    /\ DOMAIN calls = Callers /\ \A c \in Callers : calls[c].op \in SettingsOps

----
(* Expenses. *)
ExpenseOps ==
    {"none", "deleteReport", "addItem", "updateItem", "deleteItem", "upload", "serve", "submit",
     "decideReport", "pay", "revert", "queue", "finance", "analytics"}

(* What holds whatever interleaves: rows of items name reports, and requests
   write what they were given. *)
TablesOK(db) ==
    /\ HasTables(db)
    /\ \A i \in DOMAIN db.items : db.items[i].report \in DOMAIN db.reports /\ db.items[i].amount \in Int
    /\ DOMAIN db.reports \subseteq DOMAIN db.log
    /\ \A r \in DOMAIN db.agents :
         db.agents[r] \in {"due", "approved", "pending_approval", "accrues", "done"}
    /\ db.auto \subseteq DOMAIN db.agents
    /\ \A r \in DOMAIN db.reports :
         db.reports[r].status \in Unsettled \cup {"approved", "rejected", "paid"}

Entered(call) ==
    /\ call.op \in ExpenseOps
    /\ call.op = "addItem" /\ call.at = "insert" => call.input \in ItemInputs
    /\ call.op = "updateItem" /\ call.at = "write" => call.input \in ItemInputs
    /\ call.op = "decideReport" /\ call.at \in {"write", "log"} =>
         call.as \in {"approved", "rejected"} /\ call.by \in Staff
    /\ call.op = "pay" /\ call.at \in {"write", "log"} => call.as = "paid"
    /\ call.op = "decideReport" /\ call.at = "write" => DOMAIN call = {"op", "at", "by", "report", "as"}
    /\ call.op = "pay" /\ call.at = "write" => DOMAIN call = {"op", "at", "report", "as"}

(* What holds of a report if requests come one at a time: its total is what its
   items add up to, nobody is its approver before one has decided, the agent
   is at work only on what was submitted and has approved only what is still
   approved, by nobody, or paid. *)
ReportOK(db, r) ==
    LET row == db.reports[r]
    IN  /\ row.status # "draft" => row.total = SumExpenseItemsByReport(db, r)
        /\ row.status \in Unsettled => row.approver = NoText
        /\ r \in DOMAIN db.agents =>
             /\ db.agents[r] \in {"due", "approved", "pending_approval"} => row.status = "submitted"
             /\ db.agents[r] = "accrues" => r \in db.auto
        /\ r \in db.auto => /\ row.status \in {"approved", "paid"} /\ row.approver = NoText
                            /\ db.agents[r] \in {"accrues", "done"}

Cleared(db) ==
    {r \in DOMAIN db.reports :
        r \in db.auto \/ (r \in DOMAIN db.agents /\ db.agents[r] = "approved")}

FewShared(db) ==
    ~db.failed => \A r, s \in Cleared(db) : (r # s /\ db.reports[r].by = db.reports[s].by) =>
        \A p, q \in Shared(db, r, s) : p = q

(* A request in between still finds what it has read. *)
Stands(db, call) ==
    /\ (call.op = "addItem" /\ call.at = "insert" /\ call.report \in DOMAIN db.reports) =>
         db.reports[call.report].status = "draft"
    /\ (call.op \in {"updateItem", "deleteItem"} /\ call.at = "write"
          /\ call.item \in DOMAIN db.items) =>
         db.reports[db.items[call.item].report].status = "draft"
    /\ (call.op = "decideReport" /\ call.at \in {"write", "log"}
          /\ call.report \in DOMAIN db.reports) =>
         LET row == db.reports[call.report]
         IN  /\ call.at = "write" => row.status = "pending_approval"
             /\ call.at = "log" => row.status = call.as /\ row.approver = call.by
    /\ (call.op = "pay" /\ call.at \in {"write", "log"} /\ call.report \in DOMAIN db.reports) =>
         LET row == db.reports[call.report]
         IN  /\ call.at = "write" => row.status = "approved"
             /\ call.at = "log" => \/ row.status = "paid"
                                   \/ row.status = "approved" /\ row.approver = NoText

Logging(call, r) ==
    call.op \in {"decideReport", "pay"} /\ call.at = "log" /\ call.report = r

AloneOK(db, call) ==
    /\ \A r \in DOMAIN db.reports : ReportOK(db, r)
    /\ FewShared(db)
    /\ Stands(db, call)
    /\ ~db.failed => \A r \in DOMAIN db.reports : LogFits(db, r) \/ Logging(call, r)

ExpensesInv ==
    /\ TablesOK(rows)
    /\ DOMAIN calls = Callers /\ \A c \in Callers : Entered(calls[c])
    /\ \A c \in Callers :
         (\A d \in Callers \ {c} : calls[d] = Gone) => AloneOK(rows, calls[c])

ExpenseDeskInv ==
    /\ part \in ExpenseDeskParts
    /\ part = "numbers" => NumbersInv
    /\ part = "expenses" => ExpensesInv
    /\ part = "settings" => SettingsInv
    /\ part \in {"numbers", "expenses"} => ListsInv
----

LEMMA ListsStepped ==
    ASSUME ListsInv, NEW c \in Callers, Moved(c),
           DOMAIN rows'.agents = {} => DOMAIN rows.agents = {},
           (Alone /\ DOMAIN rows.agents = {} /\ DOMAIN rows'.agents = {}) =>
              ListOK(rows', calls'[c])
    PROVE  ListsInv'
<1>1. DOMAIN calls' = Callers BY DEF Moved
<1>2. ASSUME Alone', DOMAIN rows'.agents = {}, NEW d \in Callers PROVE ListOK(rows', calls'[d])
  <2>1. Alone /\ \A e \in Callers \ {c} : calls[e] = Gone BY <1>2, AloneKept
  <2>2. CASE d = c BY <1>2, <2>1, <2>2
  <2>3. CASE d # c
    BY <2>1, <2>3 DEF Moved, ListOK, ListOps, Gone
  <2> QED BY <2>2, <2>3
<1> QED BY <1>1, <1>2 DEF ListsInv

----

(* Configuration: ids are new, and what is taken out is not put back. *)
LEMMA SettingsActions ==
    ASSUME SettingsInv, part = "settings", ExpenseDeskNext
    PROVE  \E c \in Callers :
             \/ AddPolicy(c)
             \/ ShowPolicy(c)
             \/ EditPolicy(c)
             \/ RetirePolicy(c)
             \/ CreateApprover(c)
             \/ UpdateApprover(c)
             \/ DeleteApprover(c)
             \/ ListConfiguration(c)
             \/ UpdateSettings(c)
<1>1. CASE MonthTurns BY <1>1 DEF MonthTurns
<1>2. SUFFICES ASSUME NEW c \in Callers,
                      \/ CreateReport(c)
                      \/ CreateReportNumbers(c)
                      \/ CreateReportInserts(c)
                      \/ ListMyReports(c)
                      \/ ListMyReportsCounts(c)
                      \/ GetReport(c)
                      \/ UpdateDraft(c)
                      \/ DeleteReport(c)
                      \/ AddItem(c)
                      \/ AddItemInserts(c)
                      \/ UpdateItem(c)
                      \/ UpdateItemWrites(c)
                      \/ DeleteItem(c)
                      \/ DeleteItemWrites(c)
                      \/ UploadReceipt(c)
                      \/ ServeReceipt(c)
                      \/ Submit(c)
                      \/ Decide(c)
                      \/ DecideWrites(c)
                      \/ MarkPaid(c)
                      \/ PayWrites(c)
                      \/ DecisionLogs(c)
                      \/ RevertToDraft(c)
                      \/ ListPendingApprovals(c)
                      \/ ListPendingCounts(c)
                      \/ ListFinanceQueue(c)
                      \/ ListFinanceCounts(c)
                      \/ GetAnalytics(c)
                      \/ AnalyticsByCategory(c)
                      \/ AnalyticsByDepartment(c)
                      \/ AddPolicy(c)
                      \/ ShowPolicy(c)
                      \/ EditPolicy(c)
                      \/ RetirePolicy(c)
                      \/ CreateApprover(c)
                      \/ UpdateApprover(c)
                      \/ DeleteApprover(c)
                      \/ ListConfiguration(c)
                      \/ UpdateSettings(c)
         PROVE  \/ AddPolicy(c) \/ ShowPolicy(c) \/ EditPolicy(c) \/ RetirePolicy(c)
                \/ CreateApprover(c) \/ UpdateApprover(c) \/ DeleteApprover(c)
                \/ ListConfiguration(c) \/ UpdateSettings(c)
  BY <1>1 DEF ExpenseDeskNext, Serving
<1>3. calls[c].op \in SettingsOps BY DEF SettingsInv
<1>4. ~CreateReport(c) BY DEF CreateReport, Free
<1>5. ~CreateReportNumbers(c) BY <1>3 DEF CreateReportNumbers, At, SettingsOps
<1>6. ~CreateReportInserts(c) BY <1>3 DEF CreateReportInserts, At, SettingsOps
<1>7. ~ListMyReports(c) BY DEF ListMyReports, Free
<1>8. ~ListMyReportsCounts(c) BY <1>3 DEF ListMyReportsCounts, At, SettingsOps
<1>9. ~GetReport(c) BY DEF GetReport, Free
<1>10. ~UpdateDraft(c) BY DEF UpdateDraft, Free
<1>11. ~DeleteReport(c) BY DEF DeleteReport, Free
<1>12. ~AddItem(c) BY DEF AddItem, Free
<1>13. ~AddItemInserts(c) BY <1>3 DEF AddItemInserts, At, SettingsOps
<1>14. ~UpdateItem(c) BY DEF UpdateItem, Free
<1>15. ~UpdateItemWrites(c) BY <1>3 DEF UpdateItemWrites, At, SettingsOps
<1>16. ~DeleteItem(c) BY DEF DeleteItem, Free
<1>17. ~DeleteItemWrites(c) BY <1>3 DEF DeleteItemWrites, At, SettingsOps
<1>18. ~UploadReceipt(c) BY DEF UploadReceipt, Free
<1>19. ~ServeReceipt(c) BY DEF ServeReceipt, Free
<1>20. ~Submit(c) BY DEF Submit, Free
<1>21. ~Decide(c) BY DEF Decide, Free
<1>22. ~DecideWrites(c) BY <1>3 DEF DecideWrites, At, SettingsOps
<1>23. ~MarkPaid(c) BY DEF MarkPaid, Free
<1>24. ~PayWrites(c) BY <1>3 DEF PayWrites, At, SettingsOps
<1>25. ~DecisionLogs(c) BY <1>3 DEF DecisionLogs, At, SettingsOps
<1>26. ~RevertToDraft(c) BY DEF RevertToDraft, Free
<1>27. ~ListPendingApprovals(c) BY DEF ListPendingApprovals, Free
<1>28. ~ListPendingCounts(c) BY <1>3 DEF ListPendingCounts, At, SettingsOps
<1>29. ~ListFinanceQueue(c) BY DEF ListFinanceQueue, Free
<1>30. ~ListFinanceCounts(c) BY <1>3 DEF ListFinanceCounts, At, SettingsOps
<1>31. ~GetAnalytics(c) BY DEF GetAnalytics, Free
<1>32. ~AnalyticsByCategory(c) BY <1>3 DEF AnalyticsByCategory, At, SettingsOps
<1>33. ~AnalyticsByDepartment(c) BY <1>3 DEF AnalyticsByDepartment, At, SettingsOps
<1> QED BY <1>2, <1>3, <1>4, <1>5, <1>6, <1>7, <1>8, <1>9, <1>10, <1>11, <1>12, <1>13, <1>14, <1>15,
      <1>16, <1>17, <1>18, <1>19, <1>20, <1>21, <1>22, <1>23, <1>24, <1>25, <1>26, <1>27,
      <1>28, <1>29, <1>30, <1>31, <1>32, <1>33

LEMMA PolicyAdded ==
    ASSUME NEW db, SettingsStart(db), NEW input
    PROVE  SettingsStart(CreateExpensePolicy(db, input))
<1> DEFINE to == CreateExpensePolicy(db, input)
           row == [of |-> input, active |-> TRUE]
           new == db.made + 1
<1>1. /\ DOMAIN to = DOMAIN db /\ to.policies = With(db.policies, new, row)
      /\ to.made = db.made + 1 /\ to.reports = db.reports /\ to.items = db.items
      /\ to.approvers = db.approvers /\ to.retired = db.retired
  BY DEF CreateExpensePolicy, SettingsStart, HasTables
<1> HIDE DEF to, row, new
<1>2. /\ DOMAIN to.policies = DOMAIN db.policies \cup {new}
      /\ to.policies[new] = row
      /\ \A p \in DOMAIN db.policies \ {new} : to.policies[p] = db.policies[p]
  BY <1>1 DEF With
<1>3. /\ db.made \in Nat /\ to.made \in Nat /\ new \notin 1..db.made
      /\ 1..to.made = 1..db.made \cup {new}
  BY <1>1 DEF SettingsStart, HasTables, new
<1>4. HasTables(to)
  <2>1. /\ to.made \in Nat
        /\ DOMAIN to.reports \cup DOMAIN to.items \cup DOMAIN to.policies
             \cup DOMAIN to.approvers \cup to.retired \subseteq 1..to.made
    BY <1>1, <1>2, <1>3 DEF SettingsStart, HasTables
  <2>2. DOMAIN row = {"of", "active"} BY DEF row
  <2>3. \A p \in DOMAIN to.policies : DOMAIN to.policies[p] = {"of", "active"}
    BY <1>2, <2>2 DEF SettingsStart, HasTables
  <2> QED BY <1>1, <2>1, <2>3 DEF SettingsStart, HasTables
<1>5. to.retired \cap (ListExpensePolicies(to) \cup ListExpenseApprovers(to)) = {}
  BY <1>1, <1>2, <1>3 DEF SettingsStart, HasTables, ListExpensePolicies, ListExpenseApprovers
<1>6. DOMAIN to.policies \cap DOMAIN to.approvers = {}
  BY <1>1, <1>2, <1>3 DEF SettingsStart, HasTables
<1> QED BY <1>4, <1>5, <1>6 DEF SettingsStart, to

LEMMA ApproverAdded ==
    ASSUME NEW db, SettingsStart(db), NEW dept, NEW user
    PROVE  SettingsStart(CreateExpenseApprover(db, dept, user))
<1> DEFINE to == CreateExpenseApprover(db, dept, user)
           row == [dept |-> dept, user |-> user, active |-> TRUE]
           new == db.made + 1
<1>1. /\ DOMAIN to = DOMAIN db /\ to.approvers = With(db.approvers, new, row)
      /\ to.made = db.made + 1 /\ to.reports = db.reports /\ to.items = db.items
      /\ to.policies = db.policies /\ to.retired = db.retired
  BY DEF CreateExpenseApprover, SettingsStart, HasTables
<1> HIDE DEF to, row, new
<1>2. /\ DOMAIN to.approvers = DOMAIN db.approvers \cup {new}
      /\ to.approvers[new] = row
      /\ \A a \in DOMAIN db.approvers \ {new} : to.approvers[a] = db.approvers[a]
  BY <1>1 DEF With
<1>3. /\ db.made \in Nat /\ to.made \in Nat /\ new \notin 1..db.made
      /\ 1..to.made = 1..db.made \cup {new}
  BY <1>1 DEF SettingsStart, HasTables, new
<1>4. HasTables(to)
  <2>1. /\ to.made \in Nat
        /\ DOMAIN to.reports \cup DOMAIN to.items \cup DOMAIN to.policies
             \cup DOMAIN to.approvers \cup to.retired \subseteq 1..to.made
    BY <1>1, <1>2, <1>3 DEF SettingsStart, HasTables
  <2>2. DOMAIN row = {"dept", "user", "active"} BY DEF row
  <2>3. \A p \in DOMAIN to.approvers : DOMAIN to.approvers[p] = {"dept", "user", "active"}
    BY <1>2, <2>2 DEF SettingsStart, HasTables
  <2> QED BY <1>1, <2>1, <2>3 DEF SettingsStart, HasTables
<1>5. to.retired \cap (ListExpensePolicies(to) \cup ListExpenseApprovers(to)) = {}
  BY <1>1, <1>2, <1>3 DEF SettingsStart, HasTables, ListExpensePolicies, ListExpenseApprovers
<1>6. DOMAIN to.policies \cap DOMAIN to.approvers = {}
  BY <1>1, <1>2, <1>3 DEF SettingsStart, HasTables
<1> QED BY <1>4, <1>5, <1>6 DEF SettingsStart, to

(* A row of a policy, or of an approver, written or taken out. *)
LEMMA ConfigurationWritten ==
    ASSUME NEW db, SettingsStart(db), NEW to, NEW out,
           DOMAIN to = DOMAIN db, to.made = db.made, to.reports = db.reports, to.items = db.items,
           to.retired = db.retired \cup out, out \subseteq DOMAIN db.policies \cup DOMAIN db.approvers,
           DOMAIN to.policies = DOMAIN db.policies, DOMAIN to.approvers = DOMAIN db.approvers,
           \A p \in DOMAIN db.policies : /\ DOMAIN to.policies[p] = DOMAIN db.policies[p]
                                         /\ to.policies[p].active => db.policies[p].active
                                         /\ p \in out => ~to.policies[p].active,
           \A a \in DOMAIN db.approvers : /\ DOMAIN to.approvers[a] = DOMAIN db.approvers[a]
                                          /\ to.approvers[a].active => db.approvers[a].active
                                          /\ a \in out => ~to.approvers[a].active
    PROVE  SettingsStart(to)
<1>1. HasTables(to) BY DEF SettingsStart, HasTables
<1>2. to.retired \cap (ListExpensePolicies(to) \cup ListExpenseApprovers(to)) = {}
  BY DEF SettingsStart, ListExpensePolicies, ListExpenseApprovers
<1> QED BY <1>1, <1>2 DEF SettingsStart

LEMMA SettingsKept ==
    ASSUME SettingsInv, part = "settings", ExpenseDeskNext
    PROVE  SettingsInv' /\ part' = part
<1>1. PICK c \in Callers :
             \/ AddPolicy(c) \/ ShowPolicy(c) \/ EditPolicy(c) \/ RetirePolicy(c)
             \/ CreateApprover(c) \/ UpdateApprover(c) \/ DeleteApprover(c)
             \/ ListConfiguration(c) \/ UpdateSettings(c)
  BY SettingsActions
<1>2. /\ DOMAIN calls = Callers /\ \A d \in Callers : calls[d].op \in SettingsOps
      /\ SettingsStart(rows) /\ HasTables(rows)
  BY DEF SettingsInv, SettingsStart
<1>3. ASSUME NEW call, call.op \in SettingsOps, Begin(c, call), SettingsStart(rows')
      PROVE  SettingsInv' /\ part' = part
  BY <1>3, <1>2 DEF Begin, SettingsInv
<1>4. ASSUME NEW op, NEW status, op \in SettingsOps, AnswerAtOnce(c, op, status), SettingsStart(rows')
      PROVE  SettingsInv' /\ part' = part
  <2> DEFINE call == Answered(op, status)
  <2>1. call.op = op /\ Begin(c, call) BY <1>4 DEF AnswerAtOnce, Answered
  <2> HIDE DEF call
  <2> QED BY <1>3, <1>4, <2>1
<1>5. CASE AddPolicy(c)
  <2>1. PICK input \in PolicyInputs : rows' = CreateExpensePolicy(rows, input)
    BY <1>5 DEF AddPolicy, Store
  <2>2. SettingsStart(rows') BY <1>2, <2>1, PolicyAdded
  <2>3. AnswerAtOnce(c, "createPolicy", CreatePolicyResponses.Done) /\ "createPolicy" \in SettingsOps
    BY <1>5 DEF AddPolicy, SettingsOps
  <2> QED BY <1>4, <2>2, <2>3
<1>6. CASE ShowPolicy(c)
  BY <1>6, <1>2, <1>4 DEF ShowPolicy, Reads, SettingsOps
<1>7. CASE EditPolicy(c)
  <2>1. PICK p \in SomeId, input \in PolicyInputs : rows' = UpdateExpensePolicy(rows, p, input)
    BY <1>7 DEF EditPolicy, Store
  <2>2. SettingsStart(rows')
    <3> DEFINE to == UpdateExpensePolicy(rows, p, input)
    <3>1. /\ DOMAIN to = DOMAIN rows /\ to.made = rows.made /\ to.reports = rows.reports
          /\ to.items = rows.items /\ to.retired = rows.retired /\ to.approvers = rows.approvers
          /\ to.policies = [i \in DOMAIN rows.policies |->
                IF i = p THEN [rows.policies[i] EXCEPT !.of = input] ELSE rows.policies[i]]
      BY <1>2 DEF UpdateExpensePolicy, HasTables
    <3> HIDE DEF to
    <3>2. \A i \in DOMAIN rows.policies : DOMAIN rows.policies[i] = {"of", "active"}
      BY <1>2 DEF HasTables
    <3>3. /\ DOMAIN to.policies = DOMAIN rows.policies
          /\ \A i \in DOMAIN rows.policies : /\ DOMAIN to.policies[i] = DOMAIN rows.policies[i]
                                             /\ to.policies[i].active = rows.policies[i].active
      BY <3>1, <3>2
    <3>4. SettingsStart(to)
      <4> DEFINE out == {}
      <4>1. to.retired = rows.retired \cup out /\ out \subseteq DOMAIN rows.policies \cup DOMAIN rows.approvers
        BY <3>1
      <4>2. \A i : i \notin out OBVIOUS
      <4> HIDE DEF out
      <4> QED BY <1>2, <3>1, <3>3, <4>1, <4>2, ConfigurationWritten
    <3> QED BY <2>1, <3>4 DEF to
  <2>3. AnswerAtOnce(c, "updatePolicy", UpdatePolicyResponses.Done) /\ "updatePolicy" \in SettingsOps
    BY <1>7 DEF EditPolicy, SettingsOps
  <2> QED BY <1>4, <2>2, <2>3
<1>8. CASE RetirePolicy(c)
  <2>1. PICK p \in SomeId : rows' = [DeactivateExpensePolicy(rows, p)
                                      EXCEPT !.retired = @ \cup GetExpensePolicyByID(rows, p)]
    BY <1>8 DEF RetirePolicy, Store
  <2>2. SettingsStart(rows')
    <3> DEFINE to == [DeactivateExpensePolicy(rows, p)
                        EXCEPT !.retired = @ \cup GetExpensePolicyByID(rows, p)]
               out == GetExpensePolicyByID(rows, p)
    <3>1. /\ DOMAIN to = DOMAIN rows /\ to.made = rows.made /\ to.reports = rows.reports
          /\ to.items = rows.items /\ to.retired = rows.retired \cup out /\ to.approvers = rows.approvers
          /\ to.policies = [i \in DOMAIN rows.policies |->
                IF i = p THEN [rows.policies[i] EXCEPT !.active = FALSE] ELSE rows.policies[i]]
      BY <1>2 DEF DeactivateExpensePolicy, HasTables
    <3> HIDE DEF to
    <3>2. \A i \in DOMAIN rows.policies : DOMAIN rows.policies[i] = {"of", "active"}
      BY <1>2 DEF HasTables
    <3>3. /\ DOMAIN to.policies = DOMAIN rows.policies
          /\ \A i \in DOMAIN rows.policies :
               /\ DOMAIN to.policies[i] = DOMAIN rows.policies[i]
               /\ to.policies[i].active => (rows.policies[i].active /\ i # p)
      BY <3>1, <3>2
    <3>4. out \subseteq DOMAIN rows.policies /\ out \subseteq {p} BY DEF GetExpensePolicyByID
    <3>5. DOMAIN rows.policies \cap DOMAIN rows.approvers = {} BY <1>2 DEF SettingsStart
    <3> HIDE DEF out
    <3>6. SettingsStart(to) BY <1>2, <3>1, <3>3, <3>4, <3>5, ConfigurationWritten
    <3> QED BY <2>1, <3>6 DEF to
  <2>3. AnswerAtOnce(c, "deletePolicy", DeletePolicyResponses.Done) /\ "deletePolicy" \in SettingsOps
    BY <1>8 DEF RetirePolicy, SettingsOps
  <2> QED BY <1>4, <2>2, <2>3
<1>9. CASE CreateApprover(c)
  <2>1. "createApprover" \in SettingsOps BY DEF SettingsOps
  <2>2. PICK dept, user, status :
          /\ dept \in Departments /\ user \in Staff
          /\ rows' = CreateExpenseApprover(rows, dept, user) \/ rows' = rows
          /\ AnswerAtOnce(c, "createApprover", status)
    BY <1>9 DEF CreateApprover, Store, Reads
  <2>3. SettingsStart(rows') BY <1>2, <2>2, ApproverAdded
  <2> QED BY <1>4, <2>1, <2>2, <2>3
<1>10. CASE UpdateApprover(c)
  <2>1. "updateApprover" \in SettingsOps BY DEF SettingsOps
  <2>2. PICK a, dept, status :
          /\ a \in SomeId /\ dept \in Departments
          /\ rows' = UpdateExpenseApprover(rows, a, dept) \/ rows' = rows
          /\ AnswerAtOnce(c, "updateApprover", status)
    BY <1>10 DEF UpdateApprover, Store, Reads
  <2>3. SettingsStart(UpdateExpenseApprover(rows, a, dept))
    <3> DEFINE to == UpdateExpenseApprover(rows, a, dept)
    <3>1. /\ DOMAIN to = DOMAIN rows /\ to.made = rows.made /\ to.reports = rows.reports
          /\ to.items = rows.items /\ to.retired = rows.retired /\ to.policies = rows.policies
          /\ to.approvers = [i \in DOMAIN rows.approvers |->
                IF i = a THEN [rows.approvers[i] EXCEPT !.dept = dept] ELSE rows.approvers[i]]
      BY <1>2 DEF UpdateExpenseApprover, HasTables
    <3> HIDE DEF to
    <3>2. \A i \in DOMAIN rows.approvers : DOMAIN rows.approvers[i] = {"dept", "user", "active"}
      BY <1>2 DEF HasTables
    <3>3. /\ DOMAIN to.approvers = DOMAIN rows.approvers
          /\ \A i \in DOMAIN rows.approvers : /\ DOMAIN to.approvers[i] = DOMAIN rows.approvers[i]
                                              /\ to.approvers[i].active = rows.approvers[i].active
      BY <3>1, <3>2
    <3>4. SettingsStart(to)
      <4> DEFINE out == {}
      <4>1. to.retired = rows.retired \cup out /\ out \subseteq DOMAIN rows.policies \cup DOMAIN rows.approvers
        BY <3>1
      <4>2. \A i : i \notin out OBVIOUS
      <4> HIDE DEF out
      <4> QED BY <1>2, <3>1, <3>3, <4>1, <4>2, ConfigurationWritten
    <3> QED BY <3>4 DEF to
  <2>4. SettingsStart(rows') BY <1>2, <2>2, <2>3
  <2> QED BY <1>4, <2>1, <2>2, <2>4
<1>11. CASE DeleteApprover(c)
  <2>1. PICK a \in SomeId : rows' = [DeactivateExpenseApprover(rows, a)
                                      EXCEPT !.retired = @ \cup (DOMAIN rows.approvers \cap {a})]
    BY <1>11 DEF DeleteApprover, Store
  <2>2. SettingsStart(rows')
    <3> DEFINE out == DOMAIN rows.approvers \cap {a}
               to == [DeactivateExpenseApprover(rows, a)
                        EXCEPT !.retired = @ \cup (DOMAIN rows.approvers \cap {a})]
    <3>1. /\ DOMAIN to = DOMAIN rows /\ to.made = rows.made /\ to.reports = rows.reports
          /\ to.items = rows.items /\ to.retired = rows.retired \cup out /\ to.policies = rows.policies
          /\ to.approvers = [i \in DOMAIN rows.approvers |->
                IF i = a THEN [rows.approvers[i] EXCEPT !.active = FALSE] ELSE rows.approvers[i]]
      BY <1>2 DEF DeactivateExpenseApprover, HasTables
    <3> HIDE DEF to
    <3>2. \A i \in DOMAIN rows.approvers : DOMAIN rows.approvers[i] = {"dept", "user", "active"}
      BY <1>2 DEF HasTables
    <3>3. /\ DOMAIN to.approvers = DOMAIN rows.approvers
          /\ \A i \in DOMAIN rows.approvers :
               /\ DOMAIN to.approvers[i] = DOMAIN rows.approvers[i]
               /\ to.approvers[i].active => (rows.approvers[i].active /\ i # a)
      BY <3>1, <3>2
    <3>4. out \subseteq DOMAIN rows.approvers /\ out \subseteq {a} OBVIOUS
    <3>5. DOMAIN rows.policies \cap DOMAIN rows.approvers = {} BY <1>2 DEF SettingsStart
    <3> HIDE DEF out
    <3>6. SettingsStart(to) BY <1>2, <3>1, <3>3, <3>4, <3>5, ConfigurationWritten
    <3> QED BY <2>1, <3>6 DEF to
  <2>3. AnswerAtOnce(c, "deleteApprover", DeleteApproverResponses.Done) /\ "deleteApprover" \in SettingsOps
    BY <1>11 DEF DeleteApprover, SettingsOps
  <2> QED BY <1>4, <2>2, <2>3
<1>12. CASE ListConfiguration(c)
  <2>1. PICK listed : Begin(c, [op |-> "configuration", at |-> "answered", listed |-> listed,
                                status |-> 200])
    BY <1>12 DEF ListConfiguration
  <2>2. rows' = rows BY <1>12 DEF ListConfiguration, Reads
  <2> DEFINE call == [op |-> "configuration", at |-> "answered", listed |-> listed, status |-> 200]
  <2>3. call.op \in SettingsOps /\ Begin(c, call) BY <2>1 DEF SettingsOps
  <2> HIDE DEF call
  <2> QED BY <1>2, <1>3, <2>2, <2>3
<1>13. CASE UpdateSettings(c)
  <2>1. PICK enabled, threshold : rows' = UpsertApprovalSettings(rows, enabled, threshold)
    BY <1>13 DEF UpdateSettings, Store
  <2>2. SettingsStart(rows')
    BY <1>2, <2>1 DEF UpsertApprovalSettings, HasTables, SettingsStart, ListExpensePolicies,
       ListExpenseApprovers
  <2>3. AnswerAtOnce(c, "settings", 200) /\ "settings" \in SettingsOps
    BY <1>13 DEF UpdateSettings, SettingsOps
  <2> QED BY <1>4, <2>2, <2>3
<1> QED BY <1>1, <1>5, <1>6, <1>7, <1>8, <1>9, <1>10, <1>11, <1>12, <1>13

LEMMA NumbersActions ==
    ASSUME NumbersInv, part = "numbers", ExpenseDeskNext
    PROVE  \/ \E c \in Callers :
                \/ CreateReport(c)
                \/ CreateReportNumbers(c)
                \/ CreateReportInserts(c)
                \/ ListMyReports(c)
                \/ ListMyReportsCounts(c)
                \/ GetReport(c)
                \/ UpdateDraft(c)
                \/ DeleteReport(c)
           \/ MonthTurns
<1>0. CASE MonthTurns BY <1>0
<1>1. SUFFICES ASSUME NEW c \in Callers,
                      \/ CreateReport(c)
                      \/ CreateReportNumbers(c)
                      \/ CreateReportInserts(c)
                      \/ ListMyReports(c)
                      \/ ListMyReportsCounts(c)
                      \/ GetReport(c)
                      \/ UpdateDraft(c)
                      \/ DeleteReport(c)
                      \/ AddItem(c)
                      \/ AddItemInserts(c)
                      \/ UpdateItem(c)
                      \/ UpdateItemWrites(c)
                      \/ DeleteItem(c)
                      \/ DeleteItemWrites(c)
                      \/ UploadReceipt(c)
                      \/ ServeReceipt(c)
                      \/ Submit(c)
                      \/ Decide(c)
                      \/ DecideWrites(c)
                      \/ MarkPaid(c)
                      \/ PayWrites(c)
                      \/ DecisionLogs(c)
                      \/ RevertToDraft(c)
                      \/ ListPendingApprovals(c)
                      \/ ListPendingCounts(c)
                      \/ ListFinanceQueue(c)
                      \/ ListFinanceCounts(c)
                      \/ GetAnalytics(c)
                      \/ AnalyticsByCategory(c)
                      \/ AnalyticsByDepartment(c)
                      \/ AddPolicy(c)
                      \/ ShowPolicy(c)
                      \/ EditPolicy(c)
                      \/ RetirePolicy(c)
                      \/ CreateApprover(c)
                      \/ UpdateApprover(c)
                      \/ DeleteApprover(c)
                      \/ ListConfiguration(c)
                      \/ UpdateSettings(c)
         PROVE     CreateReport(c) \/ CreateReportNumbers(c) \/ CreateReportInserts(c)
                \/ ListMyReports(c) \/ ListMyReportsCounts(c) \/ GetReport(c) \/ UpdateDraft(c)
                \/ DeleteReport(c)
  BY <1>0 DEF ExpenseDeskNext, Serving
<1>2. calls[c].op \in NumbersOps BY DEF NumbersInv, NumberOK
<1>3. ~AddItem(c) BY DEF AddItem, Free
<1>4. ~AddItemInserts(c) BY <1>2 DEF AddItemInserts, At, NumbersOps
<1>5. ~UpdateItem(c) BY DEF UpdateItem, Free
<1>6. ~UpdateItemWrites(c) BY <1>2 DEF UpdateItemWrites, At, NumbersOps
<1>7. ~DeleteItem(c) BY DEF DeleteItem, Free
<1>8. ~DeleteItemWrites(c) BY <1>2 DEF DeleteItemWrites, At, NumbersOps
<1>9. ~UploadReceipt(c) BY DEF UploadReceipt, Free
<1>10. ~ServeReceipt(c) BY DEF ServeReceipt, Free
<1>11. ~Submit(c) BY DEF Submit, Free
<1>12. ~Decide(c) BY DEF Decide, Free
<1>13. ~DecideWrites(c) BY <1>2 DEF DecideWrites, At, NumbersOps
<1>14. ~MarkPaid(c) BY DEF MarkPaid, Free
<1>15. ~PayWrites(c) BY <1>2 DEF PayWrites, At, NumbersOps
<1>16. ~DecisionLogs(c) BY <1>2 DEF DecisionLogs, At, NumbersOps
<1>17. ~RevertToDraft(c) BY DEF RevertToDraft, Free
<1>18. ~ListPendingApprovals(c) BY DEF ListPendingApprovals, Free
<1>19. ~ListPendingCounts(c) BY <1>2 DEF ListPendingCounts, At, NumbersOps
<1>20. ~ListFinanceQueue(c) BY DEF ListFinanceQueue, Free
<1>21. ~ListFinanceCounts(c) BY <1>2 DEF ListFinanceCounts, At, NumbersOps
<1>22. ~GetAnalytics(c) BY DEF GetAnalytics, Free
<1>23. ~AnalyticsByCategory(c) BY <1>2 DEF AnalyticsByCategory, At, NumbersOps
<1>24. ~AnalyticsByDepartment(c) BY <1>2 DEF AnalyticsByDepartment, At, NumbersOps
<1>25. ~AddPolicy(c) BY DEF AddPolicy, Free
<1>26. ~ShowPolicy(c) BY DEF ShowPolicy, Free
<1>27. ~EditPolicy(c) BY DEF EditPolicy, Free
<1>28. ~RetirePolicy(c) BY DEF RetirePolicy, Free
<1>29. ~CreateApprover(c) BY DEF CreateApprover, Free
<1>30. ~UpdateApprover(c) BY DEF UpdateApprover, Free
<1>31. ~DeleteApprover(c) BY DEF DeleteApprover, Free
<1>32. ~ListConfiguration(c) BY DEF ListConfiguration, Free
<1>33. ~UpdateSettings(c) BY DEF UpdateSettings, Free
<1> QED BY <1>1, <1>2, <1>3, <1>4, <1>5, <1>6, <1>7, <1>8, <1>9, <1>10, <1>11, <1>12, <1>13,
     <1>14, <1>15, <1>16, <1>17, <1>18, <1>19, <1>20, <1>21, <1>22, <1>23, <1>24, <1>25, <1>26,
     <1>27, <1>28, <1>29, <1>30, <1>31, <1>32, <1>33

LEMMA ExpensesActions ==
    ASSUME ExpensesInv, part = "expenses", ExpenseDeskNext
    PROVE  \/ \E c \in Callers :
                \/ DeleteReport(c)
                \/ AddItem(c)
                \/ AddItemInserts(c)
                \/ UpdateItem(c)
                \/ UpdateItemWrites(c)
                \/ DeleteItem(c)
                \/ DeleteItemWrites(c)
                \/ UploadReceipt(c)
                \/ ServeReceipt(c)
                \/ Submit(c)
                \/ Decide(c)
                \/ DecideWrites(c)
                \/ MarkPaid(c)
                \/ PayWrites(c)
                \/ DecisionLogs(c)
                \/ RevertToDraft(c)
                \/ ListPendingApprovals(c)
                \/ ListPendingCounts(c)
                \/ ListFinanceQueue(c)
                \/ ListFinanceCounts(c)
                \/ GetAnalytics(c)
                \/ AnalyticsByCategory(c)
                \/ AnalyticsByDepartment(c)
           \/ \E r \in DOMAIN rows.agents : AgentEvaluates(r) \/ AgentFails(r) \/ AgentWrites(r) \/ AgentLinks(r)
<1>0. CASE \E r \in DOMAIN rows.agents : AgentEvaluates(r) \/ AgentFails(r) \/ AgentWrites(r) \/ AgentLinks(r)
  BY <1>0
<1>1. SUFFICES ASSUME NEW c \in Callers,
                      \/ CreateReport(c)
                      \/ CreateReportNumbers(c)
                      \/ CreateReportInserts(c)
                      \/ ListMyReports(c)
                      \/ ListMyReportsCounts(c)
                      \/ GetReport(c)
                      \/ UpdateDraft(c)
                      \/ DeleteReport(c)
                      \/ AddItem(c)
                      \/ AddItemInserts(c)
                      \/ UpdateItem(c)
                      \/ UpdateItemWrites(c)
                      \/ DeleteItem(c)
                      \/ DeleteItemWrites(c)
                      \/ UploadReceipt(c)
                      \/ ServeReceipt(c)
                      \/ Submit(c)
                      \/ Decide(c)
                      \/ DecideWrites(c)
                      \/ MarkPaid(c)
                      \/ PayWrites(c)
                      \/ DecisionLogs(c)
                      \/ RevertToDraft(c)
                      \/ ListPendingApprovals(c)
                      \/ ListPendingCounts(c)
                      \/ ListFinanceQueue(c)
                      \/ ListFinanceCounts(c)
                      \/ GetAnalytics(c)
                      \/ AnalyticsByCategory(c)
                      \/ AnalyticsByDepartment(c)
                      \/ AddPolicy(c)
                      \/ ShowPolicy(c)
                      \/ EditPolicy(c)
                      \/ RetirePolicy(c)
                      \/ CreateApprover(c)
                      \/ UpdateApprover(c)
                      \/ DeleteApprover(c)
                      \/ ListConfiguration(c)
                      \/ UpdateSettings(c)
         PROVE     DeleteReport(c) \/ AddItem(c) \/ AddItemInserts(c) \/ UpdateItem(c)
                \/ UpdateItemWrites(c) \/ DeleteItem(c) \/ DeleteItemWrites(c)
                \/ UploadReceipt(c) \/ ServeReceipt(c) \/ Submit(c) \/ Decide(c)
                \/ DecideWrites(c) \/ MarkPaid(c) \/ PayWrites(c) \/ DecisionLogs(c)
                \/ RevertToDraft(c) \/ ListPendingApprovals(c) \/ ListPendingCounts(c)
                \/ ListFinanceQueue(c) \/ ListFinanceCounts(c) \/ GetAnalytics(c)
                \/ AnalyticsByCategory(c) \/ AnalyticsByDepartment(c)
  BY <1>0 DEF ExpenseDeskNext, Serving, MonthTurns
<1>2. calls[c].op \in ExpenseOps BY DEF ExpensesInv, Entered
<1>3. ~CreateReport(c) BY DEF CreateReport, Free
<1>4. ~CreateReportNumbers(c) BY <1>2 DEF CreateReportNumbers, At, ExpenseOps
<1>5. ~CreateReportInserts(c) BY <1>2 DEF CreateReportInserts, At, ExpenseOps
<1>6. ~ListMyReports(c) BY DEF ListMyReports, Free
<1>7. ~ListMyReportsCounts(c) BY <1>2 DEF ListMyReportsCounts, At, ExpenseOps
<1>8. ~GetReport(c) BY DEF GetReport, Free
<1>9. ~UpdateDraft(c) BY DEF UpdateDraft, Free
<1>10. ~AddPolicy(c) BY DEF AddPolicy, Free
<1>11. ~ShowPolicy(c) BY DEF ShowPolicy, Free
<1>12. ~EditPolicy(c) BY DEF EditPolicy, Free
<1>13. ~RetirePolicy(c) BY DEF RetirePolicy, Free
<1>14. ~CreateApprover(c) BY DEF CreateApprover, Free
<1>15. ~UpdateApprover(c) BY DEF UpdateApprover, Free
<1>16. ~DeleteApprover(c) BY DEF DeleteApprover, Free
<1>17. ~ListConfiguration(c) BY DEF ListConfiguration, Free
<1>18. ~UpdateSettings(c) BY DEF UpdateSettings, Free
<1> QED BY <1>1, <1>2, <1>3, <1>4, <1>5, <1>6, <1>7, <1>8, <1>9, <1>10, <1>11, <1>12, <1>13,
     <1>14, <1>15, <1>16, <1>17, <1>18

----

LEMMA ReportsFinite ==
    ASSUME NEW db, HasTables(db)
    PROVE  IsFiniteSet(DOMAIN db.reports) /\ Cardinality(DOMAIN db.reports) \in Nat
<1>1. DOMAIN db.reports \in SUBSET (1..db.made) /\ IsFiniteSet(1..db.made)
  BY FS_Interval DEF HasTables
<1> QED BY <1>1, FS_Subset, FS_CardinalityType

(* The number read is greater than those of its month. *)
LEMMA NextNumber ==
    ASSUME NEW db, NumbersTable(db), NEW month
    PROVE  LET next == GenerateExpenseReportNumber(db, month)
           IN  /\ next \in Nat
               /\ (~db.turned /\ month = db.month) =>
                    /\ \A r \in DOMAIN db.reports : db.reports[r].number[2] < next
                    /\ ~db.removed => next = Cardinality(DOMAIN db.reports) + 1
<1> DEFINE of == {s \in DOMAIN db.reports : db.reports[s].number[1] = month}
           nums == {0} \cup {db.reports[r].number[2] : r \in of}
           next == GenerateExpenseReportNumber(db, month)
<1>1. IsFiniteSet(DOMAIN db.reports) /\ Cardinality(DOMAIN db.reports) \in Nat
  BY ReportsFinite DEF NumbersTable
<1>2. IsFiniteSet(of) BY <1>1, FS_Subset
<1>3. IsFiniteSet({db.reports[r].number[2] : r \in of})
  <2> DEFINE f == [r \in of |-> db.reports[r].number[2]]
             image == {db.reports[r].number[2] : r \in of}
  <2>1. \A t \in image : \E s \in of : f[s] = t OBVIOUS
  <2> HIDE DEF of, f, image
  <2>2. IsFiniteSet(image) BY <1>2, <2>1, ImageFinite
  <2> QED BY <2>2 DEF image
<1>4. IsFiniteSet(nums) BY <1>3, FS_Singleton, FS_Union
<1>5. nums \subseteq Nat /\ nums # {} BY DEF NumbersTable
<1>6. Max(nums) \in nums /\ \A x \in nums : x <= Max(nums)
  <2>1. nums \subseteq Int BY <1>5
  <2> HIDE DEF nums
  <2> QED BY <1>4, <1>5, <2>1, MaxIs
<1>7. next = Max(nums) + 1 BY DEF GenerateExpenseReportNumber
<1> HIDE DEF next
<1>8. next \in Nat BY <1>5, <1>6, <1>7
<1>9. ASSUME ~db.turned, month = db.month, NEW r \in DOMAIN db.reports
      PROVE  db.reports[r].number[2] < next
  <2>1. r \in of /\ db.reports[r].number[2] \in Nat BY <1>9 DEF NumbersTable
  <2>2. db.reports[r].number[2] \in nums BY <2>1
  <2> HIDE DEF nums
  <2>3. db.reports[r].number[2] <= Max(nums) /\ Max(nums) \in Nat BY <1>5, <1>6, <2>2
  <2> HIDE DEF of
  <2> QED BY <1>7, <2>1, <2>3
<1>10. ASSUME ~db.turned, month = db.month, ~db.removed
       PROVE  next = Cardinality(DOMAIN db.reports) + 1
  <2> DEFINE n == Cardinality(DOMAIN db.reports)
  <2>1. of = DOMAIN db.reports BY <1>10 DEF NumbersTable
  <2>2. nums = {0} \cup 1..n BY <1>10, <2>1 DEF NumbersTable
  <2> HIDE DEF nums, n
  <2>3. n \in Nat BY <1>1 DEF n
  <2>4. Max(nums) = n BY <1>6, <2>2, <2>3
  <2> QED BY <1>7, <2>4 DEF n
<1> QED BY <1>8, <1>9, <1>10 DEF next

LEMMA NumbersStepped ==
    ASSUME NumbersInv, ListsInv, NEW c \in Callers, Moved(c), NumbersTable(rows'),
           NumberOK(rows', c, calls'[c]),
           \A d \in Callers \ {c} : NumberOK(rows', d, calls[d]),
           rows'.agents = rows.agents,
           (Alone /\ DOMAIN rows.agents = {}) => ListOK(rows', calls'[c])
    PROVE  NumbersInv' /\ ListsInv'
<1>1. \A d \in Callers : NumberOK(rows', d, calls'[d]) BY DEF Moved
<1>2. NumbersInv' BY <1>1 DEF Moved, NumbersInv
<1> QED BY <1>2, ListsStepped

LEMMA NumbersRead ==
    ASSUME NumbersInv, ListsInv, NEW c \in Callers, Moved(c), rows' = rows,
           NumberOK(rows, c, calls'[c]),
           (Alone /\ DOMAIN rows.agents = {}) => ListOK(rows, calls'[c])
    PROVE  NumbersInv' /\ ListsInv'
<1>1. NumbersTable(rows') /\ \A d \in Callers : NumberOK(rows', d, calls[d]) BY DEF NumbersInv
<1> QED BY <1>1, NumbersStepped

LEMMA NumberAnswered ==
    ASSUME NEW db, NEW c \in Callers, NEW op \in NumbersOps, NEW status
    PROVE  NumberOK(db, c, Answered(op, status)) /\ Answered(op, status).at # "gone"
<1>1. Answered(op, status).op = op /\ Answered(op, status).at = "answered" BY DEF Answered
<1> HIDE DEF Answered
<1> QED BY <1>1 DEF NumberOK

(* A report that is inserted, with a number that is greater than all others. *)
LEMMA ReportInserted ==
    ASSUME NEW db, NumbersTable(db), NEW c, NEW call, NumberOK(db, c, call),
           call.op = "createReport", call.at = "insert"
    PROVE  /\ NumbersTable(CreateExpenseReport([db EXCEPT !.holder = @ \ {c}],
                                               ReportRow(call.by, call.dept, call.number)))
           /\ ~NumberFree(db, call.number) => db.turned
<1> DEFINE freed == [db EXCEPT !.holder = @ \ {c}]
           row == ReportRow(call.by, call.dept, call.number)
           to == CreateExpenseReport(freed, row)
           new == db.made + 1
           n == Cardinality(DOMAIN db.reports)
<1>1. HasTables(db) /\ n \in Nat /\ new \in Nat /\ new \notin DOMAIN db.reports
  BY ReportsFinite DEF NumbersTable, HasTables
<1>2. /\ DOMAIN to = DOMAIN db /\ to.made = new /\ to.reports = With(db.reports, new, row)
      /\ to.items = db.items /\ to.policies = db.policies /\ to.approvers = db.approvers
      /\ to.retired = db.retired /\ to.turned = db.turned /\ to.refused = db.refused
      /\ to.removed = db.removed /\ to.month = db.month
  BY <1>1 DEF CreateExpenseReport, HasTables
<1>3. row.number = call.number /\ DOMAIN row = DOMAIN ReportRow(NoText, NoText, <<0, 0>>)
  BY DEF ReportRow
<1> HIDE DEF to, row, freed
<1>4. /\ DOMAIN to.reports = DOMAIN db.reports \cup {new} /\ to.reports[new] = row
      /\ \A i \in DOMAIN db.reports : to.reports[i] = db.reports[i]
  BY <1>1, <1>2 DEF With
<1>5. call.number = <<call.number[1], call.number[2]>> /\ call.number[2] \in Nat BY DEF NumberOK
<1>6. HasTables(to)
  BY <1>1, <1>2, <1>4, <1>3 DEF HasTables
<1>7. to.refused => to.turned BY <1>2 DEF NumbersTable
<1>8. ASSUME NEW r \in DOMAIN to.reports
      PROVE  /\ to.reports[r].number = <<to.reports[r].number[1], to.reports[r].number[2]>>
             /\ to.reports[r].number[2] \in Nat
             /\ ~to.turned => to.reports[r].number[1] = to.month
  BY <1>2, <1>3, <1>4, <1>5 DEF NumbersTable, NumberOK
<1>9. ASSUME ~to.turned, ~to.removed
      PROVE  {to.reports[r].number[2] : r \in DOMAIN to.reports} = 1..Cardinality(DOMAIN to.reports)
  <2>1. Cardinality(DOMAIN to.reports) = n + 1 BY <1>1, <1>4, ReportsFinite, FS_AddElement
  <2>2. {db.reports[r].number[2] : r \in DOMAIN db.reports} = 1..n /\ call.number[2] = n + 1
    BY <1>2, <1>9 DEF NumbersTable, NumberOK
  <2>3. {to.reports[r].number[2] : r \in DOMAIN to.reports}
          = {db.reports[r].number[2] : r \in DOMAIN db.reports} \cup {call.number[2]}
    BY <1>3, <1>4
  <2> HIDE DEF n
  <2>4. 1..n + 1 = 1..n \cup {n + 1} BY <1>1
  <2> QED BY <2>1, <2>2, <2>3, <2>4
<1>10. ASSUME ~NumberFree(db, call.number), ~db.turned PROVE FALSE
  <2>1. PICK r \in DOMAIN db.reports : db.reports[r].number = call.number BY <1>10 DEF NumberFree
  <2>2. db.reports[r].number[2] < call.number[2] /\ call.number[2] \in Nat BY <1>10 DEF NumberOK
  <2> QED BY <2>1, <2>2
<1>11. NumbersTable(to) BY <1>6, <1>7, <1>8, <1>9 DEF NumbersTable
<1> QED BY <1>10, <1>11 DEF to, freed, row

LEMMA DraftRenamed ==
    ASSUME NEW db, NumbersTable(db), NEW r, NEW title
    PROVE  LET to == UpdateExpenseReportDraft(db, r, title)
           IN  /\ NumbersTable(to) /\ to.agents = db.agents
               /\ \A c \in Callers : \A call : NumberOK(db, c, call) => NumberOK(to, c, call)
<1> DEFINE to == UpdateExpenseReportDraft(db, r, title)
<1>1. CASE ~(r \in DOMAIN db.reports /\ db.reports[r].status = "draft")
  BY <1>1 DEF UpdateExpenseReportDraft
<1>2. CASE r \in DOMAIN db.reports /\ db.reports[r].status = "draft"
  <2> DEFINE row == [db.reports[r] EXCEPT !.title = title]
  <2>1. HasTables(db) BY DEF NumbersTable
  <2>2. /\ DOMAIN to = DOMAIN db /\ to.made = db.made
        /\ to.reports = [i \in DOMAIN db.reports |-> IF i = r THEN row ELSE db.reports[i]]
        /\ to.items = db.items /\ to.policies = db.policies /\ to.approvers = db.approvers
        /\ to.retired = db.retired /\ to.turned = db.turned /\ to.refused = db.refused
        /\ to.removed = db.removed /\ to.month = db.month /\ to.holder = db.holder
        /\ to.agents = db.agents
    BY <1>2, <2>1 DEF UpdateExpenseReportDraft, Changed, HasTables
  <2>3. DOMAIN row = DOMAIN db.reports[r] /\ row.number = db.reports[r].number
    BY <1>2, <2>1 DEF HasTables, ReportRow
  <2> HIDE DEF to, row
  <2>4. /\ DOMAIN to.reports = DOMAIN db.reports
        /\ \A i \in DOMAIN db.reports : /\ DOMAIN to.reports[i] = DOMAIN db.reports[i]
                                        /\ to.reports[i].number = db.reports[i].number
    BY <2>2, <2>3
  <2>5. {to.reports[i].number[2] : i \in DOMAIN to.reports}
          = {db.reports[i].number[2] : i \in DOMAIN db.reports}
    BY <2>4
  <2>6. HasTables(to) BY <2>1, <2>2, <2>4 DEF HasTables
  <2>7. NumbersTable(to) BY <2>2, <2>4, <2>5, <2>6 DEF NumbersTable
  <2>8. ASSUME NEW c \in Callers, NEW call, NumberOK(db, c, call) PROVE NumberOK(to, c, call)
    BY <2>2, <2>4, <2>8 DEF NumberOK
  <2> QED BY <2>2, <2>7, <2>8 DEF to
<1> QED BY <1>1, <1>2

LEMMA DraftRemoved ==
    ASSUME NEW db, NumbersTable(db), NEW r
    PROVE  LET to == DeleteExpenseReportDraft(db, r)
           IN  /\ NumbersTable(to) /\ to.agents = db.agents
               /\ \A c \in Callers : \A call : NumberOK(db, c, call) => NumberOK(to, c, call)
<1> DEFINE to == DeleteExpenseReportDraft(db, r)
<1>1. CASE ~(r \in DOMAIN db.reports /\ db.reports[r].status = "draft")
  <2>1. to = db BY <1>1 DEF DeleteExpenseReportDraft
  <2> QED BY <2>1
<1>2. CASE r \in DOMAIN db.reports /\ db.reports[r].status = "draft"
  <2> DEFINE its == {i \in DOMAIN db.items : db.items[i].report = r}
  <2>1. HasTables(db) BY DEF NumbersTable
  <2>2. /\ DOMAIN to = DOMAIN db /\ to.made = db.made
        /\ to.reports = Without(db.reports, {r}) /\ to.items = Without(db.items, its)
        /\ to.policies = db.policies /\ to.approvers = db.approvers
        /\ to.retired = db.retired /\ to.turned = db.turned /\ to.refused = db.refused
        /\ to.removed = TRUE /\ to.month = db.month /\ to.holder = db.holder
        /\ to.agents = db.agents
    BY <1>2, <2>1 DEF DeleteExpenseReportDraft, HasTables
  <2> HIDE DEF to, its
  <2>3. /\ DOMAIN to.reports \subseteq DOMAIN db.reports
        /\ \A i \in DOMAIN to.reports : to.reports[i] = db.reports[i]
        /\ DOMAIN to.items \subseteq DOMAIN db.items
        /\ \A i \in DOMAIN to.items : to.items[i] = db.items[i]
    BY <2>2 DEF Without, Restrict
  <2>4. HasTables(to) BY <2>1, <2>2, <2>3 DEF HasTables
  <2>5. NumbersTable(to)
    <3>1. to.removed /\ (to.refused => to.turned) /\ to.turned = db.turned /\ to.month = db.month
      BY <2>2 DEF NumbersTable
    <3>2. ASSUME NEW s \in DOMAIN to.reports
          PROVE  LET number == to.reports[s].number
                 IN  /\ number = <<number[1], number[2]>> /\ number[2] \in Nat
                     /\ ~to.turned => number[1] = to.month
      BY <2>3, <3>1 DEF NumbersTable
    <3> QED BY <2>4, <3>1, <3>2 DEF NumbersTable
  <2>6. ASSUME NEW c \in Callers, NEW call, NumberOK(db, c, call) PROVE NumberOK(to, c, call)
    BY <2>2, <2>3, <2>6 DEF NumberOK
  <2> QED BY <2>2, <2>5, <2>6 DEF to
<1> QED BY <1>1, <1>2

LEMMA NumbersKept ==
    ASSUME NumbersInv, ListsInv, part = "numbers", ExpenseDeskNext
    PROVE  NumbersInv' /\ ListsInv' /\ part' = part
<1>1. /\ NumbersTable(rows) /\ DOMAIN calls = Callers
      /\ \A d \in Callers : NumberOK(rows, d, calls[d])
  BY DEF NumbersInv
<1>2. CASE MonthTurns
  <2> DEFINE to == [rows EXCEPT !.month = @ + 1, !.turned = TRUE]
  <2>1. rows' = to /\ calls' = calls /\ part' = part BY <1>2 DEF MonthTurns, Store
  <2>2. /\ DOMAIN to = DOMAIN rows /\ to.made = rows.made /\ to.reports = rows.reports
        /\ to.items = rows.items /\ to.policies = rows.policies /\ to.approvers = rows.approvers
        /\ to.retired = rows.retired /\ to.turned /\ to.holder = rows.holder
        /\ to.agents = rows.agents
    BY <1>1 DEF NumbersTable, HasTables
  <2> HIDE DEF to
  <2>3. HasTables(to) BY <1>1, <2>2 DEF NumbersTable, HasTables
  <2>4. NumbersTable(to) BY <1>1, <2>2, <2>3 DEF NumbersTable
  <2>5. \A d \in Callers : NumberOK(to, d, calls[d]) BY <1>1, <2>2 DEF NumberOK
  <2>6. Alone' <=> Alone BY <2>1 DEF Alone
  <2>7. ASSUME NEW d \in Callers, ListOK(rows, calls[d]) PROVE ListOK(to, calls[d])
    BY <2>2, <2>7 DEF CountOf, CountExpenseReportsBySubmitter, ListExpenseReportsBySubmitter,
       CountPendingApprovalsForUser, ListPendingApprovalsForUser, CountExpenseReportsByStatus,
       ListExpenseReportsByStatus, ListOK
  <2>8. ListsInv' BY <1>1, <2>1, <2>2, <2>6, <2>7 DEF ListsInv
  <2> QED BY <1>1, <2>1, <2>4, <2>5, <2>8 DEF NumbersInv
<1>3. ASSUME NEW c \in Callers, CreateReport(c) PROVE NumbersInv' /\ ListsInv' /\ part' = part
  <2>1. PICK u, dept : Begin(c, [op |-> "createReport", at |-> "lock", began |-> rows.month,
                                 by |-> u, dept |-> dept])
    BY <1>3 DEF CreateReport
  <2> DEFINE call == [op |-> "createReport", at |-> "lock", began |-> rows.month, by |-> u,
                      dept |-> dept]
  <2>2. call.at = "lock" /\ NumberOK(rows, c, call) /\ ListOK(rows, call) /\ Begin(c, call)
    BY <2>1 DEF NumberOK, NumbersOps, ListOK, ListOps
  <2> HIDE DEF call
  <2>3. rows' = rows /\ calls[c].at # "gone" BY <1>3 DEF CreateReport, Reads, Free
  <2>4. Moved(c) /\ calls'[c] = call /\ part' = part BY <1>1, <2>2, <2>3, Moves
  <2> QED BY <2>2, <2>3, <2>4, NumbersRead
<1>4. ASSUME NEW c \in Callers, CreateReportNumbers(c) PROVE NumbersInv' /\ ListsInv' /\ part' = part
  <2> DEFINE next == GenerateExpenseReportNumber(rows, calls[c].began)
             number == <<rows.month, next>>
             call == [op |-> "createReport", at |-> "insert", number |-> number,
                      by |-> calls[c].by, dept |-> calls[c].dept]
             to == [rows EXCEPT !.holder = {c}]
  <2>1. /\ calls[c].op = "createReport" /\ calls[c].at = "lock" /\ rows.holder = {}
        /\ rows' = to /\ Continue(c, call)
    BY <1>4 DEF CreateReportNumbers, At, AcquireExpenseReportNumberLock, Store
  <2>2. /\ DOMAIN to = DOMAIN rows /\ to.made = rows.made /\ to.reports = rows.reports
        /\ to.items = rows.items /\ to.policies = rows.policies /\ to.approvers = rows.approvers
        /\ to.retired = rows.retired /\ to.turned = rows.turned /\ to.holder = {c}
        /\ to.refused = rows.refused /\ to.removed = rows.removed /\ to.month = rows.month
        /\ to.agents = rows.agents
    BY <1>1 DEF NumbersTable, HasTables
  <2> HIDE DEF to
  <2>3. HasTables(to) BY <1>1, <2>2 DEF NumbersTable, HasTables
  <2>4. NumbersTable(to) BY <1>1, <2>2, <2>3 DEF NumbersTable
  <2>5. /\ next \in Nat
        /\ ~rows.turned =>
             /\ \A r \in DOMAIN rows.reports : rows.reports[r].number[2] < next
             /\ ~rows.removed => next = Cardinality(DOMAIN rows.reports) + 1
    BY <1>1, <2>1, NextNumber DEF NumberOK
  <2> HIDE DEF next
  <2>6. call.op = "createReport" /\ call.at = "insert" /\ call.number = number OBVIOUS
  <2>7. number[1] = rows.month /\ number[2] = next /\ number = <<number[1], number[2]>> OBVIOUS
  <2> HIDE DEF call, number
  <2>8. NumberOK(to, c, call) /\ ListOK(to, call)
    BY <2>2, <2>5, <2>6, <2>7 DEF NumberOK, NumbersOps, ListOK, ListOps
  <2>9. Moved(c) /\ calls'[c] = call /\ part' = part BY <1>1, <2>1, <2>6, Moves
  <2>10. ASSUME NEW d \in Callers \ {c} PROVE NumberOK(to, d, calls[d])
    BY <1>1, <2>1, <2>2 DEF NumberOK
  <2> QED BY <2>1, <2>2, <2>4, <2>8, <2>9, <2>10, NumbersStepped
<1>5. ASSUME NEW c \in Callers, CreateReportInserts(c) PROVE NumbersInv' /\ ListsInv' /\ part' = part
  <2> DEFINE call == calls[c]
             freed == [rows EXCEPT !.holder = @ \ {c}]
             row == ReportRow(call.by, call.dept, call.number)
  <2>1. /\ call.op = "createReport" /\ call.at = "insert"
        /\ \/ rows' = CreateExpenseReport(freed, row)
           \/ ~NumberFree(rows, call.number) /\ rows' = [freed EXCEPT !.refused = TRUE]
    BY <1>5 DEF CreateReportInserts, At, Store
  <2>2. PICK status : Continue(c, Answered("createReport", status))
    BY <1>5, <2>1 DEF CreateReportInserts, Answer
  <2>3. /\ NumbersTable(CreateExpenseReport(freed, row))
        /\ ~NumberFree(rows, call.number) => rows.turned
    BY <1>1, <2>1, ReportInserted
  <2>4. rows.holder = {c} BY <1>1, <2>1 DEF NumberOK
  <2>5. /\ NumbersTable(rows') /\ rows'.turned = rows.turned /\ rows'.month = rows.month
        /\ rows'.agents = rows.agents
    <3>1. CASE rows' = CreateExpenseReport(freed, row)
      <4>1. /\ rows'.turned = rows.turned /\ rows'.month = rows.month
            /\ rows'.agents = rows.agents
        <5>1. DOMAIN rows = DOMAIN freed /\ freed.turned = rows.turned /\ freed.month = rows.month
              /\ freed.agents = rows.agents
          BY <1>1 DEF NumbersTable, HasTables
        <5>2. {"turned", "month", "agents", "reports", "made", "log"} \subseteq DOMAIN freed
          BY <1>1, <5>1 DEF NumbersTable, HasTables
        <5> HIDE DEF freed, row
        <5> QED BY <3>1, <5>1, <5>2 DEF CreateExpenseReport
      <4> QED BY <2>3, <3>1, <4>1
    <3>2. CASE ~NumberFree(rows, call.number) /\ rows' = [freed EXCEPT !.refused = TRUE]
      <4> DEFINE to == [freed EXCEPT !.refused = TRUE]
      <4>1. /\ DOMAIN to = DOMAIN rows /\ to.made = rows.made /\ to.reports = rows.reports
            /\ to.items = rows.items /\ to.policies = rows.policies
            /\ to.approvers = rows.approvers
            /\ to.retired = rows.retired /\ to.turned = rows.turned
            /\ to.removed = rows.removed /\ to.month = rows.month /\ to.agents = rows.agents
        BY <1>1 DEF NumbersTable, HasTables
      <4>2. rows' = to BY <3>2
      <4> HIDE DEF to
      <4>3. HasTables(to) BY <1>1, <4>1 DEF NumbersTable, HasTables
      <4>4. NumbersTable(to) BY <1>1, <2>3, <3>2, <4>1, <4>3 DEF NumbersTable
      <4> QED BY <4>1, <4>2, <4>4
    <3> QED BY <2>1, <3>1, <3>2
  <2>6. "createReport" \in NumbersOps BY DEF NumbersOps
  <2>7. NumberOK(rows', c, Answered("createReport", status))
        /\ Answered("createReport", status).at # "gone"
    BY <2>6, NumberAnswered
  <2>10. ListOK(rows', Answered("createReport", status)) BY DEF ListOK, ListOps, Answered
  <2>8. Moved(c) /\ calls'[c] = Answered("createReport", status) /\ part' = part
    BY <1>1, <2>1, <2>2, <2>7, Moves
  <2>9. ASSUME NEW d \in Callers \ {c} PROVE NumberOK(rows', d, calls[d])
    BY <1>1, <2>4, <2>5 DEF NumberOK
  <2> QED BY <2>5, <2>7, <2>8, <2>9, <2>10, NumbersStepped
<1>6. ASSUME NEW c \in Callers, NEW op \in NumbersOps \ ListOps, NEW status,
             AnswerAtOnce(c, op, status), rows'.agents = rows.agents, calls[c].at # "gone",
             NumbersTable(rows'), \A d \in Callers : NumberOK(rows', d, calls[d])
      PROVE  NumbersInv' /\ ListsInv' /\ part' = part
  BY NumberAnswered, <1>1, <1>6, Moves, NumbersStepped DEF AnswerAtOnce, ListOK, Answered
<1>7. ASSUME NEW c \in Callers, ListMyReports(c) PROVE NumbersInv' /\ ListsInv' /\ part' = part
  <2>1. PICK u, status : Begin(c, [op |-> "myReports", at |-> "count", by |-> u,
                 status |-> status, listed |-> ListExpenseReportsBySubmitter(rows, u, status)])
    BY <1>7 DEF ListMyReports
  <2> DEFINE listed == ListExpenseReportsBySubmitter(rows, u, status)
             call == [op |-> "myReports", at |-> "count", by |-> u, status |-> status,
                      listed |-> listed]
  <2>2. call.at = "count" /\ NumberOK(rows, c, call) /\ Begin(c, call)
    BY <2>1 DEF NumberOK, NumbersOps
  <2>5. Cardinality(call.listed) = CountOf(rows, call)
    BY DEF CountOf, CountExpenseReportsBySubmitter
  <2>6. ListOK(rows, call) BY <2>5 DEF ListOK
  <2> HIDE DEF call
  <2>3. rows' = rows /\ calls[c].at # "gone" BY <1>7 DEF ListMyReports, Reads, Free
  <2>4. Moved(c) /\ calls'[c] = call /\ part' = part BY <1>1, <2>2, <2>3, Moves
  <2> QED BY <2>2, <2>3, <2>4, <2>6, NumbersRead
<1>8. ASSUME NEW c \in Callers, ListMyReportsCounts(c) PROVE NumbersInv' /\ ListsInv' /\ part' = part
  <2>1. PICK status : Continue(c, [op |-> "myReports", at |-> "answered",
                 listed |-> calls[c].listed, status |-> status,
                 total |-> CountExpenseReportsBySubmitter(rows, calls[c].by, calls[c].status)])
    BY <1>8 DEF ListMyReportsCounts
  <2> DEFINE listed == calls[c].listed
             total == CountExpenseReportsBySubmitter(rows, calls[c].by, calls[c].status)
             call == [op |-> "myReports", at |-> "answered", listed |-> listed,
                      total |-> total, status |-> status]
  <2>2. call.at = "answered" /\ NumberOK(rows, c, call) /\ Continue(c, call)
    BY <2>1 DEF NumberOK, NumbersOps
  <2>5. ASSUME Alone, DOMAIN rows.agents = {} PROVE ListOK(rows, call)
    <3>1. ListOK(rows, calls[c]) /\ calls[c].op = "myReports" /\ calls[c].at = "count"
      BY <1>8, <2>5 DEF ListsInv, ListMyReportsCounts, At
    <3>2. Cardinality(listed) = total BY <3>1 DEF ListOK, ListOps, CountOf
    <3> HIDE DEF listed, total
    <3>3. call.at = "answered" /\ call.total = total /\ call.listed = listed OBVIOUS
    <3> HIDE DEF call
    <3> QED BY <3>2, <3>3 DEF ListOK
  <2> HIDE DEF call
  <2>3. rows' = rows /\ calls[c].at # "gone" BY <1>8 DEF ListMyReportsCounts, Reads, At
  <2>4. Moved(c) /\ calls'[c] = call /\ part' = part BY <1>1, <2>2, <2>3, Moves
  <2> QED BY <2>2, <2>3, <2>4, <2>5, NumbersRead
<1>9. ASSUME NEW c \in Callers, GetReport(c) PROVE NumbersInv' /\ ListsInv' /\ part' = part
  <2>1. PICK status : AnswerAtOnce(c, "getReport", status) BY <1>9 DEF GetReport
  <2>2. rows' = rows /\ calls[c].at # "gone" /\ "getReport" \in NumbersOps \ ListOps
    BY <1>9 DEF GetReport, Reads, Free, NumbersOps, ListOps
  <2> QED BY <1>1, <1>6, <2>1, <2>2
<1>10. ASSUME NEW c \in Callers, UpdateDraft(c) PROVE NumbersInv' /\ ListsInv' /\ part' = part
  <2>1. PICK r : rows' = UpdateExpenseReportDraft(rows, r, "second") BY <1>10 DEF UpdateDraft, Store
  <2>2. /\ AnswerAtOnce(c, "updateReport", UpdateReportResponses.Done)
        /\ calls[c].at # "gone" /\ "updateReport" \in NumbersOps \ ListOps
    BY <1>10 DEF UpdateDraft, Free, NumbersOps, ListOps
  <2>3. /\ NumbersTable(rows') /\ rows'.agents = rows.agents
        /\ \A d \in Callers : NumberOK(rows', d, calls[d])
    BY <1>1, <2>1, DraftRenamed
  <2> QED BY <1>6, <2>2, <2>3
<1>11. ASSUME NEW c \in Callers, DeleteReport(c) PROVE NumbersInv' /\ ListsInv' /\ part' = part
  <2>1. PICK r : rows' = DeleteExpenseReportDraft(rows, r) BY <1>11 DEF DeleteReport, Store
  <2>2. /\ AnswerAtOnce(c, "deleteReport", DeleteReportResponses.Done)
        /\ calls[c].at # "gone" /\ "deleteReport" \in NumbersOps \ ListOps
    BY <1>11 DEF DeleteReport, Free, NumbersOps, ListOps
  <2>3. /\ NumbersTable(rows') /\ rows'.agents = rows.agents
        /\ \A d \in Callers : NumberOK(rows', d, calls[d])
    BY <1>1, <2>1, DraftRemoved
  <2> QED BY <1>6, <2>2, <2>3
<1> QED BY <1>2, <1>3, <1>4, <1>5, <1>7, <1>8, <1>9, <1>10, <1>11, NumbersActions

----
(* Expenses: two tables in which the items of a report are the same. *)
SameItems(db, to, r) ==
    /\ ItemsOf(to, r) = ItemsOf(db, r)
    /\ \A i \in ItemsOf(db, r) : /\ to.items[i].amount = db.items[i].amount
                                 /\ to.items[i].merchant = db.items[i].merchant

LEMMA ItemsFinite ==
    ASSUME NEW db, HasTables(db)
    PROVE  IsFiniteSet(DOMAIN db.items) /\ \A S \in SUBSET DOMAIN db.items : IsFiniteSet(S)
<1>1. DOMAIN db.items \in SUBSET (1..db.made) /\ IsFiniteSet(1..db.made)
  BY FS_Interval DEF HasTables
<1>2. IsFiniteSet(DOMAIN db.items) BY <1>1, FS_Subset
<1> QED BY <1>2, FS_Subset

LEMMA ItemsSumSame ==
    ASSUME NEW db, NEW to, HasTables(db), NEW r, SameItems(db, to, r)
    PROVE  SumExpenseItemsByReport(to, r) = SumExpenseItemsByReport(db, r)
<1> DEFINE S == ItemsOf(db, r)
           l == [i \in DOMAIN db.items |-> db.items[i].amount]
           m == [i \in DOMAIN to.items |-> to.items[i].amount]
<1>1. ItemsOf(to, r) = S /\ S \subseteq DOMAIN db.items /\ S \subseteq DOMAIN to.items
  BY DEF SameItems, ItemsOf
<1>2. \A s \in S : m[s] = l[s] BY <1>1 DEF SameItems
<1>3. IsFiniteSet(S) BY <1>1, ItemsFinite
<1>4. SumExpenseItemsByReport(to, r) = SetSum(m, S) /\ SumExpenseItemsByReport(db, r) = SetSum(l, S)
  BY <1>1, AddAllIsSum DEF SumExpenseItemsByReport
<1> HIDE DEF S, l, m
<1> QED BY <1>2, <1>3, <1>4, SumAgrees

LEMMA SharedSame ==
    ASSUME NEW db, NEW to, NEW r, NEW s, SameItems(db, to, r), SameItems(db, to, s)
    PROVE  Shared(to, r, s) = Shared(db, r, s)
BY DEF Shared, SameItems

(* No report is cleared that was not, and those that are have their items. *)
LEMMA FewSharedKept ==
    ASSUME NEW db, NEW to, FewShared(db), db.failed => to.failed,
           Cleared(to) \subseteq Cleared(db),
           \A r \in Cleared(to) : SameItems(db, to, r) /\ to.reports[r].by = db.reports[r].by
    PROVE  FewShared(to)
<1> SUFFICES ASSUME ~to.failed, NEW r \in Cleared(to), NEW s \in Cleared(to), r # s,
                    to.reports[r].by = to.reports[s].by,
                    NEW p \in Shared(to, r, s), NEW q \in Shared(to, r, s) PROVE  p = q
  BY DEF FewShared
<1>1. p \in Shared(db, r, s) /\ q \in Shared(db, r, s) BY SharedSame
<1> QED BY <1>1 DEF FewShared

(* A report that is as it was, and its items and agent too. *)
SameReport(db, to, r) ==
    /\ r \in DOMAIN db.reports /\ to.reports[r] = db.reports[r] /\ SameItems(db, to, r)
    /\ r \in DOMAIN to.agents <=> r \in DOMAIN db.agents
    /\ r \in DOMAIN db.agents => to.agents[r] = db.agents[r]
    /\ r \in to.auto <=> r \in db.auto

LEMMA ReportKept ==
    ASSUME NEW db, NEW to, TablesOK(db), NEW r, ReportOK(db, r), SameReport(db, to, r)
    PROVE  ReportOK(to, r)
<1>1. SumExpenseItemsByReport(to, r) = SumExpenseItemsByReport(db, r)
  BY ItemsSumSame DEF SameReport, TablesOK
<1>2. r \in db.auto => r \in DOMAIN db.agents BY DEF TablesOK
<1> QED BY <1>1, <1>2 DEF ReportOK, SameReport

----
(* A request that has moved keeps the invariant if the tables are kept, and if
   it is alone what it may rely on. *)
LEMMA ExpensesStepped ==
    ASSUME ExpensesInv, ListsInv, NEW c \in Callers, Moved(c),
           TablesOK(rows'), Entered(calls'[c]),
           DOMAIN rows'.agents = {} => DOMAIN rows.agents = {},
           AloneOK(rows, calls[c]) => AloneOK(rows', calls'[c]),
           (Alone /\ DOMAIN rows.agents = {} /\ DOMAIN rows'.agents = {}) =>
              ListOK(rows', calls'[c])
    PROVE  ExpensesInv' /\ ListsInv'
<1>1. ListsInv' BY ListsStepped
<1>2. \A d \in Callers : Entered(calls'[d]) BY DEF Moved, ExpensesInv
<1>3. ASSUME NEW e \in Callers, \A d \in Callers \ {e} : calls'[d] = Gone
      PROVE  AloneOK(rows', calls'[e])
  BY <1>3 DEF Moved, Gone, ExpensesInv
<1> QED BY <1>1, <1>2, <1>3 DEF ExpensesInv, Moved

(* What an answered request, or one that only reads, has to find: nothing. *)
Plain(call) == call.at \notin {"insert", "write", "log"}

LEMMA PlainStands == \A db, call, r : Plain(call) => Stands(db, call) /\ ~Logging(call, r)
BY DEF Plain, Stands, Logging

(* Items change in a draft only: nothing that was decided rests on them. *)
LEMMA ClearedIsNoDraft ==
    ASSUME NEW db, \A r \in DOMAIN db.reports : ReportOK(db, r), NEW r \in Cleared(db)
    PROVE  db.reports[r].status # "draft"
BY DEF ReportOK, Cleared

SameButItems(db, to) ==
    /\ to.reports = db.reports /\ to.agents = db.agents /\ to.auto = db.auto
    /\ to.log = db.log /\ to.failed = db.failed

LEMMA ItemsChanged ==
    ASSUME NEW db, NEW to, TablesOK(db), SameButItems(db, to), NEW call, NEW next,
           AloneOK(db, call), call.at # "log", Plain(next),
           \A r \in DOMAIN db.reports : SameItems(db, to, r) \/ db.reports[r].status = "draft"
    PROVE  AloneOK(to, next)
<1>1. \A r \in DOMAIN db.reports : ReportOK(db, r) BY DEF AloneOK
<1>2. ASSUME NEW r \in DOMAIN to.reports PROVE ReportOK(to, r)
  <2>1. CASE SameItems(db, to, r)
    BY <1>2, <2>1, <1>1, ReportKept DEF SameReport, SameButItems
  <2>2. CASE db.reports[r].status = "draft" BY <1>1, <1>2, <2>2 DEF ReportOK, SameButItems
  <2> QED BY <1>2, <2>1, <2>2 DEF SameButItems
<1>3. Cleared(to) = Cleared(db) BY DEF Cleared, SameButItems
<1>4. ASSUME NEW r \in Cleared(to) PROVE SameItems(db, to, r) /\ to.reports[r].by = db.reports[r].by
  BY <1>1, <1>3, ClearedIsNoDraft DEF Cleared, SameButItems
<1>5. FewShared(to) BY <1>3, <1>4, FewSharedKept DEF AloneOK, SameButItems
<1>6. ASSUME ~to.failed, NEW r \in DOMAIN to.reports PROVE LogFits(to, r)
  BY <1>6 DEF AloneOK, Logging, SameButItems, LogFits
<1> QED BY <1>2, <1>5, <1>6, PlainStands DEF AloneOK

(* An item is added, ... *)
LEMMA ItemAdded ==
    ASSUME NEW db, TablesOK(db), NEW r \in DOMAIN db.reports, NEW input \in ItemInputs
    PROVE  LET to == CreateExpenseItem(db, r, input)
           IN  /\ TablesOK(to) /\ SameButItems(db, to)
               /\ \A s \in DOMAIN db.reports \ {r} : SameItems(db, to, s)
<1> DEFINE to == CreateExpenseItem(db, r, input)
           row == ItemRow(r, input, FALSE)
           new == db.made + 1
<1>1. HasTables(db) /\ new \in Nat /\ db.made \in Nat BY DEF TablesOK, HasTables
<1>2. /\ DOMAIN to = DOMAIN db /\ to.made = new /\ to.items = With(db.items, new, row)
      /\ to.reports = db.reports /\ to.policies = db.policies /\ to.approvers = db.approvers
      /\ to.log = db.log /\ to.agents = db.agents /\ to.auto = db.auto /\ to.retired = db.retired
      /\ to.failed = db.failed
  BY <1>1 DEF CreateExpenseItem, HasTables
<1>3. /\ DOMAIN row = {"report", "category", "amount", "merchant", "weekend", "receipt"}
      /\ row.report = r /\ row.amount \in Int
  BY ExpenseDeskAssumption DEF ItemRow
<1> HIDE DEF to, row
<1>4. /\ DOMAIN to.items = DOMAIN db.items \cup {new} /\ to.items[new] = row
      /\ \A i \in DOMAIN db.items : to.items[i] = db.items[i] /\ i # new
  BY <1>1, <1>2 DEF HasTables, With
<1>5. HasTables(to)
  <2>1. 1..db.made \subseteq 1..new /\ new \in 1..new BY <1>1
  <2> HIDE DEF new
  <2>2. DOMAIN to.reports \cup DOMAIN to.items \cup DOMAIN to.policies
            \cup DOMAIN to.approvers \cup to.retired \subseteq 1..to.made
    BY <1>1, <1>2, <1>4, <2>1 DEF HasTables
  <2>3. \A i \in DOMAIN to.items :
           DOMAIN to.items[i] = {"report", "category", "amount", "merchant", "weekend", "receipt"}
    BY <1>1, <1>3, <1>4 DEF HasTables
  <2> QED BY <1>1, <1>2, <2>2, <2>3 DEF HasTables
<1>6. \A i \in DOMAIN to.items : to.items[i].report \in DOMAIN to.reports /\ to.items[i].amount \in Int
  BY <1>2, <1>3, <1>4 DEF TablesOK
<1>7. TablesOK(to) BY <1>2, <1>5, <1>6 DEF TablesOK
<1>8. ASSUME NEW s \in DOMAIN db.reports \ {r} PROVE SameItems(db, to, s)
  BY <1>3, <1>4 DEF SameItems, ItemsOf
<1> QED BY <1>2, <1>7, <1>8 DEF SameButItems, to

(* ... rewritten, ... *)
LEMMA ItemRewritten ==
    ASSUME NEW db, TablesOK(db), NEW i, NEW input \in ItemInputs
    PROVE  LET to == RewriteItem(db, i, input)
           IN  /\ TablesOK(to) /\ SameButItems(db, to)
               /\ \A s \in DOMAIN db.reports :
                    SameItems(db, to, s) \/ (i \in DOMAIN db.items /\ s = db.items[i].report)
<1> DEFINE to == RewriteItem(db, i, input)
           Row(j) == ItemRow(db.items[j].report, input, db.items[j].receipt)
<1>1. HasTables(db) BY DEF TablesOK
<1>2. /\ DOMAIN to = DOMAIN db /\ to.made = db.made
      /\ to.items = [j \in DOMAIN db.items |-> IF j = i THEN Row(j) ELSE db.items[j]]
      /\ to.reports = db.reports /\ to.policies = db.policies /\ to.approvers = db.approvers
      /\ to.log = db.log /\ to.agents = db.agents /\ to.auto = db.auto /\ to.retired = db.retired
      /\ to.failed = db.failed
  BY <1>1 DEF RewriteItem, HasTables
<1>3. \A j : /\ DOMAIN Row(j) = {"report", "category", "amount", "merchant", "weekend", "receipt"}
             /\ Row(j).report = db.items[j].report /\ Row(j).amount \in Int
  BY ExpenseDeskAssumption DEF ItemRow
<1> HIDE DEF to, Row
<1>4. /\ DOMAIN to.items = DOMAIN db.items
      /\ \A j \in DOMAIN db.items : /\ to.items[j].report = db.items[j].report
                                    /\ to.items[j].amount \in Int
                                    /\ DOMAIN to.items[j] = DOMAIN db.items[j]
                                    /\ j # i => to.items[j] = db.items[j]
  <2>1. ASSUME NEW j \in DOMAIN db.items
        PROVE  /\ to.items[j].report = db.items[j].report
               /\ to.items[j].amount \in Int
               /\ DOMAIN to.items[j] = DOMAIN db.items[j]
               /\ j # i => to.items[j] = db.items[j]
    <3>1. CASE j = i
      <4>1. to.items[j] = Row(j) BY <1>2, <3>1
      <4> QED BY <1>1, <1>3, <3>1, <4>1 DEF HasTables
    <3>2. CASE j # i BY <1>2, <3>2 DEF TablesOK
    <3> QED BY <3>1, <3>2
  <2> QED BY <1>2, <2>1
<1>5. HasTables(to) BY <1>1, <1>2, <1>4 DEF HasTables
<1>6. TablesOK(to) BY <1>2, <1>4, <1>5 DEF TablesOK
<1>7. ASSUME NEW s \in DOMAIN db.reports, ~(i \in DOMAIN db.items /\ s = db.items[i].report)
      PROVE SameItems(db, to, s)
  BY <1>4, <1>7 DEF ItemsOf, SameItems
<1> QED BY <1>2, <1>6, <1>7 DEF SameButItems, to

(* ... or taken out, ... *)
LEMMA ItemRemoved ==
    ASSUME NEW db, TablesOK(db), NEW i
    PROVE  LET to == DeleteExpenseItem(db, i)
           IN  /\ TablesOK(to) /\ SameButItems(db, to)
               /\ \A s \in DOMAIN db.reports :
                    SameItems(db, to, s) \/ (i \in DOMAIN db.items /\ s = db.items[i].report)
<1> DEFINE to == DeleteExpenseItem(db, i)
<1>1. HasTables(db) BY DEF TablesOK
<1>2. /\ DOMAIN to = DOMAIN db /\ to.made = db.made /\ to.items = Without(db.items, {i})
      /\ to.reports = db.reports /\ to.policies = db.policies /\ to.approvers = db.approvers
      /\ to.log = db.log /\ to.agents = db.agents /\ to.auto = db.auto /\ to.retired = db.retired
      /\ to.failed = db.failed
  BY <1>1 DEF DeleteExpenseItem, HasTables
<1> HIDE DEF to
<1>3. /\ DOMAIN to.items = DOMAIN db.items \ {i}
      /\ \A j \in DOMAIN to.items : to.items[j] = db.items[j]
  BY <1>2 DEF Without, Restrict
<1>4. HasTables(to) BY <1>1, <1>2, <1>3 DEF HasTables
<1>5. TablesOK(to) BY <1>2, <1>3, <1>4 DEF TablesOK
<1>6. ASSUME NEW s \in DOMAIN db.reports, ~(i \in DOMAIN db.items /\ s = db.items[i].report)
      PROVE SameItems(db, to, s)
  BY <1>3, <1>6 DEF SameItems, ItemsOf
<1> QED BY <1>2, <1>5, <1>6 DEF SameButItems, to

(* ... or gets its receipt, which no sum and no comparison looks at. *)
LEMMA ReceiptUploaded ==
    ASSUME NEW db, TablesOK(db), NEW i
    PROVE  LET to == UpdateExpenseItemReceipt(db, i)
           IN  /\ TablesOK(to) /\ SameButItems(db, to)
               /\ \A s \in DOMAIN db.reports : SameItems(db, to, s)
<1> DEFINE to == UpdateExpenseItemReceipt(db, i)
<1>1. HasTables(db) BY DEF TablesOK
<1>2. /\ DOMAIN to = DOMAIN db /\ to.made = db.made
      /\ to.items = [j \in DOMAIN db.items |->
            IF j = i THEN [db.items[j] EXCEPT !.receipt = TRUE] ELSE db.items[j]]
      /\ to.reports = db.reports /\ to.policies = db.policies /\ to.approvers = db.approvers
      /\ to.log = db.log /\ to.agents = db.agents /\ to.auto = db.auto /\ to.retired = db.retired
      /\ to.failed = db.failed
  BY <1>1 DEF UpdateExpenseItemReceipt, HasTables
<1>3. \A j \in DOMAIN db.items :
        DOMAIN db.items[j] = {"report", "category", "amount", "merchant", "weekend", "receipt"}
  BY <1>1 DEF HasTables
<1> HIDE DEF to
<1>4. /\ DOMAIN to.items = DOMAIN db.items
      /\ \A j \in DOMAIN db.items : /\ to.items[j].report = db.items[j].report
                                    /\ to.items[j].amount = db.items[j].amount
                                    /\ to.items[j].merchant = db.items[j].merchant
                                    /\ DOMAIN to.items[j] = DOMAIN db.items[j]
  BY <1>2, <1>3
<1>5. HasTables(to) BY <1>1, <1>2, <1>4 DEF HasTables
<1>6. TablesOK(to) BY <1>2, <1>4, <1>5 DEF TablesOK
<1>7. ASSUME NEW s \in DOMAIN db.reports PROVE SameItems(db, to, s) BY <1>4 DEF SameItems, ItemsOf
<1> QED BY <1>2, <1>6, <1>7 DEF SameButItems, to

----
(* The row of one report changes, and what is kept for it: the agent, the log. *)
Statuses == Unsettled \cup {"approved", "rejected", "paid"}
AgentStates == {"due", "approved", "pending_approval", "accrues", "done"}

RowChanged(db, to, r) ==
    /\ r \in DOMAIN db.reports /\ DOMAIN to.reports = DOMAIN db.reports
    /\ to.reports[r].by = db.reports[r].by /\ to.items = db.items
    /\ \A s \in DOMAIN db.reports \ {r} :
         /\ to.reports[s] = db.reports[s] /\ to.log[s] = db.log[s]
         /\ s \in DOMAIN to.agents <=> s \in DOMAIN db.agents
         /\ s \in DOMAIN db.agents => to.agents[s] = db.agents[s]
         /\ s \in to.auto <=> s \in db.auto

LEMMA RowWritten ==
    ASSUME NEW db, NEW to, TablesOK(db), NEW r, RowChanged(db, to, r),
           DOMAIN to = DOMAIN db, to.made = db.made, to.policies = db.policies,
           to.approvers = db.approvers, to.retired = db.retired,
           DOMAIN to.reports[r] = DOMAIN db.reports[r], to.reports[r].status \in Statuses,
           DOMAIN db.log \subseteq DOMAIN to.log,
           \A s \in DOMAIN to.agents : to.agents[s] \in AgentStates, to.auto \subseteq DOMAIN to.agents
    PROVE  TablesOK(to)
<1>1. HasTables(db) BY DEF TablesOK
<1>2. \A s \in DOMAIN to.reports : /\ DOMAIN to.reports[s] = DOMAIN db.reports[s]
                                  /\ to.reports[s].status \in Statuses
  BY DEF RowChanged, TablesOK, Statuses
<1>3. HasTables(to) BY <1>1, <1>2 DEF HasTables, RowChanged
<1> QED BY <1>2, <1>3 DEF TablesOK, RowChanged, Statuses, AgentStates

LEMMA ItemsUntouched ==
    ASSUME NEW db, NEW to, to.items = db.items
    PROVE  \A r : SameItems(db, to, r)
BY DEF SameItems, ItemsOf

LEMMA RowChangedAlone ==
    ASSUME NEW db, NEW to, TablesOK(db), NEW r, RowChanged(db, to, r), NEW call, NEW next,
           AloneOK(db, call), ReportOK(to, r), FewShared(to), Stands(to, next),
           ~to.failed => ~db.failed, ~to.failed => (LogFits(to, r) \/ Logging(next, r)),
           \A s \in DOMAIN db.reports \ {r} : Logging(call, s) => Logging(next, s)
    PROVE  AloneOK(to, next)
<1>1. ASSUME NEW s \in DOMAIN to.reports PROVE ReportOK(to, s)
  <2>1. CASE s # r
    BY <1>1, <2>1, ItemsUntouched, ReportKept DEF RowChanged, SameReport, AloneOK
  <2> QED BY <2>1
<1>2. ASSUME ~to.failed, NEW s \in DOMAIN to.reports PROVE LogFits(to, s) \/ Logging(next, s)
  <2>1. CASE s # r
    BY <1>2, <2>1 DEF AloneOK, RowChanged, LogFits
  <2> QED BY <1>2, <2>1
<1> QED BY <1>1, <1>2 DEF AloneOK

(* If no report is cleared that was not, none shares more than it did. *)
LEMMA RowChangedShared ==
    ASSUME NEW db, NEW to, NEW r, RowChanged(db, to, r), FewShared(db), db.failed => to.failed,
           Cleared(to) \subseteq Cleared(db)
    PROVE  FewShared(to)
<1>1. \A s \in Cleared(to) : SameItems(db, to, s) /\ to.reports[s].by = db.reports[s].by
  BY ItemsUntouched DEF Cleared, RowChanged
<1> QED BY <1>1, FewSharedKept

LEMMA DraftGone ==
    ASSUME NEW db, TablesOK(db), NEW r
    PROVE  LET to == DeleteExpenseReportDraft(db, r)
           IN  /\ TablesOK(to) /\ to.agents = db.agents
               /\ \A call, next : (AloneOK(db, call) /\ call.at # "log" /\ Plain(next)) =>
                                     AloneOK(to, next)
<1> DEFINE to == DeleteExpenseReportDraft(db, r)
<1>1. CASE ~(r \in DOMAIN db.reports /\ db.reports[r].status = "draft")
  <2>1. to = db BY <1>1 DEF DeleteExpenseReportDraft
  <2>2. \A call, next : (AloneOK(db, call) /\ call.at # "log" /\ Plain(next)) => AloneOK(db, next)
    BY PlainStands DEF AloneOK, Logging
  <2> QED BY <2>1, <2>2
<1>2. CASE r \in DOMAIN db.reports /\ db.reports[r].status = "draft"
  <2> DEFINE its == {i \in DOMAIN db.items : db.items[i].report = r}
  <2>1. HasTables(db) BY DEF TablesOK
  <2>2. /\ DOMAIN to = DOMAIN db /\ to.made = db.made
        /\ to.reports = Without(db.reports, {r}) /\ to.items = Without(db.items, its)
        /\ to.log = Without(db.log, {r}) /\ to.policies = db.policies
        /\ to.approvers = db.approvers /\ to.retired = db.retired
        /\ to.agents = db.agents /\ to.auto = db.auto /\ to.failed = db.failed
    BY <1>2, <2>1 DEF DeleteExpenseReportDraft, HasTables
  <2>3. \A i \in DOMAIN db.items : i \in its <=> db.items[i].report = r OBVIOUS
  <2> HIDE DEF to, its
  <2>4. /\ DOMAIN to.reports = DOMAIN db.reports \ {r}
        /\ \A i \in DOMAIN to.reports : to.reports[i] = db.reports[i]
        /\ DOMAIN to.items = DOMAIN db.items \ its
        /\ \A i \in DOMAIN to.items : to.items[i] = db.items[i]
        /\ DOMAIN to.log = DOMAIN db.log \ {r}
        /\ \A i \in DOMAIN to.log : to.log[i] = db.log[i]
    BY <2>2 DEF Without, Restrict
  <2>5. HasTables(to) BY <2>1, <2>2, <2>4 DEF HasTables
  <2>6. TablesOK(to)
    <3>1. \A i \in DOMAIN to.items :
             to.items[i].report \in DOMAIN to.reports /\ to.items[i].amount \in Int
      BY <2>3, <2>4 DEF TablesOK
    <3> QED BY <2>2, <2>4, <2>5, <3>1 DEF TablesOK
  <2>7. ASSUME NEW call, NEW next, AloneOK(db, call), call.at # "log", Plain(next)
        PROVE  AloneOK(to, next)
    <3>1. ASSUME NEW s \in DOMAIN to.reports
          PROVE  SameItems(db, to, s) /\ SameReport(db, to, s) /\ ReportOK(to, s)
      <4>1. ItemsOf(to, s) = ItemsOf(db, s) /\ ItemsOf(to, s) \subseteq DOMAIN to.items
        BY <2>3, <2>4, <3>1 DEF ItemsOf
      <4>2. SameItems(db, to, s) BY <2>4, <4>1 DEF SameItems
      <4>3. SameReport(db, to, s) BY <2>2, <2>4, <3>1, <4>2 DEF SameReport
      <4>4. ReportOK(db, s) BY <2>4, <2>7, <3>1 DEF AloneOK
      <4> QED BY <4>2, <4>3, <4>4, ReportKept
    <3>2. Cleared(to) \subseteq Cleared(db) /\ Cleared(to) \subseteq DOMAIN to.reports
      BY <2>2, <2>4 DEF Cleared
    <3>3. \A s \in Cleared(to) : SameItems(db, to, s) /\ to.reports[s].by = db.reports[s].by
      BY <2>4, <3>1, <3>2
    <3>4. FewShared(to) BY <2>2, <2>7, <3>2, <3>3, FewSharedKept DEF AloneOK
    <3>5. ASSUME ~to.failed, NEW s \in DOMAIN to.reports PROVE LogFits(to, s)
      <4>1. LogFits(db, s) BY <2>2, <2>4, <2>7, <3>5 DEF AloneOK, Logging
      <4>2. to.log[s] = db.log[s] /\ to.reports[s] = db.reports[s] BY <2>4, <2>6, <3>5 DEF TablesOK
      <4> QED BY <4>1, <4>2 DEF LogFits
    <3> QED BY <2>7, <3>1, <3>4, <3>5, PlainStands DEF AloneOK
  <2> QED BY <2>2, <2>6, <2>7 DEF to
<1> QED BY <1>1, <1>2

(* Submit writes the sum of the items, and starts the agent. *)
SubmittedRow(db, r) ==
    [db.reports[r] EXCEPT !.status = "submitted", !.total = SumExpenseItemsByReport(db, r)]
Submitted(db, r) ==
    [CreateExpenseAuditLog(Changed(db, r, SubmittedRow(db, r)), r, "submitted")
       EXCEPT !.agents = With(@, r, "due")]

LEMMA SubmitWrites ==
    ASSUME NEW db, TablesOK(db), NEW r \in DOMAIN db.reports, db.reports[r].status = "draft"
    PROVE  LET to == Submitted(db, r)
           IN  /\ TablesOK(to) /\ r \in DOMAIN to.agents
               /\ \A call, next : (AloneOK(db, call) /\ call.at # "log" /\ Plain(next)) =>
                                     AloneOK(to, next)
<1> DEFINE to == Submitted(db, r)
           row == SubmittedRow(db, r)
<1>1. HasTables(db) /\ DOMAIN db.reports[r] = DOMAIN ReportRow(NoText, NoText, <<0, 0>>)
  BY DEF TablesOK, HasTables
<1>2. /\ DOMAIN row = DOMAIN db.reports[r] /\ row.status = "submitted"
      /\ row.total = SumExpenseItemsByReport(db, r) /\ row.by = db.reports[r].by
      /\ row.approver = db.reports[r].approver
  BY <1>1 DEF SubmittedRow, ReportRow
<1> HIDE DEF row
<1>3. /\ DOMAIN to = DOMAIN db /\ to.made = db.made /\ to.items = db.items
      /\ to.reports = [i \in DOMAIN db.reports |-> IF i = r THEN row ELSE db.reports[i]]
      /\ to.policies = db.policies /\ to.approvers = db.approvers /\ to.retired = db.retired
      /\ to.log = With(db.log, r, "submitted") /\ to.agents = With(db.agents, r, "due")
      /\ to.auto = db.auto /\ to.failed = db.failed
  BY <1>1 DEF Submitted, row, Changed, CreateExpenseAuditLog, HasTables
<1> HIDE DEF to
<1>4. /\ DOMAIN to.reports = DOMAIN db.reports /\ to.reports[r] = row
      /\ \A s \in DOMAIN db.reports \ {r} : to.reports[s] = db.reports[s]
      /\ DOMAIN to.log = DOMAIN db.log \cup {r} /\ to.log[r] = "submitted"
      /\ \A s \in DOMAIN db.log \ {r} : to.log[s] = db.log[s]
      /\ DOMAIN to.agents = DOMAIN db.agents \cup {r} /\ to.agents[r] = "due"
      /\ \A s \in DOMAIN db.agents \ {r} : to.agents[s] = db.agents[s]
  BY <1>3 DEF With
<1>5. DOMAIN db.reports \subseteq DOMAIN db.log BY DEF TablesOK
<1>6. RowChanged(db, to, r) BY <1>2, <1>3, <1>4, <1>5 DEF RowChanged
<1>7. TablesOK(to)
  BY <1>4, <1>3, <1>2, <1>6, RowWritten DEF TablesOK, AgentStates, Statuses, Unsettled
<1>8. ASSUME NEW call, NEW next, AloneOK(db, call), call.at # "log", Plain(next)
      PROVE  AloneOK(to, next)
  <2>1. ReportOK(db, r) BY <1>8 DEF AloneOK
  <2>2. r \notin db.auto /\ row.approver = NoText BY <1>2, <2>1 DEF ReportOK, Unsettled
  <2>3. SumExpenseItemsByReport(to, r) = SumExpenseItemsByReport(db, r)
    BY <1>1, <1>3, ItemsUntouched, ItemsSumSame
  <2>4. ReportOK(to, r) BY <1>2, <1>3, <1>4, <2>2, <2>3 DEF ReportOK
  <2>5. Cleared(to) \subseteq Cleared(db) BY <1>3, <1>4 DEF Cleared
  <2>6. FewShared(to) BY <1>3, <1>6, <1>8, <2>5, RowChangedShared DEF AloneOK
  <2>7. LogFits(to, r) BY <1>2, <1>4 DEF LogFits
  <2>8. Stands(to, next) /\ \A s : ~Logging(call, s) BY <1>8, PlainStands DEF Logging
  <2> QED BY <1>3, <1>6, <1>8, <2>4, <2>6, <2>7, <2>8, RowChangedAlone
<1> QED BY <1>4, <1>7, <1>8 DEF to

(* One row is changed, and nothing else. *)
LEMMA OnlyRowChanged ==
    ASSUME NEW db, TablesOK(db), NEW r \in DOMAIN db.reports, NEW row,
           DOMAIN row = DOMAIN db.reports[r], row.by = db.reports[r].by, row.status \in Statuses
    PROVE  LET to == Changed(db, r, row)
           IN  /\ TablesOK(to) /\ RowChanged(db, to, r) /\ to.reports[r] = row
               /\ to.agents = db.agents /\ to.auto = db.auto /\ to.log = db.log
               /\ to.failed = db.failed /\ to.items = db.items
               /\ SumExpenseItemsByReport(to, r) = SumExpenseItemsByReport(db, r)
               /\ FewShared(db) => FewShared(to)
<1> DEFINE to == Changed(db, r, row)
<1>1. HasTables(db) BY DEF TablesOK
<1>2. /\ DOMAIN to = DOMAIN db /\ to.made = db.made /\ to.items = db.items
      /\ to.reports = [i \in DOMAIN db.reports |-> IF i = r THEN row ELSE db.reports[i]]
      /\ to.policies = db.policies /\ to.approvers = db.approvers /\ to.retired = db.retired
      /\ to.log = db.log /\ to.agents = db.agents /\ to.auto = db.auto /\ to.failed = db.failed
  BY <1>1 DEF Changed, HasTables
<1> HIDE DEF to
<1>3. /\ DOMAIN to.reports = DOMAIN db.reports /\ to.reports[r] = row
      /\ \A s \in DOMAIN db.reports \ {r} : to.reports[s] = db.reports[s]
  BY <1>2
<1>4. RowChanged(db, to, r) BY <1>2, <1>3 DEF RowChanged
<1>5. /\ \A s \in DOMAIN to.agents : to.agents[s] \in AgentStates
      /\ to.auto \subseteq DOMAIN to.agents
  BY <1>2 DEF TablesOK, AgentStates
<1>6. TablesOK(to) BY <1>2, <1>3, <1>4, <1>5, RowWritten
<1>7. SumExpenseItemsByReport(to, r) = SumExpenseItemsByReport(db, r)
  BY <1>1, <1>2, ItemsUntouched, ItemsSumSame
<1>8. Cleared(to) \subseteq Cleared(db) BY <1>2, <1>3 DEF Cleared
<1>9. FewShared(db) => FewShared(to) BY <1>2, <1>4, <1>8, RowChangedShared
<1> QED BY <1>2, <1>3, <1>4, <1>6, <1>7, <1>9 DEF to

(* A decision finds the report as it was when it was allowed. *)
LEMMA DecisionWritten ==
    ASSUME NEW db, TablesOK(db), NEW call, NEW r \in DOMAIN db.reports, call.report = r,
           call.op = "decideReport", call.at = "write", Entered(call), NEW dated, NEW next,
           next.op = "decideReport", next.at = "log", next.report = r,
           next.as = call.as, next.by = call.by
    PROVE  LET to == Changed(db, r, [db.reports[r] EXCEPT !.status = call.as, !.approver = call.by,
                                                         !.dated = dated])
           IN  /\ TablesOK(to) /\ to.agents = db.agents
               /\ AloneOK(db, call) => AloneOK(to, next)
<1> DEFINE row == [db.reports[r] EXCEPT !.status = call.as, !.approver = call.by, !.dated = dated]
           to == Changed(db, r, row)
<1>1. DOMAIN db.reports[r] = DOMAIN ReportRow(NoText, NoText, <<0, 0>>) BY DEF TablesOK, HasTables
<1>2. call.as \in {"approved", "rejected"} /\ call.by \in Staff BY DEF Entered
<1>3. /\ DOMAIN row = DOMAIN db.reports[r] /\ row.status = call.as /\ row.by = db.reports[r].by
      /\ row.approver = call.by /\ row.total = db.reports[r].total
  BY <1>1 DEF ReportRow
<1> HIDE DEF row
<1>4. row.status \in Statuses BY <1>2, <1>3 DEF Statuses
<1>5. /\ TablesOK(to) /\ RowChanged(db, to, r) /\ to.reports[r] = row
      /\ to.agents = db.agents /\ to.auto = db.auto /\ to.log = db.log
      /\ to.failed = db.failed
      /\ SumExpenseItemsByReport(to, r) = SumExpenseItemsByReport(db, r)
      /\ FewShared(db) => FewShared(to)
  BY <1>3, <1>4, OnlyRowChanged
<1> HIDE DEF to
<1>6. ASSUME AloneOK(db, call) PROVE AloneOK(to, next)
  BY <1>6, <1>2, <1>3, <1>5, RowChangedAlone DEF AloneOK, Stands, ReportOK, Unsettled, Logging
<1> QED BY <1>5, <1>6 DEF to, row

(* A payment meets a report that is still approved, or none. *)
LEMMA PaymentWritten ==
    ASSUME NEW db, TablesOK(db), NEW call, NEW r, call.report = r,
           call.op = "pay", call.at = "write", NEW next, next.op = "pay", next.at = "log",
           next.report = r, next.as = "paid"
    PROVE  LET to == IF r \in ListExpenseReportsByStatus(db, "approved")
                     THEN SetStatus(db, r, "paid") ELSE db
           IN  /\ TablesOK(to) /\ to.agents = db.agents
               /\ AloneOK(db, call) => AloneOK(to, next)
<1>1. CASE r \in ListExpenseReportsByStatus(db, "approved")
  <2> DEFINE row == [db.reports[r] EXCEPT !.status = "paid"]
             to == Changed(db, r, row)
  <2>1. r \in DOMAIN db.reports /\ db.reports[r].status = "approved"
    BY <1>1 DEF ListExpenseReportsByStatus
  <2>2. DOMAIN db.reports[r] = DOMAIN ReportRow(NoText, NoText, <<0, 0>>)
    BY <2>1 DEF TablesOK, HasTables
  <2>3. /\ DOMAIN row = DOMAIN db.reports[r] /\ row.status = "paid" /\ row.by = db.reports[r].by
        /\ row.approver = db.reports[r].approver /\ row.total = db.reports[r].total
    BY <2>2 DEF ReportRow
  <2> HIDE DEF row
  <2>4. row.status \in Statuses BY <2>3 DEF Statuses
  <2>5. /\ TablesOK(to) /\ RowChanged(db, to, r) /\ to.reports[r] = row
        /\ to.agents = db.agents /\ to.auto = db.auto /\ to.log = db.log
        /\ to.failed = db.failed
        /\ SumExpenseItemsByReport(to, r) = SumExpenseItemsByReport(db, r)
        /\ FewShared(db) => FewShared(to)
    BY <2>1, <2>3, <2>4, OnlyRowChanged
  <2> HIDE DEF to
  <2>6. ASSUME AloneOK(db, call) PROVE AloneOK(to, next)
    <3>1. ReportOK(db, r) /\ FewShared(db) BY <2>1, <2>6 DEF AloneOK
    <3>2. ReportOK(to, r) BY <2>1, <2>3, <2>5, <3>1 DEF ReportOK, Unsettled
    <3>3. Stands(to, next) BY <2>3, <2>5 DEF Stands
    <3>4. Logging(next, r) /\ \A s : ~Logging(call, s) BY DEF Logging
    <3> QED BY <2>5, <2>6, <3>1, <3>2, <3>3, <3>4, RowChangedAlone
  <2> QED BY <1>1, <2>5, <2>6 DEF to, row, SetStatus
<1>2. CASE r \notin ListExpenseReportsByStatus(db, "approved")
  <2>1. ASSUME AloneOK(db, call) PROVE AloneOK(db, next)
    BY <1>2, <2>1 DEF AloneOK, Stands, ListExpenseReportsByStatus, Logging
  <2> QED BY <1>2, <2>1
<1> QED BY <1>1, <1>2

(* What was done is logged, or the log is lost. *)
LEMMA DecisionLogged ==
    ASSUME NEW db, TablesOK(db), NEW call, call.op \in {"decideReport", "pay"}, call.at = "log",
           Entered(call), NEW next, Plain(next),
           NEW to, \/ to = CreateExpenseAuditLog(db, call.report, call.as)
                   \/ to = [db EXCEPT !.failed = TRUE]
    PROVE  /\ TablesOK(to) /\ to.agents = db.agents
           /\ AloneOK(db, call) => AloneOK(to, next)
<1> DEFINE r == call.report
<1>1. HasTables(db) BY DEF TablesOK
<1>2. call.as \in {"approved", "rejected", "paid"} BY DEF Entered
<1>3. CASE to = [db EXCEPT !.failed = TRUE]
  <2>1. /\ DOMAIN to = DOMAIN db /\ to.made = db.made /\ to.items = db.items
        /\ to.reports = db.reports /\ to.policies = db.policies /\ to.approvers = db.approvers
        /\ to.retired = db.retired /\ to.log = db.log /\ to.agents = db.agents
        /\ to.auto = db.auto /\ to.failed
    BY <1>1, <1>3 DEF HasTables
  <2>2. TablesOK(to) BY <1>1, <2>1 DEF TablesOK, HasTables
  <2>3. ASSUME AloneOK(db, call) PROVE AloneOK(to, next)
    <3>1. \A s \in DOMAIN to.reports : ReportOK(to, s)
      BY <2>1, <2>3 DEF AloneOK, ReportOK, SumExpenseItemsByReport, ItemsOf
    <3>2. FewShared(to) BY <2>1 DEF FewShared
    <3> QED BY <2>1, <3>1, <3>2, PlainStands DEF AloneOK
  <2> QED BY <2>1, <2>2, <2>3
<1>4. CASE to = CreateExpenseAuditLog(db, r, call.as) /\ r \in DOMAIN db.reports
  <2>1. /\ DOMAIN to = DOMAIN db /\ to.made = db.made /\ to.items = db.items
        /\ to.reports = db.reports /\ to.policies = db.policies /\ to.approvers = db.approvers
        /\ to.retired = db.retired /\ to.log = With(db.log, r, call.as)
        /\ to.agents = db.agents /\ to.auto = db.auto /\ to.failed = db.failed
    BY <1>1, <1>2, <1>4 DEF CreateExpenseAuditLog, HasTables
  <2>2. /\ DOMAIN to.log = DOMAIN db.log \cup {r} /\ to.log[r] = call.as
        /\ \A s \in DOMAIN db.log \ {r} : to.log[s] = db.log[s]
    BY <2>1 DEF With
  <2>3. TablesOK(to) BY <1>1, <2>1, <2>2 DEF TablesOK, HasTables
  <2>4. RowChanged(db, to, r) BY <1>4, <2>1, <2>2 DEF RowChanged, TablesOK
  <2>5. ASSUME AloneOK(db, call) PROVE AloneOK(to, next)
    <3>1. ReportOK(to, r)
      <4>1. ReportOK(db, r) /\ SumExpenseItemsByReport(to, r) = SumExpenseItemsByReport(db, r)
        BY <1>4, <2>1, <2>5 DEF AloneOK, SumExpenseItemsByReport, ItemsOf
      <4> QED BY <2>1, <4>1 DEF ReportOK
    <3>2. Cleared(to) \subseteq Cleared(db) BY <2>1 DEF Cleared
    <3>3. FewShared(to) BY <2>1, <2>4, <2>5, <3>2, RowChangedShared DEF AloneOK
    <3>4. LogFits(to, r)
      <4>1. Stands(db, call) BY <2>5 DEF AloneOK
      <4>2. CASE call.op = "decideReport"
        BY <1>4, <4>1, <4>2, ExpenseDeskAssumption, <2>1, <2>2 DEF Stands, Entered, LogFits
      <4>3. CASE call.op = "pay"
        BY <1>4, <4>1, <4>3, <2>1, <2>2 DEF Stands, Entered, LogFits
      <4> QED BY <4>2, <4>3
    <3>5. \A s \in DOMAIN db.reports \ {r} : ~Logging(call, s) BY DEF Logging
    <3> QED BY <2>1, <2>4, <2>5, <3>1, <3>3, <3>4, <3>5, PlainStands, RowChangedAlone
  <2> QED BY <2>1, <2>3, <2>5
<1>5. CASE to = CreateExpenseAuditLog(db, r, call.as) /\ r \notin DOMAIN db.reports
  <2>1. to = db BY <1>5 DEF CreateExpenseAuditLog
  <2>2. ASSUME AloneOK(db, call) PROVE AloneOK(db, next)
    BY <1>5, <2>2, PlainStands DEF AloneOK, Logging
  <2> QED BY <2>1, <2>2
<1> QED BY <1>3, <1>4, <1>5

LEMMA Reverted ==
    ASSUME NEW db, TablesOK(db), NEW r
    PROVE  LET to == CreateExpenseAuditLog(UpdateExpenseReportRejectToDraft(db, r), r, "edited")
           IN  /\ TablesOK(to) /\ to.agents = db.agents
               /\ \A call, next : (AloneOK(db, call) /\ call.at # "log" /\ Plain(next)) =>
                                     AloneOK(to, next)
<1> DEFINE row == [db.reports[r] EXCEPT !.status = "draft", !.approver = NoText]
           changed == Changed(db, r, row)
           to == CreateExpenseAuditLog(UpdateExpenseReportRejectToDraft(db, r), r, "edited")
<1>1. CASE ~(r \in DOMAIN db.reports /\ db.reports[r].status = "rejected")
  BY <1>1, PlainStands DEF UpdateExpenseReportRejectToDraft, CreateExpenseAuditLog, AloneOK, Logging
<1>2. CASE r \in DOMAIN db.reports /\ db.reports[r].status = "rejected"
  <2>1. to = changed BY <1>2 DEF UpdateExpenseReportRejectToDraft, CreateExpenseAuditLog
  <2>2. DOMAIN db.reports[r] = DOMAIN ReportRow(NoText, NoText, <<0, 0>>)
    BY <1>2 DEF TablesOK, HasTables
  <2>3. /\ DOMAIN row = DOMAIN db.reports[r] /\ row.status = "draft" /\ row.by = db.reports[r].by
        /\ row.approver = NoText
    BY <2>2 DEF ReportRow
  <2> HIDE DEF row
  <2>4. row.status \in Statuses BY <2>3 DEF Statuses, Unsettled
  <2>5. /\ TablesOK(changed) /\ RowChanged(db, changed, r) /\ changed.reports[r] = row
        /\ changed.agents = db.agents /\ changed.auto = db.auto /\ changed.log = db.log
        /\ changed.failed = db.failed
        /\ FewShared(db) => FewShared(changed)
    BY <1>2, <2>3, <2>4, OnlyRowChanged
  <2> HIDE DEF changed
  <2>6. ASSUME NEW call, NEW next, AloneOK(db, call), call.at # "log", Plain(next)
        PROVE  AloneOK(changed, next)
    <3>1. ReportOK(db, r) /\ FewShared(db) BY <1>2, <2>6 DEF AloneOK
    <3>2. ReportOK(changed, r) BY <1>2, <2>3, <2>5, <3>1 DEF ReportOK
    <3>3. ASSUME ~changed.failed PROVE LogFits(changed, r)
      BY <1>2, <2>5, <2>6, <3>3, <2>3 DEF AloneOK, Logging, LogFits
    <3>4. Stands(changed, next) /\ \A s : ~Logging(call, s) BY <2>6, PlainStands DEF Logging
    <3> QED BY <2>5, <2>6, <3>1, <3>2, <3>3, <3>4, RowChangedAlone
  <2> QED BY <2>1, <2>5, <2>6
<1> QED BY <1>1, <1>2

----
(* The agent: what two reports share costs each of them too many points. *)
LEMMA DuplicatesFinite ==
    ASSUME NEW db, HasTables(db), NEW r, NEW item
    PROVE  /\ IsFiniteSet(FindDuplicateExpenseItems(db, r, item))
           /\ Cardinality(FindDuplicateExpenseItems(db, r, item)) \in Nat
<1>1. FindDuplicateExpenseItems(db, r, item) \in SUBSET DOMAIN db.items
  BY DEF FindDuplicateExpenseItems
<1> QED BY <1>1, ItemsFinite, FS_CardinalityType

LEMMA PoliciesFinite ==
    ASSUME NEW db, HasTables(db), NEW cat
    PROVE  \A S \in SUBSET PolicyOf(db, cat) : Cardinality(S) \in Nat
<1> DEFINE P == {q \in ListExpensePolicies(db) : db.policies[q].of.category = cat}
           own == {db.policies[p].of : p \in P}
           f == [p \in P |-> db.policies[p].of]
<1>1. DOMAIN db.policies \in SUBSET (1..db.made) /\ IsFiniteSet(1..db.made)
  BY FS_Interval DEF HasTables
<1>2. P \in SUBSET DOMAIN db.policies BY DEF ListExpensePolicies
<1>3. IsFiniteSet(P)
  <2> HIDE DEF P
  <2> QED BY <1>1, <1>2, FS_Subset
<1>4. \A o \in own : \E p \in P : f[p] = o OBVIOUS
<1>5. PolicyOf(db, cat) \subseteq own BY DEF PolicyOf
<1> HIDE DEF P, own, f
<1>6. IsFiniteSet(own) BY <1>3, <1>4, ImageFinite
<1> QED BY <1>5, <1>6, FS_Subset, FS_CardinalityType

(* Ten points for each duplicate of an item that names its merchant. *)
LEMMA ScoreAtLeast ==
    ASSUME NEW db, HasTables(db), NEW r, NEW i \in ItemsOf(db, r)
    PROVE  /\ ItemScore(db, r, i, {}) \in Nat
           /\ db.items[i].merchant # NoText =>
                ItemScore(db, r, i, {})
                  >= 10 * Cardinality(FindDuplicateExpenseItems(db, r, db.items[i]))
<1> DEFINE item == db.items[i]
           of == PolicyOf(db, item.category)
           a == Cardinality({p \in of : Exceeds(item.amount, p.max)})
           b == Cardinality({p \in of : Unreceipted(item, p)})
           d == Cardinality(FindDuplicateExpenseItems(db, r, item))
           w == IF item.weekend THEN 10 ELSE 0
           e == IF item.merchant = NoText THEN 0 ELSE 10 * d
<1>1. ItemScore(db, r, i, {}) = 15 * a + 20 * b + w + e BY DEF ItemScore, NamedItems
<1>2. a \in Nat /\ b \in Nat /\ d \in Nat
  BY PoliciesFinite, DuplicatesFinite
<1>3. w \in {0, 10} OBVIOUS
<1> HIDE DEF a, b, d, w
<1> QED BY <1>1, <1>2, <1>3 DEF d

LEMMA VerdictSpares ==
    ASSUME NEW db, TablesOK(db), NEW r \in DOMAIN db.reports, Verdict(db, r, {}) = "approved",
           NEW s \in DOMAIN db.reports, r # s, db.reports[s].by = db.reports[r].by,
           db.reports[s].status \notin {"draft", "rejected"}
    PROVE  \A p, q \in Shared(db, r, s) : p = q
<1> DEFINE S == ItemsOf(db, r)
           scores == [i \in S |-> ItemScore(db, r, i, {})]
           Dups(i) == FindDuplicateExpenseItems(db, r, db.items[i])
<1>1. HasTables(db) /\ IsFiniteSet(S) BY ItemsFinite DEF TablesOK, ItemsOf
<1>2. \A i \in S : scores[i] \in Nat BY <1>1, ScoreAtLeast
<1>3. 10 + SetSum(scores, S) < 30 BY AddAllIsSum DEF Verdict
<1>4. ASSUME NEW p \in Shared(db, r, s)
      PROVE  /\ p = <<p[1], p[2]>> /\ p[1] \in S /\ p[2] \in Dups(p[1])
             /\ db.items[p[1]].merchant # NoText
  BY <1>4 DEF Shared, ItemsOf, FindDuplicateExpenseItems
<1>5. ASSUME NEW i \in S, db.items[i].merchant # NoText, NEW j \in Dups(i)
      PROVE  scores[i] >= 10 /\ \A k \in Dups(i) \ {j} : scores[i] >= 20
  <2>1. IsFiniteSet(Dups(i)) /\ Cardinality(Dups(i)) \in Nat BY <1>1, DuplicatesFinite
  <2>2. scores[i] >= 10 * Cardinality(Dups(i)) /\ scores[i] \in Nat BY <1>1, <1>5, ScoreAtLeast
  <2> DEFINE T == Dups(i)
             n == Cardinality(T)
  <2>3. n >= 1 /\ \A k \in T \ {j} : n >= 2
    <3> DEFINE rest == T \ {j}
               m == Cardinality(rest)
    <3>1. IsFiniteSet(rest) /\ m = n - 1 /\ m \in Nat /\ n \in Nat
      BY <1>5, <2>1, FS_RemoveElement, FS_CardinalityType
    <3>2. ASSUME NEW k \in rest PROVE m # 0 BY <3>1, <3>2, FS_EmptySet
    <3> HIDE DEF m, n
    <3>3. n >= 1 /\ (m # 0 => n >= 2) BY <3>1
    <3> QED BY <3>2, <3>3
  <2> HIDE DEF n, scores, Dups
  <2> QED BY <2>1, <2>2, <2>3 DEF n
<1>6. SUFFICES ASSUME NEW p \in Shared(db, r, s), NEW q \in Shared(db, r, s), p # q PROVE FALSE
  OBVIOUS
<1>7. /\ p[1] \in S /\ q[1] \in S /\ p[2] \in Dups(p[1]) /\ q[2] \in Dups(q[1])
      /\ db.items[p[1]].merchant # NoText /\ db.items[q[1]].merchant # NoText
      /\ (p[1] = q[1]) => p[2] # q[2]
  BY <1>4, <1>6
<1>8. /\ SetSum(scores, S) \in Nat
      /\ \A a \in S : /\ SetSum(scores, S) >= scores[a]
                      /\ \A b \in S \ {a} : SetSum(scores, S) >= scores[a] + scores[b]
  <2> HIDE DEF S, scores
  <2> QED BY <1>1, <1>2, <1>7, SumAtLeast
<1> HIDE DEF S, scores, Dups
<1>9. CASE p[1] = q[1]
  BY <1>2, <1>5, <1>7, <1>9, <1>3, <1>8
<1>10. CASE p[1] # q[1]
  BY <1>2, <1>5, <1>7, <1>8, <1>10, <1>3
<1> QED BY <1>9, <1>10

(* The agent of a report goes on, and nothing else. *)
AgentMoved(db, to, r) ==
    /\ DOMAIN to = DOMAIN db /\ to.made = db.made /\ to.items = db.items /\ to.reports = db.reports
    /\ to.policies = db.policies /\ to.approvers = db.approvers /\ to.retired = db.retired
    /\ to.log = db.log /\ (db.failed => to.failed)
    /\ r \in DOMAIN db.agents /\ DOMAIN to.agents = DOMAIN db.agents /\ to.agents[r] \in AgentStates
    /\ \A s \in DOMAIN db.agents \ {r} : to.agents[s] = db.agents[s]
    /\ \A s : s # r => (s \in to.auto <=> s \in db.auto)

LEMMA AgentTables ==
    ASSUME NEW db, TablesOK(db), NEW r, NEW to, AgentMoved(db, to, r)
    PROVE  /\ TablesOK(to)
           /\ r \in DOMAIN db.reports => RowChanged(db, to, r)
<1>1. HasTables(to) BY DEF TablesOK, HasTables, AgentMoved
<1>2. \A s \in DOMAIN to.agents : to.agents[s] \in AgentStates
  BY DEF TablesOK, AgentStates, AgentMoved
<1>3. to.auto \subseteq DOMAIN to.agents BY DEF TablesOK, AgentMoved
<1>4. TablesOK(to) BY <1>1, <1>2, <1>3 DEF TablesOK, AgentStates, AgentMoved
<1>5. r \in DOMAIN db.reports => RowChanged(db, to, r) BY DEF RowChanged, AgentMoved
<1> QED BY <1>4, <1>5

LEMMA OrphanAgent ==
    ASSUME NEW db, TablesOK(db), NEW r, NEW to, AgentMoved(db, to, r), r \notin DOMAIN db.reports,
           NEW call, AloneOK(db, call)
    PROVE  AloneOK(to, call)
<1>1. \A s : SameItems(db, to, s) BY ItemsUntouched DEF AgentMoved
<1>2. ASSUME NEW s \in DOMAIN to.reports PROVE ReportOK(to, s)
  BY <1>1, <1>2, ReportKept DEF SameReport, AgentMoved, AloneOK
<1>3. Cleared(to) \subseteq Cleared(db) BY DEF Cleared, AgentMoved
<1>4. FewShared(to) BY <1>1, <1>3, FewSharedKept DEF AloneOK, AgentMoved
<1>5. Stands(to, call) BY DEF AloneOK, Stands, AgentMoved
<1>6. ~to.failed => \A s \in DOMAIN to.reports : LogFits(to, s) \/ Logging(call, s)
  BY DEF AloneOK, LogFits, AgentMoved
<1> QED BY <1>2, <1>4, <1>5, <1>6 DEF AloneOK

LEMMA AgentJudges ==
    ASSUME NEW db, TablesOK(db), NEW r \in DOMAIN db.agents,
           db.agents[r] \in {"due", "approved", "pending_approval"},
           NEW v \in {"approved", "pending_approval", "done"},
           NEW to, AgentMoved(db, to, r), to.agents[r] = v, to.auto = db.auto,
           (v = "approved" /\ ~to.failed) =>
              r \in DOMAIN db.reports /\ (Verdict(db, r, {}) = "approved" \/ ItemsOf(db, r) = {})
    PROVE  /\ TablesOK(to) /\ DOMAIN to.agents = DOMAIN db.agents
           /\ \A call : AloneOK(db, call) => AloneOK(to, call)
<1>2. HasTables(db) BY DEF TablesOK
<1>3. DOMAIN to.agents = DOMAIN db.agents BY DEF AgentMoved
<1>4. TablesOK(to) /\ (r \in DOMAIN db.reports => RowChanged(db, to, r)) BY <1>3, AgentTables
<1>5. ASSUME NEW call, AloneOK(db, call), r \in DOMAIN db.reports PROVE AloneOK(to, call)
  <2>1. ReportOK(db, r) /\ db.reports[r].status = "submitted" BY <1>5 DEF AloneOK, ReportOK
  <2>2. to.reports = db.reports /\ to.items = db.items /\ to.log = db.log
        /\ (db.failed => to.failed)
    BY <1>3 DEF AgentMoved
  <2>3. SumExpenseItemsByReport(to, r) = SumExpenseItemsByReport(db, r)
    BY <1>2, <2>2, ItemsUntouched, ItemsSumSame
  <2>4. r \notin db.auto BY <2>1 DEF ReportOK
  <2>5. ReportOK(to, r) BY <1>3, <1>5, <2>1, <2>2, <2>3, <2>4 DEF ReportOK
  <2>6. FewShared(to)
    <3>1. CASE v # "approved"
      BY <1>3, <2>2, <2>4, <3>1, <1>4, <1>5, RowChangedShared DEF Cleared, AgentMoved, AloneOK
    <3>2. CASE v = "approved" /\ ~to.failed
      <4>1. Cleared(to) \subseteq Cleared(db) \cup {r} BY <1>3, <2>2 DEF Cleared, AgentMoved
      <4>2. ASSUME NEW s \in Cleared(db)
            PROVE  s \in DOMAIN db.reports /\ db.reports[s].status \notin {"draft", "rejected"}
        BY <1>5 DEF Cleared, AloneOK, ReportOK
      <4>3. \A s, t : Shared(to, s, t) = Shared(db, s, t) BY <2>2 DEF Shared, ItemsOf
      <4>4. ASSUME NEW s \in Cleared(db), s # r, db.reports[s].by = db.reports[r].by
            PROVE  /\ \A p, q \in Shared(db, r, s) : p = q
                   /\ \A p, q \in Shared(db, s, r) : p = q
        <5>1. \A p, q \in Shared(db, r, s) : p = q
          BY <1>5, <4>2, <4>4, VerdictSpares, <1>3, <3>2 DEF Shared
        <5>2. ASSUME NEW p \in Shared(db, s, r)
              PROVE  p = <<p[1], p[2]>> /\ <<p[2], p[1]>> \in Shared(db, r, s)
          BY <5>2 DEF Shared
        <5>3. ASSUME NEW p \in Shared(db, s, r), NEW q \in Shared(db, s, r) PROVE p = q
          <6>1. <<p[2], p[1]>> = <<q[2], q[1]>> BY <5>1, <5>2
          <6> QED BY <5>2, <6>1
        <5> QED BY <5>1, <5>3
      <4>5. FewShared(db) BY <1>5 DEF AloneOK
      <4>0. ~db.failed BY <2>2, <3>2
      <4> SUFFICES ASSUME NEW s \in Cleared(to), NEW t \in Cleared(to), s # t,
                          to.reports[s].by = to.reports[t].by,
                          NEW p \in Shared(to, s, t), NEW q \in Shared(to, s, t) PROVE  p = q
        BY DEF FewShared
      <4>6. p \in Shared(db, s, t) /\ q \in Shared(db, s, t)
            /\ db.reports[s].by = db.reports[t].by
        BY <2>2, <4>3
      <4>7. CASE s = r
        BY <4>1, <4>7, <4>4, <4>6
      <4>8. CASE t = r
        BY <4>1, <4>8, <4>4, <4>6
      <4>9. CASE s # r /\ t # r
        BY <4>1, <4>9, <4>0, <4>5, <4>6 DEF FewShared
      <4> QED BY <4>7, <4>8, <4>9
    <3> QED BY <3>1, <3>2 DEF FewShared
  <2>7. Stands(to, call) BY <1>5, <2>2 DEF AloneOK, Stands
  <2>8. ~to.failed => (LogFits(to, r) \/ Logging(call, r)) BY <1>5, <2>2 DEF AloneOK, LogFits
  <2> QED BY <1>4, <1>5, <2>2, <2>5, <2>6, <2>7, <2>8, RowChangedAlone
<1>6. ASSUME NEW call, AloneOK(db, call), r \notin DOMAIN db.reports PROVE AloneOK(to, call)
  BY <1>3, <1>6, OrphanAgent
<1> QED BY <1>3, <1>4, <1>5, <1>6

(* What the agent writes, it writes of a report that is still submitted. *)
LEMMA AgentWritten ==
    ASSUME NEW db, TablesOK(db), NEW r \in DOMAIN db.agents,
           db.agents[r] \in {"approved", "pending_approval"}
    PROVE  LET v == db.agents[r]
               written == IF r \in DOMAIN db.reports THEN SetStatus(db, r, v) ELSE db
               to == [written EXCEPT !.agents[r] = IF v = "approved" THEN "accrues" ELSE "done",
                                     !.auto = IF v = "approved" THEN @ \cup {r} ELSE @]
           IN  /\ TablesOK(to) /\ DOMAIN to.agents = DOMAIN db.agents
               /\ \A call : (Entered(call) /\ AloneOK(db, call)) => AloneOK(to, call)
<1> DEFINE v == db.agents[r]
           state == IF v = "approved" THEN "accrues" ELSE "done"
           row == [db.reports[r] EXCEPT !.status = v]
           written == IF r \in DOMAIN db.reports THEN SetStatus(db, r, v) ELSE db
           auto == IF v = "approved" THEN db.auto \cup {r} ELSE db.auto
           to == [written EXCEPT !.agents[r] = state,
                                 !.auto = IF v = "approved" THEN @ \cup {r} ELSE @]
<1>1. r \in DOMAIN db.reports =>
         /\ DOMAIN row = DOMAIN db.reports[r] /\ row.status = v /\ row.by = db.reports[r].by
         /\ row.approver = db.reports[r].approver /\ row.total = db.reports[r].total
  BY DEF TablesOK, HasTables, ReportRow
<1>2. v \in Statuses /\ state \in AgentStates BY DEF Statuses, Unsettled, AgentStates
<1>3. /\ TablesOK(written) /\ written.agents = db.agents /\ written.auto = db.auto
      /\ written.log = db.log /\ written.failed = db.failed /\ written.items = db.items
      /\ r \in DOMAIN db.reports =>
           RowChanged(db, written, r) /\ written.reports[r] = row
           /\ SumExpenseItemsByReport(written, r) = SumExpenseItemsByReport(db, r)
      /\ r \notin DOMAIN db.reports => written = db
  <2>1. CASE r \in DOMAIN db.reports
    <3>1. written = Changed(db, r, row) BY <2>1 DEF SetStatus
    <3> HIDE DEF row, written, v
    <3> QED BY <1>1, <1>2, <2>1, <3>1, OnlyRowChanged
  <2>2. CASE r \notin DOMAIN db.reports BY <2>2
  <2> QED BY <2>1, <2>2
<1>4. HasTables(written) BY <1>3 DEF TablesOK
<1> HIDE DEF row, written, state
<1>5. AgentMoved(written, to, r) /\ to.agents[r] = state /\ to.auto = auto
      /\ DOMAIN to.agents = DOMAIN db.agents
  BY <1>2, <1>3, <1>4 DEF AgentMoved, HasTables
<1> HIDE DEF to, auto
<1>6. TablesOK(to) /\ (r \in DOMAIN written.reports => RowChanged(written, to, r))
  BY <1>3, <1>5, AgentTables
<1>7. ASSUME NEW call, Entered(call), AloneOK(db, call), r \in DOMAIN db.reports PROVE AloneOK(to, call)
  <2>1. ReportOK(db, r) /\ db.reports[r].status = "submitted" /\ db.reports[r].approver = NoText
    BY <1>7 DEF AloneOK, ReportOK, Unsettled
  <2>2. r \notin db.auto BY <2>1 DEF ReportOK
  <2>3. /\ to.reports = written.reports /\ to.items = db.items /\ to.log = db.log
        /\ (db.failed => to.failed) /\ DOMAIN to.reports = DOMAIN db.reports /\ to.reports[r] = row
    BY <1>3, <1>5, <1>7 DEF AgentMoved, RowChanged
  <2>4. RowChanged(db, to, r) BY <1>3, <1>5, <1>7, <2>3 DEF RowChanged, AgentMoved
  <2>5. SumExpenseItemsByReport(to, r) = SumExpenseItemsByReport(db, r)
    BY <2>3, ItemsUntouched, ItemsSumSame DEF TablesOK
  <2>6. ReportOK(to, r)
    <3>1. CASE v = "approved"
      BY <1>1, <1>5, <1>7, <2>1, <2>3, <2>5, <3>1 DEF ReportOK, Unsettled, auto, state
    <3>2. CASE v = "pending_approval"
      BY <1>1, <1>5, <1>7, <2>1, <2>2, <2>3, <2>5, <3>2 DEF ReportOK, Unsettled, auto, state
    <3> QED BY <3>1, <3>2
  <2>7. Cleared(to) \subseteq Cleared(db)
    <3>1. ASSUME NEW s \in Cleared(to), s = r PROVE s \in Cleared(db)
      BY <1>5, <1>7, <2>2, <3>1 DEF Cleared, auto, state
    <3>2. ASSUME NEW s \in Cleared(to), s # r PROVE s \in Cleared(db)
      BY <2>4, <3>2 DEF Cleared, RowChanged
    <3> QED BY <3>1, <3>2
  <2>8. FewShared(to) BY <1>7, <2>3, <2>4, <2>7, RowChangedShared DEF AloneOK
  <2>9. Stands(to, call)
    <3>1. Stands(db, call) BY <1>7 DEF AloneOK
    <3>2. ASSUME call.op = "addItem", call.at = "insert", call.report \in DOMAIN to.reports
          PROVE  to.reports[call.report].status = "draft"
      BY <2>1, <2>3, <2>4, <3>1, <3>2 DEF Stands, RowChanged
    <3>3. ASSUME call.op \in {"updateItem", "deleteItem"}, call.at = "write",
                 call.item \in DOMAIN to.items
          PROVE  to.reports[to.items[call.item].report].status = "draft"
      BY <2>3, <3>1, <3>3, <2>1, <2>4 DEF Stands, TablesOK, RowChanged
    <3>4. ASSUME call.op \in {"decideReport", "pay"}, call.at \in {"write", "log"},
                 call.report \in DOMAIN to.reports
          PROVE  call.report # r /\ to.reports[call.report] = db.reports[call.report]
      BY <1>7, <2>1, <2>3, <2>4, <3>1, <3>4 DEF Stands, RowChanged, Entered
    <3> QED BY <2>3, <3>1, <3>2, <3>3, <3>4 DEF Stands, RowChanged
  <2>10. ~to.failed => (LogFits(to, r) \/ Logging(call, r))
    <3>1. ASSUME ~to.failed, ~Logging(call, r) PROVE LogFits(to, r)
      BY <1>7, <2>3, <3>1, <2>1, <1>1 DEF AloneOK, LogFits
    <3> QED BY <3>1
  <2> QED BY <1>7, <2>3, <2>4, <2>6, <2>8, <2>9, <2>10, RowChangedAlone
<1>8. ASSUME NEW call, AloneOK(db, call), r \notin DOMAIN db.reports PROVE AloneOK(to, call)
  BY <1>3, <1>5, <1>8, OrphanAgent
<1> QED BY <1>5, <1>6, <1>7, <1>8 DEF to, written, state

(* Linking its entries, the agent makes an approved report of a paid one. *)
LEMMA AgentLinked ==
    ASSUME NEW db, TablesOK(db), NEW r \in DOMAIN db.agents, db.agents[r] = "accrues",
           NEW booked \in BOOLEAN
    PROVE  LET to == [IF booked /\ r \in DOMAIN db.reports
                      THEN Changed(db, r, [db.reports[r] EXCEPT !.status = "approved",
                                                  !.dated = TRUE, !.approver = NoText])
                      ELSE db EXCEPT !.agents[r] = "done"]
           IN  /\ TablesOK(to) /\ DOMAIN to.agents = DOMAIN db.agents
               /\ \A call : (Entered(call) /\ AloneOK(db, call)) => AloneOK(to, call)
<1> DEFINE row == [db.reports[r] EXCEPT !.status = "approved", !.dated = TRUE, !.approver = NoText]
           linked == booked /\ r \in DOMAIN db.reports
           written == IF linked THEN Changed(db, r, row) ELSE db
           to == [written EXCEPT !.agents[r] = "done"]
<1>1. r \in DOMAIN db.reports =>
         /\ DOMAIN row = DOMAIN db.reports[r] /\ row.status = "approved"
         /\ row.by = db.reports[r].by
         /\ row.approver = NoText /\ row.total = db.reports[r].total
  BY DEF TablesOK, HasTables, ReportRow
<1>2. "approved" \in Statuses /\ "done" \in AgentStates BY DEF Statuses, Unsettled, AgentStates
<1>3. /\ TablesOK(written) /\ written.agents = db.agents /\ written.auto = db.auto
      /\ written.log = db.log /\ written.failed = db.failed /\ written.items = db.items
      /\ linked => RowChanged(db, written, r) /\ written.reports[r] = row
      /\ ~linked => written = db
  <2>1. CASE linked
    <3>1. written = Changed(db, r, row) BY <2>1
    <3> HIDE DEF row, written
    <3> QED BY <1>1, <1>2, <2>1, <3>1, OnlyRowChanged
  <2>2. CASE ~linked BY <2>2
  <2> QED BY <2>1, <2>2
<1>4. HasTables(written) BY <1>3 DEF TablesOK
<1> HIDE DEF row, written
<1>5. AgentMoved(written, to, r) /\ to.agents[r] = "done" /\ to.auto = db.auto
      /\ DOMAIN to.agents = DOMAIN db.agents
  BY <1>2, <1>3, <1>4 DEF AgentMoved, HasTables
<1> HIDE DEF to
<1>6. TablesOK(to) BY <1>3, <1>5, AgentTables
<1>7. ASSUME NEW call, Entered(call), AloneOK(db, call), r \in DOMAIN db.reports
      PROVE  AloneOK(to, call)
  <2>1. ReportOK(db, r) BY <1>7 DEF AloneOK
  <2>2. r \in db.auto /\ db.reports[r].status \in {"approved", "paid"}
        /\ db.reports[r].approver = NoText
    BY <2>1 DEF ReportOK
  <2>3. /\ to.reports = written.reports /\ to.items = db.items /\ to.log = db.log
        /\ (db.failed => to.failed) /\ DOMAIN to.reports = DOMAIN db.reports
        /\ to.reports[r] = IF linked THEN row ELSE db.reports[r]
    BY <1>3, <1>5, <1>7 DEF AgentMoved, RowChanged
  <2>4. RowChanged(db, to, r)
    BY <1>3, <1>1, <1>7, <2>3, <1>5 DEF RowChanged, AgentMoved
  <2>5. SumExpenseItemsByReport(to, r) = SumExpenseItemsByReport(db, r)
    BY <2>3, ItemsUntouched, ItemsSumSame DEF TablesOK
  <2>6. /\ to.reports[r].status \in {"approved", db.reports[r].status}
        /\ to.reports[r].approver = NoText /\ to.reports[r].total = db.reports[r].total
    BY <1>1, <1>7, <2>2, <2>3
  <2>7. ReportOK(to, r) BY <1>5, <2>1, <2>2, <2>5, <2>6 DEF ReportOK
  <2>8. Cleared(to) \subseteq Cleared(db)
    <3>1. ASSUME NEW s \in Cleared(to), s = r PROVE s \in Cleared(db)
      BY <1>7, <2>2, <3>1 DEF Cleared
    <3>2. ASSUME NEW s \in Cleared(to), s # r PROVE s \in Cleared(db)
      BY <2>4, <3>2 DEF Cleared, RowChanged
    <3> QED BY <3>1, <3>2
  <2>9. FewShared(to) BY <1>7, <2>3, <2>4, <2>8, RowChangedShared DEF AloneOK
  <2>10. Stands(to, call)
    <3>1. Stands(db, call) BY <1>7 DEF AloneOK
    <3>2. ASSUME call.op = "addItem", call.at = "insert", call.report \in DOMAIN to.reports
          PROVE  to.reports[call.report].status = "draft"
      BY <2>2, <2>3, <2>4, <3>1, <3>2 DEF Stands, RowChanged
    <3>3. ASSUME call.op \in {"updateItem", "deleteItem"}, call.at = "write",
                 call.item \in DOMAIN to.items
          PROVE  to.reports[to.items[call.item].report].status = "draft"
      BY <2>3, <3>1, <3>3, <2>2, <2>4 DEF Stands, TablesOK, RowChanged
    <3>4. ASSUME call.op = "decideReport", call.at \in {"write", "log"},
                 call.report \in DOMAIN to.reports
          PROVE  call.report # r /\ to.reports[call.report] = db.reports[call.report]
      BY <1>7, <2>2, <2>3, <2>4, <3>1, <3>4, ExpenseDeskAssumption DEF Stands, RowChanged, Entered
    <3>5. ASSUME call.op = "pay", call.at \in {"write", "log"}, call.report \in DOMAIN to.reports
          PROVE  LET was == db.reports[call.report] is == to.reports[call.report]
                 IN  is = was \/ (is.status = "approved" /\ is.approver = NoText)
      <4> DEFINE new == to.reports[r]
               old == db.reports[r]
      <4>2. new = old \/ (new.status = "approved" /\ new.approver = NoText)
        <5>1. CASE linked
          BY <2>3, <5>1, <1>1, <1>7
        <5>2. CASE ~linked BY <2>3, <5>2
        <5> QED BY <5>1, <5>2
      <4>3. ASSUME call.report # r PROVE to.reports[call.report] = db.reports[call.report]
        BY <2>3, <3>5, <4>3, <2>4 DEF RowChanged
      <4>4. CASE call.report = r BY <4>2, <4>4
      <4>5. CASE call.report # r BY <4>3, <4>5
      <4> QED BY <4>4, <4>5
    <3>6. ASSUME call.op = "pay", call.at \in {"write", "log"}, call.report \in DOMAIN to.reports
          PROVE  LET is == to.reports[call.report]
                 IN  /\ call.at = "write" => is.status = "approved"
                     /\ call.at = "log" => \/ is.status = "paid"
                                           \/ is.status = "approved" /\ is.approver = NoText
      BY <2>3, <3>1, <3>5, <3>6 DEF Stands
    <3> QED BY <2>3, <3>1, <3>2, <3>3, <3>4, <3>6 DEF Stands, RowChanged
  <2>11. ~to.failed => (LogFits(to, r) \/ Logging(call, r))
    <3>1. ASSUME ~to.failed, ~Logging(call, r) PROVE LogFits(to, r)
      BY <1>7, <2>3, <3>1, <2>2, <2>6 DEF AloneOK, LogFits
    <3> QED BY <3>1
  <2> QED BY <1>7, <2>3, <2>4, <2>7, <2>9, <2>10, <2>11, RowChangedAlone
<1>8. ASSUME NEW call, AloneOK(db, call), r \notin DOMAIN db.reports PROVE AloneOK(to, call)
  BY <1>3, <1>5, <1>8, OrphanAgent
<1> QED BY <1>5, <1>6, <1>7, <1>8 DEF to, written, row

----
(* A request that only reads, and one that is answered at once. *)
LEMMA ExpenseRead ==
    ASSUME ExpensesInv, ListsInv, NEW c \in Callers, Moved(c), rows' = rows, Entered(calls'[c]),
           calls[c].at # "log", AloneOK(rows, calls[c]) => Stands(rows, calls'[c]),
           (Alone /\ DOMAIN rows.agents = {}) => ListOK(rows, calls'[c])
    PROVE  ExpensesInv' /\ ListsInv'
<1>1. AloneOK(rows, calls[c]) => AloneOK(rows', calls'[c]) BY DEF AloneOK, Logging
<1>2. TablesOK(rows') BY DEF ExpensesInv
<1> QED BY <1>1, <1>2, ExpensesStepped

LEMMA ExpenseAnswered ==
    ASSUME ExpensesInv, ListsInv, NEW c \in Callers, calls[c].at # "gone",
           NEW op \in ExpenseOps \ ListOps, NEW status,
           Continue(c, Answered(op, status)) \/ AnswerAtOnce(c, op, status),
           TablesOK(rows'), DOMAIN rows'.agents = {} => DOMAIN rows.agents = {},
           \A next : (AloneOK(rows, calls[c]) /\ Plain(next)) => AloneOK(rows', next)
    PROVE  ExpensesInv' /\ ListsInv' /\ part' = part
<1> DEFINE call == Answered(op, status)
<1>1. call.op = op /\ call.at = "answered" /\ call.at # "gone" /\ Plain(call) BY DEF Answered, Plain
<1>2. Begin(c, call) \/ Continue(c, call) BY DEF AnswerAtOnce
<1> HIDE DEF call
<1>3. Moved(c) /\ calls'[c] = call /\ part' = part BY <1>1, <1>2, Moves DEF ExpensesInv
<1>4. Entered(call) BY <1>1 DEF Entered
<1>5. ListOK(rows', call) BY <1>1 DEF ListOK
<1> QED BY <1>1, <1>3, <1>4, <1>5, ExpensesStepped

(* One that is answered at once without having written. *)
LEMMA ExpenseRefused ==
    ASSUME ExpensesInv, ListsInv, NEW c \in Callers, calls[c].at = "answered", rows' = rows,
           NEW op \in ExpenseOps \ ListOps, NEW status, AnswerAtOnce(c, op, status)
    PROVE  ExpensesInv' /\ ListsInv' /\ part' = part
<1>1. \A next : (AloneOK(rows, calls[c]) /\ Plain(next)) => AloneOK(rows', next)
  BY PlainStands DEF AloneOK, Logging
<1>2. TablesOK(rows') BY DEF ExpensesInv
<1> QED BY <1>1, <1>2, ExpenseAnswered

LEMMA ExpenseWrites ==
    ASSUME ExpensesInv, ListsInv, NEW c \in Callers,
           \/ DeleteReport(c)
           \/ AddItemInserts(c)
           \/ UpdateItemWrites(c)
           \/ DeleteItemWrites(c)
           \/ UploadReceipt(c)
           \/ Submit(c)
           \/ DecisionLogs(c)
           \/ RevertToDraft(c)
    PROVE  ExpensesInv' /\ ListsInv' /\ part' = part
<1>1. TablesOK(rows) /\ Entered(calls[c]) /\ DOMAIN calls = Callers BY DEF ExpensesInv
<1>2. {"deleteReport", "addItem", "updateItem", "deleteItem", "upload", "serve", "submit",
       "decideReport", "pay", "revert", "analytics"} \subseteq ExpenseOps \ ListOps
  BY DEF ExpenseOps, ListOps
<1>3. CASE DeleteReport(c)
  <2>1. PICK r : rows' = DeleteExpenseReportDraft(rows, r) BY <1>3 DEF DeleteReport, Store
  <2>2. AnswerAtOnce(c, "deleteReport", DeleteReportResponses.Done) /\ calls[c].at = "answered"
    BY <1>3 DEF DeleteReport, Free
  <2>3. /\ TablesOK(rows') /\ rows'.agents = rows.agents
        /\ \A next : (AloneOK(rows, calls[c]) /\ Plain(next)) => AloneOK(rows', next)
    BY <1>1, <2>1, <2>2, DraftGone
  <2> QED BY <1>2, <2>2, <2>3, ExpenseAnswered
<1>4. CASE AddItemInserts(c)
  <2> DEFINE call == calls[c]
  <2>1. /\ call.op = "addItem" /\ call.at = "insert"
        /\ Continue(c, Answered("addItem", AddItemResponses.Done))
    BY <1>4 DEF AddItemInserts, At, Answer
  <2>2. call.input \in ItemInputs BY <1>1, <2>1 DEF Entered
  <2>3. CASE call.report \in DOMAIN rows.reports
    <3>1. rows' = CreateExpenseItem(rows, call.report, call.input)
      BY <1>4, <2>3 DEF AddItemInserts, Store
    <3>2. /\ TablesOK(rows') /\ SameButItems(rows, rows')
          /\ \A s \in DOMAIN rows.reports \ {call.report} : SameItems(rows, rows', s)
      BY <1>1, <2>2, <2>3, <3>1, ItemAdded
    <3>3. ASSUME AloneOK(rows, call), NEW next, Plain(next) PROVE AloneOK(rows', next)
      <4>1. rows.reports[call.report].status = "draft" BY <2>1, <2>3, <3>3 DEF AloneOK, Stands
      <4> QED BY <1>1, <2>1, <3>2, <3>3, <4>1, ItemsChanged
    <3>4. rows'.agents = rows.agents BY <3>2 DEF SameButItems
    <3> QED BY <1>2, <2>1, <3>2, <3>3, <3>4, ExpenseAnswered
  <2>4. CASE call.report \notin DOMAIN rows.reports
    <3>1. rows' = rows BY <1>4, <2>4 DEF AddItemInserts, Store
    <3>2. \A next : (AloneOK(rows, call) /\ Plain(next)) => AloneOK(rows', next)
      BY <2>1, <3>1, PlainStands DEF AloneOK, Logging
    <3> QED BY <1>1, <1>2, <2>1, <3>1, <3>2, ExpenseAnswered
  <2> QED BY <2>3, <2>4
<1>5. CASE UpdateItemWrites(c)
  <2> DEFINE call == calls[c]
             e == rows.items[call.item].report
  <2>1. /\ call.op = "updateItem" /\ call.at = "write" /\ rows' = RewriteItem(rows, call.item, call.input)
        /\ Continue(c, Answered("updateItem", UpdateItemResponses.Done))
    BY <1>5 DEF UpdateItemWrites, At, Answer, Store
  <2>2. call.input \in ItemInputs BY <1>1, <2>1 DEF Entered
  <2>3. /\ TablesOK(rows') /\ SameButItems(rows, rows')
        /\ \A s \in DOMAIN rows.reports :
             SameItems(rows, rows', s) \/ (call.item \in DOMAIN rows.items /\ s = e)
    BY <1>1, <2>1, <2>2, ItemRewritten
  <2>4. ASSUME AloneOK(rows, call), NEW next, Plain(next) PROVE AloneOK(rows', next)
    <3>1. call.item \in DOMAIN rows.items => rows.reports[e].status = "draft"
      BY <2>1, <2>4 DEF AloneOK, Stands
    <3>2. \A s \in DOMAIN rows.reports :
             SameItems(rows, rows', s) \/ rows.reports[s].status = "draft"
      BY <2>3, <3>1
    <3>3. TablesOK(rows) /\ SameButItems(rows, rows') /\ call.at # "log" BY <1>1, <2>1, <2>3
    <3> QED BY <2>4, <3>2, <3>3, ItemsChanged
  <2>5. rows'.agents = rows.agents BY <2>3 DEF SameButItems
  <2> QED BY <1>2, <2>1, <2>3, <2>4, <2>5, ExpenseAnswered
<1>6. CASE DeleteItemWrites(c)
  <2> DEFINE call == calls[c]
             e == rows.items[call.item].report
  <2>1. /\ call.op = "deleteItem" /\ call.at = "write" /\ rows' = DeleteExpenseItem(rows, call.item)
        /\ Continue(c, Answered("deleteItem", DeleteItemResponses.Done))
    BY <1>6 DEF DeleteItemWrites, At, Answer, Store
  <2>3. /\ TablesOK(rows') /\ SameButItems(rows, rows')
        /\ \A s \in DOMAIN rows.reports :
             SameItems(rows, rows', s) \/ (call.item \in DOMAIN rows.items /\ s = e)
    BY <1>1, <2>1, ItemRemoved
  <2>4. ASSUME AloneOK(rows, call), NEW next, Plain(next) PROVE AloneOK(rows', next)
    <3>1. call.item \in DOMAIN rows.items => rows.reports[e].status = "draft"
      BY <2>1, <2>4 DEF AloneOK, Stands
    <3>2. \A s \in DOMAIN rows.reports :
             SameItems(rows, rows', s) \/ rows.reports[s].status = "draft"
      BY <2>3, <3>1
    <3>3. TablesOK(rows) /\ SameButItems(rows, rows') /\ call.at # "log" BY <1>1, <2>1, <2>3
    <3> QED BY <2>4, <3>2, <3>3, ItemsChanged
  <2>5. rows'.agents = rows.agents BY <2>3 DEF SameButItems
  <2> QED BY <1>2, <2>1, <2>3, <2>4, <2>5, ExpenseAnswered
<1>7. CASE UploadReceipt(c)
  <2>1. PICK i : rows' = UpdateExpenseItemReceipt(rows, i) BY <1>7 DEF UploadReceipt, Store
  <2>2. AnswerAtOnce(c, "upload", UploadResponses.Done) /\ calls[c].at = "answered"
    BY <1>7 DEF UploadReceipt, Free
  <2>3. /\ TablesOK(rows') /\ SameButItems(rows, rows')
        /\ \A s \in DOMAIN rows.reports : SameItems(rows, rows', s)
    BY <1>1, <2>1, ReceiptUploaded
  <2>4. ASSUME AloneOK(rows, calls[c]), NEW next, Plain(next) PROVE AloneOK(rows', next)
    BY <1>1, <2>2, <2>3, <2>4, ItemsChanged
  <2>5. rows'.agents = rows.agents BY <2>3 DEF SameButItems
  <2> QED BY <1>2, <2>2, <2>3, <2>4, <2>5, ExpenseAnswered
<1>8. CASE Submit(c)
  <2>1. calls[c].at = "answered"
    <3>1. Free({"expenses"}, c) BY <1>8 DEF Submit
    <3> QED BY <3>1 DEF Free
  <2>2. PICK r : \/ /\ rows' = rows
                    /\ \E status : AnswerAtOnce(c, "submit", status)
                 \/ /\ r \in DOMAIN rows.reports /\ rows.reports[r].status = "draft"
                    /\ rows' = Submitted(rows, r)
                    /\ AnswerAtOnce(c, "submit", SubmitResponses.Done)
    BY <1>8 DEF Submit, Reads, Store, Submitted, SubmittedRow, GetExpenseReportByID
  <2>3. CASE rows' = rows /\ \E status : AnswerAtOnce(c, "submit", status)
    <3>1. PICK status : AnswerAtOnce(c, "submit", status) BY <2>3
    <3> QED BY <1>2, <2>1, <2>3, <3>1, ExpenseRefused
  <2>4. CASE /\ r \in DOMAIN rows.reports /\ rows.reports[r].status = "draft"
             /\ rows' = Submitted(rows, r) /\ AnswerAtOnce(c, "submit", SubmitResponses.Done)
    BY <1>1, <2>1, <2>4, SubmitWrites, <1>2, ExpenseAnswered
  <2> QED BY ONLY <2>2, <2>3, <2>4
<1>9. CASE DecisionLogs(c)
  <2> DEFINE call == calls[c]
  <2>1. /\ call.op \in {"decideReport", "pay"} /\ call.at = "log"
        /\ \/ rows' = CreateExpenseAuditLog(rows, call.report, call.as)
           \/ rows' = [rows EXCEPT !.failed = TRUE]
        /\ Continue(c, Answered(call.op, 200))
    BY <1>9 DEF DecisionLogs, Answer
  <2>3. ASSUME NEW next, Plain(next)
        PROVE  /\ TablesOK(rows') /\ rows'.agents = rows.agents
               /\ AloneOK(rows, call) => AloneOK(rows', next)
    BY <1>1, <2>1, <2>3, DecisionLogged
  <2>4. Plain(NoCall) BY DEF Plain, NoCall
  <2>2. /\ TablesOK(rows') /\ rows'.agents = rows.agents
        /\ \A next : (AloneOK(rows, call) /\ Plain(next)) => AloneOK(rows', next)
    BY <2>3, <2>4
  <2> QED BY <1>2, <2>1, <2>2, ExpenseAnswered
<1>10. CASE RevertToDraft(c)
  <2>1. PICK r : rows' = CreateExpenseAuditLog(UpdateExpenseReportRejectToDraft(rows, r), r, "edited")
    BY <1>10 DEF RevertToDraft, Store
  <2>2. AnswerAtOnce(c, "revert", RevertResponses.Done) /\ calls[c].at = "answered"
    BY <1>10 DEF RevertToDraft, Free
  <2>3. /\ TablesOK(rows') /\ rows'.agents = rows.agents
        /\ \A next : (AloneOK(rows, calls[c]) /\ Plain(next)) => AloneOK(rows', next)
    BY <1>1, <2>1, <2>2, Reverted
  <2> QED BY <1>2, <2>2, <2>3, ExpenseAnswered
<1> QED BY <1>3, <1>4, <1>5, <1>6, <1>7, <1>8, <1>9, <1>10

(* A request that has read what it needs and goes on. *)
LEMMA ExpenseBegins ==
    ASSUME ExpensesInv, ListsInv, NEW c \in Callers, calls[c].at # "gone", calls[c].at # "log",
           rows' = rows, NEW call, Begin(c, call) \/ Continue(c, call), Entered(call),
           call.at # "gone", AloneOK(rows, calls[c]) => Stands(rows, call),
           (Alone /\ DOMAIN rows.agents = {}) => ListOK(rows, call)
    PROVE  ExpensesInv' /\ ListsInv' /\ part' = part
<1>1. Moved(c) /\ calls'[c] = call /\ part' = part BY Moves DEF ExpensesInv
<1> QED BY <1>1, ExpenseRead

LEMMA ExpenseReads ==
    ASSUME ExpensesInv, ListsInv, NEW c \in Callers,
           \/ AddItem(c)
           \/ UpdateItem(c)
           \/ DeleteItem(c)
           \/ ServeReceipt(c)
           \/ Decide(c)
           \/ MarkPaid(c)
           \/ GetAnalytics(c)
           \/ AnalyticsByCategory(c)
           \/ AnalyticsByDepartment(c)
    PROVE  ExpensesInv' /\ ListsInv' /\ part' = part
<1>1. TablesOK(rows) /\ DOMAIN calls = Callers BY DEF ExpensesInv
<1>2. {"deleteReport", "addItem", "updateItem", "deleteItem", "upload", "serve", "submit",
       "decideReport", "pay", "revert", "analytics"} \subseteq ExpenseOps \ ListOps
  BY DEF ExpenseOps, ListOps
<1>3. CASE AddItem(c)
  <2>1. calls[c].at = "answered" /\ rows' = rows BY <1>3 DEF AddItem, Free, Reads
  <2>2. PICK r, input :
          \/ \E status : AnswerAtOnce(c, "addItem", status)
          \/ /\ r \in DOMAIN rows.reports /\ rows.reports[r].status = "draft" /\ input \in ItemInputs
             /\ Begin(c, [op |-> "addItem", at |-> "insert", report |-> r, input |-> input])
    BY <1>3 DEF AddItem, GetExpenseReportByID
  <2>3. CASE \E status : AnswerAtOnce(c, "addItem", status) BY <1>2, <2>1, <2>3, ExpenseRefused
  <2>4. CASE /\ r \in DOMAIN rows.reports /\ rows.reports[r].status = "draft" /\ input \in ItemInputs
             /\ Begin(c, [op |-> "addItem", at |-> "insert", report |-> r, input |-> input])
    <3> DEFINE call == [op |-> "addItem", at |-> "insert", report |-> r, input |-> input]
    <3>1. call.op = "addItem" /\ call.at = "insert" /\ call.report = r /\ call.input = input
          /\ Begin(c, call)
      BY <2>4
    <3> HIDE DEF call
    <3>2. Entered(call) /\ Stands(rows, call) /\ ListOK(rows, call)
      BY <1>2, <2>4, <3>1 DEF Entered, Stands, ListOK
    <3> QED BY <2>1, <3>1, <3>2, ExpenseBegins
  <2> QED BY <2>2, <2>3, <2>4
<1>4. CASE UpdateItem(c)
  <2>1. calls[c].at = "answered" /\ rows' = rows BY <1>4 DEF UpdateItem, Free, Reads
  <2>2. PICK i, input :
          \/ \E status : AnswerAtOnce(c, "updateItem", status)
          \/ /\ ItemStatus(i) = "draft" /\ input \in ItemInputs
             /\ Begin(c, [op |-> "updateItem", at |-> "write", item |-> i, input |-> input])
    BY <1>4 DEF UpdateItem
  <2>3. CASE \E status : AnswerAtOnce(c, "updateItem", status) BY <1>2, <2>1, <2>3, ExpenseRefused
  <2>4. CASE /\ ItemStatus(i) = "draft" /\ input \in ItemInputs
             /\ Begin(c, [op |-> "updateItem", at |-> "write", item |-> i, input |-> input])
    <3> DEFINE call == [op |-> "updateItem", at |-> "write", item |-> i, input |-> input]
    <3>1. /\ call.op = "updateItem" /\ call.at = "write" /\ call.item = i
          /\ call.input = input /\ Begin(c, call)
      BY <2>4
    <3> HIDE DEF call
    <3>2. rows.reports[rows.items[i].report].status = "draft" BY <2>4 DEF ItemStatus
    <3>3. Entered(call) /\ Stands(rows, call) /\ ListOK(rows, call)
      BY <1>2, <2>4, <3>1, <3>2 DEF Entered, Stands, ListOK
    <3> QED BY <2>1, <3>1, <3>3, ExpenseBegins
  <2> QED BY <2>2, <2>3, <2>4
<1>5. CASE DeleteItem(c)
  <2>1. calls[c].at = "answered" /\ rows' = rows BY <1>5 DEF DeleteItem, Free, Reads
  <2>2. PICK i :
          \/ \E status : AnswerAtOnce(c, "deleteItem", status)
          \/ /\ ItemStatus(i) = "draft"
             /\ Begin(c, [op |-> "deleteItem", at |-> "write", item |-> i])
    BY <1>5 DEF DeleteItem
  <2>3. CASE \E status : AnswerAtOnce(c, "deleteItem", status) BY <1>2, <2>1, <2>3, ExpenseRefused
  <2>4. CASE /\ ItemStatus(i) = "draft"
             /\ Begin(c, [op |-> "deleteItem", at |-> "write", item |-> i])
    <3> DEFINE call == [op |-> "deleteItem", at |-> "write", item |-> i]
    <3>1. call.op = "deleteItem" /\ call.at = "write" /\ call.item = i /\ Begin(c, call) BY <2>4
    <3> HIDE DEF call
    <3>2. rows.reports[rows.items[i].report].status = "draft" BY <2>4 DEF ItemStatus
    <3>3. Entered(call) /\ Stands(rows, call) /\ ListOK(rows, call)
      BY <1>2, <2>4, <3>1, <3>2 DEF Entered, Stands, ListOK
    <3> QED BY <2>1, <3>1, <3>3, ExpenseBegins
  <2> QED BY <2>2, <2>3, <2>4
<1>6. CASE ServeReceipt(c)
  <2>1. calls[c].at = "answered" /\ rows' = rows BY <1>6 DEF ServeReceipt, Free, Reads
  <2>2. PICK status : AnswerAtOnce(c, "serve", status) BY <1>6 DEF ServeReceipt
  <2> QED BY <1>2, <2>1, <2>2, ExpenseRefused
<1>7. CASE Decide(c)
  <2>1. calls[c].at = "answered" /\ rows' = rows BY <1>7 DEF Decide, Free, Reads
  <2>2. PICK u \in Staff, r \in DOMAIN rows.reports, status \in {"approved", "rejected"} :
          /\ MayDecide(u, r)
          /\ Begin(c, [op |-> "decideReport", at |-> "write", by |-> u, report |-> r, as |-> status])
    BY <1>7 DEF Decide
  <2> DEFINE call == [op |-> "decideReport", at |-> "write", by |-> u, report |-> r, as |-> status]
  <2>3. /\ call.op = "decideReport" /\ call.at = "write" /\ call.by = u /\ call.report = r
        /\ call.as = status /\ Begin(c, call)
        /\ DOMAIN call = {"op", "at", "by", "report", "as"}
    BY <2>2
  <2> HIDE DEF call
  <2>4. Entered(call) /\ Stands(rows, call) /\ ListOK(rows, call)
    BY <1>2, <2>2, <2>3 DEF Entered, Stands, ListOK, MayDecide
  <2> QED BY <2>1, <2>3, <2>4, ExpenseBegins
<1>8. CASE MarkPaid(c)
  <2>1. calls[c].at = "answered" /\ rows' = rows BY <1>8 DEF MarkPaid, Free, Reads
  <2>2. PICK r \in ListExpenseReportsByStatus(rows, "approved") :
          Begin(c, [op |-> "pay", at |-> "write", report |-> r, as |-> "paid"])
    BY <1>8 DEF MarkPaid
  <2> DEFINE call == [op |-> "pay", at |-> "write", report |-> r, as |-> "paid"]
  <2>3. /\ call.op = "pay" /\ call.at = "write" /\ call.report = r /\ call.as = "paid"
        /\ Begin(c, call) /\ DOMAIN call = {"op", "at", "report", "as"}
    BY <2>2
  <2> HIDE DEF call
  <2>4. rows.reports[r].status = "approved" BY <2>2 DEF ListExpenseReportsByStatus
  <2>5. Entered(call) /\ Stands(rows, call) /\ ListOK(rows, call)
    BY <1>2, <2>3, <2>4 DEF Entered, Stands, ListOK
  <2> QED BY <2>1, <2>3, <2>5, ExpenseBegins
<1>9. ASSUME NEW call, call.op = "analytics", call.at \in {"category", "department", "answered"},
             Begin(c, call) \/ Continue(c, call), rows' = rows, calls[c].at # "gone",
             calls[c].at # "log" PROVE  ExpensesInv' /\ ListsInv' /\ part' = part
  BY <1>2, <1>9, ExpenseBegins DEF Entered, Stands, ListOK
<1>10. CASE GetAnalytics(c)
  <2> DEFINE call == [op |-> "analytics", at |-> "category", summary |-> GetExpenseSpendSummary(rows)]
  <2>1. calls[c].at = "answered" /\ rows' = rows /\ Begin(c, call)
    BY <1>10 DEF GetAnalytics, Free, Reads
  <2>2. call.op = "analytics" /\ call.at = "category" OBVIOUS
  <2> HIDE DEF call
  <2> QED BY <1>9, <2>1, <2>2
<1>11. CASE AnalyticsByCategory(c)
  <2> DEFINE call == [op |-> "analytics", at |-> "department", summary |-> calls[c].summary,
                      categories |-> GetExpenseSpendByCategory(rows)]
  <2>1. calls[c].at = "category" /\ rows' = rows /\ Continue(c, call)
    BY <1>11 DEF AnalyticsByCategory, At, Reads
  <2>2. call.op = "analytics" /\ call.at = "department" OBVIOUS
  <2> HIDE DEF call
  <2> QED BY <1>9, <2>1, <2>2
<1>12. CASE AnalyticsByDepartment(c)
  <2> DEFINE call == [op |-> "analytics", at |-> "answered", summary |-> calls[c].summary,
                      categories |-> calls[c].categories,
                      departments |-> GetExpenseSpendByDepartment(rows),
                      status |-> AnalyticsResponses.Done]
  <2>1. calls[c].at = "department" /\ rows' = rows /\ Continue(c, call)
    BY <1>12 DEF AnalyticsByDepartment, At, Reads
  <2>2. call.op = "analytics" /\ call.at = "answered" OBVIOUS
  <2> HIDE DEF call
  <2> QED BY <1>9, <2>1, <2>2
<1> QED BY <1>3, <1>4, <1>5, <1>6, <1>7, <1>8, <1>10, <1>11, <1>12

(* The queues of approvers and of finance. *)
LEMMA QueuesRead ==
    ASSUME ExpensesInv, ListsInv, NEW c \in Callers,
           \/ ListPendingApprovals(c)
           \/ ListPendingCounts(c)
           \/ ListFinanceQueue(c)
           \/ ListFinanceCounts(c)
    PROVE  ExpensesInv' /\ ListsInv' /\ part' = part
<1>1. {"queue", "finance"} \subseteq ExpenseOps BY DEF ExpenseOps
<1>2. ASSUME NEW call, call.op \in {"queue", "finance"}, call.at \in {"count", "answered"},
             Begin(c, call) \/ Continue(c, call), rows' = rows, calls[c].at # "gone",
             calls[c].at # "log", (Alone /\ DOMAIN rows.agents = {}) => ListOK(rows, call)
      PROVE  ExpensesInv' /\ ListsInv' /\ part' = part
  BY <1>1, <1>2, ExpenseBegins DEF Entered, Stands
<1>3. CASE ListPendingApprovals(c)
  <2>1. PICK u \in Staff : Begin(c, [op |-> "queue", at |-> "count", by |-> u,
                                     listed |-> ListPendingApprovalsForUser(rows, u)])
    BY <1>3 DEF ListPendingApprovals
  <2> DEFINE listed == ListPendingApprovalsForUser(rows, u)
             call == [op |-> "queue", at |-> "count", by |-> u, listed |-> listed]
  <2>2. call.op = "queue" /\ call.at = "count" /\ Begin(c, call) BY <2>1
  <2>3. Cardinality(call.listed) = CountOf(rows, call)
    BY DEF CountOf, CountPendingApprovalsForUser, CountExpenseReportsByStatus
  <2>4. ListOK(rows, call) BY <2>3 DEF ListOK
  <2> HIDE DEF call
  <2>5. rows' = rows /\ calls[c].at = "answered" BY <1>3 DEF ListPendingApprovals, Reads, Free
  <2> QED BY <1>2, <2>2, <2>4, <2>5
<1>4. CASE ListPendingCounts(c)
  <2> DEFINE listed == calls[c].listed
             total == CountPendingApprovalsForUser(rows, calls[c].by)
             call == [op |-> "queue", at |-> "answered", listed |-> listed, total |-> total,
                      status |-> QueueResponses.Done]
  <2>1. /\ Continue(c, call) /\ calls[c].op = "queue" /\ calls[c].at = "count" /\ rows' = rows
    BY <1>4 DEF ListPendingCounts, At, Reads
  <2>2. ASSUME Alone, DOMAIN rows.agents = {} PROVE ListOK(rows, call)
    <3>1. ListOK(rows, calls[c]) BY <2>2 DEF ListsInv
    <3>2. Cardinality(listed) = total BY <2>1, <3>1 DEF ListOK, ListOps, CountOf
    <3> HIDE DEF listed, total
    <3>3. call.at = "answered" /\ call.total = total /\ call.listed = listed OBVIOUS
    <3> HIDE DEF call
    <3> QED BY <3>2, <3>3 DEF ListOK
  <2>3. call.op = "queue" /\ call.at = "answered" OBVIOUS
  <2> HIDE DEF call
  <2> QED BY <1>2, <2>1, <2>2, <2>3
<1>5. CASE ListFinanceQueue(c)
  <2>1. Begin(c, [op |-> "finance", at |-> "count",
                  listed |-> ListExpenseReportsByStatus(rows, "approved")])
    BY <1>5 DEF ListFinanceQueue
  <2> DEFINE listed == ListExpenseReportsByStatus(rows, "approved")
             call == [op |-> "finance", at |-> "count", listed |-> listed]
  <2>2. call.op = "finance" /\ call.at = "count" /\ Begin(c, call) BY <2>1
  <2>3. Cardinality(call.listed) = CountOf(rows, call)
    BY DEF CountOf, CountPendingApprovalsForUser, CountExpenseReportsByStatus
  <2>4. ListOK(rows, call) BY <2>3 DEF ListOK
  <2> HIDE DEF call
  <2>5. rows' = rows /\ calls[c].at = "answered" BY <1>5 DEF ListFinanceQueue, Reads, Free
  <2> QED BY <1>2, <2>2, <2>4, <2>5
<1>6. CASE ListFinanceCounts(c)
  <2> DEFINE listed == calls[c].listed
             total == CountExpenseReportsByStatus(rows, "approved")
             call == [op |-> "finance", at |-> "answered", listed |-> listed, total |-> total,
                      status |-> FinanceResponses.Done]
  <2>1. /\ Continue(c, call) /\ calls[c].op = "finance" /\ calls[c].at = "count" /\ rows' = rows
    BY <1>6 DEF ListFinanceCounts, At, Reads
  <2>2. ASSUME Alone, DOMAIN rows.agents = {} PROVE ListOK(rows, call)
    <3>1. ListOK(rows, calls[c]) BY <2>2 DEF ListsInv
    <3>2. Cardinality(listed) = total BY <2>1, <3>1 DEF ListOK, ListOps, CountOf
    <3> HIDE DEF listed, total
    <3>3. call.at = "answered" /\ call.total = total /\ call.listed = listed OBVIOUS
    <3> HIDE DEF call
    <3> QED BY <3>2, <3>3 DEF ListOK
  <2>3. call.op = "finance" /\ call.at = "answered" OBVIOUS
  <2> HIDE DEF call
  <2> QED BY <1>2, <2>1, <2>2, <2>3
<1> QED BY <1>3, <1>4, <1>5, <1>6

LEMMA DecisionsWritten ==
    ASSUME ExpensesInv, ListsInv, NEW c \in Callers, DecideWrites(c) \/ PayWrites(c)
    PROVE  ExpensesInv' /\ ListsInv' /\ part' = part
<1> DEFINE call == calls[c]
           next == [call EXCEPT !.at = "log"]
<1>1. /\ TablesOK(rows) /\ Entered(call) /\ DOMAIN calls = Callers
      /\ call.at = "write" /\ Continue(c, next)
  BY DEF ExpensesInv, DecideWrites, PayWrites, At
<1>2. next = [i \in DOMAIN call |-> IF i = "at" THEN "log" ELSE call[i]] OBVIOUS
<1>3. {"decideReport", "pay"} \subseteq ExpenseOps \ ListOps BY DEF ExpenseOps, ListOps
<1>4. ASSUME NEW new, new.at = "log", Continue(c, new), new.op \in {"decideReport", "pay"},
             Entered(new), TablesOK(rows'), rows'.agents = rows.agents,
             AloneOK(rows, call) => AloneOK(rows', new)
      PROVE  ExpensesInv' /\ ListsInv' /\ part' = part
  BY <1>1, <1>4, Moves, <1>3, ExpensesStepped DEF ListOK
<1>5. CASE DecideWrites(c)
  <2> DEFINE r == call.report
             row == [rows.reports[r] EXCEPT !.status = call.as, !.approver = call.by,
                                            !.dated = @ \/ call.as = "approved"]
  <2>1. call.op = "decideReport" /\ DOMAIN call = {"op", "at", "by", "report", "as"}
    BY <1>1, <1>5 DEF DecideWrites, At, Entered
  <2>2. /\ next.op = "decideReport" /\ next.at = "log" /\ next.report = r /\ next.as = call.as
        /\ next.by = call.by
    BY <1>2, <2>1
  <2> HIDE DEF next
  <2>3. Entered(next) BY <1>1, <1>3, <2>1, <2>2 DEF Entered
  <2>4. TablesOK(rows') /\ rows'.agents = rows.agents /\ (AloneOK(rows, call) => AloneOK(rows', next))
    <3>1. CASE r \in DOMAIN rows.reports
      <4> DEFINE dated == rows.reports[r].dated \/ call.as = "approved"
                 to == Changed(rows, r, [rows.reports[r] EXCEPT !.status = call.as, !.approver = call.by,
                                                         !.dated = dated])
      <4>1. "dated" \in DOMAIN rows.reports[r] BY <1>1, <3>1 DEF TablesOK, HasTables, ReportRow
      <4>2. row = [rows.reports[r] EXCEPT !.status = call.as, !.approver = call.by, !.dated = dated]
        BY <4>1
      <4>3. rows' = to BY <1>5, <3>1, <4>2 DEF DecideWrites, Store
      <4>4. TablesOK(to) /\ to.agents = rows.agents /\ (AloneOK(rows, call) => AloneOK(to, next))
        <5> HIDE DEF dated
        <5> QED BY <1>1, <2>1, <2>2, <3>1, DecisionWritten
      <4> QED BY <4>3, <4>4
    <3>2. CASE r \notin DOMAIN rows.reports
      BY <1>5, <3>2, <1>1, <2>1, <2>2 DEF DecideWrites, Store, AloneOK, Stands, Logging
    <3> QED BY <3>1, <3>2
  <2> QED BY <1>1, <1>4, <2>2, <2>3, <2>4
<1>6. CASE PayWrites(c)
  <2> DEFINE r == call.report
  <2>1. call.op = "pay" /\ DOMAIN call = {"op", "at", "report", "as"} /\ call.as = "paid"
    BY <1>1, <1>6 DEF PayWrites, At, Entered
  <2>2. next.op = "pay" /\ next.at = "log" /\ next.report = r /\ next.as = "paid" BY <1>2, <2>1
  <2> HIDE DEF next
  <2>3. Entered(next) BY <1>1, <1>3, <2>1, <2>2 DEF Entered
  <2>4. rows' = IF r \in ListExpenseReportsByStatus(rows, "approved")
                THEN SetStatus(rows, r, "paid") ELSE rows
    BY <1>6 DEF PayWrites, Store
  <2>5. TablesOK(rows') /\ rows'.agents = rows.agents /\ (AloneOK(rows, call) => AloneOK(rows', next))
    BY <1>1, <2>1, <2>2, <2>4, PaymentWritten
  <2> QED BY <1>1, <1>4, <2>2, <2>3, <2>5
<1> QED BY <1>5, <1>6

(* The agent moves: the requests have not. *)
LEMMA AgentMoves ==
    ASSUME ExpensesInv, ListsInv, NEW r \in DOMAIN rows.agents,
           AgentEvaluates(r) \/ AgentFails(r) \/ AgentWrites(r) \/ AgentLinks(r)
    PROVE  ExpensesInv' /\ ListsInv' /\ part' = part
<1>1. TablesOK(rows) /\ DOMAIN calls = Callers /\ \A c \in Callers : Entered(calls[c])
  BY DEF ExpensesInv
<1>2. part' = part /\ calls' = calls BY DEF AgentEvaluates, AgentFails, AgentWrites, AgentLinks
<1>3. /\ TablesOK(rows') /\ DOMAIN rows'.agents = DOMAIN rows.agents
      /\ \A call : (Entered(call) /\ AloneOK(rows, call)) => AloneOK(rows', call)
  <2>1. CASE AgentEvaluates(r)
    <3>1. PICK unseen \in SUBSET NamedItems(rows, r) :
            \E verdict \in {Verdict(rows, r, unseen), VerdictWithout(rows, r)} :
                rows' = [rows EXCEPT !.agents[r] = verdict, !.failed = @ \/ unseen # {}]
      BY <2>1 DEF AgentEvaluates, Store
    <3>2. PICK verdict \in {Verdict(rows, r, unseen), VerdictWithout(rows, r)} :
            rows' = [rows EXCEPT !.agents[r] = verdict, !.failed = @ \/ unseen # {}]
      BY <3>1
    <3>3. rows.agents[r] = "due" /\ r \in DOMAIN rows.reports BY <2>1 DEF AgentEvaluates
    <3>4. verdict \in {"approved", "pending_approval"} BY DEF Verdict, VerdictWithout
    <3>5. ~rows'.failed => unseen = {} BY <1>1, <3>2 DEF TablesOK, HasTables
    <3>6. (verdict = "approved" /\ ~rows'.failed) =>
             Verdict(rows, r, {}) = "approved" \/ ItemsOf(rows, r) = {}
      BY <3>5 DEF VerdictWithout
    <3>7. AgentMoved(rows, rows', r) /\ rows'.agents[r] = verdict /\ rows'.auto = rows.auto
      BY <1>1, <3>2, <3>4 DEF AgentMoved, AgentStates, TablesOK, HasTables
    <3> QED BY <1>1, <3>3, <3>4, <3>6, <3>7, AgentJudges
  <2>4. CASE AgentFails(r)
    <3>1. /\ rows.agents[r] \in {"due", "approved", "pending_approval"}
          /\ rows' = [rows EXCEPT !.agents[r] = "done"]
      BY <2>4 DEF AgentFails, Store
    <3>2. AgentMoved(rows, rows', r) /\ rows'.agents[r] = "done" /\ rows'.auto = rows.auto
      BY <1>1, <3>1 DEF AgentMoved, AgentStates, TablesOK, HasTables
    <3> DEFINE v == "done"
    <3>3. v \in {"approved", "pending_approval", "done"} /\ v # "approved" OBVIOUS
    <3> HIDE DEF v
    <3>4. rows'.agents[r] = v BY <3>2 DEF v
    <3>5. rows.agents[r] \in {"due", "approved", "pending_approval"} BY <3>1
    <3>6. (v = "approved" /\ ~rows'.failed) => r \in DOMAIN rows.reports
             /\ (Verdict(rows, r, {}) = "approved" \/ ItemsOf(rows, r) = {})
      BY <3>3
    <3> QED BY <1>1, <3>2, <3>3, <3>4, <3>5, <3>6, AgentJudges
  <2>2. CASE AgentWrites(r)
    <3> DEFINE v == rows.agents[r]
               written == IF r \in DOMAIN rows.reports THEN SetStatus(rows, r, v) ELSE rows
               to == [written EXCEPT !.agents[r] = IF v = "approved" THEN "accrues" ELSE "done",
                                     !.auto = IF v = "approved" THEN @ \cup {r} ELSE @]
    <3>1. v \in {"approved", "pending_approval"} /\ rows' = to BY <2>2 DEF AgentWrites, Store
    <3>2. /\ TablesOK(to) /\ DOMAIN to.agents = DOMAIN rows.agents
          /\ \A call : (Entered(call) /\ AloneOK(rows, call)) => AloneOK(to, call)
      BY <1>1, <3>1, AgentWritten
    <3> HIDE DEF to
    <3> QED BY <3>1, <3>2
  <2>3. CASE AgentLinks(r)
    <3>1. PICK booked \in BOOLEAN : rows' = [IF booked /\ r \in DOMAIN rows.reports
                     THEN Changed(rows, r, [rows.reports[r] EXCEPT !.status = "approved",
                                                     !.dated = TRUE, !.approver = NoText])
                     ELSE rows EXCEPT !.agents[r] = "done"]
      BY <2>3 DEF AgentLinks, Store
    <3>2. rows.agents[r] = "accrues" BY <2>3, Zenon DEF AgentLinks
    <3> DEFINE to == [IF booked /\ r \in DOMAIN rows.reports
                      THEN Changed(rows, r, [rows.reports[r] EXCEPT !.status = "approved",
                                                      !.dated = TRUE, !.approver = NoText])
                      ELSE rows EXCEPT !.agents[r] = "done"]
    <3>3. /\ TablesOK(to) /\ DOMAIN to.agents = DOMAIN rows.agents
          /\ \A call : (Entered(call) /\ AloneOK(rows, call)) => AloneOK(to, call)
      BY <1>1, <3>2, AgentLinked
    <3>4. rows' = to BY <3>1
    <3> HIDE DEF to
    <3> QED BY <3>3, <3>4
  <2> QED BY <2>1, <2>2, <2>3, <2>4
<1>4. ExpensesInv' BY <1>1, <1>2, <1>3 DEF ExpensesInv
<1>5. ListsInv' BY <1>1, <1>2, <1>3 DEF ListsInv
<1> QED BY <1>2, <1>4, <1>5

LEMMA ExpensesKept ==
    ASSUME ExpensesInv, ListsInv, part = "expenses", ExpenseDeskNext
    PROVE  ExpensesInv' /\ ListsInv' /\ part' = part
BY ExpensesActions, ExpenseWrites, ExpenseReads, QueuesRead, DecisionsWritten, AgentMoves

----
(* What is spent: the totals of the reports are what their items add up to, so
   that both ways to add them up come to the same. *)
LEMMA BreakdownsMeet ==
    ASSUME NEW db, TablesOK(db), \A r \in DOMAIN db.reports : ReportOK(db, r)
    PROVE  LET categories == GetExpenseSpendByCategory(db)
               departments == GetExpenseSpendByDepartment(db)
           IN  AddAll(categories, DOMAIN categories) = AddAll(departments, DOMAIN departments)
<1> DEFINE R == {r \in Spent(db) : db.reports[r].dated}
           I == {i \in DOMAIN db.items : /\ db.items[i].report \in Spent(db)
                                         /\ db.reports[db.items[i].report].dated}
           amounts == [i \in DOMAIN db.items |-> db.items[i].amount]
           totals == [r \in DOMAIN db.reports |-> db.reports[r].total]
           cats == {db.items[i].category : i \in I}
           depts == {db.reports[r].dept : r \in R}
           categories == GetExpenseSpendByCategory(db)
           departments == GetExpenseSpendByDepartment(db)
<1>1. /\ R \subseteq DOMAIN db.reports /\ I \subseteq DOMAIN db.items
      /\ IsFiniteSet(R) /\ IsFiniteSet(I) /\ HasTables(db)
  <2>1. R \subseteq DOMAIN db.reports /\ I \subseteq DOMAIN db.items /\ HasTables(db)
    BY DEF Spent, TablesOK
  <2> HIDE DEF R, I
  <2> QED BY <2>1, ItemsFinite, ReportsFinite, FS_Subset
<1>2. \A i \in I : amounts[i] \in Int /\ db.items[i].report \in R BY DEF TablesOK
<1>3. \A r \in R : totals[r] = SetSum(amounts, {i \in I : db.items[i].report = r})
  <2> TAKE r \in R
  <2>1. db.reports[r].status # "draft" /\ r \in DOMAIN db.reports BY DEF Spent
  <2>2. totals[r] = SumExpenseItemsByReport(db, r) BY <2>1 DEF ReportOK
  <2>3. ItemsOf(db, r) = {i \in I : db.items[i].report = r} BY DEF ItemsOf
  <2> QED BY <2>2, <2>3, AddAllIsSum DEF SumExpenseItemsByReport
<1>4. \A r \in R : totals[r] \in Int
  <2> HIDE DEF R, I, totals, amounts
  <2>1. \A r \in R : /\ IsFiniteSet({i \in I : db.items[i].report = r})
                     /\ {i \in I : db.items[i].report = r} \subseteq I
    BY <1>1, FS_Subset
  <2>2. ASSUME NEW r \in R, NEW G, G = {i \in I : db.items[i].report = r}
        PROVE  SetSum(amounts, G) \in Int
    <3>1. IsFiniteSet(G) /\ \A i \in G : amounts[i] \in Int BY <1>2, <2>1, <2>2
    <3> QED BY <3>1, SumType
  <2> QED BY <1>3, <2>2
<1>5. SetSum(totals, R) = SetSum(amounts, I)
  <2> DEFINE key == [i \in I |-> db.items[i].report]
  <2>1. \A i \in I : key[i] \in R BY <1>2
  <2>2. \A r \in R : {i \in I : db.items[i].report = r} = Group(I, key, r) BY DEF Group
  <2>3. \A i \in I : amounts[i] \in Int BY <1>2
  <2> HIDE DEF R, I, totals, amounts, key
  <2>4. \A r \in R : totals[r] = SetSum(amounts, Group(I, key, r)) BY <1>3, <2>2
  <2>5. IsFiniteSet(I) /\ IsFiniteSet(R) BY <1>1
  <2> QED BY <2>1, <2>3, <2>4, <2>5, SumOfGroups
<1>6. AddAll(categories, DOMAIN categories) = SetSum(amounts, I)
  <2> DEFINE key == [i \in I |-> db.items[i].category]
  <2>1. categories = [cat \in cats |-> AddAll(amounts, {i \in I : db.items[i].category = cat})]
    BY DEF GetExpenseSpendByCategory
  <2>2. \A i \in I : key[i] \in cats OBVIOUS
  <2>3. \A cat \in cats : {i \in I : db.items[i].category = cat} = Group(I, key, cat) BY DEF Group
  <2>4. cats = {key[i] : i \in I} OBVIOUS
  <2>8. \A i \in I : amounts[i] \in Int BY <1>2
  <2> HIDE DEF R, I, amounts, key, cats, categories
  <2>5. /\ DOMAIN categories = cats
        /\ \A cat \in cats : categories[cat] = SetSum(amounts, Group(I, key, cat))
    BY <2>1, <2>3, AddAllIsSum
  <2>6. IsFiniteSet(cats) BY <1>1, <2>4, ImageFinite
  <2>7. SetSum(categories, cats) = SetSum(amounts, I) BY <1>1, <2>2, <2>5, <2>6, <2>8, SumOfGroups
  <2> QED BY <2>5, <2>7, AddAllIsSum
<1>7. AddAll(departments, DOMAIN departments) = SetSum(totals, R)
  <2> DEFINE key == [r \in R |-> db.reports[r].dept]
  <2>1. departments = [dept \in depts |-> AddAll(totals, {r \in R : db.reports[r].dept = dept})]
    BY DEF GetExpenseSpendByDepartment
  <2>2. \A r \in R : key[r] \in depts OBVIOUS
  <2>3. \A dept \in depts : {r \in R : db.reports[r].dept = dept} = Group(R, key, dept) BY DEF Group
  <2>4. depts = {key[r] : r \in R} OBVIOUS
  <2> HIDE DEF R, I, totals, key, depts, departments
  <2>5. /\ DOMAIN departments = depts
        /\ \A dept \in depts : departments[dept] = SetSum(totals, Group(R, key, dept))
    BY <2>1, <2>3, AddAllIsSum
  <2>6. IsFiniteSet(depts) BY <1>1, <2>4, ImageFinite
  <2>7. SetSum(departments, depts) = SetSum(totals, R) BY <1>1, <1>4, <2>2, <2>5, <2>6, SumOfGroups
  <2> QED BY <2>5, <2>7, AddAllIsSum
<1> QED BY <1>5, <1>6, <1>7

(* What the invariant says of what is promised. *)
LEMMA ExpensesTold ==
    ASSUME ExpensesInv
    PROVE  DuplicatesFlagged /\ BreakdownsAgree /\ LogTells
<1>1. TablesOK(rows) /\ DOMAIN calls = Callers BY DEF ExpensesInv
<1>2. ASSUME Alone PROVE \E c \in Callers : AloneOK(rows, calls[c]) BY <1>2 DEF Alone, ExpensesInv
<1>3. DuplicatesFlagged
  <2> SUFFICES ASSUME Alone, ~rows.failed, NEW r \in rows.auto \cap DOMAIN rows.reports,
                      NEW s \in rows.auto \cap DOMAIN rows.reports, r # s,
                      rows.reports[r].by = rows.reports[s].by
               PROVE  Cardinality(Shared(rows, r, s)) < 2
    BY DEF DuplicatesFlagged
  <2>1. FewShared(rows) BY <1>2 DEF AloneOK
  <2>2. r \in Cleared(rows) /\ s \in Cleared(rows) BY DEF Cleared
  <2> QED BY <2>1, <2>2, NoTwoMembers DEF FewShared
<1>4. BreakdownsAgree
  <2>1. ASSUME NEW u \in Staff, NEW r \in ListPendingApprovalsForUser(rows, u) PROVE MayDecide(u, r)
    BY DEF ListPendingApprovalsForUser, ListExpenseReportsByStatus, MayDecide
  <2>2. Alone => \A r \in DOMAIN rows.reports : ReportOK(rows, r) BY <1>2 DEF AloneOK
  <2> QED BY <1>1, <2>1, <2>2, BreakdownsMeet DEF BreakdownsAgree
<1>5. LogTells
  <2> SUFFICES ASSUME Alone, ~rows.failed, \A c \in Callers : ~Open(c),
                      NEW r \in DOMAIN rows.reports PROVE  LogFits(rows, r)
    BY DEF LogTells
  <2>1. PICK c \in Callers : AloneOK(rows, calls[c]) BY <1>2
  <2>2. ~Logging(calls[c], r) BY DEF Open, Logging
  <2> QED BY <2>1, <2>2 DEF AloneOK
<1> QED BY <1>3, <1>4, <1>5

LEMMA ListsTold ==
    ASSUME ListsInv
    PROVE  TotalsShown
<1> SUFFICES ASSUME Alone, NEW c \in Callers, calls[c].op \in {"myReports", "queue", "finance"},
                    "total" \in DOMAIN calls[c], rows.agents = <<>>
             PROVE  calls[c].total = Cardinality(calls[c].listed)
  BY DEF TotalsShown
<1>1. DOMAIN rows.agents = {} OBVIOUS
<1> QED BY <1>1 DEF ListsInv, ListOK, ListOps

(* Before the first request. *)
LEMMA ExpensesStarted ==
    ASSUME part = "expenses", ExpenseDeskInit
    PROVE  ExpensesInv
<1>1. ExpensesStart(rows) /\ calls \in [Callers -> {NoCall, Gone}]
  BY DEF ExpenseDeskInit, RequestsInit
<1>2. DOMAIN rows.agents = {} /\ rows.auto = {}
  BY <1>1 DEF ExpensesStart
<1>3. TablesOK(rows) BY <1>1, <1>2 DEF ExpensesStart, TablesOK
<1>4. ASSUME NEW c \in Callers PROVE Entered(calls[c]) /\ AloneOK(rows, calls[c])
  <2>1. calls[c].op = "none" /\ calls[c].at \in {"answered", "gone"} BY <1>1 DEF NoCall, Gone
  <2>2. Entered(calls[c]) /\ Stands(rows, calls[c]) BY <2>1 DEF Entered, Stands, ExpenseOps
  <2>3. Cleared(rows) = {} BY <1>2 DEF Cleared
  <2>4. FewShared(rows) BY <2>3 DEF FewShared
  <2>5. \A r \in DOMAIN rows.reports : ReportOK(rows, r) /\ LogFits(rows, r)
    BY <1>1, <1>2 DEF ExpensesStart, ReportOK
  <2> QED BY <2>2, <2>4, <2>5 DEF AloneOK
<1> QED BY <1>1, <1>3, <1>4 DEF ExpensesInv

LEMMA NumbersStarted ==
    ASSUME part = "numbers", ExpenseDeskInit
    PROVE  NumbersInv
<1>1. NumbersStart(rows) /\ calls \in [Callers -> {NoCall, Gone}]
  BY DEF ExpenseDeskInit, RequestsInit
<1>2. NumbersTable(rows)
  <2>1. ASSUME NEW r \in DOMAIN rows.reports PROVE  LET number == rows.reports[r].number
               IN  number = <<number[1], number[2]>> /\ number[2] \in Nat /\ number[1] = rows.month
    <3>1. PICK n \in Nat : rows.reports[r].number = <<rows.month, n>> BY <1>1 DEF NumbersStart
    <3> QED BY <3>1
  <2> QED BY <1>1, <2>1 DEF NumbersStart, NumbersTable
<1>3. ASSUME NEW c \in Callers PROVE NumberOK(rows, c, calls[c])
  BY <1>1 DEF NumberOK, NumbersOps, NoCall, Gone
<1> QED BY <1>1, <1>2, <1>3 DEF NumbersInv

LEMMA RequestsStarted ==
    ASSUME ExpenseDeskInit
    PROVE  ListsInv /\ (part = "settings" => SettingsInv)
<1>1. calls \in [Callers -> {NoCall, Gone}] BY DEF ExpenseDeskInit, RequestsInit
<1>2. \A c \in Callers : calls[c].op = "none" /\ "none" \notin ListOps /\ "none" \in SettingsOps
  BY <1>1 DEF NoCall, Gone, ListOps, SettingsOps
<1>3. ListsInv BY <1>1, <1>2 DEF ListsInv, ListOK
<1> QED BY <1>1, <1>2, <1>3 DEF ExpenseDeskInit, SettingsInv

(* Expense management keeps what it promises about numbers, duplicates,
   breakdowns, the log, the lists and the configuration, for all requests that
   run side by side and whatever the agent does in between
   (expense_report_service.go, expense_ai_service.go, expense_handler.go). *)
THEOREM ExpenseDeskSafe == ExpenseDeskSpec => []ExpenseDeskSound
<1>1. ExpenseDeskInit => ExpenseDeskInv
  BY ExpensesStarted, NumbersStarted, RequestsStarted DEF ExpenseDeskInit, ExpenseDeskInv
<1>2. ExpenseDeskInv /\ [ExpenseDeskNext]_requestVars => ExpenseDeskInv'
  <2> SUFFICES ASSUME ExpenseDeskInv, [ExpenseDeskNext]_requestVars PROVE ExpenseDeskInv' OBVIOUS
  <2>1. CASE ExpenseDeskNext
    <3>1. part \in ExpenseDeskParts BY DEF ExpenseDeskInv
    <3>2. CASE part = "numbers"
      BY <2>1, <3>2, NumbersKept DEF ExpenseDeskInv, ExpenseDeskParts
    <3>3. CASE part = "expenses"
      BY <2>1, <3>3, ExpensesKept DEF ExpenseDeskInv, ExpenseDeskParts
    <3>4. CASE part = "settings"
      BY <2>1, <3>4, SettingsKept DEF ExpenseDeskInv, ExpenseDeskParts
    <3> QED BY <3>1, <3>2, <3>3, <3>4 DEF ExpenseDeskParts
  <2>2. CASE UNCHANGED requestVars
    BY <2>2 DEF requestVars, ExpenseDeskInv, NumbersInv, ExpensesInv, SettingsInv, ListsInv, Alone
  <2> QED BY <2>1, <2>2
<1>3. ExpenseDeskInv => ExpenseDeskSound
  BY ExpensesTold, ListsTold DEF ExpenseDeskInv, ExpenseDeskSound, NumbersInv, NumbersTable,
     NumbersSound, SettingsInv, SettingsStart, RetiredStays
<1> QED BY <1>1, <1>2, <1>3, PTL DEF ExpenseDeskSpec
=============================================================================
