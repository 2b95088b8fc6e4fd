------------------------------- MODULE Ledger -------------------------------
(***************************************************************************)
(* The general ledger: journal entries (journal_service.go) and accounting *)
(* periods (accounting_period_service.go) of one company, over the tables  *)
(* of migration 000003 and the statements of queries/journal_entries.sql   *)
(* and queries/accounting_periods.sql.                                     *)
(*                                                                         *)
(* HTTP requests run concurrently.  Each service call is a request that    *)
(* occupies a slot of Requests and takes one step per database statement,  *)
(* or one per transaction when it opens one: everything a request knows    *)
(* between two steps is in req[r], and may be stale by the next step.      *)
(* A request may die at any point (Abandon): the client goes away, the     *)
(* database refuses a statement, the process is killed.                    *)
(***************************************************************************)
EXTENDS Integers, FiniteSets, Functions

CONSTANTS
    Entries,    \* identities of the rows of journal_entries
    Periods,    \* identities of the rows of accounting_periods
    Requests,   \* the requests that can be under way at once
    Accounts,   \* the chart of accounts
    Dates,      \* entry dates
    Covers,     \* Covers[p]: the dates in start_date..end_date of p
    Inputs,     \* the line sets clients send: Accounts -> signed amount
    Scale,      \* units of an amount in one cent
    LookupFails,\* whether a lookup of a period may fail, which nobody reports
    None        \* NULL

ASSUME LedgerAssumption ==
    /\ Covers \in [Periods -> SUBSET Dates]
    /\ Inputs \subseteq [Accounts -> Int]
    /\ Scale \in Nat \ {0}
    /\ IsFiniteSet(Accounts)
    /\ IsFiniteSet(Requests)
    /\ LookupFails \in BOOLEAN
    /\ None \notin Entries \cup Periods \cup Dates

VARIABLES
    entry,      \* the journal_entries table, lines included
    period,     \* the status column of accounting_periods
    req,        \* the local state of each request
    announced   \* how often journal.posted was enqueued for an entry

vars == <<entry, period, req, announced>>

-----------------------------------------------------------------------------
(* A journal line has a debit or a credit; lines are one signed amount per
   account, debit positive, zero where the entry has no line. *)

LinesOf == [Accounts -> Int]
NoLines == [a \in Accounts |-> 0]

(* Mutant: Reverse swaps the debits and forgets the credits. *)
OppositeDebits(l) == [a \in Accounts |-> IF l[a] > 0 THEN -l[a] ELSE l[a]]
Opposite(l) == [a \in Accounts |-> -l[a]]

Total(l) == FoldFunction(LAMBDA x, y : x + y, 0, l)
IsBalanced(l) == Total(l) = 0
HasTwoLines(l) == \E a, b \in Accounts : a # b /\ l[a] # 0 /\ l[b] # 0

(* debit and credit are NUMERIC(15,2): PostgreSQL rounds what it is given to
   a whole number of cents, half away from zero. *)
ToCents(x) == LET m == (2 * (IF x < 0 THEN -x ELSE x) + Scale) \div (2 * Scale)
              IN  Scale * (IF x < 0 THEN -m ELSE m)
Stored(l) == [a \in Accounts |-> ToCents(l[a])]

(* chk_debit_or_credit refuses a line whose debit and credit are both zero. *)
Storable(l) == \A a \in Accounts : l[a] # 0 => ToCents(l[a]) # 0

-----------------------------------------------------------------------------
EntryStatus  == {"none", "draft", "posted", "reversed"}
PeriodStatus == {"none", "open", "closed"}

EntryRow == [status : EntryStatus, date : Dates \cup {None},
             period : Periods \cup {None}, lines : LinesOf,
             reverses : Entries \cup {None}, reversedBy : Entries \cup {None}]

NoEntry == [status |-> "none", date |-> None, period |-> None,
            lines |-> NoLines, reverses |-> None, reversedBy |-> None]

Idle == [pc |-> "idle"]

Locals ==
    {Idle}
    \cup [pc : {"create"}, date : Dates, period : Periods \cup {None}, lines : LinesOf]
    \cup [pc : {"post_period"}, entry : Entries, period : Periods \cup {None}]
    \cup [pc : {"post_write", "post_publish"}, entry : Entries]
    \cup [pc : {"reverse"}, entry : Entries, period : Periods \cup {None}, lines : LinesOf]
    \cup [pc : {"close_count", "close_write"}, period : Periods]

TypeOK ==
    /\ entry \in [Entries -> EntryRow]
    /\ period \in [Periods -> PeriodStatus]
    /\ req \in [Requests -> Locals]
    /\ announced \in [Entries -> Nat]

Init ==
    /\ entry = [e \in Entries |-> NoEntry]
    /\ period = [p \in Periods |-> "none"]
    /\ req = [r \in Requests |-> Idle]
    /\ announced = [e \in Entries |-> 0]

Goto(r, local) == req' = [req EXCEPT ![r] = local]
Done(r) == Goto(r, Idle)

-----------------------------------------------------------------------------
(* JournalService.Create *)

(* Mutant: the query has lost its test of the status. *)
AnyCovering(d) == {p \in Periods : period[p] # "none" /\ d \in Covers[p]}

(* FindPeriodByDate: any one open period that covers the date (LIMIT 1, no
   ORDER BY).  An error counts as none, also another than "no rows". *)
OpenCovering(d) == {p \in Periods : period[p] = "open" /\ d \in Covers[p]}
FoundPeriods(d) ==
    OpenCovering(d) \cup (IF OpenCovering(d) = {} \/ LookupFails THEN {None} ELSE {})

(* The lines are validated and the period is looked up, outside the
   transaction.  Create tests the period's status afterwards, but the query
   has returned an open one or none. *)
CreateFind(r) ==
    /\ req[r] = Idle
    /\ \E l \in Inputs, d \in Dates :
         /\ HasTwoLines(l)
         /\ IsBalanced(l)
         /\ \E p \in FoundPeriods(d) :
              Goto(r, [pc |-> "create", date |-> d, period |-> p, lines |-> l])
    /\ UNCHANGED <<entry, period, announced>>

Draft(local) == [NoEntry EXCEPT !.status = "draft", !.date = local.date,
                                !.period = local.period, !.lines = Stored(local.lines)]

(* One transaction: the header as a draft, then every line. *)
CreateCommit(r) ==
    /\ req[r].pc = "create"
    /\ Storable(req[r].lines)
    /\ \E e \in Entries :
         /\ entry[e].status = "none"
         /\ entry' = [entry EXCEPT ![e] = Draft(req[r])]
    /\ Done(r)
    /\ UNCHANGED <<period, announced>>

-----------------------------------------------------------------------------
(* JournalService.Post *)

PostRead(r) ==
    /\ req[r] = Idle
    /\ \E e \in Entries :
         /\ entry[e].status = "draft"
         /\ Goto(r, [pc |-> "post_period", entry |-> e, period |-> entry[e].period])
    /\ UNCHANGED <<entry, period, announced>>

(* The check is skipped when the period cannot be read. *)
PostPeriod(r) ==
    /\ req[r].pc = "post_period"
    /\ req[r].period # None => LookupFails \/ period[req[r].period] = "open"
    /\ Goto(r, [pc |-> "post_write", entry |-> req[r].entry])
    /\ UNCHANGED <<entry, period, announced>>

(* PostJournalEntry updates WHERE status = 'draft'; it is an :exec, so a
   request that updates no row is not told. *)
MarkPosted(e) == IF entry[e].status = "draft"
                 THEN [entry EXCEPT ![e].status = "posted"]
                 ELSE entry

PostWrite(r) ==
    /\ req[r].pc = "post_write"
    /\ entry' = MarkPosted(req[r].entry)
    /\ Goto(r, [pc |-> "post_publish", entry |-> req[r].entry])
    /\ UNCHANGED <<period, announced>>

(* Publish enqueues journal.posted; a failed enqueue is only logged, which
   here is a request abandoned before this step. *)
PostPublish(r) ==
    /\ req[r].pc = "post_publish"
    /\ announced' = [announced EXCEPT ![req[r].entry] = @ + 1]
    /\ Done(r)
    /\ UNCHANGED <<entry, period>>

-----------------------------------------------------------------------------
(* JournalService.Reverse *)

ReverseRead(r) ==
    /\ req[r] = Idle
    /\ \E e \in Entries :
         /\ entry[e].status = "posted"
         /\ entry[e].reversedBy = None
         /\ Goto(r, [pc |-> "reverse", entry |-> e, period |-> entry[e].period,
                     lines |-> entry[e].lines])
    /\ UNCHANGED <<entry, period, announced>>

Reversal(local, today) ==
    [status |-> "posted", date |-> today, period |-> local.period,
     lines |-> Opposite(local.lines), reverses |-> local.entry, reversedBy |-> None]

(* Mutants: the UPDATE has lost its guard; it forgets the link; it looks for
   drafts. *)
MarkAgain(row, by) == [row EXCEPT !.status = "reversed", !.reversedBy = by]
MarkUnlinked(row, by) == IF row.status = "posted"
                         THEN [row EXCEPT !.status = "reversed"]
                         ELSE row

MarkDraft(row, by) == IF row.status = "draft"
                      THEN [row EXCEPT !.status = "reversed", !.reversedBy = by]
                      ELSE row

(* ReverseJournalEntry updates WHERE status = 'posted', and is an :exec too. *)
MarkReversed(row, by) == IF row.status = "posted"
                         THEN [row EXCEPT !.status = "reversed", !.reversedBy = by]
                         ELSE row

(* One transaction: the opposite entry, dated today and put in the period of
   the original without a look at that period, is inserted and posted, and
   the original is marked. *)
ReverseCommit(r) ==
    /\ req[r].pc = "reverse"
    /\ \E e \in Entries, today \in Dates :
         /\ entry[e].status = "none"
         /\ entry' = [entry EXCEPT
                        ![e] = Reversal(req[r], today),
                        ![req[r].entry] = MarkReversed(entry[req[r].entry], e)]
    /\ Done(r)
    /\ UNCHANGED <<period, announced>>

-----------------------------------------------------------------------------
(* AccountingPeriodService *)

CreatePeriod(p) ==
    /\ period[p] = "none"
    /\ period' = [period EXCEPT ![p] = "open"]
    /\ UNCHANGED <<entry, req, announced>>

CloseRead(r) ==
    /\ req[r] = Idle
    /\ \E p \in Periods :
         /\ period[p] = "open"
         /\ Goto(r, [pc |-> "close_count", period |-> p])
    /\ UNCHANGED <<entry, period, announced>>

DraftsIn(p) == {e \in Entries : entry[e].status = "draft" /\ entry[e].period = p}

CloseCount(r) ==
    /\ req[r].pc = "close_count"
    /\ DraftsIn(req[r].period) = {}
    /\ Goto(r, [pc |-> "close_write", period |-> req[r].period])
    /\ UNCHANGED <<entry, period, announced>>

(* CloseAccountingPeriod updates WHERE status = 'open'. *)
CloseWrite(r) ==
    /\ req[r].pc = "close_write"
    /\ period' = [period EXCEPT ![req[r].period] = IF @ = "open" THEN "closed" ELSE @]
    /\ Done(r)
    /\ UNCHANGED <<entry, announced>>

(* Reopen reads the status and updates WHERE status = 'closed': the guarded
   update alone decides, so one step stands for both. *)
Reopen(p) ==
    /\ period[p] = "closed"
    /\ period' = [period EXCEPT ![p] = "open"]
    /\ UNCHANGED <<entry, req, announced>>

-----------------------------------------------------------------------------
(* A request ends early: a check refuses it, a statement fails and the
   transaction rolls back, or the process dies. *)
Abandon(r) ==
    /\ req[r] # Idle
    /\ Done(r)
    /\ UNCHANGED <<entry, period, announced>>

RequestStep(r) ==
    \/ CreateFind(r) \/ CreateCommit(r)
    \/ PostRead(r) \/ PostPeriod(r) \/ PostWrite(r) \/ PostPublish(r)
    \/ ReverseRead(r) \/ ReverseCommit(r)
    \/ CloseRead(r) \/ CloseCount(r) \/ CloseWrite(r)
    \/ Abandon(r)

PeriodStep(p) == CreatePeriod(p) \/ Reopen(p)

Next ==
    \/ \E r \in Requests : RequestStep(r)
    \/ \E p \in Periods : PeriodStep(p)

Spec == Init /\ [][Next]_vars

-----------------------------------------------------------------------------
(* Safety under any interleaving *)

(* What the books hold is double-entry: the stored lines of every entry, also
   of the ones Reverse writes itself, sum to zero (Create, line 64). *)
StoredBalanced == \A e \in Entries : IsBalanced(entry[e].lines)

(* An original is "reversed" exactly when some posted entry undoes it, and the
   link it carries leads to an entry with the opposite lines that names it. *)
ReversalLinked ==
    \A o \in Entries :
        /\ entry[o].status = "reversed" <=> entry[o].reversedBy # None
        /\ entry[o].status = "reversed" <=> \E e \in Entries : entry[e].reverses = o
        /\ entry[o].reversedBy # None =>
               LET e == entry[o].reversedBy
               IN  /\ entry[e].reverses = o
                   /\ entry[e].status \in {"posted", "reversed"}
                   /\ entry[e].lines = Opposite(entry[o].lines)
                   /\ entry[e].period = entry[o].period

ReversalsOf(o) == {e \in Entries : entry[e].reverses = o}

(* However requests interleave, an entry is reversed at most once per request
   that can be under way at once: after the first commit no new request
   starts.  With a single request it is "already reversed" for ever. *)
ReversalsBounded ==
    \A o \in Entries : Cardinality(ReversalsOf(o)) <= Cardinality(Requests)

(* journal.posted is enqueued only for entries that are in the books, and no
   more often than requests could read the same draft at once. *)
AnnouncementsBounded ==
    \A e \in Entries :
        /\ announced[e] > 0 => entry[e].status \in {"posted", "reversed"}
        /\ announced[e] <= Cardinality(Requests)

(* Nothing that is in the books is rewritten: the only change a posted entry
   ever sees is to be marked reversed, once. *)
BooksFrozen ==
    [][\A e \in Entries : entry[e].status \in {"posted", "reversed"} =>
           \/ entry'[e] = entry[e]
           \/ /\ entry[e].status = "posted"
              /\ \E by \in Entries :
                   entry'[e] = [entry[e] EXCEPT !.status = "reversed",
                                                !.reversedBy = by]]_vars

-----------------------------------------------------------------------------
(* What the checks of Create, Post and Close are for.  They hold when requests
   run one at a time; the checks are made outside the writes they protect. *)

(* A period is closed only over finished work: it has no draft entry, and gets
   none while it is closed (ErrPeriodHasDraftJE, ErrPeriodClosed). *)
NoDraftInClosedPeriod == \A p \in Periods : period[p] = "closed" => DraftsIn(p) = {}

(* An original has one reversal (ErrJournalAlreadyReversed). *)
ReversedOnce == \A o \in Entries : Cardinality(ReversalsOf(o)) <= 1

(* Reversals and announcements stay within what requests can do at once: what
   several read before the first wrote is all that can be done twice. *)
RequestsBounded == ReversalsBounded /\ AnnouncementsBounded

(* The books as a whole, under any interleaving: every row is well typed and
   every entry balances. *)
BooksSound == TypeOK /\ StoredBalanced
=============================================================================
