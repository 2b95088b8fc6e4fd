---------------------------- MODULE YearEndClose ----------------------------
(***************************************************************************)
(* The year-end close (year_end_close_service.go) as a client of the       *)
(* ledger: it reads the balances once, and then creates and posts up to    *)
(* three closing entries, six calls of JournalService with no transaction  *)
(* around them.  Each call takes a slot of Requests, as those of everyone  *)
(* else do, whose steps come between two of its own.  A call that fails    *)
(* ends the close where it stands.                                         *)
(***************************************************************************)
EXTENDS LedgerReports, Sequences

CONSTANTS
    Revenue,     \* the accounts whose number begins with 4
    Expenses,    \* with 5 or 6
    Summary,     \* account 3900, Income Summary
    Retained,    \* account 3100, Retained Earnings
    DebitNormal, \* the accounts whose normal balance is a debit
    YearEnd,     \* 31 December of the year that is closed
    MaxCloses    \* how often the close may be requested

ASSUME YearEndAssumption ==
    /\ Revenue \cup Expenses \cup {Summary, Retained} \subseteq Accounts
    /\ Revenue \cap Expenses = {} /\ Summary # Retained
    /\ {Summary, Retained} \cap (Revenue \cup Expenses) = {}
    /\ DebitNormal \subseteq Accounts
    /\ YearEnd \in Dates
    /\ MaxCloses \in Nat

VARIABLES
    closer,  \* the close under way: where it is, its entries still to make
    trace    \* auxiliary: what the last close read and made

closeVars == <<closer, trace>>
allVars == <<vars, closeVars>>

Temporary == Revenue \cup Expenses

-----------------------------------------------------------------------------
(* The closing entries *)

(* computeNormalBalance of a row of PeriodAllAccountBalances. *)
Balance(a) == IF a \in DebitNormal THEN AccountBalance(a, Dates)
                                   ELSE -AccountBalance(a, Dates)

SumOver(S) == FoldFunctionOnSet(LAMBDA x, y : x + y, 0, [a \in Accounts |-> Balance(a)], S)

(* The lines of an entry, and whether journal_lines takes them: it refuses
   the negative debit or credit of an account on its abnormal side. *)
ClosingEntry(l, S) == [lines |-> l, storable |-> \A a \in S : Balance(a) >= 0]

(* Every revenue account is debited with its balance, whatever its normal
   side; the summary is credited with the total. *)
RevenueClosed ==
    ClosingEntry([a \in Accounts |-> IF a \in Revenue THEN Balance(a)
                                     ELSE IF a = Summary THEN -SumOver(Revenue) ELSE 0],
                 Revenue)

ExpensesClosed ==
    ClosingEntry([a \in Accounts |-> IF a \in Expenses THEN -Balance(a)
                                     ELSE IF a = Summary THEN SumOver(Expenses) ELSE 0],
                 Expenses)

(* Mutant: the third entry moves the revenue instead of the net income. *)
GrossIncome == SumOver(Revenue)
NetIncome == SumOver(Revenue) - SumOver(Expenses)

SummaryClosed ==
    ClosingEntry([a \in Accounts |-> IF a = Summary THEN NetIncome
                                     ELSE IF a = Retained THEN -NetIncome ELSE 0], {})

(* An entry without lines is not created. *)
IfAny(c) == IF c.lines = NoLines THEN <<>> ELSE <<c>>
ClosingEntries == IfAny(RevenueClosed) \o IfAny(ExpensesClosed) \o IfAny(SummaryClosed)

-----------------------------------------------------------------------------
(* YearEndCloseService.Close.  The pc "call" and "post" are between calls,
   "creating" and "posting" inside one. *)

CloserIdle == [pc |-> "idle", todo |-> <<>>, entry |-> None, slot |-> {}]

CloserInit ==
    /\ closer = CloserIdle
    /\ trace = [closes |-> 0, seen |-> {}, made |-> {}, broken |-> FALSE]

(* The request is the call that the close waits for. *)
Serves(r) == r \in closer.slot
InCall == closer.pc \in {"creating", "posting"}

(* The balances are read in one statement, and everything is computed from
   them before the first entry is created. *)
CloseBegin ==
    /\ closer.pc \in {"idle", "done"}
    /\ trace.closes < MaxCloses
    /\ closer' = [CloserIdle EXCEPT !.pc = "call", !.todo = ClosingEntries]
    /\ trace' = [trace EXCEPT !.closes = @ + 1, !.seen = Stocked, !.made = {}]
    /\ UNCHANGED vars

(* JournalService.Create with the next entry. *)
CallCreate(r) ==
    /\ closer.pc = "call"
    /\ closer.todo # <<>>
    /\ Head(closer.todo).storable
    /\ req[r] = Idle
    /\ \E p \in FoundPeriods(YearEnd) :
         Goto(r, [pc |-> "create", date |-> YearEnd, period |-> p,
                  lines |-> Head(closer.todo).lines])
    /\ closer' = [closer EXCEPT !.pc = "creating", !.slot = {r}]
    /\ UNCHANGED <<entry, period, announced, trace>>

CreateReturns(r) ==
    /\ closer.pc = "creating" /\ Serves(r)
    /\ CreateCommit(r)
    /\ \E e \in Entries :
         /\ entry[e].status # entry'[e].status
         /\ closer' = [pc |-> "post", todo |-> Tail(closer.todo), entry |-> e, slot |-> {}]
         /\ trace' = [trace EXCEPT !.made = @ \cup {e}]

(* JournalService.Post of that entry; the call fails if someone else has
   posted it in between. *)
CallPost(r) ==
    /\ closer.pc = "post"
    /\ req[r] = Idle
    /\ entry[closer.entry].status = "draft"
    /\ Goto(r, [pc |-> "post_period", entry |-> closer.entry,
                period |-> entry[closer.entry].period])
    /\ closer' = [closer EXCEPT !.pc = "posting", !.slot = {r}]
    /\ UNCHANGED <<entry, period, announced, trace>>

PostGoesOn(r) ==
    /\ closer.pc = "posting" /\ Serves(r)
    /\ PostPeriod(r) \/ PostWrite(r)
    /\ UNCHANGED closeVars

(* A failed publication is only logged. *)
PostReturns(r) ==
    /\ closer.pc = "posting" /\ Serves(r)
    /\ PostPublish(r) \/ (req[r].pc = "post_publish" /\ Abandon(r))
    /\ closer' = [closer EXCEPT !.pc = "call", !.entry = None, !.slot = {}]
    /\ UNCHANGED trace

CloseEnd ==
    /\ closer.pc = "call"
    /\ closer.todo = <<>>
    /\ closer' = [closer EXCEPT !.pc = "done"]
    /\ UNCHANGED <<vars, trace>>

(* A call is refused or fails, or the process dies: what the close has done
   so far stays.  An account on its abnormal side fails it every time. *)
CloseFails(r) ==
    /\ closer.pc \in {"call", "post"} \/ (InCall /\ Serves(r) /\ req[r].pc # "post_publish")
    /\ IF InCall THEN Abandon(r) ELSE UNCHANGED vars
    /\ closer' = CloserIdle
    /\ trace' = [trace EXCEPT !.broken = TRUE]

CloseStep(r) ==
    \/ CallCreate(r) \/ CreateReturns(r)
    \/ CallPost(r) \/ PostGoesOn(r) \/ PostReturns(r)
    \/ CloseFails(r)

-----------------------------------------------------------------------------
(* Everyone else, at any time. *)

OthersStep ==
    /\ \E r \in Requests : ~Serves(r) /\ RequestStep(r)
    /\ UNCHANGED closeVars

PeriodsStep ==
    /\ \E p \in Periods : PeriodStep(p)
    /\ UNCHANGED closeVars

CloseInit == Init /\ CloserInit

CloseNext ==
    \/ CloseBegin
    \/ CloseEnd
    \/ \E r \in Requests : CloseStep(r)
    \/ OthersStep
    \/ PeriodsStep

CloseSpec == CloseInit /\ [][CloseNext]_allVars

CloseTypeOK ==
    /\ TypeOK
    /\ closer \in [pc : {"idle", "call", "creating", "post", "posting", "done"},
                   todo : Seq([lines : LinesOf, storable : BOOLEAN]),
                   entry : Entries \cup {None}, slot : SUBSET Requests]
    /\ trace \in [closes : 0..MaxCloses, seen : SUBSET Entries,
                  made : SUBSET Entries, broken : BOOLEAN]

-----------------------------------------------------------------------------
(* What a close is for *)

NormalSided == (Revenue \ DebitNormal) \cup (Expenses \cap DebitNormal)

(* A close that runs to its end closes the books it read, drafts included,
   however the calls of others and earlier broken closes come between: the
   entries it saw and the ones it made cancel out on every account that is on
   the normal side of its section (year_end_close_service.go:40-41). *)
ClosesWhatItRead ==
    closer.pc = "done" =>
        \A a \in NormalSided : SumAmounts(trace.seen \cup trace.made, a) = 0

(* ... and on every account of the sections, as lines 40-41 say: "Close
   revenue accounts (4xxx)", "Close COGS (5xxx) and expense accounts (6xxx)". *)
ClosesEveryAccount ==
    closer.pc = "done" =>
        \A a \in Temporary : SumAmounts(trace.seen \cup trace.made, a) = 0

(* Income Summary is a way station: unless some close broke off or one of
   its entries was reversed, it is empty again when the close is over. *)
SummaryEmpty ==
    (closer.pc \in {"idle", "done"} /\ ~trace.broken) =>
        LET undone == {e \in Entries : entry[e].reverses # None}
        IN  SumAmounts(Stocked \ undone, Summary) = 0

(* What a close leaves behind, with the types of its own state. *)
CloseSound == CloseTypeOK /\ ClosesWhatItRead /\ SummaryEmpty
=============================================================================
