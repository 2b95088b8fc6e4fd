------------------------------- MODULE HRInbox -------------------------------
(***************************************************************************)
(* Payroll integration: the webhook of the HR system                       *)
(* (handler/webhook_handler.go), the inbox table, and the processors that  *)
(* poll it (service/hr_inbox_processor.go) and turn events into journal    *)
(* entries, tax drafts and payees (service/hr_integration_service.go,      *)
(* service/tax_bridge_payroll.go).                                         *)
(*                                                                         *)
(* cmd/api and cmd/worker each run a processor.  The SELECT ... FOR UPDATE *)
(* SKIP LOCKED that takes a batch runs in no transaction, so its row locks *)
(* are gone before the first event of the batch is handled.                *)
(***************************************************************************)
EXTENDS Integers, Sequences, FiniteSets

CONSTANTS
    Events,     \* identities of events
    Scenarios,  \* the sets of events the HR system may send
    Type,       \* Type[e]: the event_type of e
    Subject,    \* Subject[e]: the payroll run or the employee e is about
    Runs,       \* payroll runs, all of one month
    Philippine, \* the runs of the jurisdiction "PH", for which forms are filed
    Employees,
    Pollers,    \* the processors: one in the api, one in the worker
    BatchSize,
    MaxFaults   \* bound: statements that fail and processes that die

Types == {"completed", "reversed", "upserted", "terminated"}

ASSUME HRInboxAssumption ==
    /\ Scenarios \subseteq SUBSET Events
    /\ Type \in [Events -> Types]
    /\ \A e \in Events :
         Subject[e] \in IF Type[e] \in {"completed", "reversed"} THEN Runs ELSE Employees
    /\ Philippine \subseteq Runs
    /\ IsFiniteSet(Pollers)
    /\ BatchSize \in Nat \ {0}
    /\ MaxFaults \in Nat

VARIABLES
    sends,    \* the events the HR system sends
    running,  \* the processors that are deployed
    acked,    \* the events the HR system got a 202 for
    arrived,  \* the inbox, in the order of created_at
    inbox,    \* the status column of the inbox
    journal,  \* the entries booked for payroll runs, oldest first
    taxed,    \* taxed[f][n]: how often run n is counted in the draft of form f
    payee,    \* the status column of hr_payees
    proc,     \* the local state of each processor
    faults    \* the faults so far

vars == <<sends, running, acked, arrived, inbox, journal, taxed, payee, proc, faults>>

-----------------------------------------------------------------------------
Forms == <<"1601C", "2316">>
FormSet == {"1601C", "2316"}

Entry == [run : Runs, status : {"draft", "posted", "reversed"}, reversals : Nat]

Idle == [pc |-> "idle"]
Todo == Seq(Events)
Locals ==
    {Idle}
    \cup [pc : {"event", "book", "find", "failed", "processed"}, todo : Todo]
    \cup [pc : {"tax_read"}, todo : Todo, forms : Seq(FormSet)]
    \cup [pc : {"tax_write"}, todo : Todo, forms : Seq(FormSet), prev : [Runs -> Nat]]
    \cup [pc : {"post", "reverse_read", "reverse"}, todo : Todo, entry : Nat]

TypeOK ==
    /\ sends \in SUBSET Events
    /\ running \in SUBSET Pollers
    /\ acked \in SUBSET Events
    /\ arrived \in Seq(Events)
    /\ inbox \in [Events -> {"none", "received", "failed", "processed"}]
    /\ journal \in Seq(Entry)
    /\ taxed \in [FormSet -> [Runs -> Nat]]
    /\ payee \in [Employees -> {"none", "active", "terminated"}]
    /\ proc \in [Pollers -> Locals]
    /\ faults \in 0..MaxFaults

(* The worker is a deployment of its own: it may be there or not. *)
Init ==
    /\ sends \in Scenarios
    /\ running \in (SUBSET Pollers) \ {{}}
    /\ acked = {}
    /\ arrived = <<>>
    /\ inbox = [e \in Events |-> "none"]
    /\ journal = <<>>
    /\ taxed = [f \in FormSet |-> [n \in Runs |-> 0]]
    /\ payee = [m \in Employees |-> "none"]
    /\ proc = [p \in Pollers |-> Idle]
    /\ faults = 0

Fault == faults < MaxFaults /\ faults' = faults + 1
NoFault == UNCHANGED faults

-----------------------------------------------------------------------------
(* ReceiveAIGoNHR: the HR system sends an event until it gets a 202, and may
   send it again after that.  The unique constraint makes the insert do
   nothing the second time, which the query reports as an error; the handler
   takes any error for that and answers 202. *)
Receive(e) ==
    /\ acked' = acked \cup {e}
    /\ \/ /\ inbox[e] = "none"
          /\ inbox' = [inbox EXCEPT ![e] = "received"]
          /\ arrived' = Append(arrived, e)
          /\ NoFault
       \/ /\ inbox[e] = "none"
          /\ Fault
          /\ UNCHANGED <<inbox, arrived>>
       \/ /\ inbox[e] # "none"
          /\ e \notin acked
          /\ UNCHANGED <<inbox, arrived, faults>>
    /\ UNCHANGED <<sends, running, journal, taxed, payee, proc>>

(* The answer is lost on its way: the HR system will send the event again. *)
ReceiveUnanswered(e) ==
    /\ inbox[e] = "none"
    /\ Fault
    /\ inbox' = [inbox EXCEPT ![e] = "received"]
    /\ arrived' = Append(arrived, e)
    /\ UNCHANGED <<sends, running, acked, journal, taxed, payee, proc>>

(* ReplayEvent and ReplayAllFailed: UPDATE ... WHERE status = 'failed'. *)
Replay(e) ==
    /\ inbox[e] = "failed"
    /\ inbox' = [inbox EXCEPT ![e] = "received"]
    /\ UNCHANGED <<sends, running, acked, arrived, journal, taxed, payee, proc, faults>>

-----------------------------------------------------------------------------
(* A processor.  Its batch is what it read at the tick. *)

Goto(p, local) == proc' = [proc EXCEPT ![p] = local]
Jump(p, label) == Goto(p, [pc |-> label, todo |-> proc[p].todo])
Current(p) == Head(proc[p].todo)
NextEvent(p) == LET rest == Tail(proc[p].todo)
                IN  Goto(p, IF rest = <<>> THEN Idle ELSE [pc |-> "event", todo |-> rest])

(* Mutants: the query also returns what is processed; it forgets what failed. *)
AnyEvents == DOMAIN arrived
ReceivedEvents == {i \in DOMAIN arrived : inbox[arrived[i]] = "received"}

(* ListPendingInboxEvents: where the events are that wait, *)
PendingEvents == {i \in DOMAIN arrived : inbox[arrived[i]] \in {"received", "failed"}}

(* and the oldest of them up to its LIMIT. *)
Nth(S, k) == CHOOSE i \in S : Cardinality({j \in S : j <= i}) = k

Batch == LET n == Cardinality(PendingEvents)
         IN  [k \in 1..(IF n < BatchSize THEN n ELSE BatchSize) |->
                arrived[Nth(PendingEvents, k)]]

Poll(p) ==
    /\ p \in running /\ proc[p] = Idle
    /\ Batch # <<>>
    /\ Goto(p, [pc |-> "event", todo |-> Batch])
    /\ UNCHANGED <<sends, running, acked, arrived, inbox, journal, taxed, payee, faults>>

(* ProcessEvent: employees take one statement, payroll runs several. *)
Dispatch(p) ==
    /\ proc[p].pc = "event"
    /\ \/ /\ Type[Current(p)] = "completed"
          /\ Jump(p, "book")
          /\ UNCHANGED payee
       \/ /\ Type[Current(p)] = "reversed"
          /\ Jump(p, "find")
          /\ UNCHANGED payee
       \/ /\ Type[Current(p)] = "upserted"     \* UpsertHRPayee
          /\ payee' = [payee EXCEPT ![Subject[Current(p)]] = "active"]
          /\ Jump(p, "processed")
       \/ /\ Type[Current(p)] = "terminated"   \* TerminateHRPayee, of a row or of none
          /\ payee' = [payee EXCEPT ![Subject[Current(p)]] =
                                        IF @ = "none" THEN @ ELSE "terminated"]
          /\ Jump(p, "processed")
    /\ UNCHANGED <<sends, running, acked, arrived, inbox, journal, taxed, faults>>

(* An event cannot be handled: no GL mapping yet, an error of the database. *)
Fails(p) ==
    /\ proc[p].pc \in {"event", "book", "post", "reverse"}
    /\ Fault
    /\ Jump(p, "failed")
    /\ UNCHANGED <<sends, running, acked, arrived, inbox, journal, taxed, payee>>

(* handlePayrollRunCompleted: JournalService.Create leaves a draft. *)

Booking(n) == [run |-> n, status |-> "draft", reversals |-> 0]

Book(p) ==
    /\ proc[p].pc = "book"
    /\ journal' = Append(journal, Booking(Subject[Current(p)]))
    /\ IF Subject[Current(p)] \in Philippine
       THEN Goto(p, [pc |-> "tax_read", todo |-> proc[p].todo, forms |-> Forms])
       ELSE Jump(p, "processed")
    /\ UNCHANGED <<sends, running, acked, arrived, inbox, taxed, payee, faults>>

(* PayrollTaxBridge: the draft of the month is read, the run is added, and the
   whole draft is written back, form after form.  An error of the read counts as
   no draft, and one of the write is only logged. *)
NoDraft == [n \in Runs |-> 0]

TaxRead(p) ==
    LET Adds(prev) == Goto(p, [pc |-> "tax_write", todo |-> proc[p].todo,
                               forms |-> proc[p].forms, prev |-> prev])
    IN  /\ proc[p].pc = "tax_read"
        /\ \/ Adds(taxed[Head(proc[p].forms)]) /\ NoFault
           \/ Adds(NoDraft) /\ Fault
        /\ UNCHANGED <<sends, running, acked, arrived, inbox, journal, taxed, payee>>

Added(prev, n) == [prev EXCEPT ![n] = @ + 1]

TaxWrite(p) ==
    /\ proc[p].pc = "tax_write"
    /\ \/ /\ taxed' = [taxed EXCEPT ![Head(proc[p].forms)] =
                                     Added(proc[p].prev, Subject[Current(p)])]
          /\ NoFault
       \/ Fault /\ UNCHANGED taxed
    /\ IF Len(proc[p].forms) = 1
       THEN Jump(p, "processed")
       ELSE Goto(p, [pc |-> "tax_read", todo |-> proc[p].todo,
                     forms |-> Tail(proc[p].forms)])
    /\ UNCHANGED <<sends, running, acked, arrived, inbox, journal, payee>>

-----------------------------------------------------------------------------
(* handlePayrollRunReversed *)

(* FindJournalEntryBySourceRef: the newest entry of the run that is a draft or
   posted.  Reversals carry another reference. *)
LiveEntries(n) == {i \in DOMAIN journal :
                     journal[i].run = n /\ journal[i].status \in {"draft", "posted"}}

(* Mutant: a run without an entry needs no reversal. *)
FindOrSkip(p) ==
    /\ proc[p].pc = "find"
    /\ LET live == LiveEntries(Subject[Current(p)])
       IN  IF live = {}
           THEN Jump(p, "processed")
           ELSE \E i \in live : Goto(p, [pc |-> "reverse_read", todo |-> proc[p].todo, entry |-> i])
    /\ UNCHANGED <<sends, running, acked, arrived, inbox, journal, taxed, payee, faults>>

Find(p) ==
    /\ proc[p].pc = "find"
    /\ LET live == LiveEntries(Subject[Current(p)])
       IN  IF live = {}
           THEN Jump(p, "failed")
           ELSE LET i == CHOOSE j \in live : \A k \in live : k <= j
                IN  Goto(p, [pc |-> IF journal[i].status = "draft" THEN "post" ELSE "reverse_read",
                             todo |-> proc[p].todo, entry |-> i])
    /\ UNCHANGED <<sends, running, acked, arrived, inbox, journal, taxed, payee, faults>>

(* JournalService.Post and Reverse are Ledger's; here Post is one step and
   Reverse two, its checks and its transaction. *)
PostedRow(row) == [row EXCEPT !.status = "posted"]

PostDraft(p) ==
    /\ proc[p].pc = "post"
    /\ IF journal[proc[p].entry].status = "draft"
       THEN /\ journal' = [journal EXCEPT ![proc[p].entry] = PostedRow(@)]
            /\ Goto(p, [proc[p] EXCEPT !.pc = "reverse_read"])
       ELSE /\ Jump(p, "failed")
            /\ UNCHANGED journal
    /\ UNCHANGED <<sends, running, acked, arrived, inbox, taxed, payee, faults>>

ReverseRead(p) ==
    /\ proc[p].pc = "reverse_read"
    /\ IF journal[proc[p].entry].status = "posted"
       THEN Goto(p, [proc[p] EXCEPT !.pc = "reverse"])
       ELSE Jump(p, "failed")
    /\ UNCHANGED <<sends, running, acked, arrived, inbox, journal, taxed, payee, faults>>

(* Mutant: the original keeps its status. *)
UndoneStillPosted(row) == [row EXCEPT !.reversals = @ + 1]
Undone(row) == [row EXCEPT !.status = "reversed", !.reversals = @ + 1]

Reverse(p) ==
    /\ proc[p].pc = "reverse"
    /\ journal' = [journal EXCEPT ![proc[p].entry] = Undone(@)]
    /\ Jump(p, "processed")
    /\ UNCHANGED <<sends, running, acked, arrived, inbox, taxed, payee, faults>>

-----------------------------------------------------------------------------
(* The outcome is recorded without a look at the status; an error of the
   record is dropped. *)

Record(p, status) ==
    /\ \/ /\ inbox' = [inbox EXCEPT ![Current(p)] = status]
          /\ NoFault
       \/ /\ Fault
          /\ UNCHANGED inbox
    /\ NextEvent(p)
    /\ UNCHANGED <<sends, running, acked, arrived, journal, taxed, payee>>

MarkProcessed(p) == proc[p].pc = "processed" /\ Record(p, "processed")
MarkFailed(p) == proc[p].pc = "failed" /\ Record(p, "failed")

(* The process dies and starts again; its batch is forgotten. *)
Crash(p) ==
    /\ proc[p] # Idle
    /\ Fault
    /\ Goto(p, Idle)
    /\ UNCHANGED <<sends, running, acked, arrived, inbox, journal, taxed, payee>>

PollerStep(p) ==
    \/ Poll(p) \/ Dispatch(p)
    \/ Book(p) \/ TaxRead(p) \/ TaxWrite(p)
    \/ Find(p) \/ PostDraft(p) \/ ReverseRead(p) \/ Reverse(p)
    \/ MarkProcessed(p) \/ MarkFailed(p)

Next ==
    \/ \E e \in sends : Receive(e) \/ ReceiveUnanswered(e) \/ Replay(e)
    \/ \E p \in Pollers : PollerStep(p) \/ Fails(p) \/ Crash(p)

Spec == Init /\ [][Next]_vars

(* A deployed processor keeps ticking and PostgreSQL answers it. *)
FairSpec == Spec /\ \A p \in Pollers : WF_vars(PollerStep(p))

-----------------------------------------------------------------------------
Entries(n) == {i \in DOMAIN journal : journal[i].run = n}

Completions(n) == {e \in sends : Type[e] = "completed" /\ Subject[e] = n}

(* How many processors may book a run again after a fault: all of them when the
   mark of the only one is lost, and all but the one that failed and makes the
   event pending after the others have processed it. *)
Rebooking == IF Cardinality(running) = 1 THEN 1 ELSE Cardinality(running) - 1

(* The inbox is there for "idempotent processing" (migration 000040): a run that
   is reported completed by one event is booked at most once by each processor,
   and for each fault by as many again as the fault can send back to it. *)
BookingsBounded ==
    \A n \in Runs :
        (\A d, e \in Completions(n) : d = e) =>
            Cardinality(Entries(n)) <= Cardinality(running) + Rebooking * faults

(* Whatever is lost or repeated, an event marked processed has had its effect:
   its run is in the journal, its reversal has reversed an entry. *)
ProcessedHasEffect ==
    \A e \in Events : inbox[e] = "processed" =>
        /\ Type[e] = "completed" => Entries(Subject[e]) # {}
        /\ Type[e] = "reversed" => \E i \in Entries(Subject[e]) : journal[i].reversals > 0

(* The drafts never count a run more often than it was booked. *)
TaxedBounded ==
    \A f \in FormSet, n \in Runs : taxed[f][n] <= Cardinality(Entries(n))

(* Nothing is left to do about a run or an employee. *)
Settled(n) ==
    /\ \A e \in sends : Subject[e] = n => inbox[e] = "processed"
    /\ \A p \in Pollers : proc[p] = Idle

(* With one processor and no fault, a run that one event reports completed is in
   the journal once, once in each draft if it is Philippine, and undone if it was reversed. *)
ExactlyOnce ==
    \A n \in Runs :
        (Cardinality(running) = 1 /\ faults = 0 /\ Settled(n) /\ \E e \in sends : Completions(n) = {e}) =>
            /\ Cardinality(Entries(n)) = 1
            /\ \A f \in FormSet : taxed[f][n] = IF n \in Philippine THEN 1 ELSE 0
            /\ LiveEntries(n) = {} <=> \E e \in sends : Subject[e] = n /\ Type[e] = "reversed"
            /\ \A i \in Entries(n) : journal[i].reversals <= 1

(* Employees are not versioned: the status of a payee is what the event that
   arrived last says, because one processor handles them in that order. *)
About(m) == {i \in DOMAIN arrived :
               Type[arrived[i]] \in {"upserted", "terminated"} /\ Subject[arrived[i]] = m}
Hirings(m) == {i \in About(m) : Type[arrived[i]] = "upserted"}
PayeeIsLatest ==
    \A m \in Employees :
        (Cardinality(running) = 1 /\ faults = 0 /\ Settled(m)) =>
            payee[m] = IF Hirings(m) = {} THEN "none"
                       ELSE IF \E i \in Hirings(m) : \A j \in About(m) : j <= i THEN "active"
                       ELSE "terminated"

(* Every event in the inbox is processed in the end, also after restarts and
   also when the processor has to wait for the run a reversal is about. *)
EveryEventProcessed ==
    \A e \in Events : (inbox[e] = "received" /\ Type[e] # "reversed") ~> inbox[e] = "processed"

(* What holds with several pollers and faults, and the payees without. *)
InboxSound == TypeOK /\ BookingsBounded /\ TaxedBounded /\ PayeeIsLatest
=============================================================================
