-------------------------- MODULE ExpenseRefinement --------------------------
(* One report with its requests and agent runs, read as the report of
   ExpenseLifecycle. *)
EXTENDS ExpenseReport

AmountOfLink(link) == IF link = NoLink THEN 0 ELSE journal[link].amount

(* The money of the abstract report is what its references lead to. *)
Lifecycle == INSTANCE ExpenseLifecycle WITH
    status  <- report.status,
    total   <- report.total,
    owed    <- AmountOfLink(report.accrual),
    settled <- AmountOfLink(report.payment)

(* Without automatic approval and with one request at a time, every step of
   the service, the handlers and the agent is a step of the promised status
   machine, and the linked entries are the obligations it allows. *)
ImplementsLifecycle == Lifecycle!Spec
=============================================================================
