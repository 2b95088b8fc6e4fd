-------------------------- MODULE ExpenseLifecycle --------------------------
(***************************************************************************)
(* What the expense workflow promises for one report: the status machine   *)
(* of domain.ValidStatusTransitions and the obligations it stands for.     *)
(* Approval makes the company owe at most the total, payment settles the   *)
(* total, and nothing else touches the money.                              *)
(***************************************************************************)
EXTENDS Integers

VARIABLES
    status,   \* of the report
    total,    \* fixed when it is submitted
    owed,     \* booked to the payable account for it
    settled   \* paid from cash for it

vars == <<status, total, owed, settled>>

Init == status = "draft" /\ total = 0 /\ owed = 0 /\ settled = 0

Move(from, to) == status = from /\ status' = to

Submit ==
    /\ Move("draft", "submitted")
    /\ total' \in Nat \ {0}
    /\ UNCHANGED <<owed, settled>>

Review ==
    /\ Move("submitted", "pending_approval")
    /\ UNCHANGED <<total, owed, settled>>

Approve ==
    /\ Move("pending_approval", "approved")
    /\ owed' \in 0..total
    /\ UNCHANGED <<total, settled>>

Reject == Move("pending_approval", "rejected") /\ UNCHANGED <<total, owed, settled>>
Revert == Move("rejected", "draft") /\ UNCHANGED <<total, owed, settled>>
Delete == Move("draft", "deleted") /\ UNCHANGED <<total, owed, settled>>

Pay ==
    /\ Move("approved", "paid")
    /\ settled' \in {0, total}
    /\ UNCHANGED <<total, owed>>

Next == Submit \/ Review \/ Approve \/ Reject \/ Revert \/ Delete \/ Pay

Spec == Init /\ [][Next]_vars

(* Money moves only along the way to "paid": nothing is owed before approval
   and nothing settled before payment. *)
MoneyFollowsStatus ==
    /\ owed > 0 => status \in {"approved", "paid"}
    /\ settled > 0 => status = "paid" /\ settled = total
=============================================================================
