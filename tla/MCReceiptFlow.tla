---------------------------- MODULE MCReceiptFlow ----------------------------
(* ReceiptFlow instances for TLC: one update at a time beside the api, with
   faults or with room for more entries, over a picture of one receipt or of two;
   two updates at once over one picture; one update at a time over two pictures. *)
EXTENDS ReceiptFlow, TLC

CONSTANTS u1, u2, a1, b1, b2

ReceiptsDef == b1 :> 1 @@ b2 :> 2

OneUpdate == [requests |-> {u1, a1}, batches |-> {b1}, txns |-> 2, entries |-> 1,
              approvals |-> 0, faults |-> 1]
Generators == [requests |-> {u1, a1}, batches |-> {b1}, txns |-> 1, entries |-> 3,
               approvals |-> 0, faults |-> 0]
TwoUpdates == [requests |-> {u1, u2}, batches |-> {b1}, txns |-> 2, entries |-> 1,
               approvals |-> 1, faults |-> 0]
TwoUpdatesFailing == [requests |-> {u1, u2}, batches |-> {b1}, txns |-> 1, entries |-> 1,
                      approvals |-> 0, faults |-> 1]
Screenshot == [requests |-> {u1, a1}, batches |-> {b2}, txns |-> 4, entries |-> 1,
               approvals |-> 0, faults |-> 0]
ScreenshotFailing == [requests |-> {u1}, batches |-> {b2}, txns |-> 4, entries |-> 2,
                      approvals |-> 0, faults |-> 1]
TwoPictures == [requests |-> {u1}, batches |-> {b1, b2}, txns |-> 3, entries |-> 2,
                approvals |-> 1, faults |-> 0]

InstancesDef ==
    {OneUpdate, Generators, Screenshot, ScreenshotFailing, TwoUpdates, TwoUpdatesFailing,
     TwoPictures}
=============================================================================
