------------------------------ MODULE MCHRInbox ------------------------------
(* HRInbox instances for TLC. *)
EXTENDS HRInbox, TLC

CONSTANTS run, other, abroad, mary, done, undo, done2, done3, hire, leave

MCType == (done :> "completed") @@ (undo :> "reversed") @@ (done2 :> "completed")
          @@ (done3 :> "completed")
          @@ (hire :> "upserted") @@ (leave :> "terminated")
MCSubject == (done :> run) @@ (undo :> run) @@ (done2 :> other)
             @@ (done3 :> abroad)
             @@ (hire :> mary) @@ (leave :> mary)
TypeOf == [e \in Events |-> MCType[e]]
SubjectOf == [e \in Events |-> MCSubject[e]]

(* A run and its reversal; a run abroad; two runs of one month; an employee who
   comes and goes while a reversal waits for a run that does not come. *)
MCScenarios == {{done, undo}, {done3}, {done, done2}, {hire, leave, undo}}
=============================================================================
