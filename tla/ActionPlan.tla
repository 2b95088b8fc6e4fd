----------------------------- MODULE ActionPlan -----------------------------
(***************************************************************************)
(* The confirmation protocol of high-risk agent tools: the action plans of *)
(* one chat thread (agent/action_plan.go), over queries/action_plans.sql.  *)
(*                                                                         *)
(* A tool call of the agent becomes a pending plan; the user confirms or   *)
(* cancels it in other requests; a ticker in cmd/api times old plans out.  *)
(* Confirm runs in a transaction that holds a connection of the pool and   *)
(* the row lock, and runs the tool, which takes its own connection, before *)
(* it commits.  The plan's own changes are invisible until then.           *)
(***************************************************************************)
EXTENDS Integers, FiniteSets

CONSTANTS
    Plans,     \* identities of rows of action_plans in the thread
    Requests,  \* the requests that can be under way at once
    Conns,     \* size of the connection pool (DATABASE_MAX_CONNS)
    Instances, \* bounds of a behaviour: its requests, its plans, and whether
               \* requests and the process may die
    OtherCompany, \* whether a plan may be confirmed under another company
    MaxRuns,   \* bound: how often the tool of one plan takes effect
    None,      \* no holder of a row lock
    Nobody     \* a lock whose transaction was left open by an ended request

ASSUME ActionPlanAssumption ==
    /\ Conns \in Nat \ {0}
    /\ Instances \subseteq [requests : SUBSET Requests, plans : SUBSET Plans, faults : BOOLEAN]
    /\ IsFiniteSet(Requests)
    /\ OtherCompany \in BOOLEAN
    /\ MaxRuns \in Nat
    /\ None # Nobody /\ {None, Nobody} \cap Requests = {}

VARIABLES
    instance, \* the bounds of this behaviour
    plan,  \* the status of each plan, "none" before it is created
    ran,   \* how often the tool of a plan was run to its effect
    lost,  \* auxiliary: how many of these runs failed before they were recorded
    lock,  \* who holds the row FOR UPDATE
    free,  \* connections left in the pool
    req    \* the local state of each request

vars == <<instance, plan, ran, lost, lock, free, req>>

Status == {"none", "pending", "executed", "failed", "cancelled", "timeout"}

Idle == [pc |-> "idle"]
Locals ==
    {Idle}
    \cup [pc : {"insert"}]
    \cup [pc : {"lock", "tool", "cancel"}, plan : Plans]
    \cup [pc : {"commit"}, plan : Plans, outcome : {"executed", "failed"}]

TypeOK ==
    /\ instance \in Instances
    /\ plan \in [Plans -> Status]
    /\ ran \in [Plans -> Nat] /\ lost \in [Plans -> Nat]
    /\ lock \in [Plans -> Requests \cup {None, Nobody}]
    /\ free \in 0..Conns
    /\ req \in [Requests -> Locals]

Init ==
    /\ instance \in Instances
    /\ plan = [p \in Plans |-> "none"]
    /\ ran = [p \in Plans |-> 0] /\ lost = [p \in Plans |-> 0]
    /\ lock = [p \in Plans |-> None]
    /\ free = Conns
    /\ req = [r \in Requests |-> Idle]

Goto(r, local) == req' = [req EXCEPT ![r] = local]
Done(r) == Goto(r, Idle)

Starts(r) == r \in instance.requests /\ req[r] = Idle

Pending == {p \in Plans : plan[p] = "pending"}

(* A statement outside a transaction borrows a connection for its duration,
   and an UPDATE of a plan waits for the row lock. *)
CanQuery == free > 0
CanUpdate(p) == CanQuery /\ lock[p] = None

InTransaction(r) == req[r].pc \in {"lock", "tool", "commit"}

-----------------------------------------------------------------------------
(* Create: the pending plans are counted, then the plan is inserted. *)

CreateCount(r) ==
    /\ Starts(r)
    /\ CanQuery
    /\ Pending = {}
    /\ Goto(r, [pc |-> "insert"])
    /\ UNCHANGED <<instance, plan, ran, lost, lock, free>>

CreateInsert(r) ==
    /\ req[r].pc = "insert"
    /\ CanQuery
    /\ \E p \in instance.plans :
         /\ plan[p] = "none"
         /\ plan' = [plan EXCEPT ![p] = "pending"]
    /\ Done(r)
    /\ UNCHANGED <<instance, ran, lost, lock, free>>

-----------------------------------------------------------------------------
(* Confirm *)

ConfirmBegin(r) ==
    /\ Starts(r)
    /\ free > 0
    /\ free' = free - 1
    /\ \E p \in Plans : plan[p] # "none" /\ Goto(r, [pc |-> "lock", plan |-> p])
    /\ UNCHANGED <<instance, plan, ran, lost, lock>>

(* Mutant: SELECT without FOR UPDATE. *)
ConfirmNoLock(r) ==
    /\ req[r].pc = "lock"
    /\ plan[req[r].plan] = "pending"
    /\ Goto(r, [pc |-> "tool", plan |-> req[r].plan])
    /\ UNCHANGED <<instance, plan, ran, lost, lock, free>>

(* SELECT ... FOR UPDATE of a pending plan; "confirmed" is written and seen by
   nobody. *)
ConfirmLock(r) ==
    /\ req[r].pc = "lock"
    /\ lock[req[r].plan] = None
    /\ plan[req[r].plan] = "pending"
    /\ lock' = [lock EXCEPT ![req[r].plan] = r]
    /\ Goto(r, [pc |-> "tool", plan |-> req[r].plan])
    /\ UNCHANGED <<instance, plan, ran, lost, free>>

(* Already executed: commit, and answer with the stored result. *)
ConfirmAgain(r) ==
    /\ req[r].pc = "lock"
    /\ lock[req[r].plan] = None
    /\ plan[req[r].plan] = "executed"
    /\ free' = free + 1
    /\ Done(r)
    /\ UNCHANGED <<instance, plan, ran, lost, lock>>

(* Any other status, and any plan when the user works for another company, is
   refused with a fresh error.  The deferred rollback looks at err, which is
   nil here: the transaction is neither rolled back nor committed, and keeps
   its connection and the row lock. *)
ConfirmRefused(r) ==
    /\ req[r].pc = "lock"
    /\ lock[req[r].plan] = None
    /\ plan[req[r].plan] \notin {"pending", "executed"} \/ OtherCompany
    /\ lock' = [lock EXCEPT ![req[r].plan] = Nobody]
    /\ Done(r)
    /\ UNCHANGED <<instance, plan, ran, lost, free>>

(* The tool works through the pool, outside the transaction. *)
ToolSucceeds(r) ==
    /\ req[r].pc = "tool"
    /\ CanQuery
    /\ ran[req[r].plan] < MaxRuns
    /\ ran' = [ran EXCEPT ![req[r].plan] = @ + 1]
    /\ Goto(r, [pc |-> "commit", plan |-> req[r].plan, outcome |-> "executed"])
    /\ UNCHANGED <<instance, plan, lost, lock, free>>

ToolFails(r) ==
    /\ req[r].pc = "tool"
    /\ Goto(r, [pc |-> "commit", plan |-> req[r].plan, outcome |-> "failed"])
    /\ UNCHANGED <<instance, plan, ran, lost, lock, free>>

(* Mutant: the connection is not given back. *)
ConfirmCommitKeeping(r) ==
    /\ req[r].pc = "commit"
    /\ plan' = [plan EXCEPT ![req[r].plan] = req[r].outcome]
    /\ lock' = [lock EXCEPT ![req[r].plan] = None]
    /\ Done(r)
    /\ UNCHANGED <<instance, ran, lost, free>>

ConfirmCommit(r) ==
    /\ req[r].pc = "commit"
    /\ plan' = [plan EXCEPT ![req[r].plan] = req[r].outcome]
    /\ lock' = [lock EXCEPT ![req[r].plan] = None]
    /\ free' = free + 1
    /\ Done(r)
    /\ UNCHANGED <<instance, ran, lost>>

-----------------------------------------------------------------------------
(* Cancel: the status is read without a lock, and UpdateActionPlanStatus has
   no status in its WHERE. *)

CancelRead(r) ==
    /\ Starts(r)
    /\ CanQuery
    /\ \E p \in Pending : Goto(r, [pc |-> "cancel", plan |-> p])
    /\ UNCHANGED <<instance, plan, ran, lost, lock, free>>

CancelWrite(r) ==
    /\ req[r].pc = "cancel"
    /\ CanUpdate(req[r].plan)
    /\ plan' = [plan EXCEPT ![req[r].plan] = "cancelled"]
    /\ Done(r)
    /\ UNCHANGED <<instance, ran, lost, lock, free>>

(* Mutant: the ticker times out whatever is old. *)
TimeoutAny(p) ==
    /\ CanUpdate(p)
    /\ plan[p] # "none"
    /\ plan' = [plan EXCEPT ![p] = "timeout"]
    /\ UNCHANGED <<instance, ran, lost, lock, free, req>>

(* TimeoutExpired, from the ticker: any pending plan may be 30 minutes old. *)
Timeout(p) ==
    /\ CanUpdate(p)
    /\ plan[p] = "pending"
    /\ plan' = [plan EXCEPT ![p] = "timeout"]
    /\ UNCHANGED <<instance, ran, lost, lock, free, req>>

-----------------------------------------------------------------------------
(* The runs whose tool has worked and whose transaction now ends without it. *)
Unrecorded(r, p) == req[r].pc = "commit" /\ req[r].plan = p /\ req[r].outcome = "executed"
LosesRunsOf(rs) ==
    lost' = [p \in Plans |->
               IF \E r \in rs : Unrecorded(r, p) THEN lost[p] + 1 ELSE lost[p]]

(* The client goes away or a statement fails: its transaction is rolled back
   and the connection replaced.  What the tool did stays. *)
Abandon(r) ==
    /\ instance.faults
    /\ req[r] # Idle
    /\ free' = IF InTransaction(r) THEN free + 1 ELSE free
    /\ lock' = [p \in Plans |-> IF lock[p] = r THEN None ELSE lock[p]]
    /\ Done(r)
    /\ LosesRunsOf({r})
    /\ UNCHANGED <<instance, plan, ran>>

(* The process dies and starts again: the database drops its transactions. *)
Restart ==
    /\ instance.faults
    /\ req' = [r \in Requests |-> Idle]
    /\ lock' = [p \in Plans |-> None]
    /\ free' = Conns
    /\ LosesRunsOf(Requests)
    /\ UNCHANGED <<instance, plan, ran>>

-----------------------------------------------------------------------------
RequestStep(r) ==
    \/ CreateCount(r) \/ CreateInsert(r)
    \/ ConfirmBegin(r) \/ ConfirmLock(r) \/ ConfirmAgain(r) \/ ConfirmRefused(r)
    \/ ToolSucceeds(r) \/ ToolFails(r) \/ ConfirmCommit(r)
    \/ CancelRead(r) \/ CancelWrite(r)
    \/ Abandon(r)

Next ==
    \/ \E r \in Requests : RequestStep(r)
    \/ \E p \in Plans : Timeout(p)
    \/ Restart

Spec == Init /\ [][Next]_vars

-----------------------------------------------------------------------------
(* Under any interleaving *)

(* The row lock does its work: however often and from wherever a plan is
   confirmed, its tool runs again only when a failure took the record of the
   run before, and a plan that is still offered for confirmation outside a
   transaction has no run but those. *)
RunAtMostOnce ==
    \A p \in Plans :
        /\ ran[p] <= 1 + lost[p]
        /\ plan[p] = "pending" /\ lock[p] = None => ran[p] = lost[p]

(* Creates that counted together can each leave a pending plan, one per
   request that can be under way, and never more. *)
PendingBounded == Cardinality(Pending) <= Cardinality(instance.requests)

(* Every connection that is not in the pool belongs to a transaction: of a
   request that will finish it, or one left open on a row that it locks. *)
LeakedOn == {p \in Plans : lock[p] = Nobody}
ConnectionsAccounted ==
    free + Cardinality({r \in Requests : InTransaction(r)})
            + Cardinality(LeakedOn) = Conns

(* The recorded outcome of a run is rewritten by nothing but a Cancel that
   found the plan pending (Cancel, line 234, "cancels a pending action plan"):
   neither the ticker nor another Confirm nor a failure touches it. *)
OutcomesStay ==
    [][\A p \in Plans :
         plan[p] \in {"executed", "failed"} /\ plan'[p] # plan[p] =>
             /\ plan'[p] = "cancelled"
             /\ \E r \in Requests : req[r] = [pc |-> "cancel", plan |-> p]]_vars

(* Plans, requests and the pool as a whole, whatever is interleaved or dies. *)
PlansSound == TypeOK /\ PendingBounded /\ ConnectionsAccounted
=============================================================================
