-------------------------- MODULE BackOfficeProofs --------------------------
(***************************************************************************)
(* Proofs about the desks of the back office that keep to Requests, and    *)
(* about the action plans of the agent: ActionPlan for any number of       *)
(* plans, requests and connections; Identity, Conversations and            *)
(* SessionDesk for any number of goroutines, any bounds and any tables at  *)
(* the start that their Start allows.                                      *)
(***************************************************************************)
EXTENDS ActionPlan, Identity, Conversations, SessionDesk, CommonTheorems, SequenceTheorems,
        TLAPS, FiniteSetTheorems

----
(* ActionPlan. *)

(* Type correctness, except for the count of connections, which is the subject
   of ConnectionsAccounted: here it is only an integer. *)
RowsOK ==
    /\ instance \in Instances
    /\ plan \in [Plans -> Status]
    /\ ran \in [Plans -> Nat] /\ lost \in [Plans -> Nat]
    /\ lock \in [Plans -> Requests \cup {None, Nobody}]
    /\ req \in [Requests -> Locals]

(* The row lock is held exactly by the transaction that works on the plan, and
   it keeps the plan pending. *)
LockInv ==
    /\ \A p \in Plans : lock[p] \in Requests =>
         req[lock[p]].pc \in {"tool", "commit"} /\ req[lock[p]].plan = p
    /\ \A r \in Requests : req[r].pc \in {"tool", "commit"} =>
         lock[req[r].plan] = r /\ plan[req[r].plan] = "pending"

(* While a plan is pending its runs are the lost ones, and one more exactly when
   its transaction has run the tool and not committed. *)
RunInv ==
    \A p \in Plans :
        /\ ran[p] <= 1 + lost[p]
        /\ plan[p] = "none" => ran[p] = 0 /\ lost[p] = 0
        /\ plan[p] = "pending" =>
             IF \E r \in Requests : Unrecorded(r, p)
             THEN ran[p] = 1 + lost[p]
             ELSE ran[p] = lost[p]

Inv == RowsOK /\ LockInv /\ RunInv

(* No step loses the link between lock, status and runs. *)
LEMMA InvKept ==
    ASSUME Inv, [Next]_vars
    PROVE  Inv'
<1> USE ActionPlanAssumption
        DEF Inv, RowsOK, LockInv, RunInv, Starts, Goto, Done, CanUpdate, CanQuery, Pending, Status, Unrecorded
<1>1. ASSUME NEW r \in Requests, CreateCount(r) PROVE Inv' BY <1>1 DEF CreateCount, Locals
<1>2. ASSUME NEW r \in Requests, CreateInsert(r) PROVE Inv' BY <1>2 DEF CreateInsert, Locals, Idle
<1>3. ASSUME NEW r \in Requests, ConfirmBegin(r) PROVE Inv' BY <1>3 DEF ConfirmBegin, Locals, Idle
<1>4. ASSUME NEW r \in Requests, ConfirmLock(r) PROVE Inv' BY <1>4 DEF ConfirmLock, Locals, Idle
<1>5. ASSUME NEW r \in Requests, ConfirmAgain(r) PROVE Inv' BY <1>5 DEF ConfirmAgain, Locals, Idle
<1>6. ASSUME NEW r \in Requests, ConfirmRefused(r) PROVE Inv'
  BY <1>6 DEF ConfirmRefused, Locals, Idle
<1>7. ASSUME NEW r \in Requests, ToolSucceeds(r) PROVE Inv' BY <1>7 DEF ToolSucceeds, Locals, Idle
<1>8. ASSUME NEW r \in Requests, ToolFails(r) PROVE Inv' BY <1>8 DEF ToolFails, Locals, Idle
<1>9. ASSUME NEW r \in Requests, ConfirmCommit(r) PROVE Inv' BY <1>9 DEF ConfirmCommit, Locals, Idle
<1>10. ASSUME NEW r \in Requests, CancelRead(r) PROVE Inv' BY <1>10 DEF CancelRead, Locals, Idle
<1>11. ASSUME NEW r \in Requests, CancelWrite(r) PROVE Inv' BY <1>11 DEF CancelWrite, Locals, Idle
<1>12. ASSUME NEW p \in Plans, Timeout(p) PROVE Inv' BY <1>12 DEF Timeout, Locals, Idle
<1>13. ASSUME NEW r \in Requests, Abandon(r) PROVE Inv'
  BY <1>13 DEF Abandon, LosesRunsOf, Locals, Idle
<1>14. ASSUME Restart PROVE Inv' BY <1>14 DEF Restart, LosesRunsOf, Locals, Idle
<1>15. CASE UNCHANGED vars BY <1>15 DEF vars
<1> QED
  BY <1>1, <1>2, <1>3, <1>4, <1>5, <1>6, <1>7, <1>8, <1>9, <1>10, <1>11, <1>12, <1>13, <1>14, <1>15
     DEF Next, RequestStep

(* The link holds throughout. *)
THEOREM InvAlways == Spec => []Inv
<1>1. Init => Inv
  BY ActionPlanAssumption DEF Init, Inv, RowsOK, LockInv, RunInv, Unrecorded, Status, Locals, Idle
<1>2. Inv /\ [Next]_vars => Inv' BY InvKept
<1> QED BY <1>1, <1>2, PTL DEF Spec

(* Whatever interleaves or fails, Confirm runs a plan's tool again only after a
   failure took the record of the run before. *)
THEOREM ConfirmedOnce == Spec => []RunAtMostOnce
<1>1. Inv => RunAtMostOnce
  BY ActionPlanAssumption DEF Inv, RowsOK, LockInv, RunInv, Unrecorded, RunAtMostOnce
<1> QED BY <1>1, InvAlways, PTL

----
(* Outcomes. *)

(* What a request holds, as a record. *)
LEMMA LocalOfCancel ==
    ASSUME RowsOK, NEW r \in Requests, req[r].pc = "cancel"
    PROVE  req[r].plan \in Plans /\ req[r] = [pc |-> "cancel", plan |-> req[r].plan]
BY DEF RowsOK, Locals, Idle

(* Nothing but a Cancel that found the plan pending rewrites an outcome. *)
LEMMA OutcomeKept ==
    ASSUME Inv, Next, NEW p \in Plans, plan[p] \in {"executed", "failed"}, plan'[p] # plan[p]
    PROVE  plan'[p] = "cancelled" /\ \E r \in Requests : req[r] = [pc |-> "cancel", plan |-> p]
<1> USE DEF Inv, RowsOK
<1>1. ASSUME NEW r \in Requests, CreateInsert(r) PROVE FALSE BY <1>1 DEF CreateInsert
<1>2. ASSUME NEW r \in Requests, ConfirmCommit(r) PROVE FALSE BY <1>2 DEF ConfirmCommit, LockInv
<1>3. ASSUME NEW q \in Plans, Timeout(q) PROVE FALSE BY <1>3 DEF Timeout
<1>4. PICK r \in Requests : CancelWrite(r)
  BY <1>1, <1>2, <1>3 DEF Next, RequestStep, CreateCount, ConfirmBegin, ConfirmLock, ConfirmAgain,
     ConfirmRefused, ToolSucceeds, ToolFails, CancelRead, Abandon, Restart
<1>5. p = req[r].plan /\ plan'[p] = "cancelled" /\ req[r].pc = "cancel" BY <1>4 DEF CancelWrite
<1> QED BY <1>5, LocalOfCancel

(* The outcome of a confirmed plan is not timed out, not confirmed again and
   not touched by a failure: only a stale Cancel overwrites it. *)
THEOREM RecordsKeepTheirOutcome == Spec => OutcomesStay
<1>1. Inv /\ [Next]_vars =>
        [\A p \in Plans :
           plan[p] \in {"executed", "failed"} /\ plan'[p] # plan[p] =>
               /\ plan'[p] = "cancelled"
               /\ \E r \in Requests : req[r] = [pc |-> "cancel", plan |-> p]]_vars
  BY OutcomeKept
<1> QED BY <1>1, InvAlways, PTL DEF Spec, OutcomesStay

----
(* Counting. *)

Inserting == {r \in Requests : req[r].pc = "insert"}
Transactions == {r \in Requests : InTransaction(r)}

(* A create that has counted may still add its plan. *)
CreateInv ==
    /\ Inserting \subseteq instance.requests
    /\ IsFiniteSet(Pending)
    /\ Cardinality(Pending) + Cardinality(Inserting) <= Cardinality(instance.requests)

(* A connection is in the pool, with a transaction or lost to one. *)
PoolInv ==
    /\ free \in Nat
    /\ IsFiniteSet(LeakedOn)
    /\ free + Cardinality(Transactions) + Cardinality(LeakedOn) = Conns

(* Sets of requests are finite. *)
LEMMA RequestsFinite ==
    \A S \in SUBSET Requests : IsFiniteSet(S) /\ Cardinality(S) \in Nat
BY ActionPlanAssumption, FS_Subset, FS_CardinalityType

(* The requests of a behaviour are some of them. *)
LEMMA InstanceFinite ==
    ASSUME RowsOK
    PROVE  instance.requests \subseteq Requests
BY ActionPlanAssumption DEF RowsOK

(* What one step does to a set of requests. *)
LEMMA OneLess ==
    ASSUME NEW S, NEW T, IsFiniteSet(S), NEW x \in S, T = S \ {x}
    PROVE  IsFiniteSet(T) /\ Cardinality(T) = Cardinality(S) - 1
           /\ Cardinality(S) \in Nat /\ Cardinality(T) \in Nat
BY FS_RemoveElement, FS_CardinalityType

(* A set with one more member counts one more. *)
LEMMA OneMore ==
    ASSUME NEW S, NEW T, IsFiniteSet(S), NEW x, x \notin S, T = S \cup {x}
    PROVE  IsFiniteSet(T) /\ Cardinality(T) = Cardinality(S) + 1
           /\ Cardinality(S) \in Nat /\ Cardinality(T) \in Nat
BY FS_AddElement, FS_CardinalityType

(* Only CreateInsert adds a pending plan and only CreateCount a request that is
   about to. *)
LEMMA CreateKept ==
    ASSUME Inv, CreateInv, Next
    PROVE  CreateInv'
<1> USE DEF Inv, RowsOK
<1>1. /\ instance' = instance /\ instance.requests \subseteq Requests
      /\ IsFiniteSet(instance.requests) /\ Cardinality(instance.requests) \in Nat
  BY InstanceFinite, RequestsFinite DEF Next, RequestStep, CreateCount, CreateInsert, ConfirmBegin,
     ConfirmLock, ConfirmAgain, ConfirmRefused, ToolSucceeds, ToolFails, ConfirmCommit, CancelRead,
     CancelWrite, Abandon, Timeout, Restart
<1>2. Inserting \in SUBSET Requests /\ Inserting' \in SUBSET Requests BY DEF Inserting
<1>3. ASSUME NEW r \in Requests, CreateCount(r) PROVE CreateInv'
  <2>1. Pending' = {} /\ Inserting' \subseteq instance.requests
    BY <1>3 DEF CreateCount, Pending, Inserting, CreateInv, Starts, Goto
  <2>2. Cardinality(Pending') = 0 /\ IsFiniteSet(Pending') BY <2>1, FS_EmptySet
  <2>3. Cardinality(Inserting') <= Cardinality(instance.requests) BY <1>1, <2>1, FS_Subset
  <2>4. Cardinality(Inserting') \in Nat BY <1>2, RequestsFinite
  <2> QED BY <1>1, <2>1, <2>2, <2>3, <2>4 DEF CreateInv
<1>4. ASSUME NEW r \in Requests, CreateInsert(r) PROVE CreateInv'
  <2>1. PICK p \in Plans : plan[p] = "none" /\ plan' = [plan EXCEPT ![p] = "pending"]
    BY <1>4, ActionPlanAssumption DEF CreateInsert
  <2>2. Pending' = Pending \cup {p} /\ p \notin Pending BY <2>1 DEF Pending
  <2>3. Inserting' = Inserting \ {r} /\ r \in Inserting
    BY <1>4 DEF CreateInsert, Inserting, Done, Goto, Idle
  <2>4. /\ IsFiniteSet(Pending') /\ Cardinality(Pending') = Cardinality(Pending) + 1
        /\ Cardinality(Pending) \in Nat
    BY <2>2, OneMore DEF CreateInv
  <2>5. IsFiniteSet(Inserting) BY <1>2, RequestsFinite
  <2>6. Cardinality(Inserting') = Cardinality(Inserting) - 1 /\ Cardinality(Inserting) \in Nat
    BY <2>3, <2>5, OneLess
  <2> QED BY <1>1, <2>3, <2>4, <2>6 DEF CreateInv
<1>5. ASSUME Pending' \subseteq Pending, Inserting' \subseteq Inserting PROVE CreateInv'
  <2>1. IsFiniteSet(Pending') /\ Cardinality(Pending') <= Cardinality(Pending)
    BY <1>5, FS_Subset DEF CreateInv
  <2>2. Cardinality(Inserting') <= Cardinality(Inserting) BY <1>2, <1>5, RequestsFinite, FS_Subset
  <2>3. /\ Cardinality(Pending) \in Nat /\ Cardinality(Pending') \in Nat
        /\ Cardinality(Inserting) \in Nat /\ Cardinality(Inserting') \in Nat
    BY <1>2, <2>1, RequestsFinite, FS_CardinalityType DEF CreateInv
  <2> QED BY <1>1, <1>5, <2>1, <2>2, <2>3 DEF CreateInv
<1> USE DEF Inserting, Goto, Done, Idle
<1>6. ASSUME NEW r \in Requests,
             ConfirmBegin(r) \/ ConfirmLock(r) \/ ConfirmAgain(r) \/ ConfirmRefused(r)
             \/ ToolSucceeds(r) \/ ToolFails(r) \/ CancelRead(r) \/ Abandon(r)
      PROVE  Pending' \subseteq Pending /\ Inserting' \subseteq Inserting
  BY <1>6 DEF ConfirmBegin, ConfirmLock, ConfirmAgain, ConfirmRefused, ToolSucceeds, ToolFails,
     CancelRead, Abandon, Pending
<1>7. ASSUME NEW r \in Requests, ConfirmCommit(r) \/ CancelWrite(r)
      PROVE  Pending' \subseteq Pending /\ Inserting' \subseteq Inserting
  BY <1>7 DEF Locals, ConfirmCommit, CancelWrite, Pending
<1>8. ASSUME NEW p \in Plans, Timeout(p)
      PROVE  Pending' \subseteq Pending /\ Inserting' \subseteq Inserting
  BY <1>8 DEF Timeout, Pending
<1>9. ASSUME Restart PROVE  Pending' \subseteq Pending /\ Inserting' \subseteq Inserting
  BY <1>9 DEF Restart, Pending
<1> QED BY <1>3, <1>4, <1>5, <1>6, <1>7, <1>8, <1>9 DEF Next, RequestStep

(* A connection changes hands and is never lost sight of. *)
LEMMA PoolKept ==
    ASSUME Inv, PoolInv, Next
    PROVE  PoolInv'
<1> USE DEF Inv, RowsOK
<1>1. Transactions \in SUBSET Requests /\ Transactions' \in SUBSET Requests BY DEF Transactions
<1>2. /\ IsFiniteSet(Transactions) /\ Cardinality(Transactions) \in Nat
      /\ IsFiniteSet(Transactions') /\ Cardinality(Transactions') \in Nat
      /\ IsFiniteSet(LeakedOn) /\ Cardinality(LeakedOn) \in Nat
  BY <1>1, RequestsFinite, FS_CardinalityType DEF PoolInv
<1> USE DEF Goto, Done
<1>3. ASSUME NEW r \in Requests, ConfirmBegin(r) PROVE PoolInv'
  BY <1>3, <1>2, OneMore DEF ConfirmBegin, Starts, Transactions, InTransaction, Idle, LeakedOn,
     PoolInv
<1>4. ASSUME NEW r \in Requests, ConfirmAgain(r) \/ ConfirmCommit(r) PROVE PoolInv'
  <2>1. Transactions' = Transactions \ {r} /\ r \in Transactions
    BY <1>4 DEF ConfirmAgain, ConfirmCommit, Transactions, InTransaction, Idle
  <2>2. Cardinality(Transactions') = Cardinality(Transactions) - 1 BY <1>2, <2>1, OneLess
  <2>3. free' = free + 1 /\ LeakedOn' = LeakedOn
    BY ActionPlanAssumption, <1>4 DEF ConfirmAgain, LeakedOn, ConfirmCommit, LockInv
  <2> QED BY <1>2, <2>2, <2>3 DEF PoolInv
<1>5. ASSUME NEW r \in Requests, ConfirmRefused(r) PROVE PoolInv'
  <2>1. Transactions' = Transactions \ {r} /\ r \in Transactions
    BY <1>5 DEF ConfirmRefused, Transactions, InTransaction, Idle
  <2>2. Cardinality(Transactions') = Cardinality(Transactions) - 1 BY <1>2, <2>1, OneLess
  <2>3. req[r].plan \in Plans BY <1>5 DEF ConfirmRefused, Locals, Idle
  <2>4. LeakedOn' = LeakedOn \cup {req[r].plan} /\ req[r].plan \notin LeakedOn
    BY <1>5, <2>3, ActionPlanAssumption DEF ConfirmRefused, LeakedOn
  <2>5. IsFiniteSet(LeakedOn') /\ Cardinality(LeakedOn') = Cardinality(LeakedOn) + 1
    BY <1>2, <2>4, OneMore
  <2>6. free' = free BY <1>5 DEF ConfirmRefused
  <2> QED BY <1>2, <2>2, <2>5, <2>6 DEF PoolInv
<1>6. ASSUME NEW r \in Requests,
             CreateCount(r) \/ CreateInsert(r) \/ ConfirmLock(r) \/ ToolSucceeds(r)
             \/ ToolFails(r) \/ CancelRead(r) \/ CancelWrite(r)
      PROVE  PoolInv'
  <2>1. Transactions' = Transactions /\ free' = free
    BY <1>6 DEF CreateCount, CreateInsert, ConfirmLock, ToolSucceeds, ToolFails, CancelRead,
       CancelWrite, Starts, Transactions, InTransaction, Idle
  <2>2. LeakedOn' = LeakedOn
    BY <1>6, ActionPlanAssumption DEF CreateCount, CreateInsert, ConfirmLock, ToolSucceeds,
       ToolFails, CancelRead, CancelWrite, LeakedOn
  <2> QED BY <2>1, <2>2 DEF PoolInv
<1>7. ASSUME NEW r \in Requests, Abandon(r) PROVE PoolInv'
  <2>1. LeakedOn' = LeakedOn BY <1>7, ActionPlanAssumption DEF Abandon, LeakedOn
  <2>2. CASE InTransaction(r)
    <3>1. Transactions' = Transactions \ {r} /\ r \in Transactions /\ free' = free + 1
      BY <1>7, <2>2 DEF Abandon, Transactions, InTransaction, Idle
    <3>2. Cardinality(Transactions') = Cardinality(Transactions) - 1 BY <1>2, <3>1, OneLess
    <3> QED BY <1>2, <2>1, <3>1, <3>2 DEF PoolInv
  <2>3. CASE ~InTransaction(r)
    <3>1. Transactions' = Transactions /\ free' = free
      BY <1>7, <2>3 DEF Abandon, Transactions, InTransaction, Idle
    <3> QED BY <2>1, <3>1 DEF PoolInv
  <2> QED BY <2>2, <2>3
<1>8. ASSUME NEW p \in Plans, Timeout(p) PROVE PoolInv'
  BY <1>8 DEF Timeout, PoolInv, Transactions, InTransaction, LeakedOn
<1>9. ASSUME Restart PROVE PoolInv'
  <2>1. Transactions' = {} /\ LeakedOn' = {} /\ free' = Conns
    BY <1>9, ActionPlanAssumption DEF Restart, Transactions, InTransaction, LeakedOn, Idle
  <2>2. Conns \in Nat BY ActionPlanAssumption
  <2> QED BY <2>1, <2>2, FS_EmptySet DEF PoolInv
<1> QED BY <1>3, <1>4, <1>5, <1>6, <1>7, <1>8, <1>9 DEF Next, RequestStep

(* However many creates, confirms, cancels, failures and restarts interleave:
   types, at most one pending plan for each request under way, and every
   connection is in the pool, with a transaction or leaked on a row. *)
THEOREM PlansAreSound == Spec => []PlansSound
<1>1. Init => CreateInv /\ PoolInv
  <2> SUFFICES ASSUME Init PROVE CreateInv /\ PoolInv OBVIOUS
  <2>1. Inserting = {} /\ Transactions = {} /\ LeakedOn = {} /\ Pending = {} /\ free = Conns
    BY ActionPlanAssumption DEF Init, Inserting, Transactions, InTransaction, LeakedOn, Pending,
       Idle
  <2>2. instance.requests \subseteq Requests BY ActionPlanAssumption DEF Init
  <2>3. Cardinality(instance.requests) \in Nat /\ Conns \in Nat
    BY <2>2, RequestsFinite, ActionPlanAssumption
  <2> QED BY <2>1, <2>3, FS_EmptySet DEF CreateInv, PoolInv
<1>2. Inv /\ CreateInv /\ PoolInv /\ [Next]_vars => CreateInv' /\ PoolInv'
  <2> SUFFICES ASSUME Inv, CreateInv, PoolInv, [Next]_vars PROVE CreateInv' /\ PoolInv' OBVIOUS
  <2>1. CASE Next BY <2>1, CreateKept, PoolKept
  <2>2. CASE UNCHANGED vars
    BY <2>2 DEF vars, CreateInv, PoolInv, Inserting, Transactions, InTransaction, LeakedOn, Pending
  <2> QED BY <2>1, <2>2
<1>3. Inv /\ CreateInv /\ PoolInv => PlansSound
  <2> SUFFICES ASSUME Inv, CreateInv, PoolInv PROVE PlansSound OBVIOUS
  <2>1. Inserting \in SUBSET Requests /\ Transactions \in SUBSET Requests
        /\ instance.requests \in SUBSET Requests
    BY InstanceFinite DEF Inserting, Transactions, Inv
  <2>2. /\ Cardinality(Inserting) \in Nat /\ Cardinality(Transactions) \in Nat
        /\ Cardinality(instance.requests) \in Nat
    BY <2>1, RequestsFinite
  <2>3. Cardinality(Pending) \in Nat /\ Cardinality(LeakedOn) \in Nat
    BY FS_CardinalityType DEF CreateInv, PoolInv
  <2>4. PendingBounded BY <2>2, <2>3 DEF CreateInv, PendingBounded
  <2>5. ConnectionsAccounted BY DEF PoolInv, ConnectionsAccounted, Transactions
  <2>6. free \in 0..Conns BY <2>2, <2>3, ActionPlanAssumption DEF PoolInv
  <2> QED BY <2>4, <2>5, <2>6 DEF PlansSound, TypeOK, Inv, RowsOK
<1> QED BY <1>1, <1>2, <1>3, InvAlways, PTL DEF Spec

----
(* Identity. *)

(* What a request of Identity may rely on at each of its steps. *)
CreateOK(db, call) ==
    /\ call.op = "register" /\ call.at = "company" => call.email \in STRING
    /\ call.op = "register" /\ call.at = "user" => call.email \in STRING /\ call.company \in Nat
    /\ call.op \in {"register", "invite"} /\ call.at = "member" =>
         call.user \in Nat /\ call.company \in Nat
    /\ call.op = "create" /\ call.at \in {"user", "member", "key", "link"} =>
         /\ DOMAIN call = {"op", "at", "user", "company"} /\ call.company \in Nat
         /\ IF call.at = "user" THEN call.user \in UserRows ELSE call.user \in Nat
         /\ call.at \in {"key", "link"} => HasMember(db, call.user, call.company)
    /\ call.op \in {"register", "create", "invite"} /\ call.at = "answered" /\ call.status = 201 =>
         HasMember(db, call.user, call.company)

SessionOK(db, call) ==
    /\ call.op = "login" /\ call.at = "role" => call.user \in Nat /\ call.company \in Nat
    /\ call.op = "refresh" /\ call.at \in {"revoke", "issue"} =>
         /\ DOMAIN call = {"op", "at", "pair", "late", "looked"}
         /\ call.pair \in Ids(db.pairs) /\ ~(call.looked /\ call.late)
    /\ call.op = "refresh" /\ call.at = "answered" /\ call.status = 200 =>
         ~(call.looked /\ call.late)
    /\ call.op = "sso" /\ call.at = "user" => call.email \in STRING
    /\ call.op = "sso" /\ call.at \in {"member", "issue"} =>
         DOMAIN call = {"op", "at", "user"} /\ call.user \in Nat

OrgOK(db, call) ==
    /\ call.op = "org" /\ call.at = "insert" => call.slug \in STRING /\ call.user \in Nat
    /\ call.op = "org" /\ call.at = "owner" => call.user \in Nat /\ call.org \in Ids(db.orgs)
    /\ call.op = "reslug" /\ call.at = "write" => call.slug \in STRING /\ call.org \in Ids(db.orgs)
    /\ call.op = "join" /\ call.at = "insert" =>
         call.user \in Nat /\ call.org \in Ids(db.orgs) /\ call.role \in DOMAIN OrgLevel
    /\ call.op = "company" /\ call.at = "insert" => call.org \in Ids(db.orgs) /\ call.counted \in BOOLEAN
    /\ call.op = "update" /\ call.at = "write" =>
         call.company \in Ids(db.companies) /\ call.tin \in Nat

TelegramOK(db, call) ==
    /\ call.op = "start" /\ call.at \in {"mark", "link"} =>
         /\ DOMAIN call = {"op", "at", "link", "telegram"}
         /\ call.link \in Ids(db.links) /\ call.telegram \in TelegramIds
    /\ call.op = "link" /\ call.at = "upsert" =>
         /\ call.user \in Nat /\ call.company \in Nat /\ call.telegram \in TelegramIds
         /\ HasMember(db, call.user, call.company)

CallOK(db, call) ==
    CreateOK(db, call) /\ SessionOK(db, call) /\ OrgOK(db, call) /\ TelegramOK(db, call)

TablesOK(db) ==
    /\ db \in IdentityTables /\ IsFiniteSet(db.orgMembers)
    /\ LinksNameMembers(db) /\ AccountsNameMembers(db)
    /\ \A m \in db.orgMembers : m.org \in Ids(db.orgs)

(* The requests that are about to add to an organization, past its limit. *)
AddsCompany(call, o) == call.op = "company" /\ call.at = "insert" /\ call.org = o /\ call.counted
AddsMember(call, o) ==
    /\ <<call.op, call.at>> \in {<<"org", "owner">>, <<"join", "insert">>}
    /\ call.org = o

AddingCompany(o) == {c \in Callers : AddsCompany(calls[c], o)}
AddingMember(o) == {c \in Callers : AddsMember(calls[c], o)}

CompanyLimitKept(o) ==
    Cardinality(CompaniesCounted(rows, o)) + Cardinality(AddingCompany(o))
        <= MaxCompanies + Cardinality(Callers) - 1

MemberLimitKept(o) ==
    Cardinality(ListOrgMembers(rows, o)) + Cardinality(AddingMember(o))
        <= MaxUsers + Cardinality(Callers) - 1

LimitsInv == \A o \in Nat \ {0} : CompanyLimitKept(o) /\ MemberLimitKept(o)

IdentityInv ==
    /\ TablesOK(rows)
    /\ DOMAIN calls = Callers /\ \A c \in Callers : CallOK(rows, calls[c])
    /\ LimitsInv
----
(* A row appended to a table, and a row of it rewritten. *)
LEMMA Appending ==
    ASSUME NEW S, NEW s \in Seq(S), NEW e \in S
    PROVE  /\ Append(s, e) \in Seq(S)
           /\ DOMAIN Append(s, e) = 1..(Len(s) + 1) /\ DOMAIN s = 1..Len(s) /\ Len(s) \in Nat
           /\ DOMAIN s \subseteq DOMAIN Append(s, e)
           /\ \A i \in DOMAIN s : Append(s, e)[i] = s[i]
           /\ Append(s, e)[Len(s) + 1] = e
           /\ ToSet(Append(s, e)) = ToSet(s) \cup {e}
<1>1. /\ Append(s, e) \in Seq(S) /\ Len(Append(s, e)) = Len(s) + 1
      /\ \A i \in 1..Len(s) : Append(s, e)[i] = s[i]
      /\ Append(s, e)[Len(s) + 1] = e
  OBVIOUS
<1>2. DOMAIN Append(s, e) = 1..(Len(s) + 1) /\ DOMAIN s = 1..Len(s) /\ Len(s) \in Nat BY <1>1
<1>3. \A i \in 1..(Len(s) + 1) : i \in 1..Len(s) \/ i = Len(s) + 1 BY <1>2
<1>4. ToSet(Append(s, e)) = ToSet(s) \cup {e} BY <1>1, <1>2, <1>3 DEF ToSet
<1> QED BY <1>1, <1>2, <1>4

LEMMA Rewriting ==
    ASSUME NEW S, NEW s \in Seq(S), NEW i \in DOMAIN s, NEW e \in S
    PROVE  /\ [s EXCEPT ![i] = e] \in Seq(S) /\ DOMAIN [s EXCEPT ![i] = e] = DOMAIN s
OBVIOUS

(* What only ever grows. *)
Grows(db, new) ==
    /\ ToSet(db.members) \subseteq ToSet(new.members)
    /\ Ids(db.pairs) \subseteq Ids(new.pairs) /\ Ids(db.links) \subseteq Ids(new.links)
    /\ Ids(db.orgs) \subseteq Ids(new.orgs) /\ Ids(db.companies) \subseteq Ids(new.companies)

LEMMA CallStays ==
    ASSUME NEW db, NEW new, Grows(db, new), NEW call, CallOK(db, call)
    PROVE  CallOK(new, call)
<1> USE DEF Grows, HasMember
<1>1. CreateOK(new, call) BY DEF CallOK, CreateOK
<1>2. SessionOK(new, call) BY DEF CallOK, SessionOK
<1>3. OrgOK(new, call) BY DEF CallOK, OrgOK
<1>4. TelegramOK(new, call) BY DEF CallOK, TelegramOK
<1> QED BY <1>1, <1>2, <1>3, <1>4 DEF CallOK

----
(* Each write keeps the tables sound and takes nothing away that a request
   relies on. *)
LEMMA WriteUser ==
    ASSUME NEW db, TablesOK(db), NEW u \in UserRows
    PROVE  TablesOK(CreateUser(db, u)) /\ Grows(db, CreateUser(db, u))
<1>1. Append(db.users, u) \in Seq(UserRows) BY Appending DEF TablesOK, IdentityTables
<1> QED BY <1>1 DEF CreateUser, TablesOK, IdentityTables, Grows, LinksNameMembers,
                    AccountsNameMembers, HasMember, Ids

LEMMA WriteKey ==
    ASSUME NEW db, TablesOK(db), NEW u \in Nat
    PROVE  TablesOK(SetAPIKey(db, u)) /\ Grows(db, SetAPIKey(db, u))
<1> DEFINE users == [db.users EXCEPT ![u].key = db.keys + 1]
<1>1. /\ db.users \in Seq(UserRows) /\ db.keys \in Nat /\ db.keys + 1 \in Nat
      /\ DOMAIN db = {"users", "orgs", "companies", "orgMembers", "members", "links", "keys",
                      "revoked", "telegram", "pairs"}
  BY DEF TablesOK, IdentityTables
<1>2. \A r \in UserRows, k \in Nat : [r EXCEPT !.key = k] \in UserRows BY DEF UserRows
<1>3. \A i \in 1..Len(db.users) : users[i] \in UserRows BY <1>1, <1>2
<1>4. users \in [1..Len(db.users) -> UserRows] /\ Len(db.users) \in Nat
  <2>1. db.users \in [1..Len(db.users) -> UserRows] /\ Len(db.users) \in Nat BY <1>1
  <2> QED BY <1>3, <2>1
<1>5. users \in Seq(UserRows) BY <1>4, SeqDef
<1>6. SetAPIKey(db, u) = [db EXCEPT !.keys = db.keys + 1, !.users = users] BY DEF SetAPIKey
<1> HIDE DEF users
<1>7. /\ SetAPIKey(db, u) \in IdentityTables
      /\ \A f \in {"orgs", "companies", "orgMembers", "members", "links", "telegram", "pairs"} :
            SetAPIKey(db, u)[f] = db[f]
  BY <1>1, <1>5, <1>6 DEF TablesOK, IdentityTables
<1> QED BY <1>7 DEF TablesOK, Grows, LinksNameMembers, AccountsNameMembers, HasMember, Ids

LEMMA WriteCompany ==
    ASSUME NEW db, TablesOK(db), NEW o \in Nat, NEW counted \in BOOLEAN
    PROVE  LET new == CreateCompany(db, o, counted)
           IN  TablesOK(new) /\ Grows(db, new) /\ Len(new.companies) = Len(db.companies) + 1
<1> DEFINE row == [org |-> o, tin |-> 0, counted |-> counted]
<1>1. db.companies \in Seq(CompanyRows) /\ row \in CompanyRows
  BY DEF TablesOK, IdentityTables, CompanyRows
<1>2. /\ Append(db.companies, row) \in Seq(CompanyRows)
      /\ DOMAIN db.companies \subseteq DOMAIN Append(db.companies, row)
      /\ Len(Append(db.companies, row)) = Len(db.companies) + 1
  BY <1>1, Appending
<1> DEFINE new == CreateCompany(db, o, counted)
<1>3. /\ new \in IdentityTables /\ new.companies = Append(db.companies, row)
      /\ \A f \in DOMAIN db \ {"companies"} : new[f] = db[f]
      /\ DOMAIN db = {"users", "orgs", "companies", "orgMembers", "members", "links", "keys",
                      "revoked", "telegram", "pairs"}
  BY <1>1, <1>2 DEF CreateCompany, TablesOK, IdentityTables
<1> QED BY <1>1, <1>2, <1>3 DEF TablesOK, Grows, LinksNameMembers, AccountsNameMembers, HasMember, Ids

LEMMA WriteMember ==
    ASSUME NEW db, TablesOK(db), NEW company \in Nat, NEW u \in Nat, NEW role \in CompanyRoles
    PROVE  LET new == AddCompanyMember(db, company, u, role)
           IN  TablesOK(new) /\ Grows(db, new) /\ HasMember(new, u, company)
<1> DEFINE row == [company |-> company, user |-> u, role |-> role]
<1>1. CASE \E m \in ToSet(db.members) : m.company = company /\ m.user = u
  BY <1>1 DEF AddCompanyMember, HasMember, Grows
<1>2. CASE ~\E m \in ToSet(db.members) : m.company = company /\ m.user = u
  <2>1. db.members \in Seq(MemberRows) /\ row \in MemberRows
    BY DEF TablesOK, IdentityTables, MemberRows
  <2>2. /\ Append(db.members, row) \in Seq(MemberRows)
        /\ ToSet(Append(db.members, row)) = ToSet(db.members) \cup {row}
    BY <2>1, Appending
  <2>3. AddCompanyMember(db, company, u, role) = [db EXCEPT !.members = Append(db.members, row)]
    BY <1>2 DEF AddCompanyMember
  <2>4. row.user = u /\ row.company = company OBVIOUS
  <2> HIDE DEF row
  <2> DEFINE new == AddCompanyMember(db, company, u, role)
  <2>5. /\ new \in IdentityTables /\ new.members = Append(db.members, row)
        /\ \A f \in DOMAIN db \ {"members"} : new[f] = db[f]
        /\ DOMAIN db = {"users", "orgs", "companies", "orgMembers", "members", "links", "keys",
                        "revoked", "telegram", "pairs"}
    BY <2>2, <2>3 DEF TablesOK, IdentityTables
  <2> QED BY <2>2, <2>4, <2>5 DEF TablesOK, Grows, LinksNameMembers, AccountsNameMembers, HasMember, Ids
<1> QED BY <1>1, <1>2

LEMMA WriteLink ==
    ASSUME NEW db, TablesOK(db), NEW u \in Nat, NEW company \in Nat, HasMember(db, u, company)
    PROVE  TablesOK(CreateLinkToken(db, u, company)) /\ Grows(db, CreateLinkToken(db, u, company))
<1> DEFINE row == [user |-> u, company |-> company, used |-> FALSE]
<1>1. db.links \in Seq(LinkRows) /\ row \in LinkRows /\ row.user = u /\ row.company = company
  BY DEF TablesOK, IdentityTables, LinkRows
<1> HIDE DEF row
<1> DEFINE links == Append(db.links, row)
<1>2. /\ links \in Seq(LinkRows) /\ DOMAIN db.links \subseteq DOMAIN links
      /\ \A l \in DOMAIN links : (l \in DOMAIN db.links /\ links[l] = db.links[l]) \/ links[l] = row
  BY <1>1, Appending
<1>3. CreateLinkToken(db, u, company) = [db EXCEPT !.links = links] BY DEF CreateLinkToken, row
<1> HIDE DEF links
<1> DEFINE new == CreateLinkToken(db, u, company)
<1>4. /\ new \in IdentityTables /\ new.links = links
      /\ \A f \in DOMAIN db \ {"links"} : new[f] = db[f]
      /\ DOMAIN db = {"users", "orgs", "companies", "orgMembers", "members", "links", "keys",
                      "revoked", "telegram", "pairs"}
  BY <1>2, <1>3 DEF TablesOK, IdentityTables
<1> QED BY <1>1, <1>2, <1>4 DEF TablesOK, Grows, LinksNameMembers, AccountsNameMembers, HasMember, Ids

LEMMA WriteMark ==
    ASSUME NEW db, TablesOK(db), NEW l \in Ids(db.links)
    PROVE  TablesOK(MarkLinkTokenUsed(db, l)) /\ Grows(db, MarkLinkTokenUsed(db, l))
<1> DEFINE links == [db.links EXCEPT ![l].used = TRUE]
<1>1. db.links \in Seq(LinkRows) /\ db.links[l] \in LinkRows BY DEF TablesOK, IdentityTables, Ids
<1>2. [db.links[l] EXCEPT !.used = TRUE] \in LinkRows BY <1>1 DEF LinkRows
<1>3. links \in Seq(LinkRows) /\ DOMAIN links = DOMAIN db.links BY <1>1, <1>2, Rewriting DEF Ids
<1>4. \A k \in DOMAIN links : links[k].user = db.links[k].user /\ links[k].company = db.links[k].company
  BY <1>1 DEF LinkRows
<1>5. MarkLinkTokenUsed(db, l) = [db EXCEPT !.links = links] BY DEF MarkLinkTokenUsed
<1> HIDE DEF links
<1> DEFINE new == MarkLinkTokenUsed(db, l)
<1>6. /\ new \in IdentityTables /\ new.links = links
      /\ \A f \in DOMAIN db \ {"links"} : new[f] = db[f]
      /\ DOMAIN db = {"users", "orgs", "companies", "orgMembers", "members", "links", "keys",
                      "revoked", "telegram", "pairs"}
  BY <1>3, <1>5 DEF TablesOK, IdentityTables
<1> QED BY <1>3, <1>4, <1>6 DEF TablesOK, Grows, LinksNameMembers, AccountsNameMembers, HasMember, Ids

LEMMA WriteAccount ==
    ASSUME NEW db, TablesOK(db), NEW t \in TelegramIds, NEW u \in Nat, NEW company \in Nat,
           HasMember(db, u, company)
    PROVE  LET new == UpsertTelegramUser(db, t, u, company) IN TablesOK(new) /\ Grows(db, new)
<1> DEFINE telegram == [db.telegram EXCEPT ![t] = [user |-> u, company |-> company]]
<1>1. /\ telegram \in [TelegramIds -> [user : Nat, company : Nat]]
      /\ \A k \in TelegramIds : telegram[k] = IF k = t THEN [user |-> u, company |-> company]
                                            ELSE db.telegram[k]
  BY DEF TablesOK, IdentityTables
<1>2. UpsertTelegramUser(db, t, u, company) = [db EXCEPT !.telegram = telegram]
  BY DEF UpsertTelegramUser
<1> HIDE DEF telegram
<1> DEFINE new == UpsertTelegramUser(db, t, u, company)
<1>3. /\ new \in IdentityTables /\ new.telegram = telegram
      /\ \A f \in DOMAIN db \ {"telegram"} : new[f] = db[f]
      /\ DOMAIN db = {"users", "orgs", "companies", "orgMembers", "members", "links", "keys",
                      "revoked", "telegram", "pairs"}
  BY <1>1, <1>2 DEF TablesOK, IdentityTables
<1> QED BY <1>1, <1>2, <1>3 DEF TablesOK, Grows, LinksNameMembers, AccountsNameMembers, HasMember, Ids

LEMMA WriteRevoked ==
    ASSUME NEW db, TablesOK(db), NEW pair \in Ids(db.pairs)
    PROVE  TablesOK(CreateRevokedToken(db, pair)) /\ Grows(db, CreateRevokedToken(db, pair))
<1>1. pair \in Nat BY DEF TablesOK, IdentityTables, Ids
<1> DEFINE new == CreateRevokedToken(db, pair)
<1>2. /\ new \in IdentityTables /\ new.revoked = db.revoked \cup {pair}
      /\ \A f \in DOMAIN db \ {"revoked"} : new[f] = db[f]
      /\ DOMAIN db = {"users", "orgs", "companies", "orgMembers", "members", "links", "keys",
                      "revoked", "telegram", "pairs"}
  BY <1>1 DEF CreateRevokedToken, TablesOK, IdentityTables
<1> QED BY <1>1, <1>2 DEF TablesOK, Grows, LinksNameMembers, AccountsNameMembers, HasMember, Ids

LEMMA WritePair ==
    ASSUME NEW db, TablesOK(db), NEW u \in Nat, NEW company \in Nat, NEW role \in CompanyRoles
    PROVE  LET new == IssuePair(db, u, company, role) IN TablesOK(new) /\ Grows(db, new)
<1> DEFINE row == [user |-> u, company |-> company, role |-> role]
<1>1. db.pairs \in Seq(MemberRows) /\ row \in MemberRows BY DEF TablesOK, IdentityTables, MemberRows
<1>2. Append(db.pairs, row) \in Seq(MemberRows) /\ DOMAIN db.pairs \subseteq DOMAIN Append(db.pairs, row)
  BY <1>1, Appending
<1> QED BY <1>2 DEF IssuePair, TablesOK, IdentityTables, Grows, LinksNameMembers,
                    AccountsNameMembers, HasMember, Ids

LEMMA WriteOrganization ==
    ASSUME NEW db, TablesOK(db), NEW slug \in STRING
    PROVE  LET new == CreateOrganization(db, slug)
           IN  TablesOK(new) /\ Grows(db, new) /\ Ids(new.orgs) = 1..(Len(db.orgs) + 1)
<1> DEFINE row == [slug |-> slug]
<1>1. db.orgs \in Seq(OrgRows) /\ row \in OrgRows BY DEF TablesOK, IdentityTables, OrgRows
<1>2. /\ Append(db.orgs, row) \in Seq(OrgRows)
      /\ DOMAIN db.orgs \subseteq DOMAIN Append(db.orgs, row)
      /\ DOMAIN Append(db.orgs, row) = 1..(Len(db.orgs) + 1)
  BY <1>1, Appending
<1> QED BY <1>2 DEF CreateOrganization, TablesOK, IdentityTables, Grows, LinksNameMembers,
                    AccountsNameMembers, HasMember, Ids

LEMMA WriteSlug ==
    ASSUME NEW db, TablesOK(db), NEW o \in Ids(db.orgs), NEW slug \in STRING
    PROVE  LET new == UpdateOrganization(db, o, slug) IN TablesOK(new) /\ Grows(db, new)
<1> DEFINE orgs == [db.orgs EXCEPT ![o].slug = slug]
<1>1. db.orgs \in Seq(OrgRows) /\ db.orgs[o] \in OrgRows
  BY DEF TablesOK, IdentityTables, Ids
<1>2. [db.orgs[o] EXCEPT !.slug = slug] \in OrgRows BY <1>1 DEF OrgRows
<1>3. orgs \in Seq(OrgRows) /\ DOMAIN orgs = DOMAIN db.orgs BY <1>1, <1>2, Rewriting DEF Ids
<1>4. UpdateOrganization(db, o, slug) = [db EXCEPT !.orgs = orgs] BY DEF UpdateOrganization
<1> HIDE DEF orgs
<1> DEFINE new == UpdateOrganization(db, o, slug)
<1>5. /\ new \in IdentityTables /\ new.orgs = orgs
      /\ \A f \in DOMAIN db \ {"orgs"} : new[f] = db[f]
      /\ DOMAIN db = {"users", "orgs", "companies", "orgMembers", "members", "links", "keys",
                      "revoked", "telegram", "pairs"}
  BY <1>3, <1>4 DEF TablesOK, IdentityTables
<1> QED BY <1>3, <1>4, <1>5 DEF TablesOK, Grows, LinksNameMembers, AccountsNameMembers, HasMember, Ids

LEMMA WriteTIN ==
    ASSUME NEW db, TablesOK(db), NEW co \in Ids(db.companies), NEW tin \in Nat
    PROVE  LET new == UpdateCompany(db, co, tin)
           IN  /\ TablesOK(new) /\ Grows(db, new) /\ Ids(new.companies) = Ids(db.companies)
               /\ \A k \in Ids(db.companies) : /\ new.companies[k].org = db.companies[k].org
                                                /\ new.companies[k].counted = db.companies[k].counted
<1> DEFINE companies == [db.companies EXCEPT ![co].tin = tin]
<1>1. db.companies \in Seq(CompanyRows) /\ db.companies[co] \in CompanyRows
  BY DEF TablesOK, IdentityTables, Ids
<1>2. [db.companies[co] EXCEPT !.tin = tin] \in CompanyRows BY <1>1 DEF CompanyRows
<1>3. companies \in Seq(CompanyRows) /\ DOMAIN companies = DOMAIN db.companies
  BY <1>1, <1>2, Rewriting DEF Ids
<1>4. \A k \in DOMAIN companies : /\ companies[k].org = db.companies[k].org
                                    /\ companies[k].counted = db.companies[k].counted
  BY <1>1 DEF CompanyRows
<1>5. UpdateCompany(db, co, tin) = [db EXCEPT !.companies = companies] BY DEF UpdateCompany
<1> HIDE DEF companies
<1> DEFINE new == UpdateCompany(db, co, tin)
<1>6. /\ new \in IdentityTables /\ new.companies = companies
      /\ \A f \in DOMAIN db \ {"companies"} : new[f] = db[f]
      /\ DOMAIN db = {"users", "orgs", "companies", "orgMembers", "members", "links", "keys",
                      "revoked", "telegram", "pairs"}
  BY <1>3, <1>5 DEF TablesOK, IdentityTables
<1> QED BY <1>3, <1>4, <1>6 DEF TablesOK, Grows, LinksNameMembers, AccountsNameMembers, HasMember, Ids

LEMMA WriteOrgMembers ==
    ASSUME NEW db, TablesOK(db), NEW some \in SUBSET OrgMemberRows, IsFiniteSet(some),
           \A m \in some : m.org \in Ids(db.orgs)
    PROVE  LET new == [db EXCEPT !.orgMembers = some] IN TablesOK(new) /\ Grows(db, new)
BY DEF TablesOK, IdentityTables, Grows, LinksNameMembers, AccountsNameMembers, HasMember, Ids

----
(* What is read of sound tables. *)
(* The members of organizations when one of them has got another role. *)
Reroled(some, org, u, role) ==
    {IF m.org = org /\ m.user = u THEN [m EXCEPT !.role = role] ELSE m : m \in some}

LEMMA ImageOfFinite ==
    ASSUME NEW some, IsFiniteSet(some), NEW org, NEW u, NEW role
    PROVE  /\ IsFiniteSet(Reroled(some, org, u, role))
           /\ Cardinality(Reroled(some, org, u, role)) <= Cardinality(some)
<1> DEFINE New(m) == IF m.org = org /\ m.user = u THEN [m EXCEPT !.role = role] ELSE m
           f == [m \in some |-> New(m)]
<1>1. Reroled(some, org, u, role) = {New(m) : m \in some} BY DEF Reroled
<1> HIDE DEF New
<1>2. f \in Surjection(some, {New(m) : m \in some}) BY DEF Surjection
<1> QED BY <1>1, <1>2, FS_Surjection

LEMMA MaxIsThere ==
    ASSUME NEW n \in Nat, NEW S \in SUBSET (1..n), S # {}
    PROVE  Max(S) \in S /\ \A y \in S : Max(S) >= y
<1> DEFINE T == {t \in Nat : \E y \in S : t = n - y}
<1>1. \A y \in S : y \in Nat /\ n - y \in Nat OBVIOUS
<1>2. T \subseteq Nat /\ T # {} BY <1>1
<1>3. PICK m \in T : \A t \in T : m <= t BY <1>2, HasLeast
<1>4. PICK x \in S : m = n - x BY <1>3
<1>5. ASSUME NEW y \in S PROVE x >= y
  BY <1>1, <1>3, <1>4
<1> QED BY <1>5 DEF Max

LEMMA MinIsThere ==
    ASSUME NEW S \in SUBSET Nat, S # {}
    PROVE  Min(S) \in S
BY HasLeast DEF Min

LEMMA ClaimsTyped ==
    ASSUME NEW db, TablesOK(db), NEW claims \in Authenticated(db)
    PROVE  claims.user \in Nat /\ claims.company \in Nat /\ claims.role \in CompanyRoles
<1>1. db.pairs \in Seq(MemberRows) /\ db.users \in Seq(UserRows) /\ db.companies \in Seq(CompanyRows)
  BY DEF TablesOK, IdentityTables
<1>2. CASE claims \in ToSet(db.pairs)
  <2>1. claims \in MemberRows BY <1>1, <1>2 DEF ToSet
  <2> QED BY <2>1 DEF MemberRows
<1>3. CASE \E k \in 1..db.keys : claims \in ResolveAPIKey(db, k)
  <2>1. PICK k \in 1..db.keys : claims \in ResolveAPIKey(db, k) BY <1>3
  <2>2. PICK u \in GetUserByAPIKey(db, k) :
            /\ CompaniesOf(db, u) # {}
            /\ claims = [user |-> u, company |-> Max(CompaniesOf(db, u)), role |-> "company_admin"]
    BY <2>1 DEF ResolveAPIKey
  <2>3. u \in Nat BY <1>1, <2>2 DEF GetUserByAPIKey, Ids
  <2>4. CompaniesOf(db, u) \in SUBSET (1..Len(db.companies)) /\ Len(db.companies) \in Nat
    BY <1>1 DEF CompaniesOf, Ids
  <2>5. Max(CompaniesOf(db, u)) \in CompaniesOf(db, u) BY <2>2, <2>4, MaxIsThere
  <2>6. Max(CompaniesOf(db, u)) \in Nat BY <2>4, <2>5
  <2>7. claims.user = u /\ claims.company = Max(CompaniesOf(db, u)) /\ claims.role \in CompanyRoles
    BY <2>2 DEF CompanyRoles
  <2> QED BY <2>3, <2>6, <2>7
<1> QED BY <1>2, <1>3 DEF Authenticated

LEMMA RoleTyped ==
    ASSUME NEW db, TablesOK(db), NEW company, NEW u
    PROVE  GetEffectiveRole(db, company, u) \in CompanyRoles \cup {"none"}
<1> DEFINE own == {m \in ToSet(db.members) : m.company = company /\ m.user = u}
<1>1. db.members \in Seq(MemberRows) BY DEF TablesOK, IdentityTables
<1>2. ToSet(db.members) \subseteq MemberRows BY <1>1 DEF ToSet
<1>3. ASSUME own # {} PROVE (CHOOSE m \in own : TRUE).role \in CompanyRoles
  BY <1>2, <1>3 DEF MemberRows
<1>4. CASE own # {} BY <1>3, <1>4 DEF GetEffectiveRole
<1>5. CASE own = {}
  BY <1>5 DEF GetEffectiveRole, CompanyRoles
<1> QED BY <1>4, <1>5

(* A membership that was looked up is one. *)
LEMMA MemberFound ==
    ASSUME NEW db, TablesOK(db), NEW i \in DOMAIN db.members
    PROVE  LET m == db.members[i]
           IN  m.user \in Nat /\ m.company \in Nat /\ HasMember(db, m.user, m.company)
<1>1. db.members \in Seq(MemberRows) BY DEF TablesOK, IdentityTables
<1>2. db.members[i] \in MemberRows /\ db.members[i] \in ToSet(db.members) BY <1>1 DEF ToSet
<1> QED BY <1>2 DEF MemberRows, HasMember

LEMMA FirstCompanyFound ==
    ASSUME NEW db, TablesOK(db), NEW u, GetFirstCompanyByUser(db, u) # 0
    PROVE  GetFirstCompanyByUser(db, u) \in Nat /\ HasMember(db, u, GetFirstCompanyByUser(db, u))
<1> DEFINE found == {i \in DOMAIN db.members : db.members[i].user = u}
<1>1. DOMAIN db.members \subseteq Nat BY DEF TablesOK, IdentityTables
<1>2. found # {} /\ GetFirstCompanyByUser(db, u) = db.members[Min(found)].company
  BY DEF GetFirstCompanyByUser
<1>3. Min(found) \in found BY <1>1, <1>2, MinIsThere
<1> QED BY <1>2, <1>3, MemberFound

LEMMA NamedMemberFound ==
    ASSUME NEW db, TablesOK(db), NEW name, NEW m \in GetUserByTelegramUsername(db, name)
    PROVE  m.user \in Nat /\ m.company \in Nat /\ HasMember(db, m.user, m.company)
<1> DEFINE found == {i \in DOMAIN db.members : /\ db.users[db.members[i].user].tg = name
                                              /\ db.users[db.members[i].user].active}
<1>1. DOMAIN db.members \subseteq Nat BY DEF TablesOK, IdentityTables
<1>2. found # {} /\ m = db.members[Min(found)] BY DEF GetUserByTelegramUsername
<1>3. Min(found) \in found BY <1>1, <1>2, MinIsThere
<1> QED BY <1>2, <1>3, MemberFound
----
(* One step of a request: it leaves the tables sound, itself in order, and the
   other requests where they were. *)
Step(c) ==
    /\ TablesOK(rows') /\ Grows(rows, rows') /\ CallOK(rows', calls'[c])
    /\ DOMAIN calls' = Callers /\ \A d \in Callers \ {c} : calls'[d] = calls[d]

LEMMA Stepping ==
    ASSUME IdentityInv, NEW c \in Callers, NEW new, rows' = new, TablesOK(new), Grows(rows, new),
           NEW call, calls' = [calls EXCEPT ![c] = call], CallOK(new, call)
    PROVE  Step(c)
BY DEF IdentityInv, Step

LEMMA Reading ==
    ASSUME IdentityInv, NEW c \in Callers, Reads,
           NEW call, calls' = [calls EXCEPT ![c] = call], CallOK(rows, call)
    PROVE  Step(c)
BY Stepping DEF IdentityInv, Reads, Grows

(* An answer that names nobody, and that is not a refreshed pair. *)
LEMMA Answering ==
    ASSUME NEW db, NEW op, NEW status \in {401, 403, 404, 409, 500}
    PROVE  CallOK(db, Answered(op, status))
BY DEF Answered, CallOK, CreateOK, SessionOK, OrgOK, TelegramOK

LEMMA MemberSteps ==
    ASSUME IdentityInv, NEW c \in Callers,
           \/ Register(c) \/ RegisterCompany(c) \/ RegisterUser(c) \/ RegisterMember(c)
           \/ CreateMember(c) \/ CreateMemberUser(c) \/ CreateMemberRole(c)
           \/ CreateMemberKey(c) \/ CreateMemberLink(c) \/ InviteMember(c) \/ InviteAdds(c)
    PROVE  Step(c)
<1> USE DEF CallOK, CreateOK, SessionOK, OrgOK, TelegramOK, AnswerAtOnce, Begin, Continue, Answer, At
<1>1. TablesOK(rows) /\ CallOK(rows, calls[c]) BY DEF IdentityInv
<1>2. CASE Register(c)
  <2>1. Reads BY <1>2 DEF Register
  <2>2. PICK e \in Emails :
          \/ calls' = [calls EXCEPT ![c] = Answered("register", 409)]
          \/ calls' = [calls EXCEPT ![c] = [op |-> "register", at |-> "company", email |-> e]]
    BY <1>2 DEF Register, RegisterResponses
  <2>3. CallOK(rows, [op |-> "register", at |-> "company", email |-> e]) BY IdentityAssumption
  <2>4. CallOK(rows, Answered("register", 409)) BY Answering
  <2> HIDE DEF CallOK, CreateOK, SessionOK, OrgOK, TelegramOK
  <2> QED BY <2>1, <2>2, <2>3, <2>4, Reading
<1>3. CASE RegisterCompany(c)
  <2>1. TablesOK(CreateCompany(rows, 0, TRUE)) /\ Grows(rows, CreateCompany(rows, 0, TRUE))
    BY <1>1, WriteCompany
  <2> DEFINE call == [op |-> "register", at |-> "user", email |-> calls[c].email,
                      company |-> Len(rows.companies) + 1]
  <2>2. rows' = CreateCompany(rows, 0, TRUE) /\ calls' = [calls EXCEPT ![c] = call]
    BY <1>3 DEF RegisterCompany, Store
  <2>3. calls[c].email \in STRING BY <1>1, <1>3 DEF RegisterCompany
  <2>4. Len(rows.companies) + 1 \in Nat BY <1>1 DEF TablesOK, IdentityTables
  <2>5. CallOK(CreateCompany(rows, 0, TRUE), call) BY <2>3, <2>4
  <2> QED BY <2>1, <2>2, <2>5, Stepping
<1>4. CASE RegisterUser(c)
  <2> DEFINE user == User(calls[c].email, "")
             call == [op |-> "register", at |-> "member",
                      user |-> Len(rows.users) + 1, company |-> calls[c].company]
  <2>1. calls[c].email \in STRING /\ calls[c].company \in Nat /\ Len(rows.users) + 1 \in Nat
    <3>1. calls[c].email \in STRING /\ calls[c].company \in Nat BY <1>1, <1>4 DEF RegisterUser
    <3>2. Len(rows.users) + 1 \in Nat BY <1>1 DEF TablesOK, IdentityTables
    <3> QED BY <3>1, <3>2
  <2>2. user \in UserRows BY <2>1 DEF User, UserRows
  <2>3. CASE rows' = CreateUser(rows, user) /\ calls' = [calls EXCEPT ![c] = call]
    <3>1. CallOK(CreateUser(rows, user), call) BY <2>1
    <3>2. TablesOK(CreateUser(rows, user)) /\ Grows(rows, CreateUser(rows, user))
      BY <1>1, <2>2, WriteUser
    <3> HIDE DEF call
    <3> QED BY <2>3, <3>1, <3>2, Stepping
  <2>4. CASE Reads /\ calls' = [calls EXCEPT ![c] = Answered("register", 500)]
    <3> DEFINE answer == Answered("register", 500)
    <3>1. CallOK(rows, answer) BY Answering
    <3>2. Reads /\ calls' = [calls EXCEPT ![c] = answer] BY <2>4
    <3> HIDE DEF answer, call
    <3> HIDE DEF CallOK, CreateOK, SessionOK, OrgOK, TelegramOK
    <3> QED BY <3>1, <3>2, Reading
  <2> QED BY <1>4, <2>3, <2>4 DEF RegisterUser, Store, RegisterResponses
<1>5. CASE RegisterMember(c)
  <2> DEFINE new == AddCompanyMember(rows, calls[c].company, calls[c].user, "company_admin")
             call == Made("register", 201, calls[c].user, calls[c].company)
  <2>1. calls[c].user \in Nat /\ calls[c].company \in Nat BY <1>1, <1>5 DEF RegisterMember
  <2>2. TablesOK(new) /\ Grows(rows, new) /\ HasMember(new, calls[c].user, calls[c].company)
    BY <1>1, <2>1, WriteMember DEF CompanyRoles
  <2>3. CallOK(new, call) BY <2>2 DEF Made
  <2>4. rows' = new /\ calls' = [calls EXCEPT ![c] = call]
    BY <1>5 DEF RegisterMember, Store, RegisterResponses
  <2> HIDE DEF call
  <2> QED BY <2>2, <2>3, <2>4, Stepping
<1>6. CASE CreateMember(c)
  <2>1. Reads BY <1>6 DEF CreateMember
  <2>6. CallOK(rows, Answered("create", 409)) BY Answering
  <2>2. PICK e \in Emails, tg \in {"", "nick"}, claims \in Authenticated(rows) :
          \/ calls' = [calls EXCEPT ![c] = Answered("create", 409)]
          \/ calls' = [calls EXCEPT ![c] = [op |-> "create", at |-> "user", user |-> User(e, tg),
                                           company |-> claims.company]]
    BY <1>6, ZenonT(60) DEF CreateMember, CreateMemberResponses
  <2>3. claims.company \in Nat BY <1>1, ClaimsTyped
  <2>4. User(e, tg) \in UserRows BY IdentityAssumption DEF User, UserRows
  <2>5. CallOK(rows, [op |-> "create", at |-> "user", user |-> User(e, tg),
                      company |-> claims.company])
    BY <2>3, <2>4
  <2> HIDE DEF CallOK, CreateOK, SessionOK, OrgOK, TelegramOK
  <2> QED BY <2>1, <2>2, <2>5, <2>6, Reading
<1>7. CASE CreateMemberUser(c)
  <2> DEFINE user == calls[c].user
             call == [calls[c] EXCEPT !.at = "member", !.user = Len(rows.users) + 1]
  <2>1. /\ DOMAIN calls[c] = {"op", "at", "user", "company"} /\ calls[c].company \in Nat
        /\ user \in UserRows /\ Len(rows.users) + 1 \in Nat /\ calls[c].op = "create"
    BY <1>1, <1>7 DEF CreateMemberUser, TablesOK, IdentityTables
  <2>2. CASE rows' = CreateUser(rows, user) /\ calls' = [calls EXCEPT ![c] = call]
    <3>1. CallOK(CreateUser(rows, user), call) BY <2>1
    <3>2. TablesOK(CreateUser(rows, user)) /\ Grows(rows, CreateUser(rows, user))
      BY <1>1, <2>1, WriteUser
    <3> HIDE DEF call
    <3> QED BY <2>2, <3>1, <3>2, Stepping
  <2>3. CASE Reads /\ calls' = [calls EXCEPT ![c] = Answered("create", 500)]
    <3>1. CallOK(rows, Answered("create", 500)) BY Answering
    <3> HIDE DEF CallOK, CreateOK, SessionOK, OrgOK, TelegramOK
    <3> QED BY <2>3, <3>1, Reading
  <2> QED BY <1>7, <2>2, <2>3 DEF CreateMemberUser, Store, CreateMemberResponses
<1>8. CASE CreateMemberRole(c)
  <2> DEFINE new == AddCompanyMember(rows, calls[c].company, calls[c].user, "member")
             call == [calls[c] EXCEPT !.at = "key"]
  <2>1. /\ DOMAIN calls[c] = {"op", "at", "user", "company"} /\ calls[c].op = "create"
        /\ calls[c].user \in Nat /\ calls[c].company \in Nat
    BY <1>1, <1>8 DEF CreateMemberRole
  <2>2. TablesOK(new) /\ Grows(rows, new) /\ HasMember(new, calls[c].user, calls[c].company)
    BY <1>1, <2>1, WriteMember DEF CompanyRoles
  <2>3. CallOK(new, call) BY <2>1, <2>2
  <2>4. rows' = new /\ calls' = [calls EXCEPT ![c] = call] BY <1>8 DEF CreateMemberRole, Store
  <2> HIDE DEF call
  <2> QED BY <2>2, <2>3, <2>4, Stepping
<1>9. CASE CreateMemberKey(c)
  <2> DEFINE new == SetAPIKey(rows, calls[c].user)
             call == [calls[c] EXCEPT !.at = "link"]
  <2>1. /\ DOMAIN calls[c] = {"op", "at", "user", "company"} /\ calls[c].op = "create"
        /\ calls[c].user \in Nat /\ calls[c].company \in Nat
        /\ HasMember(rows, calls[c].user, calls[c].company)
    BY <1>1, <1>9 DEF CreateMemberKey
  <2>2. TablesOK(new) /\ Grows(rows, new) BY <1>1, <2>1, WriteKey
  <2>3. HasMember(new, calls[c].user, calls[c].company) BY <2>1, <2>2 DEF HasMember, Grows
  <2>4. CallOK(new, call) BY <2>1, <2>3
  <2>5. rows' = new /\ calls' = [calls EXCEPT ![c] = call] BY <1>9 DEF CreateMemberKey, Store
  <2> HIDE DEF call
  <2> QED BY <2>2, <2>4, <2>5, Stepping
<1>10. CASE CreateMemberLink(c)
  <2> DEFINE new == CreateLinkToken(rows, calls[c].user, calls[c].company)
             call == Made("create", 201, calls[c].user, calls[c].company)
  <2>1. /\ calls[c].user \in Nat /\ calls[c].company \in Nat
        /\ HasMember(rows, calls[c].user, calls[c].company)
    BY <1>1, <1>10 DEF CreateMemberLink
  <2>2. TablesOK(new) /\ Grows(rows, new) BY <1>1, <2>1, WriteLink
  <2>3. HasMember(new, calls[c].user, calls[c].company) BY <2>1, <2>2 DEF HasMember, Grows
  <2>4. CallOK(new, call) /\ CallOK(rows, call) BY <2>1, <2>3 DEF Made
  <2>5. rows' = new \/ Reads BY <1>10 DEF CreateMemberLink, Store
  <2>6. calls' = [calls EXCEPT ![c] = call] BY <1>10 DEF CreateMemberLink, CreateMemberResponses
  <2> HIDE DEF call
  <2> HIDE DEF CallOK, CreateOK, SessionOK, OrgOK, TelegramOK
  <2> QED BY <2>2, <2>4, <2>5, <2>6, Stepping, Reading
<1>11. CASE InviteMember(c)
  <2>1. Reads BY <1>11 DEF InviteMember
  <2>2. PICK e \in Emails, claims \in Authenticated(rows) :
          \/ calls' = [calls EXCEPT ![c] = Answered("invite", 404)]
          \/ \E u \in GetUserByEmail(rows, e) :
                calls' = [calls EXCEPT ![c] = [op |-> "invite", at |-> "member", user |-> u,
                                               company |-> claims.company]]
    BY <1>11 DEF InviteMember, InviteResponses
  <2>3. claims.company \in Nat BY <1>1, ClaimsTyped
  <2>4. ASSUME NEW u \in GetUserByEmail(rows, e)
        PROVE  CallOK(rows, [op |-> "invite", at |-> "member", user |-> u,
                             company |-> claims.company])
    BY <1>1, <2>3 DEF GetUserByEmail, Ids, TablesOK, IdentityTables
  <2>5. CallOK(rows, Answered("invite", 404)) BY Answering
  <2> HIDE DEF CallOK, CreateOK, SessionOK, OrgOK, TelegramOK
  <2> QED BY <2>1, <2>2, <2>4, <2>5, Reading
<1>12. CASE InviteAdds(c)
  <2> DEFINE new == AddCompanyMember(rows, calls[c].company, calls[c].user, "viewer")
             call == Made("invite", 201, calls[c].user, calls[c].company)
  <2>1. calls[c].user \in Nat /\ calls[c].company \in Nat BY <1>1, <1>12 DEF InviteAdds
  <2>2. TablesOK(new) /\ Grows(rows, new) /\ HasMember(new, calls[c].user, calls[c].company)
    BY <1>1, <2>1, WriteMember DEF CompanyRoles
  <2>3. CallOK(new, call) BY <2>2 DEF Made
  <2>4. rows' = new /\ calls' = [calls EXCEPT ![c] = call]
    BY <1>12 DEF InviteAdds, Store, InviteResponses
  <2> HIDE DEF call
  <2> QED BY <2>2, <2>3, <2>4, Stepping
<1> QED BY <1>2, <1>3, <1>4, <1>5, <1>6, <1>7, <1>8, <1>9, <1>10, <1>11, <1>12
LEMMA SessionSteps ==
    ASSUME IdentityInv, NEW c \in Callers,
           \/ Login(c) \/ LoginRole(c) \/ RefreshToken(c) \/ RefreshRevokes(c) \/ RefreshIssues(c)
           \/ Logout(c) \/ SwitchCompany(c) \/ GenerateAPIKey(c)
           \/ SSOLogin(c) \/ SSOUser(c) \/ SSOMember(c) \/ SSOIssues(c)
    PROVE  Step(c)
<1> USE DEF CallOK, CreateOK, SessionOK, OrgOK, TelegramOK, AnswerAtOnce, Begin, Continue, Answer, At
<1>1. TablesOK(rows) /\ CallOK(rows, calls[c]) BY DEF IdentityInv
<1>2. \A u \in Ids(rows.users) : u \in Nat BY <1>1 DEF Ids, TablesOK, IdentityTables
<1>3. CASE Login(c)
  <2>1. Reads BY <1>3 DEF Login
  <2>2. CallOK(rows, Answered("login", 401)) /\ CallOK(rows, Answered("login", 500)) BY Answering
  <2>3. PICK u \in Ids(rows.users) :
          \/ calls' = [calls EXCEPT ![c] = Answered("login", 401)]
          \/ calls' = [calls EXCEPT ![c] = Answered("login", 500)]
          \/ /\ CompaniesOf(rows, u) # {}
             /\ calls' = [calls EXCEPT ![c] = [op |-> "login", at |-> "role", user |-> u,
                                               company |-> Max(CompaniesOf(rows, u))]]
    BY <1>3 DEF Login, LoginResponses
  <2>4. ASSUME CompaniesOf(rows, u) # {} PROVE Max(CompaniesOf(rows, u)) \in Nat
    <3>1. rows.companies \in Seq(CompanyRows) BY <1>1 DEF TablesOK, IdentityTables
    <3>2. CompaniesOf(rows, u) \in SUBSET (1..Len(rows.companies)) /\ Len(rows.companies) \in Nat
      BY <3>1 DEF CompaniesOf, Ids
    <3>3. Max(CompaniesOf(rows, u)) \in CompaniesOf(rows, u) BY <2>4, <3>2, MaxIsThere
    <3> QED BY <3>2, <3>3
  <2>5. ASSUME CompaniesOf(rows, u) # {}
        PROVE  CallOK(rows, [op |-> "login", at |-> "role", user |-> u,
                             company |-> Max(CompaniesOf(rows, u))])
    BY <1>2, <2>4, <2>5
  <2> HIDE DEF CallOK, CreateOK, SessionOK, OrgOK, TelegramOK
  <2> QED BY <2>1, <2>2, <2>3, <2>5, Reading
<1>4. CASE LoginRole(c)
  <2>0. PICK effective \in {GetEffectiveRole(rows, calls[c].company, calls[c].user), "none"} :
          rows' = IssuePair(rows, calls[c].user, calls[c].company,
                            IF effective = "none" THEN "company_admin" ELSE effective)
    BY <1>4 DEF LoginRole, Store
  <2> DEFINE role == IF effective = "none" THEN "company_admin" ELSE effective
             new == IssuePair(rows, calls[c].user, calls[c].company, role)
             call == Answered("login", 200)
  <2>1. calls[c].user \in Nat /\ calls[c].company \in Nat /\ calls[c].op = "login"
    BY <1>1, <1>4 DEF LoginRole
  <2>2. effective \in CompanyRoles \cup {"none"} BY <1>1, RoleTyped
  <2>3. role \in CompanyRoles BY <2>2 DEF CompanyRoles
  <2>4. rows' = new /\ calls' = [calls EXCEPT ![c] = call]
    BY <1>4, <2>0 DEF LoginRole, LoginResponses
  <2> HIDE DEF role
  <2>5. TablesOK(new) /\ Grows(rows, new) BY <1>1, <2>1, <2>3, WritePair
  <2>6. CallOK(new, call) BY DEF Answered
  <2> HIDE DEF call, new
  <2> QED BY <2>4, <2>5, <2>6, Stepping
<1>5. CASE RefreshToken(c)
  <2>1. Reads BY <1>5 DEF RefreshToken
  <2>2. CallOK(rows, Answered("refresh", 401)) BY Answering
  <2>3. PICK pair \in Ids(rows.pairs), looked \in BOOLEAN :
          \/ calls' = [calls EXCEPT ![c] = Answered("refresh", 401)]
          \/ /\ ~(looked /\ IsTokenRevoked(rows, pair))
             /\ calls' = [calls EXCEPT ![c] =
                            [op |-> "refresh", at |-> "revoke", pair |-> pair,
                             late |-> IsTokenRevoked(rows, pair), looked |-> looked]]
    BY <1>5 DEF RefreshToken, RefreshResponses
  <2>4. ASSUME ~(looked /\ IsTokenRevoked(rows, pair))
        PROVE  CallOK(rows, [op |-> "refresh", at |-> "revoke", pair |-> pair,
                             late |-> IsTokenRevoked(rows, pair), looked |-> looked])
    BY <2>4
  <2> HIDE DEF CallOK, CreateOK, SessionOK, OrgOK, TelegramOK
  <2> QED BY <2>1, <2>2, <2>3, <2>4, Reading
<1>6. CASE RefreshRevokes(c)
  <2> DEFINE new == CreateRevokedToken(rows, calls[c].pair)
             call == [calls[c] EXCEPT !.at = "issue"]
  <2>1. /\ DOMAIN calls[c] = {"op", "at", "pair", "late", "looked"} /\ calls[c].op = "refresh"
        /\ calls[c].pair \in Ids(rows.pairs) /\ ~(calls[c].looked /\ calls[c].late)
    BY <1>1, <1>6 DEF RefreshRevokes
  <2>2. TablesOK(new) /\ Grows(rows, new) BY <1>1, <2>1, WriteRevoked
  <2>3. CallOK(rows, call) BY <2>1
  <2>4. calls[c].pair \in Ids(new.pairs) BY <2>1, <2>2 DEF Grows
  <2>5. CallOK(new, call) BY <2>1, <2>4
  <2>6. (rows' = new \/ Reads) /\ calls' = [calls EXCEPT ![c] = call]
    BY <1>6 DEF RefreshRevokes, Store
  <2> HIDE DEF call, new
  <2> HIDE DEF CallOK, CreateOK, SessionOK, OrgOK, TelegramOK
  <2> QED BY <2>2, <2>3, <2>5, <2>6, Stepping, Reading
<1>7. CASE RefreshIssues(c)
  <2> DEFINE claims == rows.pairs[calls[c].pair]
             new == IssuePair(rows, claims.user, claims.company, claims.role)
             call == [op |-> "refresh", at |-> "answered", status |-> 200,
                      late |-> calls[c].late, looked |-> calls[c].looked]
  <2>1. calls[c].pair \in Ids(rows.pairs) /\ ~(calls[c].looked /\ calls[c].late)
    BY <1>1, <1>7 DEF RefreshIssues
  <2>2. rows.pairs \in Seq(MemberRows) BY <1>1 DEF TablesOK, IdentityTables
  <2>3. claims \in MemberRows BY <2>1, <2>2 DEF Ids
  <2>4. claims.user \in Nat /\ claims.company \in Nat /\ claims.role \in CompanyRoles
    BY <2>3 DEF MemberRows
  <2>5. TablesOK(new) /\ Grows(rows, new) BY <1>1, <2>4, WritePair
  <2>6. CallOK(new, call) BY <2>1
  <2>7. rows' = new /\ calls' = [calls EXCEPT ![c] = call]
    BY <1>7 DEF RefreshIssues, Store, RefreshResponses
  <2> HIDE DEF call, new
  <2> QED BY <2>5, <2>6, <2>7, Stepping
<1>8. CASE Logout(c)
  <2>1. PICK pair \in Ids(rows.pairs) :
          /\ rows' = CreateRevokedToken(rows, pair) \/ Reads
          /\ calls' = [calls EXCEPT ![c] = Answered("logout", 200)]
    BY <1>8 DEF Logout, Store
  <2> DEFINE new == CreateRevokedToken(rows, pair)
             call == Answered("logout", 200)
  <2>2. TablesOK(new) /\ Grows(rows, new) BY <1>1, WriteRevoked
  <2>3. CallOK(new, call) /\ CallOK(rows, call) BY DEF Answered
  <2> HIDE DEF call, new
  <2>4. (rows' = new \/ Reads) /\ calls' = [calls EXCEPT ![c] = call] BY <2>1 DEF call, new
  <2> HIDE DEF CallOK, CreateOK, SessionOK, OrgOK, TelegramOK
  <2> QED BY <2>2, <2>3, <2>4, Stepping, Reading
<1>9. CASE SwitchCompany(c)
  <2>1. PICK claims \in Authenticated(rows), company \in Ids(rows.companies) :
          LET role == GetEffectiveRole(rows, company, claims.user)
          IN  \/ Reads /\ calls' = [calls EXCEPT ![c] = Answered("switch", 403)]
              \/ /\ role # "none" /\ rows' = IssuePair(rows, claims.user, company, role)
                 /\ calls' = [calls EXCEPT ![c] = Answered("switch", 200)]
    BY <1>9 DEF SwitchCompany, Store, SwitchResponses
  <2> DEFINE role == GetEffectiveRole(rows, company, claims.user)
             new == IssuePair(rows, claims.user, company, role)
             refused == Answered("switch", 403)
             done == Answered("switch", 200)
  <2>2. CallOK(rows, refused) /\ CallOK(new, done) BY DEF Answered
  <2>3. claims.user \in Nat BY <1>1, ClaimsTyped
  <2>4. company \in Nat BY <1>1 DEF Ids, TablesOK, IdentityTables
  <2>5. role \in CompanyRoles \cup {"none"} BY <1>1, RoleTyped
  <2>6. role # "none" => TablesOK(new) /\ Grows(rows, new) BY <1>1, <2>3, <2>4, <2>5, WritePair
  <2>7. \/ Reads /\ calls' = [calls EXCEPT ![c] = refused]
        \/ role # "none" /\ rows' = new /\ calls' = [calls EXCEPT ![c] = done]
    BY <2>1
  <2> HIDE DEF new, refused, done, role
  <2> HIDE DEF CallOK, CreateOK, SessionOK, OrgOK, TelegramOK
  <2> QED BY <2>2, <2>6, <2>7, Stepping, Reading
<1>10. CASE GenerateAPIKey(c)
  <2>1. PICK claims \in Authenticated(rows) :
          /\ rows' = SetAPIKey(rows, claims.user)
          /\ calls' = [calls EXCEPT ![c] = Answered("key", 200)]
    BY <1>10 DEF GenerateAPIKey, Store
  <2> DEFINE new == SetAPIKey(rows, claims.user)
             call == Answered("key", 200)
  <2>2. CallOK(new, call) BY DEF Answered
  <2>3. claims.user \in Nat BY <1>1, ClaimsTyped
  <2>4. TablesOK(new) /\ Grows(rows, new) BY <1>1, <2>3, WriteKey
  <2>5. rows' = new /\ calls' = [calls EXCEPT ![c] = call] BY <2>1
  <2> HIDE DEF new, call
  <2> QED BY <2>2, <2>4, <2>5, Stepping
<1>11. CASE SSOLogin(c)
  <2>1. Reads BY <1>11 DEF SSOLogin
  <2>2. CallOK(rows, Answered("sso", 404)) BY Answering
  <2>3. PICK e \in Emails :
          \/ calls' = [calls EXCEPT ![c] = Answered("sso", 404)]
          \/ calls' = [calls EXCEPT ![c] = [op |-> "sso", at |-> "user", email |-> e]]
          \/ \E u \in GetUserByEmail(rows, e) :
                calls' = [calls EXCEPT ![c] = [op |-> "sso", at |-> "issue", user |-> u]]
    BY <1>11 DEF SSOLogin, SSOResponses, Found
  <2>4. CallOK(rows, [op |-> "sso", at |-> "user", email |-> e]) BY IdentityAssumption
  <2>5. ASSUME NEW u \in GetUserByEmail(rows, e)
        PROVE  CallOK(rows, [op |-> "sso", at |-> "issue", user |-> u])
    BY <1>2 DEF GetUserByEmail
  <2> HIDE DEF CallOK, CreateOK, SessionOK, OrgOK, TelegramOK
  <2> QED BY <2>1, <2>2, <2>3, <2>4, <2>5, Reading
<1>12. CASE SSOUser(c)
  <2> DEFINE user == User(calls[c].email, "")
             new == CreateUser(rows, user)
             call == [op |-> "sso", at |-> "member", user |-> Len(rows.users) + 1]
             failed == Answered("sso", 401)
  <2>1. calls[c].email \in STRING /\ calls[c].op = "sso" BY <1>1, <1>12 DEF SSOUser
  <2>2. Len(rows.users) + 1 \in Nat BY <1>1 DEF TablesOK, IdentityTables
  <2>3. user \in UserRows BY <2>1 DEF User, UserRows
  <2>4. CallOK(new, call) /\ CallOK(rows, failed) BY <2>2 DEF Answered
  <2>5. TablesOK(new) /\ Grows(rows, new) BY <1>1, <2>3, WriteUser
  <2>6. \/ rows' = new /\ calls' = [calls EXCEPT ![c] = call]
        \/ Reads /\ calls' = [calls EXCEPT ![c] = failed]
    BY <1>12, <2>1 DEF SSOUser, Store, SSOResponses
  <2> HIDE DEF new, call, failed
  <2> HIDE DEF CallOK, CreateOK, SessionOK, OrgOK, TelegramOK
  <2> QED BY <2>4, <2>5, <2>6, Stepping, Reading
<1>13. CASE SSOMember(c)
  <2> DEFINE new == AddCompanyMember(rows, 1, calls[c].user, "member")
             call == [calls[c] EXCEPT !.at = "issue"]
  <2>1. DOMAIN calls[c] = {"op", "at", "user"} /\ calls[c].op = "sso" /\ calls[c].user \in Nat
    BY <1>1, <1>13 DEF SSOMember
  <2>2. TablesOK(new) /\ Grows(rows, new) BY <1>1, <2>1, WriteMember DEF CompanyRoles
  <2>3. CallOK(new, call) /\ CallOK(rows, call) BY <2>1
  <2>4. (rows' = new \/ Reads) /\ calls' = [calls EXCEPT ![c] = call] BY <1>13 DEF SSOMember, Store
  <2> HIDE DEF new, call
  <2> HIDE DEF CallOK, CreateOK, SessionOK, OrgOK, TelegramOK
  <2> QED BY <2>2, <2>3, <2>4, Stepping, Reading
<1>14. CASE SSOIssues(c)
  <2>0. PICK effective \in {GetEffectiveRole(rows, 1, calls[c].user), "none"} :
          rows' = IssuePair(rows, calls[c].user, 1,
                            IF effective = "none" THEN "member" ELSE effective)
    BY <1>14 DEF SSOIssues, Store
  <2> DEFINE role == IF effective = "none" THEN "member" ELSE effective
             new == IssuePair(rows, calls[c].user, 1, role)
             call == Answered("sso", 200)
  <2>1. calls[c].user \in Nat /\ calls[c].op = "sso" BY <1>1, <1>14 DEF SSOIssues
  <2>2. effective \in CompanyRoles \cup {"none"} BY <1>1, RoleTyped
  <2>3. role \in CompanyRoles BY <2>2 DEF CompanyRoles
  <2>4. rows' = new /\ calls' = [calls EXCEPT ![c] = call]
    BY <1>14, <2>0 DEF SSOIssues, SSOResponses
  <2> HIDE DEF role
  <2>5. TablesOK(new) /\ Grows(rows, new) BY <1>1, <2>1, <2>3, WritePair
  <2>6. CallOK(new, call) BY DEF Answered
  <2> HIDE DEF call, new
  <2> QED BY <2>4, <2>5, <2>6, Stepping
<1> QED BY <1>3, <1>4, <1>5, <1>6, <1>7, <1>8, <1>9, <1>10, <1>11, <1>12, <1>13, <1>14
LEMMA OrganizationSteps ==
    ASSUME IdentityInv, NEW c \in Callers,
           \/ OrgCreate(c) \/ OrgInsert(c) \/ OrgOwner(c) \/ OrgUpdate(c) \/ OrgUpdateWrites(c)
           \/ OrgAddMember(c) \/ OrgAddMemberInserts(c)
           \/ OrgUpdateMemberRole(c) \/ OrgRemoveMember(c)
           \/ CompanyCreate(c) \/ CompanyInsert(c) \/ CompanyUpdate(c) \/ CompanyUpdateWrites(c)
    PROVE  Step(c)
<1> USE DEF CallOK, CreateOK, SessionOK, OrgOK, TelegramOK, AnswerAtOnce, Begin, Continue, Answer, At
<1>1. TablesOK(rows) /\ CallOK(rows, calls[c]) BY DEF IdentityInv
<1>2. /\ \A u \in Ids(rows.users) : u \in Nat
      /\ \A o \in Ids(rows.orgs) : o \in Nat
      /\ rows.orgMembers \in SUBSET OrgMemberRows /\ IsFiniteSet(rows.orgMembers)
      /\ \A m \in rows.orgMembers : m.org \in Ids(rows.orgs)
  BY <1>1 DEF Ids, TablesOK, IdentityTables
<1>3. CASE OrgCreate(c)
  <2>1. Reads BY <1>3 DEF OrgCreate
  <2>2. CallOK(rows, Answered("org", 500)) BY Answering
  <2>3. PICK claims \in Authenticated(rows), slug \in Slugs :
          \/ calls' = [calls EXCEPT ![c] = Answered("org", 500)]
          \/ calls' = [calls EXCEPT ![c] = [op |-> "org", at |-> "insert", slug |-> slug,
                                           user |-> claims.user]]
    BY <1>3 DEF OrgCreate, OrgCreateResponses
  <2>4. claims.user \in Nat BY <1>1, ClaimsTyped
  <2>5. CallOK(rows, [op |-> "org", at |-> "insert", slug |-> slug, user |-> claims.user])
    BY <2>4, IdentityAssumption
  <2> HIDE DEF CallOK, CreateOK, SessionOK, OrgOK, TelegramOK
  <2> QED BY <2>1, <2>2, <2>3, <2>5, Reading
<1>4. CASE OrgInsert(c)
  <2> DEFINE new == CreateOrganization(rows, calls[c].slug)
             call == [op |-> "org", at |-> "owner", user |-> calls[c].user,
                      org |-> Len(rows.orgs) + 1]
             failed == Answered("org", 500)
  <2>1. calls[c].slug \in STRING /\ calls[c].user \in Nat /\ calls[c].op = "org"
    BY <1>1, <1>4 DEF OrgInsert
  <2>2. TablesOK(new) /\ Grows(rows, new) /\ Ids(new.orgs) = 1..(Len(rows.orgs) + 1)
    BY <1>1, <2>1, WriteOrganization
  <2>3. Len(rows.orgs) \in Nat BY <1>1 DEF TablesOK, IdentityTables
  <2>4. Len(rows.orgs) + 1 \in Ids(new.orgs) BY <2>2, <2>3
  <2>5. CallOK(new, call) BY <2>1, <2>4
  <2>6. CallOK(rows, failed) BY Answering
  <2>7. \/ rows' = new /\ calls' = [calls EXCEPT ![c] = call]
        \/ Reads /\ calls' = [calls EXCEPT ![c] = failed]
    BY <1>4, <2>1 DEF OrgInsert, Store, OrgCreateResponses
  <2> HIDE DEF new, call, failed
  <2> HIDE DEF CallOK, CreateOK, SessionOK, OrgOK, TelegramOK
  <2> QED BY <2>2, <2>5, <2>6, <2>7, Stepping, Reading
<1>5. ASSUME NEW org \in Ids(rows.orgs), NEW u \in Nat, NEW role \in DOMAIN OrgLevel
      PROVE  LET new == AddOrgMember(rows, org, u, role) IN TablesOK(new) /\ Grows(rows, new)
  <2>1. CASE AddOrgMember(rows, org, u, role) = rows BY <1>1, <2>1 DEF Grows
  <2> DEFINE row == [org |-> org, user |-> u, role |-> role]
             some == rows.orgMembers \cup {row}
  <2>2. CASE AddOrgMember(rows, org, u, role) = [rows EXCEPT !.orgMembers = some]
    <3>1. some \in SUBSET OrgMemberRows /\ \A m \in some : m.org \in Ids(rows.orgs)
      BY <1>2, <1>5 DEF OrgMemberRows
    <3>2. IsFiniteSet(some) BY <1>2, FS_AddElement
    <3> HIDE DEF some
    <3> QED BY <1>1, <2>2, <3>1, <3>2, WriteOrgMembers
  <2> QED BY <2>1, <2>2 DEF AddOrgMember
<1>6. CASE OrgOwner(c)
  <2> DEFINE new == AddOrgMember(rows, calls[c].org, calls[c].user, "org_owner")
             call == Answered("org", 201)
  <2>1. calls[c].user \in Nat /\ calls[c].org \in Ids(rows.orgs) /\ calls[c].op = "org"
    BY <1>1, <1>6 DEF OrgOwner
  <2>2. "org_owner" \in DOMAIN OrgLevel BY DEF OrgLevel
  <2>3. TablesOK(new) /\ Grows(rows, new) BY <1>5, <2>1, <2>2
  <2>4. CallOK(new, call) BY DEF Answered
  <2>5. rows' = new /\ calls' = [calls EXCEPT ![c] = call]
    BY <1>6, <2>1 DEF OrgOwner, Store, OrgCreateResponses
  <2> HIDE DEF new, call
  <2> QED BY <2>3, <2>4, <2>5, Stepping
<1>7. CASE OrgUpdate(c)
  <2>1. Reads BY <1>7 DEF OrgUpdate
  <2>2. CallOK(rows, Answered("reslug", 500)) BY Answering
  <2>3. PICK org \in Ids(rows.orgs), slug \in Slugs :
          \/ calls' = [calls EXCEPT ![c] = Answered("reslug", 500)]
          \/ calls' = [calls EXCEPT ![c] = [op |-> "reslug", at |-> "write", org |-> org,
                                           slug |-> slug]]
    BY <1>7 DEF OrgUpdate, OrgUpdateResponses
  <2>4. CallOK(rows, [op |-> "reslug", at |-> "write", org |-> org, slug |-> slug])
    BY IdentityAssumption
  <2> HIDE DEF CallOK, CreateOK, SessionOK, OrgOK, TelegramOK
  <2> QED BY <2>1, <2>2, <2>3, <2>4, Reading
<1>8. CASE OrgUpdateWrites(c)
  <2> DEFINE new == UpdateOrganization(rows, calls[c].org, calls[c].slug)
             call == Answered("reslug", 200)
             failed == Answered("reslug", 500)
  <2>1. calls[c].slug \in STRING /\ calls[c].org \in Ids(rows.orgs) /\ calls[c].op = "reslug"
    BY <1>1, <1>8 DEF OrgUpdateWrites
  <2>2. TablesOK(new) /\ Grows(rows, new) BY <1>1, <2>1, WriteSlug
  <2>3. CallOK(new, call) /\ CallOK(rows, failed) BY DEF Answered
  <2>4. \/ rows' = new /\ calls' = [calls EXCEPT ![c] = call]
        \/ Reads /\ calls' = [calls EXCEPT ![c] = failed]
    BY <1>8, <2>1 DEF OrgUpdateWrites, Store, OrgUpdateResponses
  <2> HIDE DEF new, call, failed
  <2> HIDE DEF CallOK, CreateOK, SessionOK, OrgOK, TelegramOK
  <2> QED BY <2>2, <2>3, <2>4, Stepping, Reading
<1>9. CASE OrgAddMember(c)
  <2>1. Reads BY <1>9 DEF OrgAddMember
  <2>2. CallOK(rows, Answered("join", 500)) BY Answering
  <2>3. PICK org \in Ids(rows.orgs), u \in Ids(rows.users) :
          \/ calls' = [calls EXCEPT ![c] = Answered("join", 500)]
          \/ \E role \in {"org_admin", "org_member"} :
                calls' = [calls EXCEPT ![c] = [op |-> "join", at |-> "insert", org |-> org,
                                               user |-> u, role |-> role]]
    BY <1>9 DEF OrgAddMember, OrgMemberResponses
  <2>4. ASSUME NEW role \in {"org_admin", "org_member"}
        PROVE  CallOK(rows, [op |-> "join", at |-> "insert", org |-> org, user |-> u,
                             role |-> role])
    BY <1>2 DEF OrgLevel
  <2> HIDE DEF CallOK, CreateOK, SessionOK, OrgOK, TelegramOK
  <2> QED BY <2>1, <2>2, <2>3, <2>4, Reading
<1>10. CASE OrgAddMemberInserts(c)
  <2> DEFINE new == AddOrgMember(rows, calls[c].org, calls[c].user, calls[c].role)
             call == Answered("join", 201)
  <2>1. /\ calls[c].user \in Nat /\ calls[c].org \in Ids(rows.orgs) /\ calls[c].op = "join"
        /\ calls[c].role \in DOMAIN OrgLevel
    BY <1>1, <1>10 DEF OrgAddMemberInserts
  <2>2. TablesOK(new) /\ Grows(rows, new) BY <1>5, <2>1
  <2>3. CallOK(new, call) BY DEF Answered
  <2>4. rows' = new /\ calls' = [calls EXCEPT ![c] = call]
    BY <1>10, <2>1 DEF OrgAddMemberInserts, Store, OrgMemberResponses
  <2> HIDE DEF new, call
  <2> QED BY <2>2, <2>3, <2>4, Stepping
<1>11. CASE OrgUpdateMemberRole(c)
  <2>1. PICK org \in Ids(rows.orgs), u \in Ids(rows.users) :
          /\ rows' = UpdateOrgMemberRole(rows, org, u, "org_member")
          /\ calls' = [calls EXCEPT ![c] = Answered("role", 200)]
    BY <1>11 DEF OrgUpdateMemberRole, Store, OrgRoleResponses
  <2> DEFINE some == {IF m.org = org /\ m.user = u THEN [m EXCEPT !.role = "org_member"] ELSE m :
                        m \in rows.orgMembers}
             new == [rows EXCEPT !.orgMembers = some]
             call == Answered("role", 200)
  <2>2. \A m \in OrgMemberRows : [m EXCEPT !.role = "org_member"] \in OrgMemberRows
    BY DEF OrgMemberRows, OrgLevel
  <2>3. \A m \in OrgMemberRows : [m EXCEPT !.role = "org_member"].org = m.org BY DEF OrgMemberRows
  <2>4. some \in SUBSET OrgMemberRows /\ \A m \in some : m.org \in Ids(rows.orgs)
    BY <1>2, <2>2, <2>3
  <2>9. some = Reroled(rows.orgMembers, org, u, "org_member") BY DEF Reroled
  <2>5. IsFiniteSet(some)
    <3>1. IsFiniteSet(rows.orgMembers) BY <1>2
    <3>2. IsFiniteSet(Reroled(rows.orgMembers, org, u, "org_member")) BY ONLY <3>1, ImageOfFinite
    <3> HIDE DEF some
    <3> QED BY ONLY <2>9, <3>2
  <2>6. TablesOK(new) /\ Grows(rows, new) BY <1>1, <2>4, <2>5, WriteOrgMembers
  <2>7. CallOK(new, call) BY DEF Answered
  <2>8. rows' = new /\ calls' = [calls EXCEPT ![c] = call] BY <2>1 DEF UpdateOrgMemberRole
  <2> HIDE DEF new, call
  <2> QED BY <2>6, <2>7, <2>8, Stepping
<1>12. CASE OrgRemoveMember(c)
  <2>1. PICK org \in Ids(rows.orgs), u \in Ids(rows.users) :
          /\ rows' = RemoveOrgMember(rows, org, u)
          /\ calls' = [calls EXCEPT ![c] = Answered("leave", 200)]
    BY <1>12 DEF OrgRemoveMember, Store, OrgRemoveResponses
  <2> DEFINE some == {m \in rows.orgMembers : ~(m.org = org /\ m.user = u)}
             new == [rows EXCEPT !.orgMembers = some]
             call == Answered("leave", 200)
  <2>2. some \in SUBSET OrgMemberRows /\ \A m \in some : m.org \in Ids(rows.orgs) BY <1>2
  <2>3. IsFiniteSet(some) BY <1>2, FS_Subset
  <2>4. TablesOK(new) /\ Grows(rows, new) BY <1>1, <2>2, <2>3, WriteOrgMembers
  <2>5. CallOK(new, call) BY DEF Answered
  <2>6. rows' = new /\ calls' = [calls EXCEPT ![c] = call] BY <2>1 DEF RemoveOrgMember
  <2> HIDE DEF new, call
  <2> QED BY <2>4, <2>5, <2>6, Stepping
<1>13. CASE CompanyCreate(c)
  <2>1. Reads BY <1>13 DEF CompanyCreate
  <2>2. CallOK(rows, Answered("company", 500)) BY Answering
  <2>3. PICK org \in Ids(rows.orgs), counted \in BOOLEAN :
          \/ calls' = [calls EXCEPT ![c] = Answered("company", 500)]
          \/ calls' = [calls EXCEPT ![c] = [op |-> "company", at |-> "insert", org |-> org,
                                            counted |-> counted]]
    BY <1>13 DEF CompanyCreate, CompanyResponses
  <2>4. CallOK(rows, [op |-> "company", at |-> "insert", org |-> org, counted |-> counted]) OBVIOUS
  <2> HIDE DEF CallOK, CreateOK, SessionOK, OrgOK, TelegramOK
  <2> QED BY <2>1, <2>2, <2>3, <2>4, Reading
<1>14. CASE CompanyInsert(c)
  <2> DEFINE new == CreateCompany(rows, calls[c].org, calls[c].counted)
             call == Answered("company", 201)
  <2>1. calls[c].org \in Ids(rows.orgs) /\ calls[c].op = "company" /\ calls[c].counted \in BOOLEAN
    BY <1>1, <1>14 DEF CompanyInsert
  <2>2. TablesOK(new) /\ Grows(rows, new) BY <1>1, <1>2, <2>1, WriteCompany
  <2>3. CallOK(new, call) BY DEF Answered
  <2>4. rows' = new /\ calls' = [calls EXCEPT ![c] = call]
    BY <1>14, <2>1 DEF CompanyInsert, Store, CompanyResponses
  <2> HIDE DEF new, call
  <2> QED BY <2>2, <2>3, <2>4, Stepping
<1>15. CASE CompanyUpdate(c)
  <2>1. Reads BY <1>15 DEF CompanyUpdate
  <2>2. PICK company \in Ids(rows.companies), given \in {0, 1} : calls' = [calls EXCEPT ![c] =
                      [op |-> "update", at |-> "write", company |-> company,
                       tin |-> IF given = 0 THEN rows.companies[company].tin ELSE given]]
    BY <1>15 DEF CompanyUpdate
  <2> DEFINE tin == IF given = 0 THEN rows.companies[company].tin ELSE given
             call == [op |-> "update", at |-> "write", company |-> company, tin |-> tin]
  <2>3. rows.companies \in Seq(CompanyRows) BY <1>1 DEF TablesOK, IdentityTables
  <2>4. rows.companies[company] \in CompanyRows BY <2>3 DEF Ids
  <2>5. tin \in Nat BY <2>4 DEF CompanyRows
  <2> HIDE DEF tin
  <2>6. CallOK(rows, call) BY <2>5
  <2>7. calls' = [calls EXCEPT ![c] = call] BY <2>2 DEF tin
  <2> HIDE DEF call
  <2> HIDE DEF CallOK, CreateOK, SessionOK, OrgOK, TelegramOK
  <2> QED BY <2>1, <2>6, <2>7, Reading
<1>16. CASE CompanyUpdateWrites(c)
  <2> DEFINE new == UpdateCompany(rows, calls[c].company, calls[c].tin)
             call == Answered("update", 200)
  <2>1. calls[c].company \in Ids(rows.companies) /\ calls[c].tin \in Nat /\ calls[c].op = "update"
    BY <1>1, <1>16 DEF CompanyUpdateWrites
  <2>2. TablesOK(new) /\ Grows(rows, new) BY <1>1, <2>1, WriteTIN
  <2>3. CallOK(new, call) BY DEF Answered
  <2>4. rows' = new /\ calls' = [calls EXCEPT ![c] = call]
    BY <1>16, <2>1 DEF CompanyUpdateWrites, Store, CompanyUpdateResponses
  <2> HIDE DEF new, call
  <2> QED BY <2>2, <2>3, <2>4, Stepping
<1> QED BY <1>3, <1>4, <1>6, <1>7, <1>8, <1>9, <1>10, <1>11, <1>12, <1>13, <1>14, <1>15, <1>16

LEMMA TelegramSteps ==
    ASSUME IdentityInv, NEW c \in Callers,
           \/ DeepLink(c) \/ DeepLinkMarks(c) \/ DeepLinks(c)
           \/ LinkByKey(c) \/ AutoLink(c) \/ LinkUpserts(c) \/ IdentityFails(c)
    PROVE  Step(c)
<1> USE DEF CallOK, CreateOK, SessionOK, OrgOK, TelegramOK, AnswerAtOnce, Begin, Continue, Answer, At
<1>1. TablesOK(rows) /\ CallOK(rows, calls[c]) BY DEF IdentityInv
<1>2. rows.links \in Seq(LinkRows) /\ \A u \in Ids(rows.users) : u \in Nat
  BY <1>1 DEF Ids, TablesOK, IdentityTables
<1>3. CASE DeepLink(c)
  <2>1. Reads BY <1>3 DEF DeepLink
  <2>2. CallOK(rows, Answered("start", 404)) BY Answering
  <2>3. PICK t \in TelegramIds, l \in Ids(rows.links) :
          \/ calls' = [calls EXCEPT ![c] = Answered("start", 404)]
          \/ calls' = [calls EXCEPT ![c] = [op |-> "start", at |-> "mark", link |-> l,
                                           telegram |-> t]]
    BY <1>3 DEF DeepLink
  <2>4. CallOK(rows, [op |-> "start", at |-> "mark", link |-> l, telegram |-> t]) OBVIOUS
  <2> HIDE DEF CallOK, CreateOK, SessionOK, OrgOK, TelegramOK
  <2> QED BY <2>1, <2>2, <2>3, <2>4, Reading
<1>4. CASE DeepLinkMarks(c)
  <2> DEFINE new == MarkLinkTokenUsed(rows, calls[c].link)
             call == [calls[c] EXCEPT !.at = "link"]
  <2>1. /\ DOMAIN calls[c] = {"op", "at", "link", "telegram"} /\ calls[c].op = "start"
        /\ calls[c].link \in Ids(rows.links) /\ calls[c].telegram \in TelegramIds
    BY <1>1, <1>4 DEF DeepLinkMarks
  <2>2. TablesOK(new) /\ Grows(rows, new) BY <1>1, <2>1, WriteMark
  <2>3. calls[c].link \in Ids(new.links) BY <2>1, <2>2 DEF Grows
  <2>4. CallOK(new, call) /\ CallOK(rows, call) BY <2>1, <2>3
  <2>5. (rows' = new \/ Reads) /\ calls' = [calls EXCEPT ![c] = call]
    BY <1>4 DEF DeepLinkMarks, Store
  <2> HIDE DEF new, call
  <2> HIDE DEF CallOK, CreateOK, SessionOK, OrgOK, TelegramOK
  <2> QED BY <2>2, <2>4, <2>5, Stepping, Reading
<1>5. CASE DeepLinks(c)
  <2> DEFINE l == rows.links[calls[c].link]
             new == UpsertTelegramUser(rows, calls[c].telegram, l.user, l.company)
             call == Answered("start", 200)
  <2>1. /\ calls[c].link \in Ids(rows.links) /\ calls[c].telegram \in TelegramIds
        /\ calls[c].op = "start"
    BY <1>1, <1>5 DEF DeepLinks
  <2>2. l \in LinkRows /\ HasMember(rows, l.user, l.company)
    BY <1>1, <1>2, <2>1 DEF Ids, TablesOK, LinksNameMembers
  <2>3. l.user \in Nat /\ l.company \in Nat BY <2>2 DEF LinkRows
  <2>4. TablesOK(new) /\ Grows(rows, new) BY <1>1, <2>1, <2>2, <2>3, WriteAccount
  <2>5. CallOK(new, call) BY DEF Answered
  <2>6. rows' = new /\ calls' = [calls EXCEPT ![c] = call] BY <1>5, <2>1 DEF DeepLinks, Store
  <2> HIDE DEF new, call
  <2> QED BY <2>4, <2>5, <2>6, Stepping
<1>6. CASE LinkByKey(c)
  <2>1. Reads BY <1>6 DEF LinkByKey
  <2>2. CallOK(rows, Answered("link", 404)) BY Answering
  <2>3. PICK t \in TelegramIds, u \in Ids(rows.users) :
          \/ calls' = [calls EXCEPT ![c] = Answered("link", 404)]
          \/ /\ GetFirstCompanyByUser(rows, u) # 0
             /\ calls' = [calls EXCEPT ![c] =
                            [op |-> "link", at |-> "upsert", telegram |-> t, user |-> u,
                             company |-> GetFirstCompanyByUser(rows, u)]]
    BY <1>6 DEF LinkByKey
  <2>4. ASSUME GetFirstCompanyByUser(rows, u) # 0
        PROVE  CallOK(rows, [op |-> "link", at |-> "upsert", telegram |-> t, user |-> u,
                             company |-> GetFirstCompanyByUser(rows, u)])
    BY <1>1, <2>4, FirstCompanyFound, <1>2
  <2> HIDE DEF CallOK, CreateOK, SessionOK, OrgOK, TelegramOK
  <2> QED BY <2>1, <2>2, <2>3, <2>4, Reading
<1>7. CASE AutoLink(c)
  <2>1. Reads BY <1>7 DEF AutoLink
  <2>2. PICK t \in TelegramIds : \E m \in GetUserByTelegramUsername(rows, "nick") :
          calls' = [calls EXCEPT ![c] = [op |-> "link", at |-> "upsert", telegram |-> t,
                                         user |-> m.user, company |-> m.company]]
    BY <1>7 DEF AutoLink
  <2>3. ASSUME NEW m \in GetUserByTelegramUsername(rows, "nick")
        PROVE  CallOK(rows, [op |-> "link", at |-> "upsert", telegram |-> t,
                             user |-> m.user, company |-> m.company])
    BY <1>1, NamedMemberFound
  <2> HIDE DEF CallOK, CreateOK, SessionOK, OrgOK, TelegramOK
  <2> QED BY <2>1, <2>2, <2>3, Reading
<1>8. CASE LinkUpserts(c)
  <2> DEFINE new == UpsertTelegramUser(rows, calls[c].telegram, calls[c].user, calls[c].company)
             call == Answered("link", 200)
  <2>1. /\ calls[c].user \in Nat /\ calls[c].company \in Nat /\ calls[c].telegram \in TelegramIds
        /\ calls[c].op = "link" /\ HasMember(rows, calls[c].user, calls[c].company)
    BY <1>1, <1>8 DEF LinkUpserts
  <2>2. TablesOK(new) /\ Grows(rows, new) BY <1>1, <2>1, WriteAccount
  <2>3. CallOK(new, call) BY DEF Answered
  <2>4. rows' = new /\ calls' = [calls EXCEPT ![c] = call] BY <1>8, <2>1 DEF LinkUpserts, Store
  <2> HIDE DEF new, call
  <2> QED BY <2>2, <2>3, <2>4, Stepping
<1>9. CASE IdentityFails(c)
  <2> DEFINE call == Answered(calls[c].op, 500)
  <2>1. CallOK(rows, call) BY Answering
  <2>2. Reads /\ calls' = [calls EXCEPT ![c] = call]
    BY ONLY <1>9 DEF IdentityFails, Answer, Continue
  <2> HIDE DEF call
  <2> HIDE DEF CallOK, CreateOK, SessionOK, OrgOK, TelegramOK
  <2> QED BY <2>1, <2>2, Reading
<1> QED BY <1>3, <1>4, <1>5, <1>6, <1>7, <1>8, <1>9
----
(* The limits: what a step can do to the count of an organization's companies
   and of those that are about to be added to it, and the same for members. *)
LEMMA CompanyLimit ==
    ASSUME IdentityInv, NEW c \in Callers, Step(c), NEW o \in Nat \ {0},
           \/ /\ CompaniesCounted(rows', o) = CompaniesCounted(rows, o)
              /\ ~AddsCompany(calls'[c], o)
           \/ /\ CompaniesCounted(rows', o) = CompaniesCounted(rows, o)
              /\ Cardinality(CompaniesCounted(rows, o)) < MaxCompanies
           \/ /\ AddsCompany(calls[c], o) /\ ~AddsCompany(calls'[c], o)
              /\ \E k : CompaniesCounted(rows', o) \subseteq CompaniesCounted(rows, o) \cup {k}
    PROVE  CompanyLimitKept(o)'
<1> DEFINE Old == CompaniesCounted(rows, o)
           New == CompaniesCounted(rows', o)
           Before == AddingCompany(o)
           Later == {d \in Callers : AddsCompany(calls'[d], o)}
<1>1. IsFiniteSet(Callers) /\ Cardinality(Callers) \in Nat /\ MaxCompanies \in Nat
  BY CallersAssumption, IdentityAssumption, FS_CardinalityType
<1>2. IsFiniteSet(Before) /\ Cardinality(Before) \in Nat
  BY <1>1, FS_Subset, FS_CardinalityType DEF AddingCompany
<1>3. IsFiniteSet(Later) /\ Cardinality(Later) \in Nat /\ Cardinality(Later) <= Cardinality(Callers)
  BY <1>1, FS_Subset, FS_CardinalityType
<1>4. IsFiniteSet(Old) /\ Cardinality(Old) \in Nat
  <2>1. Old \subseteq 1..Len(rows.companies) /\ Len(rows.companies) \in Nat
    BY DEF IdentityInv, TablesOK, IdentityTables, CompaniesCounted, CompaniesByOrg, Ids
  <2> DEFINE n == Len(rows.companies)
  <2> HIDE DEF n
  <2>4. n \in Nat BY <2>1 DEF n
  <2>5. IsFiniteSet(1..n) BY <2>4, FS_Interval
  <2>2. IsFiniteSet(1..Len(rows.companies)) BY <2>5 DEF n
  <2>3. IsFiniteSet(Old) BY <2>1, <2>2, FS_Subset
  <2> QED BY <2>3, FS_CardinalityType
<1>5. Cardinality(Old) + Cardinality(Before) <= MaxCompanies + Cardinality(Callers) - 1
  BY DEF IdentityInv, LimitsInv, CompanyLimitKept
<1>6. \A d \in Callers \ {c} : calls'[d] = calls[d] BY DEF Step
<1>7. ASSUME ~AddsCompany(calls'[c], o) PROVE Later \subseteq Before \ {c}
  BY <1>6, <1>7 DEF AddingCompany
<1>8. ASSUME ~AddsCompany(calls'[c], o) PROVE Cardinality(Later) <= Cardinality(Before)
  BY <1>2, <1>7, <1>8, FS_Subset
<1>9. Cardinality(New) + Cardinality(Later) <= MaxCompanies + Cardinality(Callers) - 1
  <2>1. CASE New = Old /\ ~AddsCompany(calls'[c], o) BY <1>1, <1>2, <1>3, <1>4, <1>5, <1>8, <2>1
  <2>2. CASE New = Old /\ Cardinality(Old) < MaxCompanies BY <1>1, <1>3, <1>4, <2>2
  <2>3. ASSUME AddsCompany(calls[c], o), ~AddsCompany(calls'[c], o),
               NEW k, New \subseteq Old \cup {k}
        PROVE  Cardinality(New) + Cardinality(Later) <= MaxCompanies + Cardinality(Callers) - 1
    <3>1. c \in Before BY <2>3 DEF AddingCompany
    <3>2. IsFiniteSet(Before \ {c}) /\ Cardinality(Before \ {c}) = Cardinality(Before) - 1
      BY <1>2, <3>1, FS_RemoveElement
    <3>3. Cardinality(Later) <= Cardinality(Before) - 1 BY <1>7, <2>3, <3>2, FS_Subset
    <3>4. IsFiniteSet(Old \cup {k}) /\ Cardinality(Old \cup {k}) <= Cardinality(Old) + 1
      <4> HIDE DEF Old
      <4>1. /\ IsFiniteSet(Old \cup {k})
            /\ Cardinality(Old \cup {k}) = IF k \in Old THEN Cardinality(Old)
                                                      ELSE Cardinality(Old) + 1
        BY ONLY <1>4, FS_AddElement
      <4> QED BY ONLY <1>4, <4>1
    <3>5. IsFiniteSet(New) /\ Cardinality(New) <= Cardinality(Old \cup {k}) BY <2>3, <3>4, FS_Subset
    <3>6. Cardinality(New) \in Nat /\ Cardinality(Old \cup {k}) \in Nat
      BY <3>4, <3>5, FS_CardinalityType
    <3> QED BY <1>1, <1>2, <1>3, <1>4, <1>5, <3>3, <3>4, <3>5, <3>6
  <2> QED BY <2>1, <2>2, <2>3
<1> QED BY <1>9 DEF CompanyLimitKept, AddingCompany

LEMMA MemberLimit ==
    ASSUME IdentityInv, NEW c \in Callers, Step(c), NEW o \in Nat \ {0},
           \/ /\ Cardinality(ListOrgMembers(rows', o)) <= Cardinality(ListOrgMembers(rows, o))
              /\ ~AddsMember(calls'[c], o)
           \/ /\ ListOrgMembers(rows', o) = ListOrgMembers(rows, o)
              /\ Cardinality(ListOrgMembers(rows, o)) < MaxUsers
           \/ /\ AddsMember(calls[c], o) /\ ~AddsMember(calls'[c], o)
              /\ \E k : ListOrgMembers(rows', o) \subseteq ListOrgMembers(rows, o) \cup {k}
           \/ /\ ListOrgMembers(rows', o) = {}
              /\ \A d \in Callers \ {c} : ~AddsMember(calls[d], o)
    PROVE  MemberLimitKept(o)'
<1> DEFINE Old == ListOrgMembers(rows, o)
           New == ListOrgMembers(rows', o)
           Before == AddingMember(o)
           Later == {d \in Callers : AddsMember(calls'[d], o)}
<1>1. /\ IsFiniteSet(Callers) /\ Cardinality(Callers) \in Nat \ {0} /\ MaxUsers \in Nat \ {0}
  BY CallersAssumption, IdentityAssumption, FS_CardinalityType, FS_EmptySet
<1>2. IsFiniteSet(Before) /\ Cardinality(Before) \in Nat
  BY <1>1, FS_Subset, FS_CardinalityType DEF AddingMember
<1>3. IsFiniteSet(Later) /\ Cardinality(Later) \in Nat /\ Cardinality(Later) <= Cardinality(Callers)
  BY <1>1, FS_Subset, FS_CardinalityType
<1>4. IsFiniteSet(Old) /\ Cardinality(Old) \in Nat /\ IsFiniteSet(New) /\ Cardinality(New) \in Nat
  BY FS_Subset, FS_CardinalityType DEF ListOrgMembers, IdentityInv, Step, TablesOK
<1>5. Cardinality(Old) + Cardinality(Before) <= MaxUsers + Cardinality(Callers) - 1
  BY DEF IdentityInv, LimitsInv, MemberLimitKept
<1>6. \A d \in Callers \ {c} : calls'[d] = calls[d] BY DEF Step
<1>7. ASSUME ~AddsMember(calls'[c], o) PROVE Later \subseteq Before \ {c}
  BY <1>6, <1>7 DEF AddingMember
<1>8. ASSUME ~AddsMember(calls'[c], o) PROVE Cardinality(Later) <= Cardinality(Before)
  BY <1>2, <1>7, <1>8, FS_Subset
<1>9. Cardinality(New) + Cardinality(Later) <= MaxUsers + Cardinality(Callers) - 1
  <2>1. CASE Cardinality(New) <= Cardinality(Old) /\ ~AddsMember(calls'[c], o)
    BY <1>1, <1>2, <1>3, <1>4, <1>5, <1>8, <2>1
  <2>2. CASE New = Old /\ Cardinality(Old) < MaxUsers BY <1>1, <1>3, <1>4, <2>2
  <2>3. ASSUME AddsMember(calls[c], o), ~AddsMember(calls'[c], o), NEW k, New \subseteq Old \cup {k}
        PROVE  Cardinality(New) + Cardinality(Later) <= MaxUsers + Cardinality(Callers) - 1
    <3>1. c \in Before BY <2>3 DEF AddingMember
    <3>2. IsFiniteSet(Before \ {c}) /\ Cardinality(Before \ {c}) = Cardinality(Before) - 1
      BY <1>2, <3>1, FS_RemoveElement
    <3>3. Cardinality(Later) <= Cardinality(Before) - 1 BY <1>7, <2>3, <3>2, FS_Subset
    <3>4. IsFiniteSet(Old \cup {k}) /\ Cardinality(Old \cup {k}) <= Cardinality(Old) + 1
      <4> HIDE DEF Old
      <4>1. /\ IsFiniteSet(Old \cup {k})
            /\ Cardinality(Old \cup {k}) = IF k \in Old THEN Cardinality(Old)
                                                      ELSE Cardinality(Old) + 1
        BY ONLY <1>4, FS_AddElement
      <4> QED BY ONLY <1>4, <4>1
    <3>5. Cardinality(New) <= Cardinality(Old \cup {k}) BY <2>3, <3>4, FS_Subset
    <3>6. Cardinality(Old \cup {k}) \in Nat BY <3>4, FS_CardinalityType
    <3> QED BY <1>1, <1>2, <1>3, <1>4, <1>5, <3>3, <3>4, <3>5, <3>6
  <2>4. CASE New = {} /\ \A d \in Callers \ {c} : ~AddsMember(calls[d], o)
    BY <1>6, <2>4, FS_Singleton, FS_Subset, FS_EmptySet, <1>1, <1>3
  <2> QED BY <2>1, <2>2, <2>3, <2>4
<1> QED BY <1>9 DEF MemberLimitKept, AddingMember

(* A step that does not touch organizations. *)
Quiet(c) ==
    /\ rows'.orgMembers = rows.orgMembers
    /\ \A o \in Nat \ {0} : CompaniesCounted(rows', o) = CompaniesCounted(rows, o)
    /\ <<calls'[c].op, calls'[c].at>>
         \notin {<<"company", "insert">>, <<"org", "owner">>, <<"join", "insert">>}

LEMMA QuietKept ==
    ASSUME IdentityInv, NEW c \in Callers, Step(c), Quiet(c)
    PROVE  LimitsInv'
<1> SUFFICES ASSUME NEW o \in Nat \ {0} PROVE CompanyLimitKept(o)' /\ MemberLimitKept(o)'
  BY DEF LimitsInv
<1>1. ~AddsCompany(calls'[c], o) /\ ~AddsMember(calls'[c], o) BY DEF Quiet, AddsCompany, AddsMember
<1>2. CompaniesCounted(rows', o) = CompaniesCounted(rows, o) BY DEF Quiet
<1>3. ListOrgMembers(rows', o) = ListOrgMembers(rows, o) BY DEF Quiet, ListOrgMembers
<1>4. Cardinality(ListOrgMembers(rows, o)) <= Cardinality(ListOrgMembers(rows, o))
  BY FS_Subset, FS_CardinalityType DEF IdentityInv, TablesOK, ListOrgMembers
<1> QED BY <1>1, <1>2, <1>3, <1>4, CompanyLimit, MemberLimit

LEMMA QuietSteps ==
    ASSUME IdentityInv, NEW c \in Callers,
           \/ Register(c) \/ RegisterCompany(c) \/ RegisterUser(c) \/ RegisterMember(c)
           \/ CreateMember(c) \/ CreateMemberUser(c) \/ CreateMemberRole(c)
           \/ CreateMemberKey(c) \/ CreateMemberLink(c) \/ InviteMember(c) \/ InviteAdds(c)
           \/ Login(c) \/ LoginRole(c) \/ RefreshToken(c) \/ RefreshRevokes(c) \/ RefreshIssues(c)
           \/ Logout(c) \/ SwitchCompany(c) \/ GenerateAPIKey(c)
           \/ SSOLogin(c) \/ SSOUser(c) \/ SSOMember(c) \/ SSOIssues(c)
           \/ OrgCreate(c) \/ OrgUpdate(c) \/ OrgUpdateWrites(c)
           \/ CompanyUpdate(c) \/ CompanyUpdateWrites(c)
           \/ DeepLink(c) \/ DeepLinkMarks(c) \/ DeepLinks(c)
           \/ LinkByKey(c) \/ AutoLink(c) \/ LinkUpserts(c) \/ IdentityFails(c)
    PROVE  Quiet(c)
<1>1. /\ DOMAIN calls = Callers /\ CallOK(rows, calls[c])
      /\ DOMAIN rows = {"users", "orgs", "companies", "orgMembers", "members", "links", "keys",
                        "revoked", "telegram", "pairs"}
  BY DEF IdentityInv, TablesOK, IdentityTables
<1> DEFINE Apart(call) == <<call.op, call.at>>
              \notin {<<"company", "insert">>, <<"org", "owner">>, <<"join", "insert">>}
<1>2. ASSUME rows'.orgMembers = rows.orgMembers, rows'.companies = rows.companies, Apart(calls'[c])
      PROVE  Quiet(c)
  BY <1>2 DEF Quiet, CompaniesCounted, CompaniesByOrg, Ids
<1>3. \A op, status : Answered(op, status).op = op /\ Answered(op, status).at = "answered"
  BY DEF Answered
<1>4. \A op, status, u, co : Made(op, status, u, co).op = op /\ Made(op, status, u, co).at = "answered"
  BY DEF Made
<1> USE <1>1 DEF AnswerAtOnce, Begin, Continue, Answer, At, Reads, Store
<1>5. CASE Register(c)
  BY <1>5, <1>3, <1>4, <1>2 DEF Register
<1>6. CASE RegisterUser(c)
  <2>1. rows'.orgMembers = rows.orgMembers /\ rows'.companies = rows.companies
    BY <1>6 DEF RegisterUser, CreateUser
  <2>2. Apart(calls'[c])
    <3>1. \/ calls'[c] = [op |-> "register", at |-> "member", user |-> Len(rows.users) + 1,
                        company |-> calls[c].company]
          \/ calls'[c] = Answered(calls[c].op, RegisterResponses.Failed)
      BY <1>6 DEF RegisterUser
    <3> QED BY <1>3, <3>1
  <2> QED BY <1>2, <2>1, <2>2
<1>7. CASE RegisterMember(c)
  BY <1>7, <1>3, <1>4, <1>2 DEF RegisterMember, AddCompanyMember
<1>8. CASE CreateMember(c)
  <2>1. rows'.orgMembers = rows.orgMembers /\ rows'.companies = rows.companies
    BY <1>8 DEF CreateMember
  <2>2. Apart(calls'[c])
    <3>1. \/ \E status : calls'[c] = Answered("create", status)
          \/ \E user, company : calls'[c] = [op |-> "create", at |-> "user", user |-> user,
                                              company |-> company]
      BY <1>8 DEF CreateMember
    <3>2. calls'[c].op = "create"
      <4>1. ASSUME NEW status, calls'[c] = Answered("create", status) PROVE calls'[c].op = "create"
        BY ONLY <4>1 DEF Answered
      <4>2. ASSUME NEW user, NEW company,
                   calls'[c] = [op |-> "create", at |-> "user", user |-> user, company |-> company]
            PROVE  calls'[c].op = "create"
        BY ONLY <4>2
      <4> QED BY ONLY <3>1, <4>1, <4>2
    <3> QED BY ONLY <3>2
  <2> QED BY <1>2, <2>1, <2>2
<1>9. CASE CreateMemberUser(c)
  <2>1. rows'.orgMembers = rows.orgMembers /\ rows'.companies = rows.companies
    BY <1>9 DEF CreateMemberUser, CreateUser
  <2>2. Apart(calls'[c])
    <3>1. \/ calls'[c] = [calls[c] EXCEPT !.at = "member", !.user = Len(rows.users) + 1]
          \/ calls'[c] = Answered(calls[c].op, CreateMemberResponses.Failed)
      BY <1>9 DEF CreateMemberUser
    <3>2. calls[c].op = "create" /\ DOMAIN calls[c] = {"op", "at", "user", "company"}
      BY <1>9 DEF CreateMemberUser, CallOK, CreateOK
    <3>3. calls'[c].op = "create"
      <4>1. CASE calls'[c] = [calls[c] EXCEPT !.at = "member", !.user = Len(rows.users) + 1]
        BY ONLY <3>2, <4>1
      <4>2. CASE calls'[c] = Answered(calls[c].op, CreateMemberResponses.Failed)
        BY ONLY <3>2, <4>2 DEF Answered
      <4> QED BY ONLY <3>1, <4>1, <4>2
    <3> QED BY ONLY <3>3
  <2> QED BY <1>2, <2>1, <2>2
<1>10. CASE CreateMemberRole(c)
  BY <1>10, <1>3, <1>4, <1>2 DEF CreateMemberRole, AddCompanyMember, CallOK, CreateOK, SessionOK,
     TelegramOK
<1>11. CASE CreateMemberKey(c)
  BY <1>11, <1>3, <1>4, <1>2 DEF CreateMemberKey, SetAPIKey, CallOK, CreateOK, SessionOK, TelegramOK
<1>12. CASE CreateMemberLink(c)
  BY <1>12, <1>3, <1>4, <1>2 DEF CreateMemberLink, CreateLinkToken
<1>13. CASE InviteMember(c)
  BY <1>13, <1>3, <1>4, <1>2 DEF InviteMember
<1>14. CASE InviteAdds(c)
  BY <1>14, <1>3, <1>4, <1>2 DEF InviteAdds, AddCompanyMember
<1>15. CASE Login(c)
  BY <1>15, <1>3, <1>4, <1>2 DEF Login
<1>16. CASE LoginRole(c)
  BY <1>16, <1>3, <1>4, <1>2 DEF LoginRole, IssuePair
<1>17. CASE RefreshToken(c)
  BY <1>17, <1>3, <1>4, <1>2 DEF RefreshToken
<1>18. CASE RefreshRevokes(c)
  BY <1>18, <1>3, <1>4, <1>2 DEF RefreshRevokes, CreateRevokedToken, CallOK, CreateOK, SessionOK,
     TelegramOK
<1>19. CASE RefreshIssues(c)
  BY <1>19, <1>3, <1>4, <1>2 DEF RefreshIssues, IssuePair
<1>20. CASE Logout(c)
  BY <1>20, <1>3, <1>4, <1>2 DEF Logout, CreateRevokedToken
<1>21. CASE SwitchCompany(c)
  BY <1>21, <1>3, <1>4, <1>2 DEF SwitchCompany, IssuePair
<1>22. CASE GenerateAPIKey(c)
  <2>1. rows'.orgMembers = rows.orgMembers /\ rows'.companies = rows.companies
    BY <1>22 DEF GenerateAPIKey, SetAPIKey
  <2>2. Apart(calls'[c]) BY <1>3, <1>4, <1>22 DEF GenerateAPIKey
  <2> QED BY <1>2, <2>1, <2>2
<1>23. CASE SSOLogin(c)
  BY <1>23, <1>3, <1>4, <1>2 DEF SSOLogin
<1>24. CASE SSOUser(c)
  <2>1. rows'.orgMembers = rows.orgMembers /\ rows'.companies = rows.companies
    BY <1>24 DEF SSOUser, CreateUser
  <2>2. Apart(calls'[c])
    <3>1. \/ calls'[c] = [op |-> "sso", at |-> "member", user |-> Len(rows.users) + 1]
          \/ calls'[c] = Answered(calls[c].op, SSOResponses.Failed)
      BY <1>24 DEF SSOUser
    <3> QED BY <1>3, <3>1
  <2> QED BY <1>2, <2>1, <2>2
<1>25. CASE SSOMember(c)
  BY <1>25, <1>3, <1>4, <1>2 DEF SSOMember, AddCompanyMember, CallOK, CreateOK, SessionOK,
     TelegramOK
<1>26. CASE SSOIssues(c)
  BY <1>26, <1>3, <1>4, <1>2 DEF SSOIssues, IssuePair
<1>27. CASE OrgCreate(c)
  BY <1>27, <1>3, <1>4, <1>2 DEF OrgCreate
<1>28. CASE OrgUpdate(c)
  BY <1>28, <1>3, <1>4, <1>2 DEF OrgUpdate
<1>29. CASE OrgUpdateWrites(c)
  BY <1>29, <1>3, <1>4, <1>2 DEF OrgUpdateWrites, UpdateOrganization
<1>30. CASE CompanyUpdate(c)
  BY <1>30, <1>3, <1>4, <1>2 DEF CompanyUpdate
<1>31. CASE DeepLink(c)
  BY <1>31, <1>3, <1>4, <1>2 DEF DeepLink
<1>32. CASE DeepLinkMarks(c)
  BY <1>32, <1>3, <1>4, <1>2 DEF DeepLinkMarks, MarkLinkTokenUsed, CallOK, CreateOK, SessionOK,
     TelegramOK
<1>33. CASE DeepLinks(c)
  BY <1>33, <1>3, <1>4, <1>2 DEF DeepLinks, UpsertTelegramUser
<1>34. CASE LinkByKey(c)
  BY <1>34, <1>3, <1>4, <1>2 DEF LinkByKey
<1>35. CASE AutoLink(c)
  BY <1>35, <1>3, <1>4, <1>2 DEF AutoLink
<1>36. CASE LinkUpserts(c)
  BY <1>36, <1>3, <1>4, <1>2 DEF LinkUpserts, UpsertTelegramUser
<1>37. CASE IdentityFails(c)
  BY <1>37, <1>3, <1>4, <1>2 DEF IdentityFails
<1>38. CASE RegisterCompany(c)
  <2> DEFINE row == [org |-> 0, tin |-> 0, counted |-> TRUE]
  <2>1. rows'.orgMembers = rows.orgMembers /\ rows'.companies = Append(rows.companies, row)
    BY <1>38 DEF RegisterCompany, CreateCompany
  <2>2. rows.companies \in Seq(CompanyRows) /\ row \in CompanyRows
    BY DEF IdentityInv, TablesOK, IdentityTables, CompanyRows
  <2>3. /\ DOMAIN rows'.companies = DOMAIN rows.companies \cup {Len(rows.companies) + 1}
        /\ \A i \in DOMAIN rows.companies : rows'.companies[i] = rows.companies[i]
        /\ rows'.companies[Len(rows.companies) + 1].org = 0
    BY <2>1, <2>2, Appending
  <2>4. \A o \in Nat \ {0} : CompaniesCounted(rows', o) = CompaniesCounted(rows, o)
    BY <2>3 DEF CompaniesCounted, CompaniesByOrg, Ids
  <2>5. Apart(calls'[c]) BY <1>38 DEF RegisterCompany
  <2> QED BY <2>1, <2>4, <2>5 DEF Quiet
<1>39. CASE CompanyUpdateWrites(c)
  <2>1. rows' = UpdateCompany(rows, calls[c].company, calls[c].tin) BY <1>39 DEF CompanyUpdateWrites
  <2>2. calls[c].company \in Ids(rows.companies) /\ calls[c].tin \in Nat
    BY <1>39 DEF CompanyUpdateWrites, CallOK, OrgOK
  <2>3. /\ Ids(rows'.companies) = Ids(rows.companies)
        /\ \A k \in Ids(rows.companies) : /\ rows'.companies[k].org = rows.companies[k].org
                                           /\ rows'.companies[k].counted = rows.companies[k].counted
    BY <2>1, <2>2, WriteTIN DEF IdentityInv
  <2>4. \A o \in Nat \ {0} : CompaniesCounted(rows', o) = CompaniesCounted(rows, o)
    BY <2>3 DEF CompaniesCounted, CompaniesByOrg
  <2>5. Apart(calls'[c]) BY <1>3, <1>39 DEF CompanyUpdateWrites
  <2>6. rows'.orgMembers = rows.orgMembers BY <2>1 DEF UpdateCompany
  <2> QED BY <2>4, <2>5, <2>6 DEF Quiet
<1> QED BY <1>5, <1>6, <1>7, <1>8, <1>9, <1>10, <1>11, <1>12, <1>13, <1>14, <1>15, <1>16, <1>17,
         <1>18, <1>19, <1>20, <1>21, <1>22, <1>23, <1>24, <1>25, <1>26, <1>27, <1>28, <1>29, <1>30,
         <1>31, <1>32, <1>33, <1>34, <1>35, <1>36, <1>37, <1>38, <1>39

(* The members and the companies of an organization can be counted. *)
LEMMA MembersCount ==
    ASSUME NEW db, TablesOK(db), NEW o
    PROVE  IsFiniteSet(ListOrgMembers(db, o)) /\ Cardinality(ListOrgMembers(db, o)) \in Nat
<1>1. IsFiniteSet(db.orgMembers) /\ ListOrgMembers(db, o) \subseteq db.orgMembers
  BY DEF TablesOK, ListOrgMembers
<1>2. IsFiniteSet(ListOrgMembers(db, o)) BY <1>1, FS_Subset
<1> QED BY <1>2, FS_CardinalityType

LEMMA CompaniesCount ==
    ASSUME NEW db, TablesOK(db), NEW o
    PROVE  /\ Cardinality(CompaniesCounted(db, o)) \in Nat /\ Cardinality(CompaniesByOrg(db, o)) \in Nat
           /\ Cardinality(CompaniesCounted(db, o)) <= Cardinality(CompaniesByOrg(db, o))
<1>1. /\ CompaniesByOrg(db, o) \subseteq 1..Len(db.companies) /\ Len(db.companies) \in Nat
      /\ CompaniesCounted(db, o) \subseteq CompaniesByOrg(db, o)
  BY DEF TablesOK, IdentityTables, CompaniesCounted, CompaniesByOrg, Ids
<1>2. IsFiniteSet(1..Len(db.companies)) BY <1>1, FS_Interval
<1>3. IsFiniteSet(CompaniesByOrg(db, o)) BY <1>1, <1>2, FS_Subset
<1>4. IsFiniteSet(CompaniesCounted(db, o)) /\ Cardinality(CompaniesCounted(db, o)) <= Cardinality(CompaniesByOrg(db, o))
  BY <1>1, <1>3, FS_Subset
<1> QED BY <1>3, <1>4, FS_CardinalityType

(* A step after which c is not about to add anything, and no organization has
   more members and companies than before. *)
LEMMA NoneAdded ==
    ASSUME IdentityInv, NEW c \in Callers, Step(c), NEW o \in Nat \ {0},
           ~AddsCompany(calls'[c], o), ~AddsMember(calls'[c], o)
    PROVE  /\ CompaniesCounted(rows', o) = CompaniesCounted(rows, o) => CompanyLimitKept(o)'
           /\ ListOrgMembers(rows', o) \subseteq ListOrgMembers(rows, o) => MemberLimitKept(o)'
<1>1. TablesOK(rows) BY DEF IdentityInv
<1>2. ASSUME ListOrgMembers(rows', o) \subseteq ListOrgMembers(rows, o)
      PROVE  Cardinality(ListOrgMembers(rows', o)) <= Cardinality(ListOrgMembers(rows, o))
  BY <1>1, <1>2, MembersCount, FS_Subset
<1> QED BY <1>2, CompanyLimit, MemberLimit

LEMMA OrgInsertKept ==
    ASSUME IdentityInv, NEW c \in Callers, Step(c), OrgInsert(c)
    PROVE  LimitsInv'
<1> SUFFICES ASSUME NEW o \in Nat \ {0} PROVE CompanyLimitKept(o)' /\ MemberLimitKept(o)'
  BY DEF LimitsInv
<1> DEFINE n == Len(rows.orgs) + 1
<1>1. TablesOK(rows) /\ DOMAIN calls = Callers /\ Len(rows.orgs) \in Nat
      /\ DOMAIN rows.orgs = 1..Len(rows.orgs)
  BY DEF IdentityInv, TablesOK, IdentityTables
<1>2. rows'.companies = rows.companies /\ rows'.orgMembers = rows.orgMembers
  BY <1>1 DEF OrgInsert, Store, Reads, CreateOrganization, TablesOK, IdentityTables
<1>3. /\ CompaniesCounted(rows', o) = CompaniesCounted(rows, o)
      /\ ListOrgMembers(rows', o) = ListOrgMembers(rows, o)
  BY <1>2 DEF CompaniesCounted, CompaniesByOrg, ListOrgMembers, Ids
<1>4. \/ calls'[c] = Answered(calls[c].op, OrgCreateResponses.SlugTaken)
      \/ calls'[c] = [op |-> "org", at |-> "owner", user |-> calls[c].user, org |-> n]
  BY <1>1 DEF OrgInsert, Continue, Answer
<1>5. CASE calls'[c] = Answered(calls[c].op, OrgCreateResponses.SlugTaken)
  <2>1. calls'[c].at = "answered" BY ONLY <1>5 DEF Answered
  <2>2. ~AddsCompany(calls'[c], o) /\ ~AddsMember(calls'[c], o) BY <2>1 DEF AddsCompany, AddsMember
  <2> QED BY <1>3, <2>2, NoneAdded
<1>6. CASE calls'[c] = [op |-> "org", at |-> "owner", user |-> calls[c].user, org |-> n]
  <2>1. calls'[c].op = "org" /\ calls'[c].org = n BY ONLY <1>6
  <2>2. ~AddsCompany(calls'[c], o) BY <2>1 DEF AddsCompany
  <2>3. CompanyLimitKept(o)' BY <1>3, <2>2, CompanyLimit
  <2>4. CASE o # n
    BY <2>1, <2>4, <1>3, <2>2, <2>3, NoneAdded DEF AddsMember
  <2>5. CASE o = n
    <3>1. o \notin Ids(rows.orgs) BY <1>1, <2>5 DEF Ids
    <3>2. ListOrgMembers(rows', o) = {} BY <1>2, <3>1 DEF IdentityInv, TablesOK, ListOrgMembers
    <3>3. \A d \in Callers \ {c} : ~AddsMember(calls[d], o)
      BY <3>1 DEF IdentityInv, CallOK, OrgOK, AddsMember
    <3>4. MemberLimitKept(o)' BY <3>2, <3>3, MemberLimit
    <3> QED BY <2>3, <3>4
  <2> QED BY <2>4, <2>5
<1> QED BY <1>4, <1>5, <1>6

(* A member who is added was one of those the organization is to get. *)
LEMMA MemberAddedKept ==
    ASSUME IdentityInv, NEW c \in Callers, Step(c), NEW role,
           <<calls[c].op, calls[c].at>> \in {<<"org", "owner">>, <<"join", "insert">>},
           rows' = AddOrgMember(rows, calls[c].org, calls[c].user, role),
           calls'[c].at = "answered"
    PROVE  LimitsInv'
<1> SUFFICES ASSUME NEW o \in Nat \ {0} PROVE CompanyLimitKept(o)' /\ MemberLimitKept(o)'
  BY DEF LimitsInv
<1> DEFINE row == [org |-> calls[c].org, user |-> calls[c].user, role |-> role]
<1>1. ~AddsCompany(calls'[c], o) /\ ~AddsMember(calls'[c], o) BY DEF AddsCompany, AddsMember
<1>2. DOMAIN rows = {"users", "orgs", "companies", "orgMembers", "members", "links", "keys",
                     "revoked", "telegram", "pairs"}
  BY DEF IdentityInv, TablesOK, IdentityTables
<1>3. rows'.companies = rows.companies /\ row.org = calls[c].org
      /\ (rows'.orgMembers = rows.orgMembers \/ rows'.orgMembers = rows.orgMembers \cup {row})
  BY <1>2 DEF AddOrgMember
<1> HIDE DEF row
<1>4. CompaniesCounted(rows', o) = CompaniesCounted(rows, o)
  BY <1>3 DEF CompaniesCounted, CompaniesByOrg, Ids
<1>5. CompanyLimitKept(o)' BY <1>1, <1>4, NoneAdded
<1>6. CASE o = calls[c].org
  <2>1. AddsMember(calls[c], o) BY <1>6 DEF AddsMember
  <2>2. ListOrgMembers(rows', o) \subseteq ListOrgMembers(rows, o) \cup {row}
    BY <1>3 DEF ListOrgMembers
  <2>3. \E k : ListOrgMembers(rows', o) \subseteq ListOrgMembers(rows, o) \cup {k} BY <2>2
  <2>4. MemberLimitKept(o)' BY <1>1, <2>1, <2>3, MemberLimit
  <2> QED BY <1>5, <2>4
<1>7. CASE o # calls[c].org
  BY <1>3, <1>7, <1>1, <1>5, NoneAdded DEF ListOrgMembers
<1> QED BY <1>6, <1>7

LEMMA OrgOwnerKept ==
    ASSUME IdentityInv, NEW c \in Callers, Step(c), OrgOwner(c)
    PROVE  LimitsInv'
<1>1. calls'[c] = Answered(calls[c].op, OrgCreateResponses.Done)
  BY DEF OrgOwner, Answer, Continue, IdentityInv
<1>2. calls'[c].at = "answered" BY ONLY <1>1 DEF Answered
<1>3. rows' = AddOrgMember(rows, calls[c].org, calls[c].user, "org_owner")
      /\ calls[c].op = "org" /\ calls[c].at = "owner"
  BY DEF OrgOwner, Store, At
<1> QED BY <1>2, <1>3, MemberAddedKept

LEMMA OrgAddMemberInsertsKept ==
    ASSUME IdentityInv, NEW c \in Callers, Step(c), OrgAddMemberInserts(c)
    PROVE  LimitsInv'
<1>1. calls'[c] = Answered(calls[c].op, OrgMemberResponses.Done)
  BY DEF OrgAddMemberInserts, Answer, Continue, IdentityInv
<1>2. calls'[c].at = "answered" BY ONLY <1>1 DEF Answered
<1>3. rows' = AddOrgMember(rows, calls[c].org, calls[c].user, calls[c].role)
      /\ calls[c].op = "join" /\ calls[c].at = "insert"
  BY DEF OrgAddMemberInserts, Store, At
<1> QED BY <1>2, <1>3, MemberAddedKept

LEMMA OrgAddMemberKept ==
    ASSUME IdentityInv, NEW c \in Callers, Step(c), OrgAddMember(c)
    PROVE  LimitsInv'
<1> SUFFICES ASSUME NEW o \in Nat \ {0} PROVE CompanyLimitKept(o)' /\ MemberLimitKept(o)'
  BY DEF LimitsInv
<1>1. TablesOK(rows) /\ DOMAIN calls = Callers /\ rows' = rows
  BY DEF IdentityInv, OrgAddMember, Reads
<1>2. PICK org \in Ids(rows.orgs), u \in Ids(rows.users) :
        \/ calls'[c] = Answered("join", OrgMemberResponses.LimitUsers)
        \/ /\ ~(Cardinality(ListOrgMembers(rows, org)) >= MaxUsers)
           /\ \E role \in {"org_admin", "org_member"} :
                calls'[c] = [op |-> "join", at |-> "insert", org |-> org, user |-> u,
                             role |-> role]
  BY <1>1 DEF OrgAddMember, AnswerAtOnce, Begin
<1>3. CASE calls'[c] = Answered("join", OrgMemberResponses.LimitUsers)
  <2>1. calls'[c].at = "answered" BY ONLY <1>3 DEF Answered
  <2>2. ~AddsCompany(calls'[c], o) /\ ~AddsMember(calls'[c], o) BY <2>1 DEF AddsCompany, AddsMember
  <2> QED BY <1>1, <2>2, NoneAdded
<1>4. ASSUME ~(Cardinality(ListOrgMembers(rows, org)) >= MaxUsers), NEW role,
             calls'[c] = [op |-> "join", at |-> "insert", org |-> org, user |-> u, role |-> role]
      PROVE  CompanyLimitKept(o)' /\ MemberLimitKept(o)'
  <2>1. calls'[c].op = "join" /\ calls'[c].org = org BY ONLY <1>4
  <2>2. ~AddsCompany(calls'[c], o) BY <2>1 DEF AddsCompany
  <2>3. CompanyLimitKept(o)' BY <1>1, <2>2, CompanyLimit
  <2>4. CASE o # org
    BY <2>1, <2>4, <1>1, <2>2, <2>3, NoneAdded DEF AddsMember
  <2>5. CASE o = org
    BY <1>1, MembersCount, <1>4, <2>5, IdentityAssumption, MemberLimit, <2>3
  <2> QED BY <2>4, <2>5
<1> QED BY <1>2, <1>3, <1>4

LEMMA OrgUpdateMemberRoleKept ==
    ASSUME IdentityInv, NEW c \in Callers, Step(c), OrgUpdateMemberRole(c)
    PROVE  LimitsInv'
<1> SUFFICES ASSUME NEW o \in Nat \ {0} PROVE CompanyLimitKept(o)' /\ MemberLimitKept(o)'
  BY DEF LimitsInv
<1>1. /\ TablesOK(rows) /\ DOMAIN calls = Callers /\ rows.orgMembers \subseteq OrgMemberRows
      /\ DOMAIN rows = {"users", "orgs", "companies", "orgMembers", "members", "links", "keys",
                        "revoked", "telegram", "pairs"}
  BY DEF IdentityInv, TablesOK, IdentityTables
<1>2. PICK org \in Ids(rows.orgs), u \in Ids(rows.users) :
        rows' = UpdateOrgMemberRole(rows, org, u, "org_member")
  BY DEF OrgUpdateMemberRole, Store
<1>3. rows'.companies = rows.companies
      /\ rows'.orgMembers = Reroled(rows.orgMembers, org, u, "org_member")
  BY <1>1, <1>2 DEF UpdateOrgMemberRole, Reroled
<1>4. calls'[c] = Answered("role", OrgRoleResponses.Done)
  BY <1>1 DEF OrgUpdateMemberRole, AnswerAtOnce, Begin
<1>5. calls'[c].at = "answered" BY ONLY <1>4 DEF Answered
<1>6. ~AddsCompany(calls'[c], o) /\ ~AddsMember(calls'[c], o) BY <1>5 DEF AddsCompany, AddsMember
<1>7. CompaniesCounted(rows', o) = CompaniesCounted(rows, o)
  BY <1>3 DEF CompaniesCounted, CompaniesByOrg, Ids
<1>8. \A m \in OrgMemberRows : [m EXCEPT !.role = "org_member"].org = m.org BY DEF OrgMemberRows
<1>9. ListOrgMembers(rows', o) = Reroled(ListOrgMembers(rows, o), org, u, "org_member")
  BY <1>1, <1>3, <1>8 DEF ListOrgMembers, Reroled
<1>10. Cardinality(ListOrgMembers(rows', o)) <= Cardinality(ListOrgMembers(rows, o))
  BY <1>1, <1>9, MembersCount, ImageOfFinite
<1> QED BY <1>6, <1>7, <1>10, CompanyLimit, MemberLimit

LEMMA OrgRemoveMemberKept ==
    ASSUME IdentityInv, NEW c \in Callers, Step(c), OrgRemoveMember(c)
    PROVE  LimitsInv'
<1> SUFFICES ASSUME NEW o \in Nat \ {0} PROVE CompanyLimitKept(o)' /\ MemberLimitKept(o)'
  BY DEF LimitsInv
<1>1. /\ DOMAIN calls = Callers
      /\ DOMAIN rows = {"users", "orgs", "companies", "orgMembers", "members", "links", "keys",
                        "revoked", "telegram", "pairs"}
  BY DEF IdentityInv, TablesOK, IdentityTables
<1>2. PICK org, u : rows' = RemoveOrgMember(rows, org, u) BY DEF OrgRemoveMember, Store
<1>3. rows'.companies = rows.companies /\ rows'.orgMembers \subseteq rows.orgMembers
  BY <1>1, <1>2 DEF RemoveOrgMember
<1>4. calls'[c] = Answered("leave", OrgRemoveResponses.Done)
  BY <1>1 DEF OrgRemoveMember, AnswerAtOnce, Begin
<1>5. calls'[c].at = "answered" BY ONLY <1>4 DEF Answered
<1>6. ~AddsCompany(calls'[c], o) /\ ~AddsMember(calls'[c], o) BY <1>5 DEF AddsCompany, AddsMember
<1>7. CompaniesCounted(rows', o) = CompaniesCounted(rows, o)
  BY <1>3 DEF CompaniesCounted, CompaniesByOrg, Ids
<1>8. ListOrgMembers(rows', o) \subseteq ListOrgMembers(rows, o) BY <1>3 DEF ListOrgMembers
<1> QED BY <1>6, <1>7, <1>8, NoneAdded

LEMMA CompanyCreateKept ==
    ASSUME IdentityInv, NEW c \in Callers, Step(c), CompanyCreate(c)
    PROVE  LimitsInv'
<1> SUFFICES ASSUME NEW o \in Nat \ {0} PROVE CompanyLimitKept(o)' /\ MemberLimitKept(o)'
  BY DEF LimitsInv
<1>1. TablesOK(rows) /\ DOMAIN calls = Callers /\ rows' = rows
  BY DEF IdentityInv, CompanyCreate, Reads
<1> DEFINE company(org, counted) ==
             [op |-> "company", at |-> "insert", org |-> org, counted |-> counted]
<1>2. PICK org \in Ids(rows.orgs), counted \in BOOLEAN :
        \/ calls'[c] = Answered("company", CompanyResponses.LimitReached)
        \/ /\ counted => ~(Cardinality(CompaniesByOrg(rows, org)) >= MaxCompanies)
           /\ calls'[c] = company(org, counted)
  BY <1>1 DEF CompanyCreate, AnswerAtOnce, Begin
<1>3. CASE calls'[c] = Answered("company", CompanyResponses.LimitReached)
  <2>1. calls'[c].at = "answered" BY ONLY <1>3 DEF Answered
  <2>2. ~AddsCompany(calls'[c], o) /\ ~AddsMember(calls'[c], o) BY <2>1 DEF AddsCompany, AddsMember
  <2> QED BY <1>1, <2>2, NoneAdded
<1>4. ASSUME counted => ~(Cardinality(CompaniesByOrg(rows, org)) >= MaxCompanies),
             calls'[c] = company(org, counted) PROVE  CompanyLimitKept(o)' /\ MemberLimitKept(o)'
  <2>1. calls'[c].op = "company" /\ calls'[c].org = org /\ calls'[c].counted = counted BY ONLY <1>4
  <2>2. ~AddsMember(calls'[c], o) BY <2>1 DEF AddsMember
  <2>3. Cardinality(ListOrgMembers(rows', o)) <= Cardinality(ListOrgMembers(rows, o))
    BY <1>1, MembersCount
  <2>4. MemberLimitKept(o)' BY <2>2, <2>3, MemberLimit
  <2>5. CASE o # org \/ ~counted
    BY <2>1, <2>5, <1>1, <2>2, <2>4, NoneAdded DEF AddsCompany
  <2>6. CASE o = org /\ counted
    BY <1>1, CompaniesCount, <1>4, <2>6, IdentityAssumption, CompanyLimit, <2>4
  <2> QED BY <2>5, <2>6
<1> QED BY <1>2, <1>3, <1>4

LEMMA CompanyInsertKept ==
    ASSUME IdentityInv, NEW c \in Callers, Step(c), CompanyInsert(c)
    PROVE  LimitsInv'
<1> SUFFICES ASSUME NEW o \in Nat \ {0} PROVE CompanyLimitKept(o)' /\ MemberLimitKept(o)'
  BY DEF LimitsInv
<1> DEFINE row == [org |-> calls[c].org, tin |-> 0, counted |-> calls[c].counted]
<1>1. /\ TablesOK(rows) /\ DOMAIN calls = Callers /\ rows.companies \in Seq(CompanyRows)
      /\ DOMAIN rows = {"users", "orgs", "companies", "orgMembers", "members", "links", "keys",
                        "revoked", "telegram", "pairs"}
  BY DEF IdentityInv, TablesOK, IdentityTables
<1>2. calls[c].op = "company" /\ calls[c].at = "insert" /\ calls[c].org \in Ids(rows.orgs)
      /\ calls[c].counted \in BOOLEAN
  BY DEF CompanyInsert, At, IdentityInv, CallOK, OrgOK
<1>3. row \in CompanyRows /\ row.org = calls[c].org /\ row.counted = calls[c].counted
  BY <1>1, <1>2 DEF TablesOK, IdentityTables, Ids, CompanyRows
<1>4. rows'.companies = Append(rows.companies, row) /\ rows'.orgMembers = rows.orgMembers
  BY <1>1 DEF CompanyInsert, Store, CreateCompany
<1>5. calls'[c] = Answered(calls[c].op, CompanyResponses.Done)
  BY <1>1 DEF CompanyInsert, Answer, Continue
<1>6. calls'[c].at = "answered" BY ONLY <1>5 DEF Answered
<1>7. ~AddsCompany(calls'[c], o) /\ ~AddsMember(calls'[c], o) BY <1>6 DEF AddsCompany, AddsMember
<1>8. ListOrgMembers(rows', o) \subseteq ListOrgMembers(rows, o) BY <1>4 DEF ListOrgMembers
<1>9. MemberLimitKept(o)' BY <1>7, <1>8, NoneAdded
<1> HIDE DEF row
<1>10. /\ DOMAIN rows'.companies = DOMAIN rows.companies \cup {Len(rows.companies) + 1}
       /\ \A i \in DOMAIN rows.companies : rows'.companies[i] = rows.companies[i]
       /\ rows'.companies[Len(rows.companies) + 1] = row
  BY <1>1, <1>3, <1>4, Appending
<1>11. CASE o = calls[c].org /\ calls[c].counted
  <2>1. AddsCompany(calls[c], o) BY <1>2, <1>11 DEF AddsCompany
  <2>2. CompaniesCounted(rows', o) \subseteq CompaniesCounted(rows, o) \cup {Len(rows.companies) + 1}
    BY <1>10 DEF CompaniesCounted, CompaniesByOrg, Ids
  <2>3. \E k : CompaniesCounted(rows', o) \subseteq CompaniesCounted(rows, o) \cup {k} BY <2>2
  <2>4. CompanyLimitKept(o)' BY <1>7, <2>1, <2>3, CompanyLimit
  <2> QED BY <1>9, <2>4
<1>12. CASE o # calls[c].org \/ ~calls[c].counted
  <2>1. CompaniesCounted(rows', o) = CompaniesCounted(rows, o)
    BY <1>3, <1>10, <1>12 DEF CompaniesCounted, CompaniesByOrg, Ids
  <2> QED BY <1>7, <1>9, <2>1, NoneAdded
<1> QED BY <1>11, <1>12
----
(* A step of one request. *)
LEMMA IdentityStepKept ==
    ASSUME IdentityInv, NEW c \in Callers, Step(c), LimitsInv'
    PROVE  IdentityInv'
<1>1. TablesOK(rows)' /\ DOMAIN calls' = Callers BY DEF Step
<1>2. ASSUME NEW d \in Callers PROVE CallOK(rows', calls'[d])
  <2>1. CASE d = c BY <2>1 DEF Step
  <2>2. CASE d # c
    BY <2>2, CallStays DEF Step, IdentityInv
  <2> QED BY <2>1, <2>2
<1> QED BY <1>1, <1>2 DEF IdentityInv

LEMMA IdentityKept == IdentityInv /\ [IdentityNext]_requestVars => IdentityInv'
<1> SUFFICES ASSUME IdentityInv, [IdentityNext]_requestVars PROVE IdentityInv' OBVIOUS
<1>1. CASE UNCHANGED requestVars
  BY <1>1 DEF requestVars, IdentityInv, LimitsInv, CompanyLimitKept, MemberLimitKept, AddingCompany,
     AddingMember
<1>2. CASE IdentityNext
  <2>1. Serving(IdentityParts) \subseteq Callers BY DEF Serving
  <2>2. PICK c \in Callers :
        \/ Register(c) \/ RegisterCompany(c) \/ RegisterUser(c) \/ RegisterMember(c)
        \/ CreateMember(c) \/ CreateMemberUser(c) \/ CreateMemberRole(c)
        \/ CreateMemberKey(c) \/ CreateMemberLink(c) \/ InviteMember(c) \/ InviteAdds(c)
        \/ Login(c) \/ LoginRole(c) \/ RefreshToken(c) \/ RefreshRevokes(c) \/ RefreshIssues(c)
        \/ Logout(c) \/ SwitchCompany(c) \/ GenerateAPIKey(c)
        \/ SSOLogin(c) \/ SSOUser(c) \/ SSOMember(c) \/ SSOIssues(c)
        \/ OrgCreate(c) \/ OrgInsert(c) \/ OrgOwner(c) \/ OrgUpdate(c) \/ OrgUpdateWrites(c)
        \/ OrgAddMember(c) \/ OrgAddMemberInserts(c)
        \/ OrgUpdateMemberRole(c) \/ OrgRemoveMember(c)
        \/ CompanyCreate(c) \/ CompanyInsert(c) \/ CompanyUpdate(c) \/ CompanyUpdateWrites(c)
        \/ DeepLink(c) \/ DeepLinkMarks(c) \/ DeepLinks(c)
        \/ LinkByKey(c) \/ AutoLink(c) \/ LinkUpserts(c) \/ IdentityFails(c)
    BY <1>2, <2>1 DEF IdentityNext
  <2>3. Step(c) BY <2>2, MemberSteps, SessionSteps, OrganizationSteps, TelegramSteps
  <2>4. CASE \/ OrgInsert(c) \/ OrgOwner(c) \/ OrgAddMember(c) \/ OrgAddMemberInserts(c)
             \/ OrgUpdateMemberRole(c) \/ OrgRemoveMember(c) \/ CompanyCreate(c) \/ CompanyInsert(c)
    <3>1. LimitsInv'
      BY <2>3, <2>4, OrgInsertKept, OrgOwnerKept, OrgAddMemberKept, OrgAddMemberInsertsKept,
         OrgUpdateMemberRoleKept, OrgRemoveMemberKept, CompanyCreateKept, CompanyInsertKept
    <3> QED BY <2>3, <3>1, IdentityStepKept
  <2>5. CASE ~(\/ OrgInsert(c) \/ OrgOwner(c) \/ OrgAddMember(c) \/ OrgAddMemberInserts(c)
               \/ OrgUpdateMemberRole(c) \/ OrgRemoveMember(c) \/ CompanyCreate(c)
               \/ CompanyInsert(c))
    BY <2>2, <2>5, QuietSteps, <2>3, QuietKept, IdentityStepKept
  <2> QED BY <2>4, <2>5
<1> QED BY <1>1, <1>2

LEMMA IdentityBegins == IdentityInit => IdentityInv
<1> SUFFICES ASSUME IdentityInit PROVE IdentityInv OBVIOUS
<1>1. TablesOK(rows) BY DEF IdentityInit, IdentityStart, TablesOK
<1>2. DOMAIN calls = Callers /\ \A c \in Callers : calls[c].op = "none"
  BY DEF IdentityInit, RequestsInit, NoCall, Gone
<1>3. \A c \in Callers : CallOK(rows, calls[c])
  BY <1>2 DEF CallOK, CreateOK, SessionOK, OrgOK, TelegramOK
<1>4. ASSUME NEW o \in Nat \ {0} PROVE CompanyLimitKept(o) /\ MemberLimitKept(o)
  <2>1. AddingCompany(o) = {} /\ AddingMember(o) = {}
    BY <1>2 DEF AddingCompany, AddingMember, AddsCompany, AddsMember
  <2>2. Cardinality({}) = 0 BY FS_EmptySet
  <2>3. Cardinality(Callers) \in Nat \ {0} /\ MaxCompanies \in Nat /\ MaxUsers \in Nat
    BY CallersAssumption, IdentityAssumption, FS_CardinalityType, FS_EmptySet
  <2>4. CASE o \in Ids(rows.orgs)
    <3>1. /\ Cardinality(CompaniesCounted(rows, o)) \in Nat
          /\ Cardinality(ListOrgMembers(rows, o)) \in Nat
      BY <1>1, CompaniesCount, MembersCount
    <3>2. /\ Cardinality(CompaniesCounted(rows, o)) <= MaxCompanies
          /\ Cardinality(ListOrgMembers(rows, o)) <= MaxUsers
      BY <2>4 DEF IdentityInit, IdentityStart
    <3> QED BY <2>1, <2>2, <2>3, <3>1, <3>2 DEF CompanyLimitKept, MemberLimitKept
  <2>5. CASE o \notin Ids(rows.orgs)
    <3>1. CompaniesCounted(rows, o) = {} /\ ListOrgMembers(rows, o) = {}
      BY <2>5 DEF IdentityInit, IdentityStart, CompaniesCounted, CompaniesByOrg, ListOrgMembers
    <3> QED BY <2>1, <2>2, <2>3, <3>1 DEF CompanyLimitKept, MemberLimitKept
  <2> QED BY <2>4, <2>5
<1> QED BY <1>1, <1>2, <1>3, <1>4 DEF IdentityInv, LimitsInv

LEMMA IdentityImplies == IdentityInv => IdentitySound
<1> SUFFICES ASSUME IdentityInv PROVE IdentitySound OBVIOUS
<1>1. AnsweredIsMember /\ RevokedYieldsNothing
  BY DEF IdentityInv, CallOK, CreateOK, SessionOK, AnsweredIsMember, RevokedYieldsNothing, IsMember
<1>2. LinkedIsMember BY DEF IdentityInv, TablesOK, LinkedIsMember
<1>3. LimitsBounded
  <2> SUFFICES ASSUME NEW o \in Ids(rows.orgs)
               PROVE  /\ Cardinality(CompaniesCounted(rows, o))
                           <= MaxCompanies + Cardinality(Callers) - 1
                      /\ Cardinality(ListOrgMembers(rows, o))
                           <= MaxUsers + Cardinality(Callers) - 1
    BY DEF LimitsBounded
  <2>1. TablesOK(rows) /\ o \in Nat \ {0} BY DEF IdentityInv, TablesOK, IdentityTables, Ids
  <2>2. CompanyLimitKept(o) /\ MemberLimitKept(o) BY <2>1 DEF IdentityInv, LimitsInv
  <2>3. IsFiniteSet(Callers) /\ Cardinality(Callers) \in Nat
    BY CallersAssumption, FS_CardinalityType
  <2>4. IsFiniteSet(AddingCompany(o)) /\ IsFiniteSet(AddingMember(o))
    BY <2>3, FS_Subset DEF AddingCompany, AddingMember
  <2>5. Cardinality(AddingCompany(o)) \in Nat /\ Cardinality(AddingMember(o)) \in Nat
    BY <2>4, FS_CardinalityType
  <2>6. /\ Cardinality(CompaniesCounted(rows, o)) \in Nat
        /\ Cardinality(ListOrgMembers(rows, o)) \in Nat
    BY <2>1, CompaniesCount, MembersCount
  <2> QED BY <2>2, <2>3, <2>5, <2>6, IdentityAssumption DEF CompanyLimitKept, MemberLimitKept
<1> QED BY <1>1, <1>2, <1>3 DEF IdentitySound

(* Whoever is told that a user was made finds a membership, no organization
   passes its limits by more than the requests that run beside each other, a
   revoked token yields nothing, and a Telegram account acts only for members,
   however the requests interleave (auth_service.go, org_service.go, link.go). *)
THEOREM IdentitySafe == IdentitySpec => []IdentitySound
<1> QED BY IdentityBegins, IdentityKept, IdentityImplies, PTL DEF IdentitySpec

----
(* Conversations. *)

(* A request that is being answered, at each of its steps. *)
TalkRows ==
    [op : {"chat", "agent"},
     at : {"say", "model", "session", "create_session", "retry_session", "expense", "follow",
           "answer", "late", "thread", "create_thread", "history", "title", "logged"},
     via : {"message", "stream", "bot"}, request : Nat, thread : Nat, entity : Nat,
     expenses : SUBSET Nat, session : Nat, isNew : BOOLEAN, shown : SUBSET Nat]

Closed(call) == call.at \in {"answered", "gone"}

TalkOK(db, call) ==
    /\ call \in TalkRows
    /\ call.request \in 1..db.begun \ call.shown
    /\ call.at \in {"title", "history", "thread", "create_thread", "logged"} => call.op = "agent"
    /\ call.at = "late" => call.op = "chat" /\ call.via = "message"
    /\ call.at = "say" /\ call.op = "chat" => call.via # "message"
    /\ call.op = "chat" => call.thread = 0 /\ ~call.isNew
    /\ call.op = "agent" => call.via = "stream"
    /\ call.op = "agent" /\ call.at \notin {"thread", "create_thread"} =>
         call.thread \in DOMAIN db.threads
    /\ call.at \in {"thread", "create_thread"} => ~call.isNew /\ call.thread = 0
    /\ call.at = "title" => call.isNew
    /\ call.at \notin {"follow", "logged", "answer", "late"} => call.expenses = {}
    /\ call.at = "expense" => call.session \in ActiveSessions(db)

(* Nothing that was said in it is stored yet. *)
Unsaid(call) ==
    \/ call.at \in {"say", "thread", "create_thread", "history"}
    \/ call.via = "message" /\ call.at # "late"

TalkInv ==
    /\ rows \in ConversationTables /\ DOMAIN calls = Callers
    /\ \A c \in Callers : Closed(calls[c]) \/ TalkOK(rows, calls[c])

TurnsInv ==
    /\ \A i \in DOMAIN rows.messages : /\ rows.messages[i].request \in 1..rows.begun
                                       /\ rows.messages[i].thread \in {0} \cup DOMAIN rows.threads
    /\ \A c, d \in Callers : Open(c) /\ Open(d) /\ calls[c].request = calls[d].request => c = d
    /\ \A c \in Callers, i \in DOMAIN rows.messages :
         Open(c) /\ rows.messages[i].request = calls[c].request =>
            /\ rows.messages[i].role = "user" /\ ~Unsaid(calls[c])
            /\ rows.messages[i].thread = calls[c].thread
            /\ Alone => i = Len(rows.messages)
    /\ \A i, j \in DOMAIN rows.messages :
         rows.messages[i].request = rows.messages[j].request =>
            /\ rows.messages[i].role = rows.messages[j].role => i = j
            /\ rows.messages[i].role = "user" /\ rows.messages[j].role = "assistant" =>
                  /\ i < j /\ rows.messages[i].thread = rows.messages[j].thread
                  /\ Alone => j = i + 1

IsTold(e) ==
    \/ \E m \in Saved(rows.expenses[e].request, "assistant") : e \in rows.messages[m].expenses
    \/ \E c \in Callers : /\ Open(c) /\ calls[c].request = rows.expenses[e].request
                          /\ e \in calls[c].expenses
    \/ rows.expenses[e].request \in rows.untold \/ rows.failed

ToldInv == \A e \in DOMAIN rows.expenses : IsTold(e)

(* How many may do the same thing because nobody has done it yet. *)
Together == IF Alone THEN 1 ELSE Cardinality(Callers)

CreatingSession == {c \in Callers : calls[c].at = "create_session"}

SessionsInv ==
    /\ \A e \in DOMAIN rows.expenses : rows.expenses[e].session \in ActiveSessions(rows)
    /\ ~rows.failed =>
         Cardinality(ActiveSessions(rows)) + Cardinality(CreatingSession) <= Together

ThreadsOf(db, entity) == {t \in DOMAIN db.threads : db.threads[t].entity = entity}
CreatingThread(entity) ==
    {c \in Callers : calls[c].at = "create_thread" /\ calls[c].entity = entity}

ThreadsInv ==
    ~rows.failed => \A entity \in Entities \ {0} :
        Cardinality(ThreadsOf(rows, entity)) + Cardinality(CreatingThread(entity)) <= Together

(* The thread's first message is of the request r. *)
Opened(db, t, r) ==
    \E i \in DOMAIN db.messages :
        /\ db.messages[i].thread = t /\ db.messages[i].request = r
        /\ \A j \in DOMAIN db.messages : db.messages[j].thread = t => i <= j

(* A request that is about to give the thread t, which it created, its name. *)
Names(call, t) ==
    ~Closed(call) /\ call.isNew /\ call.at \in {"history", "say", "title"} /\ call.thread = t

Naming(db, call) ==
    IF call.at = "title" THEN Opened(db, call.thread, call.request)
    ELSE \A i \in DOMAIN db.messages : db.messages[i].thread # call.thread

TitlesInv ==
    Alone /\ ~rows.failed =>
        /\ \A c \in Callers : Names(calls[c], calls[c].thread) => Naming(rows, calls[c])
        /\ \A t \in DOMAIN rows.threads :
             \/ Opened(rows, t, rows.threads[t].title)
             \/ \E c \in Callers : Names(calls[c], t)

ConversationsInv == TalkInv /\ TurnsInv /\ ToldInv /\ SessionsInv /\ ThreadsInv /\ TitlesInv
----
(* A row appended to a table. *)
LEMMA Appended ==
    ASSUME NEW S, NEW s \in Seq(S), NEW e \in S
    PROVE  /\ Append(s, e) \in Seq(S) /\ Len(Append(s, e)) = Len(s) + 1
           /\ DOMAIN Append(s, e) = DOMAIN s \cup {Len(s) + 1}
           /\ DOMAIN s = 1..Len(s) /\ Len(s) \in Nat
           /\ \A i \in DOMAIN s : Append(s, e)[i] = s[i]
           /\ Append(s, e)[Len(s) + 1] = e
<1>1. /\ Append(s, e) \in Seq(S) /\ Len(Append(s, e)) = Len(s) + 1
      /\ \A i \in 1..Len(s) : Append(s, e)[i] = s[i]
      /\ Append(s, e)[Len(s) + 1] = e
  OBVIOUS
<1>2. DOMAIN Append(s, e) = 1..(Len(s) + 1) /\ DOMAIN s = 1..Len(s) /\ Len(s) \in Nat BY <1>1
<1>3. DOMAIN Append(s, e) = DOMAIN s \cup {Len(s) + 1} BY <1>2
<1> QED BY <1>1, <1>2, <1>3

(* c takes a step: who is gone stays gone. *)
LEMMA AloneStays ==
    ASSUME NEW c \in Callers, Moved(c)
    PROVE  /\ Alone' <=> Alone
           /\ Alone => \A d \in Callers \ {c} : ~Open(d) /\ calls[d].at = "gone"
BY AloneKept DEF Gone, Open

LEMMA TogetherKept ==
    ASSUME NEW c \in Callers, Moved(c)
    PROVE  /\ Together' = Together /\ Together \in Nat
           /\ \A S \in SUBSET Callers :
                IsFiniteSet(S) /\ Cardinality(S) \in Nat
           /\ \A S \in SUBSET Callers :
                (\A d \in S : calls'[d].at # "gone") => Cardinality(S) <= Together
<1>1. IsFiniteSet(Callers) /\ Cardinality(Callers) \in Nat BY CallersAssumption, FS_CardinalityType
<1>2. Together' = Together /\ Together \in Nat BY <1>1, AloneStays DEF Together
<1>3. ASSUME NEW S \in SUBSET Callers
      PROVE  IsFiniteSet(S) /\ Cardinality(S) \in Nat /\ Cardinality(S) <= Cardinality(Callers)
  BY <1>1, FS_Subset, FS_CardinalityType
<1>4. ASSUME NEW S \in SUBSET Callers, \A d \in S : calls'[d].at # "gone"
      PROVE  Cardinality(S) <= Together
  <2>1. CASE Alone
    <3>1. S \subseteq {c} BY <1>4, <2>1, AloneStays DEF Moved
    <3>2. IsFiniteSet({c}) /\ Cardinality({c}) = 1 BY FS_Singleton
    <3>3. Cardinality(S) <= 1 BY <3>1, <3>2, FS_Subset
    <3> QED BY <2>1, <3>3 DEF Together
  <2>2. CASE ~Alone BY <1>3, <2>2 DEF Together
  <2> QED BY <2>1, <2>2
<1> QED BY <1>2, <1>3, <1>4

----
(* What a step may leave alone, part by part of the invariant. *)
LEMMA TurnsStay ==
    ASSUME TurnsInv, NEW c \in Callers, Moved(c), rows'.messages = rows.messages,
           rows'.begun = rows.begun, DOMAIN rows.threads \subseteq DOMAIN rows'.threads,
           \/ ~Open(c)'
           \/ /\ Open(c) /\ calls'[c].request = calls[c].request
              /\ Unsaid(calls'[c]) => Unsaid(calls[c])
              /\ Unsaid(calls[c]) \/ calls'[c].thread = calls[c].thread
    PROVE  TurnsInv'
<1> USE DEF Moved
<1>1. \A d \in Callers \ {c} : Open(d)' <=> Open(d) BY DEF Open
<1>2. \A i \in DOMAIN rows'.messages :
        /\ rows'.messages[i].request \in 1..rows'.begun
        /\ rows'.messages[i].thread \in {0} \cup DOMAIN rows'.threads
  BY DEF TurnsInv
<1>3. \A d, e \in Callers : Open(d)' /\ Open(e)' /\ calls'[d].request = calls'[e].request => d = e
  BY <1>1 DEF TurnsInv
<1>4. ASSUME NEW d \in Callers, NEW i \in DOMAIN rows'.messages, Open(d)',
             rows'.messages[i].request = calls'[d].request
      PROVE  /\ rows'.messages[i].role = "user" /\ ~Unsaid(calls'[d])
             /\ rows'.messages[i].thread = calls'[d].thread
             /\ Alone' => i = Len(rows'.messages)
  BY <1>1, <1>4, AloneStays DEF TurnsInv
<1>5. \A i, j \in DOMAIN rows'.messages :
         rows'.messages[i].request = rows'.messages[j].request =>
            /\ rows'.messages[i].role = rows'.messages[j].role => i = j
            /\ rows'.messages[i].role = "user" /\ rows'.messages[j].role = "assistant" =>
                  /\ i < j /\ rows'.messages[i].thread = rows'.messages[j].thread
                  /\ Alone' => j = i + 1
  BY AloneStays DEF TurnsInv
<1> QED BY <1>2, <1>3, <1>4, <1>5 DEF TurnsInv

LEMMA TurnsAppend ==
    ASSUME TalkInv, TurnsInv, NEW c \in Callers, Moved(c), Open(c), NEW role \in {"user", "assistant"},
           rows'.messages = Append(rows.messages, Message(c, role)),
           rows'.begun = rows.begun, rows'.threads = rows.threads,
           \/ role = "assistant" /\ ~Open(c)'
           \/ /\ role = "user" /\ Unsaid(calls[c]) /\ ~Unsaid(calls'[c])
              /\ calls'[c].request = calls[c].request /\ calls'[c].thread = calls[c].thread
    PROVE  TurnsInv'
<1> USE DEF Moved
<1> DEFINE n == Len(rows.messages) + 1
           new == Message(c, role)
<1>1. TalkOK(rows, calls[c]) BY DEF TalkInv, Closed, Open
<1>2. /\ new.request = calls[c].request /\ new.role = role /\ new.thread = calls[c].thread
      /\ new \in MessageRows
  BY <1>1 DEF Message, MessageRows, TalkOK, TalkRows
<1>3. rows.messages \in Seq(MessageRows) BY DEF TalkInv, ConversationTables
<1> HIDE DEF new
<1>4. /\ DOMAIN rows'.messages = DOMAIN rows.messages \cup {n} /\ Len(rows'.messages) = n
      /\ DOMAIN rows.messages = 1..Len(rows.messages) /\ Len(rows.messages) \in Nat
      /\ \A i \in DOMAIN rows.messages : rows'.messages[i] = rows.messages[i]
      /\ rows'.messages[n] = new
  BY <1>2, <1>3, Appended DEF new
<1>5. \A d \in Callers \ {c} : Open(d)' <=> Open(d) BY DEF Open
<1>6. calls[c].request \in 1..rows.begun /\ calls[c].thread \in {0} \cup DOMAIN rows.threads
  BY <1>1 DEF TalkOK, TalkRows
<1>7. \A i \in DOMAIN rows'.messages :
        /\ rows'.messages[i].request \in 1..rows'.begun
        /\ rows'.messages[i].thread \in {0} \cup DOMAIN rows'.threads
  BY <1>2, <1>4, <1>6 DEF TurnsInv
<1>8. \A d, e \in Callers : Open(d)' /\ Open(e)' /\ calls'[d].request = calls'[e].request => d = e
  BY <1>5 DEF TurnsInv
<1>9. ASSUME NEW d \in Callers, NEW i \in DOMAIN rows'.messages, Open(d)',
             rows'.messages[i].request = calls'[d].request
      PROVE  /\ rows'.messages[i].role = "user" /\ ~Unsaid(calls'[d])
             /\ rows'.messages[i].thread = calls'[d].thread
             /\ Alone' => i = Len(rows'.messages)
  BY <1>2, <1>4, <1>9, <1>5, AloneStays DEF TurnsInv
<1>10. ASSUME NEW i \in DOMAIN rows'.messages, NEW j \in DOMAIN rows'.messages,
              rows'.messages[i].request = rows'.messages[j].request
       PROVE  /\ rows'.messages[i].role = rows'.messages[j].role => i = j
              /\ rows'.messages[i].role = "user" /\ rows'.messages[j].role = "assistant" =>
                   /\ i < j /\ rows'.messages[i].thread = rows'.messages[j].thread
                   /\ Alone' => j = i + 1
  <2>1. CASE i = n /\ j = n BY <1>2, <1>4, <2>1
  <2>2. CASE i # n /\ j = n
    BY <1>2, <1>4, <1>10, <2>2, AloneStays DEF TurnsInv
  <2>3. CASE i = n /\ j # n
    BY <1>2, <1>4, <1>10, <2>3 DEF TurnsInv
  <2>4. CASE i # n /\ j # n BY <1>4, <1>10, <2>4, AloneStays DEF TurnsInv
  <2> QED BY <2>1, <2>2, <2>3, <2>4
<1> QED BY <1>7, <1>8, <1>9, <1>10 DEF TurnsInv

LEMMA ToldStay ==
    ASSUME ToldInv, NEW c \in Callers, Moved(c), rows'.expenses = rows.expenses,
           \A i \in DOMAIN rows.messages :
               i \in DOMAIN rows'.messages /\ rows'.messages[i] = rows.messages[i],
           rows.untold \subseteq rows'.untold, rows.failed => rows'.failed,
           \/ ~Open(c)
           \/ /\ Open(c)' /\ calls'[c].request = calls[c].request
              /\ calls'[c].expenses = calls[c].expenses
           \/ calls[c].request \in rows'.untold \/ rows'.failed
           \/ \E m \in DOMAIN rows'.messages :
                /\ rows'.messages[m].role = "assistant"
                /\ rows'.messages[m].request = calls[c].request
                /\ rows'.messages[m].expenses = calls[c].expenses
    PROVE  ToldInv'
<1> SUFFICES ASSUME NEW e \in DOMAIN rows.expenses PROVE IsTold(e)' BY DEF ToldInv
<1> DEFINE r == rows.expenses[e].request
<1>1. IsTold(e) BY DEF ToldInv
<1>2. CASE \E m \in Saved(r, "assistant") : e \in rows.messages[m].expenses
  BY <1>2 DEF IsTold, Saved, SavedIn
<1>3. ASSUME NEW d \in Callers, Open(d), calls[d].request = r, e \in calls[d].expenses
      PROVE  IsTold(e)'
  BY <1>3 DEF IsTold, Open, Moved, Saved, SavedIn
<1>4. CASE r \in rows.untold \/ rows.failed BY <1>4 DEF IsTold
<1> QED BY <1>1, <1>2, <1>3, <1>4 DEF IsTold

LEMMA SessionsStay ==
    ASSUME SessionsInv, NEW c \in Callers, Moved(c), rows'.sessions = rows.sessions,
           rows'.expenses = rows.expenses, rows.failed => rows'.failed,
           \/ calls'[c].at # "create_session" \/ rows'.failed
           \/ ActiveSessions(rows) = {},
           Cardinality(ActiveSessions(rows)) \in Nat
    PROVE  SessionsInv'
<1>1. ActiveSessions(rows') = ActiveSessions(rows) BY DEF ActiveSessions
<1>2. CASE rows'.failed BY <1>1, <1>2 DEF SessionsInv
<1>3. CASE ActiveSessions(rows) = {}
  BY <1>3, FS_EmptySet, TogetherKept, <1>1 DEF CreatingSession, SessionsInv
<1>4. CASE calls'[c].at # "create_session"
  BY <1>4, TogetherKept, FS_Subset, <1>1 DEF CreatingSession, Moved, SessionsInv
<1> QED BY <1>2, <1>3, <1>4

LEMMA ThreadsStay ==
    ASSUME ThreadsInv, NEW c \in Callers, Moved(c),
           rows.failed => rows'.failed,
           calls'[c].at = "create_thread" => \/ rows'.failed \/ calls'[c].entity = 0
                                             \/ ThreadsOf(rows, calls'[c].entity) = {},
           \A entity \in Entities \ {0} :
               /\ ThreadsOf(rows', entity) = ThreadsOf(rows, entity)
               /\ Cardinality(ThreadsOf(rows, entity)) \in Nat
    PROVE  ThreadsInv'
<1> SUFFICES ASSUME ~rows'.failed, NEW entity \in Entities \ {0}
             PROVE  Cardinality(ThreadsOf(rows', entity)) + Cardinality(CreatingThread(entity)')
                      <= Together'
  BY DEF ThreadsInv
<1>1. CASE calls'[c].at = "create_thread" /\ calls'[c].entity = entity
  BY <1>1, FS_EmptySet, TogetherKept DEF CreatingThread
<1>2. CASE ~(calls'[c].at = "create_thread" /\ calls'[c].entity = entity)
  <2>1. /\ CreatingThread(entity)' \subseteq CreatingThread(entity)
        /\ CreatingThread(entity) \subseteq Callers
    BY <1>2 DEF CreatingThread, Moved
  <2>2. /\ Cardinality(CreatingThread(entity)') <= Cardinality(CreatingThread(entity))
        /\ Cardinality(CreatingThread(entity)) \in Nat
        /\ Cardinality(CreatingThread(entity)') \in Nat
    BY <2>1, TogetherKept, FS_Subset
  <2>3. Cardinality(ThreadsOf(rows, entity)) + Cardinality(CreatingThread(entity)) <= Together
    BY DEF ThreadsInv
  <2> QED BY <2>2, <2>3, TogetherKept
<1> QED BY <1>1, <1>2

LEMMA TitlesStay ==
    ASSUME TitlesInv, NEW c \in Callers, Moved(c), rows'.messages = rows.messages,
           rows'.threads = rows.threads, rows.failed => rows'.failed,
           \/ rows'.failed
           \/ /\ ~Names(calls[c], calls[c].thread)
              /\ ~Names(calls'[c], calls'[c].thread)
           \/ /\ ~Closed(calls[c]) /\ calls[c].at = "history" /\ calls'[c].at = "say"
              /\ calls'[c].isNew = calls[c].isNew /\ calls'[c].thread = calls[c].thread
    PROVE  TitlesInv'
<1> SUFFICES ASSUME Alone', ~rows'.failed
             PROVE  /\ \A d \in Callers :
                         Names(calls'[d], calls'[d].thread) => Naming(rows', calls'[d])
                    /\ \A t \in DOMAIN rows.threads :
                         \/ Opened(rows', t, rows'.threads[t].title)
                         \/ \E d \in Callers : Names(calls'[d], t)
  BY DEF TitlesInv
<1>1. \A r, t : Opened(rows', t, r) <=> Opened(rows, t, r) BY DEF Opened
<1>2. /\ \A d \in Callers : Names(calls[d], calls[d].thread) => Naming(rows, calls[d])
      /\ \A t \in DOMAIN rows.threads :
           \/ Opened(rows, t, rows.threads[t].title)
           \/ \E d \in Callers : Names(calls[d], t)
  BY AloneStays DEF TitlesInv
<1>3. ASSUME NEW d \in Callers, Names(calls'[d], calls'[d].thread) PROVE Naming(rows', calls'[d])
  BY <1>1, <1>2, <1>3 DEF Names, Naming, Moved, Closed
<1>4. ASSUME NEW t, NEW d \in Callers, Names(calls[d], t) PROVE Names(calls'[d], t)
  BY <1>4 DEF Moved, Names, Closed
<1> QED BY <1>1, <1>2, <1>3, <1>4

----
(* What the requests rely on is never taken away. *)
Follows(db, new) ==
    /\ new \in ConversationTables /\ 1..db.begun \subseteq 1..new.begun
    /\ DOMAIN db.threads \subseteq DOMAIN new.threads
    /\ ActiveSessions(db) \subseteq ActiveSessions(new)

LEMMA TalkStays ==
    ASSUME TalkInv, NEW c \in Callers, Moved(c), Follows(rows, rows'),
           Closed(calls'[c]) \/ TalkOK(rows', calls'[c])
    PROVE  TalkInv'
<1>1. ASSUME NEW d \in Callers, d # c PROVE Closed(calls'[d]) \/ TalkOK(rows', calls'[d])
  BY <1>1 DEF TalkInv, Moved, Follows, TalkOK
<1> QED BY <1>1 DEF TalkInv, Moved, Follows

LEMMA ActiveCount ==
    ASSUME NEW db, db \in ConversationTables
    PROVE  /\ IsFiniteSet(ActiveSessions(db)) /\ Cardinality(ActiveSessions(db)) \in Nat
           /\ \A entity : /\ IsFiniteSet(ThreadsOf(db, entity))
                          /\ Cardinality(ThreadsOf(db, entity)) \in Nat
<1>1. /\ DOMAIN db.sessions = 1..Len(db.sessions) /\ Len(db.sessions) \in Nat
      /\ DOMAIN db.threads = 1..Len(db.threads) /\ Len(db.threads) \in Nat
  BY DEF ConversationTables
<1>2. IsFiniteSet(1..Len(db.sessions)) /\ IsFiniteSet(1..Len(db.threads)) BY <1>1, FS_Interval
<1>3. ActiveSessions(db) \subseteq 1..Len(db.sessions)
      /\ \A entity : ThreadsOf(db, entity) \subseteq 1..Len(db.threads)
  BY <1>1 DEF ActiveSessions, ThreadsOf
<1>4. IsFiniteSet(ActiveSessions(db)) /\ \A entity : IsFiniteSet(ThreadsOf(db, entity))
  BY <1>2, <1>3, FS_Subset
<1> QED BY <1>4, FS_CardinalityType

(* A step that stores nothing the invariant is about. *)
Rests ==
    /\ rows' \in ConversationTables
    /\ rows'.messages = rows.messages /\ rows'.threads = rows.threads
    /\ rows'.sessions = rows.sessions /\ rows'.expenses = rows.expenses
    /\ rows'.begun = rows.begun
    /\ rows.untold \subseteq rows'.untold /\ (rows.failed => rows'.failed)

LEMMA RestsFollows == Rests => Follows(rows, rows') /\ ActiveSessions(rows') = ActiveSessions(rows)
                                /\ \A entity : ThreadsOf(rows', entity) = ThreadsOf(rows, entity)
BY DEF Rests, Follows, ActiveSessions, ThreadsOf

LEMMA OpenTalks ==
    ASSUME TalkInv, NEW c \in Callers, Open(c)
    PROVE  TalkOK(rows, calls[c]) /\ calls[c] \in TalkRows
BY DEF TalkInv, Open, Closed, TalkOK

(* A request goes on with nothing stored. *)
LEMMA GoesOn ==
    ASSUME ConversationsInv, NEW c \in Callers, Rests, Open(c), NEW call,
           calls' = [calls EXCEPT ![c] = call], TalkOK(rows, call),
           call.request = calls[c].request, call.expenses = calls[c].expenses,
           call.at # "create_session" \/ rows'.failed \/ ActiveSessions(rows) = {},
           call.at = "create_thread" =>
               rows'.failed \/ call.entity = 0 \/ ThreadsOf(rows, call.entity) = {},
           Unsaid(call) => Unsaid(calls[c]), Unsaid(calls[c]) \/ call.thread = calls[c].thread,
           \/ rows'.failed
           \/ ~Names(calls[c], calls[c].thread) /\ ~Names(call, call.thread)
           \/ /\ calls[c].at = "history" /\ call.at = "say"
              /\ call.isNew = calls[c].isNew /\ call.thread = calls[c].thread
    PROVE  ConversationsInv'
<1> USE DEF ConversationsInv
<1>1. calls'[c] = call /\ Open(c)' /\ ~Closed(call) BY DEF TalkInv, TalkOK, TalkRows, Open, Closed
<1>2. Moved(c) BY <1>1 DEF TalkInv, Moved, Open
<1>3. /\ Follows(rows, rows') /\ ActiveSessions(rows') = ActiveSessions(rows)
      /\ \A entity : ThreadsOf(rows', entity) = ThreadsOf(rows, entity)
  BY RestsFollows
<1>4. rows \in ConversationTables BY DEF TalkInv
<1>5. TalkOK(rows', call) BY <1>3 DEF TalkOK, Follows
<1>6. TalkInv' BY <1>1, <1>2, <1>3, <1>5, TalkStays
<1>7. TurnsInv' BY <1>1, <1>2, TurnsStay DEF Rests
<1>8. ToldInv' BY <1>1, <1>2, ToldStay DEF Rests
<1>9. SessionsInv' BY <1>1, <1>2, <1>4, ActiveCount, SessionsStay DEF Rests
<1>10. ThreadsInv' BY <1>1, <1>2, <1>3, <1>4, ActiveCount, ThreadsStay DEF Rests
<1>11. TitlesInv'
  BY <1>1, <1>2, TitlesStay DEF Open, Closed, Rests
<1> QED BY <1>6, <1>7, <1>8, <1>9, <1>10, <1>11

(* A request ends with nothing stored, or an idle goroutine answers at once. *)
LEMMA Ends ==
    ASSUME ConversationsInv, NEW c \in Callers, Rests, NEW call,
           calls' = [calls EXCEPT ![c] = call], call.at = "answered", calls[c].at # "gone",
           ~Open(c) \/ calls[c].request \in rows'.untold \/ rows'.failed,
           rows'.failed \/ ~Names(calls[c], calls[c].thread)
    PROVE  ConversationsInv'
<1> USE DEF ConversationsInv
<1>1. calls'[c] = call /\ ~Open(c)' /\ Closed(call) BY DEF TalkInv, Open, Closed
<1>2. Moved(c) BY <1>1 DEF TalkInv, Moved
<1>3. /\ Follows(rows, rows') /\ ActiveSessions(rows') = ActiveSessions(rows)
      /\ \A entity : ThreadsOf(rows', entity) = ThreadsOf(rows, entity)
  BY RestsFollows
<1>4. rows \in ConversationTables BY DEF TalkInv
<1>5. TalkInv' BY <1>1, <1>2, <1>3, TalkStays
<1>6. TurnsInv' BY <1>1, <1>2, TurnsStay DEF Rests
<1>7. ToldInv' BY <1>1, <1>2, ToldStay DEF Rests
<1>8. SessionsInv' BY <1>1, <1>2, <1>4, ActiveCount, SessionsStay DEF Rests
<1>9. ThreadsInv' BY <1>1, <1>2, <1>3, <1>4, ActiveCount, ThreadsStay DEF Rests
<1>10. TitlesInv'
  BY <1>1, <1>2, TitlesStay DEF Names, Closed, Rests
<1> QED BY <1>5, <1>6, <1>7, <1>8, <1>9, <1>10

(* A message is appended: what opened a thread still does. *)
LEMMA MessageWritten ==
    ASSUME ConversationsInv, NEW c \in Callers, Open(c), NEW role \in {"user", "assistant"},
           rows' = [rows EXCEPT !.messages = Append(@, Message(c, role))]
    PROVE  /\ rows' \in ConversationTables /\ Follows(rows, rows')
           /\ rows'.messages = Append(rows.messages, Message(c, role))
           /\ \A f \in {"threads", "sessions", "expenses", "begun", "untold", "failed"} :
                 rows'[f] = rows[f]
           /\ ActiveSessions(rows') = ActiveSessions(rows)
           /\ \A entity : ThreadsOf(rows', entity) = ThreadsOf(rows, entity)
           /\ LET new == Message(c, role)
                  n == Len(rows.messages) + 1
              IN  /\ new.request = calls[c].request /\ new.role = role
                  /\ new.thread = calls[c].thread
                  /\ role = "assistant" => new.expenses = calls[c].expenses
                  /\ DOMAIN rows'.messages = DOMAIN rows.messages \cup {n}
                  /\ DOMAIN rows.messages = 1..Len(rows.messages) /\ Len(rows.messages) \in Nat
                  /\ \A i \in DOMAIN rows.messages : rows'.messages[i] = rows.messages[i]
                  /\ rows'.messages[n] = new
           /\ \A t, r : Opened(rows, t, r) => Opened(rows', t, r)
<1> DEFINE new == Message(c, role)
           n == Len(rows.messages) + 1
           messages == Append(rows.messages, new)
<1>1. calls[c] \in TalkRows /\ rows \in ConversationTables /\ rows.messages \in Seq(MessageRows)
  BY OpenTalks DEF ConversationsInv, TalkInv, ConversationTables
<1>2. /\ new.request = calls[c].request /\ new.role = role /\ new.thread = calls[c].thread
      /\ new \in MessageRows /\ (role = "assistant" => new.expenses = calls[c].expenses)
  BY <1>1 DEF Message, MessageRows, TalkRows
<1> HIDE DEF new
<1>3. /\ DOMAIN messages = DOMAIN rows.messages \cup {n} /\ messages \in Seq(MessageRows)
      /\ DOMAIN rows.messages = 1..Len(rows.messages) /\ Len(rows.messages) \in Nat
      /\ \A i \in DOMAIN rows.messages : messages[i] = rows.messages[i]
      /\ messages[n] = new
  BY <1>1, <1>2, Appended
<1>4. rows' = [rows EXCEPT !.messages = messages] BY DEF new
<1> HIDE DEF messages
<1>5. /\ rows' \in ConversationTables /\ rows'.messages = messages
      /\ \A f \in {"threads", "sessions", "expenses", "begun", "untold", "failed"} :
            rows'[f] = rows[f]
  BY <1>1, <1>3, <1>4 DEF ConversationTables
<1>6. /\ Follows(rows, rows') /\ ActiveSessions(rows') = ActiveSessions(rows)
      /\ \A entity : ThreadsOf(rows', entity) = ThreadsOf(rows, entity)
  BY <1>5 DEF Follows, ActiveSessions, ThreadsOf
<1>7. ASSUME NEW t, NEW r, Opened(rows, t, r) PROVE Opened(rows', t, r)
  <2>1. PICK i \in DOMAIN rows.messages :
          /\ rows.messages[i].thread = t /\ rows.messages[i].request = r
          /\ \A j \in DOMAIN rows.messages : rows.messages[j].thread = t => i <= j
    BY <1>7 DEF Opened
  <2>2. i <= n BY <1>3
  <2> QED BY <1>3, <1>5, <2>1, <2>2 DEF Opened
<1> QED BY <1>2, <1>3, <1>5, <1>6, <1>7 DEF new, messages

(* The user's words are stored. *)
LEMMA Says ==
    ASSUME ConversationsInv, NEW c \in Callers, Open(c), NEW call,
           rows' = [rows EXCEPT !.messages = Append(@, Message(c, "user"))],
           calls' = [calls EXCEPT ![c] = call], TalkOK(rows, call),
           call.request = calls[c].request, call.expenses = calls[c].expenses,
           call.thread = calls[c].thread, call.isNew = calls[c].isNew,
           call.at \notin {"create_session", "create_thread"},
           Unsaid(calls[c]), ~Unsaid(call),
           calls[c].isNew => calls[c].at = "say" /\ call.at = "title" /\ call.isNew
    PROVE  ConversationsInv'
<1> USE DEF ConversationsInv
<1>1. calls'[c] = call /\ Open(c)' /\ ~Closed(call) BY DEF TalkInv, TalkOK, TalkRows, Open, Closed
<1>2. Moved(c) BY <1>1 DEF TalkInv, Moved, Open
<1>3. /\ rows' \in ConversationTables /\ Follows(rows, rows')
      /\ rows'.messages = Append(rows.messages, Message(c, "user"))
      /\ \A f \in {"threads", "sessions", "expenses", "begun", "untold", "failed"} :
            rows'[f] = rows[f]
      /\ ActiveSessions(rows') = ActiveSessions(rows)
      /\ \A entity : ThreadsOf(rows', entity) = ThreadsOf(rows, entity)
  BY MessageWritten
<1>4. rows \in ConversationTables BY DEF TalkInv
<1> DEFINE n == Len(rows.messages) + 1
<1>5. /\ DOMAIN rows'.messages = DOMAIN rows.messages \cup {n}
      /\ DOMAIN rows.messages = 1..Len(rows.messages) /\ Len(rows.messages) \in Nat
      /\ \A i \in DOMAIN rows.messages : rows'.messages[i] = rows.messages[i]
      /\ rows'.messages[n].request = calls[c].request
      /\ rows'.messages[n].thread = calls[c].thread
  BY MessageWritten
<1>6. \A t, r : Opened(rows, t, r) => Opened(rows', t, r) BY MessageWritten
<1>7. TalkInv'
  <2>1. TalkOK(rows', call) BY <1>3 DEF TalkOK, Follows
  <2> QED BY <1>1, <1>2, <1>3, <2>1, TalkStays
<1>8. TurnsInv' BY <1>1, <1>2, <1>3, TurnsAppend
<1>9. ToldInv' BY <1>1, <1>2, <1>3, <1>5, ToldStay
<1>10. SessionsInv' BY <1>1, <1>2, <1>3, <1>4, ActiveCount, SessionsStay
<1>11. ThreadsInv' BY <1>1, <1>2, <1>3, <1>4, ActiveCount, ThreadsStay
<1>12. TitlesInv'
  <2> SUFFICES ASSUME Alone', ~rows'.failed
               PROVE  /\ \A d \in Callers :
                           Names(calls'[d], calls'[d].thread) => Naming(rows', calls'[d])
                      /\ \A t \in DOMAIN rows'.threads :
                           \/ Opened(rows', t, rows'.threads[t].title)
                           \/ \E d \in Callers : Names(calls'[d], t)
    BY DEF TitlesInv
  <2>1. Alone /\ ~rows.failed /\ rows'.threads = rows.threads BY <1>2, <1>3, AloneStays
  <2>2. /\ \A d \in Callers : Names(calls[d], calls[d].thread) => Naming(rows, calls[d])
        /\ \A t \in DOMAIN rows.threads :
             \/ Opened(rows, t, rows.threads[t].title)
             \/ \E d \in Callers : Names(calls[d], t)
    BY <2>1 DEF TitlesInv
  <2>3. \A d \in Callers \ {c} : Closed(calls[d]) /\ calls'[d] = calls[d]
    BY <1>2, <2>1, AloneStays DEF Closed, Moved
  <2>4. ASSUME Names(call, call.thread) PROVE Naming(rows', call)
    <3>1. calls[c].isNew BY <2>4 DEF Names
    <3>2. /\ calls[c].at = "say" /\ call.at = "title" /\ ~Closed(calls[c])
      BY <3>1 DEF Open, Closed
    <3>3. \A i \in DOMAIN rows.messages : rows.messages[i].thread # calls[c].thread
      BY <2>2, <3>1, <3>2 DEF Names, Naming
    <3>4. Opened(rows', calls[c].thread, calls[c].request) BY <1>5, <3>3 DEF Opened
    <3> QED BY <3>2, <3>4 DEF Naming
  <2>5. ASSUME NEW t, Names(calls[c], t) PROVE Names(call, t) BY <1>1, <2>5 DEF Names
  <2>6. \A d \in Callers : Names(calls'[d], calls'[d].thread) => Naming(rows', calls'[d])
    <3>1. ASSUME NEW d \in Callers \ {c} PROVE ~Names(calls'[d], calls'[d].thread) BY <2>3 DEF Names
    <3> QED BY <1>1, <2>4, <3>1
  <2>7. ASSUME NEW t \in DOMAIN rows'.threads
        PROVE  \/ Opened(rows', t, rows'.threads[t].title)
               \/ \E d \in Callers : Names(calls'[d], t)
    <3>1. CASE Opened(rows, t, rows.threads[t].title) BY <1>6, <2>1, <3>1
    <3>2. ASSUME NEW d \in Callers, Names(calls[d], t) PROVE Names(calls'[d], t)
      BY <2>3, <3>2, <1>1, <2>5 DEF Names
    <3> QED BY <2>1, <2>2, <3>1, <3>2
  <2> QED BY <2>6, <2>7
<1> QED BY <1>7, <1>8, <1>9, <1>10, <1>11, <1>12

(* The answer is stored, and the request ends. *)
LEMMA Tells ==
    ASSUME ConversationsInv, NEW c \in Callers, Open(c), NEW call,
           rows' = [rows EXCEPT !.messages = Append(@, Message(c, "assistant"))],
           calls' = [calls EXCEPT ![c] = call], call.at = "answered",
           calls[c].at \notin {"history", "say", "title"}
    PROVE  ConversationsInv'
<1> USE DEF ConversationsInv
<1>1. calls'[c] = call /\ ~Open(c)' /\ Closed(call) BY DEF TalkInv, Open, Closed
<1>2. Moved(c) BY <1>1 DEF TalkInv, Moved, Open
<1>3. /\ rows' \in ConversationTables /\ Follows(rows, rows')
      /\ rows'.messages = Append(rows.messages, Message(c, "assistant"))
      /\ \A f \in {"threads", "sessions", "expenses", "begun", "untold", "failed"} :
            rows'[f] = rows[f]
      /\ ActiveSessions(rows') = ActiveSessions(rows)
      /\ \A entity : ThreadsOf(rows', entity) = ThreadsOf(rows, entity)
  BY MessageWritten
<1>4. rows \in ConversationTables BY DEF TalkInv
<1> DEFINE n == Len(rows.messages) + 1
<1>5. /\ DOMAIN rows'.messages = DOMAIN rows.messages \cup {n}
      /\ \A i \in DOMAIN rows.messages : rows'.messages[i] = rows.messages[i]
      /\ rows'.messages[n].request = calls[c].request /\ rows'.messages[n].role = "assistant"
      /\ rows'.messages[n].expenses = calls[c].expenses
  BY MessageWritten
<1>6. \A t, r : Opened(rows, t, r) => Opened(rows', t, r) BY MessageWritten
<1>7. TalkInv' BY <1>1, <1>2, <1>3, TalkStays
<1>8. TurnsInv' BY <1>1, <1>2, <1>3, TurnsAppend
<1>9. ToldInv'
  <2>1. n \in DOMAIN rows'.messages BY <1>5
  <2> HIDE DEF n
  <2> QED BY <1>1, <1>2, <1>3, <1>5, <2>1, ToldStay
<1>10. SessionsInv' BY <1>1, <1>2, <1>3, <1>4, ActiveCount, SessionsStay
<1>11. ThreadsInv' BY <1>1, <1>2, <1>3, <1>4, ActiveCount, ThreadsStay
<1>12. TitlesInv'
  <2> SUFFICES ASSUME Alone', ~rows'.failed
               PROVE  /\ \A d \in Callers : Closed(calls'[d])
                      /\ \A t \in DOMAIN rows'.threads : Opened(rows', t, rows'.threads[t].title)
    BY DEF TitlesInv, Names
  <2>1. Alone /\ ~rows.failed /\ rows'.threads = rows.threads BY <1>2, <1>3, AloneStays
  <2>2. \A d \in Callers \ {c} : Closed(calls[d]) /\ calls'[d] = calls[d]
    BY <1>2, <2>1, AloneStays DEF Closed, Moved
  <2>3. \A d \in Callers, t \in DOMAIN rows.threads : ~Names(calls[d], t) BY <2>2 DEF Names
  <2>4. \A t \in DOMAIN rows.threads : Opened(rows, t, rows.threads[t].title)
    BY <2>1, <2>3 DEF TitlesInv
  <2> QED BY <1>1, <1>6, <2>1, <2>2, <2>4
<1> QED BY <1>7, <1>8, <1>9, <1>10, <1>11, <1>12

(* A request arrives. *)
LEMMA BeginsTalk ==
    ASSUME ConversationsInv, NEW c \in Callers, rows' = [rows EXCEPT !.begun = @ + 1],
           NEW call, calls' = [calls EXCEPT ![c] = call], calls[c].at = "answered",
           TalkOK(rows', call), call.request = rows.begun + 1, ~call.isNew,
           call.at \notin {"create_session", "create_thread"}
    PROVE  ConversationsInv'
<1> USE DEF ConversationsInv
<1>1. calls'[c] = call /\ Open(c)' /\ ~Closed(call) /\ ~Open(c)
  BY DEF TalkInv, TalkOK, TalkRows, Open, Closed
<1>2. Moved(c) BY <1>1 DEF TalkInv, Moved, Open
<1>3. rows \in ConversationTables /\ rows.begun \in Nat BY DEF TalkInv, ConversationTables
<1>4. /\ rows' \in ConversationTables /\ rows'.begun = rows.begun + 1
      /\ rows'.messages = rows.messages /\ rows'.threads = rows.threads
      /\ rows'.sessions = rows.sessions /\ rows'.expenses = rows.expenses
      /\ rows'.untold = rows.untold /\ rows'.failed = rows.failed
  <2> DEFINE begun == rows.begun + 1
  <2>1. begun \in Nat /\ rows' = [rows EXCEPT !.begun = begun] BY <1>3
  <2> HIDE DEF begun
  <2>2. /\ rows' \in ConversationTables /\ rows'.begun = begun
        /\ rows'.messages = rows.messages /\ rows'.threads = rows.threads
        /\ rows'.sessions = rows.sessions /\ rows'.expenses = rows.expenses
        /\ rows'.untold = rows.untold /\ rows'.failed = rows.failed
    BY <1>3, <2>1 DEF ConversationTables
  <2> QED BY <2>2 DEF begun
<1>5. Follows(rows, rows') /\ ActiveSessions(rows') = ActiveSessions(rows)
      /\ \A entity : ThreadsOf(rows', entity) = ThreadsOf(rows, entity)
  BY <1>3, <1>4 DEF Follows, ActiveSessions, ThreadsOf
<1>6. TalkInv' BY <1>1, <1>2, <1>5, TalkStays
<1>7. \A d \in Callers : Open(d) => calls[d].request \in 1..rows.begun BY OpenTalks DEF TalkOK
<1>8. TurnsInv'
  <2>1. \A d \in Callers \ {c} : (Open(d)' <=> Open(d)) /\ calls'[d] = calls[d]
    BY <1>2 DEF Open, Moved
  <2>2. \A i \in DOMAIN rows'.messages :
          /\ rows'.messages[i].request \in 1..rows'.begun
          /\ rows'.messages[i].thread \in {0} \cup DOMAIN rows'.threads
    BY <1>3, <1>4 DEF TurnsInv
  <2>3. \A d, e \in Callers : Open(d)' /\ Open(e)' /\ calls'[d].request = calls'[e].request => d = e
    BY <1>1, <1>3, <1>7, <2>1 DEF TurnsInv
  <2>4. ASSUME NEW d \in Callers, NEW i \in DOMAIN rows'.messages, Open(d)',
               rows'.messages[i].request = calls'[d].request
        PROVE  /\ rows'.messages[i].role = "user" /\ ~Unsaid(calls'[d])
               /\ rows'.messages[i].thread = calls'[d].thread
               /\ Alone' => i = Len(rows'.messages)
    BY <1>4, <1>1, <1>3, <2>4, <1>2, <2>1, AloneStays DEF TurnsInv
  <2>5. \A i, j \in DOMAIN rows'.messages :
         rows'.messages[i].request = rows'.messages[j].request =>
            /\ rows'.messages[i].role = rows'.messages[j].role => i = j
            /\ rows'.messages[i].role = "user" /\ rows'.messages[j].role = "assistant" =>
                  /\ i < j /\ rows'.messages[i].thread = rows'.messages[j].thread
                  /\ Alone' => j = i + 1
    BY <1>2, <1>4, AloneStays DEF TurnsInv
  <2> QED BY <2>2, <2>3, <2>4, <2>5 DEF TurnsInv
<1>9. ToldInv' BY <1>1, <1>2, <1>4, ToldStay
<1>10. SessionsInv' BY <1>1, <1>2, <1>3, <1>4, ActiveCount, SessionsStay
<1>11. ThreadsInv' BY <1>1, <1>2, <1>3, <1>5, ActiveCount, ThreadsStay
<1>12. TitlesInv'
  BY <1>1, <1>2, <1>4, TitlesStay DEF Names, Closed
<1> QED BY <1>6, <1>8, <1>9, <1>10, <1>11, <1>12

(* A request goes on with something stored that is no message and no thread. *)
LEMMA Stores ==
    ASSUME ConversationsInv, NEW c \in Callers, Open(c), NEW call,
           calls' = [calls EXCEPT ![c] = call], TalkOK(rows', call),
           call.request = calls[c].request, call.thread = calls[c].thread,
           call.at \notin {"create_session", "create_thread"},
           Unsaid(call) => Unsaid(calls[c]),
           ~Names(calls[c], calls[c].thread), ~Names(call, call.thread),
           Follows(rows, rows'), rows'.messages = rows.messages, rows'.threads = rows.threads,
           rows'.begun = rows.begun, rows'.untold = rows.untold, rows'.failed = rows.failed
    PROVE  /\ TalkInv' /\ TurnsInv' /\ ThreadsInv' /\ TitlesInv'
           /\ Moved(c) /\ calls'[c] = call /\ Open(c)'
<1> USE DEF ConversationsInv
<1>1. calls'[c] = call /\ Open(c)' /\ ~Closed(call) BY DEF TalkInv, TalkOK, TalkRows, Open, Closed
<1>2. Moved(c) BY <1>1 DEF TalkInv, Moved, Open
<1>3. rows \in ConversationTables BY DEF TalkInv
<1>4. TalkInv' BY <1>1, <1>2, TalkStays
<1>5. TurnsInv' BY <1>1, <1>2, TurnsStay
<1>6. ThreadsInv'
  <2>1. \A entity : ThreadsOf(rows', entity) = ThreadsOf(rows, entity) BY DEF ThreadsOf
  <2> QED BY <1>1, <1>2, <1>3, <2>1, ActiveCount, ThreadsStay
<1>7. TitlesInv' BY <1>1, <1>2, TitlesStay
<1> QED BY <1>1, <1>2, <1>4, <1>5, <1>6, <1>7

(* A session is created: one goroutine fewer is about to. *)
LEMMA Creates ==
    ASSUME ConversationsInv, NEW c \in Callers, CreateSession(c), ~(Reads /\ Goes(c, "retry_session"))
    PROVE  ConversationsInv'
<1> USE DEF ConversationsInv
<1> DEFINE n == Len(rows.sessions) + 1
           call == [calls[c] EXCEPT !.at = "expense", !.session = n]
<1>1. /\ calls[c].at = "create_session" /\ rows' = [rows EXCEPT !.sessions = Append(@, "active")]
      /\ calls' = [calls EXCEPT ![c] = call] /\ calls[c].op \in {"chat", "agent"}
  BY DEF CreateSession, Recording, Store, CreateReconciliationSession, Continue
<1>2. Open(c) /\ TalkOK(rows, calls[c]) /\ calls[c] \in TalkRows BY <1>1, OpenTalks DEF Open
<1>3. rows \in ConversationTables /\ rows.sessions \in Seq(SessionStatuses)
  BY DEF TalkInv, ConversationTables
<1>4. "active" \in SessionStatuses BY DEF SessionStatuses
<1> DEFINE sessions == Append(rows.sessions, "active")
<1>5. /\ sessions \in Seq(SessionStatuses) /\ n \in Nat
      /\ DOMAIN sessions = DOMAIN rows.sessions \cup {n}
      /\ n \notin DOMAIN rows.sessions
      /\ \A i \in DOMAIN rows.sessions : sessions[i] = rows.sessions[i]
      /\ sessions[n] = "active"
  BY <1>3, <1>4, Appended
<1> HIDE DEF sessions
<1>6. rows' = [rows EXCEPT !.sessions = sessions] BY <1>1 DEF sessions
<1>7. /\ rows' \in ConversationTables /\ rows'.sessions = sessions
      /\ rows'.messages = rows.messages /\ rows'.threads = rows.threads
      /\ rows'.begun = rows.begun /\ rows'.expenses = rows.expenses
      /\ rows'.untold = rows.untold /\ rows'.failed = rows.failed
  BY <1>3, <1>5, <1>6 DEF ConversationTables
<1>8. ActiveSessions(rows') = ActiveSessions(rows) \cup {n} /\ n \notin ActiveSessions(rows)
  BY <1>5, <1>7 DEF ActiveSessions
<1>9. Follows(rows, rows') BY <1>7, <1>8 DEF Follows
<1>10. /\ call \in TalkRows /\ call.at = "expense" /\ call.session = n
       /\ \A f \in {"op", "via", "request", "thread", "entity", "expenses", "isNew", "shown"} :
             call[f] = calls[c][f]
  <2> HIDE DEF n
  <2> QED BY <1>2, <1>5 DEF TalkRows
<1> HIDE DEF call, n
<1>11. TalkOK(rows', call) BY <1>1, <1>2, <1>7, <1>8, <1>10 DEF TalkOK
<1>12. /\ TalkInv' /\ TurnsInv' /\ ThreadsInv' /\ TitlesInv'
       /\ Moved(c) /\ calls'[c] = call /\ Open(c)'
  BY <1>1, <1>2, <1>7, <1>9, <1>10, <1>11, Stores DEF Unsaid, Names
<1>13. ToldInv' BY <1>7, <1>10, <1>12, ToldStay
<1>14. SessionsInv'
  <2>1. CreatingSession' = CreatingSession \ {c} /\ c \in CreatingSession
    BY <1>1, <1>10, <1>12 DEF CreatingSession, Moved
  <2>2. IsFiniteSet(CreatingSession) /\ Cardinality(CreatingSession) \in Nat
    BY <1>12, TogetherKept DEF CreatingSession
  <2>3. Cardinality(CreatingSession') = Cardinality(CreatingSession) - 1
    BY <2>1, <2>2, FS_RemoveElement
  <2>4. /\ IsFiniteSet(ActiveSessions(rows)) /\ Cardinality(ActiveSessions(rows)) \in Nat
    BY <1>3, ActiveCount
  <2>5. Cardinality(ActiveSessions(rows')) = Cardinality(ActiveSessions(rows)) + 1
    BY <1>8, <2>4, FS_AddElement
  <2> QED BY <1>7, <1>8, <1>12, <2>2, <2>3, <2>4, <2>5, TogetherKept DEF SessionsInv
<1> QED BY <1>12, <1>13, <1>14

(* An expense is recorded in an active session, and the request can tell it. *)
LEMMA RecordsExpense ==
    ASSUME ConversationsInv, NEW c \in Callers, calls[c].at = "expense",
           rows' = CreateTransaction(rows, [session |-> calls[c].session,
                                            request |-> calls[c].request]),
           calls' = [calls EXCEPT ![c] =
               [calls[c] EXCEPT !.at = "follow", !.expenses = {Len(rows.expenses) + 1}]]
    PROVE  ConversationsInv'
<1> USE DEF ConversationsInv
<1> DEFINE n == Len(rows.expenses) + 1
           new == [session |-> calls[c].session, request |-> calls[c].request]
           call == [calls[c] EXCEPT !.at = "follow", !.expenses = {n}]
<1>1. Open(c) /\ TalkOK(rows, calls[c]) /\ calls[c] \in TalkRows BY OpenTalks DEF Open
<1>2. rows \in ConversationTables /\ rows.expenses \in Seq(ExpenseRows)
  BY DEF TalkInv, ConversationTables
<1>3. new \in ExpenseRows /\ new.session = calls[c].session /\ new.request = calls[c].request
  BY <1>1 DEF TalkRows, ExpenseRows
<1> HIDE DEF new
<1> DEFINE expenses == Append(rows.expenses, new)
<1>4. /\ expenses \in Seq(ExpenseRows) /\ n \in Nat
      /\ DOMAIN expenses = DOMAIN rows.expenses \cup {n}
      /\ \A i \in DOMAIN rows.expenses : expenses[i] = rows.expenses[i]
      /\ expenses[n] = new
  BY <1>2, <1>3, Appended
<1> HIDE DEF expenses
<1>5. rows' = [rows EXCEPT !.expenses = expenses] BY DEF expenses, new, CreateTransaction
<1>6. /\ rows' \in ConversationTables /\ rows'.expenses = expenses
      /\ rows'.messages = rows.messages /\ rows'.threads = rows.threads
      /\ rows'.begun = rows.begun /\ rows'.sessions = rows.sessions
      /\ rows'.untold = rows.untold /\ rows'.failed = rows.failed
  BY <1>2, <1>4, <1>5 DEF ConversationTables
<1>7. Follows(rows, rows') /\ ActiveSessions(rows') = ActiveSessions(rows)
  BY <1>6 DEF Follows, ActiveSessions
<1>8. calls' = [calls EXCEPT ![c] = call] OBVIOUS
<1>9. /\ call \in TalkRows /\ call.at = "follow" /\ call.expenses = {n}
      /\ \A f \in {"op", "via", "request", "thread", "entity", "session", "isNew", "shown"} :
            call[f] = calls[c][f]
  <2> HIDE DEF n
  <2> QED BY <1>1, <1>4 DEF TalkRows
<1> HIDE DEF call, n
<1>10. TalkOK(rows', call) BY <1>1, <1>6, <1>7, <1>9 DEF TalkOK
<1>11. /\ TalkInv' /\ TurnsInv' /\ ThreadsInv' /\ TitlesInv'
       /\ Moved(c) /\ calls'[c] = call /\ Open(c)'
  BY <1>1, <1>6, <1>7, <1>8, <1>9, <1>10, Stores DEF Unsaid, Names
<1>12. calls[c].expenses = {} BY <1>1 DEF TalkOK
<1>13. ASSUME NEW e \in DOMAIN rows'.expenses PROVE IsTold(e)'
  <2>1. CASE e = n BY <1>3, <1>4, <1>6, <1>9, <1>11, <2>1 DEF IsTold
  <2>2. CASE e # n
    <3>1. e \in DOMAIN rows.expenses /\ rows'.expenses[e] = rows.expenses[e] /\ IsTold(e)
      BY <1>4, <1>6, <2>2 DEF ToldInv
    <3>2. ASSUME NEW d \in Callers, Open(d), calls[d].request = rows.expenses[e].request,
                 e \in calls[d].expenses PROVE  Open(d)' /\ calls'[d] = calls[d]
      BY <1>11, <1>12, <3>2 DEF Moved, Open
    <3> QED BY <1>6, <3>1, <3>2 DEF IsTold, Saved, SavedIn
  <2> QED BY <2>1, <2>2
<1>14. ToldInv' BY <1>13 DEF ToldInv
<1>15. SessionsInv'
  <2>1. \A e \in DOMAIN rows'.expenses : rows'.expenses[e].session \in ActiveSessions(rows')
    BY <1>1, <1>3, <1>4, <1>6, <1>7 DEF TalkOK, SessionsInv
  <2>2. CreatingSession' = CreatingSession BY <1>9, <1>11 DEF CreatingSession, Moved
  <2> QED BY <1>6, <1>7, <1>11, <2>1, <2>2, TogetherKept DEF SessionsInv
<1> QED BY <1>11, <1>14, <1>15

(* A thread is created for what the agent is asked about: one goroutine fewer is
   about to, and its request will name the thread. *)
LEMMA CreatesThread ==
    ASSUME ConversationsInv, NEW c \in Callers, At(c, "agent", "create_thread"),
           rows' = CreateAgentThread(rows, calls[c].entity),
           calls' = [calls EXCEPT ![c] =
               [calls[c] EXCEPT !.at = "history", !.thread = Len(rows.threads) + 1,
                                !.isNew = TRUE, !.entity = 0]]
    PROVE  ConversationsInv'
<1> USE DEF ConversationsInv
<1> DEFINE n == Len(rows.threads) + 1
           new == [entity |-> calls[c].entity, title |-> 0]
           call == [calls[c] EXCEPT !.at = "history", !.thread = n, !.isNew = TRUE, !.entity = 0]
<1>1. /\ Open(c) /\ TalkOK(rows, calls[c]) /\ calls[c] \in TalkRows
      /\ calls[c].at = "create_thread" /\ calls[c].op = "agent"
  BY OpenTalks DEF Open, At
<1>2. rows \in ConversationTables /\ rows.threads \in Seq(ThreadRows)
  BY DEF TalkInv, ConversationTables
<1>3. new \in ThreadRows /\ new.entity = calls[c].entity BY <1>1 DEF TalkRows, ThreadRows
<1> HIDE DEF new
<1> DEFINE threads == Append(rows.threads, new)
<1>4. /\ threads \in Seq(ThreadRows) /\ n \in Nat /\ n # 0
      /\ DOMAIN threads = DOMAIN rows.threads \cup {n}
      /\ n \notin DOMAIN rows.threads
      /\ \A i \in DOMAIN rows.threads : threads[i] = rows.threads[i]
      /\ threads[n] = new
  BY <1>2, <1>3, Appended
<1> HIDE DEF threads
<1>5. rows' = [rows EXCEPT !.threads = threads] BY DEF threads, new, CreateAgentThread
<1>6. /\ rows' \in ConversationTables /\ rows'.threads = threads
      /\ rows'.messages = rows.messages /\ rows'.expenses = rows.expenses
      /\ rows'.begun = rows.begun /\ rows'.sessions = rows.sessions
      /\ rows'.untold = rows.untold /\ rows'.failed = rows.failed
  BY <1>2, <1>4, <1>5 DEF ConversationTables
<1>7. Follows(rows, rows') /\ ActiveSessions(rows') = ActiveSessions(rows)
  BY <1>4, <1>6 DEF Follows, ActiveSessions
<1>8. calls' = [calls EXCEPT ![c] = call] OBVIOUS
<1>9. /\ call \in TalkRows /\ call.at = "history" /\ call.thread = n /\ call.isNew
      /\ call.entity = 0
      /\ \A f \in {"op", "via", "request", "expenses", "session", "shown"} :
            call[f] = calls[c][f]
  <2> HIDE DEF n
  <2> QED BY <1>1, <1>4 DEF TalkRows
<1> HIDE DEF call, n
<1>10. TalkOK(rows', call) BY <1>1, <1>4, <1>6, <1>9 DEF TalkOK
<1>11. calls'[c] = call /\ Open(c)' /\ Moved(c) /\ ~Closed(call)
  BY <1>1, <1>8, <1>9 DEF TalkInv, Moved, Open, Closed
<1>12. TalkInv' BY <1>7, <1>10, <1>11, TalkStays
<1>13. TurnsInv' BY <1>1, <1>6, <1>7, <1>9, <1>11, TurnsStay DEF Follows, Unsaid
<1>14. ToldInv' BY <1>6, <1>9, <1>11, ToldStay
<1>15. SessionsInv' BY <1>2, <1>6, <1>9, <1>11, ActiveCount, SessionsStay
<1>16. ASSUME ~rows'.failed, NEW entity \in Entities \ {0}
       PROVE  Cardinality(ThreadsOf(rows', entity)) + Cardinality(CreatingThread(entity)') <= Together'
  <2>1. Cardinality(ThreadsOf(rows, entity)) + Cardinality(CreatingThread(entity)) <= Together
    BY <1>6, <1>16 DEF ThreadsInv
  <2>2. /\ IsFiniteSet(ThreadsOf(rows, entity)) /\ Cardinality(ThreadsOf(rows, entity)) \in Nat
    BY <1>2, ActiveCount
  <2>3. IsFiniteSet(CreatingThread(entity)) /\ Cardinality(CreatingThread(entity)) \in Nat
    BY <1>11, TogetherKept DEF CreatingThread
  <2>4. CASE entity = calls[c].entity
    <3>1. CreatingThread(entity)' = CreatingThread(entity) \ {c} /\ c \in CreatingThread(entity)
      BY <1>1, <1>9, <1>11, <2>4 DEF CreatingThread, Moved
    <3>2. Cardinality(CreatingThread(entity)') = Cardinality(CreatingThread(entity)) - 1
      BY <2>3, <3>1, FS_RemoveElement
    <3>3. ThreadsOf(rows', entity) = ThreadsOf(rows, entity) \cup {n}
          /\ n \notin ThreadsOf(rows, entity)
      BY <1>3, <1>4, <1>6, <2>4 DEF ThreadsOf
    <3>4. Cardinality(ThreadsOf(rows', entity)) = Cardinality(ThreadsOf(rows, entity)) + 1
      BY <2>2, <3>3, FS_AddElement
    <3> QED BY <1>11, <2>1, <2>2, <2>3, <3>2, <3>4, TogetherKept
  <2>5. CASE entity # calls[c].entity
    <3>1. CreatingThread(entity)' = CreatingThread(entity)
      BY <1>9, <1>11, <2>5 DEF CreatingThread, Moved
    <3>2. ThreadsOf(rows', entity) = ThreadsOf(rows, entity) BY <1>3, <1>4, <1>6, <2>5 DEF ThreadsOf
    <3> QED BY <1>11, <2>1, <3>1, <3>2, TogetherKept
  <2> QED BY <2>4, <2>5
<1>17. ThreadsInv' BY <1>16 DEF ThreadsInv
<1>18. TitlesInv'
  <2> SUFFICES ASSUME Alone', ~rows'.failed
               PROVE  /\ \A d \in Callers :
                           Names(calls'[d], calls'[d].thread) => Naming(rows', calls'[d])
                      /\ \A t \in DOMAIN rows'.threads :
                           \/ Opened(rows', t, rows'.threads[t].title)
                           \/ \E d \in Callers : Names(calls'[d], t)
    BY DEF TitlesInv
  <2>1. Alone /\ ~rows.failed BY <1>6, <1>11, AloneStays
  <2>2. \A d \in Callers \ {c} : Closed(calls[d]) /\ calls'[d] = calls[d]
    BY <1>11, <2>1, AloneStays DEF Closed, Moved
  <2>3. ~Names(calls[c], calls[c].thread) /\ \A d \in Callers : \A t : ~Names(calls[d], t)
    BY <1>1, <2>2 DEF Names
  <2>4. \A t \in DOMAIN rows.threads : Opened(rows', t, rows.threads[t].title)
    BY <1>6, <2>1, <2>3 DEF TitlesInv, Opened
  <2>5. Naming(rows', call)
    <3>1. ASSUME NEW i \in DOMAIN rows.messages PROVE rows.messages[i].thread # n
      BY <1>4 DEF TurnsInv
    <3> QED BY <1>6, <1>9, <3>1 DEF Naming
  <2>6. ASSUME NEW d \in Callers, Names(calls'[d], calls'[d].thread) PROVE Naming(rows', calls'[d])
    <3>1. d = c BY <2>2, <2>6 DEF Names
    <3> QED BY <1>11, <2>5, <3>1
  <2>7. Names(calls'[c], n) BY <1>9, <1>11 DEF Names
  <2> QED BY <1>4, <1>6, <2>4, <2>6, <2>7
<1> QED BY <1>12, <1>13, <1>14, <1>15, <1>17, <1>18

(* A thread gets the name of the message that opened it. *)
LEMMA GivesTitle ==
    ASSUME ConversationsInv, NEW c \in Callers, At(c, "agent", "title"),
           rows' = UpdateAgentThread(rows, calls[c].thread, calls[c].request),
           calls' = [calls EXCEPT ![c] = [calls[c] EXCEPT !.at = "model"]]
    PROVE  ConversationsInv'
<1> USE DEF ConversationsInv
<1> DEFINE T == calls[c].thread
           call == [calls[c] EXCEPT !.at = "model"]
           threads == [rows.threads EXCEPT ![T].title = calls[c].request]
<1>1. /\ Open(c) /\ TalkOK(rows, calls[c]) /\ calls[c] \in TalkRows
      /\ calls[c].at = "title" /\ calls[c].op = "agent"
  BY OpenTalks DEF Open, At
<1>2. rows \in ConversationTables /\ rows.threads \in Seq(ThreadRows)
  BY DEF TalkInv, ConversationTables
<1>3. T \in DOMAIN rows.threads /\ calls[c].request \in Nat /\ calls[c].isNew
  BY <1>1 DEF TalkOK, TalkRows
<1>4. /\ threads \in Seq(ThreadRows) /\ DOMAIN threads = DOMAIN rows.threads
      /\ \A t \in DOMAIN rows.threads : threads[t].entity = rows.threads[t].entity
      /\ \A t \in DOMAIN rows.threads \ {T} : threads[t].title = rows.threads[t].title
      /\ threads[T].title = calls[c].request
  <2> DEFINE row == [rows.threads[T] EXCEPT !.title = calls[c].request]
  <2>1. rows.threads[T] \in ThreadRows BY <1>2, <1>3
  <2>2. /\ row \in ThreadRows /\ row.title = calls[c].request
        /\ row.entity = rows.threads[T].entity
    BY <1>3, <2>1 DEF ThreadRows
  <2>3. threads = [rows.threads EXCEPT ![T] = row] OBVIOUS
  <2> HIDE DEF row, threads
  <2>4. /\ DOMAIN threads = DOMAIN rows.threads /\ threads[T] = row
        /\ \A t \in DOMAIN rows.threads \ {T} : threads[t] = rows.threads[t]
    BY <1>3, <2>3
  <2>5. threads \in Seq(ThreadRows) BY <1>2, <1>3, <2>2, <2>3
  <2> QED BY <2>2, <2>4, <2>5
<1>5. rows' = [rows EXCEPT !.threads = threads] BY <1>2 DEF UpdateAgentThread, ConversationTables
<1> HIDE DEF threads
<1>6. /\ rows' \in ConversationTables /\ rows'.threads = threads
      /\ rows'.messages = rows.messages /\ rows'.expenses = rows.expenses
      /\ rows'.begun = rows.begun /\ rows'.sessions = rows.sessions
      /\ rows'.untold = rows.untold /\ rows'.failed = rows.failed
  BY <1>2, <1>4, <1>5 DEF ConversationTables
<1>7. /\ Follows(rows, rows') /\ ActiveSessions(rows') = ActiveSessions(rows)
      /\ \A entity : ThreadsOf(rows', entity) = ThreadsOf(rows, entity)
  BY <1>4, <1>6 DEF Follows, ActiveSessions, ThreadsOf
<1>8. calls' = [calls EXCEPT ![c] = call] OBVIOUS
<1>9. /\ call \in TalkRows /\ call.at = "model"
      /\ \A f \in {"op", "via", "request", "thread", "entity", "expenses", "session", "isNew",
                   "shown"} : call[f] = calls[c][f]
  BY <1>1 DEF TalkRows
<1> HIDE DEF call
<1>10. TalkOK(rows', call) BY <1>1, <1>4, <1>6, <1>9 DEF TalkOK
<1>11. calls'[c] = call /\ Open(c)' /\ Moved(c) /\ ~Closed(call)
  BY <1>1, <1>8, <1>9 DEF TalkInv, Moved, Open, Closed
<1>12. TalkInv' BY <1>7, <1>10, <1>11, TalkStays
<1>13. ~Unsaid(call) BY <1>1, <1>9 DEF TalkOK, Unsaid
<1>14. TurnsInv' BY <1>1, <1>6, <1>7, <1>9, <1>11, <1>13, TurnsStay DEF Follows
<1>15. ToldInv' BY <1>6, <1>9, <1>11, ToldStay
<1>16. SessionsInv' BY <1>2, <1>6, <1>9, <1>11, ActiveCount, SessionsStay
<1>17. ThreadsInv' BY <1>2, <1>6, <1>7, <1>9, <1>11, ActiveCount, ThreadsStay
<1>18. TitlesInv'
  <2> SUFFICES ASSUME Alone', ~rows'.failed
               PROVE  /\ \A d \in Callers : ~Names(calls'[d], calls'[d].thread)
                      /\ \A t \in DOMAIN rows'.threads : Opened(rows', t, rows'.threads[t].title)
    BY DEF TitlesInv
  <2>1. Alone /\ ~rows.failed BY <1>6, <1>11, AloneStays
  <2>2. \A d \in Callers \ {c} : Closed(calls[d]) /\ calls'[d] = calls[d]
    BY <1>11, <2>1, AloneStays DEF Closed, Moved
  <2>3. \A d \in Callers : ~Names(calls'[d], calls'[d].thread) BY <1>9, <1>11, <2>2 DEF Names
  <2>4. Opened(rows, T, calls[c].request)
    BY <1>1, <1>3, <2>1 DEF Names, Closed, TitlesInv, Naming
  <2>5. ASSUME NEW t \in DOMAIN rows.threads, t # T PROVE Opened(rows, t, rows.threads[t].title)
    <3>1. ASSUME NEW d \in Callers PROVE ~Names(calls[d], t) BY <2>2, <2>5 DEF Names
    <3> QED BY <2>1, <3>1 DEF TitlesInv
  <2>6. \A t, r : Opened(rows', t, r) <=> Opened(rows, t, r) BY <1>6 DEF Opened
  <2> QED BY <1>4, <1>6, <2>3, <2>4, <2>5, <2>6
<1> QED BY <1>12, <1>14, <1>15, <1>16, <1>17, <1>18

----
(* What the queries return. *)
LEMMA ShownBegan ==
    ASSUME TalkInv, TurnsInv, NEW limit
    PROVE  /\ Turns(ListChatMessagesByCompany(rows, limit)) \subseteq 1..rows.begun
           /\ \A t : Turns(ListMessagesByThread(rows, t, limit))
                       \subseteq {rows.messages[i].request : i \in DOMAIN rows.messages}
<1>1. \A i \in DOMAIN rows.messages : rows.messages[i].request \in 1..rows.begun BY DEF TurnsInv
<1>2. ListChatMessagesByCompany(rows, limit) \subseteq {rows.messages[i] : i \in DOMAIN rows.messages}
  BY DEF ListChatMessagesByCompany, Latest
<1>3. \A t : ListMessagesByThread(rows, t, limit) \subseteq {rows.messages[i] : i \in DOMAIN rows.messages}
  BY DEF ListMessagesByThread
<1> QED BY <1>1, <1>2, <1>3 DEF Turns

LEMMA FoundIsThere ==
    ASSUME rows \in ConversationTables
    PROVE  /\ GetActiveSessionByCompanyAndPeriod(rows) \subseteq ActiveSessions(rows)
           /\ GetActiveSessionByCompanyAndPeriod(rows) = {} => ActiveSessions(rows) = {}
           /\ \A entity : /\ FindAgentThread(rows, entity) \subseteq DOMAIN rows.threads
                          /\ FindAgentThread(rows, entity) = {} =>
                                entity = 0 \/ ThreadsOf(rows, entity) = {}
<1>1. /\ DOMAIN rows.sessions = 1..Len(rows.sessions) /\ Len(rows.sessions) \in Nat
      /\ DOMAIN rows.threads = 1..Len(rows.threads) /\ Len(rows.threads) \in Nat
  BY DEF ConversationTables
<1>2. ActiveSessions(rows) \in SUBSET (1..Len(rows.sessions)) BY <1>1 DEF ActiveSessions
<1>3. ActiveSessions(rows) # {} => Max(ActiveSessions(rows)) \in ActiveSessions(rows)
  BY <1>1, <1>2, MaxIsThere
<1>4. ASSUME NEW entity
      PROVE  /\ FindAgentThread(rows, entity) \subseteq DOMAIN rows.threads
             /\ FindAgentThread(rows, entity) = {} => entity = 0 \/ ThreadsOf(rows, entity) = {}
  <2> DEFINE same == {t \in DOMAIN rows.threads : entity # 0 /\ rows.threads[t].entity = entity}
  <2>1. same \in SUBSET (1..Len(rows.threads)) BY <1>1
  <2>2. same # {} => Max(same) \in same BY <1>1, <2>1, MaxIsThere
  <2>3. FindAgentThread(rows, entity) = IF same = {} THEN {} ELSE {Max(same)} BY DEF FindAgentThread
  <2>4. same = {} => entity = 0 \/ ThreadsOf(rows, entity) = {} BY DEF ThreadsOf
  <2>5. same \subseteq DOMAIN rows.threads OBVIOUS
  <2> HIDE DEF same
  <2> QED BY <2>2, <2>3, <2>4, <2>5
<1> QED BY <1>3, <1>4 DEF GetActiveSessionByCompanyAndPeriod

LEMMA ReadsRest == ASSUME ConversationsInv, Reads PROVE Rests
BY DEF ConversationsInv, TalkInv, Reads, Rests

LEMMA FailsRests == ASSUME ConversationsInv, Fails PROVE Rests /\ rows'.failed
BY DEF ConversationsInv, TalkInv, ConversationTables, Fails, Rests

LEMMA UntoldRests ==
    ASSUME ConversationsInv, NEW c \in Callers, Open(c), Untold(c)
    PROVE  Rests /\ calls[c].request \in rows'.untold
<1>1. rows \in ConversationTables /\ calls[c].request \in Nat
  BY OpenTalks DEF ConversationsInv, TalkInv, TalkRows
<1> QED BY <1>1 DEF ConversationTables, Untold, Store, Rests

LEMMA NotedRests ==
    ASSUME ConversationsInv, NEW c \in Callers, Open(c),
           \/ rows' = [rows EXCEPT !.plans = Append(@, calls[c].request)]
           \/ rows' = [rows EXCEPT !.logged = Append(@, calls[c].request)]
    PROVE  Rests
<1>1. rows \in ConversationTables /\ calls[c].request \in Nat
  BY OpenTalks DEF ConversationsInv, TalkInv, TalkRows
<1>2. /\ Append(rows.plans, calls[c].request) \in Seq(Nat)
      /\ Append(rows.logged, calls[c].request) \in Seq(Nat)
  BY <1>1 DEF ConversationTables
<1>3. CASE rows' = [rows EXCEPT !.plans = Append(@, calls[c].request)]
  BY <1>1, <1>2, <1>3 DEF ConversationTables, Rests
<1>4. CASE rows' = [rows EXCEPT !.logged = Append(@, calls[c].request)]
  BY <1>1, <1>2, <1>4 DEF ConversationTables, Rests
<1> QED BY <1>3, <1>4

(* A request goes on at another step, and stores nothing the invariant is
   about. *)
Steps == {"answer", "session", "follow", "create_session", "retry_session", "logged", "late",
          "model", "create_thread", "title"}

LEMMA Stepped ==
    ASSUME NEW call \in TalkRows, NEW step \in Steps
    PROVE  /\ [call EXCEPT !.at = step] \in TalkRows /\ [call EXCEPT !.at = step].at = step
           /\ \A f \in {"op", "via", "request", "thread", "entity", "expenses", "session", "isNew",
                        "shown"} : [call EXCEPT !.at = step][f] = call[f]
BY DEF TalkRows, Steps

LEMMA GoesTo ==
    ASSUME ConversationsInv, NEW c \in Callers, Rests, Open(c), NEW step \in Steps,
           calls' = [calls EXCEPT ![c] = [calls[c] EXCEPT !.at = step]],
           step = "logged" => calls[c].op = "agent",
           step = "late" => calls[c].op = "chat" /\ calls[c].via = "message",
           step = "title" => calls[c].op = "agent" /\ calls[c].isNew /\ rows'.failed,
           step = "create_thread" =>
               /\ calls[c].at = "thread"
               /\ rows'.failed \/ calls[c].entity = 0 \/ ThreadsOf(rows, calls[c].entity) = {},
           calls[c].at = "thread" => step = "create_thread",
           step = "create_session" => rows'.failed \/ ActiveSessions(rows) = {},
           step \in {"session", "model", "create_session", "retry_session", "title",
                     "create_thread"} => calls[c].expenses = {},
           calls[c].at \notin {"late", "create_thread"},
           rows'.failed \/ calls[c].at \notin {"history", "say", "title"} \/ ~calls[c].isNew
    PROVE  ConversationsInv'
<1> DEFINE call == [calls[c] EXCEPT !.at = step]
<1>1. TalkOK(rows, calls[c]) /\ calls[c] \in TalkRows BY OpenTalks DEF ConversationsInv
<1>2. /\ call \in TalkRows /\ call.at = step
      /\ \A f \in {"op", "via", "request", "thread", "entity", "expenses", "session", "isNew",
                   "shown"} : call[f] = calls[c][f]
  BY <1>1, Stepped
<1>3. calls' = [calls EXCEPT ![c] = call] OBVIOUS
<1> HIDE DEF call
<1>4. TalkOK(rows, call) BY <1>1, <1>2 DEF TalkOK, Steps
<1>5. Unsaid(call) => Unsaid(calls[c]) BY <1>2 DEF Unsaid, Steps
<1>6. rows'.failed \/ (~Names(calls[c], calls[c].thread) /\ ~Names(call, call.thread))
  BY <1>2 DEF Names, Steps
<1> QED BY <1>2, <1>3, <1>4, <1>5, <1>6, GoesOn

LEMMA StopsUntold ==
    ASSUME ConversationsInv, NEW c \in Callers, Open(c), Untold(c), NEW status,
           Answer(c, status), calls[c].at \notin {"history", "say", "title"}
    PROVE  ConversationsInv'
<1> DEFINE call == Answered(calls[c].op, status)
<1>1. calls' = [calls EXCEPT ![c] = call] /\ call.at = "answered" BY DEF Answer, Continue, Answered
<1> HIDE DEF call
<1> QED BY <1>1, UntoldRests, Ends DEF Open, Names

LEMMA StopsFailed ==
    ASSUME ConversationsInv, NEW c \in Callers, Open(c), Fails, NEW status, Answer(c, status)
    PROVE  ConversationsInv'
<1> DEFINE call == Answered(calls[c].op, status)
<1>1. calls' = [calls EXCEPT ![c] = call] /\ call.at = "answered" BY DEF Answer, Continue, Answered
<1> HIDE DEF call
<1> QED BY <1>1, FailsRests, Ends DEF Open

LEMMA AtOnce ==
    ASSUME ConversationsInv, NEW c \in Callers, NEW parts, Free(parts, c), Reads, NEW op,
           NEW status, AnswerAtOnce(c, op, status)
    PROVE  ConversationsInv'
<1> DEFINE call == Answered(op, status)
<1>1. calls' = [calls EXCEPT ![c] = call] /\ call.at = "answered"
  BY DEF AnswerAtOnce, Begin, Answered
<1> HIDE DEF call
<1>2. calls[c].at = "answered" /\ ~Open(c) BY DEF Free, Open
<1>3. ~Names(calls[c], calls[c].thread) BY <1>2 DEF Names, Closed
<1> QED BY <1>1, <1>2, <1>3, ReadsRest, Ends

----
(* The cases of the next-state relation. *)
LEMMA ChatKept == ASSUME ConversationsInv, NEW c \in Callers, Chat(c) PROVE ConversationsInv'
<1>1. calls[c].at = "answered" /\ rows' = [rows EXCEPT !.begun = @ + 1]
  BY DEF Chat, Free, Begun, Store
<1>2. PICK via \in {"message", "stream", "bot"},
            shown \in Found(Turns(ListChatMessagesByCompany(rows, HistoryLimit))) :
        calls' = [calls EXCEPT ![c] =
          [NewRequest("chat", IF via = "message" THEN "model" ELSE "say", via, 0) EXCEPT
              !.shown = shown]]
  BY DEF Chat, Begin
<1> DEFINE step == IF via = "message" THEN "model" ELSE "say"
           call == [NewRequest("chat", step, via, 0) EXCEPT !.shown = shown]
<1>3. shown \subseteq 1..rows.begun /\ rows.begun \in Nat /\ rows \in ConversationTables
  BY <1>2, ShownBegan DEF ConversationsInv, TalkInv, ConversationTables, Found
<1>4. step \in {"model", "say"} /\ (step = "say" => via # "message") OBVIOUS
<1>5. calls' = [calls EXCEPT ![c] = call] BY <1>2
<1> HIDE DEF step
<1>6. /\ call \in TalkRows /\ call.request = rows.begun + 1 /\ call.shown = shown
      /\ call.op = "chat" /\ call.at = step /\ call.via = via /\ call.thread = 0
      /\ ~call.isNew /\ call.expenses = {}
  <2>1. shown \in SUBSET Nat /\ rows.begun + 1 \in Nat BY <1>3
  <2> QED BY <1>4, <2>1 DEF NewRequest, TalkRows
<1> HIDE DEF call
<1>7. rows'.begun = rows.begun + 1 BY <1>1, <1>3 DEF ConversationTables
<1>8. call.request \in 1..rows'.begun \ call.shown BY <1>3, <1>6, <1>7
<1>9. TalkOK(rows', call) BY <1>4, <1>6, <1>8 DEF TalkOK
<1> QED BY <1>1, <1>4, <1>5, <1>6, <1>9, BeginsTalk

LEMMA ChatSaysKept == ASSUME ConversationsInv, NEW c \in Callers, ChatSays(c) PROVE ConversationsInv'
<1> DEFINE call == [calls[c] EXCEPT !.at = "model"]
<1>1. /\ Open(c) /\ TalkOK(rows, calls[c]) /\ calls[c] \in TalkRows
      /\ calls[c].at = "say" /\ calls[c].op = "chat"
  BY OpenTalks DEF ChatSays, At, Open, ConversationsInv
<1>2. calls' = [calls EXCEPT ![c] = call] BY DEF ChatSays, Goes, Continue
<1>3. calls[c].via # "message" /\ ~calls[c].isNew /\ calls[c].expenses = {} BY <1>1 DEF TalkOK
<1>4. CASE rows' = [rows EXCEPT !.messages = Append(@, Message(c, "user"))]
  <2>1. /\ call \in TalkRows /\ call.at = "model"
        /\ \A f \in {"op", "via", "request", "thread", "entity", "expenses", "session", "isNew",
                     "shown"} : call[f] = calls[c][f]
    BY <1>1, Stepped DEF Steps
  <2> HIDE DEF call
  <2>2. TalkOK(rows, call) BY <1>1, <2>1 DEF TalkOK
  <2>3. Unsaid(calls[c]) /\ ~Unsaid(call) BY <1>1, <1>3, <2>1 DEF Unsaid
  <2> QED BY <1>1, <1>2, <1>3, <1>4, <2>1, <2>2, <2>3, Says
<1>5. CASE Fails
  <2>1. "model" \in Steps BY DEF Steps
  <2> QED BY <1>1, <1>2, <1>3, <1>5, <2>1, FailsRests, GoesTo
<1> QED BY <1>4, <1>5 DEF ChatSays, SaveMessage, Tried, CreateChatMessage

LEMMA ChatModelKept == ASSUME ConversationsInv, NEW c \in Callers, ChatModel(c) PROVE ConversationsInv'
<1>1. Open(c) /\ TalkOK(rows, calls[c]) /\ calls[c].at = "model" /\ calls[c].expenses = {}
  BY OpenTalks DEF ChatModel, At, Open, ConversationsInv, TalkOK
<1>2. "answer" \in Steps /\ "session" \in Steps BY DEF Steps
<1>3. CASE Reads /\ Goes(c, "answer") BY <1>1, <1>2, <1>3, ReadsRest, GoesTo DEF Goes, Continue
<1>4. CASE Reads /\ Goes(c, "session") BY <1>1, <1>2, <1>4, ReadsRest, GoesTo DEF Goes, Continue
<1>5. CASE Untold(c) /\ Answer(c, MessageResponses.Failed) BY <1>1, <1>5, StopsUntold
<1> QED BY <1>3, <1>4, <1>5 DEF ChatModel

LEMMA ChatFollowUpKept ==
    ASSUME ConversationsInv, NEW c \in Callers, ChatFollowUp(c) PROVE ConversationsInv'
<1>1. Open(c) /\ calls[c].at = "follow" BY DEF ChatFollowUp, At, Open
<1>2. "answer" \in Steps BY DEF Steps
<1>3. CASE Reads /\ Goes(c, "answer") BY <1>1, <1>2, <1>3, ReadsRest, GoesTo DEF Goes, Continue
<1>4. CASE Untold(c) /\ Answer(c, StreamResponses.Failed) BY <1>1, <1>4, StopsUntold
<1> QED BY <1>3, <1>4 DEF ChatFollowUp

LEMMA ChatSaysLateKept ==
    ASSUME ConversationsInv, NEW c \in Callers, ChatSaysLate(c) PROVE ConversationsInv'
<1> DEFINE call == [calls[c] EXCEPT !.at = "late"]
<1>1. /\ Open(c) /\ TalkOK(rows, calls[c]) /\ calls[c] \in TalkRows
      /\ calls[c].at = "answer" /\ calls[c].op = "chat" /\ calls[c].via = "message"
  BY OpenTalks DEF ChatSaysLate, At, Open, ConversationsInv
<1>2. calls' = [calls EXCEPT ![c] = call] BY DEF ChatSaysLate, Goes, Continue
<1>3. ~calls[c].isNew BY <1>1 DEF TalkOK
<1>4. CASE rows' = [rows EXCEPT !.messages = Append(@, Message(c, "user"))]
  <2>1. /\ call \in TalkRows /\ call.at = "late"
        /\ \A f \in {"op", "via", "request", "thread", "entity", "expenses", "session", "isNew",
                     "shown"} : call[f] = calls[c][f]
    BY <1>1, Stepped DEF Steps
  <2> HIDE DEF call
  <2>2. TalkOK(rows, call) BY <1>1, <2>1 DEF TalkOK
  <2>3. Unsaid(calls[c]) /\ ~Unsaid(call) BY <1>1, <2>1 DEF Unsaid
  <2> QED BY <1>1, <1>2, <1>3, <1>4, <2>1, <2>2, <2>3, Says
<1>5. CASE Fails
  <2>1. "late" \in Steps BY DEF Steps
  <2> QED BY <1>1, <1>2, <1>3, <1>5, <2>1, FailsRests, GoesTo
<1> QED BY <1>4, <1>5 DEF ChatSaysLate, SaveMessage, Tried, CreateChatMessage

LEMMA AnswersKept ==
    ASSUME ConversationsInv, NEW c \in Callers, ChatAnswers(c) \/ AgentAnswers(c)
    PROVE  ConversationsInv'
<1>1. PICK status : Answer(c, status) BY DEF ChatAnswers, AgentAnswers
<1>2. Open(c) /\ calls[c].at \notin {"history", "say", "title"}
  BY DEF ChatAnswers, AgentAnswers, At, Open
<1>3. CASE rows' = [rows EXCEPT !.messages = Append(@, Message(c, "assistant"))]
  <2> DEFINE call == Answered(calls[c].op, status)
  <2>1. calls' = [calls EXCEPT ![c] = call] /\ call.at = "answered"
    BY <1>1 DEF Answer, Continue, Answered
  <2> HIDE DEF call
  <2> QED BY <1>2, <1>3, <2>1, Tells
<1>4. CASE Fails BY <1>1, <1>2, <1>4, StopsFailed
<1> QED BY <1>3, <1>4 DEF ChatAnswers, AgentAnswers, SaveMessage, saveMessage, Tried,
                          CreateChatMessage, CreateAgentMessage

LEMMA AtOnceKept ==
    ASSUME ConversationsInv, NEW c \in Callers, History(c) \/ ListThreads(c) \/ ThreadMessages(c)
    PROVE  ConversationsInv'
<1>1. CASE History(c) BY <1>1, AtOnce DEF History
<1>2. CASE ListThreads(c) BY <1>2, AtOnce DEF ListThreads
<1>3. CASE ThreadMessages(c) BY <1>3, AtOnce DEF ThreadMessages
<1> QED BY <1>1, <1>2, <1>3

(* A request takes the session s for its expense. *)
LEMMA Takes ==
    ASSUME ConversationsInv, NEW c \in Callers, Reads, NEW s \in ActiveSessions(rows),
           calls[c].at \in {"session", "retry_session"},
           calls' = [calls EXCEPT ![c] = [calls[c] EXCEPT !.at = "expense", !.session = s]]
    PROVE  ConversationsInv'
<1> DEFINE call == [calls[c] EXCEPT !.at = "expense", !.session = s]
<1>1. Open(c) /\ TalkOK(rows, calls[c]) /\ calls[c] \in TalkRows
  BY OpenTalks DEF Open, ConversationsInv
<1>2. s \in Nat BY DEF ActiveSessions, ConversationsInv, TalkInv, ConversationTables
<1>3. /\ call \in TalkRows /\ call.at = "expense" /\ call.session = s
      /\ \A f \in {"op", "via", "request", "thread", "entity", "expenses", "isNew", "shown"} :
            call[f] = calls[c][f]
  BY <1>1, <1>2 DEF TalkRows
<1>4. calls' = [calls EXCEPT ![c] = call] OBVIOUS
<1> HIDE DEF call
<1>5. TalkOK(rows, call) BY <1>1, <1>3 DEF TalkOK
<1> QED BY <1>1, <1>3, <1>4, <1>5, ReadsRest, GoesOn DEF Unsaid, Names

LEMMA GetSessionKept == ASSUME ConversationsInv, NEW c \in Callers, GetSession(c) PROVE ConversationsInv'
<1> DEFINE found == GetActiveSessionByCompanyAndPeriod(rows)
<1>1. /\ Open(c) /\ TalkOK(rows, calls[c]) /\ calls[c].at = "session" /\ calls[c].expenses = {}
      /\ rows \in ConversationTables
  BY OpenTalks DEF GetSession, Open, ConversationsInv, TalkInv, TalkOK
<1>2. "create_session" \in Steps BY DEF Steps
<1>3. CASE /\ Reads \/ Fails
           /\ Fails \/ found = {}
           /\ calls' = [calls EXCEPT ![c] = [calls[c] EXCEPT !.at = "create_session"]]
  BY <1>1, <1>2, <1>3, ReadsRest, FailsRests, FoundIsThere, GoesTo
<1>4. ASSUME NEW s \in found, Reads,
             calls' = [calls EXCEPT ![c] = [calls[c] EXCEPT !.at = "expense", !.session = s]]
      PROVE  ConversationsInv'
  BY <1>1, <1>4, FoundIsThere, Takes
<1> QED BY <1>3, <1>4 DEF GetSession, Continue

LEMMA CreateSessionKept ==
    ASSUME ConversationsInv, NEW c \in Callers, CreateSession(c) PROVE ConversationsInv'
<1>1. /\ Open(c) /\ TalkOK(rows, calls[c]) /\ calls[c].at = "create_session"
      /\ calls[c].expenses = {}
  BY OpenTalks DEF CreateSession, Open, ConversationsInv, TalkOK
<1>2. "retry_session" \in Steps BY DEF Steps
<1>3. CASE Reads /\ Goes(c, "retry_session")
  BY <1>1, <1>2, <1>3, ReadsRest, GoesTo DEF Goes, Continue
<1> QED BY <1>3, Creates

LEMMA RetrySessionKept ==
    ASSUME ConversationsInv, NEW c \in Callers, RetrySession(c) PROVE ConversationsInv'
<1>1. Open(c) /\ calls[c].at = "retry_session" /\ Reads /\ rows \in ConversationTables
  BY DEF RetrySession, Open, ConversationsInv, TalkInv
<1>2. "follow" \in Steps BY DEF Steps
<1>3. CASE Goes(c, "follow") BY <1>1, <1>2, <1>3, ReadsRest, GoesTo DEF Goes, Continue
<1>4. ASSUME NEW s \in GetActiveSessionByCompanyAndPeriod(rows),
             calls' = [calls EXCEPT ![c] = [calls[c] EXCEPT !.at = "expense", !.session = s]]
      PROVE  ConversationsInv'
  BY <1>1, <1>4, FoundIsThere, Takes
<1> QED BY <1>3, <1>4 DEF RetrySession, Continue

LEMMA RecordExpenseKept ==
    ASSUME ConversationsInv, NEW c \in Callers, RecordExpense(c) PROVE ConversationsInv'
<1>1. Open(c) /\ calls[c].at = "expense" BY DEF RecordExpense, Open
<1>2. "follow" \in Steps BY DEF Steps
<1>3. CASE Reads /\ Goes(c, "follow") BY <1>1, <1>2, <1>3, ReadsRest, GoesTo DEF Goes, Continue
<1> QED BY <1>1, <1>3, RecordsExpense DEF RecordExpense, Store, Continue

LEMMA AgentStreamKept ==
    ASSUME ConversationsInv, NEW c \in Callers, AgentStream(c) PROVE ConversationsInv'
<1>1. calls[c].at = "answered" /\ rows' = [rows EXCEPT !.begun = @ + 1]
  BY DEF AgentStream, Free, Begun, Store
<1>2. /\ rows.begun \in Nat /\ rows.begun + 1 \in Nat /\ rows \in ConversationTables
      /\ DOMAIN rows.threads \subseteq Nat
  BY DEF ConversationsInv, TalkInv, ConversationTables
<1>3. rows'.begun = rows.begun + 1 /\ rows'.threads = rows.threads
  BY <1>1, <1>2 DEF ConversationTables
<1>4. ASSUME NEW call \in TalkRows, calls' = [calls EXCEPT ![c] = call],
             call.request = rows.begun + 1, call.shown = {}, call.op = "agent",
             call.via = "stream", ~call.isNew, call.expenses = {},
             \/ call.at = "history" /\ call.thread \in DOMAIN rows.threads
             \/ call.at = "thread" /\ call.thread = 0
      PROVE  ConversationsInv'
  <2>1. call.request \in 1..rows'.begun \ call.shown BY <1>2, <1>3, <1>4
  <2>2. TalkOK(rows', call) BY <1>3, <1>4, <2>1 DEF TalkOK
  <2> QED BY <1>1, <1>4, <2>2, BeginsTalk
<1>5. ASSUME NEW t \in DOMAIN rows.threads,
             calls' = [calls EXCEPT ![c] = NewRequest("agent", "history", "stream", t)]
      PROVE  ConversationsInv'
  <2> DEFINE call == NewRequest("agent", "history", "stream", t)
  <2>1. calls' = [calls EXCEPT ![c] = call] BY <1>5
  <2>2. /\ call \in TalkRows /\ call.request = rows.begun + 1 /\ call.shown = {}
        /\ call.op = "agent" /\ call.at = "history" /\ call.via = "stream" /\ call.thread = t
        /\ ~call.isNew /\ call.expenses = {}
    BY <1>2 DEF NewRequest, TalkRows
  <2> HIDE DEF call
  <2> QED BY <1>4, <2>1, <2>2
<1>6. ASSUME NEW entity \in Entities, calls' = [calls EXCEPT ![c] =
                 [NewRequest("agent", "thread", "stream", 0) EXCEPT !.entity = entity]]
      PROVE  ConversationsInv'
  <2> DEFINE call == [NewRequest("agent", "thread", "stream", 0) EXCEPT !.entity = entity]
  <2>1. calls' = [calls EXCEPT ![c] = call] BY <1>6
  <2>2. entity \in Nat BY ConversationsAssumption
  <2>3. /\ call \in TalkRows /\ call.request = rows.begun + 1 /\ call.shown = {}
        /\ call.op = "agent" /\ call.at = "thread" /\ call.via = "stream" /\ call.thread = 0
        /\ ~call.isNew /\ call.expenses = {}
    BY <1>2, <2>2 DEF NewRequest, TalkRows
  <2> HIDE DEF call
  <2> QED BY <1>4, <2>1, <2>3
<1> QED BY <1>5, <1>6 DEF AgentStream, Begin

LEMMA ResolveThreadKept ==
    ASSUME ConversationsInv, NEW c \in Callers, ResolveThread(c) PROVE ConversationsInv'
<1>1. /\ Open(c) /\ TalkOK(rows, calls[c]) /\ calls[c] \in TalkRows
      /\ calls[c].at = "thread" /\ calls[c].op = "agent" /\ rows \in ConversationTables
  BY OpenTalks DEF ResolveThread, At, Open, ConversationsInv, TalkInv
<1>2. calls[c].expenses = {} /\ ~calls[c].isNew BY <1>1 DEF TalkOK
<1>3. CASE /\ (Reads /\ FindAgentThread(rows, calls[c].entity) = {}) \/ Fails
           /\ Goes(c, "create_thread")
  <2>1. "create_thread" \in Steps BY DEF Steps
  <2>2. rows'.failed \/ calls[c].entity = 0 \/ ThreadsOf(rows, calls[c].entity) = {}
    BY <1>1, <1>3, FoundIsThere, FailsRests
  <2>3. Rests BY <1>3, ReadsRest, FailsRests
  <2> QED BY <1>1, <1>2, <1>3, <2>1, <2>2, <2>3, GoesTo DEF Goes, Continue
<1>4. ASSUME NEW t \in FindAgentThread(rows, calls[c].entity), Reads, InThread(c, t, FALSE)
      PROVE  ConversationsInv'
  <2> DEFINE call == [calls[c] EXCEPT !.at = "history", !.thread = t, !.isNew = FALSE, !.entity = 0]
  <2>1. calls' = [calls EXCEPT ![c] = call] BY <1>4 DEF InThread, Continue
  <2>2. t \in DOMAIN rows.threads /\ t \in Nat
    BY <1>1, <1>4, FoundIsThere DEF ConversationTables
  <2>3. /\ call \in TalkRows /\ call.at = "history" /\ call.thread = t /\ ~call.isNew
        /\ \A f \in {"op", "via", "request", "expenses", "session", "shown"} :
              call[f] = calls[c][f]
    BY <1>1, <2>2 DEF TalkRows
  <2> HIDE DEF call
  <2>4. TalkOK(rows, call) BY <1>1, <2>2, <2>3 DEF TalkOK
  <2>5. ~Names(calls[c], calls[c].thread) /\ ~Names(call, call.thread) /\ Unsaid(calls[c])
    BY <1>1, <2>3 DEF Names, Unsaid
  <2> QED BY <1>1, <1>4, <2>1, <2>3, <2>4, <2>5, ReadsRest, GoesOn
<1> QED BY <1>3, <1>4 DEF ResolveThread

LEMMA ResolveCreatesKept ==
    ASSUME ConversationsInv, NEW c \in Callers, ResolveCreates(c) PROVE ConversationsInv'
<1>1. At(c, "agent", "create_thread") /\ Open(c) /\ calls[c].at = "create_thread"
  BY DEF ResolveCreates, At, Open
<1>2. CASE Untold(c) /\ Answer(c, AgentResponses.Failed) BY <1>1, <1>2, StopsUntold
<1>3. CASE /\ Store(CreateAgentThread(rows, calls[c].entity))
           /\ InThread(c, Len(rows.threads) + 1, TRUE)
  BY <1>1, <1>3, CreatesThread DEF Store, InThread, Continue
<1> QED BY <1>2, <1>3 DEF ResolveCreates

LEMMA AgentReadsKept ==
    ASSUME ConversationsInv, NEW c \in Callers, AgentReads(c) PROVE ConversationsInv'
<1>0. PICK shown \in Found(Turns(ListMessagesByThread(rows, calls[c].thread, HistoryLimit))) :
        Continue(c, [calls[c] EXCEPT !.at = "say", !.shown = shown])
  BY DEF AgentReads
<1> DEFINE call == [calls[c] EXCEPT !.at = "say", !.shown = shown]
<1>1. /\ Open(c) /\ TalkOK(rows, calls[c]) /\ calls[c] \in TalkRows /\ Reads
      /\ calls[c].at = "history" /\ calls[c].op = "agent"
  BY OpenTalks DEF AgentReads, At, Open, ConversationsInv
<1>2. calls' = [calls EXCEPT ![c] = call] BY <1>0 DEF Continue
<1>3. shown \subseteq {rows.messages[i].request : i \in DOMAIN rows.messages}
  BY <1>0, ShownBegan DEF ConversationsInv, Found
<1>4. \A i \in DOMAIN rows.messages : /\ rows.messages[i].request \in 1..rows.begun
                                      /\ rows.messages[i].request # calls[c].request
  BY <1>1 DEF ConversationsInv, TurnsInv, Unsaid
<1>5. shown \in SUBSET Nat /\ calls[c].request \notin shown
  <2>1. rows.begun \in Nat BY DEF ConversationsInv, TalkInv, ConversationTables
  <2> QED BY <1>3, <1>4, <2>1
<1>6. /\ call \in TalkRows /\ call.at = "say" /\ call.shown = shown
      /\ \A f \in {"op", "via", "request", "thread", "entity", "expenses", "session", "isNew"} :
            call[f] = calls[c][f]
  BY <1>1, <1>5 DEF TalkRows
<1> HIDE DEF call
<1>7. TalkOK(rows, call) BY <1>1, <1>5, <1>6 DEF TalkOK
<1>8. Unsaid(calls[c]) BY <1>1 DEF Unsaid
<1> QED BY <1>1, <1>2, <1>6, <1>7, <1>8, ReadsRest, GoesOn

LEMMA AgentSaysKept ==
    ASSUME ConversationsInv, NEW c \in Callers, AgentSays(c) PROVE ConversationsInv'
<1> DEFINE step == IF calls[c].isNew THEN "title" ELSE "model"
           call == [calls[c] EXCEPT !.at = step]
<1>1. /\ Open(c) /\ TalkOK(rows, calls[c]) /\ calls[c] \in TalkRows
      /\ calls[c].at = "say" /\ calls[c].op = "agent"
  BY OpenTalks DEF AgentSays, At, Open, ConversationsInv
<1>2. calls' = [calls EXCEPT ![c] = call] BY DEF AgentSays, Goes, Continue
<1>3. calls[c].via = "stream" /\ calls[c].expenses = {} /\ calls[c].isNew \in BOOLEAN
      /\ calls[c].thread \in DOMAIN rows.threads
  BY <1>1 DEF TalkOK, TalkRows
<1>4. step \in {"title", "model"} /\ (step = "title" <=> calls[c].isNew) /\ step \in Steps
  BY DEF Steps
<1> HIDE DEF step
<1>5. CASE rows' = [rows EXCEPT !.messages = Append(@, Message(c, "user"))]
  <2>1. /\ call \in TalkRows /\ call.at = step
        /\ \A f \in {"op", "via", "request", "thread", "entity", "expenses", "session", "isNew",
                     "shown"} : call[f] = calls[c][f]
    BY <1>1, <1>4, Stepped
  <2> HIDE DEF call
  <2>2. TalkOK(rows, call) BY <1>1, <1>3, <1>4, <2>1 DEF TalkOK
  <2>3. Unsaid(calls[c]) /\ ~Unsaid(call) BY <1>1, <1>3, <1>4, <2>1 DEF Unsaid
  <2>4. calls[c].isNew => calls[c].at = "say" /\ call.at = "title" /\ call.isNew BY <1>1, <1>4, <2>1
  <2> QED BY <1>1, <1>2, <1>4, <1>5, <2>1, <2>2, <2>3, <2>4, Says
<1>6. CASE Fails
  <2>1. Rests /\ rows'.failed BY <1>6, FailsRests
  <2>2. step = "title" => calls[c].op = "agent" /\ calls[c].isNew /\ rows'.failed
    BY <1>1, <1>4, <2>1
  <2> QED BY <1>1, <1>2, <1>3, <1>4, <2>1, <2>2, GoesTo
<1> QED BY <1>5, <1>6 DEF AgentSays, saveMessage, Tried, CreateAgentMessage

LEMMA AgentTitlesKept ==
    ASSUME ConversationsInv, NEW c \in Callers, AgentTitles(c) PROVE ConversationsInv'
<1>1. /\ At(c, "agent", "title") /\ Open(c) /\ TalkOK(rows, calls[c]) /\ calls[c].at = "title"
      /\ calls[c].expenses = {}
  BY OpenTalks DEF AgentTitles, At, Open, ConversationsInv, TalkOK
<1>2. calls' = [calls EXCEPT ![c] = [calls[c] EXCEPT !.at = "model"]]
  BY DEF AgentTitles, Goes, Continue
<1>3. CASE rows' = UpdateAgentThread(rows, calls[c].thread, calls[c].request)
  BY <1>1, <1>2, <1>3, GivesTitle
<1>4. CASE Fails
  <2>1. "model" \in Steps BY DEF Steps
  <2> QED BY <1>1, <1>2, <1>4, <2>1, FailsRests, GoesTo
<1> QED BY <1>3, <1>4 DEF AgentTitles, Tried

LEMMA AgentModelKept ==
    ASSUME ConversationsInv, NEW c \in Callers, AgentModel(c) PROVE ConversationsInv'
<1>1. Open(c) /\ TalkOK(rows, calls[c]) /\ calls[c].at = "model" /\ calls[c].expenses = {}
  BY OpenTalks DEF AgentModel, At, Open, ConversationsInv, TalkOK
<1>2. "answer" \in Steps /\ "session" \in Steps /\ "follow" \in Steps BY DEF Steps
<1>3. CASE Reads /\ Goes(c, "answer") BY <1>1, <1>2, <1>3, ReadsRest, GoesTo DEF Goes, Continue
<1>4. CASE Reads /\ Goes(c, "session") BY <1>1, <1>2, <1>4, ReadsRest, GoesTo DEF Goes, Continue
<1>5. CASE Store([rows EXCEPT !.plans = Append(@, calls[c].request)]) /\ Goes(c, "follow")
  <2>1. Rests BY <1>1, <1>5, NotedRests DEF Store
  <2> QED BY <1>1, <1>2, <1>5, <2>1, GoesTo DEF Goes, Continue
<1>6. CASE Untold(c) /\ Answer(c, AgentResponses.Failed) BY <1>1, <1>6, StopsUntold
<1> QED BY <1>3, <1>4, <1>5, <1>6 DEF AgentModel

LEMMA AgentFollowUpKept ==
    ASSUME ConversationsInv, NEW c \in Callers, AgentFollowUp(c) PROVE ConversationsInv'
<1>1. Open(c) /\ calls[c].at = "follow" /\ calls[c].op = "agent" BY DEF AgentFollowUp, At, Open
<1>2. "logged" \in Steps BY DEF Steps
<1>3. Rests
  BY <1>1, NotedRests, FailsRests DEF CreateAgentActionLog, AgentFollowUp, Tried
<1> QED BY <1>1, <1>2, <1>3, GoesTo DEF AgentFollowUp, Goes, Continue

LEMMA AgentStreamsKept ==
    ASSUME ConversationsInv, NEW c \in Callers, AgentStreams(c) PROVE ConversationsInv'
<1>1. Open(c) /\ calls[c].at = "logged" BY DEF AgentStreams, At, Open
<1>2. "answer" \in Steps BY DEF Steps
<1>3. CASE Reads /\ Goes(c, "answer") BY <1>1, <1>2, <1>3, ReadsRest, GoesTo DEF Goes, Continue
<1>4. CASE Untold(c) /\ Answer(c, AgentResponses.Done) BY <1>1, <1>4, StopsUntold
<1> QED BY <1>3, <1>4 DEF AgentStreams

LEMMA ConversationsKept == ConversationsInv /\ [ConversationsNext]_requestVars => ConversationsInv'
<1> SUFFICES ASSUME ConversationsInv, [ConversationsNext]_requestVars PROVE ConversationsInv'
  OBVIOUS
<1>1. CASE UNCHANGED requestVars
  <2>1. rows' = rows /\ calls' = calls BY <1>1 DEF requestVars
  <2> USE DEF ConversationsInv
  <2>2. TalkInv' BY <2>1 DEF TalkInv
  <2>3. TurnsInv' BY <2>1 DEF TurnsInv, Open, Alone
  <2>4. ToldInv' BY <2>1 DEF ToldInv, IsTold, Saved, Open
  <2>5. SessionsInv' BY <2>1 DEF SessionsInv, Together, Alone, CreatingSession
  <2>6. ThreadsInv' BY <2>1 DEF ThreadsInv, Together, Alone, CreatingThread
  <2>7. TitlesInv' BY <2>1 DEF TitlesInv, Alone
  <2> QED BY <2>2, <2>3, <2>4, <2>5, <2>6, <2>7
<1>2. ASSUME NEW c \in Callers,
             \/ Chat(c) \/ ChatSays(c) \/ ChatModel(c) \/ ChatFollowUp(c) \/ ChatSaysLate(c)
             \/ ChatAnswers(c) \/ History(c)
             \/ GetSession(c) \/ CreateSession(c) \/ RetrySession(c) \/ RecordExpense(c)
             \/ AgentStream(c) \/ ResolveThread(c) \/ ResolveCreates(c) \/ AgentReads(c)
             \/ AgentSays(c) \/ AgentTitles(c) \/ AgentModel(c) \/ AgentFollowUp(c)
             \/ AgentStreams(c) \/ AgentAnswers(c) \/ ListThreads(c) \/ ThreadMessages(c)
      PROVE  ConversationsInv'
  BY <1>2, ChatKept, ChatSaysKept, ChatModelKept, ChatFollowUpKept, ChatSaysLateKept, AnswersKept,
     AtOnceKept, GetSessionKept, CreateSessionKept, RetrySessionKept, RecordExpenseKept,
     AgentStreamKept, ResolveThreadKept, ResolveCreatesKept, AgentReadsKept, AgentSaysKept,
     AgentTitlesKept, AgentModelKept, AgentFollowUpKept, AgentStreamsKept
<1> QED BY <1>1, <1>2 DEF ConversationsNext, Serving

----

LEMMA ConversationsBegins == ConversationsInit => ConversationsInv
<1> SUFFICES ASSUME ConversationsStart(rows), RequestsInit PROVE ConversationsInv
  BY DEF ConversationsInit
<1> USE DEF ConversationsStart
<1>1. /\ DOMAIN calls = Callers
      /\ \A c \in Callers : /\ Closed(calls[c]) /\ ~Open(c)
                            /\ calls[c].at \notin {"create_session", "create_thread"}
  BY DEF RequestsInit, NoCall, Gone, Closed, Open
<1>2. TalkInv BY <1>1 DEF TalkInv
<1>3. \A i \in DOMAIN rows.messages : rows.messages[i].role \in {"user", "assistant"}
  <2>1. rows.messages \in Seq(MessageRows) BY DEF ConversationTables
  <2>2. \A i \in DOMAIN rows.messages : rows.messages[i] \in MessageRows BY <2>1
  <2> QED BY <2>2 DEF MessageRows
<1>4. ASSUME NEW i \in DOMAIN rows.messages, NEW j \in DOMAIN rows.messages,
             rows.messages[i].request = rows.messages[j].request
      PROVE  /\ rows.messages[i].role = rows.messages[j].role => i = j
             /\ rows.messages[i].role = "user" /\ rows.messages[j].role = "assistant" =>
                  j = i + 1 /\ rows.messages[i].thread = rows.messages[j].thread
  <2> DEFINE r == rows.messages[i].request
  <2>1. r \in 1..rows.begun /\ \A role : rows.messages[i].role = role => i \in SavedIn(rows, r, role)
    BY DEF SavedIn
  <2>2. \A role : rows.messages[j].role = role => j \in SavedIn(rows, r, role) BY <1>4 DEF SavedIn
  <2>3. /\ \A role \in {"user", "assistant"} : \A x, y \in SavedIn(rows, r, role) : x = y
        /\ \A u \in SavedIn(rows, r, "user"), a \in SavedIn(rows, r, "assistant") :
              a = u + 1 /\ rows.messages[u].thread = rows.messages[a].thread
    BY <2>1
  <2> HIDE DEF r
  <2> QED BY <1>3, <2>1, <2>2, <2>3
<1>5. DOMAIN rows.messages \subseteq Nat BY DEF ConversationTables
<1>6. TurnsInv
  BY <1>5, <1>1, <1>4 DEF TurnsInv
<1>7. ToldInv BY DEF ToldInv, IsTold, Saved
<1>8. Together \in Nat /\ Together >= 1
  BY CallersAssumption, FS_CardinalityType, FS_EmptySet DEF Together
<1>9. SessionsInv
  BY <1>1, FS_EmptySet, NoTwoMembers, <1>8 DEF CreatingSession, SessionsInv
<1>10. ASSUME NEW entity \in Entities \ {0}
       PROVE  Cardinality(ThreadsOf(rows, entity)) + Cardinality(CreatingThread(entity)) <= Together
  BY <1>1, FS_EmptySet, NoTwoMembers, <1>8 DEF CreatingThread, ThreadsOf
<1>11. ThreadsInv BY <1>10 DEF ThreadsInv
<1>12. TitlesInv BY <1>1 DEF TitlesInv, Names, Opened
<1> QED BY <1>2, <1>6, <1>7, <1>9, <1>11, <1>12 DEF ConversationsInv

LEMMA InvTurns == ConversationsInv => TurnsInOrder
<1> SUFFICES ASSUME ConversationsInv PROVE TurnsInOrder OBVIOUS
<1>1. \A c \in Callers : Open(c) => calls[c].request \notin calls[c].shown
  BY OpenTalks DEF ConversationsInv, TalkOK
<1>2. ASSUME NEW r, NEW role PROVE Cardinality(Saved(r, role)) <= 1
  BY NoTwoMembers DEF Saved, SavedIn, ConversationsInv, TurnsInv
<1>3. ASSUME NEW r, NEW u \in Saved(r, "user"), NEW a \in Saved(r, "assistant")
      PROVE  /\ u < a /\ rows.messages[u].thread = rows.messages[a].thread
             /\ Alone => \A m \in (u + 1)..(a - 1) :
                             rows.messages[m].thread # rows.messages[u].thread
  <2>1. /\ u < a /\ rows.messages[u].thread = rows.messages[a].thread
        /\ Alone => a = u + 1
    BY DEF Saved, SavedIn, ConversationsInv, TurnsInv
  <2>2. u \in Nat BY DEF Saved, SavedIn, ConversationsInv, TalkInv, ConversationTables
  <2>3. ASSUME Alone, NEW m \in (u + 1)..(a - 1) PROVE FALSE BY <2>1, <2>2, <2>3
  <2> QED BY <2>1, <2>3
<1> QED BY <1>1, <1>2, <1>3 DEF TurnsInOrder

LEMMA InvTold == ConversationsInv => ExpensesTold
BY DEF ConversationsInv, ToldInv, IsTold, ExpensesTold

LEMMA InvSessions == ConversationsInv => OneSession
<1> SUFFICES ASSUME ConversationsInv, ~rows.failed
             PROVE  LET used == {rows.expenses[e].session : e \in DOMAIN rows.expenses}
                    IN  /\ Cardinality(used) <= (IF Alone THEN 1 ELSE Cardinality(Callers))
                        /\ Alone => Cardinality(ActiveSessions(rows)) <= 1
  BY DEF OneSession
<1> DEFINE used == {rows.expenses[e].session : e \in DOMAIN rows.expenses}
<1>1. /\ IsFiniteSet(ActiveSessions(rows)) /\ Cardinality(ActiveSessions(rows)) \in Nat
  BY ActiveCount DEF ConversationsInv, TalkInv
<1>2. IsFiniteSet(CreatingSession) /\ Cardinality(CreatingSession) \in Nat
  BY CallersAssumption, FS_Subset, FS_CardinalityType DEF CreatingSession
<1>3. Cardinality(ActiveSessions(rows)) + Cardinality(CreatingSession) <= Together
  BY DEF ConversationsInv, SessionsInv
<1>4. Together \in Nat BY CallersAssumption, FS_CardinalityType DEF Together
<1>5. Cardinality(ActiveSessions(rows)) <= Together BY <1>1, <1>2, <1>3, <1>4
<1>6. used \subseteq ActiveSessions(rows) BY DEF ConversationsInv, SessionsInv
<1> HIDE DEF used
<1>7. Cardinality(used) \in Nat /\ Cardinality(used) <= Cardinality(ActiveSessions(rows))
  BY <1>1, <1>6, FS_Subset, FS_CardinalityType
<1>8. Cardinality(used) <= Together BY <1>1, <1>4, <1>5, <1>7
<1> QED BY <1>5, <1>8 DEF used, Together

LEMMA InvThreads == ConversationsInv => ThreadsKept
<1> SUFFICES ASSUME ConversationsInv, ~rows.failed PROVE ThreadsKept BY DEF ThreadsKept
<1>1. rows \in ConversationTables /\ DOMAIN rows.messages \subseteq Nat
      /\ DOMAIN rows.messages = 1..Len(rows.messages) /\ Len(rows.messages) \in Nat
  BY DEF ConversationsInv, TalkInv, ConversationTables
<1>2. Together \in Nat BY CallersAssumption, FS_CardinalityType DEF Together
<1>3. ASSUME NEW entity \in Entities \ {0} PROVE Cardinality(ThreadsOf(rows, entity)) <= Together
  <2>1. Cardinality(ThreadsOf(rows, entity)) \in Nat BY <1>1, ActiveCount
  <2>2. CreatingThread(entity) \subseteq Callers BY DEF CreatingThread
  <2>3. IsFiniteSet(CreatingThread(entity)) BY <2>2, CallersAssumption, FS_Subset
  <2>4. Cardinality(CreatingThread(entity)) \in Nat BY <2>3, FS_CardinalityType
  <2>5. Cardinality(ThreadsOf(rows, entity)) + Cardinality(CreatingThread(entity)) <= Together
    BY DEF ConversationsInv, ThreadsInv
  <2> QED BY <1>2, <2>1, <2>4, <2>5
<1>4. ASSUME Alone, ~rows.failed, \A c \in Callers : ~Open(c),
             NEW t \in DOMAIN rows.threads, NEW m \in ListMessagesByThread(rows, t, 1)
      PROVE  m.request = rows.threads[t].title
  <2>1. Opened(rows, t, rows.threads[t].title)
    BY <1>4 DEF Names, Closed, Open, ConversationsInv, TitlesInv
  <2>2. PICK i \in DOMAIN rows.messages :
          /\ rows.messages[i].thread = t /\ rows.messages[i].request = rows.threads[t].title
          /\ \A j \in DOMAIN rows.messages : rows.messages[j].thread = t => i <= j
    BY <2>1 DEF Opened
  <2> DEFINE said == {k \in DOMAIN rows.messages : rows.messages[k].thread = t}
  <2>3. PICK j \in said : m = rows.messages[j] /\ Cardinality({k \in said : k <= j}) <= 1
    BY DEF ListMessagesByThread
  <2> DEFINE upto == {k \in said : k <= j}
  <2>4. IsFiniteSet(upto)
    <3>1. upto \subseteq 1..Len(rows.messages) BY <1>1
    <3>2. IsFiniteSet(1..Len(rows.messages))
      BY FS_Interval, <1>1
    <3> QED BY <3>1, <3>2, FS_Subset
  <2>5. {i, j} \subseteq upto BY <1>1, <2>2
  <2>6. i = j
    <3>1. SUFFICES ASSUME i # j PROVE FALSE OBVIOUS
    <3>2. IsFiniteSet({i}) /\ Cardinality({i}) = 1 BY FS_Singleton
    <3>3. Cardinality({i} \cup {j}) = Cardinality({i}) + 1 BY <3>1, <3>2, FS_AddElement
    <3>4. {i} \cup {j} \subseteq upto BY <2>5
    <3> HIDE DEF upto
    <3>5. Cardinality({i} \cup {j}) <= Cardinality(upto) BY <2>4, <3>4, FS_Subset
    <3>6. Cardinality(upto) \in Nat BY <2>4, FS_CardinalityType
    <3>7. Cardinality(upto) <= 1 BY <2>3 DEF upto
    <3> HIDE DEF said
    <3> QED BY ONLY <3>2, <3>3, <3>5, <3>6, <3>7
  <2> QED BY <2>2, <2>3, <2>6
<1> QED BY <1>3, <1>4 DEF ThreadsKept, Together, ThreadsOf

LEMMA ConversationsImplies == ConversationsInv => ConversationsSound
BY InvTurns, InvTold, InvSessions, InvThreads DEF ConversationsSound

(* In every behaviour of a chat or of an agent's threads, with any number of
   goroutines, entities and messages shown, and from any tables that satisfy
   ConversationsStart: ConversationsSound. *)
THEOREM ConversationsSafe == ConversationsSpec => []ConversationsSound
<1>1. ConversationsInit => ConversationsInv BY ConversationsBegins
<1>2. ConversationsInv /\ [ConversationsNext]_requestVars => ConversationsInv' BY ConversationsKept
<1>3. ConversationsInv => ConversationsSound BY ConversationsImplies
<1> QED BY <1>1, <1>2, <1>3, PTL DEF ConversationsSpec

----
(* SessionDesk: anomalies. *)

Expected(db) == RunAnomalyDetection(db.txns)

(* A request about anomalies at each of its steps. *)
AnomalyCallOK(db, call) ==
    \/ call.at \in {"answered", "gone"}
    \/ call.op = "detect" /\ DOMAIN call = {"op", "at", "todo"} /\
         \/ call.at = "delete" /\ call.todo = Expected(db)
         \/ call.at = "insert" /\ call.todo \subseteq Expected(db)
    \/ call.op = "anomalies" /\ call.at = "count"
    \/ call.op = "resolve" /\ call.at \in {"update", "reread"}
         /\ DOMAIN call = {"op", "at", "id", "asked"}

AnomalyShape ==
    /\ DOMAIN rows = AnomalyFields /\ rows.made \in Nat /\ rows.ended \in Nat
    /\ DOMAIN rows.anomalies \subseteq 1..rows.made
    /\ \A a \in DOMAIN rows.anomalies : DOMAIN rows.anomalies[a] = {"anomaly", "status"}
    /\ DOMAIN calls = Callers /\ \A c \in Callers : AnomalyCallOK(rows, calls[c])

(* The rows on file for an anomaly, and the requests that still file it. *)
CopiesOf(db, anomaly) == {i \in DOMAIN db.anomalies : db.anomalies[i].anomaly = anomaly}
Filing(anomaly) == {c \in Waiting("detect", "insert") : anomaly \in calls[c].todo}

FiledInv ==
    ~rows.failed /\ (rows.ended > 0 \/ Waiting("detect", "insert") # {}) =>
        /\ \A i \in DOMAIN rows.anomalies : rows.anomalies[i].anomaly \in Expected(rows)
        /\ \A a \in Expected(rows) :
             /\ CopiesOf(rows, a) # {} \/ Filing(a) # {}
             /\ Cardinality(CopiesOf(rows, a)) + Cardinality(Filing(a)) <= Together

(* What a request that is alone may rely on. *)
ShownOK(db, call) ==
    /\ call.op = "resolve" /\ call.at \in {"update", "reread"} => call.id \in DOMAIN db.anomalies
    /\ call.op = "resolve" /\ call.at = "reread" => db.anomalies[call.id].status = call.asked
    /\ call.op = "anomalies" /\ call.at = "count" =>
         call.listed = ListAnomaliesBySessionFiltered(db, call.status)

ShownWell(call) ==
    /\ call.op = "resolve" /\ "shown" \in DOMAIN call => call.shown = {call.asked}
    /\ call.op = "anomalies" /\ call.at = "answered" => call.total = Cardinality(call.listed)

ShownInv ==
    Alone /\ ~rows.failed =>
        \A c \in Callers : ShownOK(rows, calls[c]) /\ ShownWell(calls[c])

AnomalyInv == AnomalyShape /\ FiledInv /\ ShownInv

----
(* The shape of the tables is kept. *)
LEMMA AnomalyStepped ==
    ASSUME AnomalyShape, NEW c \in Callers, NEW call, calls' = [calls EXCEPT ![c] = call],
           calls[c].at # "gone", call.at # "gone"
    PROVE  Moved(c) /\ calls'[c] = call
BY DEF AnomalyShape, Moved

LEMMA AnomalyShapeKept ==
    ASSUME AnomalyShape, NEW c \in Callers, Moved(c), AnomalyCallOK(rows', calls'[c]),
           DOMAIN rows' = AnomalyFields, rows'.txns = rows.txns,
           rows'.made \in Nat, rows'.ended \in Nat,
           DOMAIN rows'.anomalies \subseteq 1..rows'.made,
           \A a \in DOMAIN rows'.anomalies : DOMAIN rows'.anomalies[a] = {"anomaly", "status"}
    PROVE  AnomalyShape'
<1>1. Expected(rows') = Expected(rows) BY DEF Expected
<1>2. ASSUME NEW d \in Callers PROVE AnomalyCallOK(rows', calls'[d])
  BY <1>1 DEF AnomalyShape, AnomalyCallOK, Moved
<1> QED BY <1>2 DEF AnomalyShape, Moved

(* A step that leaves the tables and all detections alone. *)
LEMMA AnomaliesRest ==
    ASSUME AnomalyInv, NEW c \in Callers, Moved(c), rows' = rows,
           ~At(c, "detect", "insert"), ~At(c, "detect", "insert")',
           AnomalyCallOK(rows, calls'[c]),
           Alone /\ ~rows.failed => ShownOK(rows, calls'[c]) /\ ShownWell(calls'[c])
    PROVE  AnomalyInv'
<1>1. AnomalyShape' BY AnomalyShapeKept DEF AnomalyInv, AnomalyShape
<1>2. \A d \in Callers : At(d, "detect", "insert")' <=> At(d, "detect", "insert") BY DEF At, Moved
<1>3. Waiting("detect", "insert")' = Waiting("detect", "insert") BY <1>2 DEF Waiting
<1>4. \A d \in Waiting("detect", "insert") : calls'[d] = calls[d] BY DEF Waiting, Moved
<1>5. \A a : Filing(a)' = Filing(a) BY <1>3, <1>4 DEF Filing
<1>6. FiledInv' BY <1>3, <1>5, TogetherKept DEF AnomalyInv, FiledInv
<1>7. ShownInv' BY AloneStays DEF AnomalyInv, ShownInv, Moved
<1> QED BY <1>1, <1>6, <1>7 DEF AnomalyInv

(* A request that says no more than its answer. *)
LEMMA AnsweredShape ==
    ASSUME NEW op, NEW status, op # "anomalies"
    PROVE  LET call == Answered(op, status)
           IN  /\ call.at = "answered" /\ call.op = op
               /\ \A db : AnomalyCallOK(db, call) /\ ShownOK(db, call)
               /\ ShownWell(call)
BY DEF Answered, AnomalyCallOK, ShownOK, ShownWell

LEMMA DetectAnomaliesStep ==
    ASSUME AnomalyInv, NEW c \in Callers, DetectAnomalies(c)
    PROVE  AnomalyInv'
<1>1. calls[c].at = "answered" /\ rows' = rows BY DEF DetectAnomalies, Free, Reads
<1>2. CASE rows.txns = <<>>
  <2> DEFINE call == Answered("detect", DetectResponses.Failed)
  <2>1. calls' = [calls EXCEPT ![c] = call] BY <1>2 DEF DetectAnomalies, AnswerAtOnce, Begin
  <2>2. call.at = "answered" /\ AnomalyCallOK(rows, call) /\ ShownOK(rows, call) /\ ShownWell(call)
    BY AnsweredShape
  <2> HIDE DEF call
  <2>3. Moved(c) /\ calls'[c] = call BY <1>1, <2>1, <2>2, AnomalyStepped DEF AnomalyInv
  <2> QED BY <1>1, <2>2, <2>3, AnomaliesRest DEF At
<1>3. CASE rows.txns # <<>>
  <2> DEFINE call == [op |-> "detect", at |-> "delete", todo |-> Expected(rows)]
  <2>1. calls' = [calls EXCEPT ![c] = call] BY <1>3 DEF DetectAnomalies, Begin, Expected
  <2>2. call.at = "delete" /\ AnomalyCallOK(rows, call) /\ ShownOK(rows, call) /\ ShownWell(call)
    BY DEF AnomalyCallOK, ShownOK, ShownWell
  <2> HIDE DEF call
  <2>3. Moved(c) /\ calls'[c] = call BY <1>1, <2>1, <2>2, AnomalyStepped DEF AnomalyInv
  <2> QED BY <1>1, <2>2, <2>3, AnomaliesRest DEF At
<1> QED BY <1>2, <1>3

LEMMA ListAnomaliesStep ==
    ASSUME AnomalyInv, NEW c \in Callers, ListAnomalies(c)
    PROVE  AnomalyInv'
<1>1. calls[c].at = "answered" /\ rows' = rows BY ZenonT(20) DEF ListAnomalies, Free, Reads
<1>2. \E status : calls' = [calls EXCEPT ![c] =
         [op |-> "anomalies", at |-> "count", status |-> status,
          listed |-> ListAnomaliesBySessionFiltered(rows, status)]]
  BY ZenonT(20) DEF ListAnomalies, Begin
<1>3. PICK status : calls' = [calls EXCEPT ![c] =
         [op |-> "anomalies", at |-> "count", status |-> status,
          listed |-> ListAnomaliesBySessionFiltered(rows, status)]]
  BY <1>2
<1> DEFINE call == [op |-> "anomalies", at |-> "count", status |-> status,
                    listed |-> ListAnomaliesBySessionFiltered(rows, status)]
<1>4. call.at = "count" /\ AnomalyCallOK(rows, call) /\ ShownOK(rows, call) /\ ShownWell(call)
  BY DEF AnomalyCallOK, ShownOK, ShownWell
<1>5. calls' = [calls EXCEPT ![c] = call] BY <1>3
<1> HIDE DEF call
<1>6. Moved(c) /\ calls'[c] = call BY <1>1, <1>4, <1>5, AnomalyStepped DEF AnomalyInv
<1> QED BY <1>1, <1>4, <1>6, AnomaliesRest DEF At

LEMMA ListCountsStep ==
    ASSUME AnomalyInv, NEW c \in Callers, ListAnomaliesCounts(c)
    PROVE  AnomalyInv'
<1> DEFINE old == calls[c]
           total == CountAnomaliesBySessionFiltered(rows, old.status)
           call == [op |-> "anomalies", at |-> "answered", listed |-> old.listed,
                    total |-> total, status |-> ListResponses.Done]
<1>1. old.op = "anomalies" /\ old.at = "count" /\ rows' = rows BY DEF ListAnomaliesCounts, At, Reads
<1>2. calls' = [calls EXCEPT ![c] = call] BY DEF ListAnomaliesCounts, Continue
<1>3. ASSUME Alone, ~rows.failed PROVE total = Cardinality(old.listed)
  BY <1>1, <1>3 DEF AnomalyInv, ShownInv, ShownOK, CountAnomaliesBySessionFiltered
<1> HIDE DEF total
<1>4. /\ call.at = "answered" /\ AnomalyCallOK(rows, call) /\ ShownOK(rows, call)
      /\ Alone /\ ~rows.failed => ShownWell(call)
  BY <1>3 DEF AnomalyCallOK, ShownOK, ShownWell
<1> HIDE DEF call
<1>5. Moved(c) /\ calls'[c] = call BY <1>1, <1>2, <1>4, AnomalyStepped DEF AnomalyInv
<1> QED BY <1>1, <1>4, <1>5, AnomaliesRest DEF At

LEMMA ResolveStep ==
    ASSUME AnomalyInv, NEW c \in Callers, ResolveAnomaly(c)
    PROVE  AnomalyInv'
<1>1. calls[c].at = "answered" /\ rows' = rows BY DEF ResolveAnomaly, Free, Reads
<1>2. PICK a, status : IF GetAnomalyByID(rows, a) = {}
        THEN AnswerAtOnce(c, "resolve", ResolveResponses.NotFound)
        ELSE Begin(c, [op |-> "resolve", at |-> "update", id |-> a, asked |-> status])
  BY DEF ResolveAnomaly
<1>3. CASE GetAnomalyByID(rows, a) = {}
  <2> DEFINE call == Answered("resolve", ResolveResponses.NotFound)
  <2>1. calls' = [calls EXCEPT ![c] = call] BY <1>2, <1>3 DEF AnswerAtOnce, Begin
  <2>2. call.at = "answered" /\ AnomalyCallOK(rows, call) /\ ShownOK(rows, call) /\ ShownWell(call)
    BY AnsweredShape
  <2> HIDE DEF call
  <2>3. Moved(c) /\ calls'[c] = call BY <1>1, <2>1, <2>2, AnomalyStepped DEF AnomalyInv
  <2> QED BY <1>1, <2>2, <2>3, AnomaliesRest DEF At
<1>4. CASE GetAnomalyByID(rows, a) # {}
  <2> DEFINE call == [op |-> "resolve", at |-> "update", id |-> a, asked |-> status]
  <2>1. calls' = [calls EXCEPT ![c] = call] BY <1>2, <1>4 DEF Begin
  <2>2. a \in DOMAIN rows.anomalies BY <1>4 DEF GetAnomalyByID
  <2>3. call.at = "update" /\ AnomalyCallOK(rows, call) /\ ShownOK(rows, call) /\ ShownWell(call)
    BY <2>2 DEF AnomalyCallOK, ShownOK, ShownWell
  <2> HIDE DEF call
  <2>4. Moved(c) /\ calls'[c] = call BY <1>1, <2>1, <2>3, AnomalyStepped DEF AnomalyInv
  <2> QED BY <1>1, <2>3, <2>4, AnomaliesRest DEF At
<1> QED BY <1>3, <1>4

LEMMA ResolveAnswersStep ==
    ASSUME AnomalyInv, NEW c \in Callers, ResolveAnswers(c)
    PROVE  AnomalyInv'
<1> DEFINE old == calls[c]
           shown == {rows.anomalies[i].status : i \in GetAnomalyByID(rows, old.id)}
           call == [op |-> "resolve", at |-> "answered", asked |-> old.asked,
                    shown |-> shown, status |-> ResolveResponses.Done]
<1>1. old.op = "resolve" /\ old.at = "reread" /\ rows' = rows BY DEF ResolveAnswers, At, Reads
<1>2. calls' = [calls EXCEPT ![c] = call] BY DEF ResolveAnswers, Continue
<1>3. ASSUME Alone, ~rows.failed PROVE shown = {old.asked}
  BY <1>1, <1>3 DEF AnomalyInv, ShownInv, ShownOK, GetAnomalyByID
<1> HIDE DEF shown
<1>4. /\ call.at = "answered" /\ AnomalyCallOK(rows, call) /\ ShownOK(rows, call)
      /\ Alone /\ ~rows.failed => ShownWell(call)
  BY <1>3 DEF AnomalyCallOK, ShownOK, ShownWell
<1> HIDE DEF call
<1>5. Moved(c) /\ calls'[c] = call BY <1>1, <1>2, <1>4, AnomalyStepped DEF AnomalyInv
<1> QED BY <1>1, <1>4, <1>5, AnomaliesRest DEF At

(* A statement whose error is ignored fails. *)
LEMMA AnomalyFails ==
    ASSUME AnomalyInv, NEW c \in Callers, Moved(c), rows' = [rows EXCEPT !.failed = TRUE],
           AnomalyCallOK(rows, calls'[c])
    PROVE  AnomalyInv'
<1>1. /\ DOMAIN rows' = AnomalyFields /\ rows'.failed = TRUE /\ rows'.txns = rows.txns
      /\ rows'.made = rows.made /\ rows'.ended = rows.ended /\ rows'.anomalies = rows.anomalies
  BY DEF AnomalyInv, AnomalyShape, AnomalyFields
<1>2. AnomalyCallOK(rows', calls'[c]) BY <1>1 DEF AnomalyCallOK, Expected
<1>3. AnomalyShape' BY <1>1, <1>2, AnomalyShapeKept DEF AnomalyInv, AnomalyShape
<1>4. FiledInv' /\ ShownInv' BY <1>1 DEF FiledInv, ShownInv
<1> QED BY <1>3, <1>4 DEF AnomalyInv

(* What others are told and hold when the step's own request is neither told
   nor alone with what it holds. *)
LEMMA ShownKept ==
    ASSUME AnomalyInv, NEW c \in Callers, Moved(c), ~rows'.failed => ~rows.failed,
           Alone /\ ~rows'.failed => ShownOK(rows', calls'[c]) /\ ShownWell(calls'[c])
    PROVE  ShownInv'
<1>1. ASSUME Alone', ~rows'.failed, NEW d \in Callers
      PROVE  ShownOK(rows', calls'[d]) /\ ShownWell(calls'[d])
  <2>1. Alone BY <1>1, AloneStays
  <2>2. CASE d = c BY <1>1, <2>1, <2>2
  <2>3. CASE d # c
    BY <2>1, <2>3, AloneStays, <1>1 DEF Moved, AnomalyInv, ShownInv, ShownOK
  <2> QED BY <2>2, <2>3
<1> QED BY <1>1 DEF ShownInv

LEMMA ResolveUpdatesStep ==
    ASSUME AnomalyInv, NEW c \in Callers, ResolveUpdates(c)
    PROVE  AnomalyInv'
<1> DEFINE old == calls[c]
           call == [old EXCEPT !.at = "reread"]
<1>1. old.op = "resolve" /\ old.at = "update" /\ DOMAIN old = {"op", "at", "id", "asked"}
  BY DEF ResolveUpdates, At, AnomalyInv, AnomalyShape, AnomalyCallOK
<1>2. calls' = [calls EXCEPT ![c] = call] BY DEF ResolveUpdates, Continue
<1>3. /\ call.op = "resolve" /\ call.at = "reread" /\ call.id = old.id /\ call.asked = old.asked
      /\ DOMAIN call = {"op", "at", "id", "asked"}
  BY <1>1
<1> HIDE DEF call
<1>4. \A db : AnomalyCallOK(db, call) BY <1>3 DEF AnomalyCallOK
<1>5. Moved(c) /\ calls'[c] = call BY <1>1, <1>2, <1>3, AnomalyStepped DEF AnomalyInv
<1>6. CASE rows' = [rows EXCEPT !.failed = TRUE] BY <1>4, <1>5, <1>6, AnomalyFails
<1>7. CASE rows' = UpdateAnomaly(rows, old.id, old.asked)
  <2> DEFINE table == [i \in DOMAIN rows.anomalies |->
                         IF i = old.id THEN [rows.anomalies[i] EXCEPT !.status = old.asked]
                         ELSE rows.anomalies[i]]
  <2>1. rows' = [rows EXCEPT !.anomalies = table] BY <1>7 DEF UpdateAnomaly
  <2>2. /\ DOMAIN table = DOMAIN rows.anomalies
        /\ \A i \in DOMAIN table : DOMAIN table[i] = {"anomaly", "status"}
                                  /\ table[i].anomaly = rows.anomalies[i].anomaly
        /\ old.id \in DOMAIN table => table[old.id].status = old.asked
    BY DEF AnomalyInv, AnomalyShape
  <2> HIDE DEF table
  <2>3. /\ DOMAIN rows' = AnomalyFields /\ rows'.failed = rows.failed /\ rows'.txns = rows.txns
        /\ rows'.made = rows.made /\ rows'.ended = rows.ended /\ rows'.anomalies = table
    BY <2>1 DEF AnomalyInv, AnomalyShape, AnomalyFields
  <2>4. AnomalyShape' BY <1>4, <1>5, <2>2, <2>3, AnomalyShapeKept DEF AnomalyInv, AnomalyShape
  <2>5. \A d \in Callers : At(d, "detect", "insert")' <=> At(d, "detect", "insert")
    BY <1>1, <1>3, <1>5 DEF At, Moved
  <2>6. Waiting("detect", "insert")' = Waiting("detect", "insert") BY <2>5 DEF Waiting
  <2>7. \A d \in Waiting("detect", "insert") : calls'[d] = calls[d]
    BY <1>1, <1>5 DEF Waiting, Moved, At
  <2>8. \A a : Filing(a)' = Filing(a) BY <2>6, <2>7 DEF Filing
  <2>9. \A a : CopiesOf(rows', a) = CopiesOf(rows, a) BY <2>2, <2>3 DEF CopiesOf
  <2>10. Expected(rows') = Expected(rows) BY <2>3 DEF Expected
  <2>11. FiledInv'
    BY <1>5, <2>2, <2>3, <2>6, <2>8, <2>9, <2>10, TogetherKept DEF AnomalyInv, FiledInv
  <2>12. ASSUME Alone, ~rows'.failed PROVE ShownOK(rows', call) /\ ShownWell(call)
    BY <1>1, <2>3, <2>12, <1>3, <2>2 DEF AnomalyInv, ShownInv, ShownOK, ShownWell
  <2>13. ShownInv' BY <1>5, <2>3, <2>12, ShownKept
  <2> QED BY <2>4, <2>11, <2>13 DEF AnomalyInv
<1> QED BY <1>6, <1>7 DEF ResolveUpdates, Ignoring

LEMMA DetectAnswersStep ==
    ASSUME AnomalyInv, NEW c \in Callers, DetectAnswers(c)
    PROVE  AnomalyInv'
<1> DEFINE call == Answered(calls[c].op, DetectResponses.Done)
           ended == rows.ended + 1
<1>1. calls[c].op = "detect" /\ calls[c].at = "insert" /\ calls[c].todo = {}
  BY DEF DetectAnswers, At
<1>2. calls' = [calls EXCEPT ![c] = call] BY DEF DetectAnswers, Answer, Continue
<1>3. call.at = "answered" /\ \A db : AnomalyCallOK(db, call) /\ ShownOK(db, call) /\ ShownWell(call)
  BY <1>1, AnsweredShape
<1> HIDE DEF call
<1>4. Moved(c) /\ calls'[c] = call BY <1>1, <1>2, <1>3, AnomalyStepped DEF AnomalyInv
<1>5. rows' = [rows EXCEPT !.ended = ended] /\ ended \in Nat
  BY DEF DetectAnswers, Store, AnomalyInv, AnomalyShape
<1> HIDE DEF ended
<1>6. /\ DOMAIN rows' = AnomalyFields /\ rows'.failed = rows.failed /\ rows'.txns = rows.txns
      /\ rows'.made = rows.made /\ rows'.ended = ended /\ rows'.anomalies = rows.anomalies
  BY <1>5 DEF AnomalyInv, AnomalyShape, AnomalyFields
<1>7. AnomalyShape' BY <1>3, <1>4, <1>5, <1>6, AnomalyShapeKept DEF AnomalyInv, AnomalyShape
<1>8. c \in Waiting("detect", "insert") BY <1>1 DEF Waiting, At
<1>9. \A d \in Callers \ {c} : At(d, "detect", "insert")' <=> At(d, "detect", "insert")
  BY <1>4 DEF At, Moved
<1>10. ~At(c, "detect", "insert")' BY <1>3, <1>4 DEF At
<1>11. Waiting("detect", "insert")' = Waiting("detect", "insert") \ {c} BY <1>9, <1>10 DEF Waiting
<1>12. \A a : c \notin Filing(a) BY <1>1 DEF Filing
<1>13. \A a : Filing(a)' = Filing(a) BY <1>4, <1>11, <1>12 DEF Filing, Waiting, Moved
<1>14. Expected(rows') = Expected(rows) /\ \A a : CopiesOf(rows', a) = CopiesOf(rows, a)
  BY <1>6 DEF Expected, CopiesOf
<1>15. FiledInv' BY <1>4, <1>6, <1>8, <1>13, <1>14, TogetherKept DEF AnomalyInv, FiledInv
<1>16. ShownInv' BY <1>3, <1>4, <1>6, ShownKept
<1> QED BY <1>7, <1>15, <1>16 DEF AnomalyInv

LEMMA DetectDeletesStep ==
    ASSUME AnomalyInv, NEW c \in Callers, DetectDeletes(c)
    PROVE  AnomalyInv'
<1> DEFINE old == calls[c]
           call == [old EXCEPT !.at = "insert"]
<1>1. /\ old.op = "detect" /\ old.at = "delete" /\ DOMAIN old = {"op", "at", "todo"}
      /\ old.todo = Expected(rows)
  BY DEF DetectDeletes, At, AnomalyInv, AnomalyShape, AnomalyCallOK
<1>2. calls' = [calls EXCEPT ![c] = call] BY DEF DetectDeletes, Continue
<1>3. /\ call.op = "detect" /\ call.at = "insert" /\ call.todo = Expected(rows)
      /\ DOMAIN call = {"op", "at", "todo"}
  BY <1>1
<1> HIDE DEF call
<1>4. Moved(c) /\ calls'[c] = call BY <1>1, <1>2, <1>3, AnomalyStepped DEF AnomalyInv
<1>5. CASE rows' = [rows EXCEPT !.failed = TRUE]
  BY <1>3, <1>4, <1>5, AnomalyFails DEF AnomalyCallOK
<1>6. CASE rows' = DeleteAnomaliesBySession(rows)
  <2> DEFINE table == Without(rows.anomalies, DOMAIN rows.anomalies)
  <2>1. rows' = [rows EXCEPT !.anomalies = table] BY <1>6 DEF DeleteAnomaliesBySession
  <2>2. DOMAIN table = {} BY DEF Without, Restrict
  <2> HIDE DEF table
  <2>3. /\ DOMAIN rows' = AnomalyFields /\ rows'.failed = rows.failed /\ rows'.txns = rows.txns
        /\ rows'.made = rows.made /\ rows'.ended = rows.ended /\ rows'.anomalies = table
    BY <2>1 DEF AnomalyInv, AnomalyShape, AnomalyFields
  <2>4. Expected(rows') = Expected(rows) BY <2>3 DEF Expected
  <2>5. AnomalyCallOK(rows', call) BY <1>3, <2>4 DEF AnomalyCallOK
  <2>6. AnomalyShape' BY <1>4, <2>2, <2>3, <2>5, AnomalyShapeKept DEF AnomalyInv, AnomalyShape
  <2>7. \A a : CopiesOf(rows', a) = {} BY <2>2, <2>3 DEF CopiesOf
  <2>8. ASSUME NEW a \in Expected(rows')
        PROVE  Filing(a)' # {} /\ Cardinality(Filing(a)') <= Together'
    <3> DEFINE S == {d \in Callers : calls'[d].op = "detect" /\ calls'[d].at = "insert"
                                      /\ a \in calls'[d].todo}
    <3>1. Filing(a)' = S BY DEF Filing, Waiting, At
    <3>2. c \in S BY <1>3, <1>4, <2>4, <2>8
    <3>3. Cardinality(S) <= Together BY <1>4, TogetherKept
    <3> HIDE DEF S
    <3> QED BY <1>4, <3>1, <3>2, <3>3, TogetherKept
  <2>9. Cardinality({}) = 0 BY FS_EmptySet
  <2>10. FiledInv'
    <3>1. \A i \in DOMAIN rows'.anomalies : rows'.anomalies[i].anomaly \in Expected(rows')
      BY <2>2, <2>3
    <3>2. ASSUME NEW a \in Expected(rows')
          PROVE  /\ CopiesOf(rows', a) # {} \/ Filing(a)' # {}
                 /\ Cardinality(CopiesOf(rows', a)) + Cardinality(Filing(a)') <= Together'
      <4>1. Cardinality(Filing(a)') \in Nat
        <5>1. Filing(a)' \in SUBSET Callers BY DEF Filing, Waiting
        <5> HIDE DEF Filing
        <5> QED BY <1>4, <5>1, TogetherKept
      <4> QED BY <2>7, <2>8, <2>9, <4>1
    <3> QED BY <3>1, <3>2 DEF FiledInv
  <2>11. ShownInv'
    BY <1>3, <1>4, <2>3, ShownKept DEF ShownOK, ShownWell
  <2> QED BY <2>6, <2>10, <2>11 DEF AnomalyInv
<1> QED BY <1>5, <1>6 DEF DetectDeletes, Ignoring

LEMMA DetectInsertsStep ==
    ASSUME AnomalyInv, NEW c \in Callers, DetectInserts(c)
    PROVE  AnomalyInv'
<1>1. PICK anomaly \in calls[c].todo :
        Ignoring(CreateAnomaly(rows, anomaly)) /\ Continue(c, [calls[c] EXCEPT !.todo = @ \ {anomaly}])
  BY DEF DetectInserts
<1> DEFINE old == calls[c]
           todo == old.todo \ {anomaly}
           call == [old EXCEPT !.todo = todo]
<1>2. /\ old.op = "detect" /\ old.at = "insert" /\ DOMAIN old = {"op", "at", "todo"}
      /\ old.todo \subseteq Expected(rows)
  BY DEF DetectInserts, At, AnomalyInv, AnomalyShape, AnomalyCallOK
<1>3. calls' = [calls EXCEPT ![c] = call] BY <1>1 DEF Continue
<1>4. /\ call.op = "detect" /\ call.at = "insert" /\ call.todo = todo
      /\ DOMAIN call = {"op", "at", "todo"}
  BY <1>2
<1> HIDE DEF call
<1>5. Moved(c) /\ calls'[c] = call BY <1>2, <1>3, <1>4, AnomalyStepped DEF AnomalyInv
<1>6. CASE rows' = [rows EXCEPT !.failed = TRUE]
  BY <1>2, <1>4, <1>5, <1>6, AnomalyFails DEF AnomalyCallOK
<1>7. CASE rows' = CreateAnomaly(rows, anomaly)
  <2> DEFINE n == rows.made + 1
             table == With(rows.anomalies, n, [anomaly |-> anomaly, status |-> "open"])
  <2>1. rows' = [rows EXCEPT !.anomalies = table, !.made = n] BY <1>7 DEF CreateAnomaly
  <2>2. n \in Nat /\ n \notin DOMAIN rows.anomalies /\ 1..n = (1..rows.made) \cup {n}
    BY DEF AnomalyInv, AnomalyShape
  <2> HIDE DEF n
  <2>3. /\ DOMAIN table = DOMAIN rows.anomalies \cup {n}
        /\ \A i \in DOMAIN rows.anomalies : table[i] = rows.anomalies[i]
        /\ DOMAIN table[n] = {"anomaly", "status"} /\ table[n].anomaly = anomaly
    BY <2>2 DEF With
  <2> HIDE DEF table
  <2>4. /\ DOMAIN rows' = AnomalyFields /\ rows'.failed = rows.failed /\ rows'.txns = rows.txns
        /\ rows'.made = n /\ rows'.ended = rows.ended /\ rows'.anomalies = table
    BY <2>1 DEF AnomalyInv, AnomalyShape, AnomalyFields
  <2>5. Expected(rows') = Expected(rows) BY <2>4 DEF Expected
  <2>6. AnomalyCallOK(rows', call) BY <1>2, <1>4, <2>5 DEF AnomalyCallOK
  <2>7. AnomalyShape'
    BY <2>2, <2>3, <1>5, <2>4, <2>6, AnomalyShapeKept DEF AnomalyInv, AnomalyShape
  <2>8. CopiesOf(rows', anomaly) = CopiesOf(rows, anomaly) \cup {n} BY <2>3, <2>4 DEF CopiesOf
  <2>9. \A b : b # anomaly => CopiesOf(rows', b) = CopiesOf(rows, b) BY <2>3, <2>4 DEF CopiesOf
  <2>10. \A d \in Callers : At(d, "detect", "insert")' <=> At(d, "detect", "insert")
    BY <1>2, <1>4, <1>5 DEF At, Moved
  <2>11. Waiting("detect", "insert")' = Waiting("detect", "insert") BY <2>10 DEF Waiting
  <2>12. c \in Waiting("detect", "insert") BY <1>2 DEF Waiting, At
  <2>13. \A d \in Callers \ {c} : calls'[d].todo = calls[d].todo BY <1>5 DEF Moved
  <2>14. Filing(anomaly)' = Filing(anomaly) \ {c} /\ c \in Filing(anomaly)
    BY <1>4, <1>5, <2>11, <2>12, <2>13 DEF Filing, Waiting
  <2>15. \A b : b # anomaly => Filing(b)' = Filing(b)
    BY <1>4, <1>5, <2>11, <2>12, <2>13 DEF Filing, Waiting
  <2>16. FiledInv'
    <3> SUFFICES ASSUME ~rows.failed PROVE FiledInv' BY <2>4 DEF FiledInv
    <3>1. /\ \A i \in DOMAIN rows.anomalies : rows.anomalies[i].anomaly \in Expected(rows)
          /\ \A a \in Expected(rows) :
               /\ CopiesOf(rows, a) # {} \/ Filing(a) # {}
               /\ Cardinality(CopiesOf(rows, a)) + Cardinality(Filing(a)) <= Together
      BY <2>12 DEF AnomalyInv, FiledInv
    <3>2. \A i \in DOMAIN rows'.anomalies : rows'.anomalies[i].anomaly \in Expected(rows')
      BY <1>2, <2>3, <2>4, <2>5, <3>1
    <3>3. CopiesOf(rows', anomaly) # {} BY <2>8
    <3>4. Cardinality(CopiesOf(rows', anomaly)) + Cardinality(Filing(anomaly)') <= Together
      <4>1. IsFiniteSet(1..rows.made) BY FS_Interval DEF AnomalyInv, AnomalyShape
      <4>2. CopiesOf(rows, anomaly) \subseteq 1..rows.made /\ n \notin CopiesOf(rows, anomaly)
        BY <2>2 DEF CopiesOf, AnomalyInv, AnomalyShape
      <4>3. IsFiniteSet(CopiesOf(rows, anomaly)) BY <4>1, <4>2, FS_Subset
      <4>4. /\ Cardinality(CopiesOf(rows, anomaly)) \in Nat
            /\ Cardinality(CopiesOf(rows, anomaly) \cup {n}) = Cardinality(CopiesOf(rows, anomaly)) + 1
        BY <4>2, <4>3, FS_AddElement, FS_CardinalityType
      <4>5. Filing(anomaly) \in SUBSET Callers BY DEF Filing, Waiting
      <4>6. IsFiniteSet(Filing(anomaly)) /\ Cardinality(Filing(anomaly)) \in Nat
        BY <1>5, <4>5, TogetherKept
      <4>7. Cardinality(Filing(anomaly) \ {c}) = Cardinality(Filing(anomaly)) - 1
        BY <2>14, <4>6, FS_RemoveElement
      <4>8. Cardinality(CopiesOf(rows, anomaly)) + Cardinality(Filing(anomaly)) <= Together
        BY <1>2, <3>1
      <4>9. Together \in Nat BY <1>5, TogetherKept
      <4> HIDE DEF Filing, CopiesOf
      <4> QED BY <2>8, <2>14, <4>4, <4>6, <4>7, <4>8, <4>9
    <3>5. \A a \in Expected(rows') :
             /\ CopiesOf(rows', a) # {} \/ Filing(a)' # {}
             /\ Cardinality(CopiesOf(rows', a)) + Cardinality(Filing(a)') <= Together
      BY <2>5, <2>9, <2>15, <3>1, <3>3, <3>4
    <3>6. Together' = Together BY <1>5, TogetherKept
    <3> QED BY <3>2, <3>5, <3>6 DEF FiledInv
  <2>17. ShownInv'
    BY <1>4, <1>5, <2>4, ShownKept DEF ShownOK, ShownWell
  <2> QED BY <2>7, <2>16, <2>17 DEF AnomalyInv
<1> QED BY <1>1, <1>6, <1>7 DEF Ignoring

(* The invariant gives what the runs check. *)
LEMMA AnomaliesImply == AnomalyInv => AnomaliesOnFile /\ ResolutionShown
<1> SUFFICES ASSUME AnomalyInv PROVE AnomaliesOnFile /\ ResolutionShown OBVIOUS
<1>1. ASSUME rows.ended > 0, Waiting("detect", "insert") = {}, ~rows.failed
      PROVE  /\ {rows.anomalies[i].anomaly : i \in DOMAIN rows.anomalies}
                   = RunAnomalyDetection(rows.txns)
             /\ \A a \in RunAnomalyDetection(rows.txns) :
                  Cardinality(CopiesOf(rows, a)) \in 1..(IF Alone THEN 1 ELSE Cardinality(Callers))
  <2>1. \A a : Filing(a) = {} BY <1>1 DEF Filing
  <2>2. Cardinality({}) = 0 BY FS_EmptySet
  <2>3. \A i \in DOMAIN rows.anomalies : rows.anomalies[i].anomaly \in Expected(rows)
    BY <1>1 DEF AnomalyInv, FiledInv
  <2>4. ASSUME NEW a \in Expected(rows)
        PROVE  CopiesOf(rows, a) # {} /\ Cardinality(CopiesOf(rows, a)) \in 1..Together
    <3>1. IsFiniteSet(1..rows.made) BY FS_Interval DEF AnomalyInv, AnomalyShape
    <3>2. CopiesOf(rows, a) \subseteq 1..rows.made BY DEF CopiesOf, AnomalyInv, AnomalyShape
    <3>3. IsFiniteSet(CopiesOf(rows, a)) BY <3>1, <3>2, FS_Subset
    <3>4. CopiesOf(rows, a) # {} /\ Cardinality(CopiesOf(rows, a)) + 0 <= Together
      BY <1>1, <2>1, <2>2 DEF AnomalyInv, FiledInv
    <3>5. Cardinality(CopiesOf(rows, a)) \in Nat /\ Cardinality(CopiesOf(rows, a)) # 0
      BY <3>3, <3>4, FS_CardinalityType, FS_EmptySet
    <3>6. Together \in Nat BY CallersAssumption, FS_CardinalityType DEF Together
    <3> QED BY <3>4, <3>5, <3>6
  <2>5. {rows.anomalies[i].anomaly : i \in DOMAIN rows.anomalies} = Expected(rows)
    BY <2>3, <2>4 DEF CopiesOf
  <2> QED BY <2>4, <2>5 DEF Expected, Together
<1>2. AnomaliesOnFile BY <1>1 DEF AnomaliesOnFile, CopiesOf
<1>3. ResolutionShown BY DEF ResolutionShown, AnomalyInv, ShownInv, ShownWell, At
<1> QED BY <1>2, <1>3

----
(* Batches.  Lists first: one row of a list replaced, one taken out, and what
   it is to begin with another list. *)
LEMMA RowSet ==
    ASSUME NEW S, NEW s \in Seq(S), NEW b \in DOMAIN s, NEW e
    PROVE  /\ [s EXCEPT ![b] = e] \in Seq(S \cup {e})
           /\ Len([s EXCEPT ![b] = e]) = Len(s)
           /\ DOMAIN [s EXCEPT ![b] = e] = DOMAIN s
           /\ [s EXCEPT ![b] = e][b] = e
           /\ \A j \in DOMAIN s \ {b} : [s EXCEPT ![b] = e][j] = s[j]
<1>1. s \in Seq(S \cup {e}) /\ DOMAIN s = 1..Len(s) OBVIOUS
<1> QED BY <1>1, ExceptSeq

LEMMA RowAdded ==
    ASSUME NEW S, NEW s \in Seq(S), NEW e
    PROVE  /\ Append(s, e) \in Seq(S \cup {e}) /\ Len(Append(s, e)) = Len(s) + 1
           /\ DOMAIN Append(s, e) = DOMAIN s \cup {Len(s) + 1}
           /\ \A i \in DOMAIN s : Append(s, e)[i] = s[i]
           /\ Append(s, e)[Len(s) + 1] = e
           /\ Len(s) \in Nat /\ Len(s) + 1 \notin DOMAIN s
<1>1. s \in Seq(S \cup {e}) /\ DOMAIN s = 1..Len(s) /\ Len(s) \in Nat OBVIOUS
<1> QED BY <1>1, Appended

LEMMA OneRemoved ==
    ASSUME NEW S, NEW s \in Seq(S), NEW i \in DOMAIN s
    PROVE  /\ RemoveAt(s, i) \in Seq(S) /\ Len(RemoveAt(s, i)) = Len(s) - 1
           /\ \A j \in DOMAIN RemoveAt(s, i) :
                \E k \in DOMAIN s : /\ k = (IF j < i THEN j ELSE j + 1)
                                    /\ RemoveAt(s, i)[j] = s[k]
<1> DEFINE front == SubSeq(s, 1, i - 1)
           back == SubSeq(s, i + 1, Len(s))
<1>1. DOMAIN s = 1..Len(s) /\ Len(s) \in Nat /\ i \in 1..Len(s) /\ \A k \in 1..Len(s) : s[k] \in S
  OBVIOUS
<1>2. /\ front \in Seq(S) /\ Len(front) = i - 1 /\ \A j \in 1..(i - 1) : front[j] = s[j]
  <2>1. 1 \in Int /\ i - 1 \in Int /\ \A k \in 1..(i - 1) : s[k] \in S BY <1>1
  <2>2. /\ front \in Seq(S)
        /\ Len(front) = IF 1 <= i - 1 THEN (i - 1) - 1 + 1 ELSE 0
        /\ \A j \in 1..((i - 1) - 1 + 1) : front[j] = s[1 + j - 1]
    BY <2>1, SubSeqProperties
  <2> HIDE DEF front
  <2> QED BY <1>1, <2>2
<1>3. /\ back \in Seq(S) /\ Len(back) = Len(s) - i /\ \A j \in 1..(Len(s) - i) : back[j] = s[i + j]
  <2>1. i + 1 \in Int /\ Len(s) \in Int /\ \A k \in (i + 1)..Len(s) : s[k] \in S BY <1>1
  <2>2. /\ back \in Seq(S)
        /\ Len(back) = IF i + 1 <= Len(s) THEN Len(s) - (i + 1) + 1 ELSE 0
        /\ \A j \in 1..(Len(s) - (i + 1) + 1) : back[j] = s[i + 1 + j - 1]
    BY <2>1, SubSeqProperties
  <2>3. Len(s) - (i + 1) + 1 = Len(s) - i BY <1>1
  <2>4. Len(back) = Len(s) - i BY <1>1, <2>2, <2>3
  <2>5. ASSUME NEW j \in 1..(Len(s) - i) PROVE back[j] = s[i + j]
    BY <1>1, <2>2, <2>3
  <2> QED BY <2>2, <2>4, <2>5
<1> HIDE DEF front, back
<1>4. /\ front \o back \in Seq(S) /\ Len(front \o back) = Len(s) - 1
      /\ \A j \in 1..(Len(s) - 1) :
           (front \o back)[j] = IF j <= i - 1 THEN front[j] ELSE back[j - (i - 1)]
  <2>1. /\ front \o back \in Seq(S) /\ Len(front \o back) = Len(front) + Len(back)
        /\ \A j \in 1..(Len(front) + Len(back)) :
             (front \o back)[j] = IF j <= Len(front) THEN front[j] ELSE back[j - Len(front)]
    BY <1>2, <1>3, ConcatProperties
  <2>2. Len(front) + Len(back) = Len(s) - 1 BY <1>1, <1>2, <1>3
  <2> QED BY <1>2, <2>1, <2>2
<1>5. RemoveAt(s, i) = front \o back BY DEF RemoveAt, front, back
<1>6. ASSUME NEW j \in 1..(Len(s) - 1)
      PROVE  \E k \in DOMAIN s : k = (IF j < i THEN j ELSE j + 1) /\ (front \o back)[j] = s[k]
  <2>1. CASE j < i
    BY <1>1, <2>1, <1>2, <1>4
  <2>2. CASE ~(j < i)
    BY <1>1, <2>2, <1>4, <1>3
  <2> QED BY <2>1, <2>2
<1>7. DOMAIN (front \o back) = 1..(Len(s) - 1) BY <1>4
<1> QED BY <1>4, <1>5, <1>6, <1>7

LEMMA PrefixByIndex ==
    ASSUME NEW S, NEW s \in Seq(S), NEW t \in Seq(S)
    PROVE  IsPrefix(s, t) <=> Len(s) <= Len(t) /\ \A i \in DOMAIN s : t[i] = s[i]
<1> DEFINE n == Len(s)
<1>1. n \in Nat /\ Len(t) \in Nat /\ DOMAIN s = 1..n OBVIOUS
<1>2. SUFFICES ASSUME n <= Len(t)
               PROVE  SubSeq(s, 1, n) = SubSeq(t, 1, n) <=> \A i \in 1..n : t[i] = s[i]
  BY <1>1 DEF IsPrefix
<1>3. (\A i \in 1..n : s[i] \in S) /\ (\A i \in 1..n : t[i] \in S) /\ 1 \in Int /\ n \in Int
  BY <1>1, <1>2
<1>4. /\ SubSeq(s, 1, n) \in Seq(S) /\ Len(SubSeq(s, 1, n)) = IF 1 <= n THEN n - 1 + 1 ELSE 0
      /\ \A i \in 1..(n - 1 + 1) : SubSeq(s, 1, n)[i] = s[1 + i - 1]
  BY <1>3, SubSeqProperties
<1>5. /\ SubSeq(t, 1, n) \in Seq(S) /\ Len(SubSeq(t, 1, n)) = IF 1 <= n THEN n - 1 + 1 ELSE 0
      /\ \A i \in 1..(n - 1 + 1) : SubSeq(t, 1, n)[i] = t[1 + i - 1]
  BY <1>3, SubSeqProperties
<1> DEFINE u == SubSeq(s, 1, n)
           v == SubSeq(t, 1, n)
<1>6. u \in Seq(S) /\ v \in Seq(S) BY <1>4, <1>5
<1>7. Len(u) = n /\ Len(v) = n BY <1>1, <1>4, <1>5
<1>8. \A i \in 1..n : u[i] = s[i] /\ v[i] = t[i] BY <1>1, <1>4, <1>5
<1> HIDE DEF u, v, n
<1>9. (\A i \in 1..n : t[i] = s[i]) => u = v BY <1>6, <1>7, <1>8, SeqEqual
<1>10. u = v => \A i \in 1..n : t[i] = s[i] BY <1>8
<1> QED BY <1>9, <1>10 DEF u, v

(* A row of a batch, and what it shows once it is completed. *)
BatchRowOK(row) ==
    /\ DOMAIN row = {"status", "summary", "pairs", "suggestions", "total"}
    /\ row.pairs \in Seq(Pairings) /\ row.suggestions \in Seq(Pairings)
    /\ row.status = "completed" => IsPrefix(Matches, row.pairs) /\ row.summary

Stages == {"parsing", "parsed", "matching", "matched", "analyzing", "completed"}

BatchCallOK(db, call) ==
    \/ call.at \in {"answered", "gone"}
    \/ call.op = "process" /\ call.at \in Stages /\ DOMAIN call = {"op", "at", "id", "total"}
         /\ call.id \in DOMAIN db.batches
    \/ call.op = "decide" /\ call.at = "write"
         /\ DOMAIN call = {"op", "at", "id", "accepted", "row"}
         /\ call.id \in DOMAIN db.batches /\ BatchRowOK(call.row) /\ call.accepted \in BOOLEAN
    \/ call.op = "decide" /\ call.at = "reread"
    \/ call.op = "batches" /\ call.at = "count"

BatchTable(db) ==
    /\ DOMAIN db = BatchFields
    /\ (\E S : db.batches \in Seq(S)) /\ \A b \in DOMAIN db.batches : BatchRowOK(db.batches[b])
    /\ db.offered \in Seq(Seq(Pairings)) /\ Len(db.offered) = Len(db.batches)
    /\ db.rejected \in Seq(Nat) /\ Len(db.rejected) = Len(db.batches)

BatchShape ==
    /\ BatchTable(rows) /\ DOMAIN calls = Callers
    /\ \A c \in Callers : BatchCallOK(rows, calls[c])

(* Every suggestion of a completed batch is still there, accepted or rejected,
   and only one of these. *)
Accounted(row, offered, rejected) ==
    /\ Distinct(row.suggestions)
    /\ row.status = "completed" =>
         /\ Len(row.pairs) - Len(Matches) + Len(row.suggestions) + rejected = Len(offered)
         /\ \A i \in DOMAIN row.pairs, j \in DOMAIN row.suggestions :
              i > Len(Matches) => row.pairs[i] # row.suggestions[j]

AccountCall(db, call) ==
    /\ call.op = "process" /\ call.at \in Stages => db.rejected[call.id] = 0
    /\ call.op = "decide" /\ call.at = "write" =>
         \E i \in DOMAIN db.batches[call.id].suggestions :
            call.row = Decided(db.batches[call.id], i, call.accepted)

AccountInv ==
    Alone /\ ~rows.failed =>
        /\ \A b \in DOMAIN rows.batches :
             Accounted(rows.batches[b], rows.offered[b], rows.rejected[b])
        /\ \A c \in Callers : AccountCall(rows, calls[c])

BatchInv == BatchShape /\ AccountInv

----
LEMMA EmptyList == <<>> \in Seq(Pairings) /\ Len(<<>>) = 0 /\ Distinct(<<>>)
BY EmptySeq DEF Distinct

LEMMA MatchesAreFirst == IsPrefix(Matches, Matches)
BY SessionDeskAssumption, PrefixByIndex

LEMMA WrittenOK ==
    ASSUME NEW step \in Stages, NEW total, NEW row, row = Written(step, total)
    PROVE  /\ BatchRowOK(row) /\ row.suggestions = <<>>
           /\ step # "completed" => row.status # "completed"
           /\ step = "completed" => row.status = "completed" /\ row.pairs = Matches /\ row.summary
<1>1. CASE step = "parsed"
  <2>1. row = [status |-> "parsing", summary |-> TRUE, pairs |-> <<>>, suggestions |-> <<>>,
               total |-> total]
    BY <1>1 DEF Written
  <2> QED BY ONLY <1>1, <2>1, EmptyList DEF BatchRowOK
<1>2. CASE step = "matched"
  <2>1. row = [status |-> "matching", summary |-> FALSE, pairs |-> Matches, suggestions |-> <<>>,
               total |-> 0]
    BY <1>2 DEF Written
  <2> QED BY ONLY <1>2, <2>1, EmptyList, SessionDeskAssumption DEF BatchRowOK
<1>3. CASE step = "completed"
  <2>1. row = [status |-> "completed", summary |-> TRUE, pairs |-> Matches, suggestions |-> <<>>,
               total |-> total]
    BY <1>3 DEF Written
  <2> QED BY ONLY <1>3, <2>1, EmptyList, MatchesAreFirst, SessionDeskAssumption DEF BatchRowOK
<1>4. CASE step \notin {"parsed", "matched", "completed"}
  <2>1. row = [status |-> step, summary |-> FALSE, pairs |-> <<>>, suggestions |-> <<>>,
               total |-> 0]
    BY <1>4 DEF Written
  <2> QED BY ONLY <1>4, <2>1, EmptyList DEF BatchRowOK
<1> QED BY <1>1, <1>2, <1>3, <1>4

(* A decision keeps what a completed batch shows. *)
LEMMA DecidedIs ==
    ASSUME NEW row, BatchRowOK(row), NEW i \in DOMAIN row.suggestions, NEW accepted
    PROVE  LET new == Decided(row, i, accepted)
           IN  /\ BatchRowOK(new) /\ new.status = row.status
               /\ new.suggestions = RemoveAt(row.suggestions, i)
               /\ new.pairs = IF accepted THEN Append(row.pairs, row.suggestions[i]) ELSE row.pairs
<1> DEFINE list == RemoveAt(row.suggestions, i)
           pairs == IF accepted THEN Append(row.pairs, row.suggestions[i]) ELSE row.pairs
           new == Decided(row, i, accepted)
<1>1. new = [row EXCEPT !.suggestions = list, !.pairs = pairs] BY DEF Decided
<1>2. row.suggestions \in Seq(Pairings) /\ row.pairs \in Seq(Pairings) BY DEF BatchRowOK
<1>3. row.suggestions[i] \in Pairings BY <1>2
<1>4. list \in Seq(Pairings) BY <1>2, OneRemoved
<1>5. pairs \in Seq(Pairings) /\ Len(row.pairs) <= Len(pairs)
      /\ \A k \in DOMAIN row.pairs : pairs[k] = row.pairs[k]
  <2>1. CASE accepted
    BY <1>2, <1>3, Appended, <2>1
  <2>2. CASE ~accepted BY <1>2, <2>2
  <2> QED BY <2>1, <2>2
<1>6. DOMAIN row = {"status", "summary", "pairs", "suggestions", "total"} BY DEF BatchRowOK
<1> HIDE DEF list, pairs, new
<1>7. /\ DOMAIN new = {"status", "summary", "pairs", "suggestions", "total"}
      /\ new.status = row.status /\ new.summary = row.summary
      /\ new.suggestions = list /\ new.pairs = pairs
  BY <1>1, <1>6
<1>8. ASSUME row.status = "completed" PROVE IsPrefix(Matches, pairs)
  <2>1. Matches \in Seq(Pairings) BY SessionDeskAssumption
  <2>2. Len(Matches) <= Len(row.pairs) /\ \A k \in DOMAIN Matches : row.pairs[k] = Matches[k]
    BY <1>2, <1>8, <2>1, PrefixByIndex DEF BatchRowOK
  <2>3. DOMAIN Matches \subseteq DOMAIN row.pairs BY <1>2, <2>1, <2>2
  <2>4. Len(Matches) <= Len(pairs) BY <1>2, <1>5, <2>1, <2>2
  <2> QED BY <1>5, <2>1, <2>2, <2>3, <2>4, PrefixByIndex
<1>9. BatchRowOK(new) BY <1>4, <1>5, <1>7, <1>8 DEF BatchRowOK
<1> QED BY <1>7, <1>9 DEF list, pairs, new

(* A decision keeps the account. *)
LEMMA DecidedIsAccounted ==
    ASSUME NEW row, BatchRowOK(row), NEW i \in DOMAIN row.suggestions, NEW accepted \in BOOLEAN,
           NEW offered \in Seq(Pairings), NEW rejected \in Nat, Accounted(row, offered, rejected)
    PROVE  Accounted(Decided(row, i, accepted), offered, rejected + (IF accepted THEN 0 ELSE 1))
<1> DEFINE new == Decided(row, i, accepted)
           list == RemoveAt(row.suggestions, i)
           count == rejected + (IF accepted THEN 0 ELSE 1)
<1>1. /\ new.status = row.status /\ new.suggestions = list
      /\ new.pairs = IF accepted THEN Append(row.pairs, row.suggestions[i]) ELSE row.pairs
  BY DecidedIs
<1> HIDE DEF new
<1>2. /\ row.suggestions \in Seq(Pairings) /\ row.pairs \in Seq(Pairings)
      /\ row.suggestions[i] \in Pairings /\ Len(row.suggestions) \in Nat /\ Len(row.pairs) \in Nat
      /\ DOMAIN row.suggestions = 1..Len(row.suggestions)
  BY DEF BatchRowOK
<1>3. /\ list \in Seq(Pairings) /\ Len(list) = Len(row.suggestions) - 1
      /\ \A j \in DOMAIN list :
           \E k \in DOMAIN row.suggestions : k = (IF j < i THEN j ELSE j + 1)
                                             /\ list[j] = row.suggestions[k]
  <2> DEFINE s == row.suggestions
  <2>1. s \in Seq(Pairings) /\ i \in DOMAIN s BY <1>2
  <2> HIDE DEF s
  <2>2. /\ RemoveAt(s, i) \in Seq(Pairings) /\ Len(RemoveAt(s, i)) = Len(s) - 1
        /\ \A j \in DOMAIN RemoveAt(s, i) :
             \E k \in DOMAIN s : k = (IF j < i THEN j ELSE j + 1) /\ RemoveAt(s, i)[j] = s[k]
    BY <2>1, OneRemoved
  <2> QED BY <2>2 DEF s
<1>10. (accepted => count = rejected) /\ (~accepted => count = rejected + 1) OBVIOUS
<1> HIDE DEF list, count
<1>4. DOMAIN list \subseteq Nat /\ i \in Nat BY <1>2, <1>3
<1>5. \A j, k \in DOMAIN row.suggestions : row.suggestions[j] = row.suggestions[k] => j = k
  BY DEF Accounted, Distinct
<1>6. Distinct(list)
  <2> SUFFICES ASSUME NEW j \in DOMAIN list, NEW k \in DOMAIN list, list[j] = list[k] PROVE j = k
    BY DEF Distinct
  <2>1. PICK jj \in DOMAIN row.suggestions : jj = (IF j < i THEN j ELSE j + 1)
                                             /\ list[j] = row.suggestions[jj]
    BY <1>3
  <2>2. PICK kk \in DOMAIN row.suggestions : kk = (IF k < i THEN k ELSE k + 1)
                                             /\ list[k] = row.suggestions[kk]
    BY <1>3
  <2>3. jj = kk BY <1>5, <2>1, <2>2
  <2> QED BY <1>4, <2>1, <2>2, <2>3
<1>7. ASSUME NEW j \in DOMAIN list
      PROVE  list[j] # row.suggestions[i]
             /\ \E k \in DOMAIN row.suggestions : list[j] = row.suggestions[k]
  <2>1. PICK k \in DOMAIN row.suggestions : k = (IF j < i THEN j ELSE j + 1)
                                            /\ list[j] = row.suggestions[k]
    BY <1>3
  <2>2. k # i BY <1>4, <2>1
  <2> QED BY <1>5, <2>1, <2>2
<1>8. ASSUME row.status = "completed"
      PROVE  /\ Len(new.pairs) - Len(Matches) + Len(list) + count = Len(offered)
             /\ \A p \in DOMAIN new.pairs, j \in DOMAIN list :
                  p > Len(Matches) => new.pairs[p] # list[j]
  <2>1. /\ Len(row.pairs) - Len(Matches) + Len(row.suggestions) + rejected = Len(offered)
        /\ \A p \in DOMAIN row.pairs, j \in DOMAIN row.suggestions :
             p > Len(Matches) => row.pairs[p] # row.suggestions[j]
    BY <1>8 DEF Accounted
  <2>2. Len(Matches) \in Nat /\ Len(offered) \in Nat BY SessionDeskAssumption
  <2> DEFINE np == Len(row.pairs)
             nm == Len(Matches)
             ns == Len(row.suggestions)
             no == Len(offered)
             nl == Len(list)
  <2>6. /\ np \in Nat /\ nm \in Nat /\ ns \in Nat /\ no \in Nat /\ rejected \in Nat
        /\ np - nm + ns + rejected = no /\ nl = ns - 1
    BY <1>2, <1>3, <2>1, <2>2
  <2> HIDE DEF np, nm, ns, no, nl
  <2>3. \A p \in DOMAIN row.pairs, j \in DOMAIN list : p > Len(Matches) => row.pairs[p] # list[j]
    BY <1>7, <2>1
  <2>4. CASE accepted
    <3> DEFINE more == Append(row.pairs, row.suggestions[i])
    <3>1. /\ Len(more) = Len(row.pairs) + 1 /\ DOMAIN more = DOMAIN row.pairs \cup {Len(row.pairs) + 1}
          /\ \A p \in DOMAIN row.pairs : more[p] = row.pairs[p]
          /\ more[Len(row.pairs) + 1] = row.suggestions[i]
      BY <1>2, Appended
    <3>2. new.pairs = more BY <1>1, <2>4
    <3> HIDE DEF more
    <3>3. Len(new.pairs) - Len(Matches) + Len(list) + count = Len(offered)
      <4>1. Len(new.pairs) = np + 1 BY <3>1, <3>2 DEF np
      <4>2. np + 1 - nm + nl + rejected = no BY <2>6
      <4>3. count = rejected BY <1>10, <2>4
      <4>4. Len(new.pairs) - nm + nl + count = no BY <2>6, <4>1, <4>2, <4>3
      <4> QED BY <4>4 DEF nm, nl, no
    <3>4. ASSUME NEW p \in DOMAIN more, NEW j \in DOMAIN list, p > Len(Matches)
          PROVE  more[p] # list[j]
      BY <1>7, <2>3, <3>1, <3>4
    <3> QED BY <3>2, <3>3, <3>4
  <2>5. CASE ~accepted
    <3>1. new.pairs = row.pairs BY <1>1, <2>5
    <3>2. Len(new.pairs) - Len(Matches) + Len(list) + count = Len(offered)
      BY <2>6, <1>10, <2>5, <3>1 DEF np, nm, nl, no
    <3> QED BY <2>3, <3>1, <3>2
  <2> QED BY <2>4, <2>5
<1>9. Accounted(new, offered, count) BY <1>1, <1>6, <1>8 DEF Accounted
<1> QED BY <1>9 DEF new, count

----
(* The shape and the account, by what a step writes. *)
LEMMA BatchStepped ==
    ASSUME BatchInv, NEW c \in Callers, NEW call, calls' = [calls EXCEPT ![c] = call],
           calls[c].at # "gone", call.at # "gone"
    PROVE  Moved(c) /\ calls'[c] = call
BY DEF BatchInv, BatchShape, Moved

LEMMA BatchShapeKept ==
    ASSUME BatchShape, NEW c \in Callers, Moved(c), BatchTable(rows'),
           DOMAIN rows.batches \subseteq DOMAIN rows'.batches, BatchCallOK(rows', calls'[c])
    PROVE  BatchShape'
<1>1. ASSUME NEW d \in Callers PROVE BatchCallOK(rows', calls'[d])
  BY DEF BatchShape, BatchCallOK, Moved
<1> QED BY <1>1 DEF BatchShape, Moved

LEMMA AccountKept ==
    ASSUME BatchInv, NEW c \in Callers, Moved(c), ~rows'.failed => ~rows.failed,
           Alone /\ ~rows'.failed =>
             /\ \A b \in DOMAIN rows'.batches :
                  Accounted(rows'.batches[b], rows'.offered[b], rows'.rejected[b])
             /\ AccountCall(rows', calls'[c])
    PROVE  AccountInv'
<1>1. ASSUME Alone, ~rows'.failed, NEW d \in Callers PROVE AccountCall(rows', calls'[d])
  <2>1. CASE d = c BY <1>1, <2>1
  <2>2. CASE d # c
    BY <1>1, <2>2, AloneStays DEF Moved, AccountCall, Stages
  <2> QED BY <2>1, <2>2
<1> QED BY <1>1, AloneStays DEF AccountInv

LEMMA BatchRest ==
    ASSUME BatchInv, NEW c \in Callers, Moved(c), rows' = rows, BatchCallOK(rows, calls'[c]),
           Alone /\ ~rows.failed => AccountCall(rows, calls'[c])
    PROVE  BatchInv'
<1>1. BatchShape' BY BatchShapeKept DEF BatchInv, BatchShape
<1>2. Alone /\ ~rows.failed => \A b \in DOMAIN rows.batches :
         Accounted(rows.batches[b], rows.offered[b], rows.rejected[b])
  BY DEF BatchInv, AccountInv
<1>3. AccountInv' BY <1>2, AccountKept
<1> QED BY <1>1, <1>3 DEF BatchInv

LEMMA BatchFails ==
    ASSUME BatchInv, NEW c \in Callers, Moved(c), rows' = [rows EXCEPT !.failed = TRUE],
           BatchCallOK(rows, calls'[c])
    PROVE  BatchInv'
<1>1. /\ DOMAIN rows' = BatchFields /\ rows'.failed = TRUE /\ rows'.batches = rows.batches
      /\ rows'.offered = rows.offered /\ rows'.rejected = rows.rejected
  BY DEF BatchInv, BatchShape, BatchTable, BatchFields
<1>2. BatchCallOK(rows', calls'[c]) BY <1>1 DEF BatchCallOK
<1>3. BatchTable(rows') BY <1>1 DEF BatchInv, BatchShape, BatchTable
<1>4. BatchShape' BY <1>1, <1>2, <1>3, BatchShapeKept DEF BatchInv
<1>5. AccountInv' BY <1>1 DEF AccountInv
<1> QED BY <1>4, <1>5 DEF BatchInv

LEMMA BatchWritten ==
    ASSUME BatchInv, NEW c \in Callers, Moved(c), NEW b \in DOMAIN rows.batches,
           NEW row, BatchRowOK(row), NEW offer \in Seq(Pairings), NEW count \in Nat,
           DOMAIN rows' = BatchFields, rows'.failed = rows.failed,
           rows'.batches = [rows.batches EXCEPT ![b] = row],
           \/ rows'.offered = [rows.offered EXCEPT ![b] = offer]
           \/ rows'.offered = rows.offered /\ offer = rows.offered[b],
           \/ rows'.rejected = [rows.rejected EXCEPT ![b] = count]
           \/ rows'.rejected = rows.rejected /\ count = rows.rejected[b],
           BatchCallOK(rows, calls'[c]),
           Alone /\ ~rows.failed => Accounted(row, offer, count) /\ AccountCall(rows', calls'[c])
    PROVE  BatchInv'
<1>1. BatchTable(rows) BY DEF BatchInv, BatchShape
<1>2. PICK S : rows.batches \in Seq(S) BY <1>1 DEF BatchTable
<1>3. /\ rows'.batches \in Seq(S \cup {row}) /\ Len(rows'.batches) = Len(rows.batches)
      /\ DOMAIN rows'.batches = DOMAIN rows.batches /\ rows'.batches[b] = row
      /\ \A j \in DOMAIN rows.batches \ {b} : rows'.batches[j] = rows.batches[j]
  BY <1>2, RowSet
<1>4. /\ DOMAIN rows.batches = 1..Len(rows.batches) /\ DOMAIN rows.offered = 1..Len(rows.offered)
      /\ DOMAIN rows.rejected = 1..Len(rows.rejected)
  BY <1>1, <1>2 DEF BatchTable
<1>5. /\ DOMAIN rows.offered = DOMAIN rows.batches /\ DOMAIN rows.rejected = DOMAIN rows.batches
      /\ rows.offered \in Seq(Seq(Pairings)) /\ rows.rejected \in Seq(Nat)
      /\ Len(rows.offered) = Len(rows.batches) /\ Len(rows.rejected) = Len(rows.batches)
  BY <1>1, <1>4 DEF BatchTable
<1>6. /\ rows'.offered \in Seq(Seq(Pairings)) /\ Len(rows'.offered) = Len(rows.offered)
      /\ rows'.offered[b] = offer
      /\ \A j \in DOMAIN rows.batches \ {b} : rows'.offered[j] = rows.offered[j]
  <2>1. CASE rows'.offered = [rows.offered EXCEPT ![b] = offer]
    BY <1>5, <2>1, RowSet
  <2>2. CASE rows'.offered = rows.offered /\ offer = rows.offered[b] BY <1>5, <2>2
  <2> QED BY <2>1, <2>2
<1>7. /\ rows'.rejected \in Seq(Nat) /\ Len(rows'.rejected) = Len(rows.rejected)
      /\ rows'.rejected[b] = count
      /\ \A j \in DOMAIN rows.batches \ {b} : rows'.rejected[j] = rows.rejected[j]
  <2>1. CASE rows'.rejected = [rows.rejected EXCEPT ![b] = count]
    BY <1>5, <2>1, RowSet
  <2>2. CASE rows'.rejected = rows.rejected /\ count = rows.rejected[b] BY <1>5, <2>2
  <2> QED BY <2>1, <2>2
<1>8. \A j \in DOMAIN rows'.batches : BatchRowOK(rows'.batches[j])
  BY <1>1, <1>3 DEF BatchTable
<1>9. BatchTable(rows') BY <1>3, <1>5, <1>6, <1>7, <1>8 DEF BatchTable
<1>10. BatchCallOK(rows', calls'[c]) BY <1>3 DEF BatchCallOK
<1>11. BatchShape' BY <1>3, <1>9, <1>10, BatchShapeKept DEF BatchInv
<1>12. ASSUME Alone, ~rows.failed, NEW j \in DOMAIN rows'.batches
       PROVE  Accounted(rows'.batches[j], rows'.offered[j], rows'.rejected[j])
  <2>1. CASE j = b BY <1>3, <1>6, <1>7, <1>12, <2>1
  <2>2. CASE j # b
    BY <1>3, <1>12, <1>6, <1>7, <2>2 DEF BatchInv, AccountInv
  <2> QED BY <2>1, <2>2
<1>13. AccountInv' BY <1>12, AccountKept
<1> QED BY <1>11, <1>13 DEF BatchInv

----
(* The actions. *)
LEMMA AnsweredBatch ==
    ASSUME NEW op, NEW status, NEW call, call = Answered(op, status)
    PROVE  call.at = "answered" /\ \A db : BatchCallOK(db, call) /\ AccountCall(db, call)
BY DEF Answered, BatchCallOK, AccountCall, Stages

LEMMA BatchAnswers ==
    ASSUME BatchInv, NEW c \in Callers, calls[c].at # "gone", rows' = rows, NEW op, NEW status,
           calls' = [calls EXCEPT ![c] = Answered(op, status)]
    PROVE  BatchInv'
<1> DEFINE call == Answered(op, status)
<1>1. call.at = "answered" /\ BatchCallOK(rows, call) /\ AccountCall(rows, call) BY AnsweredBatch
<1>2. calls' = [calls EXCEPT ![c] = call] OBVIOUS
<1> HIDE DEF call
<1>3. Moved(c) /\ calls'[c] = call BY <1>1, <1>2, BatchStepped
<1> QED BY <1>1, <1>3, BatchRest

LEMMA BatchCreated ==
    ASSUME BatchInv, NEW c \in Callers, calls[c].at = "answered", NEW total,
           rows' = CreateBankReconBatch(rows),
           calls' = [calls EXCEPT ![c] = [op |-> "process", at |-> "parsing",
                                          id |-> Len(rows.batches) + 1, total |-> total]]
    PROVE  BatchInv'
<1> DEFINE n == Len(rows.batches) + 1
           call == [op |-> "process", at |-> "parsing", id |-> n, total |-> total]
           row == [status |-> "pending", summary |-> FALSE, pairs |-> <<>>, suggestions |-> <<>>,
                   total |-> 0]
           batches == Append(rows.batches, row)
           offered == Append(rows.offered, <<>>)
           rejected == Append(rows.rejected, 0)
<1>1. BatchTable(rows) BY DEF BatchInv, BatchShape
<1>2. PICK S : rows.batches \in Seq(S) BY <1>1 DEF BatchTable
<1>3. rows' = [rows EXCEPT !.batches = batches, !.offered = offered, !.rejected = rejected]
  BY DEF CreateBankReconBatch
<1>4. BatchRowOK(row) /\ Accounted(row, <<>>, 0) BY EmptyList DEF BatchRowOK, Accounted
<1>5. /\ batches \in Seq(S \cup {row}) /\ Len(batches) = n
      /\ DOMAIN batches = DOMAIN rows.batches \cup {n}
      /\ \A i \in DOMAIN rows.batches : batches[i] = rows.batches[i]
      /\ batches[n] = row /\ n \notin DOMAIN rows.batches /\ Len(rows.batches) \in Nat
  BY <1>2, RowAdded
<1>6. /\ offered \in Seq(Seq(Pairings)) /\ Len(offered) = n /\ offered[n] = <<>>
      /\ \A i \in DOMAIN rows.batches : offered[i] = rows.offered[i]
  BY <1>1, <1>2, EmptyList, Appended DEF BatchTable
<1>7. /\ rejected \in Seq(Nat) /\ Len(rejected) = n /\ rejected[n] = 0
      /\ \A i \in DOMAIN rows.batches : rejected[i] = rows.rejected[i]
  BY <1>1, <1>2, Appended DEF BatchTable
<1> HIDE DEF batches, offered, rejected, row
<1>8. /\ DOMAIN rows' = BatchFields /\ rows'.batches = batches /\ rows'.offered = offered
      /\ rows'.rejected = rejected /\ rows'.failed = rows.failed
  BY <1>1, <1>3 DEF BatchTable, BatchFields
<1>9. calls' = [calls EXCEPT ![c] = call] OBVIOUS
<1> HIDE DEF n
<1>10. /\ call.at = "parsing" /\ BatchCallOK(rows', call) /\ AccountCall(rows', call)
  BY <1>5, <1>7, <1>8 DEF BatchCallOK, AccountCall, Stages
<1> HIDE DEF call
<1>11. Moved(c) /\ calls'[c] = call BY <1>9, <1>10, BatchStepped
<1>12. \A b \in DOMAIN batches : BatchRowOK(batches[b]) BY <1>1, <1>4, <1>5 DEF BatchTable
<1>13. BatchTable(rows') BY <1>5, <1>6, <1>7, <1>8, <1>12 DEF BatchTable
<1>14. BatchShape' BY <1>5, <1>8, <1>10, <1>11, <1>13, BatchShapeKept DEF BatchInv
<1>15. Alone /\ ~rows.failed => \A b \in DOMAIN batches : Accounted(batches[b], offered[b], rejected[b])
  BY <1>4, <1>5, <1>6, <1>7 DEF BatchInv, AccountInv
<1>16. AccountInv' BY <1>8, <1>10, <1>11, <1>15, AccountKept
<1> QED BY <1>14, <1>16 DEF BatchInv

LEMMA ProcessStep ==
    ASSUME BatchInv, NEW c \in Callers, Process(c)
    PROVE  BatchInv'
<1>1. calls[c].at = "answered" BY DEF Process, Free
<1>2. \/ rows' = rows /\ \E status : calls' = [calls EXCEPT ![c] = Answered("process", status)]
      \/ /\ rows' = CreateBankReconBatch(rows)
         /\ \E total : calls' = [calls EXCEPT ![c] =
              [op |-> "process", at |-> "parsing", id |-> Len(rows.batches) + 1, total |-> total]]
  BY ZenonT(30) DEF Process, Reads, Store, Begin, AnswerAtOnce
<1>3. CASE rows' = rows /\ \E status : calls' = [calls EXCEPT ![c] = Answered("process", status)]
  BY <1>1, <1>3, BatchAnswers
<1>4. CASE /\ rows' = CreateBankReconBatch(rows)
           /\ \E total : calls' = [calls EXCEPT ![c] =
                [op |-> "process", at |-> "parsing", id |-> Len(rows.batches) + 1, total |-> total]]
  BY <1>1, <1>4, BatchCreated
<1> QED BY <1>2, <1>3, <1>4

LEMMA BatchRunsStep ==
    ASSUME BatchInv, NEW c \in Callers, BatchRuns(c)
    PROVE  BatchInv'
<1> DEFINE old == calls[c]
           call == [old EXCEPT !.at = After[old.at]]
<1>1. old.op = "process" /\ old.at \in Stages \ {"completed"} /\ After[old.at] \in Stages
  BY DEF BatchRuns, After, Stages
<1>2. DOMAIN old = {"op", "at", "id", "total"} /\ old.id \in DOMAIN rows.batches
  BY <1>1 DEF BatchInv, BatchShape, BatchCallOK, Stages
<1>3. calls' = [calls EXCEPT ![c] = call] BY DEF BatchRuns, Continue
<1>4. /\ call.op = "process" /\ call.at \in Stages /\ call.id = old.id
      /\ DOMAIN call = {"op", "at", "id", "total"}
  BY <1>1, <1>2
<1> HIDE DEF call
<1>5. BatchCallOK(rows, call) /\ call.at # "gone" /\ old.at # "gone"
  BY <1>1, <1>2, <1>4 DEF BatchCallOK, Stages
<1>6. Moved(c) /\ calls'[c] = call BY <1>3, <1>5, BatchStepped
<1>7. CASE rows' = [rows EXCEPT !.failed = TRUE] BY <1>5, <1>6, <1>7, BatchFails
<1>8. CASE rows' = UpdateBankReconBatch(rows, old.id, Written(old.at, old.total))
  <2> DEFINE b == old.id
             row == Written(old.at, old.total)
  <2>1. BatchTable(rows) BY DEF BatchInv, BatchShape
  <2>2. BatchRowOK(row) /\ row.suggestions = <<>> /\ row.status # "completed" BY <1>1, WrittenOK
  <2>3. rows' = [rows EXCEPT !.batches = [rows.batches EXCEPT ![b] = row]]
    BY <1>8 DEF UpdateBankReconBatch
  <2> HIDE DEF row
  <2>4. /\ DOMAIN rows' = BatchFields /\ rows'.failed = rows.failed
        /\ rows'.batches = [rows.batches EXCEPT ![b] = row]
        /\ rows'.offered = rows.offered /\ rows'.rejected = rows.rejected
    BY <2>1, <2>3 DEF BatchTable, BatchFields
  <2>5. rows.offered[b] \in Seq(Pairings) /\ rows.rejected[b] \in Nat
    BY <2>1, <1>2 DEF BatchTable
  <2>6. Accounted(row, rows.offered[b], rows.rejected[b]) BY <2>2, EmptyList DEF Accounted
  <2>7. ASSUME Alone, ~rows.failed PROVE AccountCall(rows', call)
    BY <1>1, <1>4, <2>4, <2>7 DEF BatchInv, AccountInv, AccountCall
  <2> QED BY <1>2, <1>5, <1>6, <2>2, <2>4, <2>5, <2>6, <2>7, BatchWritten
<1> QED BY <1>7, <1>8 DEF BatchRuns, Ignoring

LEMMA BatchCompletesStep ==
    ASSUME BatchInv, NEW c \in Callers, BatchCompletes(c)
    PROVE  BatchInv'
<1> DEFINE old == calls[c]
           b == old.id
           done == Written("completed", old.total)
           call == Answered("process", ProcessResponses.Done)
<1>1. old.op = "process" /\ old.at = "completed" BY DEF BatchCompletes, At
<1>2. b \in DOMAIN rows.batches BY <1>1 DEF BatchInv, BatchShape, BatchCallOK
<1>3. PICK list \in Suggestions \cup {<<>>} :
        Ignoring([UpdateBankReconBatch(rows, b, [done EXCEPT !.suggestions = list])
                    EXCEPT !.offered[b] = list])
  BY DEF BatchCompletes
<1>4. calls' = [calls EXCEPT ![c] = call] BY <1>1 DEF BatchCompletes, Answer, Continue
<1>5. call.at = "answered" /\ \A db : BatchCallOK(db, call) /\ AccountCall(db, call)
  BY AnsweredBatch
<1> HIDE DEF call
<1>6. Moved(c) /\ calls'[c] = call BY <1>1, <1>4, <1>5, BatchStepped
<1>7. CASE rows' = [rows EXCEPT !.failed = TRUE] BY <1>5, <1>6, <1>7, BatchFails
<1>8. CASE rows' = [UpdateBankReconBatch(rows, b, [done EXCEPT !.suggestions = list])
                      EXCEPT !.offered[b] = list]
  <2> DEFINE row == [done EXCEPT !.suggestions = list]
             batches == [rows.batches EXCEPT ![b] = row]
             offered == [rows.offered EXCEPT ![b] = list]
  <2>1. BatchTable(rows) BY DEF BatchInv, BatchShape
  <2>2. /\ BatchRowOK(done) /\ done.status = "completed" /\ done.pairs = Matches /\ done.summary
    BY WrittenOK DEF Stages
  <2>3. list \in Seq(Pairings) /\ Distinct(list) BY EmptyList, SessionDeskAssumption
  <2> HIDE DEF done
  <2>4. /\ DOMAIN row = {"status", "summary", "pairs", "suggestions", "total"}
        /\ row.status = "completed" /\ row.pairs = Matches /\ row.summary = done.summary
        /\ row.suggestions = list
    BY <2>2 DEF BatchRowOK
  <2>5. rows' = [[rows EXCEPT !.batches = batches] EXCEPT !.offered[b] = list]
    BY <1>8 DEF UpdateBankReconBatch
  <2> HIDE DEF row
  <2>6. BatchRowOK(row) BY <2>2, <2>3, <2>4, MatchesAreFirst, SessionDeskAssumption DEF BatchRowOK
  <2> HIDE DEF batches
  <2>7. /\ DOMAIN rows' = BatchFields /\ rows'.failed = rows.failed
        /\ rows'.batches = batches /\ rows'.offered = offered /\ rows'.rejected = rows.rejected
    BY <2>1, <2>5 DEF BatchTable, BatchFields
  <2>8. rows.rejected[b] \in Nat
    <3>1. DOMAIN rows.rejected = DOMAIN rows.batches BY <2>1 DEF BatchTable
    <3> QED BY <1>2, <2>1, <3>1 DEF BatchTable
  <2>9. ASSUME Alone, ~rows.failed PROVE Accounted(row, list, rows.rejected[b])
    <3>1. rows.rejected[b] = 0 BY <1>1, <2>9 DEF BatchInv, AccountInv, AccountCall, Stages
    <3>2. Len(Matches) \in Nat /\ Len(list) \in Nat /\ DOMAIN Matches = 1..Len(Matches)
      BY <2>3, SessionDeskAssumption
    <3>3. Len(Matches) - Len(Matches) + Len(list) + rows.rejected[b] = Len(list) BY <3>1, <3>2
    <3>4. \A i \in DOMAIN Matches : ~(i > Len(Matches)) BY <3>2
    <3> QED BY <2>3, <2>4, <3>3, <3>4 DEF Accounted
  <2>10. BatchCallOK(rows, calls'[c]) /\ AccountCall(rows', calls'[c]) BY <1>5, <1>6
  <2>11. /\ rows'.batches = [rows.batches EXCEPT ![b] = row]
         /\ rows'.offered = [rows.offered EXCEPT ![b] = list]
         /\ rows'.rejected = rows.rejected /\ DOMAIN rows' = BatchFields /\ rows'.failed = rows.failed
    BY <2>7 DEF batches
  <2> HIDE DEF b, offered
  <2>12. \/ rows'.offered = [rows.offered EXCEPT ![b] = list]
         \/ rows'.offered = rows.offered /\ list = rows.offered[b]
    BY <2>11
  <2>13. \E count \in Nat :
           /\ count = rows.rejected[b]
           /\ \/ rows'.rejected = [rows.rejected EXCEPT ![b] = count]
              \/ rows'.rejected = rows.rejected /\ count = rows.rejected[b]
           /\ Alone /\ ~rows.failed => Accounted(row, list, count) /\ AccountCall(rows', calls'[c])
    BY <2>8, <2>9, <2>10, <2>11
  <2>14. PICK count \in Nat :
           /\ \/ rows'.rejected = [rows.rejected EXCEPT ![b] = count]
              \/ rows'.rejected = rows.rejected /\ count = rows.rejected[b]
           /\ Alone /\ ~rows.failed => Accounted(row, list, count) /\ AccountCall(rows', calls'[c])
    BY <2>13
  <2> QED BY <1>2, <1>6, <2>3, <2>6, <2>10, <2>11, <2>12, <2>14, BatchWritten
<1> QED BY <1>3, <1>7, <1>8 DEF Ignoring

LEMMA GetBatchStep ==
    ASSUME BatchInv, NEW c \in Callers, GetBatch(c)
    PROVE  BatchInv'
<1>1. calls[c].at = "answered" /\ rows' = rows BY DEF GetBatch, Free, Reads
<1>2. \E status : calls' = [calls EXCEPT ![c] = Answered("batch", status)]
  BY DEF GetBatch, AnswerAtOnce, Begin
<1> QED BY <1>1, <1>2, BatchAnswers

LEMMA SuggestionAnswersStep ==
    ASSUME BatchInv, NEW c \in Callers, SuggestionAnswers(c)
    PROVE  BatchInv'
<1>1. calls[c].at = "reread" /\ rows' = rows BY DEF SuggestionAnswers, At, Reads
<1>2. calls' = [calls EXCEPT ![c] = Answered(calls[c].op, AcceptResponses.Done)]
  BY DEF SuggestionAnswers, Answer, Continue
<1> QED BY <1>1, <1>2, BatchAnswers

LEMMA ListBatchesStep ==
    ASSUME BatchInv, NEW c \in Callers, ListBatches(c)
    PROVE  BatchInv'
<1> DEFINE call == [op |-> "batches", at |-> "count", listed |-> ListBankReconBatchesByCompany(rows)]
<1>1. calls[c].at = "answered" /\ rows' = rows BY DEF ListBatches, Free, Reads
<1>2. calls' = [calls EXCEPT ![c] = call] BY DEF ListBatches, Begin
<1>3. call.at = "count" /\ BatchCallOK(rows, call) /\ AccountCall(rows, call)
  BY DEF BatchCallOK, AccountCall
<1> HIDE DEF call
<1>4. Moved(c) /\ calls'[c] = call BY <1>1, <1>2, <1>3, BatchStepped
<1> QED BY <1>1, <1>3, <1>4, BatchRest

LEMMA ListBatchesCountsStep ==
    ASSUME BatchInv, NEW c \in Callers, ListBatchesCounts(c)
    PROVE  BatchInv'
<1> DEFINE total == CountBankReconBatchesByCompany(rows)
           listed == calls[c].listed
           call == [op |-> "batches", at |-> "answered", listed |-> listed,
                    total |-> total, status |-> ListResponses.Done]
<1>1. calls[c].at = "count" /\ rows' = rows BY DEF ListBatchesCounts, At, Reads
<1>2. calls' = [calls EXCEPT ![c] = call] BY DEF ListBatchesCounts, Continue
<1> HIDE DEF total, listed
<1>3. call.at = "answered" /\ BatchCallOK(rows, call) /\ AccountCall(rows, call)
  BY DEF BatchCallOK, AccountCall
<1> HIDE DEF call
<1>4. Moved(c) /\ calls'[c] = call BY <1>1, <1>2, <1>3, BatchStepped
<1> QED BY <1>1, <1>3, <1>4, BatchRest

LEMMA UpdateSuggestionStep ==
    ASSUME BatchInv, NEW c \in Callers, UpdateSuggestionStatus(c)
    PROVE  BatchInv'
<1>1. calls[c].at = "answered" /\ rows' = rows BY DEF UpdateSuggestionStatus, Free, Reads
<1>2. PICK b \in DOMAIN rows.batches, i \in 1..2, accepted \in BOOLEAN :
        IF i \notin DOMAIN rows.batches[b].suggestions
        THEN AnswerAtOnce(c, "decide", AcceptResponses.OutOfRange)
        ELSE Begin(c, [op |-> "decide", at |-> "write", id |-> b, accepted |-> accepted,
                       row |-> Decided(rows.batches[b], i, accepted)])
  BY DEF UpdateSuggestionStatus
<1>3. CASE i \notin DOMAIN rows.batches[b].suggestions
  BY <1>2, <1>3, <1>1, BatchAnswers DEF AnswerAtOnce, Begin
<1>4. CASE i \in DOMAIN rows.batches[b].suggestions
  <2> DEFINE row == Decided(rows.batches[b], i, accepted)
             call == [op |-> "decide", at |-> "write", id |-> b, accepted |-> accepted, row |-> row]
  <2>1. calls' = [calls EXCEPT ![c] = call] BY <1>2, <1>4 DEF Begin
  <2>2. BatchRowOK(rows.batches[b]) BY DEF BatchInv, BatchShape, BatchTable
  <2>3. BatchRowOK(row) BY <1>4, <2>2, DecidedIs
  <2>4. \E k \in DOMAIN rows.batches[b].suggestions : row = Decided(rows.batches[b], k, accepted)
    BY <1>4
  <2> HIDE DEF row
  <2>5. call.at = "write" /\ BatchCallOK(rows, call) /\ AccountCall(rows, call)
    BY <2>3, <2>4 DEF BatchCallOK, AccountCall
  <2> HIDE DEF call
  <2>6. Moved(c) /\ calls'[c] = call BY <1>1, <2>1, <2>5, BatchStepped
  <2> QED BY <1>1, <2>5, <2>6, BatchRest
<1> QED BY <1>3, <1>4

LEMMA SuggestionWritesStep ==
    ASSUME BatchInv, NEW c \in Callers, SuggestionWrites(c)
    PROVE  BatchInv'
<1> DEFINE old == calls[c]
           b == old.id
           row == old.row
           accepted == old.accepted
           more == rows.rejected[b] + (IF accepted THEN 0 ELSE 1)
           call == [old EXCEPT !.at = "reread"]
<1>1. /\ old.op = "decide" /\ old.at = "write" /\ BatchRowOK(row) /\ b \in DOMAIN rows.batches
      /\ DOMAIN old = {"op", "at", "id", "accepted", "row"}
  BY DEF SuggestionWrites, At, BatchInv, BatchShape, BatchCallOK
<1>2. calls' = [calls EXCEPT ![c] = call] BY DEF SuggestionWrites, Continue
<1>3. call.op = "decide" /\ call.at = "reread" BY <1>1
<1> HIDE DEF call
<1>4. \A db : BatchCallOK(db, call) /\ AccountCall(db, call) BY <1>3 DEF BatchCallOK, AccountCall
<1>5. Moved(c) /\ calls'[c] = call BY <1>1, <1>2, <1>3, BatchStepped
<1>6. CASE rows' = [rows EXCEPT !.failed = TRUE] BY <1>4, <1>5, <1>6, BatchFails
<1>7. CASE rows' = [UpdateBankReconBatch(rows, b, row)
                      EXCEPT !.rejected[b] = @ + (IF accepted THEN 0 ELSE 1)]
  <2> DEFINE batches == [rows.batches EXCEPT ![b] = row]
             rejected == [rows.rejected EXCEPT ![b] = more]
  <2>1. BatchTable(rows) BY DEF BatchInv, BatchShape
  <2>2. DOMAIN rows.rejected = DOMAIN rows.batches /\ DOMAIN rows.offered = DOMAIN rows.batches
    BY <2>1 DEF BatchTable
  <2>3. rows.rejected[b] \in Nat /\ rows.offered[b] \in Seq(Pairings)
    BY <1>1, <2>1, <2>2 DEF BatchTable
  <2>4. UpdateBankReconBatch(rows, b, row) = [rows EXCEPT !.batches = batches]
    BY DEF UpdateBankReconBatch
  <2> HIDE DEF batches
  <2>5. /\ DOMAIN rows' = BatchFields /\ rows'.failed = rows.failed
        /\ rows'.batches = batches /\ rows'.rejected = rejected /\ rows'.offered = rows.offered
    BY <1>7, <2>1, <2>4 DEF BatchTable, BatchFields
  <2>6. more \in Nat BY <2>3
  <2>7. ASSUME Alone, ~rows.failed PROVE Accounted(row, rows.offered[b], more)
    <3>1. PICK i \in DOMAIN rows.batches[b].suggestions : row = Decided(rows.batches[b], i, accepted)
      BY <1>1, <2>7 DEF BatchInv, AccountInv, AccountCall
    <3>2. Accounted(rows.batches[b], rows.offered[b], rows.rejected[b])
      BY <1>1, <2>7 DEF BatchInv, AccountInv
    <3>3. BatchRowOK(rows.batches[b]) BY <1>1, <2>1 DEF BatchTable
    <3>4. accepted \in BOOLEAN BY <1>1 DEF BatchInv, BatchShape, BatchCallOK
    <3> QED BY <2>3, <3>1, <3>2, <3>3, <3>4, DecidedIsAccounted
  <2> HIDE DEF more
  <2>8. BatchCallOK(rows, calls'[c]) /\ AccountCall(rows', calls'[c]) BY <1>4, <1>5
  <2>9. /\ rows'.batches = [rows.batches EXCEPT ![b] = row]
        /\ rows'.rejected = [rows.rejected EXCEPT ![b] = more]
        /\ rows'.offered = rows.offered /\ DOMAIN rows' = BatchFields /\ rows'.failed = rows.failed
    BY <2>5 DEF batches
  <2> HIDE DEF row, b, rejected
  <2>10. PICK count \in Nat :
           /\ \/ rows'.rejected = [rows.rejected EXCEPT ![b] = count]
              \/ rows'.rejected = rows.rejected /\ count = rows.rejected[b]
           /\ Alone /\ ~rows.failed => Accounted(row, rows.offered[b], count)
    BY <2>6, <2>7, <2>9
  <2>11. PICK offer \in Seq(Pairings) :
           /\ \/ rows'.offered = [rows.offered EXCEPT ![b] = offer]
              \/ rows'.offered = rows.offered /\ offer = rows.offered[b]
           /\ Alone /\ ~rows.failed => Accounted(row, offer, count) /\ AccountCall(rows', calls'[c])
    BY <2>3, <2>8, <2>9, <2>10
  <2> QED BY <1>1, <1>5, <2>8, <2>9, <2>10, <2>11, BatchWritten
<1> QED BY <1>6, <1>7 DEF SuggestionWrites, Ignoring

LEMMA BatchesImply == BatchInv => CompletedKeepsMatches /\ SuggestionsAccounted
<1> SUFFICES ASSUME BatchInv PROVE CompletedKeepsMatches /\ SuggestionsAccounted OBVIOUS
<1>1. CompletedKeepsMatches
  BY DEF CompletedKeepsMatches, BatchInv, BatchShape, BatchTable, BatchRowOK
<1>2. ASSUME Alone, ~rows.failed, NEW b \in DOMAIN rows.batches,
             rows.batches[b].status = "completed"
      PROVE  LET batch == rows.batches[b]
                 accepted == SubSeq(batch.pairs, Len(Matches) + 1, Len(batch.pairs))
             IN  /\ Len(accepted) + Len(batch.suggestions) + rows.rejected[b] = Len(rows.offered[b])
                 /\ ToSet(accepted) \cap ToSet(batch.suggestions) = {}
  <2> DEFINE batch == rows.batches[b]
             pairs == batch.pairs
             list == batch.suggestions
             m == Len(Matches)
             n == Len(pairs)
             accepted == SubSeq(pairs, m + 1, n)
             ns == Len(list)
             nr == rows.rejected[b]
             no == Len(rows.offered[b])
  <2>1. BatchRowOK(batch) /\ Accounted(batch, rows.offered[b], nr)
    BY <1>2 DEF BatchInv, BatchShape, BatchTable, AccountInv
  <2>2. pairs \in Seq(Pairings) /\ list \in Seq(Pairings) /\ Matches \in Seq(Pairings)
    BY <2>1, SessionDeskAssumption DEF BatchRowOK
  <2>3. m \in Nat /\ n \in Nat /\ ns \in Nat /\ DOMAIN pairs = 1..n BY <2>2
  <2>4. m <= n BY <1>2, <2>1, <2>2, PrefixByIndex DEF BatchRowOK
  <2>5. /\ rows.rejected \in Seq(Nat) /\ rows.offered \in Seq(Seq(Pairings))
        /\ b \in DOMAIN rows.rejected /\ b \in DOMAIN rows.offered
    BY DEF BatchInv, BatchShape, BatchTable
  <2>6. nr \in Nat /\ rows.offered[b] \in Seq(Pairings) BY <2>5
  <2>7. no \in Nat BY <2>6
  <2>8. n - m + ns + nr = no BY <1>2, <2>1 DEF Accounted
  <2>9. \A i \in DOMAIN pairs, j \in DOMAIN list : i > m => pairs[i] # list[j]
    BY <1>2, <2>1 DEF Accounted
  <2> HIDE DEF batch, pairs, list, m, n, ns, nr, no
  <2>10. \A i \in (m + 1)..n : pairs[i] \in Pairings BY <2>2, <2>3
  <2>11. m + 1 \in Int /\ n \in Int BY <2>3
  <2>12. /\ accepted \in Seq(Pairings)
         /\ Len(accepted) = IF m + 1 <= n THEN n - (m + 1) + 1 ELSE 0
         /\ \A i \in 1..(n - (m + 1) + 1) : accepted[i] = pairs[m + 1 + i - 1]
    BY <2>10, <2>11, SubSeqProperties
  <2> HIDE DEF accepted
  <2>13. Len(accepted) = n - m BY <2>3, <2>4, <2>12
  <2>14. \A i \in DOMAIN accepted : i \in 1..(n - m) /\ accepted[i] = pairs[m + 1 + i - 1]
    BY <2>3, <2>12, <2>13
  <2>15. ASSUME NEW i \in DOMAIN accepted, NEW j \in DOMAIN list PROVE accepted[i] # list[j]
    BY <2>3, <2>4, <2>14, <2>9
  <2>16. ToSet(accepted) \cap ToSet(list) = {} BY <2>15 DEF ToSet
  <2>17. Len(accepted) + ns + nr = no BY <2>3, <2>6, <2>8, <2>13
  <2> QED BY <2>16, <2>17 DEF accepted, batch, pairs, list, m, n, ns, nr, no
<1>3. SuggestionsAccounted BY <1>2 DEF SuggestionsAccounted
<1> QED BY <1>1, <1>3

----
(* The two parts together. *)
SessionDeskInv ==
    /\ part \in SessionDeskParts
    /\ part = "anomalies" => AnomalyInv
    /\ part = "batches" => BatchInv

LEMMA SessionDeskBegins == SessionDeskInit => SessionDeskInv
<1> SUFFICES ASSUME SessionDeskInit PROVE SessionDeskInv OBVIOUS
<1>1. DOMAIN calls = Callers /\ \A c \in Callers : calls[c] \in {NoCall, Gone}
  BY DEF SessionDeskInit, RequestsInit
<1>2. \A c \in Callers : calls[c].op = "none" /\ calls[c].at \in {"answered", "gone"}
  BY <1>1 DEF NoCall, Gone
<1>3. ASSUME part = "anomalies" PROVE AnomalyInv
  <2>1. AnomaliesStart(rows) BY <1>3 DEF SessionDeskInit
  <2>2. AnomalyShape BY <1>1, <1>2, <2>1 DEF AnomalyShape, AnomaliesStart, AnomalyCallOK
  <2>3. Waiting("detect", "insert") = {} /\ ~(rows.ended > 0)
    BY <1>2, <2>1 DEF Waiting, At, AnomaliesStart
  <2>4. FiledInv BY <2>3 DEF FiledInv
  <2>5. ShownInv BY <1>2 DEF ShownInv, ShownOK, ShownWell
  <2> QED BY <2>2, <2>4, <2>5 DEF AnomalyInv
<1>4. ASSUME part = "batches" PROVE BatchInv
  <2>1. BatchesStart(rows) BY <1>4 DEF SessionDeskInit
  <2>2. rows.batches \in Seq(BatchRows) /\ \A b \in DOMAIN rows.batches : rows.batches[b] \in BatchRows
    BY <2>1 DEF BatchesStart
  <2>3. ASSUME NEW b \in DOMAIN rows.batches
        PROVE  /\ BatchRowOK(rows.batches[b])
               /\ Accounted(rows.batches[b], rows.offered[b], rows.rejected[b])
    <3>1. /\ DOMAIN rows.batches[b] = {"status", "summary", "pairs", "suggestions", "total"}
          /\ rows.batches[b].pairs \in Seq(Pairings) /\ rows.batches[b].suggestions \in Seq(Pairings)
      BY <2>2, <2>3 DEF BatchRows
    <3>2. BatchRowOK(rows.batches[b]) BY <2>1, <3>1 DEF BatchesStart, BatchRowOK
    <3>3. Accounted(rows.batches[b], rows.offered[b], rows.rejected[b])
      BY <2>1 DEF BatchesStart, Accounted
    <3> QED BY <3>2, <3>3
  <2>4. BatchTable(rows) BY <2>1, <2>2, <2>3 DEF BatchTable, BatchesStart
  <2>5. BatchShape BY <1>1, <1>2, <2>4 DEF BatchShape, BatchCallOK
  <2>6. AccountInv BY <1>2, <2>3 DEF AccountInv, AccountCall
  <2> QED BY <2>5, <2>6 DEF BatchInv
<1> QED BY <1>3, <1>4 DEF SessionDeskInv, SessionDeskInit

LEMMA SessionDeskKept == SessionDeskInv /\ [SessionDeskNext]_requestVars => SessionDeskInv'
<1> SUFFICES ASSUME SessionDeskInv, [SessionDeskNext]_requestVars PROVE SessionDeskInv' OBVIOUS
<1>1. CASE UNCHANGED requestVars
  <2>1. /\ part' = part /\ rows' = rows /\ calls' = calls
    BY <1>1 DEF requestVars
  <2>2. AnomalyInv => AnomalyInv'
    BY <2>1 DEF AnomalyInv, AnomalyShape, FiledInv, ShownInv, Waiting, Filing, At, Together, Alone
  <2>3. BatchInv => BatchInv' BY <2>1 DEF BatchInv, BatchShape, AccountInv, Alone
  <2> QED BY <2>1, <2>2, <2>3 DEF SessionDeskInv
<1>2. ASSUME NEW c \in Serving(SessionDeskParts),
             \/ DetectAnomalies(c) \/ DetectDeletes(c) \/ DetectInserts(c) \/ DetectAnswers(c)
             \/ ListAnomalies(c) \/ ListAnomaliesCounts(c)
             \/ ResolveAnomaly(c) \/ ResolveUpdates(c) \/ ResolveAnswers(c)
      PROVE  SessionDeskInv'
  <2>1. c \in Callers BY DEF Serving, SessionDeskParts
  <2>2. part' = part
    BY ONLY <1>2 DEF DetectAnomalies, DetectDeletes, DetectInserts, DetectAnswers, ListAnomalies,
       ListAnomaliesCounts, ResolveAnomaly, ResolveUpdates, ResolveAnswers, Begin, Continue, Answer,
       AnswerAtOnce
  <2>3. part # "batches"
    <3> SUFFICES ASSUME part = "batches" PROVE FALSE OBVIOUS
    <3>1. BatchCallOK(rows, calls[c]) BY <2>1 DEF SessionDeskInv, BatchInv, BatchShape
    <3>2. \/ part = "anomalies"
          \/ calls[c].op = "detect" /\ calls[c].at \in {"delete", "insert"}
          \/ calls[c].op = "anomalies" /\ calls[c].at = "count"
          \/ calls[c].op = "resolve" /\ calls[c].at \in {"update", "reread"}
      BY ONLY <1>2 DEF DetectAnomalies, DetectDeletes, DetectInserts, DetectAnswers, ListAnomalies,
         ListAnomaliesCounts, ResolveAnomaly, ResolveUpdates, ResolveAnswers, Free, At
    <3> QED BY <3>1, <3>2 DEF BatchCallOK, Stages
  <2>4. AnomalyInv BY <2>3 DEF SessionDeskInv, SessionDeskParts
  <2>5. AnomalyInv'
    BY <1>2, <2>1, <2>4, DetectAnomaliesStep, DetectDeletesStep, DetectInsertsStep,
       DetectAnswersStep, ListAnomaliesStep, ListCountsStep, ResolveStep, ResolveUpdatesStep,
       ResolveAnswersStep
  <2> QED BY <2>2, <2>3, <2>5 DEF SessionDeskInv
<1>3. ASSUME NEW c \in Serving(SessionDeskParts),
             \/ Process(c) \/ BatchRuns(c) \/ BatchCompletes(c) \/ GetBatch(c)
             \/ ListBatches(c) \/ ListBatchesCounts(c)
             \/ UpdateSuggestionStatus(c) \/ SuggestionWrites(c) \/ SuggestionAnswers(c)
      PROVE  SessionDeskInv'
  <2>1. c \in Callers BY DEF Serving, SessionDeskParts
  <2>2. part' = part
    BY ONLY <1>3 DEF Process, BatchRuns, BatchCompletes, GetBatch, ListBatches, ListBatchesCounts,
       UpdateSuggestionStatus, SuggestionWrites, SuggestionAnswers, Begin, Continue, Answer,
       AnswerAtOnce
  <2>3. part # "anomalies"
    <3> SUFFICES ASSUME part = "anomalies" PROVE FALSE OBVIOUS
    <3>1. AnomalyCallOK(rows, calls[c]) BY <2>1 DEF SessionDeskInv, AnomalyInv, AnomalyShape
    <3>2. \/ part = "batches"
          \/ calls[c].op = "process" /\ calls[c].at \in Stages
          \/ calls[c].op = "decide" /\ calls[c].at \in {"write", "reread"}
          \/ calls[c].op = "batches" /\ calls[c].at = "count"
      <4>1. DOMAIN After = Stages BY DEF After, Stages
      <4> QED BY ONLY <1>3, <4>1 DEF Process, BatchRuns, BatchCompletes, GetBatch, ListBatches,
            ListBatchesCounts, UpdateSuggestionStatus, SuggestionWrites, SuggestionAnswers, Free, At,
            Stages
    <3> QED BY <3>1, <3>2 DEF AnomalyCallOK, Stages
  <2>4. BatchInv BY <2>3 DEF SessionDeskInv, SessionDeskParts
  <2>5. BatchInv'
    BY <1>3, <2>1, <2>4, ProcessStep, BatchRunsStep, BatchCompletesStep, GetBatchStep,
       ListBatchesStep, ListBatchesCountsStep, UpdateSuggestionStep, SuggestionWritesStep,
       SuggestionAnswersStep
  <2> QED BY <2>2, <2>3, <2>5 DEF SessionDeskInv
<1> QED BY <1>1, <1>2, <1>3 DEF SessionDeskNext

(* In every behaviour of the detection of anomalies or of the batches of bank
   reconciliations, with any number of goroutines, any rows, matches and
   suggestions, and whatever statements fail: SessionDeskSound. *)
THEOREM SessionDeskSafe == SessionDeskSpec => []SessionDeskSound
<1>1. SessionDeskInv => SessionDeskSound
  BY AnomaliesImply, BatchesImply DEF SessionDeskInv, SessionDeskSound
<1> QED BY <1>1, SessionDeskBegins, SessionDeskKept, PTL DEF SessionDeskSpec
=============================================================================
