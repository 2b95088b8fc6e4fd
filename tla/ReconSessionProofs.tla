------------------------- MODULE ReconSessionProofs -------------------------
(* Proofs about ReconSession, for any transactions, pairs, handlers, workers
   and bounds. *)
EXTENDS ReconSession, TLAPS, FiniteSetTheorems

----
(* The writes of a reconciliation. *)

(* A finite set is listed by a sequence of its members. *)
LEMMA ListOfSet ==
    ASSUME NEW S, IsFiniteSet(S)
    PROVE  /\ Cardinality(S) \in Nat
           /\ SetToSeq(S) \in [1..Cardinality(S) -> S]
<1>1. Cardinality(S) \in Nat /\ ExistsBijection(1..Cardinality(S), S) BY FS_CardinalityType
<1>2. \E f \in [1..Cardinality(S) -> S] : IsInjective(f)
  BY <1>1 DEF ExistsBijection, Bijection, Injection
<1> QED BY <1>1, <1>2 DEF SetToSeq

(* So a set of transactions is listed by a sequence of transactions. *)
LEMMA SeqOfSet ==
    ASSUME NEW S \in SUBSET Txns
    PROVE  SetToSeq(S) \in Seq(Txns)
<1>1. IsFiniteSet(S) BY ReconAssumption, FS_Subset
<1>2. PICK n \in Nat : SetToSeq(S) \in [1..n -> S] BY <1>1, ListOfSet
<1>3. SetToSeq(S) \in [1..n -> Txns] BY <1>2
<1> QED BY <1>3

(* The todo of a reconciliation: each record is followed by its bank entry,
   and an entry that is not the first comes after a record. *)
RecordsBeforeEntries(todo) ==
    /\ \A i \in DOMAIN todo : todo[i] \in Records =>
         i + 1 \in DOMAIN todo /\ <<todo[i], todo[i + 1]>> \in Pairs
    /\ \A i \in DOMAIN todo : i > 1 /\ todo[i] \in Entries => todo[i - 1] \in Records

(* A reconciliation writes transactions it listed, every record just before its
   entry, and begins with a record (session_service.go 1193-1217). *)
LEMMA MatchWritesPaired ==
    ASSUME NEW S \in SUBSET Txns
    PROVE  /\ MatchWrites(S) \in Seq(Txns)
           /\ \A i \in DOMAIN MatchWrites(S) : MatchWrites(S)[i] \in S
           /\ RecordsBeforeEntries(MatchWrites(S))
           /\ MatchWrites(S) # <<>> => Head(MatchWrites(S)) \in Records
<1> DEFINE ps == SetToSeq(PairsOf(S))
<1>1. IsFiniteSet(PairsOf(S))
  <2>1. IsFiniteSet(Records) /\ IsFiniteSet(Entries) BY ReconAssumption, FS_Subset DEF Txns
  <2>2. IsFiniteSet(Records \X Entries) BY <2>1, FS_Product
  <2>3. PairsOf(S) \subseteq Records \X Entries BY ReconAssumption DEF PairsOf
  <2> QED BY <2>2, <2>3, FS_Subset
<1>2. PICK n \in Nat : ps \in [1..n -> PairsOf(S)] BY <1>1, ListOfSet
<1>3. Len(ps) = n
  BY <1>2
<1>4. \A k \in 1..n : /\ ps[k] \in Pairs /\ ps[k] = <<ps[k][1], ps[k][2]>>
                      /\ ps[k][1] \in S \cap Records /\ ps[k][2] \in S \cap Entries
  <2> SUFFICES ASSUME NEW k \in 1..n
                PROVE  /\ ps[k] \in Pairs /\ ps[k] = <<ps[k][1], ps[k][2]>>
                       /\ ps[k][1] \in S \cap Records /\ ps[k][2] \in S \cap Entries
    OBVIOUS
  <2>1. ps[k] \in PairsOf(S) BY <1>2
  <2> HIDE DEF ps
  <2>2. PICK p \in Records \X Entries : p = ps[k] /\ p \in Pairs /\ p[1] \in S /\ p[2] \in S
    BY <2>1, ReconAssumption DEF PairsOf
  <2>3. p = <<p[1], p[2]>> /\ p[1] \in Records /\ p[2] \in Entries BY <2>2
  <2> QED BY <2>2, <2>3
<1> DEFINE W == [i \in 1..2 * n |-> IF i % 2 = 1 THEN ps[(i + 1) \div 2][1] ELSE ps[i \div 2][2]]
<1>5. MatchWrites(S) = W BY <1>3 DEF MatchWrites
<1> HIDE DEF ps
<1>6. \A i \in 1..2 * n : i % 2 = 1 =>
        /\ (i + 1) \div 2 \in 1..n /\ i + 1 \in 1..2 * n
        /\ (i + 1) % 2 # 1 /\ W[i] = ps[(i + 1) \div 2][1] /\ W[i + 1] = ps[(i + 1) \div 2][2]
  OBVIOUS
<1>7. \A i \in 1..2 * n : i % 2 # 1 =>
        /\ i \div 2 \in 1..n /\ W[i] = ps[i \div 2][2]
        /\ i - 1 \in 1..2 * n /\ (i - 1) % 2 = 1
  OBVIOUS
<1>8. DOMAIN W = 1..2 * n OBVIOUS
<1> HIDE DEF W
<1>9. ASSUME NEW i \in 1..2 * n, i % 2 = 1
      PROVE  /\ W[i] \in S \cap Records /\ i + 1 \in 1..2 * n
             /\ <<W[i], W[i + 1]>> \in Pairs /\ W[i + 1] \in S \cap Entries
  <2>1. PICK k \in 1..n : k = (i + 1) \div 2 BY <1>6, <1>9
  <2>2. W[i] = ps[k][1] /\ W[i + 1] = ps[k][2] /\ i + 1 \in 1..2 * n BY <1>6, <1>9, <2>1
  <2> QED BY <1>4, <2>2
<1>10. ASSUME NEW i \in 1..2 * n, i % 2 # 1
       PROVE  W[i] \in S \cap Entries /\ i - 1 \in 1..2 * n /\ W[i - 1] \in S \cap Records
  <2>1. PICK k \in 1..n : k = i \div 2 BY <1>7, <1>10
  <2>2. W[i] = ps[k][2] /\ i - 1 \in 1..2 * n /\ (i - 1) % 2 = 1 BY <1>7, <1>10, <2>1
  <2>3. W[i - 1] \in S \cap Records BY <1>9, <2>2
  <2> QED BY <1>4, <2>2, <2>3
<1>11. \A i \in 1..2 * n : W[i] \in S BY <1>9, <1>10
<1>12. W \in Seq(Txns)
  BY <1>11 DEF W
<1>13. RecordsBeforeEntries(W) BY <1>8, <1>9, <1>10, ReconAssumption DEF RecordsBeforeEntries
<1>14. W # <<>> => Head(W) \in Records
  <2> SUFFICES ASSUME W # <<>> PROVE Head(W) \in Records OBVIOUS
  <2>1. 1 \in 1..2 * n BY <1>8, <1>12
  <2>2. 1 % 2 = 1 OBVIOUS
  <2>3. W[1] \in Records BY <2>1, <2>2, <1>9
  <2> QED BY <2>3, <1>12
<1> QED BY <1>5, <1>8, <1>11, <1>12, <1>13, <1>14

(* What is left of the writes is in the same order. *)
LEMMA RestOfWrites ==
    ASSUME NEW todo \in Seq(Txns), todo # <<>>
    PROVE  /\ Tail(todo) \in Seq(Txns) /\ Head(todo) = todo[1] /\ todo[1] \in Txns
           /\ \A i \in DOMAIN Tail(todo) : i + 1 \in DOMAIN todo /\ Tail(todo)[i] = todo[i + 1]
           /\ Tail(todo) # <<>> => 2 \in DOMAIN todo /\ Head(Tail(todo)) = todo[2]
           /\ 2 \in DOMAIN todo => Tail(todo) # <<>>
           /\ 1 \in DOMAIN todo
           /\ RecordsBeforeEntries(todo) => RecordsBeforeEntries(Tail(todo))
<1>1. PICK n \in Nat \ {0} : Len(todo) = n /\ DOMAIN todo = 1..n OBVIOUS
<1>2. PICK rest \in Seq(Txns) : rest = Tail(todo)
  <2>1. Tail(todo) \in Seq(Txns) OBVIOUS
  <2> QED BY <2>1
<1>3. Len(rest) = n - 1 /\ DOMAIN rest = 1..(n - 1) /\ \A i \in 1..(n - 1) : rest[i] = todo[i + 1]
  BY <1>1, <1>2
<1>4. rest # <<>> => n > 1 /\ Head(rest) = todo[2] BY <1>1, <1>3
<1>5. n > 1 => rest # <<>> BY <1>1, <1>3
<1>6. Head(todo) = todo[1] /\ todo[1] \in Txns BY <1>1
<1>7. ASSUME RecordsBeforeEntries(todo) PROVE RecordsBeforeEntries(rest)
  <2>1. ASSUME NEW i \in 1..(n - 1), rest[i] \in Records
        PROVE  i + 1 \in 1..(n - 1) /\ <<rest[i], rest[i + 1]>> \in Pairs
    <3>1. i + 1 \in 1..n /\ todo[i + 1] \in Records BY <2>1, <1>3
    <3>2. i + 2 \in 1..n /\ <<todo[i + 1], todo[i + 2]>> \in Pairs
      <4>1. PICK j \in 1..n : j = i + 1 BY <3>1
      <4>2. j + 1 \in 1..n /\ <<todo[j], todo[j + 1]>> \in Pairs
        BY <3>1, <4>1, <1>1, <1>7 DEF RecordsBeforeEntries
      <4>3. j + 1 = i + 2 BY <4>1
      <4> QED BY <4>1, <4>2, <4>3
    <3>3. i + 1 \in 1..(n - 1) /\ rest[i + 1] = todo[i + 2] BY <3>2, <1>3
    <3> QED BY <3>2, <3>3, <1>3
  <2>2. ASSUME NEW i \in 1..(n - 1), i > 1, rest[i] \in Entries PROVE  rest[i - 1] \in Records
    BY <2>2, <1>3, <1>1, <1>7 DEF RecordsBeforeEntries
  <2> QED BY <1>3, <2>1, <2>2 DEF RecordsBeforeEntries
<1>8. \A i \in 1..(n - 1) : i + 1 \in 1..n OBVIOUS
<1> QED BY <1>1, <1>2, <1>3, <1>4, <1>5, <1>6, <1>7, <1>8

----
(* What the operators on rows, sessions and requests do. *)

(* Importing and linking a row change nothing else of it. *)
LEMMA RowsTyped ==
    ASSUME NEW row \in Row
    PROVE  /\ Imported(row) \in Row /\ Imported(row).here /\ Imported(row).class = row.class
           /\ Imported(row).group = row.group /\ Imported(row).linked = row.linked
           /\ LinkedRow(row) \in Row /\ LinkedRow(row).here = row.here
           /\ LinkedRow(row).group = row.group /\ LinkedRow(row).linked
           /\ LinkedRow(row).class = row.class
<1>1. Imported(row) \in Row /\ LinkedRow(row) \in Row BY DEF Imported, LinkedRow, Row
<1> QED BY <1>1 DEF Imported, LinkedRow, Row

(* Classifying a row changes nothing else of it. *)
LEMMA ClassedTyped ==
    ASSUME NEW row \in Row, NEW by \in {"none", "ai", "user"}
    PROVE  /\ Classed(row, by) \in Row /\ Classed(row, by).here = row.here
           /\ Classed(row, by).group = row.group /\ Classed(row, by).linked = row.linked
BY DEF Classed, Row

(* Putting a row into a group changes nothing else of it. *)
LEMMA GroupedTyped ==
    ASSUME NEW row \in Row, NEW g \in Groups
    PROVE  /\ Grouped(row, g) \in Row /\ Grouped(row, g).here = row.here
           /\ Grouped(row, g).group = g /\ Grouped(row, g).linked = row.linked
BY DEF Grouped, Row

(* The write of AddFile keeps the columns it is not about. *)
LEMMA FileWritten ==
    ASSUME NEW row \in Session, NEW t \in Txns
    PROVE  /\ WithFile(row, t) \in Session /\ WithFile(row, t).files = row.files \cup {t}
           /\ WithFile(row, t).status = row.status /\ WithFile(row, t).summary = row.summary
           /\ WithFile(row, t).result = row.result
<1>1. WithFile(row, t) \in Session BY DEF WithFile, Session
<1> QED BY <1>1 DEF WithFile, Session

(* The writes of ClassifySession change the status alone. *)
LEMMA StatusWritten ==
    ASSUME NEW row \in Session, NEW status \in {"draft", "classifying", "reviewing", "completed"}
    PROVE  /\ WithStatus(row, status) \in Session /\ WithStatus(row, status).files = row.files
           /\ WithStatus(row, status).status = status
<1>1. WithStatus(row, status) \in Session BY DEF WithStatus, Session
<1> QED BY <1>1 DEF WithStatus, Session

(* The write of GetVATSummary changes the summary alone. *)
LEMMA SummaryWritten ==
    ASSUME NEW row \in Session, NEW S \in SUBSET Txns
    PROVE  /\ WithSummary(row, S) \in Session /\ WithSummary(row, S).files = row.files
           /\ WithSummary(row, S).status = row.status /\ WithSummary(row, S).summary = S
           /\ WithSummary(row, S).result = row.result
<1>1. WithSummary(row, S) \in Session BY DEF WithSummary, Session
<1> QED BY <1>1 DEF WithSummary, Session

(* The last write of a reconciliation shows what was listed. *)
LEMMA CompletedWritten ==
    ASSUME NEW row \in Session, NEW S \in SUBSET Txns
    PROVE  /\ Completed(row, S) \in Session /\ Completed(row, S).files = row.files
           /\ Completed(row, S).summary = S /\ Completed(row, S).result = S
BY DEF Completed, Session

Labels == {"idle", "import", "files", "list", "mark", "classify", "summary", "match", "delete"}
Ops == {"none", "addFile", "classify", "summary", "reconcile", "batch", "delete"}

(* A request with nothing done yet. *)
LEMMA RequestTyped ==
    ASSUME NEW op \in Ops, NEW pc \in Labels, NEW seen \in Session \cup {Gone}
    PROVE  /\ Request(op, pc, seen) \in Requests
           /\ Request(op, pc, seen).op = op /\ Request(op, pc, seen).pc = pc
           /\ Request(op, pc, seen).seen = seen /\ Request(op, pc, seen).todo = <<>>
           /\ Request(op, pc, seen).file = None /\ Request(op, pc, seen).group = NoGroup
           /\ Request(op, pc, seen).list = {}
BY DEF Request, Requests, Labels, Ops, Groups

(* A handler without a request. *)
LEMMA IdleTyped ==
    /\ Idle \in Requests /\ Idle.pc = "idle" /\ Idle.op = "none" /\ Idle.seen = Gone
    /\ Idle.file = None /\ Idle.todo = <<>> /\ Idle.group = NoGroup
BY RequestTyped DEF Idle, Labels, Ops

(* Going on to another statement changes nothing else of a request. *)
LEMMA AtTyped ==
    ASSUME NEW local \in Requests, NEW pc \in Labels
    PROVE  /\ At(local, pc) \in Requests /\ At(local, pc).pc = pc
           /\ At(local, pc).op = local.op /\ At(local, pc).file = local.file
           /\ At(local, pc).seen = local.seen /\ At(local, pc).list = local.list
           /\ At(local, pc).todo = local.todo /\ At(local, pc).group = local.group
<1>1. At(local, pc) \in Requests BY DEF At, Requests, Labels
<1> QED BY <1>1 DEF At, Requests

(* Nor does what is left to write. *)
LEMMA TodoTyped ==
    ASSUME NEW local \in Requests, NEW rest \in Seq(Txns)
    PROVE  LET new == [local EXCEPT !.todo = rest]
           IN  /\ new \in Requests /\ new.pc = local.pc /\ new.op = local.op
               /\ new.file = local.file /\ new.seen = local.seen /\ new.list = local.list
               /\ new.todo = rest /\ new.group = local.group
<1> DEFINE T == Seq(Txns)
<1>1. /\ local.pc \in Labels /\ local.op \in Ops /\ local.force \in BOOLEAN
      /\ local.file \in Txns \cup {None} /\ local.seen \in Session \cup {Gone}
      /\ local.list \in SUBSET Txns /\ local.todo \in T /\ local.group \in Groups /\ rest \in T
  BY DEF Requests, Labels, Ops
<1>2. local = [pc |-> local.pc, op |-> local.op, force |-> local.force, file |-> local.file,
               seen |-> local.seen, list |-> local.list, todo |-> local.todo, group |-> local.group]
  BY DEF Requests
<1>3. [local EXCEPT !.todo = rest] =
        [pc |-> local.pc, op |-> local.op, force |-> local.force, file |-> local.file,
         seen |-> local.seen, list |-> local.list, todo |-> rest, group |-> local.group]
  BY <1>2
<1>4. [local EXCEPT !.todo = rest] \in Requests BY <1>1, <1>3 DEF Requests, Labels, Ops
<1> QED BY <1>3, <1>4

(* A row that is written is taken from what is left to write. *)
LEMMA RestTyped ==
    ASSUME NEW local \in Requests, local.todo # <<>>
    PROVE  /\ Rest(local) \in Requests /\ Rest(local).pc = local.pc
           /\ Rest(local).op = local.op /\ Rest(local).file = local.file
           /\ Rest(local).seen = local.seen /\ Rest(local).list = local.list
           /\ Rest(local).todo = Tail(local.todo) /\ Rest(local).group = local.group
<1>1. PICK rest \in Seq(Txns) : rest = Tail(local.todo)
  <2>1. PICK todo \in Seq(Txns) : todo = local.todo BY DEF Requests
  <2>2. Tail(todo) \in Seq(Txns) BY <2>1
  <2> QED BY <2>1, <2>2
<1>2. Rest(local) = [local EXCEPT !.todo = rest] BY <1>1 DEF Rest
<1>3. /\ [local EXCEPT !.todo = rest] \in Requests
      /\ LET new == [local EXCEPT !.todo = rest]
         IN  /\ new.pc = local.pc /\ new.op = local.op /\ new.file = local.file
             /\ new.seen = local.seen /\ new.list = local.list
             /\ new.todo = rest /\ new.group = local.group
  BY TodoTyped
<1> QED BY <1>1, <1>2, <1>3

(* The list of rows and what follows from it. *)
LEMMA ListedTyped ==
    ASSUME NEW local \in Requests, NEW pc \in Labels, NEW todo \in Seq(Txns)
    PROVE  /\ Listed(local, pc, todo) \in Requests /\ Listed(local, pc, todo).pc = pc
           /\ Listed(local, pc, todo).op = local.op /\ Listed(local, pc, todo).file = local.file
           /\ Listed(local, pc, todo).seen = local.seen /\ Listed(local, pc, todo).list = Here
           /\ Listed(local, pc, todo).todo = todo /\ Listed(local, pc, todo).group = local.group
<1>1. PICK list \in SUBSET Txns : list = Here BY DEF Here
<1>2. Listed(local, pc, todo) \in Requests BY <1>1 DEF Listed, Requests, Labels
<1> QED BY <1>1, <1>2 DEF Listed

----
(* What is true of a request in progress. *)

(* A row of a completed session has a summary and a result that is not empty. *)
Complete(row) ==
    row.status = "completed" => row.result # None /\ row.summary # None /\ row.result # {}

NeedsRow(local) ==
    \/ local.pc \in {"import", "files", "list", "mark", "classify", "summary", "delete"}
    \/ local.pc = "match" /\ local.op = "reconcile"

LocalOK(local) ==
    /\ NeedsRow(local) => local.seen # Gone
    /\ local.seen # Gone => Complete(local.seen)
    /\ local.pc = "match" => local.op \in {"reconcile", "batch"}
    /\ local.pc = "match" /\ local.op = "reconcile" => local.list # {}
    /\ local.pc \in {"import", "files"} <=> local.op = "addFile"
    /\ local.op = "addFile" => local.file \in Txns
    /\ local.op # "addFile" => local.file = None
    /\ local.op = "reconcile" => local.group.by = "session"
    /\ local.op = "batch" => local.group.by = "batch"
    /\ local.op = "batch" => local.pc = "match"
    /\ local.pc = "idle" <=> local.op = "none"

(* A bank reconciliation writes records only, a session reconciliation each
   record before its entry. *)
PairedTodo(local) ==
    local.pc = "match" =>
      /\ local.op = "batch" => \A i \in DOMAIN local.todo : local.todo[i] \in Records
      /\ local.op = "reconcile" => RecordsBeforeEntries(local.todo)

(* The facts about requests hold of one that is not there. *)
LEMMA IdleOK == LocalOK(Idle) /\ PairedTodo(Idle)
BY IdleTyped DEF LocalOK, PairedTodo, NeedsRow

(* The fields of a request that are set when it begins. *)
LEMMA FileSet ==
    ASSUME NEW local \in Requests, NEW newfile \in Txns \cup {None}
    PROVE  LET new == [local EXCEPT !.file = newfile]
           IN  /\ new \in Requests
               /\ new.pc = local.pc /\ new.op = local.op /\ new.force = local.force /\ new.file = newfile
               /\ new.seen = local.seen /\ new.list = local.list /\ new.todo = local.todo /\ new.group = local.group
<1>1. /\ local.pc \in Labels /\ local.op \in Ops /\ local.force \in BOOLEAN /\ local.file \in Txns \cup {None}
      /\ local.seen \in Session \cup {Gone} /\ local.list \in SUBSET Txns
      /\ local.todo \in Seq(Txns) /\ local.group \in Groups
  BY DEF Requests, Labels, Ops
<1>2. local = [pc |-> local.pc, op |-> local.op, force |-> local.force, file |-> local.file,
               seen |-> local.seen, list |-> local.list, todo |-> local.todo, group |-> local.group]
  BY DEF Requests
<1>3. [local EXCEPT !.file = newfile] =
          [pc |-> local.pc, op |-> local.op, force |-> local.force, file |-> newfile,
           seen |-> local.seen, list |-> local.list, todo |-> local.todo, group |-> local.group]
  BY <1>2
<1>4. [local EXCEPT !.file = newfile] \in Requests BY <1>1, <1>3 DEF Requests, Labels, Ops
<1> QED BY <1>3, <1>4

(* What is asked of a classification is set alone. *)
LEMMA ForceSet ==
    ASSUME NEW local \in Requests, NEW newforce \in BOOLEAN
    PROVE  LET new == [local EXCEPT !.force = newforce]
           IN  /\ new \in Requests
               /\ new.pc = local.pc /\ new.op = local.op /\ new.force = newforce /\ new.file = local.file
               /\ new.seen = local.seen /\ new.list = local.list /\ new.todo = local.todo /\ new.group = local.group
<1>1. /\ local.pc \in Labels /\ local.op \in Ops /\ local.force \in BOOLEAN /\ local.file \in Txns \cup {None}
      /\ local.seen \in Session \cup {Gone} /\ local.list \in SUBSET Txns
      /\ local.todo \in Seq(Txns) /\ local.group \in Groups
  BY DEF Requests, Labels, Ops
<1>2. local = [pc |-> local.pc, op |-> local.op, force |-> local.force, file |-> local.file,
               seen |-> local.seen, list |-> local.list, todo |-> local.todo, group |-> local.group]
  BY DEF Requests
<1>3. [local EXCEPT !.force = newforce] =
          [pc |-> local.pc, op |-> local.op, force |-> newforce, file |-> local.file,
           seen |-> local.seen, list |-> local.list, todo |-> local.todo, group |-> local.group]
  BY <1>2
<1>4. [local EXCEPT !.force = newforce] \in Requests BY <1>1, <1>3 DEF Requests, Labels, Ops
<1> QED BY <1>3, <1>4

(* The group of a reconciliation is set alone. *)
LEMMA GroupSet ==
    ASSUME NEW local \in Requests, NEW newgroup \in Groups
    PROVE  LET new == [local EXCEPT !.group = newgroup]
           IN  /\ new \in Requests
               /\ new.pc = local.pc /\ new.op = local.op /\ new.force = local.force /\ new.file = local.file
               /\ new.seen = local.seen /\ new.list = local.list /\ new.todo = local.todo /\ new.group = newgroup
<1>1. /\ local.pc \in Labels /\ local.op \in Ops /\ local.force \in BOOLEAN /\ local.file \in Txns \cup {None}
      /\ local.seen \in Session \cup {Gone} /\ local.list \in SUBSET Txns
      /\ local.todo \in Seq(Txns) /\ local.group \in Groups
  BY DEF Requests, Labels, Ops
<1>2. local = [pc |-> local.pc, op |-> local.op, force |-> local.force, file |-> local.file,
               seen |-> local.seen, list |-> local.list, todo |-> local.todo, group |-> local.group]
  BY DEF Requests
<1>3. [local EXCEPT !.group = newgroup] =
          [pc |-> local.pc, op |-> local.op, force |-> local.force, file |-> local.file,
           seen |-> local.seen, list |-> local.list, todo |-> local.todo, group |-> newgroup]
  BY <1>2
<1>4. [local EXCEPT !.group = newgroup] \in Requests BY <1>1, <1>3 DEF Requests, Labels, Ops
<1> QED BY <1>3, <1>4

(* The groups of reconciliations are no marker. *)
LEMMA GroupTyped ==
    ASSUME NEW by \in {"session", "batch"}, NEW n \in 1..MaxRequests
    PROVE  /\ [by |-> by, n |-> n] \in Groups
           /\ [by |-> by, n |-> n].by = by
           /\ [by |-> by, n |-> n] # NoGroup
BY DEF Groups, NoGroup

(* The requests that begin. *)
LEMMA FirstAddFile ==
    ASSUME NEW seen \in Session, Complete(seen), NEW t \in Txns
    PROVE  LET local == [Request("addFile", "import", seen) EXCEPT !.file = t]
           IN  /\ local \in Requests /\ LocalOK(local) /\ PairedTodo(local)
               /\ local.op = "addFile" /\ local.pc = "import" /\ local.seen = seen
<1>1. seen # Gone /\ NoGroup \in Groups BY MarkersAssumption DEF Groups
<1>2. PICK base \in Requests : base = Request("addFile", "import", seen)
  BY RequestTyped DEF Labels, Ops
<1>3. base.op = "addFile" /\ base.pc = "import" /\ base.seen = seen
  BY <1>2, RequestTyped DEF Labels, Ops
<1>4. PICK local \in Requests :
        /\ local = [base EXCEPT !.file = t] /\ local.op = base.op /\ local.pc = base.pc
        /\ local.seen = base.seen /\ local.file = t
  BY FileSet
<1>5. LocalOK(local) /\ PairedTodo(local) BY <1>1, <1>3, <1>4 DEF LocalOK, PairedTodo, NeedsRow
<1> QED BY <1>2, <1>3, <1>4, <1>5

(* ClassifySession has read a session that is complete. *)
LEMMA FirstClassify ==
    ASSUME NEW seen \in Session, Complete(seen), NEW force \in BOOLEAN
    PROVE  LET local == [Request("classify", "list", seen) EXCEPT !.force = force]
           IN  /\ local \in Requests /\ LocalOK(local) /\ PairedTodo(local)
               /\ local.op = "classify" /\ local.pc = "list" /\ local.seen = seen
<1>1. seen # Gone /\ NoGroup \in Groups BY MarkersAssumption DEF Groups
<1>2. PICK base \in Requests : base = Request("classify", "list", seen)
  BY RequestTyped DEF Labels, Ops
<1>3. base.op = "classify" /\ base.pc = "list" /\ base.seen = seen /\ base.file = None
  BY <1>2, RequestTyped DEF Labels, Ops
<1>4. PICK local \in Requests :
        /\ local = [base EXCEPT !.force = force] /\ local.op = base.op /\ local.pc = base.pc
        /\ local.seen = base.seen /\ local.file = base.file
  BY ForceSet
<1>5. LocalOK(local) /\ PairedTodo(local) BY <1>1, <1>3, <1>4 DEF LocalOK, PairedTodo, NeedsRow
<1> QED BY <1>2, <1>3, <1>4, <1>5

(* ReconcileSession has read one too, and names a group of its own. *)
LEMMA FirstReconcile ==
    ASSUME NEW seen \in Session, Complete(seen), NEW n \in 1..MaxRequests
    PROVE  LET local == InGroup(Request("reconcile", "list", seen), [by |-> "session", n |-> n])
           IN  /\ local \in Requests /\ LocalOK(local) /\ PairedTodo(local)
               /\ local.op = "reconcile" /\ local.pc = "list" /\ local.seen = seen
<1>1. seen # Gone /\ NoGroup \in Groups BY MarkersAssumption DEF Groups
<1>2. PICK base \in Requests : base = Request("reconcile", "list", seen)
  BY RequestTyped DEF Labels, Ops
<1>3. base.op = "reconcile" /\ base.pc = "list" /\ base.seen = seen /\ base.file = None
  BY <1>2, RequestTyped DEF Labels, Ops
<1>4. PICK g \in Groups : g = [by |-> "session", n |-> n] /\ g.by = "session" BY GroupTyped
<1>5. PICK local \in Requests :
        /\ local = InGroup(base, g) /\ local.op = base.op /\ local.pc = base.pc
        /\ local.seen = base.seen /\ local.file = base.file /\ local.group = g
  BY GroupSet DEF InGroup
<1>6. LocalOK(local) /\ PairedTodo(local)
  BY <1>1, <1>3, <1>4, <1>5 DEF LocalOK, PairedTodo, NeedsRow
<1> QED BY <1>2, <1>3, <1>4, <1>5, <1>6

(* GetVATSummary has read one too. *)
LEMMA FirstSummary ==
    ASSUME NEW seen \in Session, Complete(seen)
    PROVE  LET local == Request("summary", "list", seen)
           IN  /\ local \in Requests /\ LocalOK(local) /\ PairedTodo(local)
               /\ local.op = "summary" /\ local.pc = "list" /\ local.seen = seen
<1>1. seen # Gone BY MarkersAssumption
<1> QED BY <1>1, RequestTyped DEF LocalOK, PairedTodo, NeedsRow, Labels, Ops

(* DeleteSession has read one too. *)
LEMMA FirstDelete ==
    ASSUME NEW seen \in Session, Complete(seen)
    PROVE  LET local == Request("delete", "delete", seen)
           IN  /\ local \in Requests /\ LocalOK(local) /\ PairedTodo(local)
               /\ local.op = "delete" /\ local.pc = "delete" /\ local.seen = seen
<1>1. seen # Gone BY MarkersAssumption
<1> QED BY <1>1, RequestTyped DEF LocalOK, PairedTodo, NeedsRow, Labels, Ops

(* RunReconciliation reads no session and has a record to write. *)
LEMMA FirstBatch ==
    ASSUME NEW t \in Records, NEW n \in 1..MaxRequests
    PROVE  LET local == InGroup([Request("batch", "match", Gone) EXCEPT !.todo = <<t>>],
                                [by |-> "batch", n |-> n])
           IN  /\ local \in Requests /\ LocalOK(local) /\ PairedTodo(local)
               /\ local.op = "batch" /\ local.pc = "match" /\ local.todo = <<t>>
<1>1. PICK base \in Requests : base = Request("batch", "match", Gone)
  BY RequestTyped DEF Labels, Ops
<1>2. base.op = "batch" /\ base.pc = "match" /\ base.seen = Gone /\ base.file = None
  BY <1>1, RequestTyped DEF Labels, Ops
<1>3. PICK g \in Groups : g = [by |-> "batch", n |-> n] /\ g.by = "batch" BY GroupTyped
<1>4. <<t>> \in Seq(Txns) /\ \A i \in DOMAIN <<t>> : <<t>>[i] \in Records BY DEF Txns
<1>5. PICK todo \in Seq(Txns) : todo = <<t>> /\ \A i \in DOMAIN todo : todo[i] \in Records BY <1>4
<1>6. PICK listed \in Requests :
        /\ listed = [base EXCEPT !.todo = todo] /\ listed.op = base.op
        /\ listed.pc = base.pc /\ listed.seen = base.seen /\ listed.file = base.file
        /\ listed.todo = todo
  BY TodoTyped
<1>8. PICK local \in Requests :
        /\ local = InGroup(listed, g) /\ local.op = listed.op
        /\ local.pc = listed.pc /\ local.seen = listed.seen /\ local.file = listed.file
        /\ local.group = g /\ local.todo = todo
  <2>1. PICK local \in Requests :
          /\ local = [listed EXCEPT !.group = g] /\ local.op = listed.op
          /\ local.pc = listed.pc /\ local.seen = listed.seen /\ local.file = listed.file
          /\ local.group = g /\ local.todo = listed.todo
    BY GroupSet
  <2> QED BY <2>1, <1>6 DEF InGroup
<1>7. LocalOK(local) /\ PairedTodo(local)
  BY <1>2, <1>3, <1>5, <1>6, <1>8 DEF LocalOK, PairedTodo, NeedsRow
<1> QED BY <1>1, <1>2, <1>3, <1>5, <1>6, <1>7, <1>8

----
(* What one step of a request does, whichever handler it is of. *)

JobOK(local) ==
    /\ local.txn \notin local.todo
    /\ local.pc # "link" => local.txn = None
    /\ local.pc = "link" => local.txn \in Txns
    /\ local.pc \in {"idle", "list"} => local.todo = {}

LocalInv ==
    /\ session # Gone => Complete(session)
    /\ \A h \in Handlers : LocalOK(req[h]) /\ PairedTodo(req[h])
    /\ \A w \in Workers : JobOK(job[w])

NoRows == [t \in Txns |-> NoRow]

(* A row is imported or classified, or put into a group while it is there; or
   the session goes with its rows. *)
RowChange ==
    \/ UNCHANGED rows
    \/ \E t \in Txns, new \in Row :
          /\ rows' = [rows EXCEPT ![t] = new]
          /\ new.here /\ new.linked = rows[t].linked
          /\ rows[t].here \/ (session # Gone /\ session' # Gone)
          /\ new.group = rows[t].group \/ (rows[t].here /\ new.group # NoGroup)
    \/ session' = Gone /\ rows' = NoRows

SessionChange ==
    /\ session' \in Session \cup {Gone}
    /\ session' # Gone => Complete(session')
    /\ session = Gone => session' = Gone
    /\ session' = Gone => session = Gone \/ rows' = NoRows

Common ==
    /\ RowChange /\ SessionChange
    /\ UNCHANGED <<job, booked>>
    /\ events' \in Nat /\ requests' \in 0..MaxRequests /\ raced' \in BOOLEAN
    /\ faults' \in 0..MaxFaults /\ faults' \in {faults, faults + 1}

Begins(h, local) ==
    /\ req[h].pc = "idle" /\ raced' = (raced \/ \E g \in Handlers : req[g].pc # "idle")
    /\ UNCHANGED <<session, rows>>
    /\ local.op # "batch" => session # Gone /\ local.seen = session
    /\ local.pc = "match" => local.op = "batch"

Continues(h, local) ==
    /\ req[h].pc # "idle" /\ local.pc # "idle" /\ raced' = raced
    /\ local.op = req[h].op /\ local.file = req[h].file /\ local.seen = req[h].seen
    /\ \/ session' = session
       \/ local.op # "batch" /\ session' # Gone /\ session'.files = local.seen.files
    /\ \A t \in Txns : rows'[t].here => rows[t].here \/ t = local.file
    /\ \A t \in Txns : rows[t].here => rows'[t].here
    /\ local.pc = "match" /\ local.op = "reconcile" =>
         \/ UNCHANGED rows /\ \A i \in DOMAIN local.todo : rows[local.todo[i]].here
         \/ /\ req[h].pc = "match"
            /\ \A i \in DOMAIN local.todo :
                 i + 1 \in DOMAIN req[h].todo /\ local.todo[i] = req[h].todo[i + 1]

Ends(h, local) ==
    /\ req[h].pc # "idle" /\ local = Idle /\ raced' = raced
    /\ \/ faults' = faults + 1 /\ UNCHANGED <<session, rows>>
       \/ session' = Gone
       \/ /\ UNCHANGED rows /\ req[h].op # "addFile"
          /\ \/ session' = session
             \/ req[h].op # "batch" /\ session'.files = req[h].seen.files
       \/ /\ UNCHANGED rows /\ req[h].op = "addFile"
          /\ session'.files = req[h].seen.files \cup {req[h].file}

(* No group is written. *)
Quiet(h, local) ==
    /\ rows' = NoRows \/ \A t \in Txns : rows'[t].group = rows[t].group
    /\ req[h].pc = "match" /\ req[h].op = "reconcile" /\ req[h].todo # <<>> => faults' = faults + 1
    /\ local.pc = "match" /\ local.op = "reconcile" /\ local.todo # <<>> =>
         Head(local.todo) \in Records

Takes(h, local) ==
    /\ Is(h, local) /\ LocalOK(local) /\ PairedTodo(local)
    /\ Common
    /\ Begins(h, local) \/ Continues(h, local) \/ Ends(h, local)
    /\ WriteMatch(h) \/ Quiet(h, local)

(* A request that begins changes nothing but its own state. *)
LEMMA BeginStep ==
    ASSUME TypeOK, LocalInv, NEW h \in Handlers, NEW local \in Requests,
           LocalOK(local), PairedTodo(local), Begin(h, local),
           local.op # "batch" => session # Gone /\ local.seen = session,
           local.pc = "match" => local.op = "batch"
    PROVE  Takes(h, local)
<1>1. /\ req[h].pc = "idle" /\ raced' = (raced \/ \E g \in Handlers : req[g].pc # "idle")
      /\ UNCHANGED <<session, rows, events, job, booked, faults>>
      /\ requests < MaxRequests /\ requests' = requests + 1
      /\ Is(h, local)
  BY DEF Begin, Count
<1>2. RowChange /\ SessionChange BY <1>1 DEF RowChange, SessionChange, TypeOK, LocalInv
<1>3. events' \in Nat /\ raced' \in BOOLEAN /\ faults' \in 0..MaxFaults /\ faults' \in {faults, faults + 1}
  BY <1>1 DEF TypeOK
<1>4. requests' \in 0..MaxRequests BY <1>1, ReconAssumption DEF TypeOK
<1>5. Common BY <1>1, <1>2, <1>3, <1>4 DEF Common
<1>6. Begins(h, local) BY <1>1 DEF Begins
<1>7. Quiet(h, local) BY <1>1 DEF Quiet
<1> QED BY <1>1, <1>5, <1>6, <1>7 DEF Takes

(* A step that moves no counter. *)
LEMMA CommonStep ==
    ASSUME TypeOK, LocalInv, RowChange, SessionChange,
           UNCHANGED <<events, job, booked, requests, raced>>,
           UNCHANGED faults \/ Fault
    PROVE  Common
<1>1. events \in Nat /\ requests \in 0..MaxRequests /\ faults \in 0..MaxFaults /\ raced \in BOOLEAN
  BY DEF TypeOK
<1>2. faults' \in 0..MaxFaults /\ faults' \in {faults, faults + 1}
  BY <1>1, ReconAssumption DEF Fault
<1> QED BY <1>1, <1>2 DEF Common

(* The row written back is complete whenever what was read was. *)
LEMMA WriteRowStep ==
    ASSUME TypeOK, NEW row \in Session, WriteRow(row), Complete(row), UNCHANGED rows
    PROVE  SessionChange /\ RowChange /\ (session' # Gone => session' = row)
<1>1. session' = IF session = Gone THEN Gone ELSE row BY DEF WriteRow
<1> QED BY <1>1, MarkersAssumption DEF SessionChange, RowChange, TypeOK

(* A request that ends leaves no state of its own. *)
LEMMA EndStep ==
    ASSUME TypeOK, LocalInv, NEW h \in Handlers, req[h].pc # "idle", Finish(h), Common,
           raced' = raced,
           \/ faults' = faults + 1 /\ UNCHANGED <<session, rows>>
           \/ session' = Gone /\ rows' = NoRows
           \/ /\ UNCHANGED rows /\ req[h].op # "addFile"
              /\ session' \in {session, Gone} \/ session'.files = req[h].seen.files
           \/ /\ UNCHANGED rows /\ req[h].op = "addFile"
              /\ session' = Gone \/ session'.files = req[h].seen.files \cup {req[h].file},
           req[h].op = "batch" => session' = session,
           req[h].pc = "match" /\ req[h].op = "reconcile" => req[h].todo = <<>> \/ faults' = faults + 1
    PROVE  Takes(h, Idle)
<1>1. Is(h, Idle) /\ LocalOK(Idle) /\ PairedTodo(Idle) /\ Idle.pc = "idle"
  BY IdleOK, IdleTyped DEF Finish
<1>2. Ends(h, Idle) BY DEF Ends
<1>3. Quiet(h, Idle) BY <1>1 DEF Quiet
<1> QED BY <1>1, <1>2, <1>3 DEF Takes

(* AddFile to Delete: what a request begins with. *)
LEMMA Beginnings ==
    ASSUME TypeOK, LocalInv, NEW h \in Handlers,
           \/ \E t \in Txns : AddFile(h, t) \/ RunReconciliation(h, t)
           \/ \E force \in BOOLEAN : Classify(h, force)
           \/ GetVATSummary(h) \/ Reconcile(h) \/ Delete(h)
    PROVE  \E local \in Requests : Takes(h, local)
<1>1. session # Gone => session \in Session /\ Complete(session) BY DEF TypeOK, LocalInv
<1>2. requests < MaxRequests => requests + 1 \in 1..MaxRequests BY ReconAssumption DEF TypeOK
<1>3. ASSUME NEW t \in Txns, AddFile(h, t) PROVE  \E local \in Requests : Takes(h, local)
  <2>1. session # Gone /\ Begin(h, [Request("addFile", "import", session) EXCEPT !.file = t])
    BY <1>3 DEF AddFile
  <2>2. PICK local \in Requests :
          /\ local = [Request("addFile", "import", session) EXCEPT !.file = t]
          /\ LocalOK(local) /\ PairedTodo(local)
          /\ local.op = "addFile" /\ local.pc = "import" /\ local.seen = session
    BY <1>1, <2>1, FirstAddFile
  <2>3. Begin(h, local) BY <2>1, <2>2
  <2> QED BY <2>1, <2>2, <2>3, BeginStep
<1>4. ASSUME NEW t \in Txns, RunReconciliation(h, t) PROVE  \E local \in Requests : Takes(h, local)
  <2> DEFINE first(n) == InGroup([Request("batch", "match", Gone) EXCEPT !.todo = <<t>>],
                                 [by |-> "batch", n |-> n])
  <2>1. t \in Records /\ Begin(h, first(requests + 1)) BY <1>4 DEF RunReconciliation
  <2>2. PICK n \in 1..MaxRequests : n = requests + 1 BY <1>2, <2>1 DEF Begin, Count
  <2>3. PICK local \in Requests :
          /\ local = first(n) /\ LocalOK(local) /\ PairedTodo(local)
          /\ local.op = "batch" /\ local.pc = "match"
    BY <2>1, FirstBatch
  <2>4. Begin(h, local) BY <2>1, <2>2, <2>3
  <2> QED BY <2>3, <2>4, BeginStep
<1>5. ASSUME NEW force \in BOOLEAN, Classify(h, force)
      PROVE  \E local \in Requests : Takes(h, local)
  <2>1. session # Gone /\ Begin(h, [Request("classify", "list", session) EXCEPT !.force = force])
    BY <1>5 DEF Classify
  <2>2. PICK local \in Requests :
          /\ local = [Request("classify", "list", session) EXCEPT !.force = force]
          /\ LocalOK(local) /\ PairedTodo(local)
          /\ local.op = "classify" /\ local.pc = "list" /\ local.seen = session
    BY <1>1, <2>1, FirstClassify
  <2>3. Begin(h, local) BY <2>1, <2>2
  <2> QED BY <2>1, <2>2, <2>3, BeginStep
<1>6. ASSUME GetVATSummary(h) PROVE \E local \in Requests : Takes(h, local)
  <2>1. session # Gone /\ Begin(h, Request("summary", "list", session)) BY <1>6 DEF GetVATSummary
  <2>2. PICK local \in Requests :
          /\ local = Request("summary", "list", session)
          /\ LocalOK(local) /\ PairedTodo(local)
          /\ local.op = "summary" /\ local.pc = "list" /\ local.seen = session
    BY <1>1, <2>1, FirstSummary
  <2>3. Begin(h, local) BY <2>1, <2>2
  <2> QED BY <2>1, <2>2, <2>3, BeginStep
<1>7. ASSUME Reconcile(h) PROVE \E local \in Requests : Takes(h, local)
  <2> DEFINE first(n) == InGroup(Request("reconcile", "list", session), [by |-> "session", n |-> n])
  <2>1. session # Gone /\ Begin(h, first(requests + 1)) BY <1>7 DEF Reconcile
  <2>2. PICK n \in 1..MaxRequests : n = requests + 1 BY <1>2, <2>1 DEF Begin, Count
  <2>3. PICK local \in Requests :
          /\ local = first(n) /\ LocalOK(local) /\ PairedTodo(local)
          /\ local.op = "reconcile" /\ local.pc = "list" /\ local.seen = session
    BY <1>1, <2>1, FirstReconcile
  <2>4. Begin(h, local) BY <2>1, <2>2, <2>3
  <2> QED BY <2>1, <2>3, <2>4, BeginStep
<1>8. ASSUME Delete(h) PROVE \E local \in Requests : Takes(h, local)
  <2>1. session # Gone /\ Begin(h, Request("delete", "delete", session)) BY <1>8 DEF Delete
  <2>2. PICK local \in Requests :
          /\ local = Request("delete", "delete", session)
          /\ LocalOK(local) /\ PairedTodo(local)
          /\ local.op = "delete" /\ local.pc = "delete" /\ local.seen = session
    BY <1>1, <2>1, FirstDelete
  <2>3. Begin(h, local) BY <2>1, <2>2
  <2> QED BY <2>1, <2>2, <2>3, BeginStep
<1> QED BY <1>3, <1>4, <1>5, <1>6, <1>7, <1>8

(* The row is written back and the request ends. *)
LEMMA WritesBack ==
    ASSUME TypeOK, LocalInv, NEW h \in Handlers,
           WriteFiles(h) \/ WriteReviewing(h) \/ WriteSummary(h) \/ WriteCompleted(h)
    PROVE  Takes(h, Idle)
<1>1. PICK seen : seen = req[h].seen OBVIOUS
<1>2. PICK op : op = req[h].op OBVIOUS
<1>3. req[h] \in Requests /\ LocalOK(req[h]) BY DEF TypeOK, LocalInv
<1>4. /\ Finish(h) /\ UNCHANGED <<rows, events, job, booked, requests, faults, raced>>
      /\ req[h].pc # "idle" /\ NeedsRow(req[h])
  BY DEF WriteFiles, WriteReviewing, WriteSummary, WriteCompleted, aux, NeedsRow
<1>5. seen \in Session /\ Complete(seen) BY <1>1, <1>3, <1>4 DEF LocalOK, Requests
<1>6. PICK row \in Session :
        /\ WriteRow(row) /\ Complete(row)
        /\ op # "addFile" => row.files = seen.files
        /\ op = "addFile" => row.files = seen.files \cup {req[h].file}
  <2>1. CASE WriteFiles(h)
    <3>1. WriteRow(WithFile(seen, req[h].file)) /\ op = "addFile" /\ req[h].file \in Txns
      BY <2>1, <1>1, <1>2, <1>3 DEF WriteFiles, LocalOK
    <3>2. PICK row \in Session :
            /\ row = WithFile(seen, req[h].file) /\ row.files = seen.files \cup {req[h].file}
            /\ row.status = seen.status /\ row.summary = seen.summary /\ row.result = seen.result
      BY <3>1, <1>5, FileWritten
    <3> QED BY <3>1, <3>2, <1>5 DEF Complete
  <2>2. CASE WriteReviewing(h)
    <3>1. WriteRow(WithStatus(seen, "reviewing")) /\ op # "addFile"
      BY <2>2, <1>1, <1>2, <1>3 DEF WriteReviewing, LocalOK
    <3>2. PICK row \in Session :
            row = WithStatus(seen, "reviewing") /\ row.files = seen.files /\ row.status = "reviewing"
      BY <1>5, StatusWritten
    <3> QED BY <3>1, <3>2 DEF Complete
  <2>3. CASE WriteSummary(h)
    <3>1. PICK list \in SUBSET Txns : list = req[h].list BY <1>3 DEF Requests
    <3>2. WriteRow(WithSummary(seen, list)) /\ op # "addFile"
      BY <2>3, <3>1, <1>1, <1>2, <1>3 DEF WriteSummary, LocalOK
    <3>3. PICK row \in Session :
            /\ row = WithSummary(seen, list) /\ row.files = seen.files
            /\ row.status = seen.status /\ row.summary = list /\ row.result = seen.result
      BY <1>5, SummaryWritten
    <3> QED BY <3>2, <3>3, <1>5, MarkersAssumption DEF Complete
  <2>4. CASE WriteCompleted(h)
    <3>1. PICK list \in SUBSET Txns : list = req[h].list BY <1>3 DEF Requests
    <3>2. WriteRow(Completed(seen, list)) /\ op # "addFile" /\ list # {}
      BY <2>4, <3>1, <1>1, <1>2, <1>3 DEF WriteCompleted, LocalOK
    <3>3. PICK row \in Session :
            /\ row = Completed(seen, list) /\ row.files = seen.files
            /\ row.summary = list /\ row.result = list
      BY <1>5, CompletedWritten
    <3> QED BY <3>2, <3>3, MarkersAssumption DEF Complete
  <2> QED BY <2>1, <2>2, <2>3, <2>4
<1>7. SessionChange /\ RowChange /\ (session' # Gone => session' = row) BY <1>4, <1>6, WriteRowStep
<1>8. Common BY <1>4, <1>7, CommonStep
<1>9. op # "batch" BY <1>2, <1>3, <1>4 DEF NeedsRow, LocalOK
<1>10. req[h].pc = "match" /\ req[h].op = "reconcile" => req[h].todo = <<>>
  BY DEF WriteFiles, WriteReviewing, WriteSummary, WriteCompleted
<1> QED BY <1>1, <1>2, <1>4, <1>6, <1>7, <1>8, <1>9, <1>10, EndStep

(* One row is changed. *)
LEMMA OneRow ==
    ASSUME TypeOK, NEW t \in Txns, NEW new \in Row, rows' = [rows EXCEPT ![t] = new],
           new.here, new.linked = rows[t].linked,
           rows[t].here \/ (session # Gone /\ session' # Gone),
           new.group = rows[t].group \/ (rows[t].here /\ new.group # NoGroup)
    PROVE  /\ RowChange
           /\ rows'[t] = new
           /\ \A u \in Txns : u # t => rows'[u] = rows[u]
           /\ \A u \in Txns : rows'[u].here => rows[u].here \/ u = t
           /\ \A u \in Txns : rows[u].here => rows'[u].here
           /\ new.group = rows[t].group => \A u \in Txns : rows'[u].group = rows[u].group
<1>1. rows \in [Txns -> Row] BY DEF TypeOK
<1>2. rows'[t] = new /\ \A u \in Txns : u # t => rows'[u] = rows[u] BY <1>1
<1>3. RowChange BY DEF RowChange
<1> QED BY <1>2, <1>3

(* A session that is not written stays as it was. *)
LEMMA SameSession ==
    ASSUME TypeOK, LocalInv, session' = session
    PROVE  SessionChange
BY DEF TypeOK, LocalInv, SessionChange

(* The steps of AddFile. *)
LEMMA Imports ==
    ASSUME TypeOK, LocalInv, NEW h \in Handlers, Import(h)
    PROVE  Takes(h, At(req[h], "files"))
<1>1. PICK old \in Requests : old = req[h] /\ LocalOK(old) /\ PairedTodo(old)
  BY DEF TypeOK, LocalInv
<1>2. PICK new \in Requests :
        /\ new = At(old, "files") /\ new.pc = "files" /\ new.op = old.op
        /\ new.file = old.file /\ new.seen = old.seen /\ new.group = old.group
  BY AtTyped DEF Labels
<1>3. old.pc = "import" /\ old.op = "addFile" /\ old.file \in Txns BY <1>1 DEF Import, LocalOK
<1>4. LocalOK(new) /\ PairedTodo(new) BY <1>1, <1>2, <1>3 DEF LocalOK, PairedTodo, NeedsRow
<1>5. Is(h, new) /\ UNCHANGED <<session, events, job, booked, requests, raced>>
  BY <1>1, <1>2 DEF Import, GoTo
<1>6. /\ UNCHANGED faults \/ Fault
      /\ \/ session # Gone /\ rows' = [rows EXCEPT ![old.file] = Imported(@)]
         \/ UNCHANGED rows
  BY <1>1 DEF Import
<1>7. /\ RowChange
      /\ \A u \in Txns : rows'[u].here => rows[u].here \/ u = old.file
      /\ \A u \in Txns : rows[u].here => rows'[u].here
      /\ \A u \in Txns : rows'[u].group = rows[u].group
  <2>1. CASE UNCHANGED rows BY <2>1 DEF RowChange
  <2>2. CASE session # Gone /\ rows' = [rows EXCEPT ![old.file] = Imported(@)]
    <3>1. PICK t \in Txns : t = old.file BY <1>3
    <3>2. rows[t] \in Row BY DEF TypeOK
    <3>3. PICK row \in Row :
            /\ row = Imported(rows[t]) /\ row.here
            /\ row.group = rows[t].group /\ row.linked = rows[t].linked
      BY <3>2, RowsTyped
    <3>4. rows' = [rows EXCEPT ![t] = row] BY <2>2, <3>1, <3>3
    <3>5. /\ row.here /\ row.linked = rows[t].linked
          /\ rows[t].here \/ (session # Gone /\ session' # Gone)
          /\ row.group = rows[t].group \/ (rows[t].here /\ row.group # NoGroup)
      BY <2>2, <3>3, <1>5
    <3>6. /\ RowChange
          /\ \A u \in Txns : rows'[u].here => rows[u].here \/ u = t
          /\ \A u \in Txns : rows[u].here => rows'[u].here
          /\ row.group = rows[t].group => \A u \in Txns : rows'[u].group = rows[u].group
      BY <3>4, <3>5, OneRow
    <3> QED BY <3>1, <3>3, <3>6
  <2> QED BY <1>6, <2>1, <2>2
<1>8. Common BY <1>5, <1>6, <1>7, SameSession, CommonStep
<1>9. Continues(h, new) BY <1>1, <1>2, <1>3, <1>5, <1>7 DEF Continues
<1>10. Quiet(h, new) BY <1>1, <1>2, <1>3, <1>7 DEF Quiet
<1> QED BY <1>1, <1>2, <1>4, <1>5, <1>8, <1>9, <1>10 DEF Takes

(* The steps of ClassifySession. *)
LEMMA Classifies ==
    ASSUME TypeOK, LocalInv, NEW h \in Handlers, MarkClassifying(h) \/ ClassifyRow(h)
    PROVE  \E local \in Requests : Takes(h, local)
<1>1. PICK old \in Requests : old = req[h] /\ LocalOK(old) /\ PairedTodo(old)
  BY DEF TypeOK, LocalInv
<1>2. CASE MarkClassifying(h)
  <2>1. PICK new \in Requests :
          /\ new = At(old, "classify") /\ new.pc = "classify" /\ new.op = old.op
          /\ new.file = old.file /\ new.seen = old.seen /\ new.group = old.group
    BY AtTyped DEF Labels
  <2>2. old.pc = "mark" /\ old.seen # Gone BY <1>1, <1>2 DEF MarkClassifying, LocalOK, NeedsRow
  <2>3. old.op \notin {"batch", "none", "addFile"} BY <1>1, <2>2 DEF LocalOK
  <2>4. LocalOK(new) /\ PairedTodo(new) BY <1>1, <2>1, <2>2, <2>3 DEF LocalOK, PairedTodo, NeedsRow
  <2>5. /\ Is(h, new) /\ UNCHANGED <<rows, events, job, booked, requests, faults, raced>>
        /\ WriteRow(WithStatus(old.seen, "classifying"))
    BY <1>1, <1>2, <2>1 DEF MarkClassifying, GoTo, aux
  <2>6. old.seen \in Session BY <2>2 DEF Requests
  <2>7. PICK row \in Session :
          /\ row = WithStatus(old.seen, "classifying") /\ row.files = old.seen.files
          /\ row.status = "classifying"
    BY <2>6, StatusWritten
  <2>8. SessionChange /\ RowChange /\ (session' # Gone => session' = row)
    BY <2>5, <2>7, WriteRowStep DEF Complete
  <2>9. session' = Gone => session' = session BY <2>5, <2>7, MarkersAssumption DEF WriteRow
  <2>10. Common BY <2>5, <2>8, CommonStep
  <2>11. Continues(h, new) BY <1>1, <2>1, <2>2, <2>3, <2>5, <2>7, <2>8, <2>9 DEF Continues
  <2>12. Quiet(h, new) BY <1>1, <2>1, <2>2, <2>5 DEF Quiet
  <2> QED BY <2>4, <2>5, <2>10, <2>11, <2>12 DEF Takes
<1>3. CASE ClassifyRow(h)
  <2>1. old.pc = "classify" /\ old.todo # <<>> BY <1>1, <1>3 DEF ClassifyRow
  <2>2. PICK new \in Requests :
          /\ new = Rest(old) /\ new.pc = "classify" /\ new.op = old.op
          /\ new.file = old.file /\ new.seen = old.seen /\ new.group = old.group
    BY <2>1, RestTyped
  <2>3. LocalOK(new) /\ PairedTodo(new) BY <1>1, <2>1, <2>2 DEF LocalOK, PairedTodo, NeedsRow
  <2>4. PICK t \in Txns : t = Head(old.todo) BY <2>1, RestOfWrites DEF Requests
  <2>5. /\ Is(h, new) /\ UNCHANGED <<session, events, job, booked, requests, faults, raced>>
        /\ rows' = IF rows[t].here THEN [rows EXCEPT ![t] = Classed(@, "ai")] ELSE rows
    BY <1>1, <1>3, <2>2, <2>4 DEF ClassifyRow, aux
  <2>6. /\ RowChange
        /\ \A u \in Txns : rows'[u].here => rows[u].here
        /\ \A u \in Txns : rows[u].here => rows'[u].here
        /\ \A u \in Txns : rows'[u].group = rows[u].group
    <3>1. CASE UNCHANGED rows BY <3>1 DEF RowChange
    <3>2. CASE rows[t].here /\ rows' = [rows EXCEPT ![t] = Classed(@, "ai")]
      <4>1. rows[t] \in Row BY DEF TypeOK
      <4>2. PICK row \in Row :
              /\ row = Classed(rows[t], "ai") /\ row.here = rows[t].here
              /\ row.group = rows[t].group /\ row.linked = rows[t].linked
        BY <4>1, ClassedTyped
      <4>3. rows' = [rows EXCEPT ![t] = row] BY <3>2, <4>2
      <4>4. /\ row.here /\ row.linked = rows[t].linked
            /\ rows[t].here \/ (session # Gone /\ session' # Gone)
            /\ row.group = rows[t].group \/ (rows[t].here /\ row.group # NoGroup)
        BY <3>2, <4>2
      <4>5. /\ RowChange
            /\ \A u \in Txns : rows'[u].here => rows[u].here \/ u = t
            /\ \A u \in Txns : rows[u].here => rows'[u].here
            /\ row.group = rows[t].group => \A u \in Txns : rows'[u].group = rows[u].group
        BY <4>3, <4>4, OneRow
      <4> QED BY <3>2, <4>2, <4>5
    <3> QED BY <2>5, <3>1, <3>2
  <2>7. Common BY <2>5, <2>6, SameSession, CommonStep
  <2>8. Continues(h, new) BY <1>1, <2>1, <2>2, <2>5, <2>6 DEF Continues
  <2>9. Quiet(h, new) BY <1>1, <2>1, <2>2, <2>6 DEF Quiet
  <2> QED BY <2>3, <2>5, <2>7, <2>8, <2>9 DEF Takes
<1> QED BY <1>2, <1>3

(* Requests that end without writing the session's row. *)
LEMMA JustEnds ==
    ASSUME TypeOK, LocalInv, NEW h \in Handlers,
           ClassifierFails(h) \/ Publish(h) \/ DeleteRow(h) \/ RequestDies(h)
    PROVE  Takes(h, Idle)
<1>1. PICK old \in Requests : old = req[h] /\ LocalOK(old) BY DEF TypeOK, LocalInv
<1>2. CASE ClassifierFails(h) \/ RequestDies(h)
  BY <1>2, SameSession, CommonStep, EndStep DEF ClassifierFails, RequestDies, RowChange, Fault
<1>3. CASE Publish(h)
  <2>1. /\ Finish(h) /\ UNCHANGED <<session, rows, job, booked, requests, raced>>
        /\ old.pc = "match" /\ old.op = "batch" /\ old.todo = <<>>
        /\ \/ events' = events + 1 /\ UNCHANGED faults
           \/ Fault /\ UNCHANGED events
    BY <1>1, <1>3 DEF Publish
  <2>2. RowChange /\ SessionChange BY <2>1, SameSession DEF RowChange
  <2>3. CASE UNCHANGED events
    BY <2>1, <2>2, <2>3, CommonStep, <1>1, EndStep
  <2>4. CASE events' = events + 1 /\ UNCHANGED faults
    BY <2>1, <2>2, <2>4, <1>1, EndStep DEF TypeOK, Common
  <2> QED BY <2>1, <2>3, <2>4
<1>4. CASE DeleteRow(h)
  BY <1>1, <1>4, CommonStep, EndStep DEF DeleteRow, NoRows, aux, RowChange, SessionChange, LocalOK
<1> QED BY <1>2, <1>3, <1>4

(* The list of rows, and the request that ends with it. *)
LEMMA Lists ==
    ASSUME TypeOK, LocalInv, NEW h \in Handlers, ListRows(h)
    PROVE  \E local \in Requests : Takes(h, local)
<1>1. PICK old \in Requests : old = req[h] /\ LocalOK(old) BY DEF TypeOK, LocalInv
<1>2. /\ old.pc = "list" /\ old.seen # Gone /\ old.op \notin {"none", "addFile", "batch"}
      /\ UNCHANGED <<session, rows, events, job, booked, requests, faults, raced>>
  BY <1>1 DEF ListRows, LocalOK, NeedsRow, aux
<1>3. RowChange /\ SessionChange /\ Common
  BY <1>2, SameSession, CommonStep DEF RowChange
<1>4. PICK here \in SUBSET Txns : here = Here /\ \A t \in here : rows[t].here
  <2>1. Here \in SUBSET Txns /\ \A t \in Here : rows[t].here BY DEF Here
  <2> QED BY <2>1
(* A request that goes on from its list. *)
<1>5. ASSUME NEW pc \in {"mark", "summary", "match"}, NEW todo \in Seq(Txns),
             Is(h, Listed(req[h], pc, todo)),
             pc = "match" <=> old.op = "reconcile",
             pc = "match" => /\ here # {} /\ RecordsBeforeEntries(todo)
                             /\ \A i \in DOMAIN todo : rows[todo[i]].here
                             /\ todo # <<>> => Head(todo) \in Records
      PROVE  \E local \in Requests : Takes(h, local)
  <2>1. PICK new \in Requests :
          /\ new = Listed(old, pc, todo) /\ new.pc = pc /\ new.op = old.op
          /\ new.file = old.file /\ new.seen = old.seen /\ new.group = old.group
          /\ new.list = here /\ new.todo = todo
    <3>1. pc \in Labels BY DEF Labels
    <3>2. /\ Listed(old, pc, todo) \in Requests /\ Listed(old, pc, todo).pc = pc
          /\ Listed(old, pc, todo).op = old.op /\ Listed(old, pc, todo).file = old.file
          /\ Listed(old, pc, todo).seen = old.seen /\ Listed(old, pc, todo).list = Here
          /\ Listed(old, pc, todo).todo = todo /\ Listed(old, pc, todo).group = old.group
      BY <3>1, ListedTyped
    <3> QED BY <3>2, <1>4
  <2>2. LocalOK(new) BY <1>1, <1>2, <1>5, <2>1 DEF LocalOK, NeedsRow
  <2>3. PairedTodo(new) BY <1>5, <1>2, <2>1 DEF PairedTodo
  <2>4. Is(h, new) BY <1>1, <1>5, <2>1
  <2>5. Continues(h, new) BY <1>1, <1>2, <1>5, <2>1 DEF Continues
  <2>6. Quiet(h, new) BY <1>1, <1>2, <1>5, <2>1 DEF Quiet
  <2> QED BY <1>3, <2>2, <2>3, <2>4, <2>5, <2>6 DEF Takes
<1>6. ASSUME Finish(h) PROVE Takes(h, Idle) BY <1>1, <1>2, <1>3, <1>6, EndStep
<1>7. ASSUME old.op = "classify", NEW S \in SUBSET Txns, Is(h, Listed(req[h], "mark", SetToSeq(S)))
      PROVE  \E local \in Requests : Takes(h, local)
  <2>1. PICK todo \in Seq(Txns) : todo = SetToSeq(S) BY SeqOfSet
  <2> QED BY <1>5, <1>7, <2>1
<1>8. ASSUME old.op = "summary", Is(h, Listed(req[h], "summary", <<>>))
      PROVE  \E local \in Requests : Takes(h, local)
  <2>1. <<>> \in Seq(Txns) /\ \A i \in DOMAIN <<>> : FALSE OBVIOUS
  <2> QED BY <1>5, <1>8, <2>1
<1>9. ASSUME old.op = "reconcile", Here # {}, Is(h, Listed(req[h], "match", MatchWrites(Here)))
      PROVE  \E local \in Requests : Takes(h, local)
  <2>1. PICK todo \in Seq(Txns) :
          /\ todo = MatchWrites(here) /\ RecordsBeforeEntries(todo)
          /\ \A i \in DOMAIN todo : todo[i] \in here
          /\ todo # <<>> => Head(todo) \in Records
    BY MatchWritesPaired
  <2> QED BY <1>4, <1>5, <1>9, <2>1
<1>10. ToClassify(old.force) \in SUBSET Txns BY DEF ToClassify, Here
<1>11. \/ old.op = "classify" /\ Is(h, Listed(req[h], "mark", SetToSeq(ToClassify(old.force))))
       \/ Finish(h)
       \/ old.op = "summary" /\ Is(h, Listed(req[h], "summary", <<>>))
       \/ old.op = "reconcile" /\ Here # {} /\ Is(h, Listed(req[h], "match", MatchWrites(Here)))
  BY <1>1 DEF ListRows
<1> QED BY <1>6, <1>7, <1>8, <1>9, <1>10, <1>11, IdleTyped

(* The writes of both reconciliations. *)
LEMMA Matches ==
    ASSUME TypeOK, LocalInv, NEW h \in Handlers, WriteMatch(h)
    PROVE  Takes(h, Rest(req[h])) /\ Rest(req[h]) \in Requests
<1>1. PICK old \in Requests : old = req[h] /\ LocalOK(old) /\ PairedTodo(old)
  BY DEF TypeOK, LocalInv
<1>2. old.pc = "match" /\ old.todo # <<>> /\ old.todo \in Seq(Txns) BY <1>1 DEF WriteMatch, Requests
<1>3. PICK new \in Requests :
        /\ new = Rest(old) /\ new.pc = "match" /\ new.op = old.op
        /\ new.file = old.file /\ new.seen = old.seen /\ new.group = old.group
        /\ new.list = old.list /\ new.todo = Tail(old.todo)
  BY <1>2, RestTyped
<1>4. PICK rest \in Seq(Txns) :
        /\ rest = Tail(old.todo)
        /\ \A i \in DOMAIN rest : i + 1 \in DOMAIN old.todo /\ rest[i] = old.todo[i + 1]
        /\ RecordsBeforeEntries(old.todo) => RecordsBeforeEntries(rest)
  BY <1>2, RestOfWrites
<1>5. LocalOK(new) BY <1>1, <1>2, <1>3 DEF LocalOK, NeedsRow
<1>6. PairedTodo(new) BY <1>1, <1>2, <1>3, <1>4 DEF PairedTodo
<1>7. PICK t \in Txns : t = Head(old.todo) BY <1>2, RestOfWrites
<1>8. /\ Is(h, new) /\ UNCHANGED <<session, events, job, booked, requests, faults, raced>>
      /\ rows' = IF rows[t].here THEN [rows EXCEPT ![t] = Grouped(@, old.group)] ELSE rows
  BY <1>1, <1>3, <1>7 DEF WriteMatch, aux
<1>9. old.group \in Groups /\ old.group # NoGroup BY <1>1, <1>2 DEF Requests, LocalOK, NoGroup
<1>10. /\ RowChange
       /\ \A u \in Txns : rows'[u].here => rows[u].here
       /\ \A u \in Txns : rows[u].here => rows'[u].here
  <2>1. CASE UNCHANGED rows BY <2>1 DEF RowChange
  <2>2. CASE rows[t].here /\ rows' = [rows EXCEPT ![t] = Grouped(@, old.group)]
    <3>1. rows[t] \in Row BY DEF TypeOK
    <3>2. PICK row \in Row :
            /\ row = Grouped(rows[t], old.group) /\ row.here = rows[t].here
            /\ row.group = old.group /\ row.linked = rows[t].linked
      BY <3>1, <1>9, GroupedTyped
    <3>3. rows' = [rows EXCEPT ![t] = row] BY <2>2, <3>2
    <3>4. /\ row.here /\ row.linked = rows[t].linked
          /\ rows[t].here \/ (session # Gone /\ session' # Gone)
          /\ row.group = rows[t].group \/ (rows[t].here /\ row.group # NoGroup)
      BY <2>2, <3>2, <1>9
    <3>5. /\ RowChange
          /\ \A u \in Txns : rows'[u].here => rows[u].here \/ u = t
          /\ \A u \in Txns : rows[u].here => rows'[u].here
      BY <3>3, <3>4, OneRow
    <3> QED BY <2>2, <3>5
  <2> QED BY <1>8, <2>1, <2>2
<1>11. Common BY <1>8, <1>10, SameSession, CommonStep
<1>12. Continues(h, new) BY <1>1, <1>2, <1>3, <1>4, <1>8, <1>10 DEF Continues
<1> QED BY <1>1, <1>3, <1>5, <1>6, <1>8, <1>11, <1>12 DEF Takes

(* Every step of every handler is of this kind. *)
LEMMA HandlerStep ==
    ASSUME TypeOK, LocalInv, NEW h \in Handlers, Handle(h)
    PROVE  \E local \in Requests : Takes(h, local)
<1>1. CASE \/ \E t \in Txns : AddFile(h, t) \/ RunReconciliation(h, t)
           \/ \E force \in BOOLEAN : Classify(h, force)
           \/ GetVATSummary(h) \/ Reconcile(h) \/ Delete(h)
  BY <1>1, Beginnings
<1>2. CASE Import(h)
  BY AtTyped, <1>2, Imports DEF TypeOK, Labels
<1>3. CASE ListRows(h) BY <1>3, Lists
<1>4. CASE MarkClassifying(h) \/ ClassifyRow(h) BY <1>4, Classifies
<1>5. CASE WriteMatch(h) BY <1>5, Matches
<1>6. CASE WriteFiles(h) \/ WriteReviewing(h) \/ WriteSummary(h) \/ WriteCompleted(h)
  BY <1>6, WritesBack, IdleTyped
<1>7. CASE ClassifierFails(h) \/ Publish(h) \/ DeleteRow(h) \/ RequestDies(h)
  BY <1>7, JustEnds, IdleTyped
<1> QED BY <1>1, <1>2, <1>3, <1>4, <1>5, <1>6, <1>7 DEF Handle

----
(* Types, and what each request and each task knows. *)

LEMMA RowAfter ==
    ASSUME TypeOK, RowChange
    PROVE  /\ rows' \in [Txns -> Row]
           /\ \A u \in Txns :
                \/ rows'[u] = rows[u]
                \/ session' = Gone /\ rows'[u] = NoRow
                \/ /\ rows'[u].here /\ rows'[u].linked = rows[u].linked
                   /\ rows[u].here \/ (session # Gone /\ session' # Gone)
                   /\ rows'[u].group = rows[u].group \/ (rows[u].here /\ rows'[u].group # NoGroup)
<1>1. rows \in [Txns -> Row] BY DEF TypeOK
<1>2. CASE UNCHANGED rows BY <1>1, <1>2
<1>3. CASE session' = Gone /\ rows' = NoRows
  BY <1>3 DEF NoRow, Row, Groups, NoRows
<1>4. ASSUME NEW t \in Txns, NEW new \in Row, rows' = [rows EXCEPT ![t] = new],
             new.here, new.linked = rows[t].linked,
             rows[t].here \/ (session # Gone /\ session' # Gone),
             new.group = rows[t].group \/ (rows[t].here /\ new.group # NoGroup)
      PROVE  /\ rows' \in [Txns -> Row]
             /\ \A u \in Txns :
                  \/ rows'[u] = rows[u]
                  \/ /\ rows'[u].here /\ rows'[u].linked = rows[u].linked
                     /\ rows[u].here \/ (session # Gone /\ session' # Gone)
                     /\ rows'[u].group = rows[u].group \/ (rows[u].here /\ rows'[u].group # NoGroup)
  BY <1>1, <1>4
<1> QED BY <1>2, <1>3, <1>4 DEF RowChange

Tasks == [pc : {"idle", "list", "next", "link"}, todo : SUBSET Txns, txn : Txns \cup {None}]

(* A worker without a task. *)
LEMMA TaskTyped ==
    /\ NoJob \in Tasks /\ JobOK(NoJob)
    /\ NoJob.pc = "idle" /\ NoJob.todo = {} /\ NoJob.txn = None
BY DEF NoJob, Tasks, JobOK

(* So the types and the facts about requests are kept. *)
LEMMA HandlerTypes ==
    ASSUME TypeOK, LocalInv, NEW h \in Handlers, NEW local \in Requests, Takes(h, local)
    PROVE  TypeOK' /\ LocalInv'
<1>1. /\ Is(h, local) /\ LocalOK(local) /\ PairedTodo(local) /\ RowChange /\ SessionChange
      /\ UNCHANGED <<job, booked>>
      /\ events' \in Nat /\ requests' \in 0..MaxRequests /\ raced' \in BOOLEAN
      /\ faults' \in 0..MaxFaults
  BY DEF Takes, Common
<1>2. req' \in [Handlers -> Requests] /\ req'[h] = local /\ \A g \in Handlers : g # h => req'[g] = req[g]
  BY <1>1 DEF Is, TypeOK
<1>3. /\ job' \in [Workers -> [pc : {"idle", "list", "next", "link"}, todo : SUBSET Txns,
                              txn : Txns \cup {None}]]
      /\ booked' \in [Txns -> Nat]
  BY <1>1 DEF TypeOK
<1>4. rows' \in [Txns -> Row] BY <1>1, RowAfter
<1>5. session' = Gone => \A t \in Txns : ~rows'[t].here
  <2>1. session = Gone => \A t \in Txns : ~rows[t].here BY DEF TypeOK, Here
  <2>2. ASSUME rows' = NoRows PROVE \A t \in Txns : ~rows'[t].here BY <2>2 DEF NoRows, NoRow
  <2>3. ASSUME session = Gone, NEW t \in Txns PROVE ~rows'[t].here
    BY <2>1, <2>3, <1>1, RowAfter DEF NoRow
  <2> QED BY <1>1, <2>2, <2>3 DEF SessionChange
<1>6. session' = Gone => Here' = {} BY <1>5 DEF Here
<1>7. TypeOK' BY <1>1, <1>2, <1>3, <1>4, <1>6 DEF TypeOK, SessionChange
<1>8. \A g \in Handlers : LocalOK(req'[g]) /\ PairedTodo(req'[g]) BY <1>1, <1>2 DEF LocalInv
<1>9. \A w \in Workers : JobOK(job'[w]) BY <1>1 DEF LocalInv
<1>10. LocalInv' BY <1>1, <1>8, <1>9 DEF LocalInv, SessionChange
<1> QED BY <1>7, <1>10

(* What a step of the worker does: it lets go of what it holds, lists what is
   matched, creates an entry or links one. *)
Drops(w, local) ==
    /\ UNCHANGED <<rows, booked>>
    /\ local.todo \subseteq job[w].todo /\ local.txn = None
    /\ job[w].txn = None \/ faults' = faults + 1

ListsMatched(w, local) ==
    /\ UNCHANGED <<rows, booked, faults>>
    /\ job[w].todo = {} /\ job[w].txn = None
    /\ local.todo = MatchedWithoutJournal /\ local.txn = None

Creates(w, local, t) ==
    /\ UNCHANGED <<rows, faults>>
    /\ job[w].txn = None /\ t \in job[w].todo
    /\ booked' = [booked EXCEPT ![t] = @ + 1]
    /\ local.todo = job[w].todo \ {t} /\ local.txn = t

Links(w, local, t) ==
    /\ UNCHANGED <<booked, faults>>
    /\ t = job[w].txn /\ local.todo = job[w].todo /\ local.txn = None
    /\ rows' = IF rows[t].here THEN [rows EXCEPT ![t] = LinkedRow(@)] ELSE rows

Works(w, local) ==
    /\ job' = [job EXCEPT ![w] = local] /\ JobOK(local)
    /\ UNCHANGED <<session, req, requests, raced>>
    /\ events' \in Nat /\ faults' \in 0..MaxFaults /\ faults' \in {faults, faults + 1}
    /\ \/ Drops(w, local) \/ ListsMatched(w, local)
       \/ \E t \in Txns : Creates(w, local, t) \/ Links(w, local, t)

(* A task that has been delivered. *)
LEMMA ListTask ==
    LET new == [pc |-> "list", todo |-> {}, txn |-> None]
    IN  new \in Tasks /\ JobOK(new) /\ new.todo = {} /\ new.txn = None
BY DEF Tasks, JobOK

(* A task between two transactions. *)
LEMMA NextTask ==
    ASSUME NEW todo \in SUBSET Txns
    PROVE  LET new == [pc |-> "next", todo |-> todo, txn |-> None]
           IN  new \in Tasks /\ JobOK(new) /\ new.todo = todo /\ new.txn = None
<1>1. None \notin todo BY MarkersAssumption
<1> QED BY <1>1 DEF Tasks, JobOK

(* A task that has booked a transaction and not linked it. *)
LEMMA LinkTask ==
    ASSUME NEW todo \in SUBSET Txns, NEW t \in Txns, t \notin todo
    PROVE  LET new == [pc |-> "link", todo |-> todo, txn |-> t]
           IN  new \in Tasks /\ JobOK(new) /\ new.todo = todo /\ new.txn = t
BY DEF Tasks, JobOK

(* Every step of the worker is of this kind. *)
LEMMA WorkerStep ==
    ASSUME TypeOK, LocalInv, NEW w \in Workers, Deliver(w) \/ TaskStep(w) \/ WorkerDies(w)
    PROVE  \E local \in Tasks : Works(w, local)
<1>1. PICK old \in Tasks : old = job[w] /\ JobOK(old) BY DEF TypeOK, LocalInv, Tasks
<1>2. events \in Nat /\ faults \in 0..MaxFaults BY DEF TypeOK
<1>3. Fault => faults' = faults + 1 /\ faults' \in 0..MaxFaults BY <1>2, ReconAssumption DEF Fault
<1>5. CASE Deliver(w)
  <2>1. PICK new \in Tasks :
          /\ new = [pc |-> "list", todo |-> {}, txn |-> None] /\ JobOK(new)
          /\ new.todo = {} /\ new.txn = None
    BY ListTask
  <2>2. /\ job' = [job EXCEPT ![w] = new] /\ events' = events - 1 /\ events > 0
        /\ UNCHANGED <<session, rows, req, booked, requests, faults, raced>>
        /\ old.pc = "idle"
    BY <1>1, <1>5, <2>1 DEF Deliver, Task, aux
  <2>3. Drops(w, new) BY <1>1, <2>1, <2>2 DEF Drops, JobOK
  <2>4. events' \in Nat /\ faults' \in 0..MaxFaults /\ faults' \in {faults, faults + 1}
    BY <1>2, <2>2
  <2> QED BY <2>1, <2>2, <2>3, <2>4 DEF Works
<1>6. CASE WorkerDies(w)
  <2>1. /\ job' = [job EXCEPT ![w] = NoJob] /\ events' = events + 1 /\ Fault
        /\ UNCHANGED <<session, rows, req, booked, requests, raced>>
    BY <1>6 DEF WorkerDies, EndTask
  <2>2. Drops(w, NoJob) BY <1>3, <2>1, TaskTyped DEF Drops
  <2>3. events' \in Nat /\ faults' \in 0..MaxFaults /\ faults' \in {faults, faults + 1}
    BY <1>2, <1>3, <2>1
  <2> QED BY <2>1, <2>2, <2>3, TaskTyped DEF Works
<1>7. CASE ListMatched(w)
  <2>1. /\ old.pc = "list" /\ old.todo = {} /\ old.txn = None
        /\ UNCHANGED <<session, rows, req, events, booked, requests, raced>>
    BY <1>1, <1>7 DEF ListMatched, JobOK
  <2>2. CASE Task(w, "next", MatchedWithoutJournal, None) /\ UNCHANGED faults
    <3>1. PICK todo \in SUBSET Txns : todo = MatchedWithoutJournal
      <4>1. MatchedWithoutJournal \in SUBSET Txns BY DEF MatchedWithoutJournal
      <4> QED BY <4>1
    <3>2. PICK new \in Tasks :
            /\ new = [pc |-> "next", todo |-> todo, txn |-> None] /\ JobOK(new)
            /\ new.todo = todo /\ new.txn = None
      BY NextTask
    <3>3. job' = [job EXCEPT ![w] = new] BY <2>2, <3>1, <3>2 DEF Task
    <3>4. ListsMatched(w, new) BY <1>1, <2>1, <2>2, <3>1, <3>2 DEF ListsMatched
    <3> QED BY <1>2, <2>1, <2>2, <3>2, <3>3, <3>4 DEF Works
  <2>3. CASE Fault /\ EndTask(w)
    <3>1. job' = [job EXCEPT ![w] = NoJob] BY <2>3 DEF EndTask
    <3>2. Drops(w, NoJob) BY <1>1, <2>1, TaskTyped DEF Drops
    <3> QED BY <1>2, <1>3, <2>1, <2>3, <3>1, <3>2, TaskTyped DEF Works
  <2> QED BY <1>7, <2>2, <2>3 DEF ListMatched
<1>8. ASSUME NEW t \in Txns, CreateEntry(w, t) PROVE  \E local \in Tasks : Works(w, local)
  <2>1. /\ old.pc = "next" /\ old.txn = None /\ t \in old.todo
        /\ UNCHANGED <<session, rows, req, events, requests, raced>>
    BY <1>1, <1>8 DEF CreateEntry, JobOK
  <2>2. PICK todo \in SUBSET Txns : todo = old.todo \ {t} BY DEF Tasks
  <2>3. CASE /\ booked' = [booked EXCEPT ![t] = @ + 1]
             /\ Task(w, "link", job[w].todo \ {t}, t)
             /\ UNCHANGED faults
    <3>1. PICK new \in Tasks :
            /\ new = [pc |-> "link", todo |-> todo, txn |-> t] /\ JobOK(new)
            /\ new.todo = todo /\ new.txn = t
      BY <2>2, LinkTask
    <3>2. job' = [job EXCEPT ![w] = new] BY <1>1, <2>2, <2>3, <3>1 DEF Task
    <3>3. Creates(w, new, t) BY <1>1, <2>1, <2>2, <2>3, <3>1 DEF Creates
    <3> QED BY <1>2, <2>1, <2>3, <3>1, <3>2, <3>3 DEF Works
  <2>4. CASE /\ Fault /\ UNCHANGED booked
             /\ Task(w, "next", job[w].todo \ {t}, None)
    <3>1. PICK new \in Tasks :
            /\ new = [pc |-> "next", todo |-> todo, txn |-> None] /\ JobOK(new)
            /\ new.todo = todo /\ new.txn = None
      BY NextTask
    <3>2. job' = [job EXCEPT ![w] = new] BY <1>1, <2>2, <2>4, <3>1 DEF Task
    <3>3. Drops(w, new) BY <1>1, <2>1, <2>2, <2>4, <3>1 DEF Drops
    <3> QED BY <1>2, <1>3, <2>1, <2>4, <3>1, <3>2, <3>3 DEF Works
  <2> QED BY <1>8, <2>3, <2>4 DEF CreateEntry
<1>9. CASE LinkEntry(w)
  <2>1. PICK t \in Txns : t = old.txn BY <1>1, <1>9 DEF LinkEntry, JobOK
  <2>2. PICK todo \in SUBSET Txns : todo = old.todo BY DEF Tasks
  <2>3. PICK new \in Tasks :
          /\ new = [pc |-> "next", todo |-> todo, txn |-> None] /\ JobOK(new)
          /\ new.todo = todo /\ new.txn = None
    BY NextTask
  <2>4. /\ job' = [job EXCEPT ![w] = new]
        /\ UNCHANGED <<session, req, events, booked, requests, raced>>
        /\ \/ /\ rows' = IF rows[t].here THEN [rows EXCEPT ![t] = LinkedRow(@)] ELSE rows
              /\ UNCHANGED faults
           \/ Fault /\ UNCHANGED rows
    BY <1>1, <1>9, <2>1, <2>2, <2>3 DEF LinkEntry, Task
  <2>5. CASE UNCHANGED faults /\ rows' = IF rows[t].here THEN [rows EXCEPT ![t] = LinkedRow(@)] ELSE rows
    <3>1. Links(w, new, t) BY <1>1, <2>1, <2>2, <2>3, <2>4, <2>5 DEF Links
    <3> QED BY <1>2, <2>3, <2>4, <2>5, <3>1 DEF Works
  <2>6. CASE Fault /\ UNCHANGED rows
    <3>1. Drops(w, new) BY <1>1, <1>3, <2>2, <2>3, <2>4, <2>6 DEF Drops
    <3> QED BY <1>2, <1>3, <2>3, <2>4, <2>6, <3>1 DEF Works
  <2> QED BY <2>4, <2>5, <2>6
<1>10. CASE TaskDone(w)
  <2>1. /\ job' = [job EXCEPT ![w] = NoJob] /\ old.pc = "next"
        /\ UNCHANGED <<session, rows, req, events, booked, requests, faults, raced>>
    BY <1>1, <1>10 DEF TaskDone, EndTask, aux
  <2>2. Drops(w, NoJob) BY <1>1, <2>1, TaskTyped DEF Drops, JobOK
  <2> QED BY <1>2, <2>1, <2>2, TaskTyped DEF Works
<1> QED BY <1>5, <1>6, <1>7, <1>8, <1>9, <1>10 DEF TaskStep

(* The rows after a step of the worker: at most a link is new. *)
LEMMA RowsLinked ==
    ASSUME TypeOK, NEW t \in Txns,
           rows' = IF rows[t].here THEN [rows EXCEPT ![t] = LinkedRow(@)] ELSE rows
    PROVE  /\ rows' \in [Txns -> Row]
           /\ \A u \in Txns : /\ rows'[u].here = rows[u].here
                              /\ rows'[u].group = rows[u].group
                              /\ u # t => rows'[u] = rows[u]
           /\ rows[t].here => rows'[t].linked
           /\ ~rows[t].here => rows' = rows
<1>1. rows \in [Txns -> Row] BY DEF TypeOK
<1>2. CASE ~rows[t].here BY <1>1, <1>2
<1>3. CASE rows[t].here
  <2>1. rows[t] \in Row BY <1>1
  <2>2. PICK row \in Row :
          /\ row = LinkedRow(rows[t]) /\ row.here = rows[t].here
          /\ row.group = rows[t].group /\ row.linked
    BY <2>1, RowsTyped
  <2>3. rows' = [rows EXCEPT ![t] = row] BY <1>3, <2>2
  <2>4. rows' \in [Txns -> Row] /\ rows'[t] = row /\ \A u \in Txns : u # t => rows'[u] = rows[u]
    BY <1>1, <2>3
  <2> QED BY <1>3, <2>2, <2>4
<1> QED BY <1>2, <1>3

(* So the types and the facts about tasks are kept. *)
LEMMA WorkerTypes ==
    ASSUME TypeOK, LocalInv, NEW w \in Workers, NEW local \in Tasks, Works(w, local)
    PROVE  TypeOK' /\ LocalInv'
<1>1. /\ job' = [job EXCEPT ![w] = local] /\ JobOK(local)
      /\ UNCHANGED <<session, req, requests, raced>>
      /\ events' \in Nat /\ faults' \in 0..MaxFaults
  BY DEF Works
<1>2. job' \in [Workers -> Tasks] /\ job'[w] = local /\ \A v \in Workers : v # w => job'[v] = job[v]
  BY <1>1 DEF TypeOK, Tasks
<1>3. booked' \in [Txns -> Nat]
  <2>1. booked \in [Txns -> Nat] BY DEF TypeOK
  <2>2. ASSUME NEW t \in Txns, booked' = [booked EXCEPT ![t] = @ + 1]
        PROVE  booked' \in [Txns -> Nat]
    BY <2>1, <2>2
  <2> QED BY <2>1, <2>2 DEF Works, Drops, ListsMatched, Creates, Links
<1>4. rows' \in [Txns -> Row] /\ \A t \in Txns : rows'[t].here = rows[t].here
  BY RowsLinked DEF TypeOK, Works, Drops, ListsMatched, Creates, Links
<1>5. session = Gone => Here' = {} BY <1>4 DEF TypeOK, Here
<1>6. TypeOK' BY <1>1, <1>2, <1>3, <1>4, <1>5 DEF TypeOK, Tasks
<1>7. \A v \in Workers : JobOK(job'[v]) BY <1>1, <1>2 DEF LocalInv
<1>8. LocalInv' BY <1>1, <1>7 DEF LocalInv
<1> QED BY <1>6, <1>8

(* A user's correction touches the class of one row. *)
LEMMA UpdateStep ==
    ASSUME TypeOK, LocalInv, NEW t \in Txns, UpdateTransaction(t)
    PROVE  /\ TypeOK' /\ LocalInv'
           /\ RowChange /\ UNCHANGED <<session, req, job, booked, faults>>
           /\ raced => raced'
           /\ \A u \in Txns : rows'[u].here = rows[u].here /\ rows'[u].group = rows[u].group
<1>1. /\ rows[t].here /\ rows' = [rows EXCEPT ![t] = Classed(@, "user")]
      /\ UNCHANGED <<session, req, events, job, booked, faults>>
      /\ requests < MaxRequests /\ requests' = requests + 1
      /\ raced' = (raced \/ \E h \in Handlers : req[h].pc # "idle")
  BY DEF UpdateTransaction, Count
<1>2. rows[t] \in Row BY DEF TypeOK
<1>3. PICK row \in Row :
        /\ row = Classed(rows[t], "user") /\ row.here = rows[t].here
        /\ row.group = rows[t].group /\ row.linked = rows[t].linked
  BY <1>2, ClassedTyped
<1>4. rows' = [rows EXCEPT ![t] = row] BY <1>1, <1>3
<1>5. /\ row.here /\ row.linked = rows[t].linked
      /\ rows[t].here \/ (session # Gone /\ session' # Gone)
      /\ row.group = rows[t].group \/ (rows[t].here /\ row.group # NoGroup)
  BY <1>1, <1>3
<1>6. RowChange BY <1>4, <1>5, OneRow
<1>7. rows' \in [Txns -> Row] /\ rows'[t] = row /\ \A u \in Txns : u # t => rows'[u] = rows[u]
  BY <1>4 DEF TypeOK
<1>8. \A u \in Txns : rows'[u].here = rows[u].here /\ rows'[u].group = rows[u].group BY <1>3, <1>7
<1>9. session = Gone => Here' = {} BY <1>8 DEF TypeOK, Here
<1>10. requests' \in 0..MaxRequests /\ raced' \in BOOLEAN BY <1>1, ReconAssumption DEF TypeOK
<1>11. TypeOK' BY <1>1, <1>7, <1>9, <1>10 DEF TypeOK
<1>12. LocalInv' BY <1>1 DEF LocalInv
<1>13. raced => raced' BY <1>1
<1> QED BY <1>1, <1>6, <1>8, <1>11, <1>12, <1>13

----
(* What is booked: an unlinked transaction has at most one entry for each
   task that is linking it and each fault, and the tasks that still have it on
   their list cannot be linking it as well. *)

Touched(t) == \E w \in Workers : t \in job[w].todo \/ job[w].txn = t

RowInv ==
    \A t \in Txns :
      /\ ~rows[t].here => ~rows[t].linked
      /\ session # Gone /\ ~rows[t].here => booked[t] = 0 /\ ~Touched(t)
      /\ rows[t].here /\ (booked[t] > 0 \/ rows[t].linked \/ Touched(t)) => rows[t].group # NoGroup
      /\ rows[t].linked \/ (\E w \in Workers : job[w].txn = t) => booked[t] > 0

(* Requests keep what rows and bookings say of each other. *)
LEMMA RowInvOfRequests ==
    ASSUME TypeOK, TypeOK', RowInv, RowChange, UNCHANGED <<job, booked>>,
           session = Gone => session' = Gone
    PROVE  RowInv'
<1> SUFFICES ASSUME NEW t \in Txns
             PROVE  /\ ~rows'[t].here => ~rows'[t].linked
                    /\ session' # Gone /\ ~rows'[t].here => booked[t] = 0 /\ ~Touched(t)
                    /\ rows'[t].here /\ (booked[t] > 0 \/ rows'[t].linked \/ Touched(t)) =>
                         rows'[t].group # NoGroup
                    /\ rows'[t].linked \/ (\E w \in Workers : job[w].txn = t) => booked[t] > 0
  BY DEF RowInv, Touched
<1>1. /\ ~rows[t].here => ~rows[t].linked
      /\ session # Gone /\ ~rows[t].here => booked[t] = 0 /\ ~Touched(t)
      /\ rows[t].here /\ (booked[t] > 0 \/ rows[t].linked \/ Touched(t)) => rows[t].group # NoGroup
      /\ rows[t].linked \/ (\E w \in Workers : job[w].txn = t) => booked[t] > 0
  BY DEF RowInv
<1>2. booked[t] \in Nat BY DEF TypeOK
<1>3. CASE rows'[t] = rows[t] BY <1>1, <1>3
<1>4. CASE session' = Gone /\ rows'[t] = NoRow
  BY <1>1, <1>4 DEF NoRow
<1>5. CASE /\ rows'[t].here /\ rows'[t].linked = rows[t].linked
           /\ rows[t].here \/ (session # Gone /\ session' # Gone)
           /\ rows'[t].group = rows[t].group \/ (rows[t].here /\ rows'[t].group # NoGroup)
  BY <1>1, <1>2, <1>5
<1> QED BY <1>3, <1>4, <1>5, RowAfter

(* What a task can make of one transaction. *)
LEMMA TaskFacts ==
    ASSUME TypeOK, LocalInv, NEW w \in Workers, NEW local \in Tasks, Works(w, local), NEW t \in Txns
    PROVE  /\ rows'[t].here = rows[t].here /\ rows'[t].group = rows[t].group
           /\ rows'[t].linked => rows[t].linked \/ (rows[t].here /\ job[w].txn = t)
           /\ \/ booked'[t] = booked[t]
              \/ t \in job[w].todo /\ booked'[t] = booked[t] + 1
           /\ (\E v \in Workers : job'[v].txn = t) =>
                 (\E v \in Workers : job[v].txn = t) \/ booked'[t] = booked[t] + 1
           /\ (\E v \in Workers : t \in job'[v].todo \/ job'[v].txn = t) =>
                 Touched(t) \/ (Matched(t) /\ ~rows[t].linked)
<1>1. job'[w] = local /\ \A v \in Workers : v # w => job'[v] = job[v] BY DEF Works, TypeOK
<1>2. t # None BY MarkersAssumption
<1>3. CASE Drops(w, local) BY <1>1, <1>2, <1>3 DEF Drops, Touched
<1>4. CASE ListsMatched(w, local)
  BY <1>1, <1>2, <1>4 DEF MatchedWithoutJournal, ListsMatched, Touched
<1>5. ASSUME NEW u \in Txns, Creates(w, local, u)
      PROVE  /\ UNCHANGED rows
             /\ \/ booked'[t] = booked[t]
                \/ t \in job[w].todo /\ booked'[t] = booked[t] + 1
             /\ (\E v \in Workers : job'[v].txn = t) =>
                   (\E v \in Workers : job[v].txn = t) \/ booked'[t] = booked[t] + 1
             /\ (\E v \in Workers : t \in job'[v].todo \/ job'[v].txn = t) => Touched(t)
  BY <1>5, <1>1 DEF Creates, TypeOK, Touched
<1>6. ASSUME NEW u \in Txns, Links(w, local, u)
      PROVE  /\ rows'[t].here = rows[t].here /\ rows'[t].group = rows[t].group
             /\ rows'[t].linked => rows[t].linked \/ (rows[t].here /\ job[w].txn = t)
             /\ booked' = booked
             /\ (\E v \in Workers : job'[v].txn = t) => \E v \in Workers : job[v].txn = t
             /\ (\E v \in Workers : t \in job'[v].todo \/ job'[v].txn = t) => Touched(t)
  BY <1>6, RowsLinked, <1>1, <1>2 DEF Links, Touched
<1> QED BY <1>3, <1>4, <1>5, <1>6 DEF Works

(* And so do tasks. *)
LEMMA RowInvOfTasks ==
    ASSUME TypeOK, LocalInv, RowInv, NEW w \in Workers, NEW local \in Tasks, Works(w, local)
    PROVE  RowInv'
<1>1. session' = session BY DEF Works
<1> SUFFICES ASSUME NEW t \in Txns
             PROVE  /\ ~rows'[t].here => ~rows'[t].linked
                    /\ session # Gone /\ ~rows'[t].here =>
                         booked'[t] = 0 /\ ~\E v \in Workers : t \in job'[v].todo \/ job'[v].txn = t
                    /\ /\ rows'[t].here
                       /\ \/ booked'[t] > 0 \/ rows'[t].linked
                          \/ \E v \in Workers : t \in job'[v].todo \/ job'[v].txn = t
                       => rows'[t].group # NoGroup
                    /\ rows'[t].linked \/ (\E v \in Workers : job'[v].txn = t) => booked'[t] > 0
  BY <1>1 DEF RowInv, Touched
<1>2. /\ ~rows[t].here => ~rows[t].linked
      /\ session # Gone /\ ~rows[t].here => booked[t] = 0 /\ ~Touched(t)
      /\ rows[t].here /\ (booked[t] > 0 \/ rows[t].linked \/ Touched(t)) => rows[t].group # NoGroup
      /\ rows[t].linked \/ (\E v \in Workers : job[v].txn = t) => booked[t] > 0
  BY DEF RowInv
<1>3. booked[t] \in Nat BY DEF TypeOK
<1>4. t \in job[w].todo \/ job[w].txn = t => Touched(t) BY DEF Touched
<1>5. Matched(t) => rows[t].here /\ rows[t].group # NoGroup BY DEF Matched
<1>6. /\ rows'[t].here = rows[t].here /\ rows'[t].group = rows[t].group
      /\ rows'[t].linked => rows[t].linked \/ (rows[t].here /\ job[w].txn = t)
      /\ \/ booked'[t] = booked[t]
         \/ t \in job[w].todo /\ booked'[t] = booked[t] + 1
      /\ (\E v \in Workers : job'[v].txn = t) =>
            (\E v \in Workers : job[v].txn = t) \/ booked'[t] = booked[t] + 1
      /\ (\E v \in Workers : t \in job'[v].todo \/ job'[v].txn = t) =>
            Touched(t) \/ (Matched(t) /\ ~rows[t].linked)
  BY TaskFacts
<1>7. ~rows'[t].here => ~rows'[t].linked BY <1>2, <1>6
<1>8. session # Gone /\ ~rows'[t].here =>
        booked'[t] = 0 /\ ~\E v \in Workers : t \in job'[v].todo \/ job'[v].txn = t
  BY <1>2, <1>4, <1>5, <1>6
<1>9. ASSUME rows'[t].here,
             \/ booked'[t] > 0 \/ rows'[t].linked
             \/ \E v \in Workers : t \in job'[v].todo \/ job'[v].txn = t
      PROVE  rows'[t].group # NoGroup
  BY <1>2, <1>3, <1>4, <1>5, <1>6, <1>9
<1>10. ASSUME rows'[t].linked \/ (\E v \in Workers : job'[v].txn = t) PROVE  booked'[t] > 0
  BY <1>2, <1>3, <1>6, <1>10
<1> QED BY <1>7, <1>8, <1>9, <1>10

Holders(t) == {w \in Workers : t \in job[w].todo}
Linking(t) == {w \in Workers : job[w].txn = t}

CountInv ==
    \A t \in Txns :
      /\ rows[t].here /\ ~rows[t].linked => booked[t] <= Cardinality(Linking(t)) + faults
      /\ booked[t] + Cardinality(Holders(t)) <= Cardinality(Workers) + faults

(* Counting the members of a set of workers. *)
LEMMA WorkerSets ==
    /\ Cardinality(Workers) \in Nat
    /\ \A S \in SUBSET Workers : IsFiniteSet(S) /\ Cardinality(S) \in Nat
    /\ \A S \in SUBSET Workers, w \in Workers :
         /\ w \notin S => Cardinality(S \cup {w}) = Cardinality(S) + 1
         /\ w \in S => Cardinality(S \ {w}) = Cardinality(S) - 1
    /\ \A S, T \in SUBSET Workers :
         S \cap T = {} => Cardinality(S) + Cardinality(T) <= Cardinality(Workers)
<1>1. IsFiniteSet(Workers) /\ Cardinality(Workers) \in Nat BY ReconAssumption, FS_CardinalityType
<1>2. \A S \in SUBSET Workers :
        IsFiniteSet(S) /\ Cardinality(S) \in Nat /\ Cardinality(S) <= Cardinality(Workers)
  BY <1>1, FS_Subset, FS_CardinalityType
<1>3. ASSUME NEW S \in SUBSET Workers, NEW w \in Workers, w \notin S
      PROVE  Cardinality(S \cup {w}) = Cardinality(S) + 1
  BY <1>2, <1>3, FS_AddElement
<1>4. ASSUME NEW S \in SUBSET Workers, NEW w \in Workers, w \in S
      PROVE  Cardinality(S \ {w}) = Cardinality(S) - 1
  BY <1>2, <1>4, FS_RemoveElement
<1>5. ASSUME NEW S \in SUBSET Workers, NEW T \in SUBSET Workers, S \cap T = {}
      PROVE  Cardinality(S) + Cardinality(T) <= Cardinality(Workers)
  <2>1. IsFiniteSet(S) /\ IsFiniteSet(T) /\ Cardinality(S) \in Nat /\ Cardinality(T) \in Nat BY <1>2
  <2>2. Cardinality(S \cup T) = Cardinality(S) + Cardinality(T)
    <3>1. Cardinality(S \cup T) = Cardinality(S) + Cardinality(T) - Cardinality(S \cap T)
      BY <2>1, FS_Union
    <3>2. Cardinality(S \cap T) = 0 BY <1>5, FS_EmptySet
    <3> QED BY <2>1, <3>1, <3>2
  <2>3. Cardinality(S \cup T) <= Cardinality(Workers) BY <1>2
  <2> QED BY <2>2, <2>3
<1> QED BY <1>1, <1>2, <1>3, <1>4, <1>5

(* Requests book nothing, so the count is kept. *)
LEMMA CountInvOfRequests ==
    ASSUME TypeOK, TypeOK', RowInv, CountInv, RowChange, UNCHANGED <<job, booked>>,
           faults' \in {faults, faults + 1}
    PROVE  CountInv'
<1> SUFFICES ASSUME NEW t \in Txns
             PROVE  /\ rows'[t].here /\ ~rows'[t].linked => booked[t] <= Cardinality(Linking(t)) + faults'
                    /\ booked[t] + Cardinality(Holders(t)) <= Cardinality(Workers) + faults'
  BY DEF CountInv, Linking, Holders
<1>1. /\ booked[t] \in Nat /\ faults \in Nat /\ faults' \in Nat /\ faults' >= faults
      /\ Cardinality(Linking(t)) \in Nat /\ Cardinality(Holders(t)) \in Nat
      /\ Cardinality(Workers) \in Nat
  BY WorkerSets DEF TypeOK, Linking, Holders
<1>2. /\ rows[t].here /\ ~rows[t].linked => booked[t] <= Cardinality(Linking(t)) + faults
      /\ booked[t] + Cardinality(Holders(t)) <= Cardinality(Workers) + faults
  BY DEF CountInv
<1>3. ASSUME rows'[t].here, ~rows'[t].linked PROVE  booked[t] <= Cardinality(Linking(t)) + faults
  <2>1. CASE rows[t].here /\ ~rows[t].linked BY <1>2, <2>1
  <2>2. CASE session # Gone /\ ~rows[t].here BY <1>1, <2>2 DEF RowInv
  <2>3. \/ rows[t].here /\ ~rows[t].linked
        \/ session # Gone /\ ~rows[t].here
    BY <1>3, RowAfter DEF NoRow, RowInv
  <2> QED BY <2>1, <2>2, <2>3
<1> QED BY <1>1, <1>2, <1>3

(* Two sets of workers that differ in one of them at most. *)
LEMMA OneWorker ==
    ASSUME NEW S \in SUBSET Workers, NEW T \in SUBSET Workers, NEW w \in Workers,
           \A v \in Workers : v # w => (v \in T <=> v \in S)
    PROVE  /\ (w \in T <=> w \in S) => Cardinality(T) = Cardinality(S)
           /\ w \in T /\ w \notin S => Cardinality(T) = Cardinality(S) + 1
           /\ w \notin T /\ w \in S => Cardinality(S) = Cardinality(T) + 1
<1>1. CASE w \in T <=> w \in S
  BY <1>1
<1>2. CASE w \in T /\ w \notin S
  <2>1. T = S \cup {w} BY <1>2
  <2>2. Cardinality(S \cup {w}) = Cardinality(S) + 1 BY <1>2, WorkerSets
  <2> QED BY <1>2, <2>1, <2>2
<1>3. CASE w \notin T /\ w \in S
  <2>1. S = T \cup {w} BY <1>3
  <2>2. Cardinality(T \cup {w}) = Cardinality(T) + 1 BY <1>3, WorkerSets
  <2> QED BY <1>3, <2>1, <2>2
<1> QED BY <1>1, <1>2, <1>3

(* A booking takes the transaction from what is left to one task, and a link
   that is lost is a fault: the count is kept. *)
LEMMA CountInvOfTasks ==
    ASSUME TypeOK, TypeOK', LocalInv, RowInv, CountInv,
           NEW w \in Workers, NEW local \in Tasks, Works(w, local)
    PROVE  CountInv'
<1> SUFFICES ASSUME NEW t \in Txns,
                    NEW H \in SUBSET Workers, H = {v \in Workers : t \in job'[v].todo},
                    NEW L \in SUBSET Workers, L = {v \in Workers : job'[v].txn = t}
             PROVE  /\ rows'[t].here /\ ~rows'[t].linked => booked'[t] <= Cardinality(L) + faults'
                    /\ booked'[t] + Cardinality(H) <= Cardinality(Workers) + faults'
  BY DEF CountInv, Linking, Holders
<1> DEFINE H0 == Holders(t)
           L0 == Linking(t)
<1>1. /\ job'[w] = local /\ \A v \in Workers : v # w => job'[v] = job[v]
      /\ JobOK(local) /\ JobOK(job[w]) /\ t # None
  BY MarkersAssumption DEF Works, TypeOK, LocalInv
<1>2. H0 \in SUBSET Workers /\ L0 \in SUBSET Workers /\ H0 \cap L0 = {}
  BY DEF LocalInv, JobOK, Holders, Linking
<1>3. PICK b, f, g, c, h0, l0, h, l \in Nat :
        /\ b = booked[t] /\ f = faults /\ g = faults' /\ c = Cardinality(Workers)
        /\ h0 = Cardinality(H0) /\ l0 = Cardinality(L0)
        /\ h = Cardinality(H) /\ l = Cardinality(L)
  <2>1. booked[t] \in Nat /\ faults \in Nat /\ faults' \in Nat BY DEF TypeOK
  <2> QED BY <2>1, <1>2, WorkerSets
<1>4. g = f \/ g = f + 1 BY <1>3 DEF Works
<1>5. /\ rows[t].here /\ ~rows[t].linked => b <= l0 + f
      /\ b + h0 <= c + f
  BY <1>3 DEF CountInv
<1>6. /\ w \in H0 <=> t \in job[w].todo
      /\ w \in L0 <=> job[w].txn = t
      /\ w \in H <=> t \in local.todo
      /\ w \in L <=> local.txn = t
      /\ \A v \in Workers : v # w => (v \in H <=> v \in H0) /\ (v \in L <=> v \in L0)
  BY <1>1 DEF Holders, Linking
<1> HIDE DEF H0, L0
<1>7. /\ (w \in H <=> w \in H0) => h = h0
      /\ w \in H /\ w \notin H0 => h = h0 + 1
      /\ w \notin H /\ w \in H0 => h0 = h + 1
  BY <1>2, <1>3, <1>6, OneWorker
<1>8. /\ (w \in H <=> w \in H0) => h = h0
      /\ w \in H /\ w \notin H0 => h = h0 + 1
      /\ w \notin H /\ w \in H0 => h0 = h + 1
      /\ (w \in L <=> w \in L0) => l = l0
      /\ w \in L /\ w \notin L0 => l = l0 + 1
      /\ w \notin L /\ w \in L0 => l0 = l + 1
  <2>1. /\ (w \in L <=> w \in L0) => l = l0
        /\ w \in L /\ w \notin L0 => l = l0 + 1
        /\ w \notin L /\ w \in L0 => l0 = l + 1
    BY <1>2, <1>3, <1>6, OneWorker
  <2> QED BY <1>7, <2>1
<1>9. CASE Drops(w, local)
  BY <1>9, <1>1, <1>3, <1>6, <1>4, <1>8, <1>5 DEF Drops
<1>10. CASE ListsMatched(w, local)
  <2>1. /\ rows' = rows /\ booked' = booked /\ faults' = faults
        /\ job[w].todo = {} /\ job[w].txn = None
        /\ local.todo = MatchedWithoutJournal /\ local.txn = None
    BY <1>10 DEF ListsMatched
  <2>2. w \notin L /\ w \notin L0 /\ l = l0 /\ g = f /\ w \notin H0 BY <1>1, <1>3, <1>6, <1>8, <2>1
  <2>3. rows'[t].here /\ ~rows'[t].linked => booked'[t] <= Cardinality(L) + faults'
    BY <1>3, <1>5, <2>1, <2>2
  <2>4. CASE w \notin H BY <1>3, <1>5, <1>8, <2>1, <2>2, <2>4
  <2>5. CASE w \in H
    <3>1. rows[t].here /\ ~rows[t].linked BY <1>6, <2>1, <2>5 DEF MatchedWithoutJournal, Matched
    <3>2. H \cap L0 = {} BY <1>2, <1>6, <2>2
    <3>3. h + l0 <= c BY <1>2, <1>3, <3>2, WorkerSets
    <3> QED BY <1>3, <1>5, <2>1, <2>2, <2>3, <3>1, <3>3
  <2> QED BY <2>4, <2>5
<1>11. ASSUME NEW u \in Txns, Creates(w, local, u)
       PROVE  /\ rows'[t].here /\ ~rows'[t].linked => booked'[t] <= Cardinality(L) + faults'
              /\ booked'[t] + Cardinality(H) <= Cardinality(Workers) + faults'
  <2>1. /\ rows' = rows /\ faults' = faults /\ job[w].txn = None /\ u \in job[w].todo
        /\ booked' = [booked EXCEPT ![u] = @ + 1] /\ booked \in [Txns -> Nat]
        /\ local.todo = job[w].todo \ {u} /\ local.txn = u
    BY <1>11 DEF Creates, TypeOK
  <2>2. w \notin L0 /\ g = f BY <1>1, <1>3, <1>6, <2>1
  <2>3. CASE t = u
    BY <1>6, <2>1, <2>3, <1>8, <2>2, <1>3, <1>5
  <2>4. CASE t # u
    BY <1>6, <2>1, <2>4, <1>8, <2>2, <1>3, <1>5
  <2> QED BY <2>3, <2>4
<1>12. ASSUME NEW u \in Txns, Links(w, local, u)
       PROVE  /\ rows'[t].here /\ ~rows'[t].linked => booked'[t] <= Cardinality(L) + faults'
              /\ booked'[t] + Cardinality(H) <= Cardinality(Workers) + faults'
  BY <1>12, <1>3, <1>6, <1>8, RowsLinked, <1>1, <1>5 DEF Links
<1> QED BY <1>9, <1>10, <1>11, <1>12 DEF Works

----
(* While requests run one at a time, the one in progress has read the list of
   files that is in the session's row, and the transactions that it matches are
   all there. *)

AloneInv ==
    ~raced => \A h \in Handlers : req[h].pc # "idle" =>
      /\ \A g \in Handlers : g # h => req[g].pc = "idle"
      /\ req[h].op # "batch" => session # Gone /\ req[h].seen.files = session.files
      /\ req[h].pc = "match" /\ req[h].op = "reconcile" =>
           \A i \in DOMAIN req[h].todo : rows[req[h].todo[i]].here

(* What is left to write are transactions. *)
LEMMA TodoTxns ==
    ASSUME NEW local \in Requests
    PROVE  \A i \in DOMAIN local.todo : local.todo[i] \in Txns
<1>1. PICK todo \in Seq(Txns) : todo = local.todo BY DEF Requests
<1>2. \A i \in DOMAIN todo : todo[i] \in Txns OBVIOUS
<1> QED BY <1>1, <1>2

(* While requests take turns, a request has read the row that is there. *)
LEMMA AloneOfRequests ==
    ASSUME TypeOK, LocalInv, AloneInv, NEW h \in Handlers, NEW local \in Requests, Takes(h, local)
    PROVE  AloneInv'
<1>1. req'[h] = local /\ \A g \in Handlers : g # h => req'[g] = req[g] BY DEF Takes, Is, TypeOK
<1> SUFFICES ASSUME ~raced', NEW f \in Handlers, req'[f].pc # "idle"
             PROVE  /\ \A g \in Handlers : g # f => req'[g].pc = "idle"
                    /\ req'[f].op # "batch" => session' # Gone /\ req'[f].seen.files = session'.files
                    /\ req'[f].pc = "match" /\ req'[f].op = "reconcile" =>
                         \A i \in DOMAIN req'[f].todo : rows'[req'[f].todo[i]].here
  BY DEF AloneInv
<1>2. ~raced BY DEF Takes, Begins, Continues, Ends
<1>3. CASE Begins(h, local)
  <2>1. \A g \in Handlers : req[g].pc = "idle" BY <1>3 DEF Begins
  <2>2. f = h BY <1>1, <2>1
  <2> QED BY <1>1, <1>3, <2>1, <2>2 DEF Begins
<1>4. CASE Continues(h, local)
  <2>1. /\ \A g \in Handlers : g # h => req[g].pc = "idle"
        /\ req[h].op # "batch" => session # Gone /\ req[h].seen.files = session.files
        /\ req[h].pc = "match" /\ req[h].op = "reconcile" =>
             \A i \in DOMAIN req[h].todo : rows[req[h].todo[i]].here
    BY <1>2, <1>4 DEF AloneInv, Continues
  <2>2. f = h BY <1>1, <2>1
  <2>3. local.op # "batch" => session' # Gone /\ local.seen.files = session'.files
    BY <1>4, <2>1 DEF Continues
  <2>4. ASSUME local.pc = "match", local.op = "reconcile", NEW i \in DOMAIN local.todo
        PROVE  rows'[local.todo[i]].here
    <3>1. PICK t \in Txns : t = local.todo[i] BY TodoTxns
    <3>2. rows[t].here BY <1>4, <2>1, <2>4, <3>1 DEF Continues
    <3> QED BY <1>4, <3>1, <3>2 DEF Continues
  <2> QED BY <1>1, <2>1, <2>2, <2>3, <2>4
<1>5. CASE Ends(h, local)
  BY <1>2, <1>5, IdleTyped, <1>1 DEF AloneInv, Ends
<1> QED BY <1>3, <1>4, <1>5 DEF Takes

(* Neither the user's corrections nor the worker's links are in the way. *)
LEMMA AloneOfOthers ==
    ASSUME TypeOK, AloneInv, UNCHANGED <<session, req>>, raced => raced',
           \A u \in Txns : rows'[u].here = rows[u].here
    PROVE  AloneInv'
<1>1. \A h \in Handlers : \A i \in DOMAIN req[h].todo : req[h].todo[i] \in Txns
  BY TodoTxns DEF TypeOK
<1> QED BY <1>1 DEF AloneInv

(* So the list of files it writes back has lost none. *)
LEMMA FilesOfRequests ==
    ASSUME TypeOK, TypeOK', LocalInv, AloneInv, FilesListedAlone,
           NEW h \in Handlers, NEW local \in Requests, Takes(h, local)
    PROVE  FilesListedAlone'
<1>1. req'[h] = local /\ \A g \in Handlers : g # h => req'[g] = req[g] BY DEF Takes, Is, TypeOK
<1> SUFFICES ASSUME ~raced', faults' = 0, NEW t \in Txns, rows'[t].here
             PROVE  t \in session'.files \/ \E f \in Handlers : req'[f].file = t
  BY DEF FilesListedAlone, Here
<1>2. ~raced BY DEF Takes, Begins, Continues, Ends
<1>3. faults = 0 /\ faults' # faults + 1 BY DEF Takes, Common, TypeOK
<1>4. rows[t].here => t \in session.files \/ \E f \in Handlers : req[f].file = t
  BY <1>2, <1>3 DEF FilesListedAlone, Here
<1>5. \A f \in Handlers : req[f].file = t => req[f].op = "addFile" /\ req[f].pc # "idle"
  BY MarkersAssumption DEF LocalInv, LocalOK
<1>6. req[h].pc # "idle" =>
        /\ \A g \in Handlers : g # h => req[g].pc = "idle"
        /\ req[h].op # "batch" => session # Gone /\ req[h].seen.files = session.files
  BY <1>2 DEF AloneInv
<1>7. CASE Begins(h, local)
  BY <1>7, <1>1, <1>4, <1>5 DEF Begins
<1>8. CASE Continues(h, local)
  BY <1>8, <1>6, <1>1, <1>4 DEF Continues
<1>9. CASE Ends(h, local)
  <2>1. req[h].pc # "idle" /\ session' # Gone BY <1>9 DEF Ends, TypeOK, Here
  <2>2. rows' = rows BY <1>3, <1>9, <2>1 DEF Ends
  <2>3. CASE req[h].op # "addFile"
    BY <1>3, <1>9, <2>1, <2>3, <1>4, <1>5, <1>6, <2>2 DEF Ends
  <2>4. CASE req[h].op = "addFile"
    BY <1>3, <1>9, <2>1, <2>4, <1>4, <1>5, <1>6, <2>2 DEF Ends
  <2> QED BY <2>3, <2>4
<1> QED BY <1>7, <1>8, <1>9 DEF Takes

(* Corrections and tasks neither import nor list. *)
LEMMA FilesOfOthers ==
    ASSUME TypeOK, TypeOK', FilesListedAlone, UNCHANGED <<session, req>>, raced => raced',
           faults' \in {faults, faults + 1}, \A u \in Txns : rows'[u].here = rows[u].here
    PROVE  FilesListedAlone'
<1>1. faults' = 0 => faults = 0 BY DEF TypeOK
<1>2. Here' = Here BY DEF Here
<1> QED BY <1>1, <1>2 DEF FilesListedAlone

----
(* The two sides of a pair.  Between the statement for a record and the one
   for its entry the pair is half written, and the reconciliation that writes
   it is still to write the entry. *)

InMatch(h) == req[h].pc = "match" /\ req[h].op = "reconcile" /\ req[h].todo # <<>>
Whole(p) ==
    "session" \in {rows[p[1]].group.by, rows[p[2]].group.by} =>
        \/ rows[p[1]].group = rows[p[2]].group
        \/ rows[p[1]].group.by = "batch"
Halfway(p) == \E h \in Handlers : InMatch(h) /\ Head(req[h].todo) = p[2]

PairInv ==
    (~raced /\ faults = 0) =>
        /\ \A p \in Pairs : Whole(p) \/ Halfway(p)
        /\ \A h \in Handlers : InMatch(h) /\ Head(req[h].todo) \in Entries =>
             \A p \in Pairs : p[2] = Head(req[h].todo) => rows[p[1]].group = req[h].group

(* A pair is of a record and an entry. *)
LEMMA PairsTyped ==
    \A p \in Pairs : p[1] \in Records /\ p[2] \in Entries /\ p[1] \in Txns /\ p[2] \in Txns
                   /\ p[1] \notin Entries /\ p[2] \notin Records
BY ReconAssumption DEF Txns

(* What the write of a match does. *)
LEMMA MatchFacts ==
    ASSUME TypeOK, LocalInv, NEW h \in Handlers, NEW local \in Requests,
           Is(h, local), WriteMatch(h)
    PROVE  /\ local.pc = "match" /\ local.op = req[h].op /\ local.group = req[h].group
           /\ req[h].pc = "match" /\ req[h].todo # <<>> /\ req[h].todo \in Seq(Txns)
           /\ local.todo = Tail(req[h].todo)
           /\ \A u \in Txns : u # Head(req[h].todo) \/ ~rows[u].here => rows'[u].group = rows[u].group
           /\ \A u \in Txns : u = Head(req[h].todo) /\ rows[u].here => rows'[u].group = req[h].group
<1>1. PICK old \in Requests : old = req[h] BY DEF TypeOK
<1>2. old.pc = "match" /\ old.todo # <<>> /\ old.todo \in Seq(Txns) BY <1>1 DEF WriteMatch, Requests
<1>3. local = Rest(old)
  BY <1>1 DEF Is, WriteMatch, TypeOK
<1>4. local.pc = "match" /\ local.op = old.op /\ local.group = old.group /\ local.todo = Tail(old.todo)
  BY <1>2, <1>3, RestTyped
<1>5. PICK t \in Txns : t = Head(old.todo) BY <1>2, RestOfWrites
<1>6. rows' = IF rows[t].here THEN [rows EXCEPT ![t] = Grouped(@, old.group)] ELSE rows
  BY <1>1, <1>5 DEF WriteMatch
<1>7. old.group \in Groups /\ rows[t] \in Row BY DEF TypeOK, Requests
<1>8. Grouped(rows[t], old.group).group = old.group BY <1>7, GroupedTyped
<1>9. rows[t].here => rows'[t].group = old.group BY <1>6, <1>8 DEF TypeOK
<1>10. \A u \in Txns : u # t \/ ~rows[t].here => rows'[u] = rows[u] BY <1>6 DEF TypeOK
<1> QED BY <1>1, <1>2, <1>4, <1>5, <1>9, <1>10

(* Requests keep pairs whole or write their entry next. *)
LEMMA PairsOfRequests ==
    ASSUME TypeOK, TypeOK', LocalInv, AloneInv, PairInv,
           NEW h \in Handlers, NEW local \in Requests, Takes(h, local)
    PROVE  PairInv'
<1>1. req'[h] = local /\ \A g \in Handlers : g # h => req'[g] = req[g] BY DEF Takes, Is, TypeOK
<1>2. ASSUME NEW g \in Handlers
      PROVE  InMatch(g)' <=> req'[g].pc = "match" /\ req'[g].op = "reconcile" /\ req'[g].todo # <<>>
  BY DEF InMatch
<1> DEFINE WholeAfter(p) ==
        "session" \in {rows'[p[1]].group.by, rows'[p[2]].group.by} =>
            \/ rows'[p[1]].group = rows'[p[2]].group
            \/ rows'[p[1]].group.by = "batch"
      HalfwayAfter(p) == \E g \in Handlers :
            /\ req'[g].pc = "match" /\ req'[g].op = "reconcile" /\ req'[g].todo # <<>>
            /\ Head(req'[g].todo) = p[2]
<1> SUFFICES ASSUME ~raced', faults' = 0
             PROVE  /\ \A p \in Pairs : WholeAfter(p) \/ HalfwayAfter(p)
                    /\ \A g \in Handlers :
                         req'[g].pc = "match" /\ req'[g].op = "reconcile" /\ req'[g].todo # <<>>
                           /\ Head(req'[g].todo) \in Entries =>
                         \A p \in Pairs : p[2] = Head(req'[g].todo) => rows'[p[1]].group = req'[g].group
  BY DEF PairInv, Whole, Halfway, InMatch
<1>3. ~raced /\ faults = 0 /\ faults' # faults + 1
  BY DEF Takes, Begins, Continues, Ends, Common, TypeOK
<1>4. /\ \A p \in Pairs : Whole(p) \/ Halfway(p)
      /\ \A g \in Handlers : InMatch(g) /\ Head(req[g].todo) \in Entries =>
           \A p \in Pairs : p[2] = Head(req[g].todo) => rows[p[1]].group = req[g].group
  BY <1>3 DEF PairInv
(* A reconciliation in progress is the only request. *)
<1>5. ASSUME NEW g \in Handlers, g # h, req[g].pc = "match" PROVE FALSE
  <2>1. req[h].pc = "idle" BY <1>3, <1>5 DEF AloneInv
  <2>2. Begins(h, local) BY <2>1 DEF Takes, Continues, Ends
  <2> QED BY <1>5, <2>2 DEF Begins
<1>6. CASE Quiet(h, local)
  <2>1. ~InMatch(h) BY <1>3, <1>6 DEF Quiet, InMatch
  <2>2. ASSUME NEW p \in Pairs PROVE WholeAfter(p)
    <3>1. Whole(p) BY <1>4, <1>5, <2>1 DEF Halfway, InMatch
    <3>2. CASE rows' = NoRows BY <3>2, PairsTyped DEF NoRows, NoRow, NoGroup
    <3>3. CASE \A u \in Txns : rows'[u].group = rows[u].group BY <3>1, <3>3, PairsTyped DEF Whole
    <3> QED BY <1>6, <3>2, <3>3 DEF Quiet
  <2>3. ASSUME NEW g \in Handlers, req'[g].pc = "match", req'[g].op = "reconcile", req'[g].todo # <<>>
        PROVE  Head(req'[g].todo) \in Records
    BY <1>1, <1>5, <1>6, <2>3 DEF Quiet
  <2> QED BY <2>2, <2>3, PairsTyped
<1>7. CASE WriteMatch(h)
  <2>1. /\ local.pc = "match" /\ local.op = req[h].op /\ local.group = req[h].group
        /\ req[h].pc = "match" /\ req[h].todo # <<>> /\ req[h].todo \in Seq(Txns)
        /\ local.todo = Tail(req[h].todo)
        /\ \A u \in Txns : u # Head(req[h].todo) \/ ~rows[u].here => rows'[u].group = rows[u].group
        /\ \A u \in Txns : u = Head(req[h].todo) /\ rows[u].here => rows'[u].group = req[h].group
    BY <1>7, MatchFacts DEF Takes
  <2>2. PICK todo \in Seq(Txns), rest \in Seq(Txns), t \in Txns :
          /\ todo = req[h].todo /\ rest = local.todo /\ t = Head(todo) /\ t = todo[1]
          /\ 1 \in DOMAIN todo
          /\ rest # <<>> => 2 \in DOMAIN todo /\ Head(rest) = todo[2]
          /\ 2 \in DOMAIN todo => rest # <<>>
    BY <2>1, RestOfWrites
  <2>3. PairedTodo(req[h]) /\ LocalOK(req[h]) BY DEF LocalInv
  <2>4. CASE req[h].op = "batch"
    <3>1. t \in Records BY <2>1, <2>2, <2>3, <2>4 DEF PairedTodo
    <3>2. ASSUME NEW p \in Pairs PROVE WholeAfter(p)
      <4>1. Whole(p) BY <1>4, <1>5, <2>4 DEF Halfway, InMatch
      <4>2. rows'[p[2]].group = rows[p[2]].group BY <2>1, <2>2, <3>1, PairsTyped
      <4>3. CASE p[1] = t /\ rows[t].here BY <2>1, <2>2, <2>3, <2>4, <4>3 DEF LocalOK
      <4>4. CASE p[1] # t \/ ~rows[t].here
        BY <2>1, <2>2, <4>4, PairsTyped, <4>1, <4>2 DEF Whole
      <4> QED BY <4>3, <4>4
    <3>3. ASSUME NEW g \in Handlers, req'[g].pc = "match", req'[g].op = "reconcile" PROVE FALSE
      BY <1>1, <1>5, <2>1, <2>4, <3>3
    <3> QED BY <3>2, <3>3
  <2>5. CASE req[h].op = "reconcile"
    <3>1. RecordsBeforeEntries(todo) BY <2>1, <2>2, <2>3, <2>5 DEF PairedTodo
    <3>2. rows[t].here BY <1>3, <2>1, <2>2, <2>5 DEF AloneInv
    <3>3. rows'[t].group = req[h].group /\ \A u \in Txns : u # t => rows'[u].group = rows[u].group
      BY <2>1, <2>2, <3>2
    <3>4. ASSUME NEW p \in Pairs, p[1] # t, p[2] # t PROVE WholeAfter(p)
      BY <1>4, <1>5, <2>2, <3>4, <3>3, PairsTyped DEF Halfway, InMatch, Whole
    <3>5. CASE t \in Records
      <4>1. 2 \in DOMAIN todo /\ <<t, todo[2]>> \in Pairs
        BY <2>2, <3>1, <3>5 DEF RecordsBeforeEntries
      <4>2. PICK q \in Pairs : q[1] = t /\ q[2] = todo[2] BY <4>1
      <4>3. rest # <<>> /\ Head(rest) = todo[2] BY <2>2, <4>1
      <4>4. ASSUME NEW p \in Pairs, p[1] = t PROVE HalfwayAfter(p)
        <5>1. p[2] = todo[2] BY <4>2, <4>4, ReconAssumption
        <5> QED BY <1>1, <2>1, <2>2, <2>5, <4>3, <5>1
      <4>5. ASSUME NEW p \in Pairs, p[2] = todo[2] PROVE rows'[p[1]].group = local.group
        BY <4>2, <4>5, ReconAssumption, <2>1, <3>3
      <4>6. \A p \in Pairs : WholeAfter(p) \/ HalfwayAfter(p) BY <3>4, <3>5, <4>4, PairsTyped
      <4>7. \A g \in Handlers : req'[g].pc = "match" => g = h BY <1>1, <1>5
      <4> QED BY <1>1, <2>2, <4>3, <4>5, <4>6, <4>7
    <3>6. CASE t \in Entries
      <4>1. ASSUME NEW p \in Pairs, p[2] = t PROVE WholeAfter(p)
        BY <2>1, <2>2, <2>5, <1>4, <3>6, <4>1, PairsTyped, <3>3 DEF InMatch
      <4>2. rest # <<>> => Head(rest) \notin Entries
        <5>1. ASSUME rest # <<>>, todo[2] \in Entries PROVE FALSE
          BY <2>2, <5>1, <3>1, <3>6, ReconAssumption DEF RecordsBeforeEntries
        <5> QED BY <2>2, <5>1
      <4>3. \A p \in Pairs : WholeAfter(p) BY <3>4, <3>6, <4>1, PairsTyped
      <4>4. \A g \in Handlers : req'[g].pc = "match" => g = h BY <1>1, <1>5
      <4> QED BY <1>1, <2>2, <4>2, <4>3, <4>4
    <3> QED BY <3>5, <3>6 DEF Txns
  <2> QED BY <2>1, <2>3, <2>4, <2>5 DEF LocalOK
<1> QED BY <1>6, <1>7 DEF Takes

(* Corrections and tasks put nothing into a group. *)
LEMMA PairsOfOthers ==
    ASSUME TypeOK, PairInv, UNCHANGED req, raced => raced', faults' = 0 => faults = 0,
           \A u \in Txns : rows'[u].group = rows[u].group
    PROVE  PairInv'
<1>1. \A p \in Pairs : rows'[p[1]].group = rows[p[1]].group /\ rows'[p[2]].group = rows[p[2]].group
  BY PairsTyped
<1> QED BY <1>1 DEF PairInv, Whole, Halfway, InMatch

----
(* The inductive invariant. *)

SessionInv ==
    TypeOK /\ LocalInv /\ RowInv /\ CountInv /\ AloneInv /\ FilesListedAlone /\ PairInv

(* A new session satisfies the invariant. *)
THEOREM SessionInvInit == Init => SessionInv
<1> SUFFICES ASSUME Init PROVE SessionInv OBVIOUS
<1>1. /\ session \in Session /\ session.status = "draft" /\ session # Gone
      /\ rows \in [Txns -> Row] /\ \A t \in Txns : ~rows[t].here /\ ~rows[t].linked /\ rows[t].group.by = "nobody"
      /\ \A h \in Handlers : req[h] = Idle
      /\ \A w \in Workers : job[w] = NoJob
      /\ \A t \in Txns : booked[t] = 0
  BY MarkersAssumption DEF Init, Session, NoRow, Row, NoGroup, Groups
<1>2. TypeOK
  <2>1. req \in [Handlers -> Requests] BY IdleTyped DEF Init
  <2>2. job \in [Workers -> Tasks] BY TaskTyped DEF Init
  <2>3. events \in Nat /\ booked \in [Txns -> Nat] BY DEF Init
  <2>4. requests \in 0..MaxRequests /\ faults \in 0..MaxFaults /\ raced \in BOOLEAN
    <3>1. requests = 0 /\ faults = 0 /\ raced = FALSE BY DEF Init
    <3>2. 0 \in 0..MaxRequests /\ 0 \in 0..MaxFaults BY ReconAssumption
    <3>3. raced \in BOOLEAN BY <3>1
    <3> QED BY <3>1, <3>2, <3>3
  <2>5. Here = {} BY <1>1 DEF Here
  <2> QED BY <1>1, <2>1, <2>2, <2>3, <2>4, <2>5 DEF TypeOK, Tasks
<1>3. LocalInv BY <1>1, IdleOK, TaskTyped DEF LocalInv, Complete
<1>4. RowInv BY <1>1, TaskTyped, MarkersAssumption DEF RowInv, Touched
<1>5. CountInv
  <2> SUFFICES ASSUME NEW t \in Txns
               PROVE  booked[t] + Cardinality(Holders(t)) <= Cardinality(Workers) + faults
    BY <1>1 DEF CountInv
  <2>1. Holders(t) = {} BY <1>1, TaskTyped DEF Holders
  <2>2. Cardinality(Holders(t)) = 0 /\ Cardinality(Workers) \in Nat /\ faults = 0
    BY <2>1, FS_EmptySet, WorkerSets DEF Init
  <2> QED BY <1>1, <2>2
<1>6. AloneInv BY <1>1, IdleTyped DEF AloneInv
<1>7. FilesListedAlone BY <1>1 DEF FilesListedAlone, Here
<1>8. PairInv BY <1>1, IdleTyped, PairsTyped DEF PairInv, Whole, InMatch
<1> QED BY <1>2, <1>3, <1>4, <1>5, <1>6, <1>7, <1>8 DEF SessionInv

(* Every step of requests, users and tasks keeps it. *)
THEOREM SessionInvNext == SessionInv /\ [Next]_vars => SessionInv'
<1> SUFFICES ASSUME SessionInv, [Next]_vars PROVE SessionInv' OBVIOUS
<1>1. TypeOK /\ LocalInv /\ RowInv /\ CountInv /\ AloneInv /\ FilesListedAlone /\ PairInv
  BY DEF SessionInv
<1>2. ASSUME NEW h \in Handlers, Handle(h) PROVE SessionInv'
  <2>1. PICK local \in Requests : Takes(h, local) BY <1>1, <1>2, HandlerStep
  <2>2. TypeOK' /\ LocalInv' BY <1>1, <2>1, HandlerTypes
  <2>3. /\ RowChange /\ UNCHANGED <<job, booked>> /\ faults' \in {faults, faults + 1}
        /\ session = Gone => session' = Gone
    BY <2>1 DEF Takes, Common, SessionChange
  <2>4. RowInv' BY <1>1, <2>2, <2>3, RowInvOfRequests
  <2>5. CountInv' BY <1>1, <2>2, <2>3, CountInvOfRequests
  <2>6. AloneInv' BY <1>1, <2>1, AloneOfRequests
  <2>7. FilesListedAlone' BY <1>1, <2>1, <2>2, FilesOfRequests
  <2>8. PairInv' BY <1>1, <2>1, <2>2, PairsOfRequests
  <2> QED BY <2>2, <2>4, <2>5, <2>6, <2>7, <2>8 DEF SessionInv
<1>3. ASSUME NEW t \in Txns, UpdateTransaction(t) PROVE SessionInv'
  BY <1>1, <1>3, UpdateStep, RowInvOfRequests, CountInvOfRequests, AloneOfOthers, FilesOfOthers,
     PairsOfOthers DEF SessionInv
<1>4. ASSUME NEW w \in Workers, Deliver(w) \/ TaskStep(w) \/ WorkerDies(w) PROVE SessionInv'
  <2>1. PICK local \in Tasks : Works(w, local) BY <1>1, <1>4, WorkerStep
  <2>2. TypeOK' /\ LocalInv' BY <1>1, <2>1, WorkerTypes
  <2>3. RowInv' BY <1>1, <2>1, RowInvOfTasks
  <2>4. CountInv' BY <1>1, <2>1, <2>2, CountInvOfTasks
  <2>5. \A u \in Txns : rows'[u].here = rows[u].here /\ rows'[u].group = rows[u].group
    BY <1>1, <2>1, TaskFacts
  <2>6. UNCHANGED <<session, req>> /\ raced' = raced /\ faults' \in {faults, faults + 1}
    BY <2>1 DEF Works
  <2>7. faults' = 0 => faults = 0 BY <1>1, <2>6 DEF TypeOK
  <2>8. AloneInv' /\ FilesListedAlone' /\ PairInv'
    BY <1>1, <2>2, <2>5, <2>6, <2>7, AloneOfOthers, FilesOfOthers, PairsOfOthers
  <2> QED BY <2>2, <2>3, <2>4, <2>8 DEF SessionInv
<1>5. CASE UNCHANGED vars
  <2>1. UNCHANGED <<session, rows, req, events, job, booked, requests, faults, raced>>
    BY <1>5 DEF vars
  <2>2. TypeOK' BY <1>1, <2>1 DEF TypeOK, Here
  <2>3. LocalInv' BY <1>1, <2>1 DEF LocalInv
  <2>4. RowInv' BY <1>1, <2>1 DEF RowInv, Touched
  <2>5. CountInv' BY <1>1, <2>1 DEF CountInv, Holders, Linking
  <2>6. AloneInv' /\ FilesListedAlone' BY <1>1, <2>1 DEF AloneInv, FilesListedAlone, Here
  <2>7. PairInv' BY <1>1, <2>1 DEF PairInv, Whole, Halfway, InMatch
  <2> QED BY <2>2, <2>3, <2>4, <2>5, <2>6, <2>7 DEF SessionInv
<1> QED BY <1>2, <1>3, <1>4, <1>5 DEF Next

(* It holds of every reachable state, for any transactions, pairs, handlers and
   workers. *)
THEOREM SessionInvAlways == Spec => []SessionInv
BY SessionInvInit, SessionInvNext, PTL DEF Spec

(* Whatever requests, tasks, faults and deletions do at once: a completed
   session shows a summary and a result (service/session_service.go 534-1261),
   files are listed while requests take turns, only what a reconciliation
   matched is booked and linked, and no transaction has more drafts than tasks
   run at once and faults (worker/event_handlers.go 104-158). *)
THEOREM SessionIsSound == Spec => []SessionSound
<1>1. SessionInv => SessionSound
  <2> SUFFICES ASSUME SessionInv PROVE SessionSound OBVIOUS
  <2>1. TypeOK /\ LocalInv /\ RowInv /\ CountInv /\ FilesListedAlone BY DEF SessionInv
  <2>2. CompletedHasResult BY <2>1 DEF LocalInv, Complete, CompletedHasResult
  <2>3. OnlyMatchedBooked
    <3> SUFFICES ASSUME NEW t \in Txns, rows[t].here, booked[t] > 0 \/ rows[t].linked
                 PROVE  Matched(t) /\ booked[t] > 0
      BY DEF OnlyMatchedBooked, Here
    <3> QED BY <2>1 DEF RowInv, Matched
  <2>4. EntriesBounded
    <3> SUFFICES ASSUME NEW t \in Txns PROVE booked[t] <= Cardinality(Workers) + faults
      BY DEF EntriesBounded
    <3>1. booked[t] + Cardinality(Holders(t)) <= Cardinality(Workers) + faults BY <2>1 DEF CountInv
    <3>2. Holders(t) \in SUBSET Workers BY DEF Holders
    <3>3. Cardinality(Holders(t)) \in Nat /\ Cardinality(Workers) \in Nat BY <3>2, WorkerSets
    <3>4. booked[t] \in Nat /\ faults \in Nat BY <2>1 DEF TypeOK
    <3> QED BY <3>1, <3>3, <3>4
  <2> QED BY <2>1, <2>2, <2>3, <2>4 DEF SessionSound
<1> QED BY <1>1, SessionInvAlways, PTL

(* While requests take turns and nothing fails, a pair that a session
   reconciliation has matched is in one group whenever no reconciliation is
   being written, unless a bank reconciliation has taken its record
   (service/session_service.go 1196-1215). *)
THEOREM PairsStayWhole == Spec => []PairsWholeAlone
<1>1. SessionInv => PairsWholeAlone
  BY DEF SessionInv, PairInv, Whole, Halfway, InMatch, PairsWholeAlone
<1> QED BY <1>1, SessionInvAlways, PTL
=============================================================================
