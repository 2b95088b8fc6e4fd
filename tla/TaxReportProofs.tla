--------------------------- MODULE TaxReportProofs ---------------------------
(* Proofs about TaxReport, for any number of reports, requests and instances. *)
EXTENDS TaxReport, TLAPS, WellFoundedInduction

(* A bounded set of numbers that is not empty has a greatest: by the least of
   its bounds. *)
LEMMA HasMaximum ==
    ASSUME NEW S, S \subseteq Nat, S # {}, NEW b \in Nat, \A s \in S : s <= b
    PROVE  \E m \in S : \A s \in S : s <= m
<1> DEFINE T == {n \in Nat : \A s \in S : s <= n}
<1>1. T \subseteq Nat /\ T # {} OBVIOUS
<1>2. PICK m \in T : \A y \in T : <<y, m>> \notin OpToRel(<, Nat)
  <2> HIDE DEF T
  <2> QED BY <1>1, NatLessThanWellFounded, WFMin
<1>3. \A y \in T : ~(y < m) BY <1>2 DEF OpToRel
<1>4. m \in S
  <2> SUFFICES ASSUME m \notin S PROVE FALSE OBVIOUS
  <2>1. \A s \in S : s <= m - 1 OBVIOUS
  <2>2. PICK s \in S : s <= m - 1 BY <2>1
  <2>3. m - 1 \in Nat BY <2>2
  <2> QED BY <2>1, <2>3, <1>3
<1> QED BY <1>4

(* The numbers of all rows are below some bound: only as many were given out. *)
Bounded == \E b \in Nat : \A x \in Reports : row[x].number <= b

(* GetMaxAmendmentNumber returns the greatest number of the amendments, 0
   without one. *)
LEMMA MaxNumberIsMax ==
    ASSUME TypeOK, Bounded, NEW root \in Reports
    PROVE  /\ MaxNumber(root) \in Nat
           /\ \A y \in Amendments(root) : row[y].number <= MaxNumber(root)
<1> DEFINE N == {row[y].number : y \in Amendments(root)} \cup {0}
<1>1. N \subseteq Nat /\ N # {} BY DEF TypeOK, Row, Amendments
<1>2. PICK b \in Nat : \A x \in Reports : row[x].number <= b BY DEF Bounded
<1>3. \A n \in N : n <= b BY <1>2 DEF Amendments
<1>4. \E n \in N : \A m \in N : m <= n
  <2> HIDE DEF N
  <2> QED BY <1>1, <1>3, HasMaximum
<1>5. MaxNumber(root) \in N /\ \A m \in N : m <= MaxNumber(root) BY <1>4 DEF MaxNumber
<1> QED BY <1>1, <1>5

----
(* What a row holds depends on whether it is there. *)
RowsOK ==
    \A x \in Reports :
        /\ ~Exists(x) => row[x].original = None /\ row[x].root = None
        /\ Exists(x) => row[x].version >= 1 /\ row[x].calc \in Data

(* The fields a request has at the points where they are read. *)
LEMMA LocalFields ==
    ASSUME TypeOK, NEW r \in Requests
    PROVE  /\ req[r].pc \in {"recalculate", "override", "touch"} =>
                /\ req[r].report \in Reports
                /\ req[r].status \in Status
                /\ req[r].version \in Nat
           /\ req[r].pc = "override" => req[r].original \in Data \cup {None}
           /\ req[r].pc = "touch" => req[r].then \in {Idle} \cup StatusLocals
           /\ req[r].pc \in {"gate", "status"} =>
                /\ req[r] \in StatusLocals
                /\ req[r].move.report \in Reports
                /\ req[r].move.from \in Status
                /\ req[r].move.to \in Status
                /\ req[r].move.version \in Nat
           /\ req[r].pc = "delete" => req[r].report \in Reports
           /\ req[r].pc \in {"amend_max", "amend"} =>
                req[r].root \in Reports /\ req[r].calc \in Data
           /\ req[r].pc = "amend" => req[r].number \in Nat
BY DEF TypeOK, Locals, StatusLocals, Move, Idle

(* What UpdateReport does to the table: the row it names, when the version is
   still there, gets this status, these figures and the next version. *)
Effect(x, version, status, calc, original) ==
    /\ row' \in [Reports -> Row]
    /\ \A y \in Reports : y # x => row'[y] = row[y]
    /\ ~(Exists(x) /\ row[x].version = version) => row'[x] = row[x]
    /\ Exists(x) /\ row[x].version = version =>
         /\ row'[x].status = status
         /\ row'[x].version = row[x].version + 1
         /\ row'[x].calc = calc
         /\ row'[x].original = original
         /\ row'[x].root = row[x].root
         /\ row'[x].number = row[x].number

(* UpdateReport with a row that differs from the stored one in what may differ. *)
LEMMA UpdateHasEffect ==
    ASSUME row \in [Reports -> Row], NEW x \in Reports, NEW v, NEW change \in Row,
           change.version = row[x].version, change.root = row[x].root,
           change.number = row[x].number, row' = UpdateReport(x, v, change)
    PROVE  Effect(x, v, change.status, change.calc, change.original)
BY DEF UpdateReport, Row, Effect

(* A recalculation puts back the status it read, with the figures of the engine. *)
LEMMA RecalculateEffect ==
    ASSUME TypeOK, NEW r \in Requests, RecalculateWrite(r)
    PROVE  Effect(req[r].report, req[r].version, req[r].status, "engine",
                  row[req[r].report].original)
<1> DEFINE x == req[r].report
           change == [row[x] EXCEPT !.status = req[r].status, !.calc = "engine"]
<1>1. x \in Reports /\ req[r].status \in Status /\ row \in [Reports -> Row]
  BY LocalFields DEF RecalculateWrite, TypeOK
<1>2. row[x] \in Row BY <1>1
<1>3. /\ change \in Row
      /\ change.status = req[r].status /\ change.calc = "engine"
      /\ change.original = row[x].original /\ change.version = row[x].version
      /\ change.root = row[x].root /\ change.number = row[x].number
  BY <1>1, <1>2 DEF Row, Data
<1>4. row' = UpdateReport(x, req[r].version, change) BY DEF RecalculateWrite
<1> HIDE DEF change
<1> QED BY <1>1, <1>3, <1>4, UpdateHasEffect

(* An override saves the first figures and puts in corrected ones. *)
LEMMA OverrideEffect ==
    ASSUME TypeOK, NEW r \in Requests, OverrideWrite(r)
    PROVE  Effect(req[r].report, req[r].version, req[r].status, "corrected",
                  Saved(row[req[r].report].original, req[r].original))
<1> DEFINE x == req[r].report
           saved == Saved(row[x].original, req[r].original)
           change == [row[x] EXCEPT !.status = req[r].status, !.calc = "corrected",
                                    !.original = Saved(@, req[r].original)]
<1>1. x \in Reports /\ req[r].status \in Status /\ row \in [Reports -> Row]
  BY LocalFields DEF OverrideWrite, TypeOK
<1>2. row[x] \in Row BY <1>1
<1>3. saved \in Data \cup {None} BY <1>2, LocalFields DEF OverrideWrite, Saved, Row
<1>4. change = [row[x] EXCEPT !.status = req[r].status, !.calc = "corrected", !.original = saved]
  BY <1>2 DEF Row
<1>5. /\ change \in Row
      /\ change.status = req[r].status /\ change.calc = "corrected"
      /\ change.original = saved /\ change.version = row[x].version
      /\ change.root = row[x].root /\ change.number = row[x].number
  <2> HIDE DEF saved
  <2> QED BY <1>1, <1>2, <1>3, <1>4 DEF Row, Data
<1>6. row' = UpdateReport(x, req[r].version, change) BY DEF OverrideWrite
<1> HIDE DEF change
<1> QED BY <1>1, <1>5, <1>6, UpdateHasEffect

(* A move changes the status and the version alone. *)
LEMMA StatusEffect ==
    ASSUME TypeOK, NEW r \in Requests, StatusWrite(r)
    PROVE  Effect(req[r].move.report, req[r].move.version, req[r].move.to,
                  row[req[r].move.report].calc, row[req[r].move.report].original)
<1> DEFINE x == req[r].move.report
           change == [row[x] EXCEPT !.status = req[r].move.to]
<1>1. x \in Reports /\ req[r].move.to \in Status /\ row \in [Reports -> Row]
  BY LocalFields DEF StatusWrite, TypeOK
<1>2. row[x] \in Row BY <1>1
<1>3. /\ change \in Row
      /\ change.status = req[r].move.to /\ change.calc = row[x].calc
      /\ change.original = row[x].original /\ change.version = row[x].version
      /\ change.root = row[x].root /\ change.number = row[x].number
  BY <1>1, <1>2 DEF Row
<1>4. row' = UpdateReport(x, req[r].move.version, change) BY DEF StatusWrite
<1> HIDE DEF change
<1> QED BY <1>1, <1>3, <1>4, UpdateHasEffect

(* A score puts back the status it read, or its statement fails. *)
LEMMA TouchEffect ==
    ASSUME TypeOK, NEW r \in Requests, TouchWrite(r)
    PROVE  \/ /\ Effect(req[r].report, req[r].version, req[r].status,
                        row[req[r].report].calc, row[req[r].report].original)
              /\ NoFault
           \/ Fault /\ UNCHANGED row
<1> DEFINE x == req[r].report
           change == [row[x] EXCEPT !.status = req[r].status]
<1>1. x \in Reports /\ req[r].status \in Status /\ row \in [Reports -> Row]
  BY LocalFields DEF TouchWrite, TypeOK
<1>2. row[x] \in Row BY <1>1
<1>3. /\ change \in Row
      /\ change.status = req[r].status /\ change.calc = row[x].calc
      /\ change.original = row[x].original /\ change.version = row[x].version
      /\ change.root = row[x].root /\ change.number = row[x].number
  BY <1>1, <1>2 DEF Row
<1>4. \/ row' = UpdateReport(x, req[r].version, change) /\ NoFault
      \/ Fault /\ UNCHANGED row
  BY DEF TouchWrite
<1> HIDE DEF change
<1> QED BY <1>1, <1>3, <1>4, UpdateHasEffect

(* Every step keeps the types of the variables. *)
LEMMA TypesKept ==
    ASSUME TypeOK, RowsOK, Bounded, NEW r \in Requests, Step(r)
    PROVE  TypeOK'
<1> USE TaxReportAssumption
        DEF TypeOK, Goto, Done, Fault, NoFault, Starts, Exists, Writable, Status, IsEditable,
            Locals, StatusLocals, Move, Idle
<1>0. instance.faults \in Nat OBVIOUS
<1>1. CASE Create(r) BY <1>1 DEF Create, NewRow, Row, Data
<1>2. CASE RecalculateRead(r) BY <1>2 DEF RecalculateRead, Row
<1>3. CASE RecalculateWrite(r) BY <1>3, RecalculateEffect DEF RecalculateWrite, Effect
<1>4. CASE OverrideRead(r) BY <1>4 DEF OverrideRead, Row
<1>5. CASE OverrideWrite(r) BY <1>5, OverrideEffect DEF OverrideWrite, Effect
<1>6. CASE DeleteRead(r) BY <1>6 DEF DeleteRead
<1>7. CASE DeleteWrite(r) BY <1>7 DEF DeleteWrite, Gone, NoRow, Row
<1>8. CASE ArchiveDuplicates(r) BY <1>8 DEF ArchiveDuplicates, Row
<1>9. CASE StatusRead(r) BY <1>9 DEF StatusRead, Row
<1>10. CASE Gate(r) BY <1>10, <1>0 DEF Gate, Scored, Row
<1>11. CASE StatusWrite(r)
  <2>1. row' \in [Reports -> Row] BY <1>11, StatusEffect DEF Effect
  <2>2. moved' \in SUBSET Reports
    BY <1>11, LocalFields DEF StatusWrite
  <2> QED BY <1>11, <2>1, <2>2 DEF StatusWrite
<1>12. CASE TouchRead(r) BY <1>12 DEF TouchRead, Scored, Row
<1>13. CASE TouchWrite(r)
  <2>1. row' \in [Reports -> Row] BY <1>13, TouchEffect DEF Effect
  <2>2. req[r].then \in Locals BY <1>13, LocalFields DEF TouchWrite
  <2>3. req' \in [Requests -> Locals] BY <1>13, <2>2 DEF TouchWrite
  <2>4. faults' \in 0..instance.faults /\ UNCHANGED <<instance, moved, waived>>
    BY <1>13, <1>0 DEF TouchWrite
  <2> QED BY <2>1, <2>3, <2>4
<1>14. CASE AmendRead(r) BY <1>14 DEF AmendRead, RootOf, RowsOK, Row
<1>15. CASE AmendMax(r) BY <1>15, MaxNumberIsMax DEF AmendMax
<1>16. CASE AmendInsert(r) BY <1>16 DEF AmendInsert, NewRow, Row
<1>17. CASE Abandon(r) BY <1>17, <1>0 DEF Abandon
<1>18. CASE Refused(r) BY <1>18 DEF Refused
<1> QED BY <1>1, <1>2, <1>3, <1>4, <1>5, <1>6, <1>7, <1>8, <1>9, <1>10, <1>11, <1>12,
           <1>13, <1>14, <1>15, <1>16, <1>17, <1>18 DEF Step

----
(* What a step can do to a row: insert it, delete it, write it under the next
   version, or archive it under the one it has.  Its root and number stay, and
   the original figures are not lost. *)
Moves(x) ==
    \/ row'[x] = row[x]
    \/ /\ row[x].status = "none"
       /\ row'[x].status = "draft" /\ row'[x].version = 1 /\ row'[x].calc \in Data
       /\ row'[x].original = None
    \/ Exists(x) /\ row'[x] = Gone
    \/ /\ Exists(x)
       /\ row'[x].status \in Status
       /\ row'[x].version = row[x].version + 1
       /\ row'[x].calc \in Data
       /\ row[x].original # None => row'[x].original # None
       /\ row'[x].root = row[x].root /\ row'[x].number = row[x].number
    \/ /\ row[x].status \in {"draft", "rejected"}
       /\ row'[x].status = "archived"
       /\ row'[x].version = row[x].version /\ row'[x].calc = row[x].calc
       /\ row'[x].original = row[x].original /\ row'[x].root = row[x].root
       /\ row'[x].number = row[x].number

(* An update is such a move. *)
LEMMA UpdateMoves ==
    ASSUME NEW x \in Reports, NEW v, NEW s \in Status, NEW c, NEW o,
           Effect(x, v, s, c, o), Exists(x) => c \in Data,
           row[x].original # None => o # None
    PROVE  \A y \in Reports : Moves(y)
BY DEF Effect, Moves, Exists

(* No step does anything else to a row. *)
LEMMA RowsMove ==
    ASSUME TypeOK, RowsOK, NEW r \in Requests, Step(r), NEW x \in Reports
    PROVE  Moves(x)
<1> USE DEF TypeOK
<1>1. CASE Create(r) BY <1>1 DEF Create, NewRow, Moves, Data
<1>2. CASE RecalculateWrite(r)
  <2>1. req[r].report \in Reports /\ req[r].status \in Status
    BY <1>2, LocalFields DEF RecalculateWrite
  <2>2. "engine" \in Data BY DEF Data
  <2> QED BY <1>2, <2>1, <2>2, RecalculateEffect, UpdateMoves
<1>3. CASE OverrideWrite(r)
  <2>1. req[r].report \in Reports /\ req[r].status \in Status BY <1>3, LocalFields DEF OverrideWrite
  <2>2. "corrected" \in Data BY DEF Data
  <2>3. row[req[r].report].original # None
          => Saved(row[req[r].report].original, req[r].original) # None
    BY DEF Saved
  <2> QED BY <1>3, <2>1, <2>2, <2>3, OverrideEffect, UpdateMoves
<1>4. CASE DeleteWrite(r) BY <1>4, LocalFields DEF DeleteWrite, Moves
<1>5. CASE ArchiveDuplicates(r) BY <1>5 DEF ArchiveDuplicates, Moves, Row
<1>6. CASE StatusWrite(r)
  <2>1. req[r].move.report \in Reports /\ req[r].move.to \in Status
    BY <1>6, LocalFields DEF StatusWrite
  <2>2. Exists(req[r].move.report) => row[req[r].move.report].calc \in Data BY <2>1 DEF RowsOK
  <2> QED BY <1>6, <2>1, <2>2, StatusEffect, UpdateMoves
<1>7. CASE TouchWrite(r)
  BY <1>7, TouchEffect, UpdateMoves, LocalFields DEF TouchWrite, RowsOK, Moves
<1>8. CASE AmendInsert(r) BY <1>8, LocalFields DEF AmendInsert, NewRow, Moves
<1>9. CASE UNCHANGED row BY <1>9 DEF Moves
<1> QED BY <1>1, <1>2, <1>3, <1>4, <1>5, <1>6, <1>7, <1>8, <1>9
     DEF Step, RecalculateRead, OverrideRead, DeleteRead, StatusRead, Gate, TouchRead,
         AmendRead, AmendMax, Abandon, Refused

(* The rows keep their shape. *)
LEMMA RowsKept ==
    ASSUME TypeOK, RowsOK, \A x \in Reports : Moves(x)
    PROVE  RowsOK'
BY DEF TypeOK, RowsOK, Moves, Exists, Status, Gone, NoRow, Row

(* The numbers stay bounded: at most one row is new. *)
LEMMA BoundKept ==
    ASSUME TypeOK, RowsOK, Bounded, NEW r \in Requests, Step(r)
    PROVE  Bounded'
<1>1. PICK b \in Nat : \A x \in Reports : row[x].number <= b BY DEF Bounded
<1>2. CASE Create(r) BY <1>1, <1>2 DEF Create, NewRow, Bounded, TypeOK
<1>3. CASE AmendInsert(r)
  <2> DEFINE n == req[r].number
  <2>1. n \in Nat BY <1>3, LocalFields DEF AmendInsert
  <2>2. \A x \in Reports : row'[x].number <= b + n
    BY <1>1, <1>3, <2>1 DEF AmendInsert, NewRow, TypeOK, Row
  <2>3. b + n \in Nat BY <2>1
  <2> QED BY <2>2, <2>3 DEF Bounded
<1>4. CASE ~Create(r) /\ ~AmendInsert(r)
  <2>1. \A x \in Reports : row'[x].number = row[x].number \/ row'[x].number = 0
    <3> SUFFICES ASSUME NEW x \in Reports
                 PROVE  row'[x].number = row[x].number \/ row'[x].number = 0 OBVIOUS
    <3>1. CASE row[x].status # "none" BY <3>1, RowsMove DEF Moves, Gone, NoRow
    <3>2. CASE row[x].status = "none"
      <4>1. ~Exists(x) BY <3>2 DEF Exists, Status
      <4>2. row'[x] = row[x]
        BY <1>4, <3>2, <4>1, RecalculateEffect, OverrideEffect, StatusEffect, TouchEffect DEF Step,
           RecalculateRead, OverrideRead, DeleteRead, StatusRead, Gate, TouchRead, AmendRead,
           AmendMax, Abandon, Refused, Effect, DeleteWrite, ArchiveDuplicates, TypeOK
      <4> QED BY <4>2
    <3> QED BY <3>1, <3>2
  <2> QED BY <1>1, <2>1 DEF Bounded
<1> QED BY <1>2, <1>3, <1>4
----
(* What a request knows of a report it read at this version: unless the report
   has moved on or is gone, its status is the one that was read, or the report
   was archived, which leaves the version. *)
Held(x, version, status) ==
    /\ row[x].status # "none"
    /\ Exists(x) => version <= row[x].version
    /\ Exists(x) /\ row[x].version = version =>
         \/ row[x].status = status
         \/ status \in {"draft", "rejected"} /\ row[x].status = "archived"

MoveHeld(m) == Held(m.report, m.version, m.from) /\ IsValidTransition(m.from, m.to)

(* What a request carries was read: an edit from an editable report, a move
   from a report it was valid for; the score of a gate is written before the
   move it is for, under a version that is no older. *)
PendingOK(r) ==
    /\ req[r].pc \in {"recalculate", "override"} => IsEditable(req[r].status)
    /\ req[r].pc \in {"recalculate", "override", "touch"} =>
         Held(req[r].report, req[r].version, req[r].status)
    /\ req[r].pc \in {"gate", "status"} => MoveHeld(req[r].move)
    /\ req[r].pc = "gate" => req[r].move.to = "approved"
    /\ req[r].pc = "touch" /\ req[r].then # Idle =>
         /\ req[r].then.pc = "status"
         /\ req[r].then.move.report = req[r].report
         /\ req[r].then.move.to = "approved"
         /\ req[r].then.move.version <= req[r].version
         /\ MoveHeld(req[r].then.move)

(* What was read stays so, whatever a step does to the report. *)
LEMMA HeldKept ==
    ASSUME TypeOK, RowsOK, NEW x \in Reports, Moves(x), NEW v \in Nat, NEW s,
           Held(x, v, s)
    PROVE  Held(x, v, s)'
BY DEF TypeOK, RowsOK, Moves, Held, Exists, Status, Gone, NoRow, Row

(* What is read from a report that is there; and no version is 0. *)
LEMMA HeldWhenRead ==
    ASSUME TypeOK, RowsOK, NEW x \in Reports, Exists(x), UNCHANGED row, NEW s
    PROVE  /\ row[x].status \in Status /\ row[x].version \in Nat
           /\ Held(x, row[x].version, row[x].status)'
           /\ Held(x, 0, s)'
BY DEF TypeOK, RowsOK, Held, Exists, Status, Row

(* A request that only waits keeps what it knows. *)
LEMMA WaitingKept ==
    ASSUME TypeOK, RowsOK, \A x \in Reports : Moves(x),
           NEW q \in Requests, PendingOK(q), req'[q] = req[q]
    PROVE  PendingOK(q)'
<1>1. req[q].pc \in {"recalculate", "override", "touch"} =>
        Held(req[q].report, req[q].version, req[q].status)'
  BY LocalFields, HeldKept DEF PendingOK
<1>2. req[q].pc \in {"gate", "status"} => MoveHeld(req[q].move)'
  BY LocalFields, HeldKept DEF PendingOK, MoveHeld
<1>3. req[q].pc = "touch" /\ req[q].then # Idle => MoveHeld(req[q].then.move)'
  <2> SUFFICES ASSUME req[q].pc = "touch" /\ req[q].then # Idle PROVE  MoveHeld(req[q].then.move)'
    OBVIOUS
  <2>1. req[q].then.move \in Move BY LocalFields DEF StatusLocals
  <2> QED BY <2>1, HeldKept DEF PendingOK, MoveHeld, Move
<1> QED BY <1>1, <1>2, <1>3 DEF PendingOK, MoveHeld, Held
(* Every step keeps what requests know: the one that steps reads it anew. *)
LEMMA PendingKept ==
    ASSUME TypeOK, RowsOK, \A q \in Requests : PendingOK(q), NEW r \in Requests, Step(r)
    PROVE  \A q \in Requests : PendingOK(q)'
<1>1. \A x \in Reports : Moves(x) BY RowsMove
<1>2. \A q \in Requests : req'[q] = req[q] => PendingOK(q)' BY <1>1, WaitingKept
<1>3. \A q \in Requests : q # r => req'[q] = req[q]
  BY DEF Step, Create, RecalculateRead, RecalculateWrite, OverrideRead, OverrideWrite, DeleteRead,
     DeleteWrite, ArchiveDuplicates, StatusRead, Gate, StatusWrite, TouchRead, TouchWrite,
     AmendRead, AmendMax, AmendInsert, Abandon, Refused, Scored, Goto, Done, TypeOK
<1>4. PendingOK(r)'
  <2> USE DEF TypeOK, Goto
  <2>1. CASE req'[r].pc \in {"idle", "delete", "amend_max", "amend"} BY <2>1 DEF PendingOK
  <2>2. CASE RecalculateRead(r)
    <3>1. PICK x \in Reports :
            /\ Exists(x) /\ IsEditable(row[x].status)
            /\ req'[r] = [pc |-> "recalculate", report |-> x, status |-> row[x].status,
                          version |-> row[x].version]
            /\ UNCHANGED row
      BY <2>2 DEF RecalculateRead, Writable
    <3> QED BY <3>1, HeldWhenRead DEF PendingOK
  <2>3. CASE OverrideRead(r)
    <3>1. PICK x \in Reports, v \in Nat :
            /\ v \in {0, row[x].version} /\ Exists(x) /\ IsEditable(row[x].status)
            /\ req'[r] = [pc |-> "override", report |-> x, status |-> row[x].status,
                          version |-> v,
                          original |-> IF row[x].original = None THEN row[x].calc ELSE None]
            /\ UNCHANGED row
      BY <2>3 DEF OverrideRead, Writable, Row
    <3> QED BY <3>1, HeldWhenRead DEF PendingOK
  <2>4. CASE StatusRead(r)
    <3>1. PICK x \in Reports, to \in Status :
            /\ Exists(x) /\ IsValidTransition(row[x].status, to)
            /\ req'[r] = [pc |-> IF to = "approved" THEN "gate" ELSE "status",
                          move |-> [report |-> x, from |-> row[x].status, to |-> to,
                                    version |-> row[x].version]]
            /\ UNCHANGED row
      BY <2>4 DEF StatusRead, Writable
    <3> QED BY <3>1, HeldWhenRead DEF PendingOK, MoveHeld
  <2>5. CASE TouchRead(r)
    <3>1. PICK x \in Reports :
            /\ Exists(x)
            /\ req'[r] = [pc |-> "touch", report |-> x, status |-> row[x].status,
                          version |-> row[x].version, then |-> Idle]
            /\ UNCHANGED row
      BY <2>5 DEF TouchRead, Scored, Writable
    <3> QED BY <3>1, HeldWhenRead DEF PendingOK
  <2>6. CASE Gate(r)
    <3>1. PICK m \in Move, next \in StatusLocals :
            /\ m = req[r].move /\ next = [req[r] EXCEPT !.pc = "status"]
            /\ next.pc = "status" /\ next.move = m
            /\ m.to = "approved" /\ MoveHeld(m)
      BY <2>6, LocalFields DEF Gate, PendingOK, StatusLocals
    <3>2. PICK x \in Reports : x = m.report BY DEF Move
    <3>3. UNCHANGED row BY <2>6 DEF Gate
    <3>4. MoveHeld(m)' BY <3>1, <3>3 DEF MoveHeld, Held, Exists
    <3>5. CASE req'[r] = next BY <3>1, <3>4, <3>5 DEF PendingOK
    <3>6. CASE Exists(x) /\ \E then \in {next, Idle} :
                 req'[r] = [pc |-> "touch", report |-> x, status |-> row[x].status,
                            version |-> row[x].version, then |-> then]
      <4>1. PICK then \in {next, Idle} :
                 req'[r] = [pc |-> "touch", report |-> x, status |-> row[x].status,
                            version |-> row[x].version, then |-> then]
        BY <3>6
      <4>2. m.version <= row[x].version BY <3>1, <3>2, <3>6 DEF MoveHeld, Held
      <4>3. Held(x, row[x].version, row[x].status)' BY <3>3, <3>6, HeldWhenRead
      <4>4. CASE then = Idle BY <3>3, <4>1, <4>3, <4>4 DEF PendingOK
      <4>5. CASE then = next
        <5>1. /\ req'[r].pc = "touch" /\ req'[r].report = x /\ req'[r].then = next
              /\ req'[r].version = row[x].version /\ req'[r].status = row[x].status
          BY <4>1, <4>5
        <5>2. Held(req[r].report, req[r].version, req[r].status)' BY <3>3, <4>3, <5>1
        <5>3. MoveHeld(req[r].then.move)' BY <3>1, <3>4, <5>1
        <5> QED BY <3>1, <3>2, <4>2, <5>1, <5>2, <5>3 DEF PendingOK
      <4> QED BY <4>4, <4>5
    <3> QED BY <2>6, <3>1, <3>2, <3>5, <3>6 DEF Gate, Scored
  <2>7. CASE TouchWrite(r)
    <3>1. CASE req[r].then = Idle BY <2>7, <3>1 DEF TouchWrite, Idle, PendingOK
    <3>2. CASE req[r].then # Idle
      <4>1. PICK m \in Move, next \in StatusLocals :
              /\ next = req[r].then /\ m = next.move
              /\ next.pc = "status" /\ MoveHeld(m)
        BY <2>7, <3>2, LocalFields DEF TouchWrite, PendingOK, StatusLocals
      <4>2. PICK x \in Reports, v \in Nat : x = m.report /\ v = m.version BY DEF Move
      <4>3. Held(x, v, m.from)' BY <1>1, <4>1, <4>2, HeldKept DEF MoveHeld
      <4>4. req'[r] = next /\ MoveHeld(m)' BY <2>7, <4>1, <4>2, <4>3 DEF MoveHeld, TouchWrite
      <4> QED BY <4>1, <4>4 DEF PendingOK
    <3> QED BY <3>1, <3>2
  <2>8. CASE req'[r] = req[r] BY <1>2, <2>8
  <2> QED BY <2>1, <2>2, <2>3, <2>4, <2>5, <2>6, <2>7, <2>8
       DEF Step, Create, RecalculateWrite, OverrideWrite, DeleteRead, DeleteWrite,
           ArchiveDuplicates, StatusWrite, AmendRead, AmendMax, AmendInsert, Abandon,
           Refused, Done, Idle
<1> QED BY <1>2, <1>3, <1>4

----
(* An approval that was let through: while the report is at the version of the
   move its figures meet the threshold, or its validation did not work. *)
LetThrough(m) ==
    m.to = "approved" /\ Exists(m.report) /\ row[m.report].version = m.version =>
        ~BelowThreshold(row[m.report].calc) \/ m.report \in waived

GatedOK(r) ==
    /\ req[r].pc = "status" => LetThrough(req[r].move)
    /\ req[r].pc = "touch" /\ req[r].then # Idle => LetThrough(req[r].then.move)

(* The figures of an override were read: a report without original figures had
   those of the engine, and one with them keeps them. *)
OverrideOK(r) ==
    req[r].pc = "override" =>
        /\ req[r].original = None => row[req[r].report].original # None \/ ~Exists(req[r].report)
        /\ Exists(req[r].report) /\ row[req[r].report].root = None =>
             req[r].original \in {None, "engine"}

EngineFirst ==
    \A x \in Reports :
        Exists(x) /\ row[x].root = None /\ row[x].original = None => row[x].calc = "engine"

(* An amendment under way is of a report that is none itself. *)
AmendOK(r) ==
    req[r].pc \in {"amend_max", "amend"} =>
        row[req[r].root].status # "none" /\ row[req[r].root].root = None

(* While no statement has failed an approval that is past its gate is late. *)
LateOK(r) ==
    /\ faults = 0
    /\ req[r].pc = "status" /\ req[r].move.to = "approved"
    /\ Exists(req[r].move.report)
    => row[req[r].move.report].version > req[r].move.version

(* Only the requests of the instance are ever under way; alone, the number that
   an amendment is going to get is above those there are. *)
NumberOK(r) ==
    /\ r \notin instance.requests => req[r] = Idle
    /\ OneAtATime /\ req[r].pc = "amend" =>
         \A y \in Amendments(req[r].root) : row[y].number < req[r].number

Inv ==
    /\ TypeOK /\ RowsOK /\ Bounded
    /\ \A r \in Requests :
         PendingOK(r) /\ GatedOK(r) /\ OverrideOK(r) /\ AmendOK(r) /\ LateOK(r) /\ NumberOK(r)
    /\ ApprovedIsGated /\ OriginalIsEngine /\ EngineFirst /\ AmendmentsHaveRoot
    /\ ApprovalNeedsFault /\ NumbersUnique

----
(* Which moves lead to approval and to filing. *)
LEMMA WayToFiling ==
    ASSUME NEW from \in Status, NEW to, IsValidTransition(from, to)
    PROVE  /\ to = "approved" => from = "review"
           /\ to = "filed" => from = "approved"
BY DEF IsValidTransition, ValidTransitions, Status

(* What was let through stays so while the version does. *)
LEMMA LetThroughKept ==
    ASSUME TypeOK, RowsOK, NEW m \in Move, MoveHeld(m), LetThrough(m), Moves(m.report),
           waived \subseteq waived'
    PROVE  LetThrough(m)'
BY DEF TypeOK, RowsOK, Moves, MoveHeld, Held, LetThrough, Move, Exists, Status, Gone, NoRow, Row

(* Every step keeps the approvals gated: only a gate lets one through. *)
LEMMA GatedKept ==
    ASSUME TypeOK, RowsOK, NEW r \in Requests, Step(r),
           \A q \in Requests : PendingOK(q) /\ GatedOK(q)
    PROVE  \A q \in Requests : GatedOK(q)'
<1>1. /\ \A x \in Reports : Moves(x)
      /\ waived \subseteq waived'
  BY RowsMove DEF Step, Create, RecalculateRead, RecalculateWrite, OverrideRead, OverrideWrite,
     DeleteRead, DeleteWrite, ArchiveDuplicates, StatusRead, Gate, StatusWrite, TouchRead,
     TouchWrite, AmendRead, AmendMax, AmendInsert, Abandon, Refused
<1>2. ASSUME NEW m \in Move, MoveHeld(m), LetThrough(m) PROVE  LetThrough(m)'
  BY <1>1, <1>2, LetThroughKept DEF Move
<1>3. ASSUME NEW q \in Requests, req'[q] = req[q] PROVE  GatedOK(q)'
  <2>1. CASE req[q].pc = "status"
    <3>1. PICK m \in Move : m = req[q].move BY <2>1, LocalFields DEF StatusLocals
    <3> QED BY <1>2, <1>3, <2>1, <3>1 DEF GatedOK, PendingOK
  <2>2. CASE req[q].pc = "touch" /\ req[q].then # Idle
    <3>1. PICK m \in Move : m = req[q].then.move BY <2>2, LocalFields DEF StatusLocals
    <3> QED BY <1>2, <1>3, <2>2, <3>1 DEF GatedOK, PendingOK
  <2> QED BY <1>3, <2>1, <2>2 DEF GatedOK
<1>4. \A q \in Requests : q # r => req'[q] = req[q]
  BY DEF Step, Create, RecalculateRead, RecalculateWrite, OverrideRead, OverrideWrite, DeleteRead,
     DeleteWrite, ArchiveDuplicates, StatusRead, Gate, StatusWrite, TouchRead, TouchWrite,
     AmendRead, AmendMax, AmendInsert, Abandon, Refused, Scored, Goto, Done, TypeOK
<1>5. GatedOK(r)'
  <2> USE DEF TypeOK, Goto
  <2>1. CASE req'[r].pc \notin {"status", "touch"} BY <2>1 DEF GatedOK
  <2>2. CASE StatusRead(r) BY <2>2 DEF StatusRead, GatedOK, LetThrough
  <2>3. CASE TouchRead(r) BY <2>3 DEF TouchRead, Scored, GatedOK
  <2>4. CASE Gate(r)
    <3>1. PICK m \in Move, next \in StatusLocals :
            /\ m = req[r].move /\ next = [req[r] EXCEPT !.pc = "status"]
            /\ next.pc = "status" /\ next.move = m
      BY <2>4, LocalFields DEF Gate, StatusLocals
    <3>2. CASE req'[r] = next /\ waived' = waived \cup {m.report}
      BY <3>1, <3>2 DEF GatedOK, LetThrough
    <3>3. CASE /\ UNCHANGED row
               /\ \E x \in Reports : x = m.report /\
                    req'[r] = [pc |-> "touch", report |-> x, status |-> row[x].status,
                               version |-> row[x].version,
                               then |-> IF MeetsThreshold(row[x].calc) THEN next ELSE Idle]
      BY <3>1, <3>3 DEF GatedOK, LetThrough, MeetsThreshold
    <3>4. m.report \in Reports BY DEF Move
    <3> QED BY <2>4, <3>1, <3>2, <3>3, <3>4 DEF Gate, Scored
  <2>5. CASE TouchWrite(r)
    <3>1. CASE req[r].then = Idle BY <2>5, <3>1 DEF TouchWrite, Idle, GatedOK
    <3>2. CASE req[r].then # Idle
      <4>1. PICK m \in Move, next \in StatusLocals :
              /\ next = req[r].then /\ m = next.move
              /\ next.pc = "status" /\ MoveHeld(m) /\ LetThrough(m)
        BY <2>5, <3>2, LocalFields DEF TouchWrite, PendingOK, GatedOK, StatusLocals
      <4>2. req'[r] = next BY <2>5, <4>1 DEF TouchWrite
      <4> QED BY <1>2, <4>1, <4>2 DEF GatedOK
    <3> QED BY <3>1, <3>2
  <2>6. CASE req'[r] = req[r] BY <1>3, <2>6
  <2> QED BY <2>1, <2>2, <2>3, <2>4, <2>5, <2>6
       DEF Step, Create, RecalculateRead, RecalculateWrite, OverrideRead, OverrideWrite,
           DeleteRead, DeleteWrite, ArchiveDuplicates, StatusWrite, AmendRead, AmendMax,
           AmendInsert, Abandon, Refused, Done, Idle
<1> QED BY <1>3, <1>4, <1>5

(* The approved reports: a step that keeps one keeps its figures, and a report
   becomes one by a move that was let through. *)
Approved(x) == row[x].status \in {"approved", "filed"}

Freezes(x) ==
    Approved(x) /\ row'[x].status \in Status =>
        row'[x].calc = row[x].calc /\ row'[x].original = row[x].original

GatedAfter(x) == Approved(x)' => ~BelowThreshold(row'[x].calc) \/ x \in waived'

(* An edit finds no approved report under the version it has read. *)
LEMMA EditsMissApproved ==
    ASSUME NEW x \in Reports, NEW v, NEW s, NEW c, NEW o, Effect(x, v, s, c, o),
           Held(x, v, s), IsEditable(s), ApprovedIsGated, UNCHANGED waived
    PROVE  \A y \in Reports : Freezes(y) /\ GatedAfter(y)
BY DEF Effect, Held, IsEditable, ApprovedIsGated, Approved, Freezes, GatedAfter, Exists, Status

(* A score gives an approved report back the status it has. *)
LEMMA ScoresKeepStatus ==
    ASSUME NEW x \in Reports, NEW v, NEW s, Effect(x, v, s, row[x].calc, row[x].original),
           Held(x, v, s), ApprovedIsGated, UNCHANGED waived
    PROVE  \A y \in Reports : Freezes(y) /\ GatedAfter(y)
BY DEF Effect, Held, ApprovedIsGated, Approved, Freezes, GatedAfter, Exists, Status

(* A move to approved was let through, one to filed is from approved. *)
LEMMA MovesAreGated ==
    ASSUME NEW m \in Move, MoveHeld(m), LetThrough(m), ApprovedIsGated, UNCHANGED waived,
           Effect(m.report, m.version, m.to, row[m.report].calc, row[m.report].original)
    PROVE  \A y \in Reports : Freezes(y) /\ GatedAfter(y)
<1>1. m.from \in Status /\ m.report \in Reports BY DEF Move
<1>2. m.to = "filed" => m.from = "approved" BY <1>1, WayToFiling DEF MoveHeld
<1>3. ASSUME NEW y \in Reports, y # m.report PROVE  Freezes(y) /\ GatedAfter(y)
  BY <1>3 DEF Effect, Freezes, GatedAfter, Approved, ApprovedIsGated
<1>4. Freezes(m.report) BY <1>1 DEF Effect, Freezes
<1>5. GatedAfter(m.report)
  BY <1>1, <1>2 DEF Effect, GatedAfter, Approved, ApprovedIsGated, LetThrough, MoveHeld, Held,
     Exists, Status
<1> QED BY <1>3, <1>4, <1>5

(* No step changes the figures of an approved report, and none approves a
   report but a move that was let through. *)
LEMMA ApprovalsKept ==
    ASSUME TypeOK, RowsOK, ApprovedIsGated, NEW r \in Requests, Step(r),
           PendingOK(r), GatedOK(r)
    PROVE  \A x \in Reports : Freezes(x) /\ GatedAfter(x)
<1>1. CASE Create(r)
  BY <1>1 DEF Create, NewRow, Freezes, GatedAfter, Approved, ApprovedIsGated, TypeOK
<1>2. CASE RecalculateWrite(r)
  <2>1. req[r].report \in Reports /\ IsEditable(req[r].status)
        /\ Held(req[r].report, req[r].version, req[r].status) /\ UNCHANGED waived
    BY <1>2, LocalFields DEF RecalculateWrite, PendingOK
  <2> QED BY <1>2, <2>1, RecalculateEffect, EditsMissApproved
<1>3. CASE OverrideWrite(r)
  <2>1. req[r].report \in Reports /\ IsEditable(req[r].status)
        /\ Held(req[r].report, req[r].version, req[r].status) /\ UNCHANGED waived
    BY <1>3, LocalFields DEF OverrideWrite, PendingOK
  <2> QED BY <1>3, <2>1, OverrideEffect, EditsMissApproved
<1>4. CASE DeleteWrite(r)
  BY <1>4, LocalFields DEF DeleteWrite, Gone, NoRow, Freezes, GatedAfter, Approved, ApprovedIsGated,
     Status, TypeOK
<1>5. CASE ArchiveDuplicates(r)
  BY <1>5 DEF ArchiveDuplicates, Freezes, GatedAfter, Approved, ApprovedIsGated, TypeOK, Row
<1>6. CASE StatusWrite(r)
  BY <1>6, LocalFields, StatusEffect, MovesAreGated DEF StatusWrite, PendingOK, GatedOK,
     StatusLocals
<1>7. CASE TouchWrite(r)
  BY <1>7, LocalFields, TouchEffect, ScoresKeepStatus DEF TouchWrite, PendingOK, Freezes,
     GatedAfter, Approved, ApprovedIsGated
<1>8. CASE AmendInsert(r)
  BY <1>8 DEF AmendInsert, NewRow, Freezes, GatedAfter, Approved, ApprovedIsGated, TypeOK
<1>9. CASE UNCHANGED row /\ waived \subseteq waived'
  BY <1>9 DEF Freezes, GatedAfter, Approved, ApprovedIsGated
<1> QED BY <1>1, <1>2, <1>3, <1>4, <1>5, <1>6, <1>7, <1>8, <1>9
     DEF Step, RecalculateRead, OverrideRead, DeleteRead, StatusRead, Gate, TouchRead,
         AmendRead, AmendMax, Abandon, Refused

----
(* Every step keeps the origin of the figures. *)
LEMMA OriginsKept ==
    ASSUME TypeOK, RowsOK, OriginalIsEngine, EngineFirst, NEW r \in Requests, Step(r),
           OverrideOK(r), PendingOK(r)
    PROVE  OriginalIsEngine' /\ EngineFirst'
<1> USE DEF OriginalIsEngine, EngineFirst
<1>1. CASE Create(r) BY <1>1 DEF Create, NewRow, TypeOK, Exists, Status
<1>2. CASE RecalculateWrite(r)
  <2>1. req[r].report \in Reports BY <1>2, LocalFields DEF RecalculateWrite
  <2> QED BY <1>2, <2>1, RecalculateEffect DEF Effect, Exists
<1>3. CASE OverrideWrite(r)
  <2> DEFINE x == req[r].report
             o == Saved(row[x].original, req[r].original)
  <2>1. x \in Reports /\ req[r].original \in Data \cup {None} BY <1>3, LocalFields DEF OverrideWrite
  <2>2. Exists(x) => o # None BY <1>3 DEF OverrideWrite, OverrideOK, Saved
  <2>3. Exists(x) /\ row[x].root = None => o \in {None, "engine"}
    BY <1>3, <2>1 DEF OverrideWrite, OverrideOK, Saved
  <2>4. Effect(x, req[r].version, req[r].status, "corrected", o) BY <1>3, OverrideEffect
  <2> HIDE DEF o
  <2> QED BY <2>1, <2>2, <2>3, <2>4 DEF Effect, Exists
<1>4. CASE DeleteWrite(r) BY <1>4, LocalFields DEF DeleteWrite, Gone, NoRow, TypeOK, Exists, Status
<1>5. CASE ArchiveDuplicates(r) BY <1>5 DEF ArchiveDuplicates, TypeOK, Row, Exists, Status
<1>6. CASE StatusWrite(r)
  <2>1. req[r].move.report \in Reports BY <1>6, LocalFields DEF StatusWrite
  <2> QED BY <1>6, <2>1, StatusEffect DEF Effect, Exists
<1>7. CASE TouchWrite(r) BY <1>7, LocalFields, TouchEffect DEF TouchWrite, Effect, Exists
<1>8. CASE AmendInsert(r)
  BY <1>8, LocalFields, TaxReportAssumption DEF AmendInsert, NewRow, TypeOK, Exists, Status
<1>9. CASE UNCHANGED row BY <1>9 DEF Exists
<1> QED BY <1>1, <1>2, <1>3, <1>4, <1>5, <1>6, <1>7, <1>8, <1>9
     DEF Step, RecalculateRead, OverrideRead, DeleteRead, StatusRead, Gate, TouchRead,
         AmendRead, AmendMax, Abandon, Refused

(* No step of another request touches what a request carries. *)
LEMMA OthersWait ==
    ASSUME TypeOK, NEW r \in Requests, Step(r)
    PROVE  /\ \A q \in Requests : q # r => req'[q] = req[q]
           /\ UNCHANGED instance
           /\ faults' \in {faults, faults + 1}
           /\ faults' = 0 => faults = 0 /\ UNCHANGED <<faults, waived>>
BY TaxReportAssumption DEF Step, Create, RecalculateRead, RecalculateWrite, OverrideRead,
   OverrideWrite, DeleteRead, DeleteWrite, ArchiveDuplicates, StatusRead, Gate, StatusWrite,
   TouchRead, TouchWrite, AmendRead, AmendMax, AmendInsert, Abandon, Refused, Scored, Goto, Done,
   Fault, NoFault, TypeOK

(* Overrides under way keep figures that are still the original ones. *)
LEMMA OverridesKept ==
    ASSUME TypeOK, RowsOK, EngineFirst, NEW r \in Requests, Step(r),
           \A q \in Requests : PendingOK(q) /\ OverrideOK(q)
    PROVE  \A q \in Requests : OverrideOK(q)'
<1>1. \A x \in Reports : Moves(x) BY RowsMove
<1>2. ASSUME NEW q \in Requests, req'[q] = req[q] PROVE  OverrideOK(q)'
  <2> SUFFICES ASSUME req[q].pc = "override" PROVE  OverrideOK(q)' BY <1>2 DEF OverrideOK
  <2>1. PICK x \in Reports : x = req[q].report /\ row[x].status # "none"
    BY LocalFields DEF PendingOK, Held
  <2>2. /\ req[q].original = None => row[x].original # None \/ ~Exists(x)
        /\ Exists(x) /\ row[x].root = None => req[q].original \in {None, "engine"}
    BY <2>1 DEF OverrideOK
  <2>3. Exists(x)' => /\ Exists(x) /\ row'[x].root = row[x].root
                      /\ row[x].original # None => row'[x].original # None
    BY <1>1, <2>1 DEF Moves, Gone, NoRow, Exists, Status
  <2> QED BY <1>2, <2>1, <2>2, <2>3 DEF OverrideOK, Exists
<1>3. OverrideOK(r)'
  <2>1. CASE req'[r].pc # "override" BY <2>1 DEF OverrideOK
  <2>2. CASE OverrideRead(r)
    <3>1. PICK x \in Reports, v \in Nat :
            /\ Exists(x)
            /\ req'[r] = [pc |-> "override", report |-> x, status |-> row[x].status,
                          version |-> v,
                          original |-> IF row[x].original = None THEN row[x].calc ELSE None]
            /\ UNCHANGED row
      BY <2>2 DEF OverrideRead, Writable, Goto, TypeOK, Row
    <3>2. None \notin Data BY TaxReportAssumption DEF Data
    <3>3. row[x].calc \in Data BY <3>1 DEF RowsOK
    <3> QED BY <3>1, <3>2, <3>3 DEF OverrideOK, EngineFirst, Exists
  <2>3. CASE req'[r] = req[r] BY <1>2, <2>3
  <2>4. CASE TouchWrite(r)
    BY <2>4, LocalFields DEF TouchWrite, OverrideOK, Goto, TypeOK, StatusLocals, Idle
  <2>5. CASE Gate(r)
    BY <2>5, LocalFields DEF Gate, Scored, Goto, TypeOK, StatusLocals, OverrideOK
  <2> QED BY <2>1, <2>2, <2>3, <2>4, <2>5
       DEF Step, Create, RecalculateRead, RecalculateWrite, OverrideWrite, DeleteRead,
           DeleteWrite, ArchiveDuplicates, StatusRead, StatusWrite, TouchRead, AmendRead,
           AmendMax, AmendInsert, Abandon, Refused, Scored, Goto, Done, Idle, TypeOK
<1> QED BY <1>2, <1>3, OthersWait

----
(* An update takes no row away and moves none to another root. *)
LEMMA UpdateKeepsRoots ==
    ASSUME NEW x \in Reports, NEW v, NEW s \in Status, NEW c, NEW o, Effect(x, v, s, c, o)
    PROVE  \A y \in Reports : (Exists(y) => Exists(y)') /\ row'[y].root = row[y].root
BY DEF Effect, Exists

(* Every step keeps the chain of amendments flat. *)
LEMMA RootsKept ==
    ASSUME TypeOK, RowsOK, AmendmentsHaveRoot, NEW r \in Requests, Step(r),
           \A q \in Requests : AmendOK(q)
    PROVE  AmendmentsHaveRoot' /\ \A q \in Requests : AmendOK(q)'
<1>1. \A x \in Reports : Moves(x) BY RowsMove
<1>2. ASSUME NEW x \in Reports, row[x].status # "none", row[x].root = None
      PROVE  row'[x].status # "none" /\ row'[x].root = None
  BY <1>1, <1>2 DEF Moves, Gone, NoRow, Exists, Status
<1>3. ASSUME NEW q \in Requests, req'[q] = req[q] PROVE  AmendOK(q)'
  BY <1>2, <1>3, LocalFields DEF AmendOK
<1>4. AmendOK(r)'
  <2>1. CASE req'[r].pc \notin {"amend_max", "amend"} BY <2>1 DEF AmendOK
  <2>2. CASE req'[r] = req[r] BY <1>3, <2>2
  <2>3. CASE AmendRead(r)
    <3>1. PICK x \in Reports :
            /\ row[x].status = "filed"
            /\ req'[r] = [pc |-> "amend_max", root |-> RootOf(x), calc |-> row[x].calc]
            /\ UNCHANGED row
      BY <2>3 DEF AmendRead, Goto, TypeOK
    <3>2. row[RootOf(x)].status # "none" /\ row[RootOf(x)].root = None
      BY <3>1 DEF RootOf, AmendmentsHaveRoot, TypeOK, Row, Exists, Status
    <3> QED BY <3>1, <3>2 DEF AmendOK
  <2>4. CASE AmendMax(r) BY <2>4 DEF AmendMax, AmendOK, Goto, TypeOK
  <2>5. CASE TouchWrite(r)
    BY <2>5, LocalFields DEF TouchWrite, AmendOK, Goto, TypeOK, StatusLocals, Idle
  <2>6. CASE Gate(r)
    BY <2>6, LocalFields DEF Gate, Scored, Goto, TypeOK, StatusLocals, AmendOK
  <2> QED BY <2>1, <2>2, <2>3, <2>4, <2>5, <2>6
       DEF Step, Create, RecalculateRead, RecalculateWrite, OverrideRead, OverrideWrite,
           DeleteRead, DeleteWrite, ArchiveDuplicates, StatusRead, StatusWrite, TouchRead,
           AmendInsert, Abandon, Refused, Scored, Goto, Done, Idle, TypeOK
<1>5. AmendmentsHaveRoot'
  <2> USE DEF AmendmentsHaveRoot
  <2>1. CASE DeleteWrite(r)
    <3>1. req[r].report \in Reports BY <2>1, LocalFields DEF DeleteWrite
    <3>2. CASE UNCHANGED row BY <3>2 DEF Exists
    <3>3. CASE Amendments(req[r].report) = {} /\ row' = [row EXCEPT ![req[r].report] = Gone]
      BY <3>1, <3>3 DEF Amendments, Gone, NoRow, Exists, Status, TypeOK, RowsOK, Row
    <3> QED BY <2>1, <3>2, <3>3 DEF DeleteWrite
  <2>2. CASE AmendInsert(r)
    <3>1. PICK root \in Reports :
            /\ root = req[r].root /\ Exists(root) /\ row[root].root = None
      BY <2>2, LocalFields DEF AmendInsert, AmendOK
    <3>2. PICK x \in Reports :
            /\ row[x].status = "none"
            /\ row' = [row EXCEPT ![x] = NewRow(req[r].calc, root, req[r].number)]
      BY <2>2, <3>1 DEF AmendInsert
    <3> QED BY <3>1, <3>2 DEF NewRow, Exists, Status, TypeOK, RowsOK, Row
  <2>3. CASE Create(r)
    <3>1. PICK x \in Reports :
            row[x].status = "none" /\ row' = [row EXCEPT ![x] = NewRow("engine", None, 0)]
      BY <2>3 DEF Create
    <3> QED BY <3>1 DEF NewRow, Exists, Status, TypeOK, RowsOK, Row
  <2>4. CASE \A x \in Reports :
               /\ Exists(x) => Exists(x)'
               /\ row'[x].root = row[x].root
    BY <2>4 DEF TypeOK, Row
  <2>5. CASE ArchiveDuplicates(r) BY <2>4, <2>5 DEF ArchiveDuplicates, Exists, Status, TypeOK, Row
  <2>6. CASE RecalculateWrite(r)
    <3>1. req[r].report \in Reports /\ req[r].status \in Status
      BY <2>6, LocalFields DEF RecalculateWrite
    <3> QED BY <2>4, <2>6, <3>1, RecalculateEffect, UpdateKeepsRoots
  <2>7. CASE OverrideWrite(r)
    <3>1. req[r].report \in Reports /\ req[r].status \in Status
      BY <2>7, LocalFields DEF OverrideWrite
    <3> QED BY <2>4, <2>7, <3>1, OverrideEffect, UpdateKeepsRoots
  <2>8. CASE StatusWrite(r)
    <3>1. req[r].move.report \in Reports /\ req[r].move.to \in Status
      BY <2>8, LocalFields DEF StatusWrite
    <3> QED BY <2>4, <2>8, <3>1, StatusEffect, UpdateKeepsRoots
  <2>9. CASE TouchWrite(r) BY <2>4, <2>9, TouchEffect, LocalFields DEF TouchWrite, Effect, Exists
  <2>10. CASE UNCHANGED row BY <2>10 DEF Exists
  <2> QED BY <2>1, <2>2, <2>3, <2>5, <2>6, <2>7, <2>8, <2>9, <2>10
       DEF Step, RecalculateRead, OverrideRead, DeleteRead, StatusRead, Gate, TouchRead,
           AmendRead, AmendMax, Abandon, Refused
<1> QED BY <1>3, <1>4, <1>5, OthersWait

----
(* While no statement has failed nothing gets approved: the score of a gate
   takes the version of the approval behind it. *)
LEMMA LateKept ==
    ASSUME TypeOK, RowsOK, ApprovalNeedsFault, NEW r \in Requests, Step(r),
           \A q \in Requests : PendingOK(q) /\ LateOK(q)
    PROVE  ApprovalNeedsFault' /\ \A q \in Requests : LateOK(q)'
<1>1. SUFFICES ASSUME faults = 0, faults' = 0, UNCHANGED faults
               PROVE  ApprovalNeedsFault' /\ \A q \in Requests : LateOK(q)'
  BY OthersWait DEF ApprovalNeedsFault, LateOK
<1>2. \A x \in Reports : Moves(x) /\ ~Approved(x) BY <1>1, RowsMove DEF ApprovalNeedsFault, Approved
<1>3. ASSUME NEW m \in Move, MoveHeld(m), Exists(m.report) => row[m.report].version > m.version
      PROVE  Exists(m.report)' => row'[m.report].version > m.version
  BY <1>2, <1>3 DEF Moves, MoveHeld, Held, Move, Exists, Status, Gone, NoRow, TypeOK, Row
<1>4. ASSUME NEW q \in Requests, req'[q] = req[q] PROVE  LateOK(q)'
  <2> SUFFICES ASSUME req[q].pc = "status", req[q].move.to = "approved" PROVE  LateOK(q)'
    BY <1>4 DEF LateOK
  <2>1. PICK m \in Move : m = req[q].move /\ MoveHeld(m) BY LocalFields DEF PendingOK, StatusLocals
  <2>2. Exists(m.report) => row[m.report].version > m.version BY <1>1, <2>1 DEF LateOK
  <2> QED BY <1>3, <1>4, <2>1, <2>2 DEF LateOK
<1>5. LateOK(r)'
  <2>1. CASE req'[r].pc # "status" BY <2>1 DEF LateOK
  <2>2. CASE req'[r] = req[r] BY <1>4, <2>2
  <2>3. CASE StatusRead(r) BY <2>3 DEF StatusRead, LateOK, Goto, TypeOK
  <2>4. CASE Gate(r) BY <1>1, <2>4, <2>1 DEF Gate, Scored, Fault, Goto, TypeOK
  <2>5. CASE TouchWrite(r) /\ req[r].then # Idle
    <3>1. PICK m \in Move, next \in StatusLocals, x \in Reports, v \in Nat :
            /\ next = req[r].then /\ m = next.move /\ MoveHeld(m)
            /\ x = req[r].report /\ m.report = x /\ v = req[r].version /\ m.version <= v
            /\ Held(x, v, req[r].status)
      BY <2>5, LocalFields DEF TouchWrite, PendingOK, StatusLocals
    <3>2. Effect(x, v, req[r].status, row[x].calc, row[x].original)
      BY <1>1, <2>5, <3>1, TouchEffect DEF Fault
    <3>3. m.version \in Nat /\ (Exists(x) => row[x].version \in Nat) BY DEF Move, TypeOK, Row
    <3>4. Exists(x)' => row'[x].version > m.version BY <3>1, <3>2, <3>3 DEF Effect, Held, Exists
    <3>5. req'[r].move = m BY <2>5, <3>1 DEF TouchWrite, Goto, TypeOK
    <3> QED BY <3>1, <3>4, <3>5 DEF LateOK
  <2> QED BY <2>1, <2>2, <2>3, <2>4, <2>5
       DEF Step, Create, RecalculateRead, RecalculateWrite, OverrideRead, OverrideWrite,
           DeleteRead, DeleteWrite, ArchiveDuplicates, StatusWrite, TouchRead, TouchWrite,
           AmendRead, AmendMax, AmendInsert, Abandon, Refused, Scored, Goto, Done, Idle, TypeOK
<1>6. ASSUME NEW x \in Reports PROVE  ~Approved(x)'
  <2>1. ~Approved(x) /\ Moves(x) BY <1>2
  <2>2. CASE RecalculateWrite(r)
    <3>1. req[r].report \in Reports /\ IsEditable(req[r].status)
      BY <2>2, LocalFields DEF RecalculateWrite, PendingOK
    <3> QED BY <2>1, <2>2, <3>1, RecalculateEffect DEF Effect, Approved, IsEditable
  <2>3. CASE OverrideWrite(r)
    <3>1. req[r].report \in Reports /\ IsEditable(req[r].status)
      BY <2>3, LocalFields DEF OverrideWrite, PendingOK
    <3> QED BY <2>1, <2>3, <3>1, OverrideEffect DEF Effect, Approved, IsEditable
  <2>4. CASE StatusWrite(r)
    <3>1. PICK m \in Move : /\ m = req[r].move /\ MoveHeld(m)
                            /\ m.to = "approved" /\ Exists(m.report)
                                  => row[m.report].version > m.version
      BY <1>1, <2>4, LocalFields DEF StatusWrite, PendingOK, StatusLocals, LateOK
    <3>2. m.report \in Reports /\ (m.to = "filed" => m.from = "approved")
      BY <3>1, WayToFiling DEF Move, MoveHeld
    <3>3. Effect(m.report, m.version, m.to, row[m.report].calc, row[m.report].original)
      BY <2>4, <3>1, StatusEffect
    <3>4. m.version \in Nat BY DEF Move
    <3> QED BY <1>2, <3>1, <3>2, <3>3, <3>4 DEF Effect, Approved, MoveHeld, Held, Exists, Status
  <2>5. CASE TouchWrite(r)
    <3>1. PICK y \in Reports, v \in Nat :
            y = req[r].report /\ v = req[r].version /\ Held(y, v, req[r].status)
      BY <2>5, LocalFields DEF TouchWrite, PendingOK
    <3>2. Effect(y, v, req[r].status, row[y].calc, row[y].original)
      BY <1>1, <2>5, <3>1, TouchEffect DEF Fault
    <3> QED BY <1>2, <3>1, <3>2 DEF Effect, Approved, Held, Exists, Status
  <2>6. CASE UNCHANGED row BY <2>1, <2>6 DEF Approved
  <2>7. CASE Create(r) \/ DeleteWrite(r) \/ ArchiveDuplicates(r) \/ AmendInsert(r)
    BY <2>1, <2>7, LocalFields DEF Create, DeleteWrite, ArchiveDuplicates, AmendInsert, NewRow,
       Gone, NoRow, Approved, TypeOK, Row
  <2> QED BY <2>2, <2>3, <2>4, <2>5, <2>6, <2>7
       DEF Step, RecalculateRead, OverrideRead, DeleteRead, StatusRead, Gate, TouchRead,
           AmendRead, AmendMax, Abandon, Refused
<1>7. moved' = {}
  <2>1. moved = {} BY <1>1 DEF ApprovalNeedsFault
  <2>2. CASE StatusWrite(r)
    <3>1. PICK m \in Move : /\ m = req[r].move
                            /\ m.to = "approved" /\ Exists(m.report)
                                  => row[m.report].version > m.version
      BY <1>1, <2>2, LocalFields DEF StatusWrite, StatusLocals, LateOK
    <3>2. m.to = "approved" => UNCHANGED row
      BY <2>2, <3>1 DEF StatusWrite, UpdateReport, Move, TypeOK, Row
    <3> QED BY <2>1, <2>2, <3>1, <3>2 DEF StatusWrite
  <2> QED BY <2>1, <2>2
       DEF Step, Create, RecalculateRead, RecalculateWrite, OverrideRead, OverrideWrite,
           DeleteRead, DeleteWrite, ArchiveDuplicates, StatusRead, Gate, TouchRead, TouchWrite,
           AmendRead, AmendMax, AmendInsert, Abandon, Refused
<1> QED BY <1>4, <1>5, <1>6, <1>7, OthersWait DEF ApprovalNeedsFault, Approved

----
(* Alone, a request numbers its amendment above those there are and inserts it
   before anything else happens. *)
LEMMA NumbersKept ==
    ASSUME TypeOK, RowsOK, Bounded, NumbersUnique, AmendmentsHaveRoot,
           NEW r \in Requests, Step(r),
           \A q \in Requests : NumberOK(q) /\ AmendOK(q)
    PROVE  NumbersUnique' /\ \A q \in Requests : NumberOK(q)'
<1>1. r \in instance.requests
  BY DEF Step, Create, RecalculateRead, RecalculateWrite, OverrideRead, OverrideWrite, DeleteRead,
     DeleteWrite, ArchiveDuplicates, StatusRead, Gate, StatusWrite, TouchRead, TouchWrite,
     AmendRead, AmendMax, AmendInsert, Abandon, Refused, Starts, NumberOK, Idle
<1>2. \A q \in Requests : q \notin instance.requests => req'[q] = Idle
  BY <1>1, OthersWait DEF NumberOK
<1>3. CASE ~OneAtATime BY <1>2, <1>3, OthersWait DEF NumberOK, OneAtATime, NumbersUnique
<1>4. CASE OneAtATime
  <2>1. instance.requests = {r} BY <1>1, <1>4 DEF OneAtATime
  <2>2. \A q \in Requests : q # r => NumberOK(q)' BY <1>2, <2>1, OthersWait DEF NumberOK, Idle
  <2>3. NumberOK(r)'
    <3>1. CASE req'[r].pc # "amend" BY <1>1, <3>1, OthersWait DEF NumberOK
    <3>2. CASE AmendMax(r)
      <4>1. PICK root \in Reports : root = req[r].root BY <3>2, LocalFields DEF AmendMax
      <4>2. /\ UNCHANGED <<row, instance>> /\ req'[r].root = root
            /\ req'[r].number = MaxNumber(root) + 1
        BY <3>2, <4>1 DEF AmendMax, Goto, TypeOK
      <4>3. \A y \in Amendments(root) : row[y].number <= MaxNumber(root) /\ row[y].number \in Nat
        BY MaxNumberIsMax DEF Amendments, TypeOK, Row
      <4>4. \A y \in Amendments(root) : row[y].number < MaxNumber(root) + 1 BY <4>3, MaxNumberIsMax
      <4>5. (\A y \in Amendments(root) : row[y].number < MaxNumber(root) + 1)'
        BY <4>2, <4>4 DEF MaxNumber, Amendments, Exists
      <4> QED BY <1>2, <4>2, <4>4, <4>5 DEF NumberOK, MaxNumber, Amendments, Exists
    <3>3. CASE ArchiveDuplicates(r) \/ Create(r)
      BY <3>1, <3>3 DEF ArchiveDuplicates, Create, Starts, Idle
    <3>4. CASE TouchWrite(r)
      BY <3>1, <3>4, LocalFields DEF TouchWrite, Goto, TypeOK, StatusLocals, Idle
    <3>5. CASE Gate(r)
      BY <3>5, LocalFields, <3>1 DEF Gate, Scored, Goto, TypeOK, StatusLocals
    <3> QED BY <3>1, <3>2, <3>3, <3>4, <3>5
         DEF Step, RecalculateRead, RecalculateWrite, OverrideRead, OverrideWrite, DeleteRead,
             DeleteWrite, StatusRead, StatusWrite, TouchRead, AmendRead, AmendInsert, Abandon,
             Refused, Scored, Goto, Done, Idle, TypeOK
  <2>4. NumbersUnique'
    <3> SUFFICES ASSUME NEW x \in Reports, NEW y \in Reports, x # y, Exists(x)', Exists(y)',
                        row'[x].root = row'[y].root, row'[x].root # None
                 PROVE  row'[x].number # row'[y].number
      BY DEF NumbersUnique
    <3>1. CASE AmendInsert(r)
      <4>1. PICK z \in Reports :
              /\ row[z].status = "none"
              /\ row' = [row EXCEPT ![z] = NewRow(req[r].calc, req[r].root, req[r].number)]
        BY <3>1 DEF AmendInsert
      <4>2. \A w \in Amendments(req[r].root) : row[w].number < req[r].number
        BY <1>4, <3>1 DEF NumberOK, AmendInsert
      <4>3. req[r].number \in Nat /\ \A w \in Reports : row[w].number \in Nat
        BY <3>1, LocalFields DEF AmendInsert, TypeOK, Row
      <4>4. ASSUME NEW w \in Reports, w # z, Exists(w)', row'[w].root = req[r].root
            PROVE  row'[w].number < req[r].number
        BY <4>1, <4>2, <4>4 DEF Amendments, Exists, TypeOK
      <4>5. CASE x # z /\ y # z BY <1>4, <4>1, <4>5 DEF NumbersUnique, Exists, TypeOK
      <4>6. /\ row'[z].root = req[r].root /\ row'[z].number = req[r].number
            /\ \A w \in Reports : w # z => row'[w] = row[w]
        BY <4>1 DEF NewRow, TypeOK
      <4> QED BY <4>3, <4>4, <4>5, <4>6
    <3>2. CASE Create(r)
      <4>1. PICK z \in Reports :
              row[z].status = "none" /\ row' = [row EXCEPT ![z] = NewRow("engine", None, 0)]
        BY <3>2 DEF Create
      <4>2. x # z /\ y # z BY <4>1 DEF NewRow, TypeOK
      <4> QED BY <1>4, <4>1, <4>2 DEF NumbersUnique, Exists, TypeOK
    <3>3. CASE ~AmendInsert(r) /\ ~Create(r)
      <4>1. ASSUME NEW w \in Reports, Exists(w)'
            PROVE  Exists(w) /\ row'[w].root = row[w].root /\ row'[w].number = row[w].number
        <5>1. Moves(w) BY RowsMove
        <5>2. CASE row[w].status = "none"
          <6>1. ~Exists(w) BY <5>2 DEF Exists, Status
          <6>2. row'[w] = row[w]
            BY <3>3, <5>2, <6>1, RecalculateEffect, OverrideEffect, StatusEffect, TouchEffect
               DEF Step, RecalculateRead, OverrideRead, DeleteRead, StatusRead, Gate, TouchRead,
               AmendRead, AmendMax, Abandon, Refused, Effect, DeleteWrite, ArchiveDuplicates, TypeOK
          <6> QED BY <4>1, <6>1, <6>2 DEF Exists
        <5> QED BY <4>1, <5>1, <5>2 DEF Moves, Gone, NoRow, Exists, Status
      <4> QED BY <1>4, <4>1 DEF NumbersUnique
    <3> QED BY <3>1, <3>2, <3>3
  <2> QED BY <2>2, <2>3, <2>4
<1> QED BY <1>3, <1>4

----
(* The first state has the invariant, *)
LEMMA InvAtStart == Init => Inv
<1> SUFFICES ASSUME Init PROVE Inv OBVIOUS
<1>1. instance \in Instances /\ instance.faults \in Nat BY TaxReportAssumption DEF Init
<1>2. \A x \in Reports : row[x] \in {NoRow, Gone} BY DEF Init
<1>3. /\ NoRow \in Row /\ Gone \in Row
      /\ NoRow.status = "none" /\ Gone.status = "deleted"
      /\ \A n \in {NoRow, Gone} : n.original = None /\ n.root = None /\ n.number = 0
  BY DEF NoRow, Gone, Row
<1>4. TypeOK BY <1>1, <1>3 DEF Init, TypeOK, Locals
<1>5. \A x \in Reports : ~Exists(x) BY <1>2, <1>3 DEF Exists, Status
<1>6. RowsOK /\ Bounded BY <1>2, <1>3, <1>5 DEF RowsOK, Bounded
<1>7. \A r \in Requests : req[r] = Idle /\ req[r].pc = "idle" BY DEF Init, Idle
<1>8. \A r \in Requests : PendingOK(r) /\ GatedOK(r) /\ OverrideOK(r) /\ AmendOK(r) /\ LateOK(r)
  BY <1>7 DEF PendingOK, GatedOK, OverrideOK, AmendOK, LateOK
<1>9. \A r \in Requests : NumberOK(r) BY <1>7 DEF NumberOK
<1>10. ApprovedIsGated /\ OriginalIsEngine /\ EngineFirst /\ AmendmentsHaveRoot
  BY <1>2, <1>3, <1>5 DEF ApprovedIsGated, OriginalIsEngine, EngineFirst, AmendmentsHaveRoot
<1>11. ApprovalNeedsFault /\ NumbersUnique
  BY <1>2, <1>3, <1>5 DEF ApprovalNeedsFault, NumbersUnique, Init
<1> QED BY <1>4, <1>6, <1>8, <1>9, <1>10, <1>11 DEF Inv

(* every step keeps it, *)
LEMMA InvKept ==
    ASSUME Inv, NEW r \in Requests, Step(r)
    PROVE  Inv'
<1>1. TypeOK /\ RowsOK /\ Bounded BY DEF Inv
<1>2. TypeOK' /\ RowsOK' /\ Bounded' BY <1>1, TypesKept, RowsMove, RowsKept, BoundKept
<1>3. \A q \in Requests : PendingOK(q)' /\ GatedOK(q)' /\ OverrideOK(q)'
  BY PendingKept, GatedKept, OverridesKept DEF Inv
<1>4. AmendmentsHaveRoot' /\ \A q \in Requests : AmendOK(q)' BY RootsKept DEF Inv
<1>5. ApprovalNeedsFault' /\ \A q \in Requests : LateOK(q)' BY LateKept DEF Inv
<1>6. NumbersUnique' /\ \A q \in Requests : NumberOK(q)' BY NumbersKept DEF Inv
<1>7. ApprovedIsGated' BY ApprovalsKept DEF Inv, GatedAfter, Approved, ApprovedIsGated
<1>8. OriginalIsEngine' /\ EngineFirst' BY OriginsKept DEF Inv
<1> QED BY <1>2, <1>3, <1>4, <1>5, <1>6, <1>7, <1>8 DEF Inv

(* and so does a step that changes nothing. *)
LEMMA InvStutters ==
    ASSUME Inv, UNCHANGED vars
    PROVE  Inv'
<1> USE DEF vars, Exists
<1>1. TypeOK' /\ RowsOK' /\ Bounded' BY DEF Inv, TypeOK, RowsOK, Bounded
<1>2. \A r \in Requests : PendingOK(r)' /\ GatedOK(r)' /\ LateOK(r)'
  BY DEF Inv, PendingOK, MoveHeld, Held, GatedOK, LetThrough, LateOK
<1>3. \A r \in Requests : OverrideOK(r)' /\ AmendOK(r)' /\ NumberOK(r)'
  BY DEF Inv, OverrideOK, AmendOK, NumberOK, OneAtATime, Amendments
<1>4. ApprovedIsGated' /\ OriginalIsEngine' /\ EngineFirst' /\ AmendmentsHaveRoot'
  BY DEF Inv, ApprovedIsGated, OriginalIsEngine, EngineFirst, AmendmentsHaveRoot
<1>5. ApprovalNeedsFault' /\ NumbersUnique'
  BY DEF Inv, ApprovalNeedsFault, NumbersUnique, OneAtATime
<1> QED BY <1>1, <1>2, <1>3, <1>4, <1>5 DEF Inv

(* The invariant holds in every state of every behaviour. *)
THEOREM InvAlways == Spec => []Inv
<1>1. Inv /\ [Next]_vars => Inv' BY InvKept, InvStutters DEF Next
<1> QED BY <1>1, InvAtStart, PTL DEF Spec

(* Rows hold what they are said to hold and came from where they say, whatever
   requests interleave and fail: approvals are gated, original figures are the
   engine's, amendments are of a report that is there and, one request at a
   time, have numbers of their own. *)
THEOREM ReportsAreSound == Spec => []ReportsSound
<1>1. Inv => ReportsSound BY DEF Inv, ReportsSound
<1> QED BY <1>1, InvAlways, PTL

(* As long as every statement works no report is ever approved: the gate's own
   write takes the version that the approval needs. *)
THEOREM NothingApprovedWithoutFault == Spec => []ApprovalNeedsFault
<1>1. Inv => ApprovalNeedsFault BY DEF Inv
<1> QED BY <1>1, InvAlways, PTL

(* No interleaving of requests changes the figures of an approved or filed
   report. *)
THEOREM FiguresFreeze == Spec => ApprovedIsFrozen
<1> DEFINE Frozen == \A x \in Reports :
         (row[x].status \in {"approved", "filed"} /\ row'[x].status \in Status) =>
             row'[x].calc = row[x].calc /\ row'[x].original = row[x].original
<1>1. Inv /\ [Next]_vars => [Frozen]_vars BY ApprovalsKept DEF Next, Inv, Freezes, Approved
<1> QED BY <1>1, InvAlways, PTL DEF Spec, ApprovedIsFrozen
=============================================================================
