------------------------------ MODULE TaxReport ------------------------------
(***************************************************************************)
(* Tax reports of one company, form and period: their workflow             *)
(* (domain/workflow.go), the operations of service/report_service.go and   *)
(* report_amendment.go and the compliance gate of                          *)
(* service/compliance_service.go, over queries/reports.sql.  The log of    *)
(* transitions is written after a move and never read; it is left out.     *)
(*                                                                         *)
(* A row has a version.  UpdateReport writes WHERE version = the version   *)
(* the request has read and adds one; it is an :exec, so a request whose   *)
(* version is gone writes nothing and goes on as if it had.                *)
(***************************************************************************)
EXTENDS Integers, FiniteSets

CONSTANTS
    Reports,    \* identities of rows of reports
    Requests,   \* the requests that can be under way at once
    Instances,  \* the bounds of a behaviour: its requests, the reports deleted before
                \* it starts, the reports created with them, the versions of a row and
                \* the statements that fail
    None        \* NULL

ASSUME TaxReportAssumption ==
    /\ Instances \subseteq [requests : SUBSET Requests, gone : SUBSET Reports,
                             created : Nat, versions : Nat, faults : Nat]
    /\ None \notin Reports \cup {"engine", "corrected"}

VARIABLES
    instance, \* the bounds of this behaviour
    row,     \* the reports table
    moved,   \* auxiliary: the reports UpdateStatus has approved
    waived,  \* auxiliary: the rows approved although their validation failed
    req,     \* the local state of each request
    faults   \* the faults so far

vars == <<instance, row, moved, waived, req, faults>>

-----------------------------------------------------------------------------
(* domain/workflow.go *)

Status == {"draft", "review", "approved", "rejected", "filed", "archived"}

ValidTransitions ==
    [draft    |-> {"review"},
     review   |-> {"approved", "rejected", "draft"},
     approved |-> {"filed", "review"},
     rejected |-> {"draft"},
     filed    |-> {"archived"},
     archived |-> {}]

IsValidTransition(from, to) == to \in ValidTransitions[from]
IsEditable(status) == status \in {"draft", "review", "rejected"}

(* What the calculated data can be: what the tax engine returns for the input,
   which falls short of the compliance threshold, or with figures corrected by
   hand, which does not. *)
Data == {"engine", "corrected"}
BelowThreshold(data) == data = "engine"

Row == [status : Status \cup {"none", "deleted"}, version : Nat, calc : Data \cup {None},
        original : Data \cup {None}, root : Reports \cup {None}, number : Nat]
NoRow == [status |-> "none", version |-> 0, calc |-> None, original |-> None,
          root |-> None, number |-> 0]
Gone == [NoRow EXCEPT !.status = "deleted"]

Move == [report : Reports, from : Status, to : Status, version : Nat]

Idle == [pc |-> "idle"]
StatusLocals == [pc : {"gate", "status"}, move : Move]
Locals ==
    {Idle} \cup StatusLocals
    \cup [pc : {"touch"}, report : Reports, status : Status, version : Nat,
          then : {Idle} \cup StatusLocals]
    \cup [pc : {"recalculate"}, report : Reports, status : Status, version : Nat]
    \cup [pc : {"override"}, report : Reports, status : Status, version : Nat,
          original : Data \cup {None}]
    \cup [pc : {"delete"}, report : Reports]
    \cup [pc : {"amend_max"}, root : Reports, calc : Data]
    \cup [pc : {"amend"}, root : Reports, calc : Data, number : Nat]

TypeOK ==
    /\ instance \in Instances
    /\ row \in [Reports -> Row]
    /\ moved \in SUBSET Reports
    /\ waived \in SUBSET Reports
    /\ req \in [Requests -> Locals]
    /\ faults \in 0..instance.faults

Init ==
    /\ instance \in Instances
    /\ row = [x \in Reports |-> IF x \in instance.gone THEN Gone ELSE NoRow]
    /\ moved = {} /\ waived = {}
    /\ req = [r \in Requests |-> Idle]
    /\ faults = 0

Fault == faults < instance.faults /\ faults' = faults + 1
NoFault == UNCHANGED faults

Goto(r, local) == req' = [req EXCEPT ![r] = local]
Done(r) == Goto(r, Idle)
Starts(r) == r \in instance.requests /\ req[r] = Idle

Exists(x) == row[x].status \in Status
Writable(x) == Exists(x) /\ row[x].version < instance.versions

(* Mutant: the WHERE has lost its version. *)
UpdateAnyVersion(x, version, change) ==
    IF Exists(x)
    THEN [row EXCEPT ![x] = [change EXCEPT !.version = @ + 1]]
    ELSE row

(* UpdateReport: change is the row with the columns that are written. *)
UpdateReport(x, version, change) ==
    IF Exists(x) /\ row[x].version = version
    THEN [row EXCEPT ![x] = [change EXCEPT !.version = @ + 1]]
    ELSE row

-----------------------------------------------------------------------------
NewRow(calc, root, number) ==
    [status |-> "draft", version |-> 1, calc |-> calc, original |-> None,
     root |-> root, number |-> number]

(* Create runs the tax engine and inserts, one statement. *)
Create(r) ==
    /\ Starts(r)
    /\ Cardinality({x \in Reports : row[x].status # "none" /\ row[x].root = None})
           < instance.created
    /\ \E x \in Reports :
         /\ row[x].status = "none"
         /\ row' = [row EXCEPT ![x] = NewRow("engine", None, 0)]
    /\ UNCHANGED <<instance, moved, waived, req, faults>>

RecalculateRead(r) ==
    /\ Starts(r)
    /\ \E x \in Reports :
         /\ Writable(x) /\ IsEditable(row[x].status)
         /\ Goto(r, [pc |-> "recalculate", report |-> x, status |-> row[x].status,
                     version |-> row[x].version])
    /\ UNCHANGED <<instance, row, moved, waived, faults>>

RecalculateWrite(r) ==
    /\ req[r].pc = "recalculate"
    /\ LET x == req[r].report
       IN  row' = UpdateReport(x, req[r].version,
                      [row[x] EXCEPT !.status = req[r].status, !.calc = "engine"])
    /\ Done(r)
    /\ UNCHANGED <<instance, moved, waived, faults>>

(* ApplyOverrides: the version is the one the client edited; 0 stands for any
   earlier than the one there is. *)
OverrideRead(r) ==
    /\ Starts(r)
    /\ \E x \in Reports : \E version \in {0, row[x].version} :
         /\ Writable(x) /\ IsEditable(row[x].status)
         /\ Goto(r, [pc |-> "override", report |-> x, status |-> row[x].status,
                     version |-> version,
                     original |-> IF row[x].original = None THEN row[x].calc ELSE None])
    /\ UNCHANGED <<instance, row, moved, waived, faults>>

(* COALESCE($8, original_calculated_data) *)
Saved(old, new) == IF new # None THEN new ELSE old

OverrideWrite(r) ==
    /\ req[r].pc = "override"
    /\ LET x == req[r].report
       IN  row' = UpdateReport(x, req[r].version,
                      [row[x] EXCEPT !.status = req[r].status, !.calc = "corrected",
                                     !.original = Saved(@, req[r].original)])
    /\ Done(r)
    /\ UNCHANGED <<instance, moved, waived, faults>>

(* Delete checks the status in one statement and deletes in the next, with no
   condition but the foreign key of the amendments. *)
DeleteRead(r) ==
    /\ Starts(r)
    /\ \E x \in Reports :
         /\ row[x].status = "draft"
         /\ Goto(r, [pc |-> "delete", report |-> x])
    /\ UNCHANGED <<instance, row, moved, waived, faults>>

Amendments(x) == {y \in Reports : Exists(y) /\ row[y].root = x}

DeleteWrite(r) ==
    /\ req[r].pc = "delete"
    /\ LET x == req[r].report
       IN  row' = IF Exists(x) /\ Amendments(x) = {}
                  THEN [row EXCEPT ![x] = Gone]
                  ELSE row
    /\ Done(r)
    /\ UNCHANGED <<instance, moved, waived, faults>>

(* ArchiveDuplicates: one UPDATE of the other rows; it leaves their version. *)
ArchiveDuplicates(r) ==
    /\ Starts(r)
    /\ \E x \in Reports :
         /\ Exists(x)
         /\ row' = [y \in Reports |->
                      IF y # x /\ row[y].status \in {"draft", "rejected"}
                      THEN [row[y] EXCEPT !.status = "archived"]
                      ELSE row[y]]
    /\ UNCHANGED <<instance, moved, waived, req, faults>>

-----------------------------------------------------------------------------
(* UpdateStatus: the row is read; an approval is validated first. *)
StatusRead(r) ==
    /\ Starts(r)
    /\ \E x \in Reports, to \in Status :
         /\ Writable(x)
         /\ IsValidTransition(row[x].status, to)
         /\ Goto(r, [pc |-> IF to = "approved" THEN "gate" ELSE "status",
                     move |-> [report |-> x, from |-> row[x].status, to |-> to,
                               version |-> row[x].version]])
    /\ UNCHANGED <<instance, row, moved, waived, faults>>

(* ValidateReport scores the row as it is now and writes the score back with
   UpdateReport; the write is the next step, whatever its outcome. *)
Scored(r, x, then) ==
    Goto(r, [pc |-> "touch", report |-> x, status |-> row[x].status,
             version |-> row[x].version, then |-> then])

(* Mutant: the score is never looked at. *)
GatePasses(data) == TRUE
MeetsThreshold(data) == ~BelowThreshold(data)

(* The gate is open when the validation fails. *)
Gate(r) ==
    /\ req[r].pc = "gate"
    /\ LET x == req[r].move.report
           next == [req[r] EXCEPT !.pc = "status"]
       IN  \/ /\ Exists(x)
              /\ NoFault
              /\ Scored(r, x, IF MeetsThreshold(row[x].calc) THEN next ELSE Idle)
              /\ UNCHANGED waived
           \/ /\ Fault
              /\ waived' = waived \cup {x}
              /\ Goto(r, next)
    /\ UNCHANGED <<instance, row, moved>>

(* The compliance endpoint runs the same validation; the task that renders a
   PDF reads the row and writes the file's path in the same way. *)
TouchRead(r) ==
    /\ Starts(r)
    /\ \E x \in Reports : Writable(x) /\ Scored(r, x, Idle)
    /\ UNCHANGED <<instance, row, moved, waived, faults>>

TouchWrite(r) ==
    /\ req[r].pc = "touch"
    /\ \/ /\ row' = UpdateReport(req[r].report, req[r].version,
                        [row[req[r].report] EXCEPT !.status = req[r].status])
          /\ NoFault
       \/ /\ Fault
          /\ UNCHANGED row
    /\ Goto(r, req[r].then)
    /\ UNCHANGED <<instance, moved, waived>>

(* The move is written under the version that was read before the gate. *)
StatusWrite(r) ==
    /\ req[r].pc = "status"
    /\ LET m == req[r].move
           x == m.report
       IN  /\ row' = UpdateReport(x, m.version, [row[x] EXCEPT !.status = m.to])
           /\ moved' = IF row' # row /\ m.to = "approved" THEN moved \cup {x} ELSE moved
    /\ Done(r)
    /\ UNCHANGED <<instance, waived, faults>>

-----------------------------------------------------------------------------
(* AmendReport: a filed report is copied as a draft under the next number. *)
RootOf(x) == IF row[x].root = None THEN x ELSE row[x].root

AmendRead(r) ==
    /\ Starts(r)
    /\ \E x \in Reports :
         /\ row[x].status = "filed"
         /\ Goto(r, [pc |-> "amend_max", root |-> RootOf(x), calc |-> row[x].calc])
    /\ UNCHANGED <<instance, row, moved, waived, faults>>

(* GetMaxAmendmentNumber *)
MaxNumber(root) ==
    LET numbers == {row[y].number : y \in Amendments(root)} \cup {0}
    IN  CHOOSE n \in numbers : \A m \in numbers : m <= n

AmendMax(r) ==
    /\ req[r].pc = "amend_max"
    /\ Goto(r, [pc |-> "amend", root |-> req[r].root, calc |-> req[r].calc,
                number |-> MaxNumber(req[r].root) + 1])
    /\ UNCHANGED <<instance, row, moved, waived, faults>>

AmendInsert(r) ==
    /\ req[r].pc = "amend"
    /\ Exists(req[r].root)
    /\ \E x \in Reports :
         /\ row[x].status = "none"
         /\ row' = [row EXCEPT ![x] = NewRow(req[r].calc, req[r].root, req[r].number)]
    /\ Done(r)
    /\ UNCHANGED <<instance, moved, waived, faults>>

(* A request dies or a statement of it fails. *)
Abandon(r) ==
    /\ req[r] # Idle
    /\ Fault
    /\ Done(r)
    /\ UNCHANGED <<instance, row, moved, waived>>

(* A refusal: the row is gone by the time it is validated or amended. *)
Refused(r) ==
    /\ \/ req[r].pc = "gate" /\ ~Exists(req[r].move.report)
       \/ req[r].pc = "amend" /\ (~Exists(req[r].root) \/ \A x \in Reports : row[x].status # "none")
    /\ Done(r)
    /\ UNCHANGED <<instance, row, moved, waived, faults>>

Step(r) ==
    \/ Create(r) \/ RecalculateRead(r) \/ RecalculateWrite(r)
    \/ OverrideRead(r) \/ OverrideWrite(r)
    \/ DeleteRead(r) \/ DeleteWrite(r) \/ ArchiveDuplicates(r)
    \/ StatusRead(r) \/ Gate(r) \/ StatusWrite(r)
    \/ TouchRead(r) \/ TouchWrite(r)
    \/ AmendRead(r) \/ AmendMax(r) \/ AmendInsert(r)
    \/ Abandon(r) \/ Refused(r)

Next == \E r \in Requests : Step(r)

Spec == Init /\ [][Next]_vars

-----------------------------------------------------------------------------
(* What is approved or filed is frozen: requests that read the figures while
   they could be edited find another version. *)
ApprovedIsFrozen ==
    [][\A x \in Reports :
         (row[x].status \in {"approved", "filed"} /\ row'[x].status \in Status) =>
             row'[x].calc = row[x].calc /\ row'[x].original = row[x].original]_vars

(* A report gets approved only with figures that meet the threshold, or while
   its validation did not work: the row that was scored is the row that is
   written, though three statements and other requests lie between. *)
ApprovedIsGated ==
    \A x \in Reports : row[x].status \in {"approved", "filed"} =>
        ~BelowThreshold(row[x].calc) \/ x \in waived

(* The figures kept as "original" are what the engine calculated, however
   overrides, recalculations and lost updates follow one another. *)
OriginalIsEngine ==
    \A x \in Reports : row[x].root = None => row[x].original \in {None, "engine"}

(* While statements work nothing is ever approved: the validation writes its
   score to the report and so takes the version the approval needs; the caller
   is told of success, and the transition is logged. *)
ApprovalNeedsFault ==
    faults = 0 => moved = {} /\ \A x \in Reports : row[x].status \notin {"approved", "filed"}

(* The chain of amendments is flat and leads to a report that is still there:
   a deleted report has none. *)
AmendmentsHaveRoot ==
    \A x \in Reports : row[x].root # None =>
        Exists(row[x].root) /\ row[row[x].root].root = None

(* With one request at a time amendments of a report have numbers of their own,
   also when drafts among them have been deleted. *)
OneAtATime == \E r \in Requests : instance.requests = {r}
NumbersUnique ==
    OneAtATime => \A x, y \in Reports :
        (x # y /\ Exists(x) /\ Exists(y) /\ row[x].root = row[y].root /\ row[x].root # None)
            => row[x].number # row[y].number

(* The rows as a whole: what they hold came from where they say. *)
ReportsSound ==
    TypeOK /\ ApprovedIsGated /\ OriginalIsEngine /\ AmendmentsHaveRoot /\ NumbersUnique
=============================================================================
