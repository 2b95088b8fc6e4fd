------------------------------ MODULE Requests ------------------------------
(***************************************************************************)
(* The frame of the handlers of cmd/api: requests that run side by side    *)
(* over the rows of one database, each statement a step of its own,        *)
(* because the handlers open no transaction around their statements.       *)
(*                                                                         *)
(* One part of the back end is looked at at a time: the initial state says *)
(* which, and holds its rows and the number of requests that will come.    *)
(* The modules that extend this one name their operations after the        *)
(* handlers and services, and their helpers after the queries of           *)
(* repository/sqlc.                                                        *)
(***************************************************************************)
EXTENDS Integers, Sequences, FiniteSets, SequencesExt, FiniteSetsExt

CONSTANT Callers  \* the goroutines that serve requests

ASSUME CallersAssumption == IsFiniteSet(Callers) /\ Callers # {}

VARIABLES
    part,   \* the part of the back end this behaviour is about
    rows,   \* its tables, a record with one field per table
    calls,  \* calls[c]: the request c serves, or the last one it answered
    left    \* bound: requests that are still to come

requestVars == <<part, rows, calls, left>>

NoText == ""  \* a text that is left out

NoCall == [op |-> "none", at |-> "answered", status |-> 0]

(* The goroutines, when it is such a part that is looked at. *)
Serving(parts) == IF part \in parts THEN Callers ELSE {}

(* Of the goroutines that have served nothing, which are alike, the same one is
   always taken. *)
Fresh == {c \in Callers : calls[c] = NoCall}
IsNext(c) == c \in Fresh => c = CHOOSE d \in Fresh : TRUE

Free(parts, c) == part \in parts /\ left > 0 /\ calls[c].at = "answered" /\ IsNext(c)

At(c, op, step) == calls[c].op = op /\ calls[c].at = step

(* A request arrives and goes on as `call`. *)
Begin(c, call) == calls' = [calls EXCEPT ![c] = call] /\ left' = left - 1 /\ UNCHANGED part

(* The request c serves goes on as `call`. *)
Continue(c, call) == calls' = [calls EXCEPT ![c] = call] /\ UNCHANGED <<part, left>>

(* In some behaviours one goroutine serves everything: the others are gone. *)
Gone == [op |-> "none", at |-> "gone", status |-> 0]
Alone == \E c \in Callers : \A d \in Callers \ {c} : calls[d] = Gone

(* Before the first request. *)
RequestsInit == calls \in [Callers -> {NoCall, Gone}] /\ left \in Nat

Answered(op, status) == [op |-> op, at |-> "answered", status |-> status]

(* The answer to the request c serves, and to one that took a single step. *)
Answer(c, status) == Continue(c, Answered(calls[c].op, status))
AnswerAtOnce(c, op, status) == Begin(c, Answered(op, status))

Store(db) == rows' = db
Reads == UNCHANGED rows

(* A lookup whose error is dropped finds what there is, or nothing. *)
Found(set) == {set, {}}

Open(c) == calls[c].at \notin {"answered", "gone"}

Waiting(op, step) == {c \in Callers : At(c, op, step)}

(* The sum of the rows of a table that are in S. *)
AddAll(table, S) == FoldFunctionOnSet(LAMBDA x, y : x + y, 0, table, S)

(* Tables whose rows can go are functions from ids; an id is never used again. *)
With(table, id, row) == [i \in DOMAIN table \cup {id} |-> IF i = id THEN row ELSE table[i]]
Without(table, ids) == Restrict(table, DOMAIN table \ ids)
=============================================================================
