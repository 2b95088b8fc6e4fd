---------------------------- MODULE HRInboxProofs ----------------------------
(* Proofs about HRInbox, for any events, runs, batch size and number of faults. *)
EXTENDS HRInbox, TLAPS, FiniteSetTheorems, WellFoundedInduction

----
(* A batch. *)

(* Of a set of natural numbers that is not empty one is the least. *)
LEMMA HasLeast ==
    ASSUME NEW T, T \subseteq Nat, T # {}
    PROVE  \E m \in T : \A t \in T : m <= t
<1>1. PICK m \in T : \A y \in T : <<y, m>> \notin OpToRel(<, Nat) BY NatLessThanWellFounded, WFMin
<1>2. \A y \in T : ~(y < m) BY <1>1 DEF OpToRel
<1> QED BY <1>2

(* And when it is bounded one is the greatest. *)
LEMMA HasGreatest ==
    ASSUME NEW T, T \subseteq Nat, T # {}, NEW b \in Nat, \A t \in T : t <= b
    PROVE  \E m \in T : \A t \in T : t <= m
<1> DEFINE B == {n \in Nat : \A t \in T : t <= n}
<1>1. PICK m \in B : \A n \in B : m <= n
  <2>1. B \subseteq Nat /\ B # {} OBVIOUS
  <2> HIDE DEF B
  <2> QED BY <2>1, HasLeast
<1>2. m \in T
  <2> SUFFICES ASSUME m \notin T PROVE FALSE OBVIOUS
  <2>1. \A t \in T : t <= m - 1 OBVIOUS
  <2>2. PICK t \in T : t <= m - 1 BY <2>1
  <2>3. m - 1 \in B BY <2>1, <2>2
  <2> QED BY <1>1, <2>3
<1> QED BY <1>2

(* A finite set of numbers has a k-th member for every k up to its size: the
   first number up to which there are k. *)
LEMMA NthIsMember ==
    ASSUME NEW S, S \subseteq Nat, IsFiniteSet(S), NEW b \in Nat, \A s \in S : s <= b,
           NEW k \in Nat, 1 <= k, k <= Cardinality(S)
    PROVE  Nth(S, k) \in S /\ Cardinality({j \in S : j <= Nth(S, k)}) = k
<1> DEFINE Upto(i) == {j \in S : j <= i}
           T == {i \in Nat : Cardinality(Upto(i)) >= k}
<1>1. \A i : IsFiniteSet(Upto(i)) /\ Cardinality(Upto(i)) \in Nat BY FS_Subset, FS_CardinalityType
<1>2. b \in T
  <2>1. Upto(b) = S OBVIOUS
  <2> QED BY <2>1
<1>3. PICK i \in T : \A t \in T : i <= t
  <2> HIDE DEF T
  <2>1. T \subseteq Nat BY DEF T
  <2> QED BY <1>2, <2>1, HasLeast
<1>4. Cardinality(Upto(i) \ {i}) < k
  <2>1. i \in Nat BY <1>3
  <2>2. CASE i = 0
    <3>1. \A j \in S : j <= i => j = i BY <2>2
    <3>2. Upto(i) \ {i} = {} BY <3>1
    <3> QED BY <3>2, FS_EmptySet
  <2>3. CASE i # 0
    <3>1. \A j \in Nat : j <= i - 1 <=> j <= i /\ j # i BY <2>1
    <3>2. Upto(i) \ {i} = Upto(i - 1) BY <3>1
    <3>3. i - 1 \in Nat /\ ~(i <= i - 1) BY <2>1, <2>3
    <3>4. i - 1 \notin T BY <1>3, <3>3
    <3>5. ~(Cardinality(Upto(i - 1)) >= k) BY <3>3, <3>4
    <3>6. Cardinality(Upto(i - 1)) \in Nat BY <1>1
    <3> QED BY <3>2, <3>5, <3>6
  <2> QED BY <2>2, <2>3
<1>5. i \in S /\ Cardinality(Upto(i)) = k
  <2>1. Cardinality(Upto(i) \ {i}) = IF i \in Upto(i) THEN Cardinality(Upto(i)) - 1
                                     ELSE Cardinality(Upto(i))
    BY <1>1, FS_RemoveElement
  <2>2. Cardinality(Upto(i)) >= k /\ Cardinality(Upto(i)) \in Nat BY <1>1, <1>3
  <2> QED BY <1>4, <2>1, <2>2
<1> QED BY <1>5 DEF Nth

(* What the processor takes is events of the inbox that wait, no place twice. *)
LEMMA BatchIsPending ==
    ASSUME TypeOK
    PROVE  /\ Batch \in Seq(Events)
           /\ Len(Batch) <= BatchSize
           /\ \A k \in 1..Len(Batch) : inbox[Batch[k]] \in {"received", "failed"}
<1> DEFINE S == PendingEvents
           n == Cardinality(S)
           size == IF n < BatchSize THEN n ELSE BatchSize
<1>1. S \subseteq Nat /\ IsFiniteSet(S) /\ \A i \in S : i <= Len(arrived)
  <2>1. arrived \in Seq(Events) /\ DOMAIN arrived = 1..Len(arrived) /\ Len(arrived) \in Nat
    BY DEF TypeOK
  <2>2. IsFiniteSet(1..Len(arrived)) BY <2>1, FS_Interval
  <2>3. S \subseteq 1..Len(arrived) BY <2>1 DEF PendingEvents
  <2>4. IsFiniteSet(S) BY <2>2, <2>3, FS_Subset
  <2> QED BY <2>1, <2>3, <2>4
<1>2. n \in Nat /\ size \in Nat /\ size <= BatchSize /\ size <= n
  BY <1>1, FS_CardinalityType, HRInboxAssumption
<1>3. \A k \in 1..size : Nth(S, k) \in S
  <2> SUFFICES ASSUME NEW k \in 1..size PROVE Nth(S, k) \in S OBVIOUS
  <2>1. Len(arrived) \in Nat /\ k \in Nat /\ 1 <= k /\ k <= n BY <1>2 DEF TypeOK
  <2> HIDE DEF S
  <2> QED BY <1>1, <2>1, NthIsMember
<1>4. \A k \in 1..size : /\ arrived[Nth(S, k)] \in Events
                         /\ inbox[arrived[Nth(S, k)]] \in {"received", "failed"}
  BY <1>3 DEF PendingEvents, TypeOK
<1>5. Batch = [k \in 1..size |-> arrived[Nth(S, k)]] BY DEF Batch
<1> HIDE DEF S, size
<1>6. Batch \in Seq(Events) /\ Len(Batch) = size BY <1>2, <1>4, <1>5
<1> QED BY <1>2, <1>4, <1>5, <1>6

----
(* Effects. *)

(* What a processed event has done. *)
HasEffect(e) ==
    /\ Type[e] = "completed" => Entries(Subject[e]) # {}
    /\ Type[e] = "reversed" => \E i \in Entries(Subject[e]) : journal[i].reversals > 0

(* How far a processor is with the event it is at. *)
Busy == {"event", "book", "tax_read", "tax_write", "find", "post", "reverse_read", "reverse",
         "failed", "processed"}

LocalsOK(p) ==
    /\ proc[p].pc \in Busy => proc[p].todo \in Seq(Events) /\ proc[p].todo # <<>>
    /\ proc[p].pc \in {"book", "tax_read", "tax_write"} => Type[Current(p)] = "completed"
    /\ proc[p].pc \in {"tax_read", "tax_write"} =>
         /\ Entries(Subject[Current(p)]) # {}
         /\ Subject[Current(p)] \in Philippine
         /\ proc[p].forms \in {Forms, <<"2316">>}
    /\ proc[p].pc \in {"find", "post", "reverse_read", "reverse"} => Type[Current(p)] = "reversed"
    /\ proc[p].pc \in {"post", "reverse_read", "reverse"} =>
         proc[p].entry \in Entries(Subject[Current(p)])
    /\ proc[p].pc = "processed" => HasEffect(Current(p))

(* Entries are only added, and a reversal is never taken back. *)
Grows ==
    /\ DOMAIN journal \subseteq DOMAIN journal'
    /\ \A i \in DOMAIN journal :
         journal'[i].run = journal[i].run /\ journal'[i].reversals >= journal[i].reversals

(* What a reader can count on of the fields of a processor. *)
LEMMA ProcFields ==
    ASSUME TypeOK, NEW p \in Pollers
    PROVE  /\ proc[p].pc \in Busy \cup {"idle"}
           /\ proc[p].pc = "idle" <=> proc[p] = Idle
           /\ proc[p].pc \in Busy => proc[p].todo \in Seq(Events)
           /\ proc[p].pc \in {"tax_read", "tax_write"} => proc[p].forms \in Seq(FormSet)
           /\ proc[p].pc = "tax_write" => proc[p].prev \in [Runs -> Nat]
           /\ proc[p].pc \in {"post", "reverse_read", "reverse"} =>
                /\ proc[p].entry \in Nat
                /\ proc[p] = [pc |-> proc[p].pc, todo |-> proc[p].todo, entry |-> proc[p].entry]
BY DEF TypeOK, Locals, Idle, Todo, Busy

(* The event a processor is at. *)
LEMMA CurrentIsEvent ==
    ASSUME TypeOK, NEW p \in Pollers, LocalsOK(p), proc[p].pc \in Busy
    PROVE  /\ Current(p) \in Events
           /\ Type[Current(p)] \in Types
           /\ Type[Current(p)] \in {"completed", "reversed"} => Subject[Current(p)] \in Runs
           /\ Type[Current(p)] \in {"upserted", "terminated"} => Subject[Current(p)] \in Employees
<1>1. Current(p) \in Events BY DEF LocalsOK, Current
<1> QED BY <1>1, HRInboxAssumption DEF Types

(* What a reversal does to the rows of the journal. *)
LEMMA RowsChanged ==
    ASSUME NEW row \in Entry
    PROVE  /\ PostedRow(row) \in Entry /\ PostedRow(row).run = row.run
           /\ PostedRow(row).reversals = row.reversals
           /\ Undone(row) \in Entry /\ Undone(row).run = row.run
           /\ Undone(row).reversals = row.reversals + 1
<1>1. PostedRow(row) \in Entry BY DEF PostedRow, Entry
<1>2. PostedRow(row).run = row.run /\ PostedRow(row).reversals = row.reversals
  BY DEF PostedRow, Entry
<1>3. Undone(row).run = row.run /\ Undone(row).reversals = row.reversals + 1 BY DEF Undone, Entry
<1>4. PICK n \in Nat : n = row.reversals + 1 BY DEF Entry
<1>5. Undone(row) = [row EXCEPT !.status = "reversed", !.reversals = n] BY <1>4 DEF Undone, Entry
<1>6. [row EXCEPT !.status = "reversed", !.reversals = n] \in Entry BY DEF Entry
<1> QED BY <1>1, <1>2, <1>3, <1>5, <1>6

(* The forms a run is counted in, and what is left after the first. *)
LEMMA FormsTyped ==
    /\ Forms \in Seq(FormSet) /\ <<"2316">> \in Seq(FormSet)
    /\ Head(Forms) = "1601C" /\ Tail(Forms) = <<"2316">> /\ Len(Forms) = 2
    /\ Head(<<"2316">>) = "2316" /\ Len(<<"2316">>) = 1 /\ Tail(<<"2316">>) = <<>>
    /\ \A f \in {Forms, <<"2316">>} : Head(f) \in FormSet /\ Tail(f) \in Seq(FormSet)
<1>1. Forms \in Seq(FormSet) BY DEF Forms, FormSet
<1>2. <<"2316">> \in Seq(FormSet) BY DEF FormSet
<1>3. Head(Forms) = "1601C" /\ Tail(Forms) = <<"2316">> /\ Len(Forms) = 2 BY DEF Forms
<1>4. Head(<<"2316">>) = "2316" /\ Len(<<"2316">>) = 1 OBVIOUS
<1>5. Tail(<<"2316">>) = <<>> OBVIOUS
<1> QED BY <1>1, <1>2, <1>3, <1>4, <1>5 DEF FormSet

(* Going to the next event keeps what is left of the batch. *)
LEMMA NextIsTyped ==
    ASSUME TypeOK, NEW p \in Pollers, LocalsOK(p), proc[p].pc \in Busy, NextEvent(p)
    PROVE  /\ proc' \in [Pollers -> Locals]
           /\ LocalsOK(p)'
           /\ \A q \in Pollers : q # p => proc'[q] = proc[q]
<1> DEFINE rest == Tail(proc[p].todo)
<1>1. rest \in Seq(Events) BY DEF LocalsOK
<1>2. /\ proc'[p] = Idle \/ (proc'[p] = [pc |-> "event", todo |-> rest] /\ rest # <<>>)
      /\ proc' = [proc EXCEPT ![p] = proc'[p]]
  BY DEF NextEvent, Goto, TypeOK
<1> HIDE DEF rest
<1>3. proc'[p] \in Locals BY <1>1, <1>2 DEF Locals, Todo
<1>4. proc' \in [Pollers -> Locals] /\ \A q \in Pollers : q # p => proc'[q] = proc[q]
  BY <1>2, <1>3 DEF TypeOK
<1>5. LocalsOK(p)' BY <1>1, <1>2 DEF LocalsOK, Idle, Busy
<1> QED BY <1>4, <1>5

(* Every step keeps the types. *)
LEMMA TypesKept ==
    ASSUME TypeOK, \A p \in Pollers : LocalsOK(p), Next
    PROVE  TypeOK'
<1> USE HRInboxAssumption
<1>1. ASSUME NEW e \in sends, Receive(e) PROVE TypeOK'
  <2>1. e \in Events /\ acked' \in SUBSET Events BY <1>1 DEF Receive, TypeOK
  <2>2. faults' \in 0..MaxFaults BY <1>1 DEF Receive, TypeOK, Fault, NoFault
  <2>3. arrived' = arrived \/ arrived' = Append(arrived, e) BY <1>1 DEF Receive
  <2>4. inbox' = inbox \/ inbox' = [inbox EXCEPT ![e] = "received"] BY <1>1 DEF Receive
  <2>5. arrived' \in Seq(Events) BY <2>1, <2>3 DEF TypeOK
  <2>6. inbox' \in [Events -> {"none", "received", "failed", "processed"}] BY <2>4 DEF TypeOK
  <2>7. UNCHANGED <<sends, running, journal, taxed, payee, proc>> BY <1>1 DEF Receive
  <2> QED BY <2>1, <2>2, <2>5, <2>6, <2>7 DEF TypeOK
<1>2. ASSUME NEW e \in sends, ReceiveUnanswered(e) PROVE TypeOK'
  BY <1>2 DEF ReceiveUnanswered, TypeOK, Fault
<1>3. ASSUME NEW e \in sends, Replay(e) PROVE TypeOK' BY <1>3 DEF Replay, TypeOK
<1>4. ASSUME NEW p \in Pollers, Poll(p) PROVE TypeOK'
  <2>1. [pc |-> "event", todo |-> Batch] \in Locals BY BatchIsPending DEF Locals, Todo
  <2> QED BY <1>4, <2>1 DEF Poll, Goto, TypeOK
<1>5. ASSUME NEW p \in Pollers, Dispatch(p) PROVE TypeOK'
  <2>1. LocalsOK(p) /\ proc[p].pc \in Busy BY <1>5 DEF Dispatch, Busy
  <2>2. \A l \in {"book", "find", "processed"} : [pc |-> l, todo |-> proc[p].todo] \in Locals
    BY <2>1, ProcFields DEF Locals, Todo
  <2>3. proc' \in [Pollers -> Locals] BY <1>5, <2>2 DEF Dispatch, Jump, Goto, TypeOK
  <2>4. payee' \in [Employees -> {"none", "active", "terminated"}]
    BY <1>5, <2>1, CurrentIsEvent DEF Dispatch, TypeOK
  <2> QED BY <1>5, <2>3, <2>4 DEF Dispatch, TypeOK
<1>6. ASSUME NEW p \in Pollers, Book(p) PROVE TypeOK'
  <2>1. LocalsOK(p) /\ proc[p].pc \in Busy /\ Type[Current(p)] = "completed"
    BY <1>6 DEF Book, Busy, LocalsOK
  <2>2. /\ [pc |-> "tax_read", todo |-> proc[p].todo, forms |-> Forms] \in Locals
        /\ [pc |-> "processed", todo |-> proc[p].todo] \in Locals
    BY <2>1, ProcFields, FormsTyped DEF Locals, Todo
  <2>3. Booking(Subject[Current(p)]) \in Entry BY <2>1, CurrentIsEvent DEF Booking, Entry
  <2>4. journal' \in Seq(Entry) BY <1>6, <2>3 DEF Book, TypeOK
  <2>5. proc' \in [Pollers -> Locals] BY <1>6, <2>2 DEF Book, Jump, Goto, TypeOK
  <2> QED BY <1>6, <2>4, <2>5 DEF Book, TypeOK
<1>7. ASSUME NEW p \in Pollers, TaxRead(p) PROVE TypeOK'
  <2>1. LocalsOK(p) /\ proc[p].pc \in Busy /\ proc[p].forms \in {Forms, <<"2316">>}
    BY <1>7 DEF TaxRead, Busy, LocalsOK
  <2>2. Head(proc[p].forms) \in FormSet /\ proc[p].forms \in Seq(FormSet) BY <2>1, FormsTyped
  <2>3. taxed[Head(proc[p].forms)] \in [Runs -> Nat] /\ NoDraft \in [Runs -> Nat]
    BY <2>2 DEF NoDraft, TypeOK
  <2>4. \A prev \in [Runs -> Nat] :
          [pc |-> "tax_write", todo |-> proc[p].todo, forms |-> proc[p].forms,
           prev |-> prev] \in Locals
    BY <2>1, <2>2, ProcFields DEF Locals, Todo
  <2>6. proc' \in [Pollers -> Locals] BY <1>7, <2>3, <2>4 DEF TaxRead, Goto, TypeOK
  <2>7. faults' \in 0..MaxFaults BY <1>7 DEF TaxRead, TypeOK, Fault, NoFault
  <2> QED BY <1>7, <2>6, <2>7 DEF TaxRead, TypeOK
<1>8. ASSUME NEW p \in Pollers, TaxWrite(p) PROVE TypeOK'
  <2>1. /\ LocalsOK(p) /\ proc[p].pc \in Busy /\ proc[p].forms \in {Forms, <<"2316">>}
        /\ Type[Current(p)] = "completed"
    BY <1>8 DEF TaxWrite, Busy, LocalsOK
  <2>2. Head(proc[p].forms) \in FormSet /\ Tail(proc[p].forms) \in Seq(FormSet) BY <2>1, FormsTyped
  <2>3. proc[p].prev \in [Runs -> Nat] /\ Subject[Current(p)] \in Runs
    BY <1>8, <2>1, ProcFields, CurrentIsEvent DEF TaxWrite
  <2>4. Added(proc[p].prev, Subject[Current(p)]) \in [Runs -> Nat] BY <2>3 DEF Added
  <2>5. taxed' \in [FormSet -> [Runs -> Nat]] BY <1>8, <2>2, <2>4 DEF TaxWrite, TypeOK
  <2>6. /\ [pc |-> "processed", todo |-> proc[p].todo] \in Locals
        /\ [pc |-> "tax_read", todo |-> proc[p].todo, forms |-> Tail(proc[p].forms)] \in Locals
    BY <2>1, <2>2, ProcFields DEF Locals, Todo
  <2>7. proc' \in [Pollers -> Locals] BY <1>8, <2>6 DEF TaxWrite, Jump, Goto, TypeOK
  <2>8. faults' \in 0..MaxFaults BY <1>8 DEF TaxWrite, TypeOK, Fault, NoFault
  <2> QED BY <1>8, <2>5, <2>7, <2>8 DEF TaxWrite, TypeOK
<1>9. ASSUME NEW p \in Pollers, Find(p) PROVE TypeOK'
  <2>1. LocalsOK(p) /\ proc[p].pc \in Busy BY <1>9 DEF Find, Busy
  <2> DEFINE live == LiveEntries(Subject[Current(p)])
  <2>2. live \subseteq Nat BY DEF LiveEntries, TypeOK
  <2>3. /\ [pc |-> "failed", todo |-> proc[p].todo] \in Locals
        /\ \A i \in live, l \in {"post", "reverse_read"} :
             [pc |-> l, todo |-> proc[p].todo, entry |-> i] \in Locals
    BY <2>1, <2>2, ProcFields DEF Locals, Todo
  <2>4. CASE live = {} BY <1>9, <2>3, <2>4 DEF Find, Jump, Goto, TypeOK
  <2>5. CASE live # {}
    <3>1. Len(journal) \in Nat /\ \A j \in live : j <= Len(journal) BY DEF LiveEntries, TypeOK
    <3>2. \E j \in live : \A k \in live : k <= j
      <4> HIDE DEF live
      <4> QED BY <2>2, <2>5, <3>1, HasGreatest
    <3> QED BY <1>9, <2>3, <2>5, <3>2 DEF Find, Jump, Goto, TypeOK
  <2> QED BY <2>4, <2>5
<1>10. ASSUME NEW p \in Pollers, PostDraft(p) PROVE TypeOK'
  <2>1. LocalsOK(p) /\ proc[p].pc \in Busy /\ proc[p].entry \in DOMAIN journal
    BY <1>10 DEF PostDraft, Busy, LocalsOK, Entries
  <2>2. PICK t \in Todo, i \in Nat : proc[p] = [pc |-> "post", todo |-> t, entry |-> i]
    BY <1>10, <2>1, ProcFields DEF PostDraft, Todo
  <2>3. [proc[p] EXCEPT !.pc = "reverse_read"] = [pc |-> "reverse_read", todo |-> t, entry |-> i]
    BY <2>2
  <2>4. /\ [pc |-> "reverse_read", todo |-> t, entry |-> i] \in Locals
        /\ [pc |-> "failed", todo |-> t] \in Locals
    BY DEF Locals
  <2>5. journal' \in Seq(Entry)
    <3>1. journal \in Seq(Entry) /\ \A row \in Entry : PostedRow(row) \in Entry
      BY RowsChanged DEF TypeOK
    <3>2. \/ journal' = journal
          \/ journal' = [journal EXCEPT ![proc[p].entry] = PostedRow(@)]
      BY <1>10 DEF PostDraft
    <3> QED BY <2>1, <3>1, <3>2
  <2>6. PICK l \in Locals : proc' = [proc EXCEPT ![p] = l]
    BY <1>10, <2>2, <2>3, <2>4 DEF PostDraft, Jump, Goto
  <2> QED BY <1>10, <2>5, <2>6 DEF PostDraft, TypeOK
<1>11. ASSUME NEW p \in Pollers, ReverseRead(p) PROVE TypeOK'
  <2>1. LocalsOK(p) /\ proc[p].pc \in Busy BY <1>11 DEF ReverseRead, Busy
  <2>2. PICK t \in Todo, i \in Nat : proc[p] = [pc |-> "reverse_read", todo |-> t, entry |-> i]
    BY <1>11, <2>1, ProcFields DEF ReverseRead, Todo
  <2>3. [proc[p] EXCEPT !.pc = "reverse"] = [pc |-> "reverse", todo |-> t, entry |-> i] BY <2>2
  <2>4. /\ [pc |-> "reverse", todo |-> t, entry |-> i] \in Locals
        /\ [pc |-> "failed", todo |-> t] \in Locals
    BY DEF Locals
  <2>5. PICK l \in Locals : proc' = [proc EXCEPT ![p] = l]
    BY <1>11, <2>2, <2>3, <2>4 DEF ReverseRead, Jump, Goto
  <2> QED BY <1>11, <2>5 DEF ReverseRead, TypeOK
<1>12. ASSUME NEW p \in Pollers, Reverse(p) PROVE TypeOK'
  <2>1. LocalsOK(p) /\ proc[p].pc \in Busy /\ proc[p].entry \in DOMAIN journal
    BY <1>12 DEF Reverse, Busy, LocalsOK, Entries
  <2>2. [pc |-> "processed", todo |-> proc[p].todo] \in Locals BY <2>1, ProcFields DEF Locals, Todo
  <2>3. journal' \in Seq(Entry) BY <1>12, <2>1, RowsChanged DEF Reverse, TypeOK
  <2> QED BY <1>12, <2>2, <2>3 DEF Reverse, Jump, Goto, TypeOK
<1>13. ASSUME NEW p \in Pollers, MarkProcessed(p) \/ MarkFailed(p) PROVE TypeOK'
  <2>1. LocalsOK(p) /\ proc[p].pc \in Busy BY <1>13 DEF MarkProcessed, MarkFailed, Busy
  <2>2. proc' \in [Pollers -> Locals]
    BY <1>13, <2>1, NextIsTyped DEF MarkProcessed, MarkFailed, Record
  <2>3. faults' \in 0..MaxFaults
    BY <1>13 DEF MarkProcessed, MarkFailed, Record, TypeOK, Fault, NoFault
  <2>4. inbox' \in [Events -> {"none", "received", "failed", "processed"}]
    BY <1>13 DEF MarkProcessed, MarkFailed, Record, TypeOK
  <2> QED BY <1>13, <2>2, <2>3, <2>4 DEF MarkProcessed, MarkFailed, Record, TypeOK
<1>14. ASSUME NEW p \in Pollers, Fails(p) PROVE TypeOK'
  <2>1. LocalsOK(p) /\ proc[p].pc \in Busy BY <1>14 DEF Fails, Busy
  <2>2. [pc |-> "failed", todo |-> proc[p].todo] \in Locals BY <2>1, ProcFields DEF Locals, Todo
  <2> QED BY <1>14, <2>2 DEF Fails, Jump, Goto, TypeOK, Fault
<1>15. ASSUME NEW p \in Pollers, Crash(p) PROVE TypeOK'
  BY <1>15 DEF Crash, Goto, TypeOK, Fault, Locals
<1> QED BY <1>1, <1>2, <1>3, <1>4, <1>5, <1>6, <1>7, <1>8, <1>9, <1>10, <1>11, <1>12, <1>13,
           <1>14, <1>15 DEF Next, PollerStep

(* The reversals of a row are counted. *)
LEMMA RowsCount ==
    ASSUME TypeOK
    PROVE  \A i \in DOMAIN journal : journal[i] \in Entry /\ journal[i].reversals \in Nat
<1> SUFFICES ASSUME NEW i \in DOMAIN journal
             PROVE  journal[i] \in Entry /\ journal[i].reversals \in Nat OBVIOUS
<1>1. PICK row \in Entry : row = journal[i] BY DEF TypeOK
<1>2. row.reversals \in Nat BY DEF Entry
<1> QED BY <1>1, <1>2

(* No step takes an entry or a reversal back. *)
LEMMA JournalGrows ==
    ASSUME TypeOK, \A p \in Pollers : LocalsOK(p), Next
    PROVE  Grows
<1>1. ASSUME NEW p \in Pollers, Book(p) PROVE Grows
  <2>1. PICK row \in Entry : row = Booking(Subject[Current(p)])
    BY <1>1, CurrentIsEvent DEF Book, LocalsOK, Busy, Booking, Entry
  <2>2. journal \in Seq(Entry) /\ journal' = Append(journal, row) BY <1>1, <2>1 DEF Book, TypeOK
  <2>3. /\ DOMAIN journal \subseteq DOMAIN journal'
        /\ \A i \in DOMAIN journal : journal'[i] = journal[i]
    BY <2>2
  <2>4. \A n \in Nat : n >= n OBVIOUS
  <2> QED BY <2>3, <2>4, RowsCount DEF Grows
<1>2. ASSUME NEW p \in Pollers, PostDraft(p) \/ Reverse(p) PROVE Grows
  <2>1. PICK i \in DOMAIN journal : i = proc[p].entry
    BY <1>2 DEF PostDraft, Reverse, LocalsOK, Entries
  <2>2. PICK row \in Entry : row = journal[i] /\ row.reversals \in Nat BY RowsCount
  <2>3. \/ journal' = journal
        \/ journal' = [journal EXCEPT ![i] = PostedRow(row)]
        \/ journal' = [journal EXCEPT ![i] = Undone(row)]
    BY <1>2, <2>1, <2>2 DEF PostDraft, Reverse
  <2>4. /\ PostedRow(row).run = row.run /\ PostedRow(row).reversals >= row.reversals
        /\ Undone(row).run = row.run /\ Undone(row).reversals >= row.reversals
    <3>1. /\ PostedRow(row).run = row.run /\ PostedRow(row).reversals = row.reversals
          /\ Undone(row).run = row.run /\ Undone(row).reversals = row.reversals + 1
      BY RowsChanged
    <3>2. \A n \in Nat : n >= n /\ n + 1 >= n OBVIOUS
    <3> QED BY <2>2, <3>1, <3>2
  <2>5. DOMAIN journal' = DOMAIN journal BY <2>3 DEF TypeOK
  <2>6. \A j \in DOMAIN journal : j # i => journal'[j] = journal[j] BY <2>3 DEF TypeOK
  <2>7. journal'[i] = row \/ journal'[i] = PostedRow(row) \/ journal'[i] = Undone(row)
    BY <2>2, <2>3 DEF TypeOK
  <2>8. \A n \in Nat : n >= n OBVIOUS
  <2> QED BY <2>2, <2>4, <2>5, <2>6, <2>7, <2>8, RowsCount DEF Grows
<1>3. ASSUME UNCHANGED journal PROVE Grows
  <2>1. \A n \in Nat : n >= n OBVIOUS
  <2> QED BY <1>3, <2>1, RowsCount DEF Grows
<1> QED BY <1>1, <1>2, <1>3
     DEF Next, PollerStep, Receive, ReceiveUnanswered, Replay, Poll, Dispatch, TaxRead, TaxWrite,
         Find, ReverseRead, MarkProcessed, MarkFailed, Record, Fails, Crash

(* What was done stays done. *)
LEMMA EffectsStay ==
    ASSUME TypeOK, TypeOK', Grows
    PROVE  /\ \A n : Entries(n) \subseteq Entries(n)'
           /\ \A e : HasEffect(e) => HasEffect(e)'
<1>1. \A n : Entries(n) \subseteq Entries(n)' BY DEF Entries, Grows
<1>2. \A i \in DOMAIN journal : journal[i].reversals > 0 => journal'[i].reversals > 0
  <2>1. \A i \in DOMAIN journal : journal[i].reversals \in Nat BY RowsCount
  <2>2. \A i \in DOMAIN journal' : journal'[i].reversals \in Nat
    <3>1. \A i \in DOMAIN journal' : journal'[i] \in Entry BY DEF TypeOK
    <3> QED BY <3>1 DEF Entry
  <2>3. \A m, n \in Nat : m > 0 /\ n >= m => n > 0 OBVIOUS
  <2> QED BY <2>1, <2>2, <2>3 DEF Grows
<1> QED BY <1>1, <1>2 DEF HasEffect, Entries

(* A processor that waits has what it has. *)
LEMMA WaitingKept ==
    ASSUME TypeOK, TypeOK', Grows, NEW p \in Pollers, LocalsOK(p), proc'[p] = proc[p]
    PROVE  LocalsOK(p)'
BY EffectsStay DEF LocalsOK, Current

(* Every step keeps how far the processors are. *)
LEMMA LocalsKept ==
    ASSUME TypeOK, TypeOK', \A p \in Pollers : LocalsOK(p), Next
    PROVE  \A p \in Pollers : LocalsOK(p)'
<1>1. Grows /\ \A p \in Pollers : proc'[p] = proc[p] => LocalsOK(p)' BY JournalGrows, WaitingKept
<1>2. ASSUME UNCHANGED proc PROVE \A p \in Pollers : LocalsOK(p)' BY <1>1, <1>2
<1>3. ASSUME NEW p \in Pollers, PollerStep(p) \/ Fails(p) \/ Crash(p)
      PROVE  \A q \in Pollers : q # p => LocalsOK(q)'
  <2>1. \A q \in Pollers : q # p => proc'[q] = proc[q]
    BY <1>3 DEF PollerStep, Poll, Dispatch, Book, TaxRead, TaxWrite, Find, PostDraft, ReverseRead,
       Reverse, MarkProcessed, MarkFailed, Record, Fails, Crash, NextEvent, Jump, Goto, TypeOK
  <2> QED BY <1>1, <2>1
<1>4. ASSUME NEW p \in Pollers, PollerStep(p) \/ Fails(p) \/ Crash(p) PROVE  LocalsOK(p)'
  <2>0. PICK e, n, todo : e = Current(p) /\ n = Subject[e] /\ todo = proc[p].todo OBVIOUS
  <2> USE <2>0 DEF Goto, Jump, TypeOK
  <2>1. CASE Poll(p)
    <3>1. Batch \in Seq(Events) BY BatchIsPending
    <3> QED BY <2>1, <3>1 DEF Poll, LocalsOK, Busy
  <2>2. CASE Dispatch(p)
    <3>1. /\ todo \in Seq(Events) /\ todo # <<>>
          /\ \/ Type[e] = "completed" /\ proc'[p] = [pc |-> "book", todo |-> todo]
             \/ Type[e] = "reversed" /\ proc'[p] = [pc |-> "find", todo |-> todo]
             \/ Type[e] \in {"upserted", "terminated"}
                  /\ proc'[p] = [pc |-> "processed", todo |-> todo]
      BY <2>2 DEF Dispatch, LocalsOK, Busy
    <3> QED BY <3>1 DEF LocalsOK, Current, HasEffect
  <2>3. CASE Book(p)
    <3>1. /\ todo \in Seq(Events) /\ todo # <<>> /\ Type[e] = "completed"
          /\ \/ /\ n \in Philippine
                /\ proc'[p] = [pc |-> "tax_read", todo |-> todo, forms |-> Forms]
             \/ proc'[p] = [pc |-> "processed", todo |-> todo]
      BY <2>3 DEF Book, LocalsOK, Busy
    <3>2. Len(journal) + 1 \in Entries(n)' BY <2>3 DEF Book, Booking, Entries
    <3>3. CASE proc'[p] = [pc |-> "processed", todo |-> todo]
      <4>1. HasEffect(e)' BY <3>1, <3>2 DEF HasEffect
      <4> QED BY <3>1, <3>3, <4>1 DEF LocalsOK, Current
    <3> QED BY <3>1, <3>2, <3>3 DEF LocalsOK, Current
  <2>4. CASE TaxRead(p)
    <3>1. /\ todo \in Seq(Events) /\ todo # <<>> /\ Type[e] = "completed"
          /\ n \in Philippine
          /\ Entries(n)' # {} /\ proc[p].forms \in {Forms, <<"2316">>}
      BY <1>1, <2>4, EffectsStay DEF TaxRead, LocalsOK, Busy
    <3>2. proc'[p].pc = "tax_write" /\ proc'[p].todo = todo /\ proc'[p].forms = proc[p].forms
      BY <2>4 DEF TaxRead
    <3> QED BY <3>1, <3>2 DEF LocalsOK, Current, HasEffect, Entries
  <2>5. CASE TaxWrite(p)
    <3>1. /\ todo \in Seq(Events) /\ todo # <<>> /\ Type[e] = "completed"
          /\ n \in Philippine
          /\ Entries(n)' # {} /\ proc[p].forms \in {Forms, <<"2316">>}
      BY <1>1, <2>5, EffectsStay DEF TaxWrite, LocalsOK, Busy
    <3>2. \/ proc'[p] = [pc |-> "processed", todo |-> todo]
          \/ proc'[p] = [pc |-> "tax_read", todo |-> todo, forms |-> <<"2316">>]
      <4>1. CASE proc[p].forms = Forms BY <2>5, <4>1, FormsTyped DEF TaxWrite
      <4>2. CASE proc[p].forms = <<"2316">> BY <2>5, <4>2, FormsTyped DEF TaxWrite
      <4> QED BY <3>1, <4>1, <4>2
    <3> QED BY <3>1, <3>2 DEF LocalsOK, Current, HasEffect, Entries
  <2>6. CASE Find(p)
    <3>1. todo \in Seq(Events) /\ todo # <<>> /\ Type[e] = "reversed"
      BY <2>6 DEF Find, LocalsOK, Busy
    <3> DEFINE live == LiveEntries(n)
    <3>2. CASE live = {} BY <2>6, <3>1, <3>2 DEF Find, LocalsOK, Current
    <3>3. CASE live # {}
      <4>1. \E j \in live : \A k \in live : k <= j
        <5>1. live \subseteq Nat /\ Len(journal) \in Nat /\ \A j \in live : j <= Len(journal)
          BY DEF LiveEntries
        <5> HIDE DEF live
        <5> QED BY <3>3, <5>1, HasGreatest
      <4>2. PICK i \in live, l \in {"post", "reverse_read"} :
              proc'[p] = [pc |-> l, todo |-> todo, entry |-> i]
        BY <2>6, <3>3, <4>1 DEF Find
      <4>3. i \in Entries(n)' BY <1>1, <4>2, EffectsStay DEF LiveEntries, Entries
      <4> QED BY <3>1, <4>2, <4>3 DEF LocalsOK, Current
    <3> QED BY <3>2, <3>3
  <2>7. CASE PostDraft(p) \/ ReverseRead(p)
    <3>1. /\ todo \in Seq(Events) /\ todo # <<>> /\ Type[e] = "reversed"
          /\ proc[p].entry \in Entries(n)'
      BY <1>1, <2>7, EffectsStay DEF PostDraft, ReverseRead, LocalsOK, Busy
    <3>2. PICK i \in Nat, l \in {"post", "reverse_read"} :
            proc[p] = [pc |-> l, todo |-> todo, entry |-> i]
      BY <2>7, ProcFields DEF PostDraft, ReverseRead
    <3>3. \/ proc'[p] = [pc |-> "failed", todo |-> todo]
          \/ \E k \in {"reverse_read", "reverse"} :
               proc'[p] = [pc |-> k, todo |-> todo, entry |-> i]
      BY <2>7, <3>2 DEF PostDraft, ReverseRead
    <3> QED BY <3>1, <3>2, <3>3 DEF LocalsOK, Current
  <2>8. CASE Reverse(p)
    <3>1. /\ todo \in Seq(Events) /\ todo # <<>> /\ Type[e] = "reversed"
          /\ proc[p].entry \in Entries(n)
          /\ proc'[p] = [pc |-> "processed", todo |-> todo]
      BY <2>8 DEF Reverse, LocalsOK, Busy
    <3>2. PICK i \in DOMAIN journal : i = proc[p].entry BY <3>1 DEF Entries
    <3>3. journal'[i] = Undone(journal[i]) /\ journal[i] \in Entry BY <2>8, <3>2 DEF Reverse
    <3>4. journal'[i].reversals > 0 BY <3>3, RowsChanged DEF Entry
    <3>5. i \in Entries(n)' BY <1>1, <3>1, <3>2, EffectsStay
    <3> QED BY <3>1, <3>4, <3>5 DEF LocalsOK, Current, HasEffect
  <2>9. CASE MarkProcessed(p) \/ MarkFailed(p)
    <3>1. proc[p].pc \in Busy /\ NextEvent(p) BY <2>9 DEF MarkProcessed, MarkFailed, Record, Busy
    <3> QED BY <3>1, NextIsTyped
  <2>10. CASE Fails(p)
    <3>1. /\ todo \in Seq(Events) /\ todo # <<>>
          /\ proc'[p] = [pc |-> "failed", todo |-> todo]
      BY <2>10 DEF Fails, LocalsOK, Busy
    <3> QED BY <3>1 DEF LocalsOK
  <2>11. CASE Crash(p) BY <2>11 DEF Crash, LocalsOK, Idle, Busy
  <2> QED BY <1>4, <2>1, <2>2, <2>3, <2>4, <2>5, <2>6, <2>7, <2>8, <2>9, <2>10, <2>11
       DEF PollerStep
<1> QED BY <1>2, <1>3, <1>4 DEF Next, Receive, ReceiveUnanswered, Replay

(* An event is marked processed by the processor that has had its effect. *)
LEMMA ProcessedKept ==
    ASSUME TypeOK, TypeOK', \A p \in Pollers : LocalsOK(p), Next,
           \A e \in Events : inbox[e] = "processed" => HasEffect(e)
    PROVE  \A e \in Events : inbox'[e] = "processed" => HasEffect(e)'
<1>1. \A e \in Events : HasEffect(e) => HasEffect(e)' BY JournalGrows, EffectsStay
<1>2. SUFFICES ASSUME NEW e \in Events, inbox'[e] = "processed", inbox[e] # "processed"
               PROVE  HasEffect(e)
  BY <1>1
<1>3. PICK p \in Pollers : MarkProcessed(p) /\ Current(p) = e
  BY <1>2 DEF Next, PollerStep, Receive, ReceiveUnanswered, Replay, Poll, Dispatch, Book, TaxRead,
     TaxWrite, Find, PostDraft, ReverseRead, Reverse, MarkProcessed, MarkFailed, Record, Fails,
     Crash, TypeOK
<1> QED BY <1>3 DEF MarkProcessed, LocalsOK

EffectInv ==
    /\ TypeOK
    /\ \A p \in Pollers : LocalsOK(p)
    /\ \A e \in Events : inbox[e] = "processed" => HasEffect(e)

(* The invariant of the effects holds throughout. *)
THEOREM EffectInvAlways == Spec => []EffectInv
<1>1. Init => EffectInv
  BY HRInboxAssumption DEF Init, EffectInv, TypeOK, LocalsOK, Locals, Idle, Busy, FormSet, Entry
<1>2. EffectInv /\ [Next]_vars => EffectInv'
  <2> SUFFICES ASSUME EffectInv, [Next]_vars PROVE  EffectInv' OBVIOUS
  <2>1. CASE Next BY <2>1, TypesKept, LocalsKept, ProcessedKept DEF EffectInv
  <2>2. CASE UNCHANGED vars
    BY <2>2 DEF vars, EffectInv, TypeOK, LocalsOK, HasEffect, Entries, Current
  <2> QED BY <2>1, <2>2
<1> QED BY <1>1, <1>2, PTL DEF Spec

(* However events are repeated, lost, replayed and raced for, one that is
   marked processed has had its effect on the books. *)
THEOREM EffectsBeforeMarks == Spec => []ProcessedHasEffect
<1>1. EffectInv => ProcessedHasEffect BY DEF EffectInv, ProcessedHasEffect, HasEffect
<1> QED BY <1>1, EffectInvAlways, PTL

----
(* The drafts of the tax forms. *)

(* A processor that has booked run n and is on its way to count it in form f. *)
Owes(p, f, n) ==
    /\ proc[p].pc \in {"tax_read", "tax_write"}
    /\ Subject[Current(p)] = n
    /\ f = "2316" \/ proc[p].forms = Forms
Pending(f, n) == {p \in Pollers : Owes(p, f, n)}
Load(f, n) == Cardinality(Pending(f, n))
Booked(n) == Cardinality(Entries(n))

(* What is counted and what is about to be was booked, also as a processor
   that is about to write remembers the draft. *)
TaxedInv ==
    /\ \A f \in FormSet, n \in Runs : taxed[f][n] + Load(f, n) <= Booked(n)
    /\ \A p \in Pollers, f \in FormSet, n \in Runs :
         proc[p].pc = "tax_write" /\ f = Head(proc[p].forms) =>
            proc[p].prev[n] + Load(f, n) <= Booked(n)

(* Both sides are sizes of finite sets. *)
LEMMA FiniteSizes ==
    /\ \A S \in SUBSET Pollers : IsFiniteSet(S) /\ Cardinality(S) \in Nat
    /\ \A s \in Seq(Entry) : \A S \in SUBSET DOMAIN s : IsFiniteSet(S) /\ Cardinality(S) \in Nat
<1>1. \A s \in Seq(Entry) : IsFiniteSet(1..Len(s)) /\ DOMAIN s = 1..Len(s) BY FS_Interval
<1> QED BY <1>1, HRInboxAssumption, FS_Subset, FS_CardinalityType

(* Bookings and loads can be counted. *)
LEMMA SizesAreNumbers ==
    ASSUME TypeOK, TypeOK', NEW f, NEW n
    PROVE  /\ IsFiniteSet(Pending(f, n)) /\ Load(f, n) \in Nat
           /\ IsFiniteSet(Entries(n)) /\ Booked(n) \in Nat
           /\ IsFiniteSet(Pending(f, n)') /\ Load(f, n)' \in Nat
           /\ IsFiniteSet(Entries(n)') /\ Booked(n)' \in Nat
<1>1. Pending(f, n) \in SUBSET Pollers /\ Pending(f, n)' \in SUBSET Pollers BY DEF Pending
<1>2. Entries(n) \in SUBSET DOMAIN journal /\ Entries(n)' \in SUBSET DOMAIN journal' BY DEF Entries
<1> QED BY <1>1, <1>2, FiniteSizes DEF Load, Booked, TypeOK

(* The position of a processor that counts a run. *)
LEMMA FormsLeft ==
    ASSUME NEW p \in Pollers, LocalsOK(p), proc[p].pc \in {"tax_read", "tax_write"}
    PROVE  /\ proc[p].forms \in {Forms, <<"2316">>}
           /\ Head(proc[p].forms) \in FormSet
           /\ Owes(p, Head(proc[p].forms), Subject[Current(p)])
<1>1. proc[p].forms \in {Forms, <<"2316">>} BY DEF LocalsOK
<1>2. CASE proc[p].forms = Forms BY <1>1, <1>2, FormsTyped DEF Owes
<1>3. CASE proc[p].forms = <<"2316">> BY <1>1, <1>3, FormsTyped DEF Owes
<1> QED BY <1>1, <1>2, <1>3

(* Only a booking adds an entry to a run. *)
LEMMA EntriesKept ==
    ASSUME TypeOK, \A p \in Pollers : LocalsOK(p), Next, \A p \in Pollers : ~Book(p)
    PROVE  \A n : Entries(n)' = Entries(n)
<1>1. ASSUME NEW p \in Pollers, PostDraft(p) \/ Reverse(p) PROVE \A n : Entries(n)' = Entries(n)
  <2>1. PICK i \in DOMAIN journal : i = proc[p].entry
    BY <1>1 DEF PostDraft, Reverse, LocalsOK, Entries
  <2>2. PICK row \in Entry : row = journal[i] BY RowsCount
  <2>3. \/ journal' = journal
        \/ journal' = [journal EXCEPT ![i] = PostedRow(row)]
        \/ journal' = [journal EXCEPT ![i] = Undone(row)]
    BY <1>1, <2>1, <2>2 DEF PostDraft, Reverse
  <2>4. PostedRow(row).run = row.run /\ Undone(row).run = row.run BY RowsChanged
  <2>5. DOMAIN journal' = DOMAIN journal BY <2>3 DEF TypeOK
  <2>6. \A j \in DOMAIN journal : j # i => journal'[j] = journal[j] BY <2>3 DEF TypeOK
  <2>7. journal'[i] = row \/ journal'[i] = PostedRow(row) \/ journal'[i] = Undone(row)
    BY <2>2, <2>3 DEF TypeOK
  <2>8. \A j \in DOMAIN journal : journal'[j].run = journal[j].run BY <2>2, <2>4, <2>6, <2>7
  <2> QED BY <2>5, <2>8 DEF Entries
<1>2. ASSUME UNCHANGED journal PROVE \A n : Entries(n)' = Entries(n) BY <1>2 DEF Entries
<1> QED BY <1>1, <1>2
     DEF Next, PollerStep, Receive, ReceiveUnanswered, Replay, Poll, Dispatch, TaxRead, TaxWrite,
         Find, ReverseRead, MarkProcessed, MarkFailed, Record, Fails, Crash

(* And only by it a processor comes to owe a run to a form. *)
LEMMA NobodyOwesMore ==
    ASSUME TypeOK, \A p \in Pollers : LocalsOK(p), Next, \A p \in Pollers : ~Book(p), NEW f
    PROVE  \A n : Pending(f, n)' \subseteq Pending(f, n)
<1> SUFFICES ASSUME NEW n, NEW q \in Pollers, Owes(q, f, n)' PROVE Owes(q, f, n) BY DEF Pending
<1>1. CASE proc'[q] = proc[q] BY <1>1 DEF Owes, Current
<1>2. ASSUME NEW p \in Pollers, PollerStep(p) \/ Fails(p) \/ Crash(p), p # q
      PROVE  proc'[q] = proc[q]
  BY <1>2 DEF PollerStep, Poll, Dispatch, Book, TaxRead, TaxWrite, Find, PostDraft, ReverseRead,
     Reverse, MarkProcessed, MarkFailed, Record, Fails, Crash, NextEvent, Jump, Goto, TypeOK
<1>3. proc'[q].pc \in {"tax_read", "tax_write"} BY DEF Owes
<1>4. CASE TaxRead(q)
  <2>1. /\ proc[q].pc = "tax_read" /\ proc'[q].todo = proc[q].todo
        /\ proc'[q].forms = proc[q].forms
    BY <1>3, <1>4 DEF TaxRead, Jump, Goto, TypeOK
  <2> QED BY <2>1 DEF Owes, Current
<1>5. CASE TaxWrite(q)
  <2>1. /\ proc[q].pc = "tax_write" /\ Len(proc[q].forms) # 1
        /\ proc'[q] = [pc |-> "tax_read", todo |-> proc[q].todo, forms |-> Tail(proc[q].forms)]
    <3>1. Len(proc[q].forms) # 1 BY <1>3, <1>5 DEF TaxWrite, Jump, Goto, TypeOK
    <3> QED BY <1>5, <3>1 DEF TaxWrite, Goto, TypeOK
  <2>2. proc[q].forms = Forms BY <2>1, FormsLeft, FormsTyped
  <2> QED BY <2>1, <2>2 DEF Owes, Current
<1>6. ASSUME Dispatch(q) \/ Fails(q) PROVE FALSE
  BY <1>3, <1>6 DEF Dispatch, Fails, Jump, Goto, TypeOK
<1>7. ASSUME Poll(q) \/ Crash(q) PROVE FALSE BY <1>3, <1>7 DEF Poll, Crash, Goto, TypeOK, Idle
<1>8. ASSUME Find(q) PROVE FALSE BY <1>3, <1>8 DEF Find, Jump, Goto, TypeOK
<1>9. ASSUME PostDraft(q) \/ ReverseRead(q) PROVE FALSE
  <2>1. PICK t, i : \E l \in {"post", "reverse_read"} : proc[q] = [pc |-> l, todo |-> t, entry |-> i]
    <3>1. proc[q].pc \in {"post", "reverse_read"} BY <1>9 DEF PostDraft, ReverseRead
    <3> QED BY <3>1, ProcFields
  <2> QED BY <1>3, <1>9, <2>1 DEF PostDraft, ReverseRead, Jump, Goto, TypeOK
<1>10. ASSUME Reverse(q) PROVE FALSE BY <1>3, <1>10 DEF Reverse, Jump, Goto, TypeOK
<1>11. ASSUME MarkProcessed(q) \/ MarkFailed(q) PROVE FALSE
  BY <1>3, <1>11 DEF MarkProcessed, MarkFailed, Record, NextEvent, Goto, TypeOK, Idle
<1>12. CASE \E e \in sends : Receive(e) \/ ReceiveUnanswered(e) \/ Replay(e)
  BY <1>1, <1>12 DEF Receive, ReceiveUnanswered, Replay
<1> QED BY <1>1, <1>2, <1>4, <1>5, <1>6, <1>7, <1>8, <1>9, <1>10, <1>11, <1>12
     DEF Next, PollerStep

(* A booking and the debt it makes go together: no step brings what is owed to
   a form closer to what is booked. *)
LEMMA DebtIsBooked ==
    ASSUME TypeOK, TypeOK', \A p \in Pollers : LocalsOK(p), Next, NEW f \in FormSet, NEW n
    PROVE  Load(f, n)' + Booked(n) <= Load(f, n) + Booked(n)'
<1>1. /\ IsFiniteSet(Pending(f, n)) /\ Load(f, n) \in Nat
      /\ IsFiniteSet(Entries(n)) /\ Booked(n) \in Nat
      /\ Load(f, n)' \in Nat /\ Booked(n)' \in Nat
      /\ IsFiniteSet(Pending(f, n)') /\ IsFiniteSet(Entries(n)')
  BY SizesAreNumbers
<1>2. CASE \A p \in Pollers : ~Book(p)
  <2>1. Booked(n)' = Booked(n) BY <1>2, EntriesKept DEF Booked
  <2>2. Pending(f, n)' \subseteq Pending(f, n) BY <1>2, NobodyOwesMore
  <2>3. Load(f, n)' <= Load(f, n) BY <1>1, <2>2, FS_Subset DEF Load
  <2> QED BY <1>1, <2>1, <2>3
<1>3. ASSUME NEW p \in Pollers, Book(p) PROVE  Load(f, n)' + Booked(n) <= Load(f, n) + Booked(n)'
  <2>1. PICK m \in Runs, row \in Entry : m = Subject[Current(p)] /\ row = Booking(m)
    BY <1>3, CurrentIsEvent DEF Book, LocalsOK, Busy, Booking, Entry
  <2>2. journal' = Append(journal, row) /\ row.run = m /\ journal \in Seq(Entry)
    BY <1>3, <2>1 DEF Book, Booking, TypeOK
  <2>3. /\ DOMAIN journal' = DOMAIN journal \cup {Len(journal) + 1}
        /\ Len(journal) + 1 \notin DOMAIN journal
        /\ journal'[Len(journal) + 1] = row
        /\ \A i \in DOMAIN journal : journal'[i] = journal[i]
    BY <2>2
  <2>4. \A q \in Pollers : q # p => (Owes(q, f, n)' <=> Owes(q, f, n))
    BY <1>3 DEF Book, Jump, Goto, Owes, Current, TypeOK
  <2>5. proc[p].todo = proc'[p].todo /\ ~Owes(p, f, n) BY <1>3 DEF Book, Jump, Goto, Owes, TypeOK
  <2>6. CASE n = m
    <3>1. Entries(n)' = Entries(n) \cup {Len(journal) + 1} /\ Len(journal) + 1 \notin Entries(n)
      BY <2>2, <2>3, <2>6 DEF Entries
    <3>2. Booked(n)' = Booked(n) + 1 BY <1>1, <3>1, FS_AddElement DEF Booked
    <3>3. Pending(f, n)' \subseteq Pending(f, n) \cup {p} BY <2>4 DEF Pending
    <3>4. /\ Cardinality(Pending(f, n) \cup {p}) = Load(f, n) + 1
          /\ IsFiniteSet(Pending(f, n) \cup {p})
      <4>1. p \notin Pending(f, n) BY <2>5 DEF Pending
      <4> QED BY <1>1, <4>1, FS_AddElement DEF Load
    <3>5. Load(f, n)' <= Load(f, n) + 1 BY <3>3, <3>4, FS_Subset DEF Load
    <3> QED BY <1>1, <3>2, <3>5
  <2>7. CASE n # m
    <3>1. Entries(n)' = Entries(n) BY <2>2, <2>3, <2>7 DEF Entries
    <3>2. ~Owes(p, f, n)' BY <2>1, <2>5, <2>7 DEF Owes, Current
    <3>3. Pending(f, n)' = Pending(f, n) BY <2>4, <2>5, <3>2 DEF Pending
    <3> QED BY <1>1, <3>1, <3>3 DEF Load, Booked
  <2> QED BY <2>6, <2>7
<1> QED BY <1>2, <1>3

(* A sum that stays below as both sides move. *)
LEMMA StaysBelow ==
    ASSUME NEW t \in Nat, NEW a \in Nat, NEW b \in Nat, NEW c \in Nat, NEW d \in Nat,
           t + a <= b, c + b <= a + d
    PROVE  t + c <= d
OBVIOUS

(* Writing a draft pays the debt. *)
LEMMA DebtIsPaid ==
    ASSUME TypeOK, TypeOK', \A q \in Pollers : LocalsOK(q), NEW p \in Pollers, TaxWrite(p),
           TaxedInv, Next
    PROVE  \A f \in FormSet, n \in Runs : taxed'[f][n] + Load(f, n)' <= Booked(n)'
<1>1. PICK g \in FormSet, m \in Runs :
        g = Head(proc[p].forms) /\ m = Subject[Current(p)] /\ Owes(p, g, m)
  BY FormsLeft, CurrentIsEvent DEF TaxWrite, LocalsOK, Busy
<1>2. PICK prev \in [Runs -> Nat] : prev = proc[p].prev BY ProcFields DEF TaxWrite
<1>3. taxed' = taxed \/ taxed' = [taxed EXCEPT ![g] = Added(prev, m)] BY <1>1, <1>2 DEF TaxWrite
<1>4. SUFFICES ASSUME NEW f \in FormSet, NEW n \in Runs
               PROVE  taxed'[f][n] + Load(f, n)' <= Booked(n)' OBVIOUS
<1>5. /\ Load(f, n) \in Nat /\ Booked(n) \in Nat /\ taxed[f][n] \in Nat /\ prev[n] \in Nat
      /\ Load(f, n)' \in Nat /\ Booked(n)' \in Nat /\ IsFiniteSet(Pending(f, n))
  <2>1. taxed[f] \in [Runs -> Nat] BY DEF TypeOK
  <2> QED BY <2>1, SizesAreNumbers
<1>6. Load(f, n)' + Booked(n) <= Load(f, n) + Booked(n)' BY DebtIsBooked
<1>7. CASE f # g \/ taxed' = taxed
  <2>1. taxed'[f][n] = taxed[f][n] BY <1>3, <1>7 DEF TypeOK
  <2> QED BY <1>5, <1>6, <2>1, StaysBelow DEF TaxedInv
<1>8. CASE taxed' # taxed /\ f = g /\ n # m
  <2>1. taxed'[f][n] = prev[n] BY <1>3, <1>8 DEF TypeOK, Added
  <2>2. prev[n] + Load(f, n) <= Booked(n) BY <1>1, <1>2, <1>8 DEF TaxedInv, TaxWrite
  <2> QED BY <1>5, <1>6, <2>1, <2>2, StaysBelow
<1>9. CASE taxed' # taxed /\ f = g /\ n = m
  <2>1. taxed'[f][n] = prev[n] + 1 BY <1>3, <1>9 DEF TypeOK, Added
  <2>2. prev[n] + Load(f, n) <= Booked(n) BY <1>1, <1>2, <1>9 DEF TaxedInv, TaxWrite
  <2>3. \A q \in Pollers : ~Book(q) BY DEF TaxWrite, Book, Goto, Jump, TypeOK
  <2>4. Booked(n)' = Booked(n) BY <2>3, EntriesKept DEF Booked
  <2>5. p \in Pending(f, n) /\ p \notin Pending(f, n)'
    <3>1. \/ proc'[p] = [pc |-> "processed", todo |-> proc[p].todo]
          \/ proc'[p] = [pc |-> "tax_read", todo |-> proc[p].todo, forms |-> Tail(proc[p].forms)]
             /\ Len(proc[p].forms) # 1
      BY DEF TaxWrite, Jump, Goto, TypeOK
    <3>2. Len(proc[p].forms) # 1 => f = "1601C" /\ Tail(proc[p].forms) = <<"2316">>
      BY <1>1, <1>9, FormsLeft, FormsTyped DEF TaxWrite
    <3>3. <<"2316">> # Forms BY FormsTyped
    <3>4. ~Owes(p, f, n)'
      <4>1. proc'[p].pc = "processed" \/ (f = "1601C" /\ proc'[p].forms = <<"2316">>)
        <5>1. CASE Len(proc[p].forms) # 1
          <6>1. PICK rest : rest = Tail(proc[p].forms) OBVIOUS
          <6>2. rest = <<"2316">> /\ f = "1601C" BY <3>2, <5>1, <6>1
          <6>3. \/ proc'[p] = [pc |-> "processed", todo |-> proc[p].todo]
                \/ proc'[p] = [pc |-> "tax_read", todo |-> proc[p].todo, forms |-> rest]
            BY <3>1, <6>1
          <6>4. proc'[p].pc = "processed" \/ proc'[p].forms = rest BY <6>3
          <6> QED BY <6>2, <6>4
        <5>2. CASE Len(proc[p].forms) = 1 BY <3>1, <5>2
        <5> QED BY <5>1, <5>2
      <4> QED BY <3>3, <4>1 DEF Owes
    <3> QED BY <1>1, <1>9, <3>4 DEF Pending
  <2>6. Pending(f, n)' \subseteq Pending(f, n) \ {p} BY <2>3, <2>5, NobodyOwesMore
  <2>7. /\ Cardinality(Pending(f, n) \ {p}) = Load(f, n) - 1
        /\ IsFiniteSet(Pending(f, n) \ {p})
    BY <1>5, <2>5, FS_RemoveElement DEF Load
  <2>8. Load(f, n)' <= Load(f, n) - 1 BY <2>6, <2>7, FS_Subset DEF Load
  <2> QED BY <1>5, <2>1, <2>2, <2>4, <2>8
<1> QED BY <1>7, <1>8, <1>9

(* What the processors remember of the drafts stays true of them. *)
LEMMA MemoryKept ==
    ASSUME TypeOK, TypeOK', \A q \in Pollers : LocalsOK(q), TaxedInv, Next,
           NEW p \in Pollers, NEW g \in FormSet, NEW n \in Runs,
           proc'[p].pc = "tax_write", g = Head(proc'[p].forms)
    PROVE  proc'[p].prev[n] + Load(g, n)' <= Booked(n)'
<1>1. \/ proc'[p] = proc[p]
      \/ /\ proc[p].pc = "tax_read" /\ proc'[p].forms = proc[p].forms
         /\ proc'[p].prev \in {taxed[Head(proc[p].forms)], NoDraft}
  <2>1. CASE proc'[p] # proc[p]
    <3>1. ASSUME NEW q \in Pollers, PollerStep(q) \/ Fails(q) \/ Crash(q), p # q
          PROVE  proc'[p] = proc[p]
      BY <3>1 DEF PollerStep, Poll, Dispatch, Book, TaxRead, TaxWrite, Find, PostDraft, ReverseRead,
         Reverse, MarkProcessed, MarkFailed, Record, Fails, Crash, NextEvent, Jump, Goto, TypeOK
    <3>2. PollerStep(p) \/ Fails(p) \/ Crash(p)
      BY <2>1, <3>1 DEF Next, Receive, ReceiveUnanswered, Replay
    <3>3. ASSUME Poll(p) \/ Dispatch(p) \/ Book(p) \/ TaxWrite(p) \/ Reverse(p)
                 \/ MarkProcessed(p) \/ MarkFailed(p) \/ Fails(p) \/ Crash(p)
          PROVE FALSE
      BY <3>3 DEF Poll, Dispatch, Book, TaxWrite, Reverse, MarkProcessed, MarkFailed, Record, Fails,
         Crash, NextEvent, Jump, Goto, TypeOK, Idle
    <3>4. ASSUME Find(p) PROVE FALSE BY <3>4 DEF Find, Jump, Goto, TypeOK
    <3>5. ASSUME PostDraft(p) \/ ReverseRead(p) PROVE FALSE
      <4>1. PICK t, i : \E l \in {"post", "reverse_read"} :
                          proc[p] = [pc |-> l, todo |-> t, entry |-> i]
        <5>1. proc[p].pc \in {"post", "reverse_read"} BY <3>5 DEF PostDraft, ReverseRead
        <5> QED BY <5>1, ProcFields
      <4> QED BY <3>5, <4>1 DEF PostDraft, ReverseRead, Jump, Goto, TypeOK
    <3>6. TaxRead(p) BY <3>2, <3>3, <3>4, <3>5 DEF PollerStep
    <3> QED BY <3>6 DEF TaxRead, Jump, Goto, TypeOK
  <2> QED BY <2>1
<1>2. proc[p].pc \in {"tax_read", "tax_write"} /\ proc'[p].forms = proc[p].forms BY <1>1
<1>3. g = Head(proc[p].forms) BY <1>2
<1>4. PICK prev \in [Runs -> Nat] : prev = proc'[p].prev
  <2>1. CASE proc'[p] = proc[p] BY <2>1, ProcFields
  <2>2. CASE proc'[p].prev = taxed[Head(proc[p].forms)] BY <1>3, <2>2 DEF TypeOK
  <2>3. CASE proc'[p].prev = NoDraft BY <2>3 DEF NoDraft
  <2> QED BY <1>1, <2>1, <2>2, <2>3
<1>5. prev[n] + Load(g, n) <= Booked(n)
  <2>1. CASE prev # NoDraft BY <1>1, <1>3, <1>4, <2>1 DEF TaxedInv
  <2>2. CASE prev = NoDraft
    <3>1. taxed[g] \in [Runs -> Nat] /\ taxed[g][n] + Load(g, n) <= Booked(n) /\ prev[n] = 0
      BY <2>2 DEF TaxedInv, TypeOK, NoDraft
    <3>2. taxed[g][n] \in Nat /\ Load(g, n) \in Nat /\ Booked(n) \in Nat BY <3>1, SizesAreNumbers
    <3> QED BY <3>1, <3>2
  <2> QED BY <2>1, <2>2
<1>6. Load(g, n)' + Booked(n) <= Load(g, n) + Booked(n)' BY DebtIsBooked
<1>7. prev[n] + Load(g, n)' <= Booked(n)' BY <1>5, <1>6, SizesAreNumbers, StaysBelow
<1> QED BY <1>4, <1>7

(* Every step keeps the drafts within what is booked. *)
LEMMA TaxedKept ==
    ASSUME TypeOK, TypeOK', \A p \in Pollers : LocalsOK(p), TaxedInv, Next
    PROVE  TaxedInv'
<1>1. ASSUME NEW f \in FormSet, NEW n \in Runs PROVE  taxed'[f][n] + Load(f, n)' <= Booked(n)'
  <2>1. CASE \E p \in Pollers : TaxWrite(p) BY <2>1, DebtIsPaid
  <2>2. CASE \A p \in Pollers : ~TaxWrite(p)
    <3>1. taxed' = taxed
      BY <2>2 DEF Next, PollerStep, Receive, ReceiveUnanswered, Replay, Poll, Dispatch, Book,
         TaxRead, Find, PostDraft, ReverseRead, Reverse, MarkProcessed, MarkFailed, Record, Fails,
         Crash
    <3>2. Load(f, n)' + Booked(n) <= Load(f, n) + Booked(n)' BY DebtIsBooked
    <3>3. taxed[f][n] \in Nat
      <4>1. taxed[f] \in [Runs -> Nat] BY DEF TypeOK
      <4> QED BY <4>1
    <3>4. taxed[f][n] + Load(f, n) <= Booked(n) BY DEF TaxedInv
    <3> QED BY <3>1, <3>2, <3>3, <3>4, SizesAreNumbers, StaysBelow
  <2> QED BY <2>1, <2>2
<1> QED BY <1>1, MemoryKept DEF TaxedInv

(* The draft of a form never counts a run more often than it was booked,
   although processors read it and write it back in separate statements. *)
THEOREM DraftsCountBookings == Spec => []TaxedBounded
<1> DEFINE Inv == EffectInv /\ TaxedInv
<1>1. Init => TaxedInv
  <2> SUFFICES ASSUME Init PROVE TaxedInv OBVIOUS
  <2>1. \A f \in FormSet, n \in Runs : taxed[f][n] + Load(f, n) <= Booked(n)
    <3> SUFFICES ASSUME NEW f \in FormSet, NEW n \in Runs
                 PROVE  taxed[f][n] + Load(f, n) <= Booked(n) OBVIOUS
    <3>1. taxed[f][n] = 0 /\ Entries(n) = {} /\ Pending(f, n) = {}
      BY DEF Init, Entries, Pending, Owes, Idle
    <3> QED BY <3>1, FS_EmptySet DEF Load, Booked
  <2> QED BY <2>1 DEF Init, Idle, TaxedInv
<1>2. EffectInv /\ EffectInv' /\ TaxedInv /\ [Next]_vars => TaxedInv'
  <2>1. CASE Next BY <2>1, TaxedKept DEF EffectInv
  <2>2. CASE UNCHANGED vars
    BY <2>2 DEF vars, TaxedInv, Load, Booked, Pending, Owes, Entries, Current
  <2> QED BY <2>1, <2>2
<1>3. EffectInv /\ TaxedInv => TaxedBounded
  <2> SUFFICES ASSUME EffectInv, TaxedInv, NEW f \in FormSet, NEW n \in Runs
               PROVE  taxed[f][n] <= Cardinality(Entries(n))
    BY DEF TaxedBounded
  <2>1. taxed[f] \in [Runs -> Nat] BY DEF EffectInv, TypeOK
  <2>2. Pending(f, n) \in SUBSET Pollers /\ Entries(n) \in SUBSET DOMAIN journal
    BY DEF Pending, Entries
  <2>3. Load(f, n) \in Nat /\ Booked(n) \in Nat
    BY <2>2, FiniteSizes DEF EffectInv, TypeOK, Load, Booked
  <2>4. taxed[f][n] + Load(f, n) <= Booked(n) BY DEF TaxedInv
  <2> QED BY <2>1, <2>3, <2>4 DEF Booked
<1> QED BY <1>1, <1>2, <1>3, EffectInvAlways, PTL DEF Spec

----
(* The inbox and the batches. *)

(* An event arrives once, and a batch holds an event once. *)
Queued ==
    /\ \A i \in DOMAIN arrived : arrived[i] \in sends /\ inbox[arrived[i]] # "none"
    /\ \A i, j \in DOMAIN arrived : arrived[i] = arrived[j] => i = j
    /\ \A e \in Events : inbox[e] # "none" => \E i \in DOMAIN arrived : arrived[i] = e
Taken(p) ==
    proc[p].pc \in Busy =>
        /\ p \in running
        /\ \A k \in DOMAIN proc[p].todo : inbox[proc[p].todo[k]] # "none"
        /\ \A j, k \in DOMAIN proc[p].todo : proc[p].todo[j] = proc[p].todo[k] => j = k

QueueInv == EffectInv /\ Queued /\ \A p \in Pollers : Taken(p)

(* The members of a finite set of numbers are its k-th ones, in order. *)
LEMMA NthInOrder ==
    ASSUME NEW S, S \subseteq Nat, IsFiniteSet(S), NEW b \in Nat, \A s \in S : s <= b
    PROVE  /\ \A k \in 1..Cardinality(S) : Nth(S, k) \in S
           /\ \A j, k \in 1..Cardinality(S) : j < k => Nth(S, j) < Nth(S, k)
           /\ \A i \in S, k \in 1..Cardinality(S) : i <= Nth(S, k) =>
                \E l \in 1..k : Nth(S, l) = i
<1> DEFINE Upto(i) == {j \in S : j <= i}
<1>0. Cardinality(S) \in Nat BY FS_CardinalityType
<1>1. \A i : IsFiniteSet(Upto(i)) /\ Cardinality(Upto(i)) \in Nat BY FS_Subset, FS_CardinalityType
<1>2. ASSUME NEW k \in 1..Cardinality(S) PROVE  Nth(S, k) \in S /\ Cardinality(Upto(Nth(S, k))) = k
  <2>1. k \in Nat /\ 1 <= k /\ k <= Cardinality(S) BY <1>0
  <2> QED BY <2>1, NthIsMember
<1>a. \A i, j : j \in Upto(i) <=> j \in S /\ j <= i
  OBVIOUS
<1> HIDE DEF Upto
<1>3. ASSUME NEW i \in S, NEW j \in S, i < j PROVE  Cardinality(Upto(i)) < Cardinality(Upto(j))
  <2>1. i \in Nat /\ j \in Nat OBVIOUS
  <2>2. Upto(i) \subseteq Upto(j) \ {j}
    <3>1. \A k \in S : k <= i => k <= j /\ k # j BY <1>3, <2>1
    <3> QED BY <1>a, <3>1
  <2>3. j \in Upto(j) BY <1>a, <2>1
  <2>4. Cardinality(Upto(j) \ {j}) = Cardinality(Upto(j)) - 1 /\ IsFiniteSet(Upto(j) \ {j})
    BY <1>1, <2>3, FS_RemoveElement
  <2>5. Cardinality(Upto(i)) <= Cardinality(Upto(j) \ {j}) BY <2>2, <2>4, FS_Subset
  <2>6. Cardinality(Upto(i)) \in Nat /\ Cardinality(Upto(j)) \in Nat BY <1>1
  <2> QED BY <2>4, <2>5, <2>6
<1>4. ASSUME NEW i \in S, NEW j \in S, Cardinality(Upto(i)) <= Cardinality(Upto(j)) PROVE  i <= j
  <2>1. i \in Nat /\ j \in Nat /\ Cardinality(Upto(i)) \in Nat /\ Cardinality(Upto(j)) \in Nat
    BY <1>1
  <2> QED BY <1>3, <1>4, <2>1
<1>5. ASSUME NEW j \in 1..Cardinality(S), NEW k \in 1..Cardinality(S), j < k
      PROVE  Nth(S, j) < Nth(S, k)
  <2>1. /\ Nth(S, j) \in S /\ Cardinality(Upto(Nth(S, j))) = j
        /\ Nth(S, k) \in S /\ Cardinality(Upto(Nth(S, k))) = k
    BY <1>2
  <2>2. ~(Nth(S, k) <= Nth(S, j))
    <3>1. CASE Nth(S, k) < Nth(S, j)
      <4>1. Cardinality(Upto(Nth(S, k))) < Cardinality(Upto(Nth(S, j))) BY <1>3, <2>1, <3>1
      <4> QED BY <1>0, <1>5, <2>1, <4>1
    <3>2. CASE Nth(S, k) = Nth(S, j) BY <1>0, <1>5, <2>1, <3>2
    <3>3. Nth(S, k) \in Nat /\ Nth(S, j) \in Nat BY <2>1
    <3> QED BY <3>1, <3>2, <3>3
  <2>3. Nth(S, k) \in Nat /\ Nth(S, j) \in Nat BY <2>1
  <2> QED BY <2>2, <2>3
<1>6. ASSUME NEW i \in S, NEW k \in 1..Cardinality(S), i <= Nth(S, k)
      PROVE  \E l \in 1..k : Nth(S, l) = i
  <2>1. Nth(S, k) \in S /\ Cardinality(Upto(Nth(S, k))) = k BY <1>2
  <2>2. PICK l \in Nat : l = Cardinality(Upto(i)) BY <1>1
  <2>3. l <= k
    <3>1. CASE i = Nth(S, k) BY <1>0, <2>1, <2>2, <3>1
    <3>2. CASE i < Nth(S, k)
      <4>1. Cardinality(Upto(i)) < Cardinality(Upto(Nth(S, k))) BY <1>3, <2>1, <3>2
      <4> QED BY <1>0, <2>1, <2>2, <4>1
    <3>3. i \in Nat /\ Nth(S, k) \in Nat BY <2>1
    <3> QED BY <1>6, <3>1, <3>2, <3>3
  <2>4. l # 0
    <3>1. i \in Upto(i) BY <1>a
    <3> QED BY <1>1, <2>2, <3>1, FS_EmptySet
  <2>5. l \in 1..Cardinality(S) /\ l \in 1..k BY <1>0, <2>3, <2>4
  <2>6. Nth(S, l) \in S /\ Cardinality(Upto(Nth(S, l))) = l BY <1>2, <2>5
  <2>7. Nth(S, l) <= i /\ i <= Nth(S, l)
    <3>1. /\ Cardinality(Upto(Nth(S, l))) <= Cardinality(Upto(i))
          /\ Cardinality(Upto(i)) <= Cardinality(Upto(Nth(S, l)))
      BY <2>2, <2>6
    <3> QED BY <1>4, <2>6, <3>1
  <2>8. Nth(S, l) \in Nat /\ i \in Nat BY <2>6
  <2> QED BY <2>5, <2>7, <2>8
<1> QED BY <1>2, <1>5, <1>6

(* What the processor takes is of the inbox, every event once and in the order
   of their arrival, and no event that waited longer is left. *)
LEMMA BatchInOrder ==
    ASSUME TypeOK
    PROVE  /\ \A k \in DOMAIN Batch : \E i \in PendingEvents : arrived[i] = Batch[k]
           /\ Queued => \A j, k \in DOMAIN Batch, a, b \in DOMAIN arrived :
                j < k /\ arrived[a] = Batch[j] /\ arrived[b] = Batch[k] => a < b
           /\ Queued => \A k \in DOMAIN Batch, i \in PendingEvents, a \in DOMAIN arrived :
                i <= a /\ arrived[a] = Batch[k] => \E l \in DOMAIN Batch : Batch[l] = arrived[i]
<1> DEFINE n == Cardinality(PendingEvents)
           size == IF n < BatchSize THEN n ELSE BatchSize
<1>1. /\ PendingEvents \subseteq DOMAIN arrived /\ PendingEvents \subseteq Nat
      /\ IsFiniteSet(PendingEvents) /\ Len(arrived) \in Nat
      /\ \A s \in PendingEvents : s <= Len(arrived)
  <2>1. DOMAIN arrived = 1..Len(arrived) /\ Len(arrived) \in Nat BY DEF TypeOK
  <2>2. PendingEvents \subseteq 1..Len(arrived) BY <2>1 DEF PendingEvents
  <2>3. IsFiniteSet(1..Len(arrived)) BY <2>1, FS_Interval
  <2>4. IsFiniteSet(PendingEvents) BY <2>2, <2>3, FS_Subset
  <2> QED BY <2>1, <2>2, <2>4
<1>2. n \in Nat /\ size \in Nat /\ size <= n BY <1>1, FS_CardinalityType, HRInboxAssumption
<1>3. /\ \A k \in 1..n : Nth(PendingEvents, k) \in PendingEvents
      /\ \A j, k \in 1..n : j < k => Nth(PendingEvents, j) < Nth(PendingEvents, k)
      /\ \A i \in PendingEvents, k \in 1..n : i <= Nth(PendingEvents, k) =>
           \E l \in 1..k : Nth(PendingEvents, l) = i
  BY <1>1, NthInOrder
<1>4. Batch = [k \in 1..size |-> arrived[Nth(PendingEvents, k)]] BY DEF Batch
<1> HIDE DEF size, n
<1>5. DOMAIN Batch = 1..size /\ \A k \in 1..size : k \in 1..n BY <1>2, <1>4
<1>6. ASSUME Queued, NEW a \in DOMAIN arrived, NEW k \in DOMAIN Batch, arrived[a] = Batch[k]
      PROVE  a = Nth(PendingEvents, k)
  <2>1. Nth(PendingEvents, k) \in DOMAIN arrived /\ arrived[a] = arrived[Nth(PendingEvents, k)]
    BY <1>1, <1>3, <1>4, <1>5, <1>6
  <2> QED BY <1>6, <2>1 DEF Queued
<1>7. \A k \in DOMAIN Batch : \E i \in PendingEvents : arrived[i] = Batch[k] BY <1>3, <1>4, <1>5
<1>8. ASSUME Queued, NEW j \in DOMAIN Batch, NEW k \in DOMAIN Batch, NEW a \in DOMAIN arrived,
             NEW b \in DOMAIN arrived, j < k, arrived[a] = Batch[j], arrived[b] = Batch[k]
      PROVE  a < b
  BY <1>3, <1>5, <1>6, <1>8
<1>9. ASSUME Queued, NEW k \in DOMAIN Batch, NEW i \in PendingEvents, NEW a \in DOMAIN arrived,
             i <= a, arrived[a] = Batch[k] PROVE  \E l \in DOMAIN Batch : Batch[l] = arrived[i]
  <2>1. PICK l \in 1..k : Nth(PendingEvents, l) = i BY <1>3, <1>5, <1>6, <1>9
  <2>2. l \in 1..size BY <1>2, <1>5, <2>1
  <2> QED BY <1>4, <1>5, <2>1, <2>2
<1> QED BY <1>7, <1>8, <1>9

(* What handles an event, as opposed to what takes or leaves one. *)
Handles(p) ==
    \/ Dispatch(p) \/ Book(p) \/ TaxRead(p) \/ TaxWrite(p)
    \/ Find(p) \/ PostDraft(p) \/ ReverseRead(p) \/ Reverse(p) \/ Fails(p)

(* Handling an event goes on with the same batch. *)
LEMMA HandlingStays ==
    ASSUME TypeOK, NEW p \in Pollers, LocalsOK(p), Handles(p)
    PROVE  /\ proc[p].pc \in Busy /\ proc'[p].pc \in Busy
           /\ proc'[p].todo = proc[p].todo
           /\ UNCHANGED <<inbox, arrived>>
           /\ Current(p)' = Current(p)
<1> USE DEF Goto, Jump, TypeOK, Busy
<1>1. CASE Dispatch(p) BY <1>1 DEF Dispatch, Current
<1>2. CASE Book(p) \/ TaxWrite(p) \/ Reverse(p) \/ Fails(p)
  BY <1>2 DEF Book, TaxWrite, Reverse, Fails, Current
<1>3. CASE TaxRead(p) BY <1>3 DEF TaxRead, Current
<1>4. CASE Find(p) BY <1>4 DEF Find, Current
<1>5. CASE PostDraft(p) \/ ReverseRead(p)
  <2>1. PICK t, i : \E l \in {"post", "reverse_read"} : proc[p] = [pc |-> l, todo |-> t, entry |-> i]
    <3>1. proc[p].pc \in {"post", "reverse_read"} BY <1>5 DEF PostDraft, ReverseRead
    <3> QED BY <3>1, ProcFields
  <2>2. /\ [proc[p] EXCEPT !.pc = "reverse_read"] = [pc |-> "reverse_read", todo |-> t, entry |-> i]
        /\ [proc[p] EXCEPT !.pc = "reverse"] = [pc |-> "reverse", todo |-> t, entry |-> i]
    BY <2>1
  <2>3. \E k \in {"reverse_read", "reverse"} :
          \/ proc'[p] = [pc |-> k, todo |-> t, entry |-> i]
          \/ proc'[p] = [pc |-> "failed", todo |-> t]
    BY <1>5, <2>1, <2>2 DEF PostDraft, ReverseRead
  <2>4. proc'[p].pc \in Busy /\ proc'[p].todo = t BY <2>3
  <2> QED BY <1>5, <2>1, <2>4 DEF PostDraft, ReverseRead, Current
<1> QED BY <1>1, <1>2, <1>3, <1>4, <1>5 DEF Handles

(* A step of a processor is one of five, and leaves the others as they are. *)
LEMMA StepIsOneOf ==
    ASSUME TypeOK, NEW p \in Pollers, LocalsOK(p), PollerStep(p) \/ Fails(p) \/ Crash(p)
    PROVE  /\ \A q \in Pollers : q # p => proc'[q] = proc[q]
           /\ UNCHANGED <<sends, running, arrived>>
           /\ \/ Handles(p)
              \/ Poll(p) /\ UNCHANGED inbox
              \/ MarkProcessed(p)
              \/ MarkFailed(p)
              \/ Crash(p) /\ UNCHANGED inbox
<1>1. UNCHANGED <<sends, running, arrived>> /\ \A q \in Pollers : q # p => proc'[q] = proc[q]
  BY DEF PollerStep, Poll, Dispatch, Book, TaxRead, TaxWrite, Find, PostDraft, ReverseRead, Reverse,
     MarkProcessed, MarkFailed, Record, Fails, Crash, NextEvent, Jump, Goto, TypeOK
<1> QED BY <1>1 DEF PollerStep, Handles, Poll, Crash

(* Going on to the next event drops the current one from the batch. *)
LEMMA NextDropsHead ==
    ASSUME TypeOK, NEW p \in Pollers, LocalsOK(p), proc[p].pc \in Busy, NextEvent(p)
    PROVE  \/ proc'[p] = Idle /\ Len(proc[p].todo) = 1
           \/ /\ proc'[p].pc = "event" /\ Len(proc[p].todo) > 1
              /\ Len(proc'[p].todo) = Len(proc[p].todo) - 1
              /\ \A k \in 1..Len(proc[p].todo) - 1 : proc'[p].todo[k] = proc[p].todo[k + 1]
              /\ DOMAIN proc'[p].todo = 1..Len(proc[p].todo) - 1
<1>1. PICK s \in Seq(Events) : s = proc[p].todo /\ s # <<>> BY DEF LocalsOK
<1>2. /\ Len(s) \in Nat /\ Len(s) >= 1 /\ Tail(s) \in Seq(Events) /\ Len(Tail(s)) = Len(s) - 1
      /\ DOMAIN Tail(s) = 1..Len(s) - 1
      /\ \A k \in 1..Len(s) - 1 : Tail(s)[k] = s[k + 1]
      /\ Tail(s) = <<>> <=> Len(s) = 1
  <2>1. Len(s) \in Nat /\ Len(s) >= 1 /\ Tail(s) \in Seq(Events) /\ Len(Tail(s)) = Len(s) - 1
    BY <1>1
  <2>2. DOMAIN Tail(s) = 1..Len(s) - 1 BY <2>1
  <2>3. \A k \in 1..Len(s) - 1 : Tail(s)[k] = s[k + 1] BY <1>1
  <2>4. Tail(s) = <<>> <=> Len(s) = 1
    <3>1. \A t \in Seq(Events) : t = <<>> <=> Len(t) = 0 OBVIOUS
    <3>2. PICK t \in Seq(Events) : t = Tail(s) BY <2>1
    <3>3. t = <<>> <=> Len(t) = 0 BY <3>1
    <3>4. Len(t) = Len(s) - 1 /\ Len(s) \in Nat BY <2>1, <3>2
    <3>5. Len(t) = 0 <=> Len(s) = 1 BY <3>4
    <3> QED BY <3>2, <3>3, <3>5
  <2> QED BY <2>1, <2>2, <2>3, <2>4
<1>3. \/ proc'[p] = Idle /\ Tail(s) = <<>>
      \/ proc'[p] = [pc |-> "event", todo |-> Tail(s)] /\ Tail(s) # <<>>
  BY <1>1 DEF NextEvent, Goto, TypeOK
<1>4. CASE proc'[p] = Idle /\ Tail(s) = <<>> BY <1>1, <1>2, <1>4
<1>5. CASE proc'[p] = [pc |-> "event", todo |-> Tail(s)] /\ Tail(s) # <<>>
  <2>1. proc'[p].pc = "event" /\ proc'[p].todo = Tail(s) BY <1>5
  <2>2. Len(s) > 1 BY <1>2, <1>5
  <2> QED BY <1>1, <1>2, <2>1, <2>2
<1> QED BY <1>3, <1>4, <1>5

(* The current event is the first of the batch. *)
LEMMA CurrentIsFirst ==
    ASSUME NEW p \in Pollers, LocalsOK(p), proc[p].pc \in Busy
    PROVE  /\ 1 \in DOMAIN proc[p].todo /\ Current(p) = proc[p].todo[1]
           /\ DOMAIN proc[p].todo = 1..Len(proc[p].todo) /\ Len(proc[p].todo) \in Nat
           /\ Len(proc[p].todo) >= 1
           /\ \A k \in DOMAIN proc[p].todo : proc[p].todo[k] \in Events
<1>1. PICK s \in Seq(Events) : s = proc[p].todo /\ s # <<>> BY DEF LocalsOK
<1>2. 1 \in DOMAIN s /\ DOMAIN s = 1..Len(s) /\ Len(s) \in Nat /\ Len(s) >= 1 /\ Head(s) = s[1]
      /\ \A k \in DOMAIN s : s[k] \in Events
  BY <1>1
<1> QED BY <1>1, <1>2 DEF Current

(* The inbox only moves on: an event that is in it stays. *)
LEMMA InboxMoves ==
    ASSUME TypeOK, [Next]_vars
    PROVE  \A e \in Events : inbox[e] # "none" => inbox'[e] # "none"
BY DEF Next, vars, PollerStep, Receive, ReceiveUnanswered, Replay, Poll, Dispatch, Book, TaxRead,
   TaxWrite, Find, PostDraft, ReverseRead, Reverse, MarkProcessed, MarkFailed, Record, Fails, Crash,
   TypeOK

(* Every step keeps the inbox in order. *)
LEMMA QueuedKept ==
    ASSUME TypeOK, TypeOK', \A p \in Pollers : LocalsOK(p), Queued, \A p \in Pollers : Taken(p), Next
    PROVE  Queued'
<1>1. ASSUME NEW e \in sends, Receive(e) \/ ReceiveUnanswered(e) PROVE  Queued'
  <2>1. e \in Events BY DEF TypeOK
  <2>2. CASE UNCHANGED <<arrived, inbox>> BY <1>1, <2>2 DEF Queued, Receive, ReceiveUnanswered
  <2>3. CASE /\ inbox[e] = "none" /\ inbox' = [inbox EXCEPT ![e] = "received"]
             /\ arrived' = Append(arrived, e)
    <3>1. /\ DOMAIN arrived' = DOMAIN arrived \cup {Len(arrived) + 1}
          /\ arrived'[Len(arrived) + 1] = e
          /\ \A i \in DOMAIN arrived : arrived'[i] = arrived[i] /\ arrived[i] \in Events
      BY <2>1, <2>3 DEF TypeOK
    <3>2. \A d \in Events : inbox'[d] = IF d = e THEN "received" ELSE inbox[d] BY <2>3 DEF TypeOK
    <3>3. \A i \in DOMAIN arrived : arrived[i] # e BY <2>3 DEF Queued
    <3>4. sends' = sends BY <1>1 DEF Receive, ReceiveUnanswered
    <3>5. \A i \in DOMAIN arrived' : arrived'[i] \in sends' /\ inbox'[arrived'[i]] # "none"
      <4>1. \A i \in DOMAIN arrived : arrived[i] \in sends /\ inbox[arrived[i]] # "none"
        BY DEF Queued
      <4>2. \A i \in DOMAIN arrived : inbox'[arrived[i]] # "none" BY <3>1, <3>2, <4>1
      <4>3. inbox'[e] # "none" BY <2>1, <3>2
      <4> QED BY <3>1, <3>4, <4>1, <4>2, <4>3
    <3>6. \A i, j \in DOMAIN arrived' : arrived'[i] = arrived'[j] => i = j BY <3>1, <3>3 DEF Queued
    <3>7. \A d \in Events : inbox'[d] # "none" => \E i \in DOMAIN arrived' : arrived'[i] = d
      BY <3>1, <3>2 DEF Queued
    <3> QED BY <3>5, <3>6, <3>7 DEF Queued
  <2> QED BY <1>1, <2>2, <2>3 DEF Receive, ReceiveUnanswered
<1>2. ASSUME UNCHANGED <<arrived, sends>>,
             \A e \in Events : inbox[e] # "none" <=> inbox'[e] # "none" PROVE  Queued'
  <2>1. \A i \in DOMAIN arrived : arrived[i] \in Events BY DEF TypeOK
  <2> QED BY <1>2, <2>1 DEF Queued
<1>3. ASSUME NEW e \in sends, Replay(e) PROVE  Queued'
  <2>1. \A d \in Events : inbox[d] # "none" <=> inbox'[d] # "none" BY <1>3 DEF Replay, TypeOK
  <2> QED BY <1>2, <1>3, <2>1 DEF Replay
<1>4. ASSUME NEW p \in Pollers, PollerStep(p) \/ Fails(p) \/ Crash(p) PROVE  Queued'
  <2>1. UNCHANGED <<arrived, sends>> BY <1>4, StepIsOneOf
  <2>2. CASE UNCHANGED inbox BY <1>2, <2>1, <2>2
  <2>3. CASE MarkProcessed(p) \/ MarkFailed(p)
    <3>1. Current(p) \in Events /\ inbox[Current(p)] # "none"
      BY <2>3, CurrentIsFirst DEF MarkProcessed, MarkFailed, Busy, Taken
    <3>2. \A d \in Events : inbox[d] # "none" <=> inbox'[d] # "none"
      BY <2>3, <3>1 DEF MarkProcessed, MarkFailed, Record, TypeOK
    <3> QED BY <1>2, <2>1, <3>2
  <2> QED BY <1>4, <2>2, <2>3, StepIsOneOf, HandlingStays
<1> QED BY <1>1, <1>3, <1>4 DEF Next

(* And the batches. *)
LEMMA TakenKept ==
    ASSUME TypeOK, TypeOK', \A p \in Pollers : LocalsOK(p), Queued, \A p \in Pollers : Taken(p), Next
    PROVE  \A p \in Pollers : Taken(p)'
<1>0. \A e \in Events : inbox[e] # "none" => inbox'[e] # "none" BY InboxMoves
<1>1. ASSUME NEW p \in Pollers, proc'[p] = proc[p], running' = running PROVE  Taken(p)'
  <2>1. proc[p].pc \in Busy => \A k \in DOMAIN proc[p].todo : proc[p].todo[k] \in Events
    BY CurrentIsFirst
  <2> QED BY <1>0, <1>1, <2>1 DEF Taken
<1>2. CASE \E e \in sends : Receive(e) \/ ReceiveUnanswered(e) \/ Replay(e)
  BY <1>1, <1>2 DEF Receive, ReceiveUnanswered, Replay
<1>3. ASSUME NEW p \in Pollers, PollerStep(p) \/ Fails(p) \/ Crash(p)
      PROVE  \A q \in Pollers : Taken(q)'
  <2>1. running' = running /\ \A q \in Pollers : q # p => Taken(q)' BY <1>1, <1>3, StepIsOneOf
  <2>2. CASE Handles(p)
    <3>1. /\ proc[p].pc \in Busy /\ proc'[p].todo = proc[p].todo /\ inbox' = inbox
      BY <2>2, HandlingStays
    <3> QED BY <2>1, <3>1 DEF Taken
  <2>3. CASE Poll(p) /\ UNCHANGED inbox
    <3>1. proc'[p] = [pc |-> "event", todo |-> Batch] /\ p \in running
      BY <2>3 DEF Poll, Goto, TypeOK
    <3>2. \A k \in DOMAIN Batch : \E i \in DOMAIN arrived : arrived[i] = Batch[k]
      BY BatchInOrder DEF PendingEvents
    <3>3. \A k \in DOMAIN Batch : inbox[Batch[k]] # "none" BY <3>2 DEF Queued
    <3>4. ASSUME NEW j \in DOMAIN Batch, NEW k \in DOMAIN Batch, Batch[j] = Batch[k] PROVE  j = k
      <4>1. PICK i \in DOMAIN arrived : arrived[i] = Batch[k] BY <3>2
      <4>2. i \in Nat /\ j \in Nat /\ k \in Nat
        <5>1. DOMAIN Batch = 1..Len(Batch) /\ Len(Batch) \in Nat BY BatchIsPending
        <5> QED BY <5>1 DEF TypeOK
      <4>3. ~(j < k) /\ ~(k < j) BY <3>4, <4>1, <4>2, BatchInOrder
      <4> QED BY <4>2, <4>3
    <3> QED BY <2>1, <2>3, <3>1, <3>3, <3>4 DEF Taken
  <2>4. CASE MarkProcessed(p) \/ MarkFailed(p)
    <3>1. proc[p].pc \in Busy /\ NextEvent(p) BY <2>4 DEF MarkProcessed, MarkFailed, Record, Busy
    <3>2. CASE proc'[p] = Idle BY <2>1, <3>2 DEF Taken, Idle, Busy
    <3>3. CASE proc'[p] # Idle
      <4>1. PICK n \in Nat : n = Len(proc[p].todo) /\ DOMAIN proc[p].todo = 1..n /\ n > 1
        BY <3>1, <3>3, NextDropsHead, CurrentIsFirst
      <4>2. /\ DOMAIN proc'[p].todo = 1..n - 1
            /\ \A k \in 1..n - 1 : proc'[p].todo[k] = proc[p].todo[k + 1] /\ k + 1 \in 1..n
        BY <3>1, <3>3, <4>1, NextDropsHead
      <4>3. \A k \in DOMAIN proc'[p].todo : inbox'[proc'[p].todo[k]] # "none"
        <5>1. \A k \in 1..n : proc[p].todo[k] \in Events /\ inbox[proc[p].todo[k]] # "none"
          BY <3>1, <4>1, CurrentIsFirst DEF Taken
        <5>2. \A k \in 1..n : inbox'[proc[p].todo[k]] # "none" BY <1>0, <5>1
        <5> QED BY <4>2, <5>2
      <4>4. ASSUME NEW j \in 1..n - 1, NEW k \in 1..n - 1, proc'[p].todo[j] = proc'[p].todo[k]
            PROVE  j = k
        <5>1. j + 1 = k + 1 BY <3>1, <4>1, <4>2, <4>4 DEF Taken
        <5> QED BY <5>1
      <4>5. p \in running BY <3>1 DEF Taken
      <4> QED BY <2>1, <4>2, <4>3, <4>4, <4>5 DEF Taken
    <3> QED BY <3>2, <3>3
  <2>5. CASE Crash(p) BY <2>1, <2>5 DEF Crash, Goto, TypeOK, Taken, Idle, Busy
  <2> QED BY <1>3, <2>1, <2>2, <2>3, <2>4, <2>5, StepIsOneOf
<1> QED BY <1>2, <1>3 DEF Next

(* The inbox and the batches are in order throughout. *)
LEMMA QueueInvInit == Init => QueueInv
BY HRInboxAssumption DEF Init, QueueInv, EffectInv, TypeOK, LocalsOK, Locals, Idle, Busy, FormSet,
   Entry, Queued, Taken

(* Every step keeps them so. *)
LEMMA QueueInvKept == QueueInv /\ [Next]_vars => QueueInv'
<1> SUFFICES ASSUME QueueInv, [Next]_vars PROVE QueueInv' OBVIOUS
<1>1. CASE Next
  <2>1. TypeOK /\ \A p \in Pollers : LocalsOK(p) /\ Taken(p) BY DEF QueueInv, EffectInv
  <2>2. TypeOK' BY <1>1, <2>1, TypesKept
  <2>3. EffectInv' BY <1>1, <2>1, <2>2, LocalsKept, ProcessedKept DEF QueueInv, EffectInv
  <2> QED BY <1>1, <2>1, <2>2, <2>3, QueuedKept, TakenKept DEF QueueInv
<1>2. CASE UNCHANGED vars
  BY <1>2 DEF vars, QueueInv, EffectInv, TypeOK, LocalsOK, HasEffect, Entries, Current, Queued,
     Taken
<1> QED BY <1>1, <1>2

----
(* Bookings. *)

(* The processors that may still book the run of a completion c, those that
   have booked it and not yet marked c, and those that are about to mark it
   failed. *)
After == {"tax_read", "tax_write", "processed"}
Holds(p, c) == proc[p].pc \in Busy /\ \E k \in DOMAIN proc[p].todo : proc[p].todo[k] = c
Behind(c) == {p \in Pollers : proc[p].pc \in After /\ Current(p) = c}
Failing(c) == {p \in Pollers : proc[p].pc = "failed" /\ Current(p) = c}
Ahead(c) == {p \in Pollers : Holds(p, c) /\ ~(proc[p].pc \in After \cup {"failed"} /\ Current(p) = c)}

(* While c waits, what was booked will still be marked, or was paid for by a
   fault; once it is processed, who holds it may book again, or, by a failure
   that is paid for, send it back to all but itself. *)
BoundInv(n, c) ==
    IF inbox[c] = "processed"
    THEN Booked(n) + Cardinality(Ahead(c)) + Cardinality(Failing(c))
           <= Cardinality(running) + Rebooking * (faults - Cardinality(Failing(c)))
    ELSE Booked(n) <= Cardinality(Behind(c)) + Rebooking * (faults - Cardinality(Failing(c)))

BookInv ==
    /\ running # {}
    /\ \A n \in Runs : Completions(n) = {} => Entries(n) = {}
    /\ \A n \in Runs, c \in sends : Completions(n) = {c} => BoundInv(n, c)

(* What no one takes a step with stays where it is. *)
LEMMA OthersKeepStage ==
    ASSUME NEW c, NEW q \in Pollers, proc'[q] = proc[q]
    PROVE  /\ q \in Ahead(c)' <=> q \in Ahead(c)
           /\ q \in Behind(c)' <=> q \in Behind(c)
           /\ q \in Failing(c)' <=> q \in Failing(c)
BY DEF Ahead, Behind, Failing, Holds, Current

(* The stages exclude one another, and only running processors are at one. *)
LEMMA StagesApart ==
    ASSUME TypeOK, \A p \in Pollers : LocalsOK(p) /\ Taken(p), NEW c
    PROVE  /\ Ahead(c) \cap Behind(c) = {} /\ Ahead(c) \cap Failing(c) = {}
           /\ Behind(c) \cap Failing(c) = {}
           /\ Ahead(c) \cup Behind(c) \cup Failing(c) \subseteq running
BY DEF Ahead, Behind, Failing, After, Busy, Taken, Holds

(* How a step moves the processors that hold c, its entries and its mark. *)
Stays(n, c) ==
    /\ Ahead(c)' = Ahead(c) /\ Behind(c)' = Behind(c) /\ Failing(c)' = Failing(c)
    /\ Entries(n)' = Entries(n)
    /\ faults <= faults'
    /\ inbox'[c] = "processed" <=> inbox[c] = "processed"
Takes(n, c, p) ==
    /\ p \notin Ahead(c) /\ Ahead(c)' = Ahead(c) \cup {p}
    /\ Behind(c)' = Behind(c) /\ Failing(c)' = Failing(c) /\ Entries(n)' = Entries(n)
    /\ faults' = faults /\ inbox[c] # "processed" /\ inbox'[c] # "processed"
Books(n, c, p) ==
    /\ p \in Ahead(c) /\ Ahead(c)' = Ahead(c) \ {p}
    /\ p \notin Behind(c) /\ Behind(c)' = Behind(c) \cup {p}
    /\ Failing(c)' = Failing(c)
    /\ \E i \in Nat : i \notin Entries(n) /\ Entries(n)' = Entries(n) \cup {i}
    /\ faults' = faults /\ inbox' = inbox
GoesWrong(n, c, p) ==
    /\ p \in Ahead(c) /\ Ahead(c)' = Ahead(c) \ {p} /\ Behind(c)' = Behind(c)
    /\ p \notin Failing(c) /\ Failing(c)' = Failing(c) \cup {p}
    /\ Entries(n)' = Entries(n) /\ faults' = faults + 1 /\ inbox' = inbox
Marks(n, c, p) ==
    /\ p \in Behind(c) /\ Behind(c)' = Behind(c) \ {p}
    /\ Ahead(c)' = Ahead(c) /\ Failing(c)' = Failing(c)
    /\ Entries(n)' = Entries(n) /\ faults' = faults /\ inbox'[c] = "processed"
Returns(n, c, p) ==
    /\ p \in Failing(c) /\ Failing(c)' = Failing(c) \ {p}
    /\ Ahead(c)' = Ahead(c) /\ Behind(c)' = Behind(c)
    /\ Entries(n)' = Entries(n) /\ faults' = faults /\ inbox'[c] # "processed"
Leaves(n, c, p) ==
    /\ Ahead(c)' = Ahead(c) \ {p} /\ Behind(c)' = Behind(c) \ {p} /\ Failing(c)' = Failing(c) \ {p}
    /\ Entries(n)' = Entries(n) /\ faults' = faults + 1 /\ inbox' = inbox

(* Faults are never taken back. *)
LEMMA FaultsGrow ==
    ASSUME TypeOK, [Next]_vars
    PROVE  faults \in Nat /\ faults' \in Nat /\ faults <= faults'
<1>1. faults \in Nat BY DEF TypeOK
<1>2. faults' = faults \/ faults' = faults + 1
  BY DEF Next, vars, PollerStep, Receive, ReceiveUnanswered, Replay, Poll, Dispatch, Book, TaxRead,
     TaxWrite, Find, PostDraft, ReverseRead, Reverse, MarkProcessed, MarkFailed, Record, Fails,
     Crash, Fault, NoFault
<1> QED BY <1>1, <1>2

(* A booking is an entry of its run. *)
LEMMA BookingOfRun ==
    ASSUME NEW n \in Runs
    PROVE  Booking(n) \in Entry /\ Booking(n).run = n
<1>1. Booking(n) \in Entry BY DEF Booking, Entry
<1>2. Booking(n).run = n BY DEF Booking
<1> QED BY <1>1, <1>2

(* What a processor that handles an event does to the stages of c. *)
LEMMA HandlingMoves ==
    ASSUME QueueInv, Next, NEW n \in Runs, NEW c \in sends, Completions(n) = {c},
           NEW p \in Pollers, Handles(p)
    PROVE  Stays(n, c) \/ Books(n, c, p) \/ GoesWrong(n, c, p)
<1>1. TypeOK /\ \A q \in Pollers : LocalsOK(q) /\ Taken(q) BY DEF QueueInv, EffectInv
<1>2. \A q \in Pollers : q # p => proc'[q] = proc[q] BY <1>1, StepIsOneOf DEF Handles, PollerStep
<1>3. /\ proc[p].pc \in Busy /\ proc'[p].pc \in Busy /\ proc'[p].todo = proc[p].todo
      /\ inbox' = inbox /\ Current(p)' = Current(p)
  BY <1>1, HandlingStays
<1>4. c \in Events /\ Type[c] = "completed" /\ Subject[c] = n BY <1>1 DEF Completions, TypeOK
<1>5. \A q \in Pollers : q # p => /\ q \in Ahead(c)' <=> q \in Ahead(c)
                                  /\ q \in Behind(c)' <=> q \in Behind(c)
                                  /\ q \in Failing(c)' <=> q \in Failing(c)
  BY <1>2, OthersKeepStage
<1>6. Ahead(c)' \subseteq Pollers /\ Behind(c)' \subseteq Pollers /\ Failing(c)' \subseteq Pollers
      /\ Ahead(c) \subseteq Pollers /\ Behind(c) \subseteq Pollers /\ Failing(c) \subseteq Pollers
  BY DEF Ahead, Behind, Failing
<1>7. \A q \in Pollers : q # p => ~Book(q) BY <1>1, <1>2, <1>3 DEF Book, Jump, Goto, TypeOK
<1>8. faults <= faults' BY <1>1, FaultsGrow
<1>9. CASE Current(p) # c
  <2>1. Holds(p, c)' <=> Holds(p, c) BY <1>3 DEF Holds
  <2>2. /\ p \in Ahead(c)' <=> p \in Ahead(c)
        /\ p \notin Behind(c) /\ p \notin Behind(c)'
        /\ p \notin Failing(c) /\ p \notin Failing(c)'
    BY <1>3, <1>9, <2>1 DEF Ahead, Behind, Failing
  <2>3. Ahead(c)' = Ahead(c) /\ Behind(c)' = Behind(c) /\ Failing(c)' = Failing(c)
    BY <1>5, <1>6, <2>2
  <2>4. Entries(n)' = Entries(n)
    <3>1. CASE Book(p)
      <4>1. Type[Current(p)] = "completed" /\ Current(p) \in sends
        <5>1. PICK i \in DOMAIN arrived : arrived[i] = Current(p)
          BY <1>1, <1>3, CurrentIsFirst DEF QueueInv, Queued, Taken
        <5> QED BY <1>1, <3>1, <5>1 DEF QueueInv, Queued, Book, LocalsOK
      <4>2. Subject[Current(p)] # n BY <1>9, <4>1 DEF Completions
      <4>3. Subject[Current(p)] \in Runs BY <1>1, <1>3, <4>1, CurrentIsEvent
      <4>4. PICK row \in Entry : row = Booking(Subject[Current(p)]) /\ row.run # n
        BY <4>2, <4>3, BookingOfRun
      <4>5. journal' = Append(journal, row) /\ journal \in Seq(Entry)
        BY <1>1, <3>1, <4>4 DEF Book, TypeOK
      <4>6. /\ DOMAIN journal' = DOMAIN journal \cup {Len(journal) + 1}
            /\ journal'[Len(journal) + 1] = row
            /\ \A i \in DOMAIN journal : journal'[i] = journal[i]
            /\ Len(journal) + 1 \notin DOMAIN journal
        BY <4>5
      <4> QED BY <4>4, <4>6 DEF Entries
    <3>2. CASE ~Book(p) BY <1>1, <1>7, <3>2, EntriesKept
    <3> QED BY <3>1, <3>2
  <2> QED BY <1>3, <1>8, <2>3, <2>4 DEF Stays
<1>10. CASE Current(p) = c
  <2>1. Holds(p, c) /\ Holds(p, c)' BY <1>1, <1>3, <1>10, CurrentIsFirst DEF Holds
  <2>2. proc[p].pc \notin {"find", "post", "reverse_read", "reverse"}
    BY <1>1, <1>4, <1>10 DEF LocalsOK
  <2>3. CASE Book(p)
    <3>1. /\ p \in Ahead(c) /\ p \notin Behind(c) /\ p \notin Failing(c)
          /\ p \notin Ahead(c)' /\ p \in Behind(c)' /\ p \notin Failing(c)'
      <4>1. proc[p].pc = "book" /\ proc'[p].pc \in {"tax_read", "processed"}
        BY <1>1, <2>3 DEF Book, Jump, Goto, TypeOK
      <4> QED BY <1>1, <1>3, <1>10, <2>1, <4>1 DEF Ahead, Behind, Failing, After
    <3>2. Ahead(c)' = Ahead(c) \ {p} /\ Behind(c)' = Behind(c) \cup {p} /\ Failing(c)' = Failing(c)
      BY <1>5, <1>6, <3>1
    <3>3. PICK row \in Entry : row = Booking(n) /\ row.run = n BY BookingOfRun
    <3>4. journal' = Append(journal, row) /\ journal \in Seq(Entry)
      BY <1>1, <1>4, <1>10, <2>3, <3>3 DEF Book, TypeOK
    <3>5. /\ DOMAIN journal' = DOMAIN journal \cup {Len(journal) + 1}
          /\ journal'[Len(journal) + 1] = row
          /\ \A i \in DOMAIN journal : journal'[i] = journal[i]
          /\ Len(journal) + 1 \notin DOMAIN journal /\ Len(journal) + 1 \in Nat
      BY <3>4
    <3>6. Entries(n)' = Entries(n) \cup {Len(journal) + 1} /\ Len(journal) + 1 \notin Entries(n)
      BY <3>3, <3>5 DEF Entries
    <3>7. faults' = faults BY <2>3 DEF Book
    <3> QED BY <1>3, <3>1, <3>2, <3>5, <3>6, <3>7 DEF Books
  <2>4. CASE ~Book(p)
    <3>1. Entries(n)' = Entries(n) BY <1>1, <1>7, <2>4, EntriesKept
    <3>2. CASE Fails(p)
      <4>1. /\ p \in Ahead(c) /\ p \notin Behind(c) /\ p \notin Failing(c)
            /\ p \notin Ahead(c)' /\ p \notin Behind(c)' /\ p \in Failing(c)'
        BY <1>1, <1>3, <1>10, <2>1, <2>2, <3>2 DEF Fails, Ahead, Behind, Failing, After, Goto, Jump,
           TypeOK
      <4>2. Ahead(c)' = Ahead(c) \ {p} /\ Behind(c)' = Behind(c) /\ Failing(c)' = Failing(c) \cup {p}
        BY <1>5, <1>6, <4>1
      <4>3. faults' = faults + 1 BY <3>2 DEF Fails, Fault
      <4> QED BY <1>3, <3>1, <4>1, <4>2, <4>3 DEF GoesWrong
    <3>3. CASE Dispatch(p)
      <4>1. proc[p].pc = "event" /\ proc'[p].pc = "book"
        BY <1>1, <1>4, <1>10, <3>3 DEF Dispatch, Goto, Jump, TypeOK
      <4>2. /\ p \in Ahead(c) /\ p \notin Behind(c) /\ p \notin Failing(c)
            /\ p \in Ahead(c)' /\ p \notin Behind(c)' /\ p \notin Failing(c)'
        BY <2>1, <4>1 DEF Ahead, Behind, Failing, After
      <4>3. Ahead(c)' = Ahead(c) /\ Behind(c)' = Behind(c) /\ Failing(c)' = Failing(c)
        BY <1>5, <1>6, <4>2
      <4> QED BY <1>3, <1>8, <3>1, <4>3 DEF Stays
    <3>4. CASE TaxRead(p) \/ TaxWrite(p)
      <4>1. proc[p].pc \in After /\ proc'[p].pc \in After
        BY <1>1, <3>4 DEF TaxRead, TaxWrite, Goto, Jump, TypeOK, After
      <4>2. /\ p \notin Ahead(c) /\ p \in Behind(c) /\ p \notin Failing(c)
            /\ p \notin Ahead(c)' /\ p \in Behind(c)' /\ p \notin Failing(c)'
        BY <1>3, <1>10, <4>1 DEF Ahead, Behind, Failing, After
      <4>3. Ahead(c)' = Ahead(c) /\ Behind(c)' = Behind(c) /\ Failing(c)' = Failing(c)
        BY <1>5, <1>6, <4>2
      <4> QED BY <1>3, <1>8, <3>1, <4>3 DEF Stays
    <3> QED BY <2>2, <2>4, <3>2, <3>3, <3>4 DEF Handles, Find, PostDraft, ReverseRead, Reverse
  <2> QED BY <2>3, <2>4
<1> QED BY <1>9, <1>10

(* A processor that takes a batch holds c when c waits and is in it. *)
LEMMA PollMoves ==
    ASSUME QueueInv, Next, NEW n \in Runs, NEW c \in sends, Completions(n) = {c},
           NEW p \in Pollers, Poll(p)
    PROVE  Stays(n, c) \/ Takes(n, c, p)
<1>1. TypeOK /\ \A q \in Pollers : LocalsOK(q) /\ Taken(q) BY DEF QueueInv, EffectInv
<1>2. /\ \A q \in Pollers : q # p => proc'[q] = proc[q]
      /\ UNCHANGED <<inbox, faults, journal>>
      /\ proc[p] = Idle /\ proc'[p] = [pc |-> "event", todo |-> Batch]
  BY <1>1 DEF Poll, Goto, TypeOK
<1>3. \A q \in Pollers : q # p => /\ q \in Ahead(c)' <=> q \in Ahead(c)
                                  /\ q \in Behind(c)' <=> q \in Behind(c)
                                  /\ q \in Failing(c)' <=> q \in Failing(c)
  BY <1>2, OthersKeepStage
<1>4. Ahead(c)' \subseteq Pollers /\ Behind(c)' \subseteq Pollers /\ Failing(c)' \subseteq Pollers
      /\ Ahead(c) \subseteq Pollers /\ Behind(c) \subseteq Pollers /\ Failing(c) \subseteq Pollers
  BY DEF Ahead, Behind, Failing
<1>5. /\ p \notin Ahead(c) /\ p \notin Behind(c) /\ p \notin Failing(c)
      /\ p \notin Behind(c)' /\ p \notin Failing(c)'
  BY <1>2 DEF Ahead, Behind, Failing, Holds, Busy, After, Idle
<1>6. Behind(c)' = Behind(c) /\ Failing(c)' = Failing(c) /\ Entries(n)' = Entries(n)
  BY <1>2, <1>3, <1>4, <1>5 DEF Entries
<1>7. CASE p \in Ahead(c)'
  <2>1. PICK k \in DOMAIN Batch : Batch[k] = c BY <1>2, <1>7 DEF Ahead, Holds
  <2>2. inbox[c] \in {"received", "failed"} BY <1>1, <2>1, BatchInOrder DEF PendingEvents
  <2>3. Ahead(c)' = Ahead(c) \cup {p} BY <1>3, <1>4, <1>7
  <2> QED BY <1>2, <1>5, <1>6, <2>2, <2>3 DEF Takes
<1>8. CASE p \notin Ahead(c)'
  <2>1. Ahead(c)' = Ahead(c) BY <1>3, <1>4, <1>5, <1>8
  <2> QED BY <1>1, <1>2, <1>6, <2>1, FaultsGrow DEF Stays
<1> QED BY <1>7, <1>8

(* A processor that records the outcome of c gives it up, as its batch does not
   hold it twice. *)
LEMMA RecordMoves ==
    ASSUME QueueInv, Next, NEW n \in Runs, NEW c \in sends, Completions(n) = {c},
           NEW p \in Pollers, MarkProcessed(p) \/ MarkFailed(p)
    PROVE  Stays(n, c) \/ Marks(n, c, p) \/ Returns(n, c, p) \/ Leaves(n, c, p)
<1>1. TypeOK /\ \A q \in Pollers : LocalsOK(q) /\ Taken(q) BY DEF QueueInv, EffectInv
<1>2. /\ \A q \in Pollers : q # p => proc'[q] = proc[q]
      /\ UNCHANGED journal /\ proc[p].pc \in {"processed", "failed"} /\ proc[p].pc \in Busy
      /\ NextEvent(p)
  BY <1>1 DEF MarkProcessed, MarkFailed, Record, NextEvent, Goto, TypeOK, Busy
<1>3. \A q \in Pollers : q # p => /\ q \in Ahead(c)' <=> q \in Ahead(c)
                                  /\ q \in Behind(c)' <=> q \in Behind(c)
                                  /\ q \in Failing(c)' <=> q \in Failing(c)
  BY <1>2, OthersKeepStage
<1>4. Ahead(c)' \subseteq Pollers /\ Behind(c)' \subseteq Pollers /\ Failing(c)' \subseteq Pollers
      /\ Ahead(c) \subseteq Pollers /\ Behind(c) \subseteq Pollers /\ Failing(c) \subseteq Pollers
  BY DEF Ahead, Behind, Failing
<1>5. Entries(n)' = Entries(n) /\ c \in Events /\ faults <= faults'
  BY <1>1, <1>2, FaultsGrow DEF Entries, TypeOK
<1>6. PICK m \in Nat : m = Len(proc[p].todo) /\ DOMAIN proc[p].todo = 1..m /\ m >= 1
  BY <1>1, <1>2, CurrentIsFirst
<1>7. proc'[p].pc \in {"idle", "event"} /\ p \notin Behind(c)' /\ p \notin Failing(c)'
  <2>1. proc'[p].pc \in {"idle", "event"} BY <1>1, <1>2, NextDropsHead DEF Idle
  <2> QED BY <2>1 DEF Behind, Failing, After
<1>8. p \in Ahead(c)' <=> \E k \in 2..m : proc[p].todo[k] = c
  <2>1. CASE proc'[p] = Idle /\ m = 1
    <3>1. 2..m = {} BY <2>1
    <3>2. p \notin Ahead(c)' BY <2>1 DEF Ahead, Holds, Idle, Busy
    <3> QED BY <3>1, <3>2
  <2>2. CASE /\ proc'[p].pc = "event" /\ DOMAIN proc'[p].todo = 1..m - 1
             /\ \A k \in 1..m - 1 : proc'[p].todo[k] = proc[p].todo[k + 1]
    <3>1. p \in Ahead(c)' <=> \E k \in 1..m - 1 : proc'[p].todo[k] = c
      BY <2>2 DEF Ahead, Holds, Busy, After
    <3>2. ASSUME NEW k \in 2..m, proc[p].todo[k] = c PROVE  \E j \in 1..m - 1 : proc'[p].todo[j] = c
      <4>1. k - 1 \in 1..m - 1 /\ (k - 1) + 1 = k BY <1>6
      <4> QED BY <2>2, <3>2, <4>1
    <3>3. ASSUME NEW j \in 1..m - 1, proc'[p].todo[j] = c PROVE  \E k \in 2..m : proc[p].todo[k] = c
      <4>1. j + 1 \in 2..m BY <1>6
      <4> QED BY <2>2, <3>3, <4>1
    <3> QED BY <3>1, <3>2, <3>3
  <2> QED BY <1>1, <1>2, <1>6, <2>1, <2>2, NextDropsHead
<1>9. Current(p) = proc[p].todo[1] /\ \A k \in 2..m : k \in 1..m /\ k # 1
  BY <1>1, <1>2, <1>6, CurrentIsFirst
<1>10. CASE Current(p) # c
  <2>1. (\E k \in 2..m : proc[p].todo[k] = c) <=> (\E k \in 1..m : proc[p].todo[k] = c)
    <3>1. \A k \in 1..m : k = 1 \/ k \in 2..m BY <1>6
    <3> QED BY <1>9, <1>10, <3>1
  <2>2. p \in Ahead(c) <=> \E k \in 1..m : proc[p].todo[k] = c BY <1>2, <1>6, <1>10 DEF Ahead, Holds
  <2>3. p \in Ahead(c)' <=> p \in Ahead(c) BY <1>8, <1>9, <1>10, <2>1, <2>2
  <2>4. p \notin Behind(c) /\ p \notin Failing(c) BY <1>10 DEF Behind, Failing
  <2>5. Ahead(c)' = Ahead(c) /\ Behind(c)' = Behind(c) /\ Failing(c)' = Failing(c)
    BY <1>3, <1>4, <1>7, <2>3, <2>4
  <2>6. inbox'[c] = inbox[c] BY <1>1, <1>5, <1>10 DEF MarkProcessed, MarkFailed, Record, TypeOK
  <2> QED BY <1>5, <2>5, <2>6 DEF Stays
<1>11. CASE Current(p) = c
  <2>1. p \notin Ahead(c)'
    <3>1. \A k \in 1..m : proc[p].todo[k] = proc[p].todo[1] => k = 1 BY <1>1, <1>2, <1>6 DEF Taken
    <3> QED BY <1>8, <1>9, <1>11, <3>1
  <2>2. p \notin Ahead(c) BY <1>2, <1>11 DEF Ahead, After
  <2>3. Ahead(c)' = Ahead(c) /\ Behind(c)' = Behind(c) \ {p} /\ Failing(c)' = Failing(c) \ {p}
    BY <1>3, <1>4, <1>7, <2>1, <2>2
  <2>4. CASE Fault /\ UNCHANGED inbox BY <1>5, <2>2, <2>3, <2>4 DEF Leaves, Fault
  <2>5. CASE NoFault /\ MarkProcessed(p) /\ inbox' = [inbox EXCEPT ![c] = "processed"]
    <3>1. p \in Behind(c) /\ p \notin Failing(c)
      BY <1>11, <2>5 DEF Behind, Failing, After, MarkProcessed
    <3>2. inbox'[c] = "processed" BY <1>1, <1>5, <2>5 DEF TypeOK
    <3> QED BY <1>5, <2>3, <2>5, <3>1, <3>2 DEF Marks, NoFault
  <2>6. CASE NoFault /\ MarkFailed(p) /\ inbox' = [inbox EXCEPT ![c] = "failed"]
    <3>1. p \in Failing(c) /\ p \notin Behind(c)
      BY <1>11, <2>6 DEF Behind, Failing, After, MarkFailed
    <3>2. inbox'[c] # "processed" BY <1>1, <1>5, <2>6 DEF TypeOK
    <3> QED BY <1>5, <2>3, <2>6, <3>1, <3>2 DEF Returns, NoFault
  <2> QED BY <1>11, <2>4, <2>5, <2>6 DEF MarkProcessed, MarkFailed, Record
<1> QED BY <1>10, <1>11

(* Every step is one of these. *)
LEMMA EveryStepMoves ==
    ASSUME QueueInv, Next, NEW n \in Runs, NEW c \in sends, Completions(n) = {c}
    PROVE  \/ Stays(n, c)
           \/ \E p \in Pollers : \/ Takes(n, c, p) \/ Books(n, c, p) \/ GoesWrong(n, c, p)
                                 \/ Marks(n, c, p) \/ Returns(n, c, p) \/ Leaves(n, c, p)
<1>1. TypeOK /\ \A q \in Pollers : LocalsOK(q) /\ Taken(q) BY DEF QueueInv, EffectInv
<1>2. ASSUME NEW e \in sends, Receive(e) \/ ReceiveUnanswered(e) \/ Replay(e) PROVE  Stays(n, c)
  <2>1. UNCHANGED <<proc, journal>> BY <1>2 DEF Receive, ReceiveUnanswered, Replay
  <2>2. inbox'[c] = "processed" <=> inbox[c] = "processed"
    BY <1>1, <1>2 DEF Receive, ReceiveUnanswered, Replay, TypeOK
  <2>3. Ahead(c)' = Ahead(c) /\ Behind(c)' = Behind(c) /\ Failing(c)' = Failing(c)
    BY <2>1 DEF Ahead, Behind, Failing, Holds, Current
  <2> QED BY <1>1, <2>1, <2>2, <2>3, FaultsGrow DEF Stays, Entries
<1>3. ASSUME NEW p \in Pollers, Crash(p) PROVE  Leaves(n, c, p)
  <2>1. /\ \A q \in Pollers : q # p => proc'[q] = proc[q]
        /\ UNCHANGED <<inbox, journal>> /\ faults' = faults + 1 /\ proc'[p] = Idle
    BY <1>1, <1>3 DEF Crash, Goto, TypeOK, Fault
  <2>2. p \notin Ahead(c)' /\ p \notin Behind(c)' /\ p \notin Failing(c)'
    BY <2>1 DEF Ahead, Behind, Failing, Holds, Idle, Busy, After
  <2>3. \A q \in Pollers : q # p => /\ q \in Ahead(c)' <=> q \in Ahead(c)
                                    /\ q \in Behind(c)' <=> q \in Behind(c)
                                    /\ q \in Failing(c)' <=> q \in Failing(c)
    BY <2>1, OthersKeepStage
  <2>4. Ahead(c)' \subseteq Pollers /\ Behind(c)' \subseteq Pollers /\ Failing(c)' \subseteq Pollers
      /\ Ahead(c) \subseteq Pollers /\ Behind(c) \subseteq Pollers /\ Failing(c) \subseteq Pollers
    BY DEF Ahead, Behind, Failing
  <2>5. Ahead(c)' = Ahead(c) \ {p} /\ Behind(c)' = Behind(c) \ {p} /\ Failing(c)' = Failing(c) \ {p}
    BY <2>2, <2>3, <2>4
  <2> QED BY <2>1, <2>5 DEF Leaves, Entries
<1>4. ASSUME NEW p \in Pollers, PollerStep(p) \/ Fails(p) \/ Crash(p)
      PROVE  \/ Stays(n, c) \/ Takes(n, c, p) \/ Books(n, c, p) \/ GoesWrong(n, c, p)
             \/ Marks(n, c, p) \/ Returns(n, c, p) \/ Leaves(n, c, p)
  BY <1>1, <1>3, <1>4, StepIsOneOf, HandlingMoves, PollMoves, RecordMoves
<1> QED BY <1>2, <1>4 DEF Next

(* Counting one element more or less. *)
LEMMA OneMore ==
    ASSUME NEW S, IsFiniteSet(S), NEW x, x \notin S
    PROVE  IsFiniteSet(S \cup {x}) /\ Cardinality(S \cup {x}) = Cardinality(S) + 1
BY FS_AddElement

(* And one less. *)
LEMMA OneLess ==
    ASSUME NEW S, IsFiniteSet(S), NEW x
    PROVE  /\ IsFiniteSet(S \ {x}) /\ Cardinality(S \ {x}) \in Nat /\ Cardinality(S) \in Nat
           /\ x \in S => Cardinality(S \ {x}) = Cardinality(S) - 1
           /\ x \notin S => Cardinality(S \ {x}) = Cardinality(S)
BY FS_RemoveElement, FS_CardinalityType, FS_Subset

(* Sets that share nothing are counted apart. *)
LEMMA Disjoint ==
    ASSUME NEW S, NEW T, IsFiniteSet(S), IsFiniteSet(T), S \cap T = {}
    PROVE  /\ IsFiniteSet(S \cup T)
           /\ Cardinality(S \cup T) = Cardinality(S) + Cardinality(T)
<1>1. Cardinality(S \cap T) = 0 BY FS_EmptySet
<1>2. Cardinality(S) \in Nat /\ Cardinality(T) \in Nat BY FS_CardinalityType
<1>3. /\ IsFiniteSet(S \cup T)
      /\ Cardinality(S \cup T) = Cardinality(S) + Cardinality(T) - Cardinality(S \cap T)
  BY FS_Union
<1> QED BY <1>1, <1>2, <1>3

(* A number of bookings per fault grows with the faults. *)
LEMMA Scales ==
    ASSUME NEW k \in Nat, NEW x \in Int, NEW y \in Int
    PROVE  /\ x <= y => k * x <= k * y
           /\ k * (x + 1) = k * x + k
           /\ k * x \in Int
<1>1. k * x \in Int /\ k * (x + 1) = k * x + k OBVIOUS
<1>2. ASSUME x <= y PROVE k * x <= k * y
  <2>1. PICK d \in Nat : y = x + d
    <3>1. y - x \in Nat /\ y = x + (y - x) BY <1>2
    <3> QED BY <3>1
  <2>2. k * y = k * x + k * d /\ k * d \in Nat BY <2>1
  <2> QED BY <1>1, <2>2
<1> QED BY <1>1, <1>2

(* How many may book again. *)
LEMMA RebookingIs ==
    ASSUME TypeOK, running # {}
    PROVE  /\ IsFiniteSet(running) /\ Cardinality(running) \in Nat
           /\ Rebooking \in Nat /\ 1 <= Rebooking /\ Cardinality(running) - 1 <= Rebooking
<1>1. IsFiniteSet(running) /\ Cardinality(running) \in Nat /\ Cardinality(running) # 0
  BY HRInboxAssumption, FS_Subset, FS_CardinalityType, FS_EmptySet DEF TypeOK
<1> QED BY <1>1 DEF Rebooking

(* The sizes of the stages. *)
LEMMA StageSizes ==
    ASSUME QueueInv, NEW c, NEW n
    PROVE  /\ IsFiniteSet(Ahead(c)) /\ IsFiniteSet(Behind(c)) /\ IsFiniteSet(Failing(c))
           /\ IsFiniteSet(Entries(n)) /\ Booked(n) \in Nat
           /\ Cardinality(Ahead(c)) \in Nat /\ Cardinality(Behind(c)) \in Nat
           /\ Cardinality(Failing(c)) \in Nat
           /\ Cardinality(Ahead(c)) + Cardinality(Behind(c)) + Cardinality(Failing(c))
                <= Cardinality(running)
<1>1. TypeOK /\ \A q \in Pollers : LocalsOK(q) /\ Taken(q) BY DEF QueueInv, EffectInv
<1>2. IsFiniteSet(running) BY <1>1, HRInboxAssumption, FS_Subset DEF TypeOK
<1>3. /\ Ahead(c) \cap Behind(c) = {} /\ Ahead(c) \cap Failing(c) = {} /\ Behind(c) \cap Failing(c) = {}
      /\ Ahead(c) \cup Behind(c) \cup Failing(c) \subseteq running
  BY <1>1, StagesApart
<1>4. IsFiniteSet(Ahead(c)) /\ IsFiniteSet(Behind(c)) /\ IsFiniteSet(Failing(c))
  BY <1>2, <1>3, FS_Subset
<1>5. Cardinality(Ahead(c)) \in Nat /\ Cardinality(Behind(c)) \in Nat /\ Cardinality(Failing(c)) \in Nat
  BY <1>4, FS_CardinalityType
<1>6. Entries(n) \in SUBSET DOMAIN journal BY DEF Entries
<1>7. IsFiniteSet(Entries(n)) /\ Booked(n) \in Nat BY <1>1, <1>6, FiniteSizes DEF Booked, TypeOK
<1>8. /\ IsFiniteSet(Ahead(c) \cup Behind(c))
      /\ Cardinality(Ahead(c) \cup Behind(c)) = Cardinality(Ahead(c)) + Cardinality(Behind(c))
  BY <1>3, <1>4, Disjoint
<1>9. Cardinality(Ahead(c) \cup Behind(c) \cup Failing(c))
        = Cardinality(Ahead(c)) + Cardinality(Behind(c)) + Cardinality(Failing(c))
  <2>1. (Ahead(c) \cup Behind(c)) \cap Failing(c) = {} BY <1>3
  <2> QED BY <1>4, <1>8, <2>1, Disjoint
<1>10. Cardinality(Ahead(c) \cup Behind(c) \cup Failing(c)) <= Cardinality(running)
  BY <1>2, <1>3, FS_Subset
<1> QED BY <1>4, <1>5, <1>7, <1>9, <1>10

(* Every step keeps the bound of a run. *)
LEMMA BoundKept ==
    ASSUME QueueInv, running # {}, running' = running, Next,
           NEW n \in Runs, NEW c \in sends, Completions(n) = {c}, BoundInv(n, c)
    PROVE  BoundInv(n, c)'
<1>1. TypeOK BY DEF QueueInv, EffectInv
<1>2. PICK R \in Nat, K \in Nat :
        /\ R = Cardinality(running) /\ K = Rebooking /\ 1 <= K /\ R - 1 <= K
  BY <1>1, RebookingIs
<1>3. R = Cardinality(running)' /\ K = Rebooking' BY <1>2 DEF Rebooking
<1>4. /\ IsFiniteSet(Ahead(c)) /\ IsFiniteSet(Behind(c)) /\ IsFiniteSet(Failing(c))
      /\ IsFiniteSet(Entries(n))
  BY StageSizes
<1>5. PICK a \in Nat, b \in Nat, f \in Nat, e \in Nat, g \in Nat :
        /\ a = Cardinality(Ahead(c)) /\ b = Cardinality(Behind(c)) /\ f = Cardinality(Failing(c))
        /\ e = Booked(n) /\ a + b + f <= R /\ g = faults
  BY <1>1, <1>2, StageSizes, FaultsGrow
<1>6. /\ inbox[c] = "processed" => e + a + f <= R + K * (g - f)
      /\ inbox[c] # "processed" => e <= b + K * (g - f)
  BY <1>2, <1>5 DEF BoundInv
<1>7. g - f \in Int /\ K * (g - f) \in Int BY Scales
<1>8. SUFFICES ASSUME NEW a1 \in Nat, NEW b1 \in Nat, NEW f1 \in Nat, NEW e1 \in Nat, NEW g1 \in Nat,
                      a1 = Cardinality(Ahead(c))', b1 = Cardinality(Behind(c))',
                      f1 = Cardinality(Failing(c))', e1 = Booked(n)', g1 = faults'
               PROVE  /\ inbox'[c] = "processed" => e1 + a1 + f1 <= R + K * (g1 - f1)
                      /\ inbox'[c] # "processed" => e1 <= b1 + K * (g1 - f1)
  <2>1. /\ Cardinality(Ahead(c)') \in Nat /\ Cardinality(Behind(c)') \in Nat
        /\ Cardinality(Failing(c)') \in Nat /\ Cardinality(Entries(n)') \in Nat
    <3>1. /\ IsFiniteSet(Ahead(c)') /\ IsFiniteSet(Behind(c)')
          /\ IsFiniteSet(Failing(c)') /\ IsFiniteSet(Entries(n)')
      <4>2. CASE Stays(n, c) BY <1>4, <4>2 DEF Stays
      <4>3. ASSUME NEW p, Takes(n, c, p)
            PROVE  /\ IsFiniteSet(Ahead(c)') /\ IsFiniteSet(Behind(c)')
                   /\ IsFiniteSet(Failing(c)') /\ IsFiniteSet(Entries(n)')
        BY <1>4, <4>3, OneMore DEF Takes
      <4>4. ASSUME NEW p, Books(n, c, p)
            PROVE  /\ IsFiniteSet(Ahead(c)') /\ IsFiniteSet(Behind(c)')
                   /\ IsFiniteSet(Failing(c)') /\ IsFiniteSet(Entries(n)')
        BY <1>4, <4>4, OneMore, OneLess DEF Books
      <4>5. ASSUME NEW p, GoesWrong(n, c, p)
            PROVE  /\ IsFiniteSet(Ahead(c)') /\ IsFiniteSet(Behind(c)')
                   /\ IsFiniteSet(Failing(c)') /\ IsFiniteSet(Entries(n)')
        BY <1>4, <4>5, OneMore, OneLess DEF GoesWrong
      <4>6. ASSUME NEW p, Marks(n, c, p)
            PROVE  /\ IsFiniteSet(Ahead(c)') /\ IsFiniteSet(Behind(c)')
                   /\ IsFiniteSet(Failing(c)') /\ IsFiniteSet(Entries(n)')
        BY <1>4, <4>6, OneLess DEF Marks
      <4>7. ASSUME NEW p, Returns(n, c, p)
            PROVE  /\ IsFiniteSet(Ahead(c)') /\ IsFiniteSet(Behind(c)')
                   /\ IsFiniteSet(Failing(c)') /\ IsFiniteSet(Entries(n)')
        BY <1>4, <4>7, OneLess DEF Returns
      <4>8. ASSUME NEW p, Leaves(n, c, p)
            PROVE  /\ IsFiniteSet(Ahead(c)') /\ IsFiniteSet(Behind(c)')
                   /\ IsFiniteSet(Failing(c)') /\ IsFiniteSet(Entries(n)')
        <5>1. /\ IsFiniteSet(Ahead(c) \ {p}) /\ IsFiniteSet(Behind(c) \ {p})
              /\ IsFiniteSet(Failing(c) \ {p})
          BY <1>4, OneLess
        <5> QED BY <1>4, <4>8, <5>1 DEF Leaves
      <4> QED BY <4>2, <4>3, <4>4, <4>5, <4>6, <4>7, <4>8, EveryStepMoves
    <3> QED BY <3>1, FS_CardinalityType
  <2>2. faults' \in Nat BY <1>1, FaultsGrow
  <2> QED BY <1>2, <1>3, <2>1, <2>2 DEF BoundInv, Booked
<1>9. CASE Stays(n, c)
  <2>1. a1 = a /\ b1 = b /\ f1 = f /\ e1 = e /\ g <= g1 BY <1>5, <1>8, <1>9 DEF Stays, Booked
  <2>2. K * (g - f) <= K * (g1 - f1) /\ K * (g1 - f1) \in Int BY <2>1, Scales
  <2> QED BY <1>6, <1>7, <1>9, <2>1, <2>2 DEF Stays
<1>10. ASSUME NEW p, Takes(n, c, p) PROVE  inbox'[c] # "processed" /\ e1 <= b1 + K * (g1 - f1)
  <2>1. b1 = b /\ f1 = f /\ e1 = e /\ g1 = g BY <1>5, <1>8, <1>10 DEF Takes, Booked
  <2> QED BY <1>6, <1>10, <2>1 DEF Takes
<1>11. ASSUME NEW p, Books(n, c, p)
       PROVE  /\ inbox'[c] = "processed" => e1 + a1 + f1 <= R + K * (g1 - f1)
              /\ inbox'[c] # "processed" => e1 <= b1 + K * (g1 - f1)
  <2>1. a1 = a - 1 /\ b1 = b + 1 /\ f1 = f /\ e1 = e + 1 /\ g1 = g /\ inbox' = inbox
    BY <1>4, <1>5, <1>8, <1>11, OneMore, OneLess DEF Books, Booked
  <2> QED BY <1>6, <1>7, <2>1
<1>12. ASSUME NEW p, GoesWrong(n, c, p)
       PROVE  /\ inbox'[c] = "processed" => e1 + a1 + f1 <= R + K * (g1 - f1)
              /\ inbox'[c] # "processed" => e1 <= b1 + K * (g1 - f1)
  <2>1. a1 = a - 1 /\ b1 = b /\ f1 = f + 1 /\ e1 = e /\ g1 = g + 1 /\ inbox' = inbox
    BY <1>4, <1>5, <1>8, <1>12, OneMore, OneLess DEF GoesWrong, Booked
  <2>2. g1 - f1 = g - f BY <2>1
  <2> QED BY <1>6, <1>7, <2>1, <2>2
<1>13. ASSUME NEW p, Marks(n, c, p)
       PROVE  inbox'[c] = "processed" /\ e1 + a1 + f1 <= R + K * (g1 - f1)
  <2>1. a1 = a /\ b1 = b - 1 /\ f1 = f /\ e1 = e /\ g1 = g /\ inbox'[c] = "processed"
    BY <1>4, <1>5, <1>8, <1>13, OneLess DEF Marks, Booked
  <2> QED BY <1>5, <1>6, <1>7, <2>1
<1>14. ASSUME NEW p, Returns(n, c, p) PROVE  inbox'[c] # "processed" /\ e1 <= b1 + K * (g1 - f1)
  <2>1. a1 = a /\ b1 = b /\ f1 = f - 1 /\ e1 = e /\ g1 = g /\ inbox'[c] # "processed"
    BY <1>4, <1>5, <1>8, <1>14, OneLess DEF Returns, Booked
  <2>2. g1 - f1 = (g - f) + 1 /\ K * (g1 - f1) = K * (g - f) + K BY <1>7, <2>1, Scales
  <2> QED BY <1>2, <1>5, <1>6, <1>7, <2>1, <2>2
<1>15. ASSUME NEW p, Leaves(n, c, p)
       PROVE  /\ inbox'[c] = "processed" => e1 + a1 + f1 <= R + K * (g1 - f1)
              /\ inbox'[c] # "processed" => e1 <= b1 + K * (g1 - f1)
  <2>1. a1 \in {a, a - 1} /\ b1 \in {b, b - 1} /\ f1 \in {f, f - 1}
    BY <1>4, <1>5, <1>8, <1>15, OneLess DEF Leaves
  <2>2. e1 = e /\ g1 = g + 1 /\ inbox' = inbox BY <1>5, <1>8, <1>15 DEF Leaves, Booked
  <2>3. (g - f) + 1 <= g1 - f1 BY <2>1, <2>2
  <2>4. K * ((g - f) + 1) <= K * (g1 - f1) /\ K * (g1 - f1) \in Int BY <1>7, <2>3, Scales
  <2>5. K * ((g - f) + 1) = K * (g - f) + K BY <1>7, Scales
  <2> QED BY <1>2, <1>6, <1>7, <2>1, <2>2, <2>4, <2>5
<1> QED BY <1>9, <1>10, <1>11, <1>12, <1>13, <1>14, <1>15, EveryStepMoves

(* The bounds of the bookings hold throughout. *)
LEMMA BookInvKept ==
    ASSUME QueueInv, QueueInv', BookInv, [Next]_vars
    PROVE  BookInv'
<1>1. TypeOK /\ \A q \in Pollers : LocalsOK(q) /\ Taken(q) BY DEF QueueInv, EffectInv
<1>2. UNCHANGED <<sends, running>>
  BY DEF Next, vars, PollerStep, Receive, ReceiveUnanswered, Replay, Poll, Dispatch, Book, TaxRead,
     TaxWrite, Find, PostDraft, ReverseRead, Reverse, MarkProcessed, MarkFailed, Record, Fails,
     Crash
<1>3. \A n : Completions(n)' = Completions(n) BY <1>2 DEF Completions
<1>4. CASE UNCHANGED vars
  <2>1. \A c : Ahead(c)' = Ahead(c) /\ Behind(c)' = Behind(c) /\ Failing(c)' = Failing(c)
    BY <1>4 DEF vars, Ahead, Behind, Failing, Holds, Current
  <2>2. \A n : Entries(n)' = Entries(n) BY <1>4 DEF vars, Entries
  <2> QED BY <1>2, <1>3, <1>4, <2>1, <2>2 DEF vars, BookInv, BoundInv, Rebooking, Booked
<1>5. CASE Next
  <2>1. ASSUME NEW n \in Runs, Completions(n) = {} PROVE  Entries(n)' = {}
    <3>1. CASE \A p \in Pollers : ~Book(p) BY <1>1, <1>5, <2>1, <3>1, EntriesKept DEF BookInv
    <3>2. ASSUME NEW p \in Pollers, Book(p) PROVE  Entries(n)' = {}
      <4>1. Type[Current(p)] = "completed" /\ Current(p) \in sends
        <5>1. PICK i \in DOMAIN arrived : arrived[i] = Current(p)
          BY <1>1, <3>2, CurrentIsFirst DEF QueueInv, Queued, Taken, Book, Busy
        <5> QED BY <1>1, <3>2, <5>1 DEF QueueInv, Queued, Book, LocalsOK
      <4>2. Subject[Current(p)] # n BY <2>1, <4>1 DEF Completions
      <4>3. Subject[Current(p)] \in Runs BY <1>1, <3>2, <4>1, CurrentIsEvent DEF Book, Busy
      <4>4. PICK row \in Entry : row = Booking(Subject[Current(p)]) /\ row.run # n
        BY <4>2, <4>3, BookingOfRun
      <4>5. journal' = Append(journal, row) /\ journal \in Seq(Entry)
        BY <1>1, <3>2, <4>4 DEF Book, TypeOK
      <4>6. /\ DOMAIN journal' = DOMAIN journal \cup {Len(journal) + 1}
            /\ journal'[Len(journal) + 1] = row
            /\ \A i \in DOMAIN journal : journal'[i] = journal[i]
        BY <4>5
      <4>7. Entries(n) = {} BY <2>1 DEF BookInv
      <4> QED BY <4>4, <4>6, <4>7 DEF Entries
    <3> QED BY <3>1, <3>2
  <2>2. ASSUME NEW n \in Runs, NEW c \in sends, Completions(n) = {c} PROVE  BoundInv(n, c)'
    BY <1>2, <1>5, <2>2, BoundKept DEF BookInv
  <2> QED BY <1>2, <1>3, <2>1, <2>2 DEF BookInv
<1> QED BY <1>4, <1>5

(* From the stages to the bound that is checked. *)
LEMMA BookInvBounds == QueueInv /\ BookInv => BookingsBounded
<1> SUFFICES ASSUME QueueInv, BookInv, NEW n \in Runs, \A d, e \in Completions(n) : d = e
             PROVE  Cardinality(Entries(n)) <= Cardinality(running) + Rebooking * faults
  BY DEF BookingsBounded
<1>1. PICK R \in Nat, K \in Nat, g \in Nat :
        /\ R = Cardinality(running) /\ K = Rebooking /\ g = faults /\ K * g \in Nat
  <2>1. TypeOK /\ running # {} BY DEF QueueInv, EffectInv, BookInv
  <2>2. Rebooking \in Nat /\ Cardinality(running) \in Nat BY <2>1, RebookingIs
  <2>3. faults \in Nat BY <2>1 DEF TypeOK
  <2> QED BY <2>2, <2>3
<1>2. CASE Completions(n) = {}
  <2>1. Cardinality(Entries(n)) = 0 BY <1>2, FS_EmptySet DEF BookInv
  <2> QED BY <1>1, <2>1
<1>3. CASE Completions(n) # {}
  <2>1. PICK c : Completions(n) = {c} BY <1>3
  <2>2. c \in sends BY <2>1 DEF Completions
  <2>3. PICK a \in Nat, b \in Nat, f \in Nat, e \in Nat :
          /\ a = Cardinality(Ahead(c)) /\ b = Cardinality(Behind(c)) /\ f = Cardinality(Failing(c))
          /\ e = Booked(n) /\ a + b + f <= R
    BY <1>1, StageSizes
  <2>4. e <= R + K * (g - f)
    <3>1. K * (g - f) \in Int BY Scales
    <3>2. \/ e + a + f <= R + K * (g - f)
          \/ e <= b + K * (g - f)
      BY <1>1, <2>1, <2>2, <2>3 DEF BookInv, BoundInv
    <3> QED BY <2>3, <3>1, <3>2
  <2>5. K * (g - f) <= K * g /\ K * (g - f) \in Int BY Scales
  <2>6. e <= R + K * g BY <1>1, <2>4, <2>5
  <2> QED BY <1>1, <2>3, <2>6 DEF Booked
<1> QED BY <1>2, <1>3

(* A run that one event reports completed is booked at most once by each
   processor, and for each fault by as many again as it can send back to it. *)
THEOREM BookingsAreBounded == Spec => []BookingsBounded
<1>1. Init => BookInv
  <2> SUFFICES ASSUME Init PROVE BookInv OBVIOUS
  <2>1. /\ \A n : Entries(n) = {}
        /\ \A c : Ahead(c) = {} /\ Behind(c) = {} /\ Failing(c) = {}
    BY DEF Init, Entries, Ahead, Behind, Failing, Holds, Idle, Busy, After
  <2>2. running # {} BY DEF Init
  <2>3. QueueInv BY QueueInvInit
  <2>4. Rebooking \in Nat /\ faults = 0 /\ Cardinality(running) \in Nat
    BY <2>2, <2>3, RebookingIs DEF QueueInv, EffectInv, Init
  <2>5. ASSUME NEW n \in Runs, NEW c \in sends PROVE BoundInv(n, c)
    <3>1. inbox[c] = "none" BY <2>3 DEF Init, QueueInv, EffectInv, TypeOK
    <3>2. Booked(n) = 0 /\ Cardinality(Behind(c)) = 0 /\ Cardinality(Failing(c)) = 0
      BY <2>1, FS_EmptySet DEF Booked
    <3>3. Rebooking * (faults - Cardinality(Failing(c))) = 0 BY <2>4, <3>2
    <3> QED BY <3>1, <3>2, <3>3 DEF BoundInv
  <2> QED BY <2>1, <2>2, <2>5 DEF BookInv
<1>2. QueueInv /\ QueueInv' /\ BookInv /\ [Next]_vars => BookInv' BY BookInvKept
<1> QED BY <1>1, <1>2, QueueInvInit, QueueInvKept, BookInvBounds, PTL DEF Spec

----
(* One processor and no fault. *)

Single == Cardinality(running) = 1 /\ faults = 0

(* The only processor holds no processed event; it fails reversals only; what it
   remembers is what is there. *)
Fresh(p) ==
    proc[p].pc \in Busy =>
        /\ \A k \in DOMAIN proc[p].todo : inbox[proc[p].todo[k]] # "processed"
        /\ proc[p].pc = "failed" => Type[Current(p)] = "reversed"
        /\ proc[p].pc = "tax_write" => proc[p].prev = taxed[Head(proc[p].forms)]
        /\ proc[p].pc = "reverse" => journal[proc[p].entry].status = "posted"
SingleInv == Single => \A p \in Pollers : Fresh(p)

(* Then no two are at work. *)
LEMMA OneAtWork ==
    ASSUME QueueInv, Single, NEW p \in Pollers, NEW q \in Pollers,
           p \in running \/ proc[p].pc \in Busy, proc[q].pc \in Busy
    PROVE  p = q
<1>1. p \in running /\ q \in running BY DEF QueueInv, Taken
<1>2. IsFiniteSet(running) BY HRInboxAssumption, FS_Subset DEF QueueInv, EffectInv, TypeOK
<1>3. PICK r : running = {r} BY <1>2, FS_Singleton DEF Single
<1> QED BY <1>1, <1>3

(* Without a fault after a step there was none before and in it. *)
LEMMA SingleStays ==
    ASSUME QueueInv, Single', [Next]_vars
    PROVE  Single /\ UNCHANGED <<sends, running, faults>> /\ ~Fault
<1>1. UNCHANGED <<sends, running>>
  BY DEF Next, vars, PollerStep, Receive, ReceiveUnanswered, Replay, Poll, Dispatch, Book, TaxRead,
     TaxWrite, Find, PostDraft, ReverseRead, Reverse, MarkProcessed, MarkFailed, Record, Fails,
     Crash
<1>2. faults \in Nat /\ faults <= faults' /\ faults' = 0
  BY FaultsGrow DEF QueueInv, EffectInv, Single
<1> QED BY <1>1, <1>2 DEF Single, Fault

(* Every step keeps what the only processor remembers. *)
LEMMA SingleKept ==
    ASSUME QueueInv, SingleInv, Next
    PROVE  SingleInv'
<1> SUFFICES ASSUME Single', NEW q \in Pollers, proc'[q].pc \in Busy PROVE  Fresh(q)'
  BY DEF SingleInv, Fresh
<1>1. TypeOK /\ \A p \in Pollers : LocalsOK(p) /\ Taken(p) BY DEF QueueInv, EffectInv
<1>2. Single /\ ~Fault /\ running' = running BY SingleStays
<1>3. \A p \in Pollers : Fresh(p) BY <1>2 DEF SingleInv
<1>4. CASE \E e \in sends : Receive(e) \/ ReceiveUnanswered(e) \/ Replay(e)
  <2>1. UNCHANGED <<proc, taxed, journal>> BY <1>4 DEF Receive, ReceiveUnanswered, Replay
  <2>2. \A d \in Events : inbox[d] # "processed" => inbox'[d] # "processed"
    BY <1>1, <1>4 DEF Receive, ReceiveUnanswered, Replay, TypeOK
  <2>3. \A k \in DOMAIN proc[q].todo : proc[q].todo[k] \in Events BY <1>1, <2>1, CurrentIsFirst
  <2> QED BY <1>3, <2>1, <2>2, <2>3 DEF Fresh, Current
<1>5. ASSUME NEW p \in Pollers, PollerStep(p) \/ Fails(p) \/ Crash(p) PROVE  Fresh(q)'
  <2>1. p \in running \/ proc[p].pc \in Busy
    BY <1>1, <1>2, <1>5, StepIsOneOf, HandlingStays DEF Poll, MarkProcessed, MarkFailed, Crash, Busy
  <2>2. p = q
    <3>1. ASSUME p # q PROVE FALSE
      <4>1. proc'[q] = proc[q] BY <1>1, <1>5, <3>1, StepIsOneOf
      <4> QED BY <1>2, <2>1, <3>1, <4>1, OneAtWork
    <3> QED BY <3>1
  <2>3. CASE Handles(p)
    <3>1. /\ proc[p].pc \in Busy /\ proc'[p].todo = proc[p].todo
          /\ inbox' = inbox /\ Current(p)' = Current(p)
      BY <1>1, <2>3, HandlingStays
    <3>2. proc'[p].pc = "failed" => Type[Current(p)] = "reversed"
      <4>1. CASE Dispatch(p) \/ Book(p) \/ TaxRead(p) \/ TaxWrite(p) \/ Reverse(p)
        BY <1>1, <4>1 DEF Dispatch, Book, TaxRead, TaxWrite, Reverse, Goto, Jump, TypeOK
      <4>2. CASE Find(p) \/ PostDraft(p) \/ ReverseRead(p)
        BY <1>1, <4>2 DEF Find, PostDraft, ReverseRead, LocalsOK
      <4> QED BY <1>2, <2>3, <4>1, <4>2 DEF Handles, Fails
    <3>3. proc'[p].pc = "tax_write" => proc'[p].prev = taxed'[Head(proc'[p].forms)]
      <4>1. CASE Dispatch(p) \/ Book(p) \/ TaxWrite(p) \/ Reverse(p)
        BY <1>1, <4>1 DEF Dispatch, Book, TaxWrite, Reverse, Goto, Jump, TypeOK
      <4>2. CASE Find(p) BY <1>1, <4>2 DEF Find, Goto, Jump, TypeOK
      <4>3. CASE PostDraft(p) \/ ReverseRead(p)
        <5>1. PICK t, i : \E l \in {"post", "reverse_read"} : proc[p] = [pc |-> l, todo |-> t, entry |-> i]
          <6>1. proc[p].pc \in {"post", "reverse_read"} BY <4>3 DEF PostDraft, ReverseRead
          <6> QED BY <1>1, <6>1, ProcFields
        <5> QED BY <1>1, <4>3, <5>1 DEF PostDraft, ReverseRead, Jump, Goto, TypeOK
      <4>4. CASE TaxRead(p) BY <1>1, <1>2, <4>4 DEF TaxRead, Goto, TypeOK
      <4> QED BY <1>2, <2>3, <4>1, <4>2, <4>3, <4>4 DEF Handles, Fails
    <3>4. proc'[p].pc = "reverse" => journal'[proc'[p].entry].status = "posted"
      <4>1. CASE Dispatch(p) \/ Book(p) \/ TaxRead(p) \/ TaxWrite(p) \/ Reverse(p)
        BY <1>1, <4>1 DEF Dispatch, Book, TaxRead, TaxWrite, Reverse, Goto, Jump, TypeOK
      <4>2. CASE Find(p) BY <1>1, <4>2 DEF Find, Goto, Jump, TypeOK
      <4>3. CASE PostDraft(p) \/ ReverseRead(p)
        <5>1. PICK t, i : \E l \in {"post", "reverse_read"} : proc[p] = [pc |-> l, todo |-> t, entry |-> i]
          <6>1. proc[p].pc \in {"post", "reverse_read"} BY <4>3 DEF PostDraft, ReverseRead
          <6> QED BY <1>1, <6>1, ProcFields
        <5> QED BY <1>1, <4>3, <5>1 DEF PostDraft, ReverseRead, Jump, Goto, TypeOK
      <4> QED BY <1>2, <2>3, <4>1, <4>2, <4>3 DEF Handles, Fails
    <3> QED BY <1>3, <2>2, <3>1, <3>2, <3>3, <3>4 DEF Fresh
  <2>4. CASE Poll(p) /\ UNCHANGED inbox
    <3>1. proc'[p] = [pc |-> "event", todo |-> Batch] BY <1>1, <2>4 DEF Poll, Goto, TypeOK
    <3>2. \A k \in DOMAIN Batch : inbox[Batch[k]] # "processed"
      BY <1>1, BatchInOrder DEF PendingEvents
    <3> QED BY <2>2, <2>4, <3>1, <3>2 DEF Fresh
  <2>5. CASE MarkProcessed(p) \/ MarkFailed(p)
    <3>1. proc[p].pc \in Busy /\ NextEvent(p) /\ LocalsOK(p)
      BY <1>1, <2>5 DEF MarkProcessed, MarkFailed, Record, Busy
    <3>2. proc'[p] # Idle BY <2>2 DEF Idle, Busy
    <3>3. PICK m \in Nat : m = Len(proc[p].todo) /\ DOMAIN proc[p].todo = 1..m /\ m > 1
      BY <1>1, <3>1, <3>2, NextDropsHead, CurrentIsFirst
    <3>4. /\ DOMAIN proc'[p].todo = 1..m - 1 /\ proc'[p].pc = "event"
          /\ \A k \in 1..m - 1 : proc'[p].todo[k] = proc[p].todo[k + 1] /\ k + 1 \in 1..m /\ k + 1 # 1
      BY <1>1, <3>1, <3>2, <3>3, NextDropsHead
    <3>5. \A d \in Events : d # Current(p) => inbox'[d] = inbox[d]
      BY <1>1, <2>5 DEF MarkProcessed, MarkFailed, Record, TypeOK
    <3>6. \A k \in 1..m : proc[p].todo[k] \in Events /\ (k # 1 => proc[p].todo[k] # Current(p))
      BY <1>1, <3>1, <3>3, CurrentIsFirst DEF Taken
    <3>7. \A k \in 1..m : inbox[proc[p].todo[k]] # "processed" BY <1>3, <3>1, <3>3 DEF Fresh
    <3>8. \A k \in 1..m - 1 : inbox'[proc'[p].todo[k]] # "processed" BY <3>4, <3>5, <3>6, <3>7
    <3> QED BY <2>2, <3>4, <3>8 DEF Fresh
  <2> QED BY <1>1, <1>2, <1>5, <2>3, <2>4, <2>5, StepIsOneOf DEF Crash
<1> QED BY <1>4, <1>5 DEF Next

----
(* The order in which one processor handles the employees. *)

StaffTypes == {"upserted", "terminated"}
Staff == {i \in DOMAIN arrived : Type[arrived[i]] \in StaffTypes}

(* The event at place i of the inbox is dealt with. *)
Handled(i) ==
    \/ inbox[arrived[i]] = "processed"
    \/ \E p \in Pollers : proc[p].pc = "processed" /\ Current(p) = arrived[i]
HandledOf(m) == {i \in About(m) : Handled(i)}
HiredOf(m) == {i \in Hirings(m) : Handled(i)}

(* A batch is in the order of arrival, and leaves out no employee's event that
   is older than one it holds. *)
InOrder(p) ==
    proc[p].pc \in Busy =>
        \A j, k \in DOMAIN proc[p].todo, a, b \in DOMAIN arrived :
            (j < k /\ arrived[a] = proc[p].todo[j] /\ arrived[b] = proc[p].todo[k]) => a < b
NoneLeft(p) ==
    proc[p].pc \in Busy =>
        \A k \in DOMAIN proc[p].todo, i \in Staff, a \in DOMAIN arrived :
            (arrived[a] = proc[p].todo[k] /\ i < a /\ ~Handled(i)) =>
                \E l \in DOMAIN proc[p].todo : proc[p].todo[l] = arrived[i]
OldestFirst == \A i, j \in Staff : i < j /\ Handled(j) => Handled(i)

(* So a payee is what the last event that was handled says. *)
PayeeOf(m) ==
    payee[m] = IF HiredOf(m) = {} THEN "none"
               ELSE IF \E i \in HiredOf(m) : \A j \in HandledOf(m) : j <= i THEN "active"
               ELSE "terminated"

OrderInv ==
    Single => /\ \A p \in Pollers : InOrder(p) /\ NoneLeft(p)
              /\ OldestFirst
              /\ \A m \in Employees : PayeeOf(m)

(* The places of the inbox. *)
LEMMA Places ==
    ASSUME TypeOK
    PROVE  /\ DOMAIN arrived = 1..Len(arrived) /\ Len(arrived) \in Nat
           /\ \A i \in DOMAIN arrived : arrived[i] \in Events /\ i \in Nat
           /\ Staff \subseteq DOMAIN arrived
           /\ \A m : About(m) \subseteq Staff /\ Hirings(m) \subseteq About(m)
BY DEF TypeOK, Staff, StaffTypes, About, Hirings

(* Handling an employee's event. *)
Serves(p) == Dispatch(p) /\ Type[Current(p)] \in StaffTypes

(* What is handled changes only when an employee's event is. *)
LEMMA HandledMoves ==
    ASSUME QueueInv, SingleInv, Single', Next, NEW i \in Staff
    PROVE  /\ i \in DOMAIN arrived' /\ arrived'[i] = arrived[i]
           /\ Handled(i)' <=> \/ Handled(i)
                              \/ \E p \in Pollers : Serves(p) /\ Current(p) = arrived[i]
<1>1. TypeOK /\ \A p \in Pollers : LocalsOK(p) /\ Taken(p) BY DEF QueueInv, EffectInv
<1>2. Single /\ ~Fault /\ running' = running BY SingleStays
<1>3. i \in DOMAIN arrived /\ arrived[i] \in Events /\ Type[arrived[i]] \in StaffTypes
  BY <1>1, Places DEF Staff
<1>4. CASE \E e \in sends : Receive(e) \/ ReceiveUnanswered(e) \/ Replay(e)
  <2>1. proc' = proc BY <1>4 DEF Receive, ReceiveUnanswered, Replay
  <2>2. inbox'[arrived[i]] = "processed" <=> inbox[arrived[i]] = "processed"
    BY <1>1, <1>3, <1>4 DEF Receive, ReceiveUnanswered, Replay, TypeOK
  <2>3. i \in DOMAIN arrived' /\ arrived'[i] = arrived[i]
    <3>1. CASE arrived' = arrived BY <1>3, <3>1
    <3>2. ASSUME NEW e \in Events, arrived' = Append(arrived, e)
          PROVE  i \in DOMAIN arrived' /\ arrived'[i] = arrived[i]
      BY <1>1, <1>3, <3>2 DEF TypeOK
    <3> QED BY <1>1, <1>4, <3>1, <3>2 DEF Receive, ReceiveUnanswered, Replay, TypeOK
  <2>4. ASSUME NEW p \in Pollers PROVE ~Serves(p)
    BY <1>1, <2>1 DEF Serves, Dispatch, Goto, Jump, TypeOK
  <2> QED BY <2>1, <2>2, <2>3, <2>4 DEF Handled, Current
<1>5. ASSUME NEW p \in Pollers, PollerStep(p) \/ Fails(p) \/ Crash(p)
      PROVE  /\ arrived' = arrived
             /\ Handled(i)' <=> \/ Handled(i)
                                \/ \E q \in Pollers : Serves(q) /\ Current(q) = arrived[i]
  <2>1. p \in running \/ proc[p].pc \in Busy
    BY <1>1, <1>2, <1>5, StepIsOneOf, HandlingStays DEF Poll, MarkProcessed, MarkFailed, Crash, Busy
  <2>2. /\ arrived' = arrived
        /\ \A q \in Pollers : q # p => proc'[q] = proc[q] /\ proc[q].pc \notin Busy
    BY <1>1, <1>2, <1>5, <2>1, StepIsOneOf, OneAtWork
  <2>3. \A q \in Pollers : q # p => ~Serves(q) BY <2>2 DEF Serves, Dispatch, Busy
  <2>4. \A q \in Pollers : q # p => proc[q].pc # "processed" /\ proc'[q].pc # "processed"
    BY <2>2 DEF Busy
  <2>5. /\ Handled(i) <=> \/ inbox[arrived[i]] = "processed"
                          \/ proc[p].pc = "processed" /\ Current(p) = arrived[i]
        /\ Handled(i)' <=> \/ inbox'[arrived[i]] = "processed"
                           \/ proc'[p].pc = "processed" /\ Current(p)' = arrived[i]
    BY <2>2, <2>4 DEF Handled
  <2>6. CASE Handles(p)
    <3>1. inbox' = inbox /\ Current(p)' = Current(p) BY <1>1, <2>6, HandlingStays
    <3>2. proc[p].pc # "processed"
      BY <2>6, <1>2 DEF Handles, Dispatch, Book, TaxRead, TaxWrite, Find, PostDraft, ReverseRead,
         Reverse, Fails
    <3>3. CASE Current(p) # arrived[i] BY <2>3, <2>5, <3>1, <3>3, <2>2
    <3>4. CASE Current(p) = arrived[i]
      <4>1. Type[Current(p)] \in StaffTypes BY <1>3, <3>4
      <4>2. Dispatch(p)
        BY <1>1, <1>2, <2>6, <4>1 DEF Handles, LocalsOK, Book, TaxRead, TaxWrite, Find, PostDraft,
           ReverseRead, Reverse, Fails, StaffTypes
      <4>3. proc'[p].pc = "processed"
        BY <1>1, <4>1, <4>2 DEF Dispatch, Jump, Goto, TypeOK, StaffTypes
      <4> QED BY <2>2, <2>5, <3>1, <3>4, <4>1, <4>2, <4>3 DEF Serves
    <3> QED BY <3>3, <3>4
  <2>7. ASSUME ~Handles(p) PROVE ~Serves(p) BY <2>7 DEF Serves, Handles
  <2>8. CASE Poll(p) /\ UNCHANGED inbox
    <3>1. proc[p] = Idle /\ proc'[p] = [pc |-> "event", todo |-> Batch]
      BY <1>1, <2>8 DEF Poll, Goto, TypeOK
    <3>2. proc[p].pc # "processed" /\ proc'[p].pc # "processed" /\ proc[p].pc # "event"
      BY <3>1 DEF Idle
    <3> QED BY <2>2, <2>3, <2>5, <2>8, <3>2 DEF Serves, Dispatch
  <2>9. CASE MarkProcessed(p) \/ MarkFailed(p)
    <3>1. proc[p].pc \in Busy /\ NextEvent(p) /\ LocalsOK(p) /\ proc[p].pc # "event"
      BY <1>1, <2>9 DEF MarkProcessed, MarkFailed, Record, Busy
    <3>2. proc'[p].pc # "processed" BY <1>1, <3>1, NextDropsHead DEF Idle
    <3>3. ~Serves(p) BY <3>1 DEF Serves, Dispatch
    <3>4. inbox'[arrived[i]] = "processed" <=>
            \/ inbox[arrived[i]] = "processed"
            \/ proc[p].pc = "processed" /\ Current(p) = arrived[i]
      <4>1. CASE MarkProcessed(p)
        <5>1. /\ inbox' = [inbox EXCEPT ![Current(p)] = "processed"] /\ proc[p].pc = "processed"
          BY <1>2, <4>1 DEF MarkProcessed, Record
        <5> QED BY <1>1, <1>3, <5>1 DEF TypeOK
      <4>2. CASE MarkFailed(p)
        <5>1. /\ inbox' = [inbox EXCEPT ![Current(p)] = "failed"] /\ proc[p].pc = "failed"
          BY <1>2, <4>2 DEF MarkFailed, Record
        <5>2. Type[Current(p)] = "reversed" BY <1>2, <3>1, <5>1 DEF SingleInv, Fresh
        <5>3. Current(p) # arrived[i] BY <1>3, <5>2 DEF StaffTypes
        <5> QED BY <1>1, <1>3, <5>1, <5>3 DEF TypeOK
      <4> QED BY <2>9, <4>1, <4>2
    <3> QED BY <2>2, <2>3, <2>5, <3>2, <3>3, <3>4
  <2> QED BY <1>1, <1>2, <1>5, <2>6, <2>8, <2>9, StepIsOneOf DEF Crash
<1> QED BY <1>3, <1>4, <1>5 DEF Next

(* A place that is added is the last, and nobody has handled what is there. *)
LEMMA NewPlace ==
    ASSUME QueueInv, Next
    PROVE  /\ DOMAIN arrived \subseteq DOMAIN arrived'
           /\ \A i \in DOMAIN arrived : arrived'[i] = arrived[i]
           /\ \A i \in DOMAIN arrived' : i \notin DOMAIN arrived =>
                 /\ ~Handled(i)' /\ \A j \in DOMAIN arrived : j < i
                 /\ \A j \in DOMAIN arrived' : j <= i
                 /\ arrived'[i] \in Events /\ inbox[arrived'[i]] = "none" /\ proc' = proc
<1>1. TypeOK /\ \A p \in Pollers : LocalsOK(p) /\ Taken(p) BY DEF QueueInv, EffectInv
<1>2. CASE arrived' = arrived BY <1>2
<1>3. ASSUME NEW e \in sends, inbox[e] = "none", arrived' = Append(arrived, e),
             inbox' = [inbox EXCEPT ![e] = "received"], proc' = proc
      PROVE  /\ DOMAIN arrived \subseteq DOMAIN arrived'
             /\ \A i \in DOMAIN arrived : arrived'[i] = arrived[i]
             /\ \A i \in DOMAIN arrived' : i \notin DOMAIN arrived =>
                   /\ ~Handled(i)' /\ \A j \in DOMAIN arrived : j < i
                   /\ \A j \in DOMAIN arrived' : j <= i
                   /\ arrived'[i] \in Events /\ inbox[arrived'[i]] = "none"
  <2>1. e \in Events /\ arrived \in Seq(Events) /\ Len(arrived) \in Nat BY <1>1 DEF TypeOK
  <2>2. /\ DOMAIN arrived = 1..Len(arrived) /\ DOMAIN arrived' = 1..Len(arrived) + 1
        /\ arrived'[Len(arrived) + 1] = e
        /\ \A i \in DOMAIN arrived : arrived'[i] = arrived[i]
    BY <1>3, <2>1
  <2>3. ASSUME NEW i \in DOMAIN arrived', i \notin DOMAIN arrived PROVE  i = Len(arrived) + 1
    BY <2>1, <2>2, <2>3
  <2>4. inbox'[e] = "received" BY <1>1, <1>3, <2>1 DEF TypeOK
  <2>5. ASSUME NEW p \in Pollers, proc[p].pc = "processed" PROVE Current(p) # e
    BY <1>1, <1>3, <2>5, CurrentIsFirst DEF Taken, Busy
  <2>6. ASSUME NEW i \in DOMAIN arrived', i \notin DOMAIN arrived
        PROVE  /\ ~Handled(i)' /\ \A j \in DOMAIN arrived : j < i
               /\ \A j \in DOMAIN arrived' : j <= i
               /\ arrived'[i] \in Events /\ inbox[arrived'[i]] = "none"
    <3>1. i = Len(arrived) + 1 /\ arrived'[i] = e BY <2>2, <2>3, <2>6
    <3>2. ~Handled(i)' BY <1>3, <2>4, <2>5, <3>1 DEF Handled, Current
    <3>3. \A j \in DOMAIN arrived : j < i BY <2>1, <2>2, <3>1
    <3>4. \A j \in DOMAIN arrived' : j <= i BY <2>1, <2>2, <3>1
    <3> QED BY <1>3, <2>1, <3>1, <3>2, <3>3, <3>4
  <2> QED BY <2>2, <2>6
<1>4. \/ arrived' = arrived
      \/ \E e \in sends : /\ inbox[e] = "none" /\ arrived' = Append(arrived, e)
                          /\ inbox' = [inbox EXCEPT ![e] = "received"] /\ proc' = proc
  BY DEF Next, PollerStep, Receive, ReceiveUnanswered, Replay, Poll, Dispatch, Book, TaxRead,
     TaxWrite, Find, PostDraft, ReverseRead, Reverse, MarkProcessed, MarkFailed, Record, Fails,
     Crash
<1> QED BY <1>2, <1>3, <1>4

(* Every step keeps the batch in order. *)
LEMMA InOrderKept ==
    ASSUME QueueInv, QueueInv', Single', Next, \A p \in Pollers : InOrder(p)
    PROVE  \A p \in Pollers : InOrder(p)'
<1>1. TypeOK /\ \A p \in Pollers : LocalsOK(p) /\ Taken(p) BY DEF QueueInv, EffectInv
<1>2. ~Fault BY SingleStays
<1>3. ASSUME NEW p \in Pollers,
             \/ proc'[p] = proc[p]
             \/ proc[p].pc \in Busy /\ proc'[p].pc \in Busy /\ proc'[p].todo = proc[p].todo
      PROVE  InOrder(p)'
  <2>1. SUFFICES ASSUME proc'[p].pc \in Busy,
                        NEW j \in DOMAIN proc'[p].todo, NEW k \in DOMAIN proc'[p].todo,
                        NEW a \in DOMAIN arrived', NEW b \in DOMAIN arrived',
                        j < k, arrived'[a] = proc'[p].todo[j], arrived'[b] = proc'[p].todo[k]
                 PROVE  a < b
    BY DEF InOrder
  <2>2. proc[p].pc \in Busy /\ proc'[p].todo = proc[p].todo BY <1>3, <2>1
  <2>3. inbox[proc[p].todo[j]] # "none" /\ inbox[proc[p].todo[k]] # "none"
    BY <1>1, <2>1, <2>2 DEF Taken
  <2>4. a \in DOMAIN arrived /\ b \in DOMAIN arrived BY <2>1, <2>2, <2>3, NewPlace
  <2> QED BY <2>1, <2>2, <2>4, NewPlace DEF InOrder
<1>4. ASSUME NEW p \in Pollers, PollerStep(p) \/ Fails(p) \/ Crash(p) PROVE  InOrder(p)'
  <2>1. arrived' = arrived BY <1>1, <1>4, StepIsOneOf
  <2>2. CASE Handles(p) BY <1>1, <1>3, <2>2, HandlingStays
  <2>3. CASE Poll(p)
    <3>1. proc'[p] = [pc |-> "event", todo |-> Batch] BY <1>1, <2>3 DEF Poll, Goto, TypeOK
    <3>2. \A j, k \in DOMAIN Batch, a, b \in DOMAIN arrived :
            j < k /\ arrived[a] = Batch[j] /\ arrived[b] = Batch[k] => a < b
      BY <1>1, BatchInOrder DEF QueueInv
    <3>3. proc'[p].todo = Batch BY <3>1
    <3> QED BY <2>1, <3>2, <3>3 DEF InOrder
  <2>4. CASE MarkProcessed(p) \/ MarkFailed(p)
    <3>1. proc[p].pc \in Busy /\ NextEvent(p) /\ LocalsOK(p)
      BY <1>1, <2>4 DEF MarkProcessed, MarkFailed, Record, Busy
    <3>2. CASE proc'[p] = Idle BY <3>2 DEF InOrder, Idle, Busy
    <3>3. CASE proc'[p] # Idle
      <4>1. PICK m \in Nat : m = Len(proc[p].todo) /\ DOMAIN proc[p].todo = 1..m /\ m > 1
        BY <1>1, <3>1, <3>3, NextDropsHead, CurrentIsFirst
      <4>2. /\ DOMAIN proc'[p].todo = 1..m - 1
            /\ \A k \in 1..m - 1 : proc'[p].todo[k] = proc[p].todo[k + 1] /\ k + 1 \in 1..m
        BY <1>1, <3>1, <3>3, <4>1, NextDropsHead
      <4>3. ASSUME NEW j \in 1..m - 1, NEW k \in 1..m - 1, NEW a \in DOMAIN arrived, NEW b \in DOMAIN arrived,
                   j < k, arrived[a] = proc'[p].todo[j], arrived[b] = proc'[p].todo[k] PROVE  a < b
        <5>1. j + 1 \in 1..m /\ k + 1 \in 1..m /\ j + 1 < k + 1 BY <4>2, <4>3
        <5>2. arrived[a] = proc[p].todo[j + 1] /\ arrived[b] = proc[p].todo[k + 1] BY <4>2, <4>3
        <5> QED BY <3>1, <4>1, <5>1, <5>2 DEF InOrder
      <4> QED BY <2>1, <4>2, <4>3 DEF InOrder
    <3> QED BY <3>2, <3>3
  <2> QED BY <1>1, <1>2, <1>4, <2>2, <2>3, <2>4, StepIsOneOf DEF Crash
<1>5. ASSUME NEW p \in Pollers, NEW q \in Pollers, PollerStep(p) \/ Fails(p) \/ Crash(p)
      PROVE  InOrder(q)'
  BY <1>1, <1>3, <1>4, <1>5, StepIsOneOf
<1>6. CASE \E e \in sends : Receive(e) \/ ReceiveUnanswered(e) \/ Replay(e)
  BY <1>3, <1>6 DEF Receive, ReceiveUnanswered, Replay
<1> QED BY <1>5, <1>6 DEF Next

(* And complete. *)
LEMMA NoneLeftKept ==
    ASSUME QueueInv, QueueInv', SingleInv, Single', Next, \A p \in Pollers : NoneLeft(p)
    PROVE  \A p \in Pollers : NoneLeft(p)'
<1>1. TypeOK /\ \A p \in Pollers : LocalsOK(p) /\ Taken(p) BY DEF QueueInv, EffectInv
<1>2. ~Fault /\ Single BY SingleStays
<1>3. SUFFICES ASSUME NEW p \in Pollers, proc'[p].pc \in Busy, NEW k \in DOMAIN proc'[p].todo,
                      NEW i \in Staff', NEW a \in DOMAIN arrived', arrived'[a] = proc'[p].todo[k],
                      i < a, ~Handled(i)'
               PROVE  \E l \in DOMAIN proc'[p].todo : proc'[p].todo[l] = arrived'[i]
  BY DEF NoneLeft
<1>4. inbox'[proc'[p].todo[k]] # "none" BY <1>3 DEF QueueInv, Taken
<1>5. a \in DOMAIN arrived /\ i \in Staff /\ arrived'[a] = arrived[a] /\ arrived'[i] = arrived[i]
      /\ ~Handled(i) /\ a \in Nat /\ i \in Nat
  <2>1. i \in DOMAIN arrived' BY <1>3 DEF Staff
  <2>2. DOMAIN arrived' \subseteq Nat BY DEF QueueInv, EffectInv, TypeOK
  <2>3. a \in DOMAIN arrived
    <3>1. ASSUME a \notin DOMAIN arrived PROVE FALSE
      <4>1. proc' = proc /\ inbox[arrived'[a]] = "none" BY <3>1, NewPlace
      <4> QED BY <1>1, <1>3, <4>1 DEF Taken
    <3> QED BY <3>1
  <2>4. i \in DOMAIN arrived
    <3>1. ASSUME i \notin DOMAIN arrived PROVE FALSE
      <4>1. a < i BY <2>1, <2>3, <3>1, NewPlace
      <4> QED BY <1>3, <2>1, <2>2, <4>1
    <3> QED BY <3>1
  <2>5. arrived'[a] = arrived[a] /\ arrived'[i] = arrived[i] BY <2>3, <2>4, NewPlace
  <2>6. i \in Staff BY <1>3, <2>4, <2>5 DEF Staff
  <2> QED BY <1>3, <2>1, <2>2, <2>3, <2>5, <2>6, HandledMoves
<1>6. CASE \/ proc'[p] = proc[p]
           \/ proc[p].pc \in Busy /\ proc'[p].pc \in Busy /\ proc'[p].todo = proc[p].todo
  <2>1. proc[p].pc \in Busy /\ proc'[p].todo = proc[p].todo BY <1>3, <1>6
  <2> QED BY <1>3, <1>5, <2>1 DEF NoneLeft
<1>7. CASE Poll(p)
  <2>1. proc'[p] = [pc |-> "event", todo |-> Batch] /\ inbox' = inbox /\ proc'[p].todo = Batch
    BY <1>1, <1>7 DEF Poll, Goto, TypeOK
  <2>2. inbox[arrived[i]] \in {"received", "failed"} /\ i \in DOMAIN arrived
    <3>1. inbox[arrived[i]] # "processed" /\ i \in DOMAIN arrived BY <1>5 DEF Handled, Staff
    <3>2. inbox[arrived[i]] # "none" /\ arrived[i] \in Events
      BY <1>1, <3>1, Places DEF QueueInv, Queued
    <3> QED BY <1>1, <3>1, <3>2 DEF TypeOK
  <2>3. i \in PendingEvents /\ i <= a BY <1>3, <1>5, <2>2 DEF PendingEvents
  <2>4. Queued => \A kk \in DOMAIN Batch, ii \in PendingEvents, aa \in DOMAIN arrived :
          ii <= aa /\ arrived[aa] = Batch[kk] => \E l \in DOMAIN Batch : Batch[l] = arrived[ii]
    BY <1>1, BatchInOrder
  <2> QED BY <1>3, <1>5, <2>1, <2>3, <2>4 DEF QueueInv
<1>8. CASE MarkProcessed(p) \/ MarkFailed(p)
  <2>1. proc[p].pc \in Busy /\ NextEvent(p) /\ LocalsOK(p) /\ proc'[p] # Idle
    BY <1>1, <1>3, <1>8 DEF MarkProcessed, MarkFailed, Record, Busy, Idle
  <2>2. PICK m \in Nat : m = Len(proc[p].todo) /\ DOMAIN proc[p].todo = 1..m /\ m > 1
    BY <1>1, <2>1, NextDropsHead, CurrentIsFirst
  <2>3. /\ DOMAIN proc'[p].todo = 1..m - 1
        /\ \A n \in 1..m - 1 : proc'[p].todo[n] = proc[p].todo[n + 1] /\ n + 1 \in 1..m
    BY <1>1, <2>1, <2>2, NextDropsHead
  <2>4. PICK l \in 1..m : proc[p].todo[l] = arrived[i]
    <3>1. k + 1 \in 1..m /\ arrived[a] = proc[p].todo[k + 1] BY <1>3, <1>5, <2>3
    <3> QED BY <1>3, <1>5, <2>1, <2>2, <3>1 DEF NoneLeft
  <2>5. l # 1
    <3>1. ASSUME l = 1 PROVE FALSE
      <4>1. Current(p) = arrived[i] BY <1>1, <2>1, <2>4, <3>1, CurrentIsFirst
      <4>2. CASE MarkProcessed(p) BY <1>5, <4>1, <4>2 DEF MarkProcessed, Handled
      <4>3. CASE MarkFailed(p)
        <5>1. Type[Current(p)] = "reversed" BY <1>2, <2>1, <4>3 DEF SingleInv, Fresh, MarkFailed
        <5> QED BY <1>5, <4>1, <5>1 DEF Staff, StaffTypes
      <4> QED BY <1>8, <4>2, <4>3
    <3> QED BY <3>1
  <2>6. l - 1 \in 1..m - 1 /\ (l - 1) + 1 = l BY <2>5
  <2> QED BY <1>5, <2>3, <2>4, <2>6
<1>9. ASSUME NEW q \in Pollers, PollerStep(q) \/ Fails(q) \/ Crash(q)
      PROVE  \E l \in DOMAIN proc'[p].todo : proc'[p].todo[l] = arrived'[i]
  <2>1. CASE q # p BY <1>1, <1>6, <1>9, <2>1, StepIsOneOf
  <2>2. CASE q = p BY <1>1, <1>2, <1>6, <1>7, <1>8, <1>9, <2>2, StepIsOneOf, HandlingStays DEF Crash
  <2> QED BY <2>1, <2>2
<1>10. CASE \E e \in sends : Receive(e) \/ ReceiveUnanswered(e) \/ Replay(e)
  BY <1>6, <1>10 DEF Receive, ReceiveUnanswered, Replay
<1> QED BY <1>9, <1>10 DEF Next

(* The event that is handled is the oldest employee's event that was not. *)
LEMMA ServesOldest ==
    ASSUME QueueInv, SingleInv, OrderInv, Single', Next, NEW p \in Pollers, Serves(p)
    PROVE  /\ arrived' = arrived
           /\ \E i \in Staff :
                 /\ arrived[i] = Current(p)
                 /\ \A j \in Staff : /\ Handled(j) <=> j < i
                                     /\ Handled(j)' <=> j <= i
<1>1. TypeOK /\ Queued /\ \A q \in Pollers : LocalsOK(q) /\ Taken(q) BY DEF QueueInv, EffectInv
<1>2. Single BY SingleStays
<1>3. /\ proc[p].pc = "event" /\ proc[p].pc \in Busy /\ arrived' = arrived
      /\ Type[Current(p)] \in StaffTypes
  BY DEF Serves, Dispatch, Busy
<1>4. /\ 1 \in DOMAIN proc[p].todo /\ proc[p].todo[1] = Current(p) /\ Current(p) \in Events
      /\ DOMAIN proc[p].todo \subseteq Nat
      /\ \A l \in DOMAIN proc[p].todo : l # 1 => 1 < l
  BY <1>1, <1>3, CurrentIsFirst
<1>5. inbox[Current(p)] # "none" /\ inbox[Current(p)] # "processed"
  BY <1>1, <1>2, <1>3, <1>4 DEF Taken, SingleInv, Fresh
<1>6. PICK i \in DOMAIN arrived : arrived[i] = Current(p) BY <1>1, <1>4, <1>5 DEF Queued
<1>7. i \in Staff /\ \A j \in Staff : j \in Nat /\ j \in DOMAIN arrived
  BY <1>1, <1>3, <1>6, Places DEF Staff
<1>8. ~Handled(i)
  <2>1. ASSUME NEW q \in Pollers, proc[q].pc = "processed" PROVE FALSE
    BY <1>1, <1>2, <1>3, <2>1, OneAtWork DEF Busy
  <2> QED BY <1>5, <1>6, <2>1 DEF Handled
<1>9. ASSUME NEW j \in Staff, j < i PROVE Handled(j)
  <2>1. SUFFICES ASSUME ~Handled(j) PROVE FALSE OBVIOUS
  <2>2. PICK l \in DOMAIN proc[p].todo : proc[p].todo[l] = arrived[j]
    BY <1>2, <1>3, <1>4, <1>6, <1>9, <2>1 DEF OrderInv, NoneLeft
  <2>3. CASE l = 1
    <3>1. arrived[j] = arrived[i] BY <1>4, <1>6, <2>2, <2>3
    <3>2. j = i BY <1>1, <1>7, <3>1 DEF Queued
    <3> QED BY <1>7, <1>9, <3>2
  <2>4. CASE l # 1
    <3>1. i < j BY <1>2, <1>3, <1>4, <1>6, <1>7, <2>2, <2>4 DEF OrderInv, InOrder
    <3> QED BY <1>7, <1>9, <3>1
  <2> QED BY <2>3, <2>4
<1>10. ASSUME NEW j \in Staff, Handled(j) PROVE j < i
  <2>1. j # i /\ ~(i < j) BY <1>2, <1>7, <1>8, <1>10 DEF OrderInv, OldestFirst
  <2> QED BY <1>7, <2>1
<1>11. ASSUME NEW j \in Staff PROVE Handled(j)' <=> Handled(j) \/ j = i
  <2>1. Handled(j)' <=> Handled(j) \/ \E q \in Pollers : Serves(q) /\ Current(q) = arrived[j]
    BY HandledMoves
  <2>2. \A q \in Pollers : Serves(q) => q = p
    BY <1>1, <1>2, <1>3, OneAtWork DEF Serves, Dispatch, Busy
  <2>3. Current(p) = arrived[j] <=> j = i BY <1>1, <1>6, <1>7 DEF Queued
  <2> QED BY <2>1, <2>2, <2>3
<1>12. \A j \in Staff : (Handled(j) <=> j < i) /\ (Handled(j)' <=> j <= i)
  BY <1>7, <1>9, <1>10, <1>11
<1> QED BY <1>3, <1>6, <1>7, <1>12

(* Nothing else changes a payee, or what is handled. *)
LEMMA OthersAreQuiet ==
    ASSUME QueueInv, SingleInv, Single', Next, \A p \in Pollers : ~Serves(p)
    PROVE  /\ payee' = payee
           /\ \A i \in Staff' : Handled(i)' <=> i \in Staff /\ Handled(i)
           /\ \A i \in Staff : i \in Staff' /\ arrived'[i] = arrived[i]
           /\ \A i \in Staff' \ Staff : \A j \in Staff' : j <= i
<1>1. TypeOK BY DEF QueueInv, EffectInv
<1>2. payee' = payee
  BY DEF Next, PollerStep, Receive, ReceiveUnanswered, Replay, Poll, Dispatch, Book, TaxRead,
     TaxWrite, Find, PostDraft, ReverseRead, Reverse, MarkProcessed, MarkFailed, Record, Fails,
     Crash, Serves, StaffTypes
<1>3. ASSUME NEW i \in Staff' PROVE  Handled(i)' <=> i \in Staff /\ Handled(i)
  <2>1. i \in DOMAIN arrived' BY DEF Staff
  <2>2. CASE i \in DOMAIN arrived
    <3>1. i \in Staff BY <2>2, NewPlace DEF Staff
    <3> QED BY <3>1, HandledMoves
  <2>3. CASE i \notin DOMAIN arrived
    <3>1. i \notin Staff BY <2>3 DEF Staff
    <3> QED BY <2>1, <2>3, <3>1, NewPlace
  <2> QED BY <2>2, <2>3
<1>4. ASSUME NEW i \in Staff PROVE i \in Staff' /\ arrived'[i] = arrived[i] BY NewPlace DEF Staff
<1>5. ASSUME NEW i \in Staff', i \notin Staff PROVE \A j \in Staff' : j <= i
  <2>1. i \in DOMAIN arrived' /\ i \notin DOMAIN arrived BY <1>5, NewPlace DEF Staff
  <2>2. \A j \in DOMAIN arrived' : j <= i BY <2>1, NewPlace
  <2> QED BY <2>2 DEF Staff
<1> QED BY <1>2, <1>3, <1>4, <1>5

(* Every step keeps that the oldest is handled first. *)
LEMMA OldestKept ==
    ASSUME QueueInv, QueueInv', SingleInv, OrderInv, Single', Next
    PROVE  OldestFirst'
<1>1. TypeOK /\ TypeOK' /\ Single BY SingleStays DEF QueueInv, EffectInv
<1>2. \A i \in Staff : i \in Nat BY <1>1, Places
<1>3. \A i \in Staff' : i \in Nat BY <1>1 DEF Staff, TypeOK
<1>4. CASE \E p \in Pollers : Serves(p)
  <2>1. PICK p \in Pollers : Serves(p) BY <1>4
  <2>2. arrived' = arrived /\ \E i \in Staff : \A j \in Staff : Handled(j)' <=> j <= i
    BY <2>1, ServesOldest
  <2>3. Staff' = Staff BY <2>2 DEF Staff
  <2>4. PICK i \in Staff : \A j \in Staff : Handled(j)' <=> j <= i BY <2>2
  <2>5. ASSUME NEW j \in Staff, NEW k \in Staff, j < k, Handled(k)' PROVE Handled(j)'
    BY <1>2, <2>4, <2>5
  <2> QED BY <2>3, <2>5 DEF OldestFirst
<1>5. CASE \A p \in Pollers : ~Serves(p)
  <2>1. ASSUME NEW j \in Staff', NEW k \in Staff', j < k, Handled(k)' PROVE Handled(j)'
    <3>1. k \in Staff /\ Handled(k) BY <1>5, <2>1, OthersAreQuiet
    <3>2. j \in Staff
      <4>1. k \in Staff' BY <1>5, <3>1, OthersAreQuiet
      <4>2. ASSUME j \notin Staff PROVE FALSE
        <5>1. k <= j BY <1>5, <4>1, <4>2, OthersAreQuiet
        <5> QED BY <1>3, <2>1, <5>1
      <4> QED BY <4>2
    <3>3. Handled(j) BY <1>1, <2>1, <3>1, <3>2 DEF OrderInv, OldestFirst
    <3> QED BY <1>5, <3>2, <3>3, OthersAreQuiet
  <2> QED BY <2>1 DEF OldestFirst
<1> QED BY <1>4, <1>5

(* And that the payee is what the last handled event says. *)
LEMMA PayeeKept ==
    ASSUME QueueInv, SingleInv, OrderInv, Single', Next, NEW m \in Employees
    PROVE  PayeeOf(m)'
<1>1. TypeOK /\ Single /\ PayeeOf(m) BY SingleStays DEF QueueInv, EffectInv, OrderInv
<1>2. /\ About(m) \subseteq Staff /\ Hirings(m) \subseteq About(m)
      /\ \A i \in Staff : i \in Nat
  BY <1>1, Places
<1>3. CASE \A p \in Pollers : ~Serves(p)
  <2>1. /\ \A i \in About(m)' : i \in Staff'
        /\ \A i \in Hirings(m)' : i \in About(m)'
    BY DEF About, Hirings, Staff, StaffTypes
  <2>2. HandledOf(m)' = HandledOf(m)
    <3>1. ASSUME NEW i \in HandledOf(m)' PROVE i \in HandledOf(m)
      <4>1. i \in About(m)' /\ Handled(i)' /\ i \in Staff' BY <2>1 DEF HandledOf
      <4>2. i \in Staff /\ Handled(i) /\ arrived'[i] = arrived[i] BY <1>3, <4>1, OthersAreQuiet
      <4> QED BY <4>1, <4>2 DEF HandledOf, About, Staff
    <3>2. ASSUME NEW i \in HandledOf(m) PROVE i \in HandledOf(m)'
      <4>1. i \in About(m) /\ Handled(i) /\ i \in Staff BY <1>2 DEF HandledOf
      <4>2. i \in Staff' /\ Handled(i)' /\ arrived'[i] = arrived[i] BY <1>3, <4>1, OthersAreQuiet
      <4> QED BY <4>1, <4>2 DEF HandledOf, About, Staff
    <3> QED BY <3>1, <3>2
  <2>3. HiredOf(m)' = HiredOf(m)
    <3>1. \A i \in HandledOf(m) : arrived'[i] = arrived[i]
      BY <1>2, <1>3, OthersAreQuiet DEF HandledOf
    <3>2. /\ HiredOf(m) = {i \in HandledOf(m) : Type[arrived[i]] = "upserted"}
          /\ HiredOf(m)' = {i \in HandledOf(m)' : Type[arrived'[i]] = "upserted"}
      BY DEF HiredOf, HandledOf, Hirings
    <3> QED BY <2>2, <3>1, <3>2
  <2>4. payee' = payee BY <1>3, OthersAreQuiet
  <2> QED BY <1>1, <2>2, <2>3, <2>4 DEF PayeeOf
<1>4. ASSUME NEW p \in Pollers, Serves(p) PROVE PayeeOf(m)'
  <2>1. arrived' = arrived BY <1>4, ServesOldest
  <2>2. PICK i \in Staff : /\ arrived[i] = Current(p)
                           /\ \A j \in Staff : /\ Handled(j) <=> j < i
                                               /\ Handled(j)' <=> j <= i
    BY <1>4, ServesOldest
  <2>3. /\ HandledOf(m) = {j \in About(m) : j < i} /\ HandledOf(m)' = {j \in About(m) : j <= i}
        /\ HiredOf(m) = {j \in Hirings(m) : j < i} /\ HiredOf(m)' = {j \in Hirings(m) : j <= i}
    <3>1. About(m)' = About(m) /\ Hirings(m)' = Hirings(m) BY <2>1 DEF About, Hirings
    <3>2. /\ HandledOf(m)' = {j \in About(m) : Handled(j)'}
          /\ HiredOf(m)' = {j \in Hirings(m) : Handled(j)'}
      BY <3>1 DEF HandledOf, HiredOf
    <3> QED BY <1>2, <2>2, <3>2 DEF HandledOf, HiredOf
  <2>4. i \in DOMAIN arrived /\ i \in Nat BY <1>1, Places
  <2>5. CASE Subject[Current(p)] # m
    <3>1. payee'[m] = payee[m] BY <1>1, <1>4, <2>5 DEF Serves, Dispatch, TypeOK
    <3>2. i \notin About(m) BY <2>2, <2>5 DEF About
    <3>3. HandledOf(m)' = HandledOf(m) /\ HiredOf(m)' = HiredOf(m) BY <1>2, <2>3, <2>4, <3>2
    <3> QED BY <1>1, <3>1, <3>3 DEF PayeeOf
  <2>6. CASE Subject[Current(p)] = m
    <3>1. i \in About(m) BY <1>4, <2>2, <2>4, <2>6 DEF Serves, StaffTypes, About
    <3>2. CASE Type[Current(p)] = "upserted"
      <4>1. i \in Hirings(m) BY <2>2, <3>1, <3>2 DEF Hirings
      <4>2. i \in HiredOf(m)' /\ \A j \in HandledOf(m)' : j <= i BY <2>3, <2>4, <4>1
      <4>3. payee'[m] = "active" BY <1>1, <1>4, <2>6, <3>2 DEF Serves, Dispatch, TypeOK
      <4> QED BY <4>2, <4>3 DEF PayeeOf
    <3>3. CASE Type[Current(p)] = "terminated"
      <4>1. i \notin Hirings(m) BY <2>2, <3>3 DEF Hirings
      <4>2. HiredOf(m)' = HiredOf(m) BY <1>2, <2>3, <2>4, <4>1
      <4>3. payee'[m] = IF payee[m] = "none" THEN "none" ELSE "terminated"
        BY <1>1, <1>4, <2>6, <3>3 DEF Serves, Dispatch, TypeOK
      <4>4. ~\E k \in HiredOf(m)' : \A j \in HandledOf(m)' : j <= k
        <5>1. i \in HandledOf(m)' BY <2>3, <2>4, <3>1
        <5>2. \A k \in HiredOf(m) : k < i /\ k \in Nat BY <1>2, <2>3
        <5> QED BY <2>4, <4>2, <5>1, <5>2
      <4> QED BY <1>1, <4>2, <4>3, <4>4 DEF PayeeOf
    <3> QED BY <1>4, <3>2, <3>3 DEF Serves, StaffTypes
  <2> QED BY <2>5, <2>6
<1> QED BY <1>3, <1>4

(* The order holds initially, *)
LEMMA OrderInvInit == ASSUME Init PROVE SingleInv /\ OrderInv
<1>1. /\ \A p \in Pollers : proc[p].pc \notin Busy
      /\ Staff = {} /\ \A m : HandledOf(m) = {} /\ HiredOf(m) = {}
  BY DEF Init, Idle, Busy, Staff, HandledOf, HiredOf, About, Hirings
<1>2. \A m \in Employees : payee[m] = "none" BY DEF Init
<1> QED BY <1>1, <1>2 DEF SingleInv, Fresh, OrderInv, InOrder, NoneLeft, OldestFirst, PayeeOf

(* and every step keeps it. *)
LEMMA OrderInvKept ==
    ASSUME QueueInv, QueueInv', SingleInv, OrderInv, [Next]_vars
    PROVE  SingleInv' /\ OrderInv'
<1>1. CASE UNCHANGED vars
  BY <1>1 DEF vars, SingleInv, Single, Fresh, Current, OrderInv, InOrder, NoneLeft, OldestFirst,
     PayeeOf, HandledOf, HiredOf, Handled, Staff, About, Hirings
<1>2. CASE Next
  <2>1. SingleInv' BY <1>2, SingleKept
  <2>2. ASSUME Single' PROVE OrderInv'
    <3>1. Single BY <1>2, <2>2, SingleStays
    <3>2. \A p \in Pollers : InOrder(p)' BY <1>2, <2>2, <3>1, InOrderKept DEF OrderInv
    <3>3. \A p \in Pollers : NoneLeft(p)' BY <1>2, <2>2, <3>1, NoneLeftKept DEF OrderInv
    <3>4. OldestFirst' BY <1>2, <2>2, OldestKept
    <3>5. \A m \in Employees : PayeeOf(m)' BY <1>2, <2>2, PayeeKept
    <3> QED BY <3>2, <3>3, <3>4, <3>5 DEF OrderInv
  <2> QED BY <2>1, <2>2 DEF OrderInv
<1> QED BY <1>1, <1>2

(* When all is settled, every event about an employee is handled. *)
LEMMA OrderInvShowsPayees ==
    ASSUME QueueInv, OrderInv
    PROVE  PayeeIsLatest
<1> SUFFICES ASSUME NEW m \in Employees, Cardinality(running) = 1, faults = 0, Settled(m)
             PROVE  payee[m] = IF Hirings(m) = {} THEN "none"
                       ELSE IF \E i \in Hirings(m) : \A j \in About(m) : j <= i THEN "active"
                       ELSE "terminated"
  BY DEF PayeeIsLatest
<1>1. TypeOK /\ Queued /\ PayeeOf(m) BY DEF QueueInv, EffectInv, OrderInv, Single
<1>2. ASSUME NEW i \in About(m) PROVE Handled(i)
  <2>1. i \in DOMAIN arrived /\ Subject[arrived[i]] = m BY DEF About
  <2>2. arrived[i] \in sends BY <1>1, <2>1 DEF Queued
  <2> QED BY <2>1, <2>2 DEF Settled, Handled
<1>3. HandledOf(m) = About(m) /\ HiredOf(m) = Hirings(m) BY <1>2 DEF HandledOf, HiredOf, Hirings
<1> QED BY <1>1, <1>3 DEF PayeeOf

(* With one processor and no fault a payee is what the event that arrived last
   says, though a payee has no version to compare. *)
THEOREM PayeesAreLatest == Spec => []PayeeIsLatest
<1> DEFINE Inv == QueueInv /\ SingleInv /\ OrderInv
<1>1. Init => Inv BY QueueInvInit, OrderInvInit
<1>2. Inv /\ [Next]_vars => Inv'
  <2>1. QueueInv /\ [Next]_vars => QueueInv' BY QueueInvKept
  <2>2. QueueInv /\ QueueInv' /\ SingleInv /\ OrderInv /\ [Next]_vars => SingleInv' /\ OrderInv'
    BY OrderInvKept
  <2> QED BY <2>1, <2>2
<1>3. Inv => PayeeIsLatest BY OrderInvShowsPayees
<1> QED BY <1>1, <1>2, <1>3, PTL DEF Spec

(* Whatever the events, however many processors and faults: the bookings and the
   drafts are bounded, and without faults the payees are right. *)
THEOREM InboxIsSound == Spec => []InboxSound
<1>1. EffectInv => TypeOK BY DEF EffectInv
<1>2. TypeOK /\ BookingsBounded /\ TaxedBounded /\ PayeeIsLatest => InboxSound BY DEF InboxSound
<1> QED BY <1>1, <1>2, EffectInvAlways, BookingsAreBounded, DraftsCountBookings, PayeesAreLatest, PTL

----
(* A run that one event reports completed is booked and counted once. *)

(* The event is processed but for its mark; some processor has booked the run
   and is at the drafts; the run, a Philippine one, is in the draft of form f. *)
Counted(c) ==
    \/ inbox[c] = "processed"
    \/ \E p \in Pollers : proc[p].pc = "processed" /\ Current(p) = c
Counting(c) == {p \in Pollers : proc[p].pc \in {"tax_read", "tax_write"} /\ Current(p) = c}
Filed(f, c) ==
    /\ Subject[c] \in Philippine
    /\ \/ Counted(c)
       \/ f = "1601C" /\ \E p \in Counting(c) : proc[p].forms # Forms

BookedOnce(n, c) ==
    /\ IF Counted(c) \/ Counting(c) # {} THEN \E i : Entries(n) = {i} ELSE Entries(n) = {}
    /\ \A f \in FormSet : taxed[f][n] = IF Filed(f, c) THEN 1 ELSE 0

(* An entry is live and was never reversed, or was reversed once, on request. *)
ReversedOnce(row) ==
    \/ row.status \in {"draft", "posted"} /\ row.reversals = 0
    \/ /\ row.status = "reversed" /\ row.reversals = 1
       /\ \E e \in sends : Subject[e] = row.run /\ Type[e] = "reversed"

RowsReversedOnce == \A i \in DOMAIN journal : ReversedOnce(journal[i])

OnceInv ==
    Single => /\ \A n \in Runs, c \in sends : Completions(n) = {c} => BookedOnce(n, c)
              /\ RowsReversedOnce

(* What is in a batch was sent. *)
LEMMA CurrentWasSent ==
    ASSUME QueueInv, NEW p \in Pollers, proc[p].pc \in Busy
    PROVE  Current(p) \in sends
<1>1. Queued /\ LocalsOK(p) /\ Taken(p) BY DEF QueueInv, EffectInv
<1>2. inbox[Current(p)] # "none" /\ Current(p) \in Events BY <1>1, CurrentIsFirst DEF Taken
<1> QED BY <1>1, <1>2 DEF Queued

(* The processor at work is the only one whose place matters. *)
LEMMA OnlyOneCounts ==
    ASSUME NEW p \in Pollers, \A q \in Pollers : q # p => proc[q].pc \notin Busy, NEW c
    PROVE  /\ Counted(c) <=> inbox[c] = "processed" \/ (proc[p].pc = "processed" /\ Current(p) = c)
           /\ Counting(c) = IF proc[p].pc \in {"tax_read", "tax_write"} /\ Current(p) = c
                            THEN {p} ELSE {}
<1>1. \A q \in Pollers : q # p => proc[q].pc \notin {"tax_read", "tax_write", "processed"}
  BY DEF Busy
<1>2. Counted(c) <=> inbox[c] = "processed" \/ (proc[p].pc = "processed" /\ Current(p) = c)
  BY <1>1 DEF Counted
<1>3. \A q : q \in Counting(c) <=> q = p /\ proc[p].pc \in {"tax_read", "tax_write"} /\ Current(p) = c
  BY <1>1 DEF Counting
<1> QED BY <1>2, <1>3

(* The steps of the event that books the run. *)
LEMMA BookingCounts ==
    ASSUME QueueInv, SingleInv, Single, Single', ~Fault, NEW p \in Pollers, Handles(p),
           \A q \in Pollers : q # p => proc'[q] = proc[q] /\ proc[q].pc \notin Busy,
           NEW n \in Runs, NEW c \in Events, Current(p) = c,
           Type[c] = "completed", Subject[c] = n, BookedOnce(n, c)
    PROVE  BookedOnce(n, c)'
<1>1. TypeOK /\ LocalsOK(p) /\ Fresh(p) BY DEF QueueInv, EffectInv, SingleInv
<1>2. /\ inbox' = inbox /\ Current(p)' = c /\ inbox[c] # "processed"
      /\ proc[p].pc \in Busy /\ proc[p].pc # "processed"
  <2>1. inbox' = inbox /\ Current(p)' = c /\ proc[p].pc \in Busy BY <1>1, HandlingStays
  <2>2. inbox[c] # "processed" BY <1>1, <2>1, CurrentIsFirst DEF Fresh
  <2> QED BY <2>1, <2>2 DEF Handles, Dispatch, Book, TaxRead, TaxWrite, Find, PostDraft, ReverseRead,
                            Reverse, Fails
<1>3. \A q \in Pollers : q # p => proc[q].pc \notin Busy /\ proc'[q].pc \notin Busy OBVIOUS
<1>4. /\ ~Counted(c)
      /\ Counting(c) = IF proc[p].pc \in {"tax_read", "tax_write"} THEN {p} ELSE {}
  BY <1>2, <1>3, OnlyOneCounts
<1>5. /\ Counted(c)' <=> proc'[p].pc = "processed"
      /\ Counting(c)' = IF proc'[p].pc \in {"tax_read", "tax_write"} THEN {p} ELSE {}
  BY <1>2, <1>3 DEF Counted, Counting, Busy
<1>6. /\ \A f : Filed(f, c) <=>
           f = "1601C" /\ proc[p].pc \in {"tax_read", "tax_write"} /\ proc[p].forms # Forms
      /\ \A f : Filed(f, c)' <=>
           /\ n \in Philippine
           /\ \/ proc'[p].pc = "processed"
              \/ f = "1601C" /\ proc'[p].pc \in {"tax_read", "tax_write"} /\ proc'[p].forms # Forms
  <2>1. \A f : Filed(f, c) <=> f = "1601C" /\ p \in Counting(c) /\ proc[p].forms # Forms
    BY <1>1, <1>4 DEF Filed, LocalsOK
  <2>2. \A f : Filed(f, c)' <=>
           /\ n \in Philippine
           /\ \/ Counted(c)'
              \/ f = "1601C" /\ p \in Counting(c)' /\ proc'[p].forms # Forms
    BY <1>5 DEF Filed
  <2>3. /\ p \in Counting(c) <=> proc[p].pc \in {"tax_read", "tax_write"}
        /\ p \in Counting(c)' <=> proc'[p].pc \in {"tax_read", "tax_write"}
    BY <1>4, <1>5
  <2> QED BY <1>5, <2>1, <2>2, <2>3
<1>7. CASE Dispatch(p)
  <2>1. proc[p].pc = "event" /\ proc'[p].pc = "book" /\ UNCHANGED <<journal, taxed>>
    BY <1>1, <1>7 DEF Dispatch, Jump, Goto, TypeOK
  <2> QED BY <1>4, <1>5, <1>6, <2>1 DEF BookedOnce, Entries
<1>8. CASE Book(p)
  <2>1. /\ proc[p].pc = "book" /\ taxed' = taxed /\ journal' = Append(journal, Booking(n))
        /\ IF n \in Philippine THEN proc'[p].pc = "tax_read" /\ proc'[p].forms = Forms
           ELSE proc'[p].pc = "processed"
    BY <1>1, <1>8 DEF Book, Jump, Goto, TypeOK
  <2>2. Entries(n) = {} BY <1>4, <2>1 DEF BookedOnce
  <2>3. PICK j \in Seq(Entry) : j = journal /\ Len(j) \in Nat BY <1>1 DEF TypeOK
  <2>4. /\ DOMAIN journal' = DOMAIN journal \cup {Len(j) + 1} /\ journal'[Len(j) + 1] = Booking(n)
        /\ \A i \in DOMAIN journal : journal'[i] = journal[i] /\ i # Len(j) + 1
    BY <2>1, <2>3 DEF Booking, Entry
  <2>5. Entries(n)' = {Len(j) + 1} BY <2>2, <2>4 DEF Entries, Booking
  <2> QED BY <1>4, <1>5, <1>6, <2>1, <2>5 DEF BookedOnce
<1>9. CASE TaxRead(p)
  <2>1. /\ proc[p].pc = "tax_read" /\ proc'[p].pc = "tax_write" /\ proc'[p].forms = proc[p].forms
        /\ UNCHANGED <<journal, taxed>> /\ n \in Philippine
    BY <1>1, <1>9 DEF TaxRead, LocalsOK, Goto, TypeOK
  <2> QED BY <1>4, <1>5, <1>6, <2>1 DEF BookedOnce, Entries
<1>10. CASE TaxWrite(p)
  <2>1. /\ proc[p].pc = "tax_write" /\ proc[p].forms \in {Forms, <<"2316">>}
        /\ proc[p].prev = taxed[Head(proc[p].forms)] /\ journal' = journal /\ n \in Philippine
        /\ taxed' = [taxed EXCEPT ![Head(proc[p].forms)] = Added(proc[p].prev, n)]
    BY <1>1, <1>10 DEF TaxWrite, LocalsOK, Fresh, Busy
  <2>2. \E i : Entries(n) = {i} BY <1>4, <2>1 DEF BookedOnce
  <2>3. taxed \in [FormSet -> [Runs -> Nat]] BY <1>1 DEF TypeOK
  <2>4. CASE proc[p].forms = Forms
    <3>1. /\ proc'[p].pc = "tax_read" /\ proc'[p].forms = <<"2316">> /\ proc'[p].forms # Forms
          /\ Head(proc[p].forms) = "1601C"
      BY <1>1, <1>10, <2>4 DEF TaxWrite, Goto, TypeOK, Forms
    <3>2. taxed["1601C"][n] = 0 /\ taxed["2316"][n] = 0 BY <1>6, <2>4 DEF BookedOnce, FormSet
    <3>3. taxed'["1601C"][n] = 1 /\ taxed'["2316"][n] = 0
      BY <2>1, <2>3, <3>1, <3>2 DEF Added, FormSet
    <3> QED BY <1>5, <1>6, <2>1, <2>2, <3>1, <3>3 DEF BookedOnce, Entries, FormSet
  <2>5. CASE proc[p].forms = <<"2316">>
    <3>1. proc'[p].pc = "processed" /\ proc[p].forms # Forms /\ Head(proc[p].forms) = "2316"
      BY <1>1, <1>10, <2>5 DEF TaxWrite, Jump, Goto, TypeOK, Forms
    <3>2. taxed["1601C"][n] = 1 /\ taxed["2316"][n] = 0 BY <1>6, <2>1, <3>1 DEF BookedOnce, FormSet
    <3>3. taxed'["1601C"][n] = 1 /\ taxed'["2316"][n] = 1
      BY <2>1, <2>3, <3>1, <3>2 DEF Added, FormSet
    <3> QED BY <1>5, <1>6, <2>1, <2>2, <3>1, <3>3 DEF BookedOnce, Entries, FormSet
  <2> QED BY <2>1, <2>4, <2>5
<1> QED BY <1>1, <1>7, <1>8, <1>9, <1>10
       DEF Handles, LocalsOK, Find, PostDraft, ReverseRead, Reverse, Fails

(* The steps of any other event leave the run's place and its drafts alone. *)
LEMMA OthersDoNotCount ==
    ASSUME QueueInv, SingleInv, Single, Single', ~Fault, NEW p \in Pollers, Handles(p),
           \A q \in Pollers : q # p => proc'[q] = proc[q] /\ proc[q].pc \notin Busy,
           NEW n \in Runs, NEW c \in Events, Current(p) # c,
           Type[Current(p)] = "completed" => Subject[Current(p)] # n, BookedOnce(n, c)
    PROVE  BookedOnce(n, c)'
<1>1. TypeOK /\ LocalsOK(p) /\ Fresh(p) BY DEF QueueInv, EffectInv, SingleInv
<1>2. inbox' = inbox /\ Current(p)' # c /\ proc[p].pc \in Busy BY <1>1, HandlingStays
<1>3. \A q \in Pollers : q # p => proc[q].pc \notin Busy /\ proc'[q].pc \notin Busy OBVIOUS
<1>4. (Counted(c)' <=> Counted(c)) /\ Counting(c) = {} /\ Counting(c)' = {}
  BY <1>2, <1>3 DEF Counted, Counting, Busy
<1>5. \A f : Filed(f, c)' <=> Filed(f, c) BY <1>4 DEF Filed
<1>6. Entries(n)' = Entries(n)
  <2>1. CASE journal' = journal BY <2>1 DEF Entries
  <2>2. CASE Book(p)
    <3>0. Current(p) \in Events /\ Type[Current(p)] = "completed"
      BY <1>1, <1>2, <2>2, CurrentIsFirst DEF Book, LocalsOK
    <3>1. PICK m \in Runs : m # n /\ journal' = Append(journal, Booking(m))
      BY <2>2, <3>0, HRInboxAssumption DEF Book
    <3>2. PICK j \in Seq(Entry) : j = journal /\ Len(j) \in Nat BY <1>1 DEF TypeOK
    <3>3. /\ DOMAIN journal' = DOMAIN journal \cup {Len(j) + 1} /\ journal'[Len(j) + 1] = Booking(m)
          /\ \A i \in DOMAIN journal : journal'[i] = journal[i] /\ i # Len(j) + 1
      BY <3>1, <3>2 DEF Booking, Entry
    <3> QED BY <3>1, <3>3 DEF Entries, Booking
  <2>3. CASE PostDraft(p) \/ Reverse(p)
    <3>1. PICK k \in DOMAIN journal : k = proc[p].entry
      BY <1>1, <2>3 DEF PostDraft, Reverse, LocalsOK, Entries
    <3>2. journal \in Seq(Entry) /\ journal[k] \in Entry BY <1>1, <3>1 DEF TypeOK
    <3>3. /\ PostedRow(journal[k]).run = journal[k].run
          /\ Undone(journal[k]).run = journal[k].run
      BY <3>2 DEF PostedRow, Undone, Entry
    <3>4. \/ journal' = journal
          \/ journal' = [journal EXCEPT ![k] = PostedRow(journal[k])]
          \/ journal' = [journal EXCEPT ![k] = Undone(journal[k])]
      BY <2>3, <3>1 DEF PostDraft, Reverse
    <3>5. /\ DOMAIN journal' = DOMAIN journal
          /\ \A i \in DOMAIN journal : journal'[i].run = journal[i].run
      BY <3>2, <3>3, <3>4
    <3> QED BY <3>5 DEF Entries
  <2> QED BY <2>1, <2>2, <2>3 DEF Handles, Dispatch, TaxRead, TaxWrite, Find, ReverseRead, Fails
<1>7. \A f \in FormSet : taxed'[f][n] = taxed[f][n]
  <2>1. CASE taxed' = taxed BY <2>1
  <2>2. CASE TaxWrite(p)
    <3>1. /\ proc[p].pc = "tax_write" /\ Head(proc[p].forms) \in FormSet
          /\ Subject[Current(p)] # n /\ proc[p].prev = taxed[Head(proc[p].forms)]
      BY <1>1, <1>2, <2>2 DEF TaxWrite, LocalsOK, Fresh, Forms, FormSet
    <3>2. PICK m : \E g \in FormSet : m # n /\ taxed' = [taxed EXCEPT ![g] = Added(taxed[g], m)]
      BY <2>2, <3>1 DEF TaxWrite
    <3>3. taxed \in [FormSet -> [Runs -> Nat]] BY <1>1 DEF TypeOK
    <3> QED BY <3>2, <3>3 DEF Added
  <2> QED BY <2>1, <2>2 DEF Handles, Dispatch, Book, TaxRead, Find, PostDraft, ReverseRead, Reverse, Fails
<1> QED BY <1>4, <1>5, <1>6, <1>7 DEF BookedOnce

(* Every step keeps that the run is booked once. *)
LEMMA BookedOnceKept ==
    ASSUME QueueInv, SingleInv, Single', Next, NEW n \in Runs, NEW c \in sends,
           Completions(n) = {c}, BookedOnce(n, c)
    PROVE  BookedOnce(n, c)'
<1>1. TypeOK /\ c \in Events /\ \A p \in Pollers : LocalsOK(p) /\ Taken(p)
  BY DEF QueueInv, EffectInv, TypeOK
<1>2. Single /\ ~Fault /\ running' = running BY SingleStays
<1>3. Type[c] = "completed" /\ Subject[c] = n BY DEF Completions
<1>4. CASE \E e \in sends : Receive(e) \/ ReceiveUnanswered(e) \/ Replay(e)
  <2>1. UNCHANGED <<proc, taxed, journal>> BY <1>4 DEF Receive, ReceiveUnanswered, Replay
  <2>2. inbox'[c] = "processed" <=> inbox[c] = "processed"
    BY <1>1, <1>4 DEF Receive, ReceiveUnanswered, Replay, TypeOK
  <2> QED BY <2>1, <2>2 DEF BookedOnce, Filed, Counted, Counting, Entries, Current
<1>5. ASSUME NEW p \in Pollers, PollerStep(p) \/ Fails(p) \/ Crash(p) PROVE  BookedOnce(n, c)'
  <2>1. p \in running \/ proc[p].pc \in Busy
    BY <1>1, <1>2, <1>5, StepIsOneOf, HandlingStays DEF Poll, MarkProcessed, MarkFailed, Crash, Busy
  <2>2. \A q \in Pollers : q # p => proc'[q] = proc[q] /\ proc[q].pc \notin Busy
    BY <1>1, <1>2, <1>5, <2>1, StepIsOneOf, OneAtWork
  <2>3. CASE Handles(p)
    <3>1. CASE Current(p) = c BY <1>1, <1>2, <1>3, <2>2, <2>3, <3>1, BookingCounts
    <3>2. CASE Current(p) # c
      <4>1. Current(p) \in sends BY <1>1, <2>3, CurrentWasSent, HandlingStays
      <4>2. Type[Current(p)] = "completed" => Subject[Current(p)] # n BY <3>2, <4>1 DEF Completions
      <4> QED BY <1>1, <1>2, <2>2, <2>3, <3>2, <4>2, OthersDoNotCount
    <3> QED BY <3>1, <3>2
  <2>4. ASSUME UNCHANGED <<journal, taxed>>, Counted(c)' <=> Counted(c),
               proc[p].pc \notin {"tax_read", "tax_write"},
               proc'[p].pc \notin {"tax_read", "tax_write"} PROVE  BookedOnce(n, c)'
    <3>1. Counting(c) = {} /\ Counting(c)' = {} BY <2>2, <2>4 DEF Counting, Busy
    <3>2. \A f : Filed(f, c)' <=> Filed(f, c) BY <2>4, <3>1 DEF Filed
    <3> QED BY <2>4, <3>1, <3>2 DEF BookedOnce, Entries
  <2>5. /\ Counted(c) <=> inbox[c] = "processed" \/ (proc[p].pc = "processed" /\ Current(p) = c)
        /\ Counted(c)' <=> inbox'[c] = "processed" \/ (proc'[p].pc = "processed" /\ Current(p)' = c)
    <3>1. \A q \in Pollers : q # p => proc[q].pc # "processed" /\ proc'[q].pc # "processed"
      BY <2>2 DEF Busy
    <3> QED BY <3>1 DEF Counted
  <2>6. CASE Poll(p) /\ UNCHANGED inbox
    <3>1. proc[p] = Idle /\ proc'[p] = [pc |-> "event", todo |-> Batch] /\ UNCHANGED <<journal, taxed>>
      BY <1>1, <2>6 DEF Poll, Goto, TypeOK
    <3>2. proc[p].pc = "idle" /\ proc'[p].pc = "event" BY <3>1 DEF Idle
    <3> QED BY <2>4, <2>5, <2>6, <3>1, <3>2
  <2>7. CASE MarkProcessed(p) \/ MarkFailed(p)
    <3>1. proc[p].pc \in Busy /\ NextEvent(p) /\ proc[p].pc \in {"processed", "failed"}
          /\ UNCHANGED <<journal, taxed>>
      BY <2>7 DEF MarkProcessed, MarkFailed, Record, Busy
    <3>2. proc'[p].pc \in {"idle", "event"} BY <1>1, <3>1, NextDropsHead DEF Idle
    <3>3. Counted(c)' <=> Counted(c)
      <4>1. CASE MarkProcessed(p)
        <5>1. /\ inbox' = [inbox EXCEPT ![Current(p)] = "processed"] /\ proc[p].pc = "processed"
          BY <1>2, <4>1 DEF MarkProcessed, Record
        <5> QED BY <1>1, <2>5, <3>2, <5>1 DEF TypeOK
      <4>2. CASE MarkFailed(p)
        <5>1. /\ inbox' = [inbox EXCEPT ![Current(p)] = "failed"] /\ proc[p].pc = "failed"
          BY <1>2, <4>2 DEF MarkFailed, Record
        <5>2. Current(p) # c BY <1>2, <1>3, <3>1, <5>1 DEF SingleInv, Fresh
        <5> QED BY <1>1, <2>5, <3>2, <5>1, <5>2 DEF TypeOK
      <4> QED BY <2>7, <4>1, <4>2
    <3> QED BY <2>4, <3>1, <3>2, <3>3
  <2> QED BY <1>1, <1>2, <1>5, <2>3, <2>6, <2>7, StepIsOneOf DEF Crash
<1> QED BY <1>4, <1>5 DEF Next

(* And that an entry is reversed at most once. *)
LEMMA ReversedOnceKept ==
    ASSUME QueueInv, SingleInv, Single', Next, RowsReversedOnce
    PROVE  RowsReversedOnce'
<1> SUFFICES \A i \in DOMAIN journal' : ReversedOnce(journal'[i])
  <2>1. sends' = sends BY SingleStays
  <2> QED BY <2>1 DEF RowsReversedOnce, ReversedOnce
<1>1. TypeOK /\ \A p \in Pollers : LocalsOK(p) BY DEF QueueInv, EffectInv
<1>2. Single /\ ~Fault /\ sends' = sends BY SingleStays
<1>3. CASE journal' = journal BY <1>3 DEF RowsReversedOnce
<1>4. PICK j \in Seq(Entry) : j = journal /\ Len(j) \in Nat BY <1>1 DEF TypeOK
<1>5. ASSUME NEW p \in Pollers, Book(p) PROVE  \A i \in DOMAIN journal' : ReversedOnce(journal'[i])
  <2>1. PICK m : journal' = Append(journal, Booking(m)) BY <1>5 DEF Book
  <2>2. /\ DOMAIN journal' = DOMAIN journal \cup {Len(j) + 1} /\ journal'[Len(j) + 1] = Booking(m)
        /\ \A i \in DOMAIN journal : journal'[i] = journal[i]
    BY <1>4, <2>1
  <2> QED BY <2>2 DEF RowsReversedOnce, ReversedOnce, Booking
<1>6. ASSUME NEW p \in Pollers, PostDraft(p) \/ Reverse(p)
      PROVE  \A i \in DOMAIN journal' : ReversedOnce(journal'[i])
  <2>1. PICK k \in DOMAIN journal : k = proc[p].entry /\ journal[k].run = Subject[Current(p)]
    BY <1>1, <1>6 DEF PostDraft, Reverse, LocalsOK, Entries
  <2>2. journal[k] \in Entry /\ ReversedOnce(journal[k]) BY <1>4, <2>1 DEF RowsReversedOnce
  <2>3. proc[p].pc \in Busy /\ Type[Current(p)] = "reversed" /\ Current(p) \in sends
    <3>1. proc[p].pc \in Busy /\ Type[Current(p)] = "reversed"
      BY <1>1, <1>6 DEF PostDraft, Reverse, LocalsOK, Busy
    <3> QED BY <3>1, CurrentWasSent
  <2>4. CASE PostDraft(p) /\ journal' # journal
    <3>1. journal[k].status = "draft" /\ journal' = [journal EXCEPT ![k] = PostedRow(journal[k])]
      BY <2>1, <2>4 DEF PostDraft
    <3>2. ReversedOnce(PostedRow(journal[k])) BY <2>2, <3>1 DEF ReversedOnce, PostedRow, Entry
    <3> QED BY <1>4, <3>1, <3>2 DEF RowsReversedOnce
  <2>5. CASE Reverse(p)
    <3>1. journal' = [journal EXCEPT ![k] = Undone(journal[k])] BY <2>1, <2>5 DEF Reverse
    <3>2. journal[k].status = "posted" BY <1>2, <2>1, <2>3, <2>5 DEF SingleInv, Fresh, Reverse
    <3>3. journal[k].reversals = 0 BY <2>2, <3>2 DEF ReversedOnce
    <3>4. ReversedOnce(Undone(journal[k]))
      <4>1. /\ Undone(journal[k]).status = "reversed" /\ Undone(journal[k]).run = journal[k].run
            /\ Undone(journal[k]).reversals = 1
        BY <2>2, <3>3 DEF Undone, Entry
      <4> QED BY <2>1, <2>3, <4>1 DEF ReversedOnce
    <3> QED BY <1>4, <3>1, <3>4 DEF RowsReversedOnce
  <2> QED BY <1>3, <1>6, <2>4, <2>5
<1> QED BY <1>3, <1>5, <1>6
       DEF Next, PollerStep, Receive, ReceiveUnanswered, Replay, Poll, Dispatch,
           TaxRead, TaxWrite, Find, ReverseRead, MarkProcessed, MarkFailed, Record, Fails, Crash

(* All together, initially and after every step. *)
LEMMA OnceInvInit == Init => OnceInv
<1> SUFFICES ASSUME Init PROVE OnceInv OBVIOUS
<1>1. /\ \A n : Entries(n) = {}
      /\ \A f \in FormSet, n \in Runs : taxed[f][n] = 0
      /\ DOMAIN journal = {}
  BY DEF Init, Entries
<1>2. \A c \in sends : ~Counted(c) /\ Counting(c) = {}
  BY HRInboxAssumption DEF Init, Idle, Counted, Counting
<1> QED BY <1>1, <1>2 DEF OnceInv, BookedOnce, RowsReversedOnce, Filed

(* Every step keeps it. *)
LEMMA OnceInvKept ==
    ASSUME QueueInv, SingleInv, OnceInv, [Next]_vars
    PROVE  OnceInv'
<1>1. CASE UNCHANGED vars
  <2>1. (Single' <=> Single) /\ sends' = sends BY <1>1 DEF vars, Single
  <2>2. \A n, c : Completions(n)' = Completions(n) /\ (BookedOnce(n, c)' <=> BookedOnce(n, c))
    BY <1>1 DEF vars, BookedOnce, Filed, Counted, Counting, Entries, Current, Completions
  <2>3. RowsReversedOnce' <=> RowsReversedOnce BY <1>1 DEF vars, RowsReversedOnce, ReversedOnce
  <2> QED BY <2>1, <2>2, <2>3 DEF OnceInv
<1>2. CASE Next
  <2> SUFFICES ASSUME Single' PROVE OnceInv' BY DEF OnceInv
  <2>1. Single /\ sends' = sends BY <1>2, SingleStays
  <2>2. ASSUME NEW n \in Runs, NEW c \in sends, Completions(n) = {c} PROVE  BookedOnce(n, c)'
    BY <1>2, <2>1, <2>2, BookedOnceKept DEF OnceInv
  <2>3. \A n : Completions(n)' = Completions(n) BY <2>1 DEF Completions
  <2>4. RowsReversedOnce' BY <1>2, <2>1, ReversedOnceKept DEF OnceInv
  <2> QED BY <2>1, <2>2, <2>3, <2>4 DEF OnceInv
<1> QED BY <1>1, <1>2

(* When all is settled the event is counted, and so are the reversals. *)
LEMMA OnceInvCounts ==
    ASSUME QueueInv, OnceInv
    PROVE  ExactlyOnce
<1> SUFFICES ASSUME NEW n \in Runs, Single, Settled(n), NEW c \in sends, Completions(n) = {c}
             PROVE  /\ Cardinality(Entries(n)) = 1
                    /\ \A f \in FormSet : taxed[f][n] = IF n \in Philippine THEN 1 ELSE 0
                    /\ LiveEntries(n) = {} <=> \E e \in sends : Subject[e] = n /\ Type[e] = "reversed"
                    /\ \A i \in Entries(n) : journal[i].reversals <= 1
  BY DEF ExactlyOnce, Single
<1>1. BookedOnce(n, c) /\ \A i \in DOMAIN journal : ReversedOnce(journal[i])
  BY DEF OnceInv, RowsReversedOnce
<1>2. Counted(c) BY DEF Settled, Counted, Completions
<1>3. PICK i : Entries(n) = {i} BY <1>1, <1>2 DEF BookedOnce
<1>4. i \in DOMAIN journal /\ journal[i].run = n /\ journal[i] \in Entry /\ ReversedOnce(journal[i])
  BY <1>1, <1>3 DEF Entries, QueueInv, EffectInv, TypeOK
<1>5. \A f \in FormSet : taxed[f][n] = IF n \in Philippine THEN 1 ELSE 0
  <2>1. \A f \in FormSet : Filed(f, c) <=> n \in Philippine BY <1>2 DEF Filed, Completions
  <2> QED BY <1>1, <2>1 DEF BookedOnce
<1>6. LiveEntries(n) = {} <=> journal[i].status = "reversed"
  <2>1. LiveEntries(n) = {k \in Entries(n) : journal[k].status \in {"draft", "posted"}}
    BY DEF LiveEntries, Entries
  <2> QED BY <1>3, <1>4, <2>1 DEF Entry
<1>7. journal[i].status = "reversed" => \E e \in sends : Subject[e] = n /\ Type[e] = "reversed"
  BY <1>4 DEF ReversedOnce
<1>8. ASSUME NEW e \in sends, Subject[e] = n, Type[e] = "reversed"
      PROVE  journal[i].status = "reversed"
  <2>1. e \in Events /\ inbox[e] = "processed" BY <1>8 DEF Settled, QueueInv, EffectInv, TypeOK
  <2>2. HasEffect(e) BY <2>1 DEF QueueInv, EffectInv
  <2>3. journal[i].reversals > 0 BY <1>3, <1>8, <2>2 DEF HasEffect
  <2> QED BY <1>4, <2>3 DEF ReversedOnce
<1>9. journal[i].reversals <= 1 BY <1>4 DEF ReversedOnce
<1> QED BY <1>3, <1>5, <1>6, <1>7, <1>8, <1>9, FS_Singleton

(* With one processor and no fault a run is in the journal once, once in each
   draft if it is Philippine, and undone when it was reversed, whatever is
   delivered twice. *)
THEOREM RunsAreBookedOnce == Spec => []ExactlyOnce
<1> DEFINE Inv == QueueInv /\ SingleInv /\ OrderInv /\ OnceInv
<1>1. Init => Inv BY QueueInvInit, OrderInvInit, OnceInvInit
<1>2. Inv /\ [Next]_vars => Inv'
  <2>1. QueueInv /\ [Next]_vars => QueueInv' BY QueueInvKept
  <2>2. QueueInv /\ QueueInv' /\ SingleInv /\ OrderInv /\ [Next]_vars => SingleInv' /\ OrderInv'
    BY OrderInvKept
  <2>3. QueueInv /\ SingleInv /\ OnceInv /\ [Next]_vars => OnceInv' BY OnceInvKept
  <2> QED BY <2>1, <2>2, <2>3
<1>3. Inv => ExactlyOnce BY OnceInvCounts
<1> QED BY <1>1, <1>2, <1>3, PTL DEF Spec
=============================================================================
