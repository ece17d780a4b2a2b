---------------------------- MODULE PaymentsProofs ----------------------------
(***************************************************************************)
(* Proofs about payments, for any number of clients, documents and cash    *)
(* transactions: what documents are marked as paid is what payments        *)
(* allocate to them, and no payment is spent twice.                        *)
(***************************************************************************)
EXTENDS FinanceReports, QuantitiesProofs

\* A call in progress, and the quantities of it.
Calls ==
  [op : {"none", "create", "update", "delete"},
   pc : {"idle", "read", "revert", "drop", "dropping", "row", "unpaid", "pay", "commit"},
   id : Transactions \cup {NULL}, row : Requests \cup {NULL},
   plan : [Payable -> Int], todo : Seq(Payable), delta : [Payable -> Int],
   seen : SUBSET AllocationId, dropped : SUBSET AllocationId,
   added : [Payable -> Nat], holds : SUBSET (Payable \cup Transactions)]

TablesOK ==
  /\ DOMAIN documents \subseteq Documents /\ documents \in [DOMAIN documents -> DocumentRow]
  /\ DOMAIN CashTransaction \subseteq Transactions
  /\ CashTransaction \in [DOMAIN CashTransaction -> TransactionRow]
  /\ PaymentAllocation \in [Transactions -> [AllocationId -> Nat]]

\* Which statements the handler of each request gets to, and on which rows.
Routed(k) ==
  /\ k.op = "none" => k.pc = "idle" /\ k.id = NULL
  /\ k.op # "none" => k.pc # "idle" /\ k.id # NULL
  /\ k.op = "create" =>
       /\ k.id \notin DOMAIN CashTransaction /\ k.row # NULL
       /\ k.pc \in {"unpaid", "pay", "commit"}
  /\ k.op \in {"update", "delete"} => k.id \in DOMAIN CashTransaction
  /\ k.op = "update" => ~CashTransaction[k.id].isDeleted /\ k.row # NULL
  /\ k.op = "delete" => k.pc \notin {"unpaid", "pay"}

\* A list of documents, each once.
Listed(s, d) == \E i \in DOMAIN s : s[i] = d
Distinct(s) == \A i, j \in DOMAIN s : i < j => s[i] # s[j]

Planned(k) ==
  /\ k.pc \in {"revert", "pay"} =>
       k.todo # << >> /\ Distinct(k.todo)
  /\ k.pc = "revert" => \A d \in Payable : k.plan[d] = 0 - AllocatedTo(k.id, d)
  /\ k.pc = "pay" => \A d \in Payable :
                       k.plan[d] \in Nat /\ k.added[d] = IF Listed(k.todo, d) THEN 0 ELSE k.plan[d]

\* What the call has taken back of the allocations to document d.
Reverted(k, d) ==
  IF k.pc = "read" \/ (k.pc = "revert" /\ Listed(k.todo, d)) THEN 0 ELSE AllocatedTo(k.id, d)

\* What the call adds to paidAmount of the documents there are is what it allocates
\* without what it takes back.
Balanced(k) ==
  k.op # "none" =>
    \A d \in Payable \cap DOMAIN documents : k.delta[d] = k.added[d] - Reverted(k, d)

\* The DELETE of the call is about all allocations of its transaction.
DropsAll(k) ==
  /\ k.pc = "dropping" => k.seen = RowsOf(k.id)
  /\ k.pc \in {"row", "unpaid", "pay", "commit"} => k.dropped = RowsOf(k.id)

\* A sum of quantities that fit the request.
Fits(q, row) ==
  /\ Total(q, Payable) <= row.amount
  /\ \A d \in Payable : q[d] > 0 => (d \in Realizations <=> row.type = "INCOME")

WithinAmount(k) ==
  /\ k.op = "delete" \/ k.pc \notin {"pay", "commit"} => \A d \in Payable : k.added[d] = 0
  /\ k.pc = "pay" => Fits(k.plan, k.row)
  /\ k.pc = "commit" /\ k.op # "delete" => Fits(k.added, k.row)

CallOK(k) == Routed(k) /\ Planned(k) /\ Balanced(k) /\ DropsAll(k) /\ WithinAmount(k)

\* No two calls are about one transaction.
Exclusive ==
  \A c, e \in Clients : c # e /\ call[c].id = call[e].id => call[c].id = NULL

\* The inductive invariant.
Inv ==
  /\ TablesOK
  /\ call \in [Clients -> Calls]
  /\ Exclusive
  /\ \A c \in Clients : CallOK(call[c])
  /\ PaidIsAllocated
  /\ SpentOnce

-----------------------------------------------------------------------------
(* Sums over allocations.                                                  *)

\* The sets that sums go over are finite.
LEMMA Finite ==
  /\ IsFiniteSet(Clients) /\ IsFiniteSet(Transactions) /\ IsFiniteSet(Payable)
  /\ IsFiniteSet(AllocationId)
  /\ \A D \in SUBSET Payable : IsFiniteSet(D)
<1>1. IsFiniteSet(Payable)
  BY FiniteAssumption, FS_Union DEF Payable
<1>2. IsFiniteSet(AllocationId)
  BY <1>1, FiniteAssumption, FS_Product DEF AllocationId
<1> QED  BY <1>1, <1>2, FiniteAssumption, FS_Subset

\* A transaction allocates a quantity to a document, nothing when it has no rows.
LEMMA AllocatedNat ==
  ASSUME TablesOK, NEW t \in Transactions, NEW d \in Payable
  PROVE  /\ AllocatedTo(t, d) \in Nat
         /\ RowsOf(t) = {} => AllocatedTo(t, d) = 0
<1>1. PICK f : f = [c \in Clients |-> PaymentAllocation[t][<<c, d>>]]
  OBVIOUS
<1>2. \A c \in Clients : <<c, d>> \in AllocationId
  BY DEF AllocationId
<1>3. \A a \in AllocationId : PaymentAllocation[t][a] \in Nat
  BY DEF TablesOK
<1>4. \A c \in Clients : f[c] \in Nat
  BY <1>1, <1>2, <1>3
<1>5. Total(f, Clients) \in Nat
  BY <1>4, Finite, TotalNat
<1>6. ASSUME RowsOf(t) = {} PROVE Total(f, Clients) = 0
  <2>1. \A c \in Clients : f[c] = 0
    BY <1>1, <1>2, <1>3, <1>6 DEF RowsOf
  <2> QED  BY <2>1, TotalZero
<1> QED  BY <1>1, <1>5, <1>6 DEF AllocatedTo

\* What rows f allocate to document d.
PaysTo(f, d) == Total([e \in Clients |-> f[<<e, d>>]], Clients)

\* The rows that one client inserted are what it allocated.
LEMMA RowsOfOneClient ==
  ASSUME NEW f, NEW q, NEW c \in Clients, \A d \in Payable : q[d] \in Nat,
         \A e \in Clients : \A d \in Payable : f[<<e, d>>] = IF e = c THEN q[d] ELSE 0
  PROVE  /\ \A d \in Payable : PaysTo(f, d) = q[d]
         /\ Total(f, AllocationId) = Total(q, Payable)
<1>1. ASSUME NEW d \in Payable PROVE PaysTo(f, d) = q[d]
  <2>1. PICK g : g = [e \in Clients |-> f[<<e, d>>]]
    OBVIOUS
  <2>2. \A e \in Clients : g[e] = IF e = c THEN q[d] ELSE 0
    BY <2>1
  <2>3. \A e \in Clients : g[e] \in Nat
    BY <2>2
  <2>4. Total(g, Clients) = Total(g, Clients \ {c}) + g[c]
    BY <2>3, Finite, TotalRemove
  <2>5. \A e \in Clients \ {c} : g[e] = 0
    BY <2>2
  <2>6. Total(g, Clients \ {c}) = 0
    BY <2>5, TotalZero
  <2> QED  BY <2>1, <2>2, <2>4, <2>6 DEF PaysTo
<1>2. Total(f, AllocationId) = Total(q, Payable)
  <2>1. PICK M, R : M = {c} \X Payable /\ R = (Clients \ {c}) \X Payable
    OBVIOUS
  <2>2. M \cup R = AllocationId /\ M \cap R = {}
    BY <2>1 DEF AllocationId
  <2>3. IsFiniteSet(M) /\ IsFiniteSet(R)
    BY <2>2, Finite, FS_Subset
  <2>4. \A a \in AllocationId : f[a] \in Nat
    BY DEF AllocationId
  <2>5. Total(f, M \cup R) = Total(f, M) + Total(f, R)
    BY <2>2, <2>3, <2>4, TotalUnion
  <2>6. \A a \in R : f[a] = 0
    BY <2>1
  <2>7. Total(f, R) = 0
    BY <2>6, TotalZero
  <2>8. PICK h : h = [d \in Payable |-> <<c, d>>]
    OBVIOUS
  <2>9. /\ h \in [Payable -> M] /\ \A x, y \in Payable : h[x] = h[y] => x = y
    BY <2>1, <2>8
  <2>10. \A z \in M : \E x \in Payable : h[x] = z
    BY <2>1, <2>8
  <2>11. \A x \in Payable : q[x] \in Nat /\ f[h[x]] = q[x]
    BY <2>8
  <2>12. Total(f, M) = Total(q, Payable)
    BY <2>9, <2>10, <2>11, Finite, TotalMoved
  <2>13. Total(q, Payable) \in Nat
    BY Finite, TotalNat
  <2> QED  BY <2>2, <2>5, <2>7, <2>12, <2>13
<1> QED  BY <1>1, <1>2

\* Documents that are listed as often as there are of them are all listed.
LEMMA OrderingsListAll ==
  ASSUME NEW D \in SUBSET Payable, NEW byDate, NEW s \in Orderings(D, byDate)
  PROVE  /\ s \in Seq(Payable)
         /\ \A d \in Payable : Listed(s, d) <=> d \in D
         /\ Distinct(s)
         /\ D # {} => s # << >>
<1>1. PICK n \in Nat : n = Cardinality(D) /\ IsFiniteSet(D)
  BY Finite, FS_CardinalityType
<1>2. s \in [1 .. n -> D] /\ \A i, j \in 1 .. n : i < j => s[i] # s[j]
  BY <1>1 DEF Orderings
<1>3. \A i, j \in 1 .. n : s[i] = s[j] => i = j
  <2> TAKE i, j \in 1 .. n
  <2>1. i < j \/ j < i \/ i = j
    BY <1>1
  <2> QED  BY <1>2, <2>1
<1>4. s \in Injection(1 .. n, D)
  BY <1>2, <1>3 DEF Injection, IsInjective
<1>5. Cardinality(1 .. n) = Cardinality(D)
  BY <1>1, FS_Interval
<1>6. s \in Surjection(1 .. n, D)
  BY <1>1, <1>4, <1>5, FS_Injection
<1>7. \A d \in D : \E i \in 1 .. n : s[i] = d
  BY <1>6 DEF Surjection
<1>8. s \in [1 .. n -> Payable]
  BY <1>2
<1>9. DOMAIN s = 1 .. n /\ s \in Seq(Payable)
  BY <1>1, <1>8
<1>10. D # {} => s # << >>
  BY <1>7, <1>9
<1> QED  BY <1>2, <1>7, <1>9, <1>10 DEF Listed, Distinct

-----------------------------------------------------------------------------
(* The statements that write nothing others can see.                       *)

\* A call in progress is about a transaction.
LEMMA CallFacts ==
  ASSUME Inv, NEW c \in Clients
  PROVE  /\ call[c] \in Calls /\ CallOK(call[c]) /\ TablesOK
         /\ call[c].pc # "idle" => call[c].id \in Transactions /\ call[c].id # NULL
         /\ call[c].pc # "idle" => call[c].op \in {"create", "update", "delete"}
BY DEF Inv, CallOK, Routed, Calls

\* What a call is about stays when its transaction does and documents are at most
\* deleted.
LEMMA CallOKStays ==
  ASSUME NEW e \in Clients, NEW j, j = call'[e], CallOK(j),
         j.id # NULL => /\ j.id \in DOMAIN CashTransaction <=> j.id \in DOMAIN CashTransaction'
                        /\ j.id \in DOMAIN CashTransaction =>
                             CashTransaction'[j.id] = CashTransaction[j.id]
                        /\ PaymentAllocation'[j.id] = PaymentAllocation[j.id],
         DOMAIN documents' \subseteq DOMAIN documents
  PROVE  CallOK(call[e])'
<1>1. Routed(call[e])'
  BY DEF CallOK, Routed
<1>2. Planned(call[e])'
  BY DEF CallOK, Routed, Planned, AllocatedTo
<1>3. Balanced(call[e])'
  BY DEF CallOK, Routed, Balanced, Reverted, AllocatedTo
<1>4. DropsAll(call[e])'
  BY DEF CallOK, Routed, DropsAll, RowsOf
<1>5. WithinAmount(call[e])'
  BY DEF CallOK, WithinAmount, Fits
<1> QED  BY <1>1, <1>2, <1>3, <1>4, <1>5 DEF CallOK

\* A call that goes on with its transaction.
LEMMA CallMoves ==
  ASSUME Inv, NEW c \in Clients, NEW k \in Calls, k.id \in {call[c].id, NULL}, CallOK(k),
         call' = [call EXCEPT ![c] = k], UNCHANGED tables
  PROVE  Inv'
<1>1. UNCHANGED <<documents, CashTransaction, PaymentAllocation>>
  BY DEF tables
<1>2. call \in [Clients -> Calls]
  BY DEF Inv
<1>3. call' \in [Clients -> Calls] /\ call'[c] = k /\ \A e \in Clients \ {c} : call'[e] = call[e]
  BY <1>2
<1>4. \A e \in Clients : CallOK(call[e])'
  <2> TAKE e \in Clients
  <2>1. PICK j : j = call'[e]
    OBVIOUS
  <2>2. CallOK(j)
    BY <1>3, <2>1 DEF Inv
  <2> QED  BY <1>1, <2>1, <2>2, CallOKStays
<1>6. Exclusive'
  BY <1>3 DEF Inv, Exclusive
<1>7. TablesOK' /\ PaidIsAllocated' /\ SpentOnce'
  BY <1>1 DEF Inv, TablesOK, PaidIsAllocated, SpentOnce, AllocatedTo, RowsOf, Allocated
<1> QED  BY <1>3, <1>4, <1>6, <1>7 DEF Inv

\* No call.
LEMMA IdleIsCall ==
  /\ Idle \in Calls
  /\ Idle.op = "none" /\ Idle.pc = "idle" /\ Idle.id = NULL
  /\ \A d \in Payable : Idle.added[d] = 0 /\ Idle.delta[d] = 0
  /\ Idle.dropped = {}
  /\ CallOK(Idle)
<1>1. << >> \in Seq(Payable) /\ NoChange \in [Payable -> Nat] /\ NoChange \in [Payable -> Int]
      /\ \A d \in Payable : NoChange[d] = 0
  BY DEF NoChange
<1>2. /\ Idle.op = "none" /\ Idle.pc = "idle" /\ Idle.id = NULL /\ Idle.added = NoChange
      /\ Idle.dropped = {} /\ Idle.delta = NoChange
  BY DEF Idle
<1>3. Idle \in Calls
  BY <1>1 DEF Idle, Calls
<1>4. CallOK(Idle)
  BY <1>1, <1>2 DEF CallOK, Routed, Planned, Balanced, DropsAll, WithinAmount
<1> QED  BY <1>1, <1>2, <1>3, <1>4

\* ROLLBACK.
LEMMA FailKeeps ==
  ASSUME Inv, NEW c \in Clients, Fail(c)
  PROVE  Inv'
BY IdleIsCall, CallMoves DEF Fail

\* BEGIN.  With one call at a time per transaction nobody else is about it.
LEMMA BeginKeeps ==
  ASSUME Inv, OneCallPerTransaction, NEW c \in Clients, NEW t \in Transactions, NEW op, NEW pc,
         NEW row \in Requests \cup {NULL}, Begin(c, op, t, row, pc),
         \/ op = "create" /\ t \notin DOMAIN CashTransaction /\ pc \in {"unpaid", "commit"}
         \/ op \in {"update", "delete"} /\ t \in DOMAIN CashTransaction /\ pc = "read",
         op = "update" => ~CashTransaction[t].isDeleted,
         op \in {"create", "update"} => row # NULL /\ row.amount \in Nat
  PROVE  Inv'
<1>1. PICK k : k = [Idle EXCEPT !.op = op, !.pc = pc, !.id = t, !.row = row]
  OBVIOUS
<1>2. /\ k \in Calls /\ k.op = op /\ k.pc = pc /\ k.id = t /\ k.row = row
      /\ k.added = Idle.added /\ k.delta = Idle.delta /\ k.dropped = {}
  BY <1>1, IdleIsCall DEF Calls
<1>3. call' = [call EXCEPT ![c] = k] /\ UNCHANGED tables /\ \A e \in Clients : call[e].id # t
  BY <1>1 DEF Begin
<1>4. \A d \in Payable : k.added[d] = 0 /\ k.delta[d] = 0
  BY <1>2, IdleIsCall
<1>5. call[c].id = NULL /\ t # NULL
  BY <1>3, CallFacts DEF Begin, Inv, CallOK, Routed, Calls
<1>6. ASSUME op = "create"
      PROVE  RowsOf(t) = {} /\ \A d \in Payable : AllocatedTo(t, d) = 0
  <2>1. RowsOf(t) = {}
    BY <1>6 DEF Inv, SpentOnce
  <2> QED  BY <2>1, AllocatedNat DEF Inv
<1>7. Balanced(k)
  BY <1>2, <1>4, <1>6 DEF Balanced, Reverted
<1>8. DropsAll(k)
  BY <1>2, <1>6 DEF DropsAll
<1>9. WithinAmount(k)
  <2>1. Total(k.added, Payable) = 0
    BY <1>4, TotalZero
  <2> QED  BY <1>2, <1>4, <2>1 DEF WithinAmount, Fits
<1>10. Routed(k) /\ Planned(k)
  BY <1>2, <1>5 DEF Routed, Planned
<1>11. CallOK(k)
  BY <1>7, <1>8, <1>9, <1>10 DEF CallOK
<1>12. TablesOK' /\ PaidIsAllocated' /\ SpentOnce'
  BY <1>3 DEF tables, Inv, TablesOK, PaidIsAllocated, SpentOnce, AllocatedTo, RowsOf, Allocated
<1>13. call \in [Clients -> Calls] /\ UNCHANGED <<documents, CashTransaction, PaymentAllocation>>
  BY <1>3 DEF Inv, tables
<1>14. call' \in [Clients -> Calls] /\ call'[c] = k /\ \A e \in Clients \ {c} : call'[e] = call[e]
  BY <1>2, <1>3, <1>13
<1>16. \A e \in Clients : CallOK(call[e])'
  <2> TAKE e \in Clients
  <2>1. PICK j : j = call'[e]
    OBVIOUS
  <2>2. CallOK(j)
    BY <1>11, <1>14, <2>1 DEF Inv
  <2> QED  BY <1>13, <2>1, <2>2, CallOKStays
<1>17. Exclusive'
  BY <1>2, <1>3, <1>14 DEF Inv, Exclusive
<1> QED  BY <1>12, <1>14, <1>16, <1>17 DEF Inv

\* SELECT of the allocations to revert.
LEMMA ReadAllocationsKeeps ==
  ASSUME Inv, NEW c \in Clients, ReadAllocations(c)
  PROVE  Inv'
<1>1. PICK t, D : t = call[c].id /\ D = {d \in Payable : AllocatedTo(t, d) > 0}
  OBVIOUS
<1>2. PICK s \in Orderings(D, FALSE) :
        call' = [call EXCEPT ![c].pc = IF D = {} THEN "drop" ELSE "revert", ![c].todo = s,
                             ![c].plan = [d \in Payable |-> 0 - AllocatedTo(t, d)]]
  BY <1>1 DEF ReadAllocations
<1>3. /\ call[c].pc = "read" /\ t \in Transactions /\ UNCHANGED tables
      /\ call[c] \in Calls /\ CallOK(call[c]) /\ TablesOK
  BY <1>1, CallFacts DEF ReadAllocations
<1>4. /\ s \in Seq(Payable) /\ \A d \in Payable : AllocatedTo(t, d) > 0 <=> Listed(s, d)
      /\ Distinct(s) /\ (D # {} => s # << >>)
  <2>1. D \in SUBSET Payable /\ \A d \in Payable : d \in D <=> AllocatedTo(t, d) > 0
    BY <1>1
  <2>2. /\ s \in Seq(Payable) /\ \A d \in Payable : Listed(s, d) <=> d \in D
        /\ Distinct(s) /\ (D # {} => s # << >>)
    BY <2>1, OrderingsListAll
  <2> QED  BY <2>1, <2>2
<1>5. PICK plan \in [Payable -> Int] : plan = [d \in Payable |-> 0 - AllocatedTo(t, d)]
  <2>1. \A d \in Payable : 0 - AllocatedTo(t, d) \in Int
    BY <1>3, AllocatedNat
  <2> QED  BY <2>1
<1>6. PICK k : k = [call[c] EXCEPT !.pc = IF D = {} THEN "drop" ELSE "revert", !.todo = s,
                                   !.plan = plan]
  OBVIOUS
<1>7. call' = [call EXCEPT ![c] = k]
  BY <1>2, <1>5, <1>6 DEF Inv
<1>8. /\ k \in Calls /\ k.pc = (IF D = {} THEN "drop" ELSE "revert") /\ k.todo = s
      /\ k.plan = plan /\ k.op = call[c].op /\ k.id = t /\ k.row = call[c].row
      /\ k.added = call[c].added /\ k.delta = call[c].delta
  BY <1>1, <1>3, <1>4, <1>6 DEF Calls
<1>9. Routed(k) /\ DropsAll(k) /\ WithinAmount(k)
  BY <1>1, <1>3, <1>8 DEF CallOK, Routed, DropsAll, WithinAmount
<1>10. Planned(k)
  BY <1>4, <1>5, <1>8 DEF Planned
<1>11. Balanced(k)
  <2> SUFFICES ASSUME k.op # "none", NEW d \in Payable \cap DOMAIN documents
               PROVE  k.delta[d] = k.added[d] - Reverted(k, d)
    BY DEF Balanced
  <2>1. call[c].delta[d] = call[c].added[d] - 0 /\ call[c].added[d] = 0
    BY <1>3, <1>8 DEF CallOK, Balanced, Reverted, WithinAmount
  <2>2. AllocatedTo(t, d) \in Nat
    BY <1>3, AllocatedNat
  <2>3. Listed(k.todo, d) \/ AllocatedTo(t, d) = 0
    BY <1>4, <1>8, <2>2
  <2>4. Reverted(k, d) = 0
    <3>1. k.pc = "revert" \/ D = {}
      BY <1>8
    <3>2. D = {} => AllocatedTo(t, d) = 0
      BY <1>1, <2>2
    <3> QED  BY <1>8, <2>3, <3>1, <3>2 DEF Reverted
  <2> QED  BY <1>8, <2>1, <2>4
<1>12. CallOK(k)
  BY <1>9, <1>10, <1>11 DEF CallOK
<1> QED  BY <1>1, <1>3, <1>7, <1>8, <1>12, CallMoves

\* The documents that are left when the first one is done.
LEMMA TailFacts ==
  ASSUME NEW s \in Seq(Payable), s # << >>, Distinct(s), NEW d, d = Head(s), NEW t, t = Tail(s)
  PROVE  /\ d \in Payable /\ t \in Seq(Payable)
         /\ Len(s) > 1 <=> t # << >>
         /\ Listed(s, d) /\ \A x \in Payable : Listed(t, x) <=> (x # d /\ Listed(s, x))
         /\ Distinct(t)
<1>1. PICK n : n = Len(s)
  OBVIOUS
<1>2. /\ n \in Nat /\ DOMAIN s = 1 .. n /\ n > 0 /\ d = s[1] /\ d \in Payable
      /\ t \in Seq(Payable)
  BY <1>1
<1>3. /\ Len(t) = n - 1 /\ DOMAIN t = 1 .. n - 1 /\ \A i \in 1 .. n - 1 : t[i] = s[i + 1]
  BY <1>1, <1>2
<1>4. n > 1 <=> t # << >>
  <2>1. t = << >> <=> Len(t) = 0
    BY <1>2
  <2> QED  BY <1>2, <1>3, <2>1
<1>5. \A i \in 1 .. n - 1 : 1 \in DOMAIN s /\ i + 1 \in DOMAIN s /\ 1 < i + 1
  BY <1>2
<1>6. \A i \in 1 .. n - 1 : t[i] # d
  BY <1>2, <1>3, <1>5 DEF Distinct
<1>7. \A j \in 1 .. n : j = 1 \/ (j - 1 \in 1 .. n - 1 /\ t[j - 1] = s[j])
  BY <1>2, <1>3
<1>8. \A x \in Payable : (\E i \in DOMAIN t : t[i] = x)
                           <=> (x # d /\ \E i \in DOMAIN s : s[i] = x)
  <2> TAKE x \in Payable
  <2>1. ASSUME NEW i \in 1 .. n - 1, t[i] = x PROVE x # d /\ \E j \in 1 .. n : s[j] = x
    BY <1>2, <1>3, <1>5, <1>6, <2>1
  <2>2. ASSUME x # d, NEW j \in 1 .. n, s[j] = x PROVE \E i \in 1 .. n - 1 : t[i] = x
    BY <1>2, <1>7, <2>2
  <2> QED  BY <1>2, <1>3, <2>1, <2>2
<1>9. \A i, j \in DOMAIN t : i < j => t[i] # t[j]
  <2> TAKE i, j \in DOMAIN t
  <2>1. i + 1 \in DOMAIN s /\ j + 1 \in DOMAIN s /\ (i < j => i + 1 < j + 1)
    BY <1>2, <1>3
  <2> QED  BY <1>3, <2>1 DEF Distinct
<1>10. \E i \in DOMAIN s : s[i] = d
  BY <1>2
<1> QED  BY <1>1, <1>2, <1>4, <1>8, <1>9, <1>10 DEF Listed, Distinct

\* UPDATE of paidAmount of the next document: one that was deleted is passed by.
LEMMA UpdatePaidKeeps ==
  ASSUME Inv, NEW c \in Clients, UpdatePaid(c)
  PROVE  Inv'
<1>1. PICK o, n : /\ o = call[c] /\ n = (IF Len(o.todo) > 1 THEN o.pc
                                         ELSE IF o.pc = "pay" THEN "commit" ELSE "drop")
  OBVIOUS
<1>2. /\ o \in Calls /\ CallOK(o) /\ TablesOK /\ o.pc \in {"revert", "pay"}
      /\ UNCHANGED tables /\ o.op # "none" /\ o.id \in Transactions
  <2>1. o.pc \in {"revert", "pay"} /\ UNCHANGED tables
    BY <1>1 DEF UpdatePaid
  <2>2. o \in Calls /\ CallOK(o) /\ TablesOK /\ o.op # "none" /\ o.id \in Transactions
    BY <1>1, <2>1, CallFacts
  <2> QED  BY <2>1, <2>2
<1>3. /\ o.todo \in Seq(Payable) /\ o.todo # << >>
      /\ Distinct(o.todo)
      /\ o.plan \in [Payable -> Int] /\ o.delta \in [Payable -> Int] /\ o.added \in [Payable -> Nat]
  BY <1>2 DEF CallOK, Planned, Calls
<1>4. PICK s, d, todo : s = o.todo /\ d = Head(s) /\ todo = Tail(s)
  OBVIOUS
<1>5. s \in Seq(Payable) /\ s # << >> /\ Distinct(s)
  BY <1>3, <1>4
<1>6. d = Head(s) /\ todo = Tail(s)
  BY <1>4
<1>7. /\ d \in Payable /\ todo \in Seq(Payable)
      /\ Len(s) > 1 <=> todo # << >>
      /\ Listed(s, d) /\ \A x \in Payable : Listed(todo, x) <=> (x # d /\ Listed(s, x))
      /\ Distinct(todo)
  BY <1>5, <1>6, TailFacts
<1>8. PICK delta, added, holds :
        /\ delta \in [Payable -> Int] /\ added \in [Payable -> Nat]
        /\ holds \subseteq Payable \cup Transactions
        /\ delta = [o.delta EXCEPT ![d] = 
             IF d \in DOMAIN documents THEN o.delta[d] + o.plan[d] ELSE o.delta[d]]
        /\ added = [o.added EXCEPT ![d] = IF o.pc = "pay" THEN o.plan[d] ELSE o.added[d]]
        /\ holds = (IF d \in DOMAIN documents THEN o.holds \cup {d} ELSE o.holds)
  <2>1. o.pc = "pay" => o.plan[d] \in Nat
    BY <1>2, <1>7 DEF CallOK, Planned
  <2>2. PICK delta : delta = [o.delta EXCEPT ![d] =
                       IF d \in DOMAIN documents THEN o.delta[d] + o.plan[d] ELSE o.delta[d]]
    OBVIOUS
  <2>3. delta \in [Payable -> Int]
    <3>1. o.delta[d] \in Int /\ o.plan[d] \in Int
      BY <1>3, <1>7
    <3>2. o.delta[d] + o.plan[d] \in Int
      BY <3>1
    <3> QED  BY <1>3, <2>2, <3>1, <3>2
  <2>4. PICK added : added = [o.added EXCEPT ![d] = IF o.pc = "pay" THEN o.plan[d] ELSE o.added[d]]
    OBVIOUS
  <2>5. added \in [Payable -> Nat]
    BY <1>3, <1>7, <2>1, <2>4
  <2>6. o.holds \subseteq Payable \cup Transactions
    BY <1>2 DEF Calls
  <2> QED  BY <1>7, <2>2, <2>3, <2>4, <2>5, <2>6
<1>9. PICK k : k = [o EXCEPT !.pc = n, !.todo = todo, !.delta = delta, !.added = added,
                             !.holds = holds]
  OBVIOUS
<1>10. call' = [call EXCEPT ![c] = k]
  <2>1. PICK m : m = [o EXCEPT !.pc = n, !.todo = Tail(o.todo),
              !.delta[d] = IF d \in DOMAIN documents THEN o.delta[d] + o.plan[d] ELSE o.delta[d],
              !.added[d] = IF o.pc = "pay" THEN o.plan[d] ELSE o.added[d],
              !.holds = IF d \in DOMAIN documents THEN o.holds \cup {d} ELSE o.holds]
    OBVIOUS
  <2>2. call' = [call EXCEPT ![c] = m]
    BY <1>1, <1>4, <2>1 DEF UpdatePaid
  <2>3. m = k
    BY <1>2, <1>4, <1>8, <1>9, <2>1 DEF Calls
  <2> QED  BY <2>2, <2>3
<1>11. /\ k.pc = n /\ k.todo = todo /\ k.delta = delta /\ k.added = added
       /\ k.op = o.op /\ k.id = o.id /\ k.row = o.row /\ k.plan = o.plan /\ k.dropped = o.dropped
       /\ k \in Calls
  <2>1. n \in {"revert", "pay", "drop", "commit"}
    BY <1>1, <1>2
  <2>2. k \in Calls
    <3>1. k = [op |-> o.op, pc |-> n, id |-> o.id, row |-> o.row, plan |-> o.plan, todo |-> todo,
               delta |-> delta, seen |-> o.seen, dropped |-> o.dropped, added |-> added,
               holds |-> holds]
      BY <1>2, <1>9 DEF Calls
    <3>2. holds \in SUBSET (Payable \cup Transactions)
      BY <1>8
    <3> QED  BY <1>2, <1>7, <1>8, <2>1, <3>1, <3>2 DEF Calls
  <2> QED  BY <1>2, <1>9, <2>2 DEF Calls
<1>12. /\ \A x \in Payable : Listed(k.todo, x) <=> (x # d /\ Listed(o.todo, x))
       /\ Listed(o.todo, d)
       /\ \A x \in Payable : x # d => delta[x] = o.delta[x] /\ added[x] = o.added[x]
       /\ d \in DOMAIN documents => delta[d] = o.delta[d] + o.plan[d]
       /\ added[d] = IF o.pc = "pay" THEN o.plan[d] ELSE o.added[d]
  <2>1. \A x \in Payable : Listed(k.todo, x) <=> (x # d /\ Listed(o.todo, x))
    BY <1>4, <1>7, <1>11
  <2>2. Listed(o.todo, d)
    BY <1>4, <1>7
  <2>3. \A x \in Payable : x # d => delta[x] = o.delta[x] /\ added[x] = o.added[x]
    BY <1>3, <1>8
  <2>4. d \in Payable
    BY <1>7
  <2>5. d \in DOMAIN documents => delta[d] = o.delta[d] + o.plan[d]
    BY <1>3, <1>8, <2>4
  <2>6. added[d] = IF o.pc = "pay" THEN o.plan[d] ELSE o.added[d]
    BY <1>3, <1>8, <2>4
  <2> QED  BY <2>1, <2>2, <2>3, <2>5, <2>6
<1>13. /\ n \in {o.pc, "drop", "commit"} /\ (n = o.pc => todo # << >>)
       /\ (n = "drop" => o.pc = "revert" /\ todo = << >>)
       /\ (n = "commit" => o.pc = "pay" /\ todo = << >>)
  BY <1>1, <1>2, <1>4, <1>7
<1>14. todo = << >> => \A x \in Payable : ~Listed(todo, x)
  BY DEF Listed
<1>15. Routed(k)
  BY <1>2, <1>11, <1>13 DEF CallOK, Routed
<1>16. DropsAll(k)
  BY <1>2, <1>11, <1>13 DEF CallOK, DropsAll
<1>17. o.pc = "pay" => \A x \in Payable :
         o.plan[x] \in Nat /\ added[x] = IF Listed(k.todo, x) THEN 0 ELSE o.plan[x]
  BY <1>2, <1>12 DEF CallOK, Planned
<1>18. Planned(k)
  BY <1>2, <1>7, <1>11, <1>13, <1>17 DEF CallOK, Planned
<1>19. WithinAmount(k)
  <2>1. o.pc = "revert" => \A x \in Payable : added[x] = 0
    BY <1>2, <1>12 DEF CallOK, WithinAmount
  <2>2. o.pc = "pay" => o.op # "delete" /\ Fits(o.plan, o.row)
    BY <1>2 DEF CallOK, Routed, WithinAmount
  <2>3. n = "commit" => \A x \in Payable : added[x] = o.plan[x]
    <3> SUFFICES ASSUME n = "commit", NEW x \in Payable PROVE added[x] = o.plan[x]
      OBVIOUS
    <3>1. o.pc = "pay" /\ ~Listed(todo, x)
      BY <1>13, <1>14
    <3> QED  BY <1>11, <1>17, <3>1
  <2>4. n = "commit" => Fits(added, o.row)
    <3>1. n = "commit" => Total(added, Payable) = Total(o.plan, Payable)
      BY <2>3, TotalEqual
    <3> QED  BY <1>13, <2>2, <2>3, <3>1 DEF Fits
  <2> QED  BY <1>2, <1>11, <1>13, <2>1, <2>2, <2>4 DEF WithinAmount
<1>20. Balanced(k)
  <2> SUFFICES ASSUME NEW x \in Payable \cap DOMAIN documents
               PROVE  delta[x] = added[x] - Reverted(k, x)
    BY <1>11 DEF Balanced
  <2>1. o.delta[x] = o.added[x] - Reverted(o, x) /\ o.delta[x] \in Int /\ o.added[x] \in Nat
    BY <1>2, <1>3 DEF CallOK, Balanced
  <2>2. AllocatedTo(o.id, x) \in Nat
    BY <1>2, AllocatedNat
  <2>3. CASE x # d
    <3>1. Reverted(k, x) = Reverted(o, x)
      BY <1>2, <1>11, <1>12, <1>13, <1>14, <2>3 DEF Reverted
    <3> QED  BY <1>12, <2>1, <2>3, <3>1
  <2>4. CASE x = d /\ o.pc = "pay"
    <3>1. Reverted(o, x) = AllocatedTo(o.id, x) /\ Reverted(k, x) = AllocatedTo(o.id, x)
      BY <1>11, <1>13, <2>4 DEF Reverted
    <3>2. o.added[d] = 0
      BY <1>2, <1>12, <2>4 DEF CallOK, Planned
    <3>3. o.plan[d] \in Nat
      BY <1>17, <2>4
    <3> QED  BY <1>12, <2>1, <2>2, <2>4, <3>1, <3>2, <3>3
  <2>5. CASE x = d /\ o.pc = "revert"
    <3>1. Reverted(o, x) = 0
      BY <1>12, <2>5 DEF Reverted
    <3>2. Reverted(k, x) = AllocatedTo(o.id, x)
      BY <1>11, <1>12, <1>13, <2>5 DEF Reverted
    <3>3. o.plan[x] = 0 - AllocatedTo(o.id, x)
      BY <1>2, <2>5 DEF CallOK, Planned
    <3> QED  BY <1>12, <2>1, <2>2, <2>5, <3>1, <3>2, <3>3
  <2> QED  BY <1>2, <2>3, <2>4, <2>5
<1>21. CallOK(k)
  BY <1>15, <1>16, <1>18, <1>19, <1>20 DEF CallOK
<1> QED  BY <1>1, <1>2, <1>10, <1>11, <1>21, CallMoves

\* What a call that is not paying yet has allocated.
LEMMA NothingAdded ==
  ASSUME Inv, NEW c \in Clients, call[c].pc \in {"drop", "dropping", "row", "unpaid"}
  PROVE  /\ \A d \in Payable : call[c].added[d] = 0
         /\ call[c].row # NULL => call[c].row.amount \in Nat /\ Fits(call[c].added, call[c].row)
<1>1. \A d \in Payable : call[c].added[d] = 0
  BY CallFacts DEF CallOK, WithinAmount
<1>2. Total(call[c].added, Payable) = 0
  BY <1>1, TotalZero
<1>3. call[c].row # NULL => call[c].row.amount \in Nat
  BY CallFacts, ContentAssumption DEF Calls
<1> QED  BY <1>1, <1>2, <1>3 DEF Fits

\* DELETE of the allocations: its snapshot.
LEMMA SeeRowsKeeps ==
  ASSUME Inv, NEW c \in Clients, SeeRows(c)
  PROVE  Inv'
<1>1. PICK o, seen : o = call[c] /\ seen = RowsOf(o.id)
  OBVIOUS
<1>2. o \in Calls /\ CallOK(o) /\ o.pc = "drop" /\ UNCHANGED tables
  BY <1>1, CallFacts DEF SeeRows
<1>3. PICK k : k = [o EXCEPT !.pc = "dropping", !.seen = seen]
  OBVIOUS
<1>4. call' = [call EXCEPT ![c] = k]
  BY <1>1, <1>3 DEF SeeRows, Inv
<1>5. seen \in SUBSET AllocationId
  BY <1>1 DEF RowsOf
<1>6. /\ k \in Calls /\ k.op = o.op /\ k.id = o.id /\ k.row = o.row /\ k.pc = "dropping"
      /\ k.added = o.added /\ k.delta = o.delta /\ k.seen = RowsOf(k.id)
  BY <1>1, <1>2, <1>3, <1>5 DEF Calls
<1>7. Routed(k) /\ Planned(k) /\ DropsAll(k) /\ WithinAmount(k)
  BY <1>2, <1>6 DEF CallOK, Routed, Planned, DropsAll, WithinAmount
<1>8. Balanced(k)
  BY <1>2, <1>6 DEF CallOK, Balanced, Reverted
<1>9. CallOK(k)
  BY <1>7, <1>8 DEF CallOK
<1> QED  BY <1>1, <1>2, <1>4, <1>6, <1>9, CallMoves

\* DELETE of the allocations: what it saw is still there.
LEMMA DropRowsKeeps ==
  ASSUME Inv, NEW c \in Clients, DropRows(c)
  PROVE  Inv'
<1>1. PICK o, dropped : o = call[c] /\ dropped = o.seen \cap RowsOf(o.id)
  OBVIOUS
<1>2. o \in Calls /\ CallOK(o) /\ o.pc = "dropping" /\ UNCHANGED tables
  BY <1>1, CallFacts DEF DropRows
<1>3. PICK k : k = [o EXCEPT !.pc = "row", !.dropped = dropped]
  OBVIOUS
<1>4. call' = [call EXCEPT ![c] = k]
  BY <1>1, <1>3 DEF DropRows, Inv
<1>5. dropped \in SUBSET AllocationId /\ dropped = RowsOf(o.id)
  BY <1>1, <1>2 DEF RowsOf, CallOK, DropsAll
<1>6. /\ k \in Calls /\ k.op = o.op /\ k.id = o.id /\ k.row = o.row /\ k.pc = "row"
      /\ k.added = o.added /\ k.delta = o.delta /\ k.dropped = RowsOf(k.id)
  BY <1>1, <1>2, <1>3, <1>5 DEF Calls
<1>7. Routed(k) /\ Planned(k) /\ DropsAll(k) /\ WithinAmount(k)
  BY <1>2, <1>6 DEF CallOK, Routed, Planned, DropsAll, WithinAmount
<1>8. Balanced(k)
  BY <1>2, <1>6 DEF CallOK, Balanced, Reverted
<1>9. CallOK(k)
  BY <1>7, <1>8 DEF CallOK
<1> QED  BY <1>1, <1>2, <1>4, <1>6, <1>9, CallMoves

\* UPDATE of the row of the transaction.
LEMMA WriteRowKeeps ==
  ASSUME Inv, NEW c \in Clients, WriteRow(c)
  PROVE  Inv'
<1>1. PICK o, n : /\ o = call[c]
                  /\ n = IF o.op = "update" THEN AfterRow(o.row) ELSE "commit"
  OBVIOUS
<1>2. /\ o \in Calls /\ CallOK(o) /\ o.pc = "row" /\ UNCHANGED tables
      /\ o.id \in Transactions /\ o.op \in {"create", "update", "delete"}
  <2>1. o.pc = "row" /\ UNCHANGED tables
    BY <1>1 DEF WriteRow
  <2> QED  BY <1>1, <2>1, CallFacts
<1>3. PICK holds : holds = o.holds \cup {o.id}
  OBVIOUS
<1>4. PICK k : k = [o EXCEPT !.holds = holds, !.pc = n]
  OBVIOUS
<1>5. call' = [call EXCEPT ![c] = k]
  BY <1>1, <1>3, <1>4 DEF WriteRow, Inv
<1>6. holds \in SUBSET (Payable \cup Transactions) /\ n \in {"unpaid", "commit"}
  BY <1>1, <1>2, <1>3 DEF Calls, AfterRow
<1>7. /\ k \in Calls /\ k.op = o.op /\ k.id = o.id /\ k.row = o.row /\ k.pc = n
      /\ k.added = o.added /\ k.delta = o.delta /\ k.dropped = o.dropped
  BY <1>2, <1>4, <1>6 DEF Calls
<1>8. Routed(k) /\ Planned(k) /\ DropsAll(k)
  BY <1>1, <1>2, <1>6, <1>7 DEF CallOK, Routed, Planned, DropsAll
<1>9. Balanced(k)
  BY <1>2, <1>6, <1>7 DEF CallOK, Balanced, Reverted
<1>10. WithinAmount(k)
  <2>1. /\ \A d \in Payable : o.added[d] = 0
        /\ o.row # NULL => Fits(o.added, o.row)
    BY <1>1, <1>2, NothingAdded
  <2>2. o.op # "delete" => o.row # NULL
    BY <1>2 DEF CallOK, Routed
  <2> QED  BY <1>6, <1>7, <2>1, <2>2 DEF WithinAmount
<1>11. CallOK(k)
  BY <1>8, <1>9, <1>10 DEF CallOK
<1> QED  BY <1>1, <1>2, <1>5, <1>7, <1>11, CallMoves

\* SELECT of the debts and the loop over them: what is planned is within the amount.
LEMMA ReadUnpaidKeeps ==
  ASSUME Inv, NEW c \in Clients, ReadUnpaid(c)
  PROVE  Inv'
<1>1. PICK o, U, row : o = call[c] /\ U = Unpaid(c) /\ row = o.row
  OBVIOUS
<1>2. /\ o \in Calls /\ CallOK(o) /\ TablesOK /\ o.pc = "unpaid" /\ UNCHANGED tables
      /\ o.id \in Transactions /\ o.op \in {"create", "update"} /\ row \in Requests
      /\ row.amount \in Nat /\ row.type \in {"INCOME", "OUTCOME"}
  <2>1. o.pc = "unpaid" /\ UNCHANGED tables
    BY <1>1 DEF ReadUnpaid
  <2>2. o \in Calls /\ CallOK(o) /\ TablesOK /\ o.id \in Transactions
    BY <1>1, <2>1, CallFacts
  <2>3. o.op \in {"create", "update"} /\ row \in Requests
    BY <1>1, <2>1, <2>2 DEF CallOK, Routed, Calls
  <2> QED  BY <2>1, <2>2, <2>3, ContentAssumption
<1>3. PICK take \in [Unpaid(c) -> 0 .. call[c].row.amount] :
        /\ Allocation(c, take)
        /\ LET D == {d \in Unpaid(c) : take[d] > 0}
           IN  \E s \in Orderings(D, TRUE) :
                 call' = [call EXCEPT ![c].pc = IF D = {} THEN "commit" ELSE "pay",
                   ![c].todo = s,
                   ![c].plan = [d \in Payable |-> IF d \in D THEN take[d] ELSE 0]]
  BY DEF ReadUnpaid
<1>4. PICK D : D = {d \in U : take[d] > 0} /\ D = {d \in Unpaid(c) : take[d] > 0}
  BY <1>1
<1>5. PICK plan : plan = [d \in Payable |-> IF d \in D THEN take[d] ELSE 0]
  OBVIOUS
<1>6. PICK s \in Orderings(D, TRUE) :
        call' = [call EXCEPT ![c].pc = IF D = {} THEN "commit" ELSE "pay",
                             ![c].todo = s, ![c].plan = plan]
  BY <1>3, <1>4, <1>5
<1>7. /\ U \subseteq Payable /\ U \subseteq DOMAIN documents
      /\ \A d \in U : (d \in Realizations <=> row.type = "INCOME") /\ Debt(c, d) > 0
  BY <1>1, <1>2, FiniteAssumption DEF Unpaid, Payable
<1>8. \A d \in U : take[d] \in Nat
  <2>1. \A d \in U : take[d] \in 0 .. row.amount
    BY <1>1, <1>3
  <2> QED  BY <1>2, <2>1
<1>9. D \in SUBSET Payable
  BY <1>4, <1>7
<1>10. /\ s \in Seq(Payable) /\ \A d \in Payable : Listed(s, d) <=> d \in D
       /\ Distinct(s) /\ (D # {} => s # << >>)
  BY <1>9, OrderingsListAll
<1>11. plan \in [Payable -> Nat] /\ plan \in [Payable -> Int]
       /\ \A d \in Payable : plan[d] = IF d \in D THEN take[d] ELSE 0
  BY <1>4, <1>5, <1>8
<1>12. PICK k : k = [o EXCEPT !.pc = IF D = {} THEN "commit" ELSE "pay", !.todo = s,
                              !.plan = plan]
  OBVIOUS
<1>13. call' = [call EXCEPT ![c] = k]
  BY <1>1, <1>6, <1>12 DEF Inv
<1>14. /\ k \in Calls /\ k.pc = (IF D = {} THEN "commit" ELSE "pay") /\ k.todo = s
       /\ k.plan = plan /\ k.op = o.op /\ k.id = o.id /\ k.row = row
       /\ k.added = o.added /\ k.delta = o.delta /\ k.dropped = o.dropped
  <2>1. o.row = row /\ (IF D = {} THEN "commit" ELSE "pay") \in {"commit", "pay"}
    BY <1>1
  <2>2. k = [op |-> o.op, pc |-> IF D = {} THEN "commit" ELSE "pay", id |-> o.id, row |-> o.row,
             plan |-> plan, todo |-> s, delta |-> o.delta, seen |-> o.seen,
             dropped |-> o.dropped, added |-> o.added, holds |-> o.holds]
    BY <1>2, <1>12 DEF Calls
  <2>3. k \in Calls
    BY <1>2, <1>10, <1>11, <2>1, <2>2 DEF Calls
  <2> QED  BY <2>1, <2>2, <2>3
<1>15. (\A d \in Payable : o.added[d] = 0) /\ Fits(o.added, row)
  <2>1. row # NULL
    BY <1>1, <1>2 DEF CallOK, Routed
  <2> QED  BY <1>1, <1>2, <2>1, NothingAdded
<1>16. Fits(plan, row)
  <2>1. PICK f, g : f = [b \in U |-> take[b]] /\ g = [d \in U |-> Debt(c, d)]
    OBVIOUS
  <2>2. Total(f, U) = IF Total(g, U) < row.amount THEN Total(g, U) ELSE row.amount
    BY <1>1, <1>3, <2>1 DEF Allocation, FifoTake
  <2>3. Total(g, U) \in Nat
    <3>1. \A d \in U : g[d] \in Nat
      <4> SUFFICES ASSUME NEW d \in U PROVE g[d] \in Nat
        OBVIOUS
      <4>1. documents[d] \in DocumentRow /\ o.delta[d] \in Int
        BY <1>2, <1>7 DEF TablesOK, Calls
      <4>2. documents[d].amount \in Nat /\ documents[d].paidAmount \in Int
        BY <4>1 DEF DocumentRow
      <4>3. Debt(c, d) \in Int
        BY <1>1, <4>1, <4>2 DEF Debt
      <4> QED  BY <1>7, <2>1, <4>3
    <3>2. IsFiniteSet(U)
      BY <1>7, Finite
    <3> QED  BY <3>1, <3>2, TotalNat
  <2>4. PICK R : R = Payable \ U
    OBVIOUS
  <2>5. U \cup R = Payable /\ U \cap R = {} /\ IsFiniteSet(U) /\ IsFiniteSet(R)
    BY <1>7, <2>4, Finite
  <2>6. \A d \in U \cup R : plan[d] \in Nat
    BY <1>11, <2>5
  <2>7. Total(plan, U \cup R) = Total(plan, U) + Total(plan, R)
    BY <2>5, <2>6, TotalUnion
  <2>8. \A d \in U : plan[d] = f[d]
    <3> SUFFICES ASSUME NEW d \in U PROVE plan[d] = f[d]
      OBVIOUS
    <3>1. take[d] \in Nat /\ (d \in D <=> take[d] > 0)
      BY <1>4, <1>8
    <3> QED  BY <1>7, <1>11, <2>1, <3>1
  <2>9. Total(plan, U) = Total(f, U)
    BY <2>8, TotalEqual
  <2>10. \A d \in R : plan[d] = 0
    BY <1>4, <1>11, <2>4
  <2>11. Total(plan, R) = 0
    BY <2>10, TotalZero
  <2>12. Total(plan, Payable) <= row.amount
    <3>1. PICK q \in Nat, owed \in Nat : q = row.amount /\ owed = Total(g, U)
      BY <1>2, <2>3
    <3>2. Total(f, U) <= q /\ Total(f, U) \in Nat
      BY <2>2, <3>1
    <3>3. Total(plan, Payable) = Total(f, U) + 0
      BY <2>5, <2>7, <2>9, <2>11
    <3> QED  BY <3>1, <3>2, <3>3
  <2>13. \A d \in Payable : plan[d] > 0 => (d \in Realizations <=> row.type = "INCOME")
    BY <1>4, <1>7, <1>11
  <2> QED  BY <2>12, <2>13 DEF Fits
<1>17. Routed(k) /\ DropsAll(k)
  BY <1>1, <1>2, <1>14 DEF CallOK, Routed, DropsAll
<1>18. Planned(k)
  BY <1>10, <1>11, <1>14, <1>15 DEF Planned
<1>19. Balanced(k)
  BY <1>2, <1>14 DEF CallOK, Balanced, Reverted
<1>20. WithinAmount(k)
  BY <1>2, <1>14, <1>15, <1>16 DEF WithinAmount
<1>21. CallOK(k)
  BY <1>17, <1>18, <1>19, <1>20 DEF CallOK
<1> QED  BY <1>1, <1>2, <1>13, <1>14, <1>21, CallMoves

-----------------------------------------------------------------------------
(* COMMIT.                                                                 *)

\* What the commit of a call writes, other than its row of the transaction.
LEMMA CommitFacts ==
  ASSUME Inv, NEW c \in Clients, Commit(c), NEW o, o = call[c]
  PROVE  /\ o \in Calls /\ CallOK(o) /\ o.pc = "commit" /\ o.id \in Transactions
         /\ o.op \in {"create", "update", "delete"}
         /\ \A a \in AllocationId :
              PaymentAllocation'[o.id][a] = IF a[1] = c THEN o.added[a[2]] ELSE 0
         /\ PaymentAllocation' \in [Transactions -> [AllocationId -> Nat]]
         /\ \A u \in Transactions \ {o.id} : PaymentAllocation'[u] = PaymentAllocation[u]
         /\ DOMAIN documents' = DOMAIN documents
         /\ \A d \in Payable \cap DOMAIN documents :
              documents'[d].paidAmount =
                documents[d].paidAmount + o.added[d] - AllocatedTo(o.id, d)
         /\ documents' \in [DOMAIN documents -> DocumentRow]
<1>1. /\ o \in Calls /\ CallOK(o) /\ TablesOK /\ o.pc = "commit" /\ o.id \in Transactions
      /\ o.op \in {"create", "update", "delete"}
  <2>1. o.pc = "commit"
    BY DEF Commit
  <2> QED  BY <2>1, CallFacts
<1>2. PICK t : t = o.id
  OBVIOUS
<1>3. PICK R : R = RowsAfter(c)
  OBVIOUS
<1>4. PaymentAllocation' = [PaymentAllocation EXCEPT ![t] = R]
  BY <1>2, <1>3 DEF Commit
<1>5. R = [a \in AllocationId |->
             IF a[1] = c /\ o.added[a[2]] > 0 THEN o.added[a[2]]
             ELSE IF a \in o.dropped THEN 0 ELSE PaymentAllocation[t][a]]
  BY <1>2, <1>3 DEF RowsAfter
<1>6. \A a \in AllocationId : R[a] = (IF a[1] = c THEN o.added[a[2]] ELSE 0) /\ R[a] \in Nat
  <2> SUFFICES ASSUME NEW a \in AllocationId
               PROVE  R[a] = (IF a[1] = c THEN o.added[a[2]] ELSE 0) /\ R[a] \in Nat
    OBVIOUS
  <2>1. a[2] \in Payable
    BY DEF AllocationId
  <2>2. o.added[a[2]] \in Nat
    BY <1>1, <2>1 DEF Calls
  <2>3. PaymentAllocation[t][a] \in Nat
    BY <1>1, <1>2 DEF TablesOK
  <2>4. a \in o.dropped <=> PaymentAllocation[t][a] > 0
    BY <1>1, <1>2 DEF CallOK, DropsAll, RowsOf
  <2>5. R[a] = IF a[1] = c /\ o.added[a[2]] > 0 THEN o.added[a[2]]
               ELSE IF a \in o.dropped THEN 0 ELSE PaymentAllocation[t][a]
    BY <1>5
  <2> QED  BY <2>2, <2>3, <2>4, <2>5
<1>7. R \in [AllocationId -> Nat]
  BY <1>5, <1>6
<1>8. PaymentAllocation \in [Transactions -> [AllocationId -> Nat]]
  BY <1>1 DEF TablesOK
<1>9. /\ PaymentAllocation' \in [Transactions -> [AllocationId -> Nat]]
      /\ PaymentAllocation'[t] = R
      /\ \A u \in Transactions \ {t} : PaymentAllocation'[u] = PaymentAllocation[u]
  BY <1>1, <1>2, <1>4, <1>7, <1>8
<1>10. documents' = [d \in DOMAIN documents |->
           IF d \in Payable
           THEN [documents[d] EXCEPT !.paidAmount = documents[d].paidAmount + o.delta[d]]
           ELSE documents[d]]
  BY DEF Commit, PaidAfter
<1>11. \A d \in DOMAIN documents : documents[d] \in DocumentRow
  BY <1>1 DEF TablesOK
<1>12. ASSUME NEW d \in DOMAIN documents
       PROVE  /\ documents'[d] \in DocumentRow
              /\ d \in Payable => documents'[d].paidAmount =
                                    documents[d].paidAmount + o.added[d] - AllocatedTo(t, d)
  <2>1. CASE d \in Payable
    <3>1. o.delta[d] \in Int /\ o.added[d] \in Nat
      BY <1>1, <2>1 DEF Calls
    <3>2. AllocatedTo(t, d) \in Nat
      BY <1>1, <1>2, <2>1, AllocatedNat
    <3>3. o.delta[d] = o.added[d] - AllocatedTo(t, d)
      BY <1>1, <1>2, <2>1 DEF CallOK, Balanced, Reverted
    <3>4. documents[d].paidAmount \in Int
      BY <1>11 DEF DocumentRow
    <3>5. PICK p \in Int : p = documents[d].paidAmount + o.delta[d]
      BY <3>1, <3>4
    <3>6. documents'[d] = [documents[d] EXCEPT !.paidAmount = p]
      BY <1>10, <2>1, <3>5
    <3>7. documents'[d] \in DocumentRow /\ documents'[d].paidAmount = p
      BY <1>11, <3>6 DEF DocumentRow
    <3> QED  BY <3>1, <3>2, <3>3, <3>4, <3>5, <3>7
  <2>2. CASE d \notin Payable
    BY <1>10, <1>11, <2>2
  <2> QED  BY <2>1, <2>2
<1>13. DOMAIN documents' = DOMAIN documents /\ documents' \in [DOMAIN documents -> DocumentRow]
  BY <1>10, <1>12
<1> QED  BY <1>1, <1>2, <1>6, <1>9, <1>12, <1>13

\* The row of the transaction that the commit writes.
LEMMA CommitRow ==
  ASSUME Inv, NEW c \in Clients, Commit(c), NEW o, o = call[c]
  PROVE  /\ DOMAIN CashTransaction' \subseteq Transactions /\ o.id \in DOMAIN CashTransaction'
         /\ CashTransaction' \in [DOMAIN CashTransaction' -> TransactionRow]
         /\ CashTransaction'[o.id].isDeleted <=> o.op = "delete"
         /\ o.op # "delete" => CashTransaction'[o.id].row = o.row /\ o.row \in Requests
         /\ \A u \in Transactions \ {o.id} :
              /\ u \in DOMAIN CashTransaction <=> u \in DOMAIN CashTransaction'
              /\ u \in DOMAIN CashTransaction => CashTransaction'[u] = CashTransaction[u]
<1>1. /\ o \in Calls /\ CallOK(o) /\ TablesOK /\ o.id \in Transactions
      /\ o.op \in {"create", "update", "delete"}
  <2>1. call[c].pc # "idle"
    BY DEF Commit
  <2> QED  BY <2>1, CallFacts
<1>2. PICK t, T : t = o.id /\ T = CashTransaction'
  OBVIOUS
<1>3. /\ DOMAIN CashTransaction \subseteq Transactions
      /\ CashTransaction \in [DOMAIN CashTransaction -> TransactionRow]
      /\ o.op # "delete" => o.row \in Requests
  BY <1>1 DEF TablesOK, CallOK, Routed, Calls
<1>4. \A u \in DOMAIN CashTransaction : CashTransaction[u] \in TransactionRow
  BY <1>3
<1>5. CASE o.op = "create"
  <2>1. T = Put(CashTransaction, t, [row |-> o.row, isDeleted |-> FALSE])
    BY <1>2, <1>5 DEF Commit
  <2>2. [row |-> o.row, isDeleted |-> FALSE] \in TransactionRow
    BY <1>3, <1>5 DEF TransactionRow
  <2>3. /\ DOMAIN T = DOMAIN CashTransaction \cup {t}
        /\ T[t] = [row |-> o.row, isDeleted |-> FALSE]
        /\ \A u \in DOMAIN CashTransaction : u # t => T[u] = CashTransaction[u]
    BY <2>1 DEF Put
  <2>4. T \in [DOMAIN T -> TransactionRow]
    <3>1. \A u \in DOMAIN T : T[u] \in TransactionRow
      BY <1>4, <2>2, <2>3
    <3> QED  BY <2>1, <3>1 DEF Put
  <2> QED  BY <1>1, <1>2, <1>3, <1>5, <2>3, <2>4
<1>6. CASE o.op = "update"
  <2>1. T = [CashTransaction EXCEPT ![t].row = o.row]
    BY <1>2, <1>6 DEF Commit
  <2>2. t \in DOMAIN CashTransaction /\ ~CashTransaction[t].isDeleted
    BY <1>1, <1>2, <1>6 DEF CallOK, Routed
  <2>3. PICK r : r = [CashTransaction[t] EXCEPT !.row = o.row]
    OBVIOUS
  <2>4. r \in TransactionRow /\ ~r.isDeleted /\ r.row = o.row
    BY <1>3, <1>4, <1>6, <2>2, <2>3 DEF TransactionRow
  <2>5. /\ DOMAIN T = DOMAIN CashTransaction /\ T[t] = r
        /\ \A u \in DOMAIN CashTransaction : u # t => T[u] = CashTransaction[u]
        /\ T \in [DOMAIN T -> TransactionRow]
    BY <1>3, <2>1, <2>2, <2>3, <2>4
  <2> QED  BY <1>1, <1>2, <1>3, <1>6, <2>2, <2>4, <2>5
<1>7. CASE o.op = "delete"
  <2>1. T = [CashTransaction EXCEPT ![t].isDeleted = TRUE]
    BY <1>2, <1>7 DEF Commit
  <2>2. t \in DOMAIN CashTransaction
    BY <1>1, <1>2, <1>7 DEF CallOK, Routed
  <2>3. PICK r : r = [CashTransaction[t] EXCEPT !.isDeleted = TRUE]
    OBVIOUS
  <2>4. r \in TransactionRow /\ r.isDeleted
    BY <1>4, <2>2, <2>3 DEF TransactionRow
  <2>5. /\ DOMAIN T = DOMAIN CashTransaction /\ T[t] = r
        /\ \A u \in DOMAIN CashTransaction : u # t => T[u] = CashTransaction[u]
        /\ T \in [DOMAIN T -> TransactionRow]
    BY <1>3, <2>1, <2>2, <2>3, <2>4
  <2> QED  BY <1>1, <1>2, <1>3, <1>7, <2>2, <2>4, <2>5
<1> QED  BY <1>1, <1>5, <1>6, <1>7

\* paidAmount goes on being what is allocated: one transaction allocates anew.
LEMMA CommitPaid ==
  ASSUME Inv, NEW c \in Clients, Commit(c)
  PROVE  PaidIsAllocated'
<1>1. PICK o, t : o = call[c] /\ t = o.id
  OBVIOUS
<1>2. /\ o \in Calls /\ t \in Transactions
      /\ \A a \in AllocationId :
           PaymentAllocation'[t][a] = IF a[1] = c THEN o.added[a[2]] ELSE 0
      /\ \A u \in Transactions \ {t} : PaymentAllocation'[u] = PaymentAllocation[u]
      /\ DOMAIN documents' = DOMAIN documents
      /\ \A d \in Payable \cap DOMAIN documents :
           documents'[d].paidAmount = documents[d].paidAmount + o.added[d] - AllocatedTo(t, d)
  BY <1>1, CommitFacts
<1>3. \A d \in Payable : o.added[d] \in Nat
  BY <1>2 DEF Calls
<1>4. PICK A : A = PaymentAllocation'
  OBVIOUS
<1>5. \A d \in Payable : PaysTo(A[t], d) = o.added[d]
  <2>1. PICK f, q : f = A[t] /\ q = o.added
    OBVIOUS
  <2>2. \A d \in Payable : q[d] \in Nat
    BY <1>3, <2>1
  <2>3. \A e \in Clients : \A d \in Payable : f[<<e, d>>] = IF e = c THEN q[d] ELSE 0
    BY <1>2, <1>4, <2>1 DEF AllocationId
  <2>4. \A d \in Payable : PaysTo(f, d) = q[d]
    BY <2>2, <2>3, RowsOfOneClient
  <2> QED  BY <2>1, <2>4
<1>6. ASSUME NEW d \in Payable \cap DOMAIN documents
      PROVE  documents'[d].paidAmount =
               Total([u \in Transactions |->
                        Total([e \in Clients |-> A[u][<<e, d>>]], Clients)], Transactions)
  <2>1. PICK f, g :
          /\ f = [u \in Transactions |-> AllocatedTo(u, d)]
          /\ g = [u \in Transactions |->
                    Total([e \in Clients |-> A[u][<<e, d>>]], Clients)]
    OBVIOUS
  <2>2. \A u \in Transactions : f[u] \in Nat
    BY <2>1, AllocatedNat DEF Inv
  <2>3. g[t] = o.added[d] /\ g[t] \in Nat
    BY <1>2, <1>3, <1>5, <2>1 DEF PaysTo
  <2>4. \A u \in Transactions : u # t => g[u] = f[u]
    BY <1>2, <1>4, <2>1 DEF AllocatedTo
  <2>5. \A u \in Transactions : f[u] \in Nat /\ g[u] \in Nat
    BY <2>2, <2>3, <2>4
  <2>6. Total(g, Transactions) + f[t] = Total(f, Transactions) + g[t]
    BY <1>2, <2>4, <2>5, Finite, TotalChange
  <2>7. Total(f, Transactions) \in Nat /\ Total(g, Transactions) \in Nat
    BY <2>5, Finite, TotalNat
  <2>8. documents[d].paidAmount = Total(f, Transactions)
    BY <2>1 DEF Inv, PaidIsAllocated
  <2>9. documents'[d].paidAmount = Total(f, Transactions) + g[t] - f[t]
    BY <1>2, <2>1, <2>3, <2>8
  <2>10. f[t] \in Nat
    BY <1>2, <2>2
  <2> QED  BY <2>1, <2>3, <2>6, <2>7, <2>9, <2>10
<1> QED  BY <1>2, <1>4, <1>6 DEF PaidIsAllocated, AllocatedTo

\* The transaction spends what its call allocated.
LEMMA CommitSpent ==
  ASSUME Inv, NEW c \in Clients, Commit(c)
  PROVE  SpentOnce'
<1>1. PICK o, t : o = call[c] /\ t = o.id
  OBVIOUS
<1>2. /\ o \in Calls /\ CallOK(o) /\ o.pc = "commit" /\ t \in Transactions
      /\ \A a \in AllocationId :
           PaymentAllocation'[t][a] = IF a[1] = c THEN o.added[a[2]] ELSE 0
      /\ \A u \in Transactions \ {t} : PaymentAllocation'[u] = PaymentAllocation[u]
  BY <1>1, CommitFacts
<1>3. /\ t \in DOMAIN CashTransaction'
      /\ CashTransaction'[t].isDeleted <=> o.op = "delete"
      /\ o.op # "delete" => CashTransaction'[t].row = o.row
      /\ \A u \in Transactions \ {t} :
           /\ u \in DOMAIN CashTransaction <=> u \in DOMAIN CashTransaction'
           /\ u \in DOMAIN CashTransaction => CashTransaction'[u] = CashTransaction[u]
  BY <1>1, CommitRow
<1>4. PICK f : f = PaymentAllocation'[t]
  OBVIOUS
<1>5. \A d \in Payable : o.added[d] \in Nat
  BY <1>2 DEF Calls
<1>6. Total(f, AllocationId) = Total(o.added, Payable)
  <2>1. PICK q : q = o.added
    OBVIOUS
  <2>2. \A d \in Payable : q[d] \in Nat
    BY <1>5, <2>1
  <2>3. \A e \in Clients : \A d \in Payable : f[<<e, d>>] = IF e = c THEN q[d] ELSE 0
    BY <1>2, <1>4, <2>1 DEF AllocationId
  <2>4. Total(f, AllocationId) = Total(q, Payable)
    BY <2>2, <2>3, RowsOfOneClient
  <2> QED  BY <2>1, <2>4
<1>7. \A a \in AllocationId : a[2] \in Payable /\ (f[a] > 0 => o.added[a[2]] > 0)
  BY <1>2, <1>4 DEF AllocationId
<1>8. ASSUME o.op # "delete"
      PROVE  /\ Total(f, AllocationId) <= o.row.amount
             /\ \A a \in AllocationId :
                  f[a] > 0 => (a[2] \in Realizations <=> o.row.type = "INCOME")
  <2>1. Fits(o.added, o.row)
    BY <1>2, <1>8 DEF CallOK, WithinAmount
  <2> QED  BY <1>6, <1>7, <2>1 DEF Fits
<1>9. ASSUME o.op = "delete" PROVE \A a \in AllocationId : ~(f[a] > 0)
  <2>1. \A d \in Payable : o.added[d] = 0
    BY <1>2, <1>9 DEF CallOK, WithinAmount
  <2> QED  BY <1>7, <2>1
<1> QED  BY <1>2, <1>3, <1>4, <1>8, <1>9 DEF Inv, SpentOnce, Allocated, RowsOf

\* COMMIT of a call.
LEMMA CommitKeeps ==
  ASSUME Inv, NEW c \in Clients, Commit(c)
  PROVE  Inv'
<1>1. PICK o : o = call[c]
  OBVIOUS
<1>2. /\ PaymentAllocation' \in [Transactions -> [AllocationId -> Nat]]
      /\ \A u \in Transactions \ {o.id} : PaymentAllocation'[u] = PaymentAllocation[u]
      /\ DOMAIN documents' = DOMAIN documents
      /\ documents' \in [DOMAIN documents -> DocumentRow]
      /\ o.id \in Transactions /\ o.op \in {"create", "update", "delete"}
  BY <1>1, CommitFacts
<1>3. /\ DOMAIN CashTransaction' \subseteq Transactions
      /\ CashTransaction' \in [DOMAIN CashTransaction' -> TransactionRow]
      /\ \A u \in Transactions \ {o.id} :
           /\ u \in DOMAIN CashTransaction <=> u \in DOMAIN CashTransaction'
           /\ u \in DOMAIN CashTransaction => CashTransaction'[u] = CashTransaction[u]
  BY <1>1, CommitRow
<1>4. TablesOK'
  BY <1>2, <1>3 DEF Inv, TablesOK
<1>5. call \in [Clients -> Calls] /\ call' = [call EXCEPT ![c] = Idle]
  BY DEF Inv, Commit
<1>6. /\ call' \in [Clients -> Calls] /\ call'[c] = Idle
      /\ \A e \in Clients \ {c} : call'[e] = call[e]
  BY <1>5, IdleIsCall
<1>7. Exclusive'
  BY <1>6, IdleIsCall DEF Inv, Exclusive
<1>8. \A e \in Clients : CallOK(call[e])'
  <2> TAKE e \in Clients
  <2>1. PICK j : j = call'[e]
    OBVIOUS
  <2>2. CallOK(j)
    BY <1>6, <2>1, IdleIsCall DEF Inv
  <2>3. j.id # NULL => j.id \in Transactions \ {o.id}
    BY <1>1, <1>5, <1>6, <2>1, IdleIsCall DEF Inv, Exclusive, Calls
  <2>4. DOMAIN documents' \subseteq DOMAIN documents
    BY <1>2
  <2>5. j.id # NULL => /\ j.id \in DOMAIN CashTransaction <=> j.id \in DOMAIN CashTransaction'
                       /\ j.id \in DOMAIN CashTransaction =>
                            CashTransaction'[j.id] = CashTransaction[j.id]
                       /\ PaymentAllocation'[j.id] = PaymentAllocation[j.id]
    BY <1>2, <1>3, <2>3
  <2> QED  BY <2>1, <2>2, <2>4, <2>5, CallOKStays
<1> QED  BY <1>4, <1>6, <1>7, <1>8, CommitPaid, CommitSpent DEF Inv

-----------------------------------------------------------------------------
(* The documents, and the specification.                                   *)

\* A step that is about the documents only and leaves what is paid to those that stay.
DocumentsMoved ==
  /\ UNCHANGED <<CashTransaction, PaymentAllocation, call>>
  /\ DOMAIN documents' \subseteq DOMAIN documents
  /\ documents' \in [DOMAIN documents' -> DocumentRow]
  /\ \A d \in DOMAIN documents' : documents'[d].paidAmount = documents[d].paidAmount

\* Such a step keeps the invariant.
LEMMA DocumentsMove ==
  ASSUME Inv, DocumentsMoved
  PROVE  Inv'
<1>1. TablesOK'
  BY DEF Inv, TablesOK, DocumentsMoved
<1>2. Exclusive' /\ call' \in [Clients -> Calls]
  BY DEF Inv, Exclusive, DocumentsMoved
<1>3. PaidIsAllocated' /\ SpentOnce'
  BY DEF Inv, PaidIsAllocated, SpentOnce, AllocatedTo, RowsOf, Allocated, DocumentsMoved
<1>4. \A e \in Clients : CallOK(call[e])'
  <2> TAKE e \in Clients
  <2>1. PICK j : j = call'[e]
    OBVIOUS
  <2>2. CallOK(j)
    BY <2>1 DEF Inv, DocumentsMoved
  <2> QED  BY <2>1, <2>2, CallOKStays DEF DocumentsMoved
<1> QED  BY <1>1, <1>2, <1>3, <1>4 DEF Inv

\* The rows of documents are well formed.
LEMMA DocumentFacts ==
  ASSUME TablesOK
  PROVE  /\ documents \in [DOMAIN documents -> DocumentRow]
         /\ \A d \in DOMAIN documents :
              documents[d] \in DocumentRow /\ documents[d].paidAmount \in Int
              /\ documents[d].status \in {"DRAFT", "POSTED"}
<1>1. documents \in [DOMAIN documents -> DocumentRow]
  BY DEF TablesOK
<1> QED  BY <1>1 DEF DocumentRow

\* PUT of a document.
LEMMA EditDocumentMoves ==
  ASSUME TablesOK, NEW d \in Documents, NEW v \in Versions, EditDocument(d, v)
  PROVE  DocumentsMoved
<1>1. PICK r : r = [Draft(v) EXCEPT !.status = documents[d].status,
                                    !.paidAmount = documents[d].paidAmount]
  OBVIOUS
<1>2. documents' = [documents EXCEPT ![d] = r] /\ d \in DOMAIN documents
  BY <1>1 DEF EditDocument
<1>3. PICK q : q = Draft(v)
  OBVIOUS
<1>4. q \in DocumentRow
  <2>1. v.amount \in Nat /\ v.date \in Dates /\ v.counterpartyId \in Counterparties
    BY ContentAssumption
  <2> QED  BY <1>3, <2>1 DEF Draft, DocumentRow
<1>5. PICK st, p : st = documents[d].status /\ p = documents[d].paidAmount
  OBVIOUS
<1>6. st \in {"DRAFT", "POSTED"} /\ p \in Int
  BY <1>2, <1>5, DocumentFacts
<1>7. r = [q EXCEPT !.status = st, !.paidAmount = p]
  BY <1>1, <1>3, <1>5
<1>8. r \in DocumentRow /\ r.paidAmount = p
  BY <1>4, <1>6, <1>7 DEF DocumentRow
<1>9. /\ DOMAIN documents' = DOMAIN documents
      /\ documents' \in [DOMAIN documents' -> DocumentRow]
      /\ \A e \in DOMAIN documents : documents'[e].paidAmount = documents[e].paidAmount
  BY <1>2, <1>5, <1>8, DocumentFacts
<1>10. UNCHANGED <<CashTransaction, PaymentAllocation, call>>
  BY DEF EditDocument
<1> QED  BY <1>9, <1>10 DEF DocumentsMoved

\* post and unpost of a document.
LEMMA SetStatusMoves ==
  ASSUME TablesOK, NEW d \in Documents, NEW old, NEW new \in {"DRAFT", "POSTED"},
         SetStatus(d, old, new)
  PROVE  DocumentsMoved
<1>1. documents' = [documents EXCEPT ![d].status = new] /\ d \in DOMAIN documents
  BY DEF SetStatus
<1>2. PICK r : r = [documents[d] EXCEPT !.status = new]
  OBVIOUS
<1>3. r \in DocumentRow /\ r.paidAmount = documents[d].paidAmount
  BY <1>1, <1>2, DocumentFacts DEF DocumentRow
<1>4. documents' = [documents EXCEPT ![d] = r]
  BY <1>1, <1>2
<1>5. /\ DOMAIN documents' = DOMAIN documents
      /\ documents' \in [DOMAIN documents' -> DocumentRow]
      /\ \A e \in DOMAIN documents : documents'[e].paidAmount = documents[e].paidAmount
  BY <1>1, <1>3, <1>4, DocumentFacts
<1>6. UNCHANGED <<CashTransaction, PaymentAllocation, call>>
  BY DEF SetStatus
<1> QED  BY <1>5, <1>6 DEF DocumentsMoved

\* DELETE of a document: the allocations that pay it stay.
LEMMA DeleteDocumentMoves ==
  ASSUME TablesOK, NEW d \in Documents, DeleteDocument(d)
  PROVE  DocumentsMoved
<1>1. documents' = Without(documents, {d})
  BY DEF DeleteDocument
<1>2. /\ DOMAIN documents' \subseteq DOMAIN documents
      /\ documents' \in [DOMAIN documents' -> DocumentRow]
      /\ \A e \in DOMAIN documents' : documents'[e].paidAmount = documents[e].paidAmount
  BY <1>1, DocumentFacts DEF Without
<1>3. UNCHANGED <<CashTransaction, PaymentAllocation, call>>
  BY DEF DeleteDocument
<1> QED  BY <1>2, <1>3 DEF DocumentsMoved

\* Nothing is paid at the start.
LEMMA InitInv == Init => Inv
<1> SUFFICES ASSUME Init PROVE Inv
  OBVIOUS
<1>1. /\ documents \in [Documents -> {Draft(v) : v \in Versions}] /\ CashTransaction = << >>
      /\ PaymentAllocation = [t \in Transactions |-> [a \in AllocationId |-> 0]]
      /\ call = [c \in Clients |-> Idle]
  BY DEF Init
<1>2. \A v \in Versions : Draft(v) \in DocumentRow /\ Draft(v).paidAmount = 0
  <2> TAKE v \in Versions
  <2>1. v.amount \in Nat /\ v.date \in Dates /\ v.counterpartyId \in Counterparties
    BY ContentAssumption
  <2> QED  BY <2>1 DEF Draft, DocumentRow
<1>3. DOMAIN documents = Documents
      /\ \A d \in Documents : documents[d] \in DocumentRow /\ documents[d].paidAmount = 0
  BY <1>1, <1>2
<1>4. documents \in [DOMAIN documents -> DocumentRow]
  BY <1>1, <1>3
<1>5. DOMAIN CashTransaction = {} /\ CashTransaction \in [DOMAIN CashTransaction -> TransactionRow]
  BY <1>1
<1>6. PaymentAllocation \in [Transactions -> [AllocationId -> Nat]]
  BY <1>1
<1>7. TablesOK
  BY <1>3, <1>4, <1>5, <1>6 DEF TablesOK
<1>8. \A t \in Transactions : RowsOf(t) = {}
  BY <1>1 DEF RowsOf
<1>9. SpentOnce
  BY <1>5, <1>8 DEF SpentOnce
<1>10. PaidIsAllocated
  <2> SUFFICES ASSUME NEW d \in Payable \cap DOMAIN documents
               PROVE  documents[d].paidAmount =
                        Total([t \in Transactions |-> AllocatedTo(t, d)], Transactions)
    BY DEF PaidIsAllocated
  <2>1. PICK f : f = [t \in Transactions |-> AllocatedTo(t, d)]
    OBVIOUS
  <2>2. \A t \in Transactions : f[t] = 0
    BY <1>7, <1>8, <2>1, AllocatedNat
  <2>3. Total(f, Transactions) = 0
    BY <2>2, TotalZero
  <2> QED  BY <1>3, <2>1, <2>3
<1>11. \A c \in Clients : call[c] = Idle
  BY <1>1
<1>12. call \in [Clients -> Calls]
  BY <1>1, IdleIsCall
<1>13. Exclusive /\ \A c \in Clients : CallOK(call[c])
  BY <1>11, IdleIsCall DEF Exclusive
<1> QED  BY <1>7, <1>9, <1>10, <1>12, <1>13 DEF Inv

\* Every step keeps the invariant while nobody edits a transaction during another's call.
LEMMA NextInv ==
  ASSUME OneCallPerTransaction
  PROVE  Inv /\ [Next]_vars => Inv'
<1> SUFFICES ASSUME Inv, [Next]_vars PROVE Inv'
  OBVIOUS
<1>0. TablesOK
  BY DEF Inv
<1>1. ASSUME NEW d \in Documents, NEW v \in Versions, EditDocument(d, v) PROVE Inv'
  BY <1>0, <1>1, EditDocumentMoves, DocumentsMove
<1>2. ASSUME NEW d \in Documents, PostDocument(d) \/ UnpostDocument(d) PROVE Inv'
  BY <1>0, <1>2, SetStatusMoves, DocumentsMove DEF PostDocument, UnpostDocument
<1>3. ASSUME NEW d \in Documents, DeleteDocument(d) PROVE Inv'
  BY <1>0, <1>3, DeleteDocumentMoves, DocumentsMove
<1>4. ASSUME NEW c \in Clients, NEW t \in Transactions, NEW row \in Requests,
             BeginCreate(c, t, row)
      PROVE  Inv'
  <2>1. row.amount \in Nat /\ row \in Requests \cup {NULL}
    BY ContentAssumption
  <2>2. AfterRow(row) \in {"unpaid", "commit"}
    BY DEF AfterRow
  <2>3. row # NULL
    BY ContentAssumption
  <2>4. t \notin DOMAIN CashTransaction /\ Begin(c, "create", t, row, AfterRow(row))
    BY <1>4 DEF BeginCreate
  <2> QED  BY <2>1, <2>2, <2>3, <2>4, BeginKeeps
<1>5. ASSUME NEW c \in Clients, NEW t \in Transactions, NEW row \in Requests,
             BeginUpdate(c, t, row)
      PROVE  Inv'
  <2>1. row.amount \in Nat /\ row \in Requests \cup {NULL} /\ row # NULL
    BY ContentAssumption
  <2>2. /\ t \in DOMAIN CashTransaction /\ ~CashTransaction[t].isDeleted
        /\ Begin(c, "update", t, row, "read")
    BY <1>5 DEF BeginUpdate
  <2> QED  BY <2>1, <2>2, BeginKeeps
<1>6. ASSUME NEW c \in Clients, NEW t \in Transactions, BeginDelete(c, t) PROVE Inv'
  <2>1. t \in DOMAIN CashTransaction /\ Begin(c, "delete", t, NULL, "read")
    BY <1>6 DEF BeginDelete
  <2> QED  BY <2>1, BeginKeeps
<1>7. ASSUME NEW c \in Clients, Step(c) PROVE Inv'
  BY <1>7, ReadAllocationsKeeps, UpdatePaidKeeps, SeeRowsKeeps, DropRowsKeeps, WriteRowKeeps,
     ReadUnpaidKeeps, CommitKeeps DEF Step
<1>8. ASSUME NEW c \in Clients, Fail(c) PROVE Inv'
  BY <1>8, FailKeeps
<1>9. CASE UNCHANGED vars
  <2>1. /\ UNCHANGED <<CashTransaction, PaymentAllocation, call>> /\ documents' = documents
    BY <1>9 DEF vars, tables
  <2> QED  BY <1>0, <2>1, DocumentFacts, DocumentsMove DEF DocumentsMoved
<1> QED  BY <1>1, <1>2, <1>3, <1>4, <1>5, <1>6, <1>7, <1>8, <1>9 DEF Next

\* The inductive invariant holds in every state.
LEMMA SpecInv ==
  ASSUME OneCallPerTransaction
  PROVE  Spec => []Inv
<1>1. Inv /\ [Next]_vars => Inv'
  BY NextInv
<1> QED  BY <1>1, InitInv, PTL DEF Spec

\* paidAmount is what payments allocate, though every call adds and subtracts from a
\* state it has not locked and documents change under the payments.
THEOREM PaidIsWhatIsAllocated ==
  ASSUME OneCallPerTransaction
  PROVE  Spec => []PaidIsAllocated
<1>1. Inv => PaidIsAllocated
  BY DEF Inv
<1> QED  BY <1>1, SpecInv, PTL

\* No payment allocates more than its amount or to documents of the other kind, and one
\* that is deleted allocates nothing.
THEOREM PaymentSpentOnce ==
  ASSUME OneCallPerTransaction
  PROVE  Spec => []SpentOnce
<1>1. Inv => SpentOnce
  BY DEF Inv
<1> QED  BY <1>1, SpecInv, PTL

-----------------------------------------------------------------------------
(* Types, whatever calls are about one transaction at once.                *)

\* A call that changes documents has one to go on with, a call that pays adds, and
\* a call that writes a row has the request.
Typed(k) ==
  /\ k.pc # "idle" => k.id \in Transactions
  /\ k.op \in {"create", "update"} => k.row # NULL
  /\ k.pc \in {"revert", "pay"} => k.todo # << >>
  /\ k.pc = "pay" => \A d \in Payable : k.plan[d] \in Nat

\* The types, and what keeps them.
TypeInv ==
  /\ TablesOK
  /\ call \in [Clients -> Calls]
  /\ \A c \in Clients : Typed(call[c])

\* What a call is.
LEMMA TypedCall ==
  ASSUME TypeInv, NEW c \in Clients
  PROVE  call[c] \in Calls /\ Typed(call[c]) /\ TablesOK
BY DEF TypeInv

\* A call that goes on.
LEMMA TypedMove ==
  ASSUME TypeInv, NEW c \in Clients, NEW k \in Calls, Typed(k),
         call' = [call EXCEPT ![c] = k], TablesOK'
  PROVE  TypeInv'
<1>1. /\ call' \in [Clients -> Calls] /\ call'[c] = k
      /\ \A e \in Clients \ {c} : call'[e] = call[e]
  BY DEF TypeInv
<1>2. \A e \in Clients : Typed(call'[e])
  BY <1>1 DEF TypeInv
<1> QED  BY <1>1, <1>2 DEF TypeInv, Typed

\* The tables keep their types while they do not change.
LEMMA TablesStay ==
  ASSUME TypeInv, UNCHANGED tables
  PROVE  TablesOK'
BY DEF TypeInv, TablesOK, tables

\* BEGIN.
LEMMA BeginTyped ==
  ASSUME TypeInv, NEW c \in Clients, NEW t \in Transactions,
         NEW op \in {"create", "update", "delete"}, NEW pc \in {"read", "unpaid", "commit"},
         NEW row \in Requests \cup {NULL}, Begin(c, op, t, row, pc), op # "delete" => row # NULL
  PROVE  TypeInv'
<1>1. PICK k : k = [Idle EXCEPT !.op = op, !.pc = pc, !.id = t, !.row = row]
  OBVIOUS
<1>2. k \in Calls /\ k.op = op /\ k.pc = pc /\ k.id = t /\ k.row = row
  BY <1>1, IdleIsCall DEF Calls
<1>3. call' = [call EXCEPT ![c] = k] /\ UNCHANGED tables
  BY <1>1 DEF Begin
<1> QED  BY <1>2, <1>3, TablesStay, TypedMove DEF Typed

\* ROLLBACK.
LEMMA FailTyped ==
  ASSUME TypeInv, NEW c \in Clients, Fail(c)
  PROVE  TypeInv'
<1>1. Typed(Idle)
  BY IdleIsCall DEF Typed
<1>2. call' = [call EXCEPT ![c] = Idle] /\ UNCHANGED tables
  BY DEF Fail
<1> QED  BY <1>1, <1>2, IdleIsCall, TablesStay, TypedMove

\* SELECT of the allocations.
LEMMA ReadAllocationsTyped ==
  ASSUME TypeInv, NEW c \in Clients, ReadAllocations(c)
  PROVE  TypeInv'
<1>1. PICK o, t, D : /\ o = call[c] /\ t = call[c].id
                     /\ D = {d \in Payable : AllocatedTo(t, d) > 0}
  OBVIOUS
<1>2. PICK s \in Orderings(D, FALSE) :
        call' = [call EXCEPT ![c].pc = IF D = {} THEN "drop" ELSE "revert", ![c].todo = s,
                             ![c].plan = [d \in Payable |-> 0 - AllocatedTo(t, d)]]
  BY <1>1 DEF ReadAllocations
<1>3. o \in Calls /\ Typed(o) /\ TablesOK /\ o.pc = "read" /\ t \in Transactions /\ UNCHANGED tables
  BY <1>1, TypedCall DEF ReadAllocations, Typed
<1>4. s \in Seq(Payable) /\ (D # {} => s # << >>)
  BY <1>1, OrderingsListAll
<1>5. PICK plan \in [Payable -> Int] : plan = [d \in Payable |-> 0 - AllocatedTo(t, d)]
  <2>1. \A d \in Payable : 0 - AllocatedTo(t, d) \in Int
    BY <1>3, AllocatedNat
  <2> QED  BY <2>1
<1>6. PICK k : k = [o EXCEPT !.pc = IF D = {} THEN "drop" ELSE "revert", !.todo = s,
                             !.plan = plan]
  OBVIOUS
<1>7. call' = [call EXCEPT ![c] = k]
  BY <1>1, <1>2, <1>5, <1>6 DEF TypeInv
<1>8. /\ k \in Calls /\ k.pc = (IF D = {} THEN "drop" ELSE "revert") /\ k.todo = s
      /\ k.op = o.op /\ k.id = t /\ k.row = o.row
  BY <1>1, <1>3, <1>4, <1>6 DEF Calls
<1>9. Typed(k)
  BY <1>3, <1>4, <1>8 DEF Typed
<1> QED  BY <1>3, <1>7, <1>8, <1>9, TablesStay, TypedMove

\* UPDATE of paidAmount: what is inserted when paying is not negative.
LEMMA UpdatePaidTyped ==
  ASSUME TypeInv, NEW c \in Clients, UpdatePaid(c)
  PROVE  TypeInv'
<1>1. PICK o, d, todo, n :
        /\ o = call[c] /\ d = Head(o.todo) /\ todo = Tail(o.todo)
        /\ n = (IF Len(o.todo) > 1 THEN o.pc ELSE IF o.pc = "pay" THEN "commit" ELSE "drop")
  OBVIOUS
<1>2. o \in Calls /\ Typed(o) /\ o.pc \in {"revert", "pay"} /\ UNCHANGED tables
  BY <1>1, TypedCall DEF UpdatePaid
<1>3. o.todo \in Seq(Payable) /\ o.todo # << >> /\ o.id \in Transactions
      /\ (o.pc = "pay" => \A x \in Payable : o.plan[x] \in Nat)
  BY <1>2 DEF Typed, Calls
<1>4. d \in Payable /\ todo \in Seq(Payable) /\ (Len(o.todo) > 1 => todo # << >>)
  <2>1. PICK s \in Seq(Payable) : s = o.todo
    BY <1>3
  <2>2. s # << >>
    BY <1>3, <2>1
  <2>3. Tail(s) \in Seq(Payable) /\ Len(s) \in Nat /\ Len(Tail(s)) = Len(s) - 1
    BY <2>2
  <2>4. Head(s) \in Payable
    BY <2>2
  <2>5. Len(s) > 1 => Len(Tail(s)) # Len(<< >>)
    BY <2>3
  <2> QED  BY <1>1, <2>1, <2>3, <2>4, <2>5
<1>5. PICK delta, added, holds :
        /\ delta = [o.delta EXCEPT ![d] =
             IF d \in DOMAIN documents THEN o.delta[d] + o.plan[d] ELSE o.delta[d]]
        /\ added = [o.added EXCEPT ![d] = IF o.pc = "pay" THEN o.plan[d] ELSE o.added[d]]
        /\ holds = (IF d \in DOMAIN documents THEN o.holds \cup {d} ELSE o.holds)
  OBVIOUS
<1>6. delta \in [Payable -> Int]
  <2>1. o.delta \in [Payable -> Int] /\ o.delta[d] \in Int /\ o.plan[d] \in Int
    BY <1>2, <1>4 DEF Calls
  <2>2. o.delta[d] + o.plan[d] \in Int
    BY <2>1
  <2> QED  BY <1>5, <2>1, <2>2
<1>7. added \in [Payable -> Nat]
  <2>1. o.added \in [Payable -> Nat] /\ o.added[d] \in Nat
    BY <1>2, <1>4 DEF Calls
  <2>2. o.pc = "pay" => o.plan[d] \in Nat
    BY <1>3, <1>4
  <2> QED  BY <1>5, <2>1, <2>2
<1>8. holds \in SUBSET (Payable \cup Transactions)
  BY <1>2, <1>4, <1>5 DEF Calls
<1>9. PICK k : k = [o EXCEPT !.pc = n, !.todo = todo, !.delta = delta, !.added = added,
                             !.holds = holds]
  OBVIOUS
<1>10. call' = [call EXCEPT ![c] = k]
  <2>1. PICK m : m = [o EXCEPT !.pc = n, !.todo = Tail(o.todo),
              !.delta[d] = IF d \in DOMAIN documents THEN o.delta[d] + o.plan[d] ELSE o.delta[d],
              !.added[d] = IF o.pc = "pay" THEN o.plan[d] ELSE o.added[d],
              !.holds = IF d \in DOMAIN documents THEN o.holds \cup {d} ELSE o.holds]
    OBVIOUS
  <2>2. call' = [call EXCEPT ![c] = m]
    BY <1>1, <2>1 DEF UpdatePaid
  <2>3. m = k
    BY <1>1, <1>2, <1>5, <1>9, <2>1 DEF Calls
  <2> QED  BY <2>2, <2>3
<1>11. k = [op |-> o.op, pc |-> n, id |-> o.id, row |-> o.row, plan |-> o.plan, todo |-> todo,
            delta |-> delta, seen |-> o.seen, dropped |-> o.dropped, added |-> added,
            holds |-> holds]
  BY <1>2, <1>9 DEF Calls
<1>12. n \in {"revert", "pay", "drop", "commit"} /\ (n \in {"revert", "pay"} => n = o.pc /\ todo # << >>)
  BY <1>1, <1>2, <1>4
<1>13. k \in Calls
  BY <1>2, <1>4, <1>6, <1>7, <1>8, <1>11, <1>12 DEF Calls
<1>14. Typed(k)
  BY <1>2, <1>3, <1>11, <1>12 DEF Typed
<1> QED  BY <1>2, <1>10, <1>13, <1>14, TablesStay, TypedMove

\* The two halves of the DELETE of the allocations.
LEMMA DeleteRowsTyped ==
  ASSUME TypeInv, NEW c \in Clients, SeeRows(c) \/ DropRows(c)
  PROVE  TypeInv'
<1>1. PICK o, seen, dropped : /\ o = call[c] /\ seen = RowsOf(o.id)
                              /\ dropped = o.seen \cap RowsOf(o.id)
  OBVIOUS
<1>2. o \in Calls /\ Typed(o) /\ o.pc \in {"drop", "dropping"} /\ UNCHANGED tables
  BY <1>1, TypedCall DEF SeeRows, DropRows
<1>3. seen \in SUBSET AllocationId /\ dropped \in SUBSET AllocationId
  BY <1>1 DEF RowsOf
<1>4. PICK k, j : /\ k = [o EXCEPT !.pc = "dropping", !.seen = seen]
                  /\ j = [o EXCEPT !.pc = "row", !.dropped = dropped]
  OBVIOUS
<1>5. k \in Calls /\ k.op = o.op /\ k.pc = "dropping" /\ k.id = o.id /\ k.row = o.row
  BY <1>2, <1>3, <1>4 DEF Calls
<1>6. j \in Calls /\ j.op = o.op /\ j.pc = "row" /\ j.id = o.id /\ j.row = o.row
  BY <1>2, <1>3, <1>4 DEF Calls
<1>7. Typed(k) /\ Typed(j)
  BY <1>2, <1>5, <1>6 DEF Typed
<1>8. SeeRows(c) => call' = [call EXCEPT ![c] = k]
  BY <1>1, <1>4 DEF SeeRows, TypeInv
<1>9. DropRows(c) => call' = [call EXCEPT ![c] = j]
  BY <1>1, <1>4 DEF DropRows, TypeInv
<1> QED  BY <1>2, <1>5, <1>6, <1>7, <1>8, <1>9, TablesStay, TypedMove

\* UPDATE of the row of the transaction.
LEMMA WriteRowTyped ==
  ASSUME TypeInv, NEW c \in Clients, WriteRow(c)
  PROVE  TypeInv'
<1>1. PICK o, n : /\ o = call[c]
                  /\ n = IF o.op = "update" THEN AfterRow(o.row) ELSE "commit"
  OBVIOUS
<1>2. o \in Calls /\ Typed(o) /\ o.pc = "row" /\ UNCHANGED tables
  BY <1>1, TypedCall DEF WriteRow
<1>3. PICK holds : holds = o.holds \cup {o.id}
  OBVIOUS
<1>4. PICK k : k = [o EXCEPT !.holds = holds, !.pc = n]
  OBVIOUS
<1>5. call' = [call EXCEPT ![c] = k]
  BY <1>1, <1>3, <1>4 DEF WriteRow, TypeInv
<1>6. holds \in SUBSET (Payable \cup Transactions) /\ n \in {"unpaid", "commit"}
  BY <1>1, <1>2, <1>3 DEF Calls, AfterRow, Typed
<1>7. k \in Calls /\ k.op = o.op /\ k.id = o.id /\ k.row = o.row /\ k.pc = n
  BY <1>2, <1>4, <1>6 DEF Calls
<1>8. Typed(k)
  BY <1>2, <1>6, <1>7 DEF Typed
<1> QED  BY <1>2, <1>5, <1>7, <1>8, TablesStay, TypedMove

\* SELECT of the debts: what is planned is not negative.
LEMMA ReadUnpaidTyped ==
  ASSUME TypeInv, NEW c \in Clients, ReadUnpaid(c)
  PROVE  TypeInv'
<1>1. PICK o : o = call[c]
  OBVIOUS
<1>2. o \in Calls /\ Typed(o) /\ o.pc = "unpaid" /\ UNCHANGED tables
  BY <1>1, TypedCall DEF ReadUnpaid
<1>3. PICK take \in [Unpaid(c) -> 0 .. call[c].row.amount] :
        LET D == {d \in Unpaid(c) : take[d] > 0}
        IN  \E s \in Orderings(D, TRUE) :
              call' = [call EXCEPT ![c].pc = IF D = {} THEN "commit" ELSE "pay",
                ![c].todo = s,
                ![c].plan = [d \in Payable |-> IF d \in D THEN take[d] ELSE 0]]
  BY DEF ReadUnpaid
<1>4. PICK D, plan : /\ D = {d \in Unpaid(c) : take[d] > 0}
                     /\ plan = [d \in Payable |-> IF d \in D THEN take[d] ELSE 0]
  OBVIOUS
<1>5. PICK s \in Orderings(D, TRUE) :
        call' = [call EXCEPT ![c].pc = IF D = {} THEN "commit" ELSE "pay",
                             ![c].todo = s, ![c].plan = plan]
  BY <1>3, <1>4
<1>6. \A d \in D : take[d] \in Nat
  <2>1. PICK n : n = call[c].row.amount
    OBVIOUS
  <2>2. \A d \in D : take[d] \in 0 .. n
    BY <1>3, <1>4, <2>1
  <2>3. \A x \in 0 .. n : x \in Nat
    OBVIOUS
  <2> QED  BY <2>2, <2>3
<1>7. D \in SUBSET Payable
  BY <1>4 DEF Unpaid, Payable
<1>8. s \in Seq(Payable) /\ (D # {} => s # << >>)
  BY <1>7, OrderingsListAll
<1>9. plan \in [Payable -> Nat] /\ plan \in [Payable -> Int]
  BY <1>4, <1>6
<1>10. PICK k : k = [o EXCEPT !.pc = IF D = {} THEN "commit" ELSE "pay", !.todo = s,
                              !.plan = plan]
  OBVIOUS
<1>11. call' = [call EXCEPT ![c] = k]
  BY <1>1, <1>5, <1>10 DEF TypeInv
<1>12. /\ k \in Calls /\ k.pc = (IF D = {} THEN "commit" ELSE "pay") /\ k.todo = s
       /\ k.plan = plan /\ k.op = o.op /\ k.id = o.id /\ k.row = o.row
  <2>1. k = [op |-> o.op, pc |-> IF D = {} THEN "commit" ELSE "pay", id |-> o.id, row |-> o.row,
             plan |-> plan, todo |-> s, delta |-> o.delta, seen |-> o.seen,
             dropped |-> o.dropped, added |-> o.added, holds |-> o.holds]
    BY <1>2, <1>10 DEF Calls
  <2> QED  BY <1>2, <1>8, <1>9, <2>1 DEF Calls
<1>13. Typed(k)
  BY <1>2, <1>8, <1>9, <1>12 DEF Typed
<1> QED  BY <1>2, <1>11, <1>12, <1>13, TablesStay, TypedMove

\* COMMIT writes rows of their types.
LEMMA CommitTyped ==
  ASSUME TypeInv, NEW c \in Clients, Commit(c)
  PROVE  TypeInv'
<1>1. PICK o, t : o = call[c] /\ t = o.id
  OBVIOUS
<1>2. o \in Calls /\ Typed(o) /\ TablesOK /\ o.pc = "commit" /\ t \in Transactions
  BY <1>1, TypedCall DEF Commit, Typed
<1>3. documents' \in [DOMAIN documents -> DocumentRow]
  <2>1. documents' = [d \in DOMAIN documents |->
             IF d \in Payable
             THEN [documents[d] EXCEPT !.paidAmount = documents[d].paidAmount + o.delta[d]]
             ELSE documents[d]]
    BY <1>1 DEF Commit, PaidAfter
  <2>2. ASSUME NEW d \in DOMAIN documents PROVE documents'[d] \in DocumentRow
    <3>1. documents[d] \in DocumentRow /\ documents[d].paidAmount \in Int
      BY <1>2, DocumentFacts
    <3>2. CASE d \in Payable
      <4>1. o.delta[d] \in Int
        BY <1>2, <3>2 DEF Calls
      <4>2. PICK p \in Int : p = documents[d].paidAmount + o.delta[d]
        BY <3>1, <4>1
      <4>3. documents'[d] = [documents[d] EXCEPT !.paidAmount = p]
        BY <2>1, <3>2, <4>2
      <4> QED  BY <3>1, <4>3 DEF DocumentRow
    <3>3. CASE d \notin Payable
      BY <2>1, <3>1, <3>3
    <3> QED  BY <3>2, <3>3
  <2> QED  BY <2>1, <2>2
<1>4. PaymentAllocation' \in [Transactions -> [AllocationId -> Nat]]
  <2>1. PICK R : R = RowsAfter(c)
    OBVIOUS
  <2>2. R = [a \in AllocationId |->
               IF a[1] = c /\ o.added[a[2]] > 0 THEN o.added[a[2]]
               ELSE IF a \in o.dropped THEN 0 ELSE PaymentAllocation[t][a]]
    BY <1>1, <2>1 DEF RowsAfter
  <2>3. \A a \in AllocationId : R[a] \in Nat
    <3> TAKE a \in AllocationId
    <3>1. o.added[a[2]] \in Nat
      BY <1>2 DEF Calls, AllocationId
    <3>2. PaymentAllocation[t][a] \in Nat
      BY <1>2 DEF TablesOK
    <3> QED  BY <2>2, <3>1, <3>2
  <2>4. R \in [AllocationId -> Nat]
    BY <2>2, <2>3
  <2>5. PaymentAllocation' = [PaymentAllocation EXCEPT ![t] = R]
    BY <1>1, <2>1 DEF Commit
  <2> QED  BY <1>2, <2>4, <2>5 DEF TablesOK
<1>5. /\ DOMAIN CashTransaction' \subseteq Transactions
      /\ CashTransaction' \in [DOMAIN CashTransaction' -> TransactionRow]
  <2>1. PICK T : T = CashTransaction'
    OBVIOUS
  <2>2. /\ DOMAIN CashTransaction \subseteq Transactions
        /\ CashTransaction \in [DOMAIN CashTransaction -> TransactionRow]
        /\ o.op \in {"create", "update"} => o.row \in Requests
    BY <1>2 DEF TablesOK, Typed, Calls
  <2>3. \A u \in DOMAIN CashTransaction : CashTransaction[u] \in TransactionRow
    BY <2>2
  <2>4. CASE o.op = "create"
    <3>1. T = Put(CashTransaction, t, [row |-> o.row, isDeleted |-> FALSE])
      BY <1>1, <2>1, <2>4 DEF Commit
    <3>2. [row |-> o.row, isDeleted |-> FALSE] \in TransactionRow
      BY <2>2, <2>4 DEF TransactionRow
    <3>3. DOMAIN T = DOMAIN CashTransaction \cup {t} /\ \A u \in DOMAIN T : T[u] \in TransactionRow
      BY <2>3, <3>1, <3>2 DEF Put
    <3>4. T \in [DOMAIN T -> TransactionRow]
      BY <3>1, <3>3 DEF Put
    <3> QED  BY <1>2, <2>1, <2>2, <3>3, <3>4
  <2>5. CASE o.op = "update"
    <3>1. T = [CashTransaction EXCEPT ![t].row = o.row]
      BY <1>1, <2>1, <2>5 DEF Commit
    <3>2. PICK r : r = [CashTransaction[t] EXCEPT !.row = o.row]
      OBVIOUS
    <3>3. t \in DOMAIN CashTransaction => r \in TransactionRow
      BY <2>2, <2>3, <2>5, <3>2 DEF TransactionRow
    <3>4. T = [CashTransaction EXCEPT ![t] = r]
      BY <3>1, <3>2
    <3> QED  BY <2>1, <2>2, <3>3, <3>4
  <2>6. CASE o.op = "delete"
    <3>1. T = [CashTransaction EXCEPT ![t].isDeleted = TRUE]
      BY <1>1, <2>1, <2>6 DEF Commit
    <3>2. PICK r : r = [CashTransaction[t] EXCEPT !.isDeleted = TRUE]
      OBVIOUS
    <3>3. t \in DOMAIN CashTransaction => r \in TransactionRow
      BY <2>3, <3>2 DEF TransactionRow
    <3>4. T = [CashTransaction EXCEPT ![t] = r]
      BY <3>1, <3>2
    <3> QED  BY <2>1, <2>2, <3>3, <3>4
  <2> QED  BY <1>1, <2>4, <2>5, <2>6 DEF Commit
<1>6. TablesOK'
  BY <1>2, <1>3, <1>4, <1>5 DEF TablesOK
<1>7. Typed(Idle)
  BY IdleIsCall DEF Typed
<1>8. call' = [call EXCEPT ![c] = Idle]
  BY DEF Commit
<1> QED  BY <1>6, <1>7, <1>8, IdleIsCall, TypedMove

\* A step on the documents.
LEMMA DocumentsTyped ==
  ASSUME TypeInv, DocumentsMoved
  PROVE  TypeInv'
BY DEF TypeInv, TablesOK, DocumentsMoved, Typed

\* Every step keeps the types.
LEMMA NextTyped == TypeInv /\ [Next]_vars => TypeInv'
<1> SUFFICES ASSUME TypeInv, [Next]_vars PROVE TypeInv'
  OBVIOUS
<1>0. TablesOK
  BY DEF TypeInv
<1>1. ASSUME NEW d \in Documents, NEW v \in Versions, EditDocument(d, v) PROVE TypeInv'
  BY <1>0, <1>1, EditDocumentMoves, DocumentsTyped
<1>2. ASSUME NEW d \in Documents, PostDocument(d) \/ UnpostDocument(d) PROVE TypeInv'
  BY <1>0, <1>2, SetStatusMoves, DocumentsTyped DEF PostDocument, UnpostDocument
<1>3. ASSUME NEW d \in Documents, DeleteDocument(d) PROVE TypeInv'
  BY <1>0, <1>3, DeleteDocumentMoves, DocumentsTyped
<1>4. ASSUME NEW c \in Clients, NEW t \in Transactions, NEW row \in Requests,
             BeginCreate(c, t, row) \/ BeginUpdate(c, t, row)
      PROVE  TypeInv'
  <2>1. row # NULL /\ row \in Requests \cup {NULL}
    BY ContentAssumption
  <2>2. AfterRow(row) \in {"unpaid", "commit"}
    BY DEF AfterRow
  <2>3. \/ Begin(c, "create", t, row, AfterRow(row))
        \/ Begin(c, "update", t, row, "read")
    BY <1>4 DEF BeginCreate, BeginUpdate
  <2> QED  BY <2>1, <2>2, <2>3, BeginTyped
<1>5. ASSUME NEW c \in Clients, NEW t \in Transactions, BeginDelete(c, t) PROVE TypeInv'
  <2>1. Begin(c, "delete", t, NULL, "read")
    BY <1>5 DEF BeginDelete
  <2> QED  BY <2>1, BeginTyped
<1>6. ASSUME NEW c \in Clients, Step(c) PROVE TypeInv'
  BY <1>6, ReadAllocationsTyped, UpdatePaidTyped, DeleteRowsTyped, WriteRowTyped,
     ReadUnpaidTyped, CommitTyped DEF Step
<1>7. ASSUME NEW c \in Clients, Fail(c) PROVE TypeInv'
  BY <1>7, FailTyped
<1>8. CASE UNCHANGED vars
  BY <1>8 DEF vars, tables, TypeInv, TablesOK, Typed
<1> QED  BY <1>1, <1>2, <1>3, <1>4, <1>5, <1>6, <1>7, <1>8 DEF Next

\* The types hold in every state.
LEMMA SpecTyped == Spec => []TypeInv
<1>1. Init => TypeInv
  <2> SUFFICES ASSUME Init PROVE TypeInv
    OBVIOUS
  <2>1. Inv
    BY InitInv
  <2>2. \A c \in Clients : call[c] = Idle
    BY DEF Init
  <2>3. \A c \in Clients : Typed(call[c])
    BY <2>2, IdleIsCall DEF Typed
  <2> QED  BY <2>1, <2>3 DEF Inv, TypeInv
<1> QED  BY <1>1, NextTyped, PTL DEF Spec

\* Documents, payments, allocations and calls keep their types, however many calls
\* edit one transaction at once: what is allocated is never negative.
THEOREM TypeCorrect == Spec => []TypeOK
<1>1. TypeInv => TypeOK
  BY DEF TypeInv, TablesOK, Calls, TypeOK, IsTable, IsCall
<1> QED  BY <1>1, SpecTyped, PTL

-----------------------------------------------------------------------------
(* The reports on money.                                                   *)

\* What the reports read.
LEMMA ReportRows ==
  ASSUME TablesOK
  PROVE  /\ \A D \in SUBSET DOMAIN documents : IsFiniteSet(D)
         /\ \A d \in DOMAIN documents :
              /\ d \in Documents
              /\ documents[d].amount \in Nat /\ documents[d].paidAmount \in Int
              /\ documents[d].date \in Int /\ documents[d].counterpartyId \in Counterparties
         /\ \A T \in SUBSET Live : IsFiniteSet(T)
         /\ \A t \in Live :
              /\ t \in Transactions
              /\ CashTransaction[t].row.amount \in Nat /\ CashTransaction[t].row.date \in Int
              /\ CashTransaction[t].row.type \in {"INCOME", "OUTCOME"}
<1>1. IsFiniteSet(Documents)
  BY Finite, KindsAssumption, FS_Union DEF Documents
<1>2. \A D \in SUBSET DOMAIN documents : IsFiniteSet(D)
  BY <1>1, FS_Subset DEF TablesOK
<1>3. \A d \in DOMAIN documents : documents[d] \in DocumentRow /\ d \in Documents
  BY DEF TablesOK
<1>4. Live \subseteq Transactions
  BY DEF Live, TablesOK
<1>5. \A T \in SUBSET Live : IsFiniteSet(T)
  BY <1>4, Finite, FS_Subset
<1>6. \A t \in Live : CashTransaction[t].row \in Requests
  BY DEF Live, TablesOK, TransactionRow
<1>7. \A d \in DOMAIN documents :
        /\ documents[d].amount \in Nat /\ documents[d].paidAmount \in Int
        /\ documents[d].date \in Int /\ documents[d].counterpartyId \in Counterparties
  BY <1>3, ContentAssumption DEF DocumentRow
<1>8. \A t \in Live :
        /\ CashTransaction[t].row.amount \in Nat /\ CashTransaction[t].row.date \in Int
        /\ CashTransaction[t].row.type \in {"INCOME", "OUTCOME"}
  BY <1>6, ContentAssumption
<1> QED  BY <1>2, <1>3, <1>4, <1>5, <1>7, <1>8

\* The amounts of documents of two kinds add up.
LEMMA AmountsAddUp ==
  ASSUME TablesOK, NEW D \in SUBSET DOMAIN documents, NEW E \in SUBSET DOMAIN documents,
         D \cap E = {}
  PROVE  /\ AmountOf(D \cup E) = AmountOf(D) + AmountOf(E)
         /\ AmountOf(D) \in Nat /\ AmountOf(E) \in Nat
<1>1. PICK f : f = [d \in DOMAIN documents |-> documents[d].amount]
  OBVIOUS
<1>2. \A d \in DOMAIN documents : f[d] \in Nat /\ f[d] = documents[d].amount
  BY <1>1, ReportRows
<1>3. \A F \in SUBSET DOMAIN documents : AmountOf(F) = Total(f, F)
  <2> TAKE F \in SUBSET DOMAIN documents
  <2>1. PICK g : g = [d \in F |-> documents[d].amount]
    OBVIOUS
  <2>2. \A d \in F : g[d] = f[d]
    BY <1>2, <2>1
  <2> QED  BY <2>1, <2>2, TotalEqual DEF AmountOf
<1>4. IsFiniteSet(D) /\ IsFiniteSet(E)
  BY ReportRows
<1>5. \A d \in D \cup E : f[d] \in Nat
  BY <1>2
<1>6. Total(f, D \cup E) = Total(f, D) + Total(f, E)
  BY <1>4, <1>5, TotalUnion
<1>7. Total(f, D) \in Nat /\ Total(f, E) \in Nat
  BY <1>4, <1>5, TotalNat
<1>8. D \cup E \in SUBSET DOMAIN documents
  OBVIOUS
<1> QED  BY <1>3, <1>6, <1>7, <1>8

\* The amounts of transactions add up.
LEMMA SumsAddUp ==
  ASSUME TablesOK, NEW D \in SUBSET Live, NEW E \in SUBSET Live, D \cap E = {}
  PROVE  /\ SumOf(D \cup E) = SumOf(D) + SumOf(E)
         /\ SumOf(D) \in Nat /\ SumOf(E) \in Nat
<1>1. PICK f : f = [t \in Live |-> CashTransaction[t].row.amount]
  OBVIOUS
<1>2. \A t \in Live : f[t] \in Nat /\ f[t] = CashTransaction[t].row.amount
  BY <1>1, ReportRows
<1>3. \A F \in SUBSET Live : SumOf(F) = Total(f, F)
  <2> TAKE F \in SUBSET Live
  <2>1. PICK g : g = [t \in F |-> CashTransaction[t].row.amount]
    OBVIOUS
  <2>2. \A t \in F : g[t] = f[t]
    BY <1>2, <2>1
  <2> QED  BY <2>1, <2>2, TotalEqual DEF SumOf
<1>4. IsFiniteSet(D) /\ IsFiniteSet(E)
  BY ReportRows
<1>5. \A t \in D \cup E : f[t] \in Nat
  BY <1>2
<1>6. Total(f, D \cup E) = Total(f, D) + Total(f, E)
  BY <1>4, <1>5, TotalUnion
<1>7. Total(f, D) \in Nat /\ Total(f, E) \in Nat
  BY <1>4, <1>5, TotalNat
<1>8. D \cup E \in SUBSET Live
  OBVIOUS
<1> QED  BY <1>3, <1>6, <1>7, <1>8

\* The rows of the ledger change the balance by what the opening balance adds up
\* kind by kind.
LEMMA ChangesOfDocuments ==
  ASSUME TablesOK, NEW D \in SUBSET DOMAIN documents
  PROVE  /\ DocumentChanges(D) =
              AmountOf(D \cap Realizations) - AmountOf(D \cap BuyerReturns)
                - AmountOf(D \cap GoodsReceipts) + AmountOf(D \cap SupplierReturns)
         /\ AmountOf(D \cap Realizations) \in Nat /\ AmountOf(D \cap BuyerReturns) \in Nat
         /\ AmountOf(D \cap GoodsReceipts) \in Nat /\ AmountOf(D \cap SupplierReturns) \in Nat
         /\ DocumentChanges(D) \in Int
<1>1. PICK R, B, G, S : /\ R = D \cap Realizations /\ B = D \cap BuyerReturns
                        /\ G = D \cap GoodsReceipts /\ S = D \cap SupplierReturns
  OBVIOUS
<1>2. /\ R \in SUBSET DOMAIN documents /\ B \in SUBSET DOMAIN documents
      /\ G \in SUBSET DOMAIN documents /\ S \in SUBSET DOMAIN documents
  BY <1>1
<1>3. R \cap S = {} /\ B \cap G = {} /\ (R \cup S) \cap (B \cup G) = {}
  BY <1>1, KindsAssumption, FiniteAssumption DEF Payable
<1>4. D = (R \cup S) \cup (B \cup G)
  BY <1>1, ReportRows DEF Documents, Payable
<1>5. AmountOf(R \cup S) = AmountOf(R) + AmountOf(S) /\ AmountOf(R) \in Nat /\ AmountOf(S) \in Nat
  BY <1>2, <1>3, AmountsAddUp
<1>6. AmountOf(B \cup G) = AmountOf(B) + AmountOf(G) /\ AmountOf(B) \in Nat /\ AmountOf(G) \in Nat
  BY <1>2, <1>3, AmountsAddUp
<1>7. PICK f, a, b : /\ f = [d \in D |-> DocumentChange(d)]
                     /\ a = [d \in D |-> IF d \in R \cup S THEN documents[d].amount ELSE 0]
                     /\ b = [d \in D |-> IF d \in R \cup S THEN 0 ELSE documents[d].amount]
  OBVIOUS
<1>8. \A d \in D : /\ documents[d].amount \in Nat
                   /\ d \in R \cup S <=> d \in Realizations \cup SupplierReturns
  BY <1>1, ReportRows
<1>9. \A d \in D : a[d] \in Nat /\ b[d] \in Nat /\ f[d] = a[d] - b[d]
  BY <1>7, <1>8 DEF DocumentChange
<1>10. IsFiniteSet(D)
  BY ReportRows
<1>11. Net(f, D) = Total(a, D) - Total(b, D) /\ Net(f, D) \in Int
  BY ONLY <1>9, <1>10, NetDifference
<1>12. Total(a, D) = AmountOf(R \cup S)
  <2>1. PICK g : g = [d \in R \cup S |-> documents[d].amount]
    OBVIOUS
  <2>2. /\ \A d \in D \cap (R \cup S) : a[d] = g[d]
        /\ \A d \in D \ (R \cup S) : a[d] = 0
        /\ \A d \in (R \cup S) \ D : g[d] = 0
    BY <1>4, <1>7, <2>1
  <2>3. Total(a, D) = Total(g, R \cup S)
    BY ONLY <2>2, TotalSame
  <2> QED  BY <2>1, <2>3 DEF AmountOf
<1>13. Total(b, D) = AmountOf(B \cup G)
  <2>1. PICK g : g = [d \in B \cup G |-> documents[d].amount]
    OBVIOUS
  <2>2. /\ \A d \in D \cap (B \cup G) : b[d] = g[d]
        /\ \A d \in D \ (B \cup G) : b[d] = 0
        /\ \A d \in (B \cup G) \ D : g[d] = 0
    BY <1>3, <1>4, <1>7, <2>1
  <2>3. Total(b, D) = Total(g, B \cup G)
    BY ONLY <2>2, TotalSame
  <2> QED  BY <2>1, <2>3 DEF AmountOf
<1>14. DocumentChanges(D) = Net(f, D)
  BY <1>7 DEF DocumentChanges
<1> QED  BY <1>1, <1>5, <1>6, <1>11, <1>12, <1>13, <1>14

\* The same for payments.
LEMMA ChangesOfPayments ==
  ASSUME TablesOK, NEW T \in SUBSET Live
  PROVE  /\ PaymentChanges(T) = SumOf(OfType(T, "OUTCOME")) - SumOf(OfType(T, "INCOME"))
         /\ SumOf(OfType(T, "OUTCOME")) \in Nat /\ SumOf(OfType(T, "INCOME")) \in Nat
         /\ PaymentChanges(T) \in Int
<1>1. PICK M, P : M = OfType(T, "INCOME") /\ P = OfType(T, "OUTCOME")
  OBVIOUS
<1>2. /\ M \in SUBSET Live /\ P \in SUBSET Live /\ M \cap P = {} /\ T = M \cup P
      /\ \A t \in T : t \in M <=> CashTransaction[t].row.type = "INCOME"
  BY <1>1, ReportRows DEF OfType
<1>3. SumOf(M) \in Nat /\ SumOf(P) \in Nat
  BY <1>2, SumsAddUp
<1>4. PICK f, a, b : /\ f = [t \in T |-> PaymentChange(t)]
                     /\ a = [t \in T |-> IF t \in M THEN 0 ELSE CashTransaction[t].row.amount]
                     /\ b = [t \in T |-> IF t \in M THEN CashTransaction[t].row.amount ELSE 0]
  OBVIOUS
<1>5. \A t \in T : CashTransaction[t].row.amount \in Nat
  BY ReportRows
<1>6. \A t \in T : a[t] \in Nat /\ b[t] \in Nat /\ f[t] = a[t] - b[t]
  BY <1>2, <1>4, <1>5 DEF PaymentChange
<1>7. IsFiniteSet(T)
  BY ReportRows
<1>8. Net(f, T) = Total(a, T) - Total(b, T) /\ Net(f, T) \in Int
  BY ONLY <1>6, <1>7, NetDifference
<1>9. Total(a, T) = SumOf(P)
  <2>1. PICK g : g = [t \in P |-> CashTransaction[t].row.amount]
    OBVIOUS
  <2>2. /\ \A t \in T \cap P : a[t] = g[t]
        /\ \A t \in T \ P : a[t] = 0
        /\ \A t \in P \ T : g[t] = 0
    BY <1>2, <1>4, <2>1
  <2>3. Total(a, T) = Total(g, P)
    BY ONLY <2>2, TotalSame
  <2> QED  BY <2>1, <2>3 DEF SumOf
<1>10. Total(b, T) = SumOf(M)
  <2>1. PICK g : g = [t \in M |-> CashTransaction[t].row.amount]
    OBVIOUS
  <2>2. /\ \A t \in T \cap M : b[t] = g[t]
        /\ \A t \in T \ M : b[t] = 0
        /\ \A t \in M \ T : g[t] = 0
    BY <1>2, <1>4, <2>1
  <2>3. Total(b, T) = Total(g, M)
    BY ONLY <2>2, TotalSame
  <2> QED  BY <2>1, <2>3 DEF SumOf
<1>11. PaymentChanges(T) = Net(f, T)
  BY <1>4 DEF PaymentChanges
<1> QED  BY <1>1, <1>3, <1>8, <1>9, <1>10, <1>11

\* The rows of the ledger before a date.
DocumentsBefore(k, from) == {d \in LedgerDocuments(k) : documents[d].date < from}
PaymentsBefore(k, from) == {t \in LedgerTransactions(k) : CashTransaction[t].row.date < from}

\* The opening balance is what the rows before the period change.
LEMMA StartIsChanges ==
  ASSUME TablesOK, NEW k, NEW from \in Dates
  PROVE  StartBalance(k, from) =
           DocumentChanges(DocumentsBefore(k, from)) + PaymentChanges(PaymentsBefore(k, from))
<1>1. PICK D, T : D = DocumentsBefore(k, from) /\ T = PaymentsBefore(k, from)
  OBVIOUS
<1>2. D \in SUBSET DOMAIN documents /\ T \in SUBSET Live
  BY <1>1 DEF DocumentsBefore, PaymentsBefore, LedgerDocuments, LedgerTransactions
<1>3. from # NULL
  BY ContentAssumption, KindsAssumption
<1>4. \A K : SumDocuments(k, K, from) = AmountOf(D \cap K)
  <2> TAKE K
  <2>1. {d \in LedgerDocuments(k) \cap K : documents[d].date < from} = D \cap K
    BY <1>1 DEF DocumentsBefore
  <2> QED  BY <2>1 DEF SumDocuments
<1>5. \A type : SumPayments(k, type, from) = SumOf(OfType(T, type))
  <2> TAKE type
  <2>1. {t \in LedgerTransactions(k) : /\ CashTransaction[t].row.type = type
                                       /\ CashTransaction[t].row.date < from}
          = OfType(T, type)
    BY <1>1 DEF PaymentsBefore, OfType
  <2> QED  BY <2>1 DEF SumPayments
<1>6. StartBalance(k, from) =
        AmountOf(D \cap Realizations) + SumOf(OfType(T, "OUTCOME"))
          - AmountOf(D \cap BuyerReturns) - AmountOf(D \cap GoodsReceipts)
          + AmountOf(D \cap SupplierReturns) - SumOf(OfType(T, "INCOME"))
  BY <1>3, <1>4, <1>5 DEF StartBalance
<1>7. /\ DocumentChanges(D) =
           AmountOf(D \cap Realizations) - AmountOf(D \cap BuyerReturns)
             - AmountOf(D \cap GoodsReceipts) + AmountOf(D \cap SupplierReturns)
      /\ AmountOf(D \cap Realizations) \in Nat /\ AmountOf(D \cap BuyerReturns) \in Nat
      /\ AmountOf(D \cap GoodsReceipts) \in Nat /\ AmountOf(D \cap SupplierReturns) \in Nat
  BY <1>2, ChangesOfDocuments
<1>8. /\ PaymentChanges(T) = SumOf(OfType(T, "OUTCOME")) - SumOf(OfType(T, "INCOME"))
      /\ SumOf(OfType(T, "OUTCOME")) \in Nat /\ SumOf(OfType(T, "INCOME")) \in Nat
  BY <1>2, ChangesOfPayments
<1> QED  BY <1>1, <1>6, <1>7, <1>8

\* The changes of two periods add up.
LEMMA ChangesAddUp ==
  ASSUME TablesOK
  PROVE  /\ \A D, E \in SUBSET DOMAIN documents :
              D \cap E = {} => DocumentChanges(D \cup E) = DocumentChanges(D) + DocumentChanges(E)
         /\ \A T, U \in SUBSET Live :
              T \cap U = {} => PaymentChanges(T \cup U) = PaymentChanges(T) + PaymentChanges(U)
<1>1. ASSUME NEW D \in SUBSET DOMAIN documents, NEW E \in SUBSET DOMAIN documents,
             D \cap E = {}
      PROVE  DocumentChanges(D \cup E) = DocumentChanges(D) + DocumentChanges(E)
  <2>1. PICK f, g, h : /\ f = [d \in D |-> DocumentChange(d)]
                       /\ g = [d \in E |-> DocumentChange(d)]
                       /\ h = [d \in D \cup E |-> DocumentChange(d)]
    OBVIOUS
  <2>2. \A d \in D \cup E : h[d] \in Int
    <3>1. \A d \in D \cup E : documents[d].amount \in Nat
      BY ReportRows
    <3> QED  BY <2>1, <3>1 DEF DocumentChange
  <2>3. (\A d \in D : f[d] = h[d]) /\ \A d \in E : g[d] = h[d]
    BY <2>1
  <2>4. IsFiniteSet(D) /\ IsFiniteSet(E)
    BY ReportRows
  <2>5. D \cap E = {}
    BY <1>1
  <2>6. Net(h, D \cup E) = Net(f, D) + Net(g, E)
    BY ONLY <2>2, <2>3, <2>4, <2>5, NetUnion
  <2> QED  BY <2>1, <2>6 DEF DocumentChanges
<1>2. ASSUME NEW T \in SUBSET Live, NEW U \in SUBSET Live, T \cap U = {}
      PROVE  PaymentChanges(T \cup U) = PaymentChanges(T) + PaymentChanges(U)
  <2>1. PICK f, g, h : /\ f = [t \in T |-> PaymentChange(t)]
                       /\ g = [t \in U |-> PaymentChange(t)]
                       /\ h = [t \in T \cup U |-> PaymentChange(t)]
    OBVIOUS
  <2>2. \A t \in T \cup U : h[t] \in Int
    <3>1. \A t \in T \cup U : CashTransaction[t].row.amount \in Nat
      BY ReportRows
    <3> QED  BY <2>1, <3>1 DEF PaymentChange
  <2>3. (\A t \in T : f[t] = h[t]) /\ \A t \in U : g[t] = h[t]
    BY <2>1
  <2>4. IsFiniteSet(T) /\ IsFiniteSet(U)
    BY ReportRows
  <2>5. T \cap U = {}
    BY <1>2
  <2>6. Net(h, T \cup U) = Net(f, T) + Net(g, U)
    BY ONLY <2>2, <2>3, <2>4, <2>5, NetUnion
  <2> QED  BY <2>1, <2>6 DEF PaymentChanges
<1> QED  BY <1>1, <1>2

\* A period that starts at `from` and ends the day before `next` has the rows
\* before `next` that are not before `from`.
LEMMA WindowSplits ==
  ASSUME NEW from \in Int, NEW next \in Int, from < next, from # NULL, next - 1 # NULL,
         NEW date \in Int
  PROVE  /\ date < next <=> date < from \/ InWindow(date, from, next - 1)
         /\ ~(date < from /\ InWindow(date, from, next - 1))
BY DEF InWindow

\* Without a first day it has all rows before `next`.
LEMMA WindowStartsFirst ==
  ASSUME NEW next \in Int, next - 1 # NULL, NEW date \in Int
  PROVE  date < next <=> InWindow(date, NULL, next - 1)
BY DEF InWindow

\* The reconciliation act of the next period starts where the one before ends.
LEMMA BalancesJoin ==
  ASSUME TablesOK, NEW k, NEW from \in Dates \cup {NULL}, NEW next \in Dates,
         from = NULL \/ from < next
  PROVE  EndBalance(k, from, next - 1) = StartBalance(k, next)
<1>1. PICK W, V : /\ W = {d \in LedgerDocuments(k) : InWindow(documents[d].date, from, next - 1)}
                  /\ V = {t \in LedgerTransactions(k) :
                            InWindow(CashTransaction[t].row.date, from, next - 1)}
  OBVIOUS
<1>2. PICK D, T : D = DocumentsBefore(k, next) /\ T = PaymentsBefore(k, next)
  OBVIOUS
<1>3. /\ W \in SUBSET DOMAIN documents /\ V \in SUBSET Live
      /\ D \in SUBSET DOMAIN documents /\ T \in SUBSET Live
      /\ LedgerDocuments(k) \in SUBSET DOMAIN documents /\ LedgerTransactions(k) \in SUBSET Live
  BY <1>1, <1>2 DEF DocumentsBefore, PaymentsBefore, LedgerDocuments, LedgerTransactions
<1>4. /\ \A d \in LedgerDocuments(k) : documents[d].date \in Int
      /\ \A t \in LedgerTransactions(k) : CashTransaction[t].row.date \in Int
  BY <1>3, ReportRows
<1>5. next \in Int /\ next - 1 # NULL
  BY ContentAssumption, KindsAssumption
<1>6. EndBalance(k, from, next - 1) = StartBalance(k, from) + DocumentChanges(W) + PaymentChanges(V)
  BY <1>1 DEF EndBalance
<1>7. StartBalance(k, next) = DocumentChanges(D) + PaymentChanges(T)
  BY <1>2, StartIsChanges
<1>8. /\ DocumentChanges(W) \in Int /\ PaymentChanges(V) \in Int
      /\ DocumentChanges(D) \in Int /\ PaymentChanges(T) \in Int
  BY <1>3, ChangesOfDocuments, ChangesOfPayments
<1>9. CASE from = NULL
  <2>1. \A d \in LedgerDocuments(k) :
          documents[d].date < next <=> InWindow(documents[d].date, from, next - 1)
    BY <1>4, <1>5, <1>9, WindowStartsFirst
  <2>2. \A t \in LedgerTransactions(k) :
          CashTransaction[t].row.date < next <=>
            InWindow(CashTransaction[t].row.date, from, next - 1)
    BY <1>4, <1>5, <1>9, WindowStartsFirst
  <2>3. W = D /\ V = T
    BY <1>1, <1>2, <2>1, <2>2 DEF DocumentsBefore, PaymentsBefore
  <2>4. StartBalance(k, from) = 0
    BY <1>9 DEF StartBalance
  <2> QED  BY <1>6, <1>7, <1>8, <2>3, <2>4
<1>10. CASE from # NULL
  <2>1. from \in Dates /\ from \in Int /\ from < next
    BY <1>10, ContentAssumption
  <2>2. PICK B, C : B = DocumentsBefore(k, from) /\ C = PaymentsBefore(k, from)
    OBVIOUS
  <2>3. StartBalance(k, from) = DocumentChanges(B) + PaymentChanges(C)
    BY <2>1, <2>2, StartIsChanges
  <2>4. B \in SUBSET DOMAIN documents /\ C \in SUBSET Live
    BY <1>3, <2>2 DEF DocumentsBefore, PaymentsBefore
  <2>5. DocumentChanges(B) \in Int /\ PaymentChanges(C) \in Int
    BY <2>4, ChangesOfDocuments, ChangesOfPayments
  <2>6. \A d \in LedgerDocuments(k) :
          /\ documents[d].date < next <=> \/ documents[d].date < from
                                          \/ InWindow(documents[d].date, from, next - 1)
          /\ ~(documents[d].date < from /\ InWindow(documents[d].date, from, next - 1))
    BY <1>4, <1>5, <1>10, <2>1, WindowSplits
  <2>7. \A t \in LedgerTransactions(k) :
          /\ CashTransaction[t].row.date < next <=>
               \/ CashTransaction[t].row.date < from
               \/ InWindow(CashTransaction[t].row.date, from, next - 1)
          /\ ~(/\ CashTransaction[t].row.date < from
               /\ InWindow(CashTransaction[t].row.date, from, next - 1))
    BY <1>4, <1>5, <1>10, <2>1, WindowSplits
  <2>8. D = B \cup W /\ B \cap W = {}
    BY <1>1, <1>2, <2>2, <2>6 DEF DocumentsBefore
  <2>9. T = C \cup V /\ C \cap V = {}
    BY <1>1, <1>2, <2>2, <2>7 DEF PaymentsBefore
  <2>10. DocumentChanges(D) = DocumentChanges(B) + DocumentChanges(W)
    BY <1>3, <2>4, <2>8, ChangesAddUp
  <2>11. PaymentChanges(T) = PaymentChanges(C) + PaymentChanges(V)
    BY <1>3, <2>4, <2>9, ChangesAddUp
  <2> QED  BY <1>6, <1>7, <1>8, <2>3, <2>5, <2>10, <2>11
<1> QED  BY <1>9, <1>10

\* The cash flow of the next period starts where the one before ends.
LEMMA CashJoins ==
  ASSUME TablesOK, NEW b, NEW from \in Dates \cup {NULL}, NEW next \in Dates,
         from = NULL \/ from < next
  PROVE  CashEnd(b, from, next - 1) = CashBefore(b, next)
<1>1. PICK W, T : /\ W = CashWindow(b, from, next - 1)
                  /\ T = {t \in InCashbox(b) : CashTransaction[t].row.date < next}
  OBVIOUS
<1>2. W \in SUBSET Live /\ T \in SUBSET Live /\ InCashbox(b) \in SUBSET Live
  BY <1>1 DEF CashWindow, InCashbox
<1>3. \A t \in InCashbox(b) : CashTransaction[t].row.date \in Int
  BY <1>2, ReportRows
<1>4. next \in Int /\ next - 1 # NULL
  BY ContentAssumption, KindsAssumption
<1>5. CashBefore(b, next) = SumOf(OfType(T, "INCOME")) - SumOf(OfType(T, "OUTCOME"))
  BY <1>1 DEF CashBefore
<1>6. CashEnd(b, from, next - 1) =
        (IF from = NULL THEN 0 ELSE CashBefore(b, from))
          + SumOf(OfType(W, "INCOME")) - SumOf(OfType(W, "OUTCOME"))
  <2>1. W \ OfType(W, "INCOME") = OfType(W, "OUTCOME")
    BY <1>2, ReportRows DEF OfType
  <2> QED  BY <1>1, <2>1 DEF CashEnd, TotalIncome, TotalOutcome
<1>7. /\ SumOf(OfType(W, "INCOME")) \in Nat /\ SumOf(OfType(W, "OUTCOME")) \in Nat
      /\ SumOf(OfType(T, "INCOME")) \in Nat /\ SumOf(OfType(T, "OUTCOME")) \in Nat
  BY <1>2, ChangesOfPayments
<1>8. CASE from = NULL
  <2>1. \A t \in InCashbox(b) :
          CashTransaction[t].row.date < next <=>
            InWindow(CashTransaction[t].row.date, from, next - 1)
    BY <1>3, <1>4, <1>8, WindowStartsFirst
  <2>2. W = T
    BY <1>1, <2>1 DEF CashWindow
  <2> QED  BY <1>5, <1>6, <1>7, <1>8, <2>2
<1>9. CASE from # NULL
  <2>1. from \in Int /\ from < next
    BY <1>9, ContentAssumption
  <2>2. PICK B : B = {t \in InCashbox(b) : CashTransaction[t].row.date < from}
    OBVIOUS
  <2>3. B \in SUBSET Live
    BY <1>2, <2>2
  <2>4. CashBefore(b, from) = SumOf(OfType(B, "INCOME")) - SumOf(OfType(B, "OUTCOME"))
    BY <2>2 DEF CashBefore
  <2>5. \A t \in InCashbox(b) :
          /\ CashTransaction[t].row.date < next <=>
               \/ CashTransaction[t].row.date < from
               \/ InWindow(CashTransaction[t].row.date, from, next - 1)
          /\ ~(/\ CashTransaction[t].row.date < from
               /\ InWindow(CashTransaction[t].row.date, from, next - 1))
    BY <1>3, <1>4, <1>9, <2>1, WindowSplits
  <2>6. T = B \cup W /\ B \cap W = {}
    BY <1>1, <2>2, <2>5 DEF CashWindow
  <2>7. ASSUME NEW type
        PROVE  /\ SumOf(OfType(T, type)) = SumOf(OfType(B, type)) + SumOf(OfType(W, type))
               /\ SumOf(OfType(B, type)) \in Nat
    <3>1. PICK M, N : M = OfType(B, type) /\ N = OfType(W, type)
      OBVIOUS
    <3>2. /\ M \in SUBSET Live /\ N \in SUBSET Live /\ M \cap N = {}
          /\ OfType(T, type) = M \cup N
      BY <1>2, <2>3, <2>6, <3>1 DEF OfType
    <3> QED  BY <3>1, <3>2, SumsAddUp
  <2> QED  BY <1>5, <1>6, <1>7, <1>9, <2>4, <2>7
<1> QED  BY <1>8, <1>9

-----------------------------------------------------------------------------
(* The reconciliation act and the allocations.                             *)

\* A transaction allocates to documents what it allocates altogether.
LEMMA AllocatedByDocument ==
  ASSUME TablesOK, NEW t \in Transactions, NEW g,
         \A d \in Payable : g[d] = AllocatedTo(t, d)
  PROVE  Allocated(t) = Total(g, Payable)
<1>1. PICK f : f = PaymentAllocation[t]
  OBVIOUS
<1>2. \A c \in Clients : \A d \in Payable : f[<<c, d>>] \in Nat
  BY <1>1 DEF TablesOK, AllocationId
<1>3. \A d \in Payable : g[d] = OverFirst(f, Clients, d)
  BY <1>1 DEF AllocatedTo, OverFirst
<1>4. IsFiniteSet(Clients) /\ IsFiniteSet(Payable)
  BY Finite
<1>5. Total(f, Clients \X Payable) = Total(g, Payable)
  BY ONLY <1>2, <1>3, <1>4, TotalPairsSecond
<1> QED  BY <1>1, <1>5 DEF Allocated, AllocationId

\* Where a transaction has no row it allocates nothing.
LEMMA NoRowNothing ==
  ASSUME TablesOK, NEW t \in Transactions, NEW d \in Payable,
         \A a \in RowsOf(t) : a[2] # d
  PROVE  AllocatedTo(t, d) = 0
<1>1. PICK f : f = [c \in Clients |-> PaymentAllocation[t][<<c, d>>]]
  OBVIOUS
<1>2. \A c \in Clients : f[c] = 0
  <2> TAKE c \in Clients
  <2>1. <<c, d>> \in AllocationId /\ <<c, d>>[2] = d
    BY DEF AllocationId
  <2>2. PaymentAllocation[t][<<c, d>>] \in Nat
    BY <2>1 DEF TablesOK
  <2>3. ~(PaymentAllocation[t][<<c, d>>] > 0)
    BY <2>1 DEF RowsOf
  <2> QED  BY <1>1, <2>2, <2>3
<1>3. Total(f, Clients) = 0
  BY <1>2, TotalZero
<1> QED  BY <1>1, <1>3 DEF AllocatedTo

\* Of the documents in the ledger of counterparty k, those in D and only those are
\* paid by the transactions in T.
PaidBy(k, D, T) ==
  \A t \in LedgerTransactions(k) : \A a \in RowsOf(t) :
    a[2] \in LedgerDocuments(k) => (a[2] \in D <=> t \in T)

\* Documents of one kind in the ledger of a counterparty, and its payments of
\* the type that pays them: what is paid of the ones is what the others allocate.
LEMMA PaidByPayments ==
  ASSUME TablesOK, PaidIsAllocated, SpentOnce, AllocationsInLedger, NEW k,
         NEW D, NEW T, D \subseteq Payable, T \subseteq Live,
         D \subseteq LedgerDocuments(k), T \subseteq LedgerTransactions(k), PaidBy(k, D, T),
         NEW p, \A d \in D : p[d] = documents[d].paidAmount,
         NEW q, \A t \in T : q[t] = Allocated(t)
  PROVE  /\ Total(p, D) = Total(q, T)
         /\ (\A d \in D : p[d] \in Nat) /\ \A t \in T : q[t] \in Nat
<1>1. PICK x : x = [a \in Transactions \X Payable |-> AllocatedTo(a[1], a[2])]
  OBVIOUS
<1>2. \A t \in Transactions : \A d \in Payable :
        x[<<t, d>>] = AllocatedTo(t, d) /\ AllocatedTo(t, d) \in Nat
  BY <1>1, AllocatedNat
<1>3. /\ T \subseteq Transactions /\ D \subseteq DOMAIN documents
      /\ IsFiniteSet(T) /\ IsFiniteSet(D)
  BY ReportRows DEF LedgerDocuments
<1>4. \A t \in Live : \A a \in RowsOf(t) :
        /\ CashTransaction[t].row.counterpartyId = k <=> a[2] \in LedgerDocuments(k)
        /\ a[2] \in DOMAIN documents
  BY DEF AllocationsInLedger, LedgerDocuments
<1>5. \A t \in Transactions \ Live : RowsOf(t) = {}
  BY DEF SpentOnce, Live
<1>6. ASSUME NEW t \in Transactions \ T, NEW d \in D PROVE AllocatedTo(t, d) = 0
  <2>1. ASSUME NEW a \in RowsOf(t), a[2] = d PROVE FALSE
    <3>1. t \in Live
      BY <1>5, <2>1
    <3>2. a[2] \in LedgerDocuments(k) /\ t \in LedgerTransactions(k)
      BY <1>4, <2>1, <3>1 DEF LedgerTransactions
    <3> QED  BY <1>6, <2>1, <3>2 DEF PaidBy
  <2> QED  BY <2>1, NoRowNothing
<1>7. ASSUME NEW t \in T, NEW d \in Payable \ D PROVE AllocatedTo(t, d) = 0
  <2>1. ASSUME NEW a \in RowsOf(t), a[2] = d PROVE FALSE
    <3>1. t \in LedgerTransactions(k) /\ t \in Live /\ CashTransaction[t].row.counterpartyId = k
      BY DEF LedgerTransactions
    <3>2. a[2] \in LedgerDocuments(k)
      BY <1>4, <2>1, <3>1
    <3> QED  BY <1>7, <2>1, <3>1, <3>2 DEF PaidBy
  <2>2. t \in Transactions
    BY <1>3
  <2> QED  BY <2>1, <2>2, NoRowNothing
<1>8. \A d \in D : p[d] = OverFirst(x, T, d)
  <2> TAKE d \in D
  <2>1. PICK f, g : /\ f = [t \in Transactions |-> AllocatedTo(t, d)]
                    /\ g = [t \in T |-> x[<<t, d>>]]
    OBVIOUS
  <2>2. /\ \A t \in Transactions \cap T : f[t] = g[t]
        /\ \A t \in Transactions \ T : f[t] = 0
        /\ \A t \in T \ Transactions : g[t] = 0
    BY <1>2, <1>3, <1>6, <2>1
  <2>3. Total(f, Transactions) = Total(g, T)
    BY ONLY <2>2, TotalSame
  <2>4. documents[d].paidAmount = Total(f, Transactions)
    BY <1>3, <2>1 DEF PaidIsAllocated
  <2> QED  BY <2>1, <2>3, <2>4 DEF OverFirst
<1>9. \A t \in T : q[t] = OverSecond(x, t, D)
  <2> TAKE t \in T
  <2>1. PICK f, g : /\ f = [d \in Payable |-> AllocatedTo(t, d)]
                    /\ g = [d \in D |-> x[<<t, d>>]]
    OBVIOUS
  <2>2. /\ \A d \in Payable \cap D : f[d] = g[d]
        /\ \A d \in Payable \ D : f[d] = 0
        /\ \A d \in D \ Payable : g[d] = 0
    BY <1>2, <1>3, <1>7, <2>1
  <2>3. Total(f, Payable) = Total(g, D)
    BY ONLY <2>2, TotalSame
  <2>4. t \in Transactions /\ \A d \in Payable : f[d] = AllocatedTo(t, d)
    BY <1>3, <2>1
  <2>5. Allocated(t) = Total(f, Payable)
    BY <2>4, AllocatedByDocument
  <2> QED  BY <2>1, <2>3, <2>5 DEF OverSecond
<1>10. \A t \in T : \A d \in D : x[<<t, d>>] \in Nat
  BY <1>2, <1>3
<1>11. Total(x, T \X D) = Total(q, T)
  BY ONLY <1>3, <1>9, <1>10, TotalPairs
<1>12. Total(x, T \X D) = Total(p, D)
  BY ONLY <1>3, <1>8, <1>10, TotalPairsSecond
<1>13. ASSUME NEW d \in D PROVE p[d] \in Nat
  <2>1. PICK f : f = [t \in T |-> x[<<t, d>>]]
    OBVIOUS
  <2>2. \A t \in T : f[t] \in Nat
    BY <1>10, <2>1
  <2>3. Total(f, T) \in Nat
    BY <1>3, <2>2, TotalNat
  <2> QED  BY <1>8, <2>1, <2>3 DEF OverFirst
<1>14. ASSUME NEW t \in T PROVE q[t] \in Nat
  <2>1. PICK f : f = [d \in D |-> x[<<t, d>>]]
    OBVIOUS
  <2>2. \A d \in D : f[d] \in Nat
    BY <1>10, <2>1
  <2>3. Total(f, D) \in Nat
    BY <1>3, <2>2, TotalNat
  <2> QED  BY <1>9, <2>1, <2>3 DEF OverSecond
<1> QED  BY <1>11, <1>12, <1>13, <1>14

\* The balance of a counterparty by the ledger and by the allocations.
LEMMA BalanceByAllocations ==
  ASSUME TablesOK, PaidIsAllocated, SpentOnce, AllocationsInLedger, NEW k
  PROVE  EndBalance(k, NULL, NULL) = OpenDebt(k) - OnAccount(k)
<1>1. PICK D, T, R, G, M, P :
        /\ D = LedgerDocuments(k) /\ R = D \cap Realizations /\ G = D \cap GoodsReceipts
        /\ T = LedgerTransactions(k) /\ M = OfType(T, "INCOME") /\ P = OfType(T, "OUTCOME")
  OBVIOUS
<1>2. D \in SUBSET DOMAIN documents /\ T \in SUBSET Live /\ IsFiniteSet(D) /\ IsFiniteSet(T)
  BY <1>1, ReportRows DEF LedgerDocuments, LedgerTransactions
<1>3. /\ \A d \in D : documents[d].amount \in Nat /\ documents[d].paidAmount \in Int
      /\ \A t \in T : /\ t \in Transactions /\ CashTransaction[t].row.amount \in Nat
                      /\ CashTransaction[t].row.type \in {"INCOME", "OUTCOME"}
  BY <1>2, ReportRows
<1>4. /\ R \subseteq Payable /\ G \subseteq Payable /\ R \subseteq D /\ G \subseteq D /\ R \cap G = {}
      /\ \A d \in D : /\ d \in R <=> d \in Realizations
                      /\ d \in G <=> d \in GoodsReceipts
                      /\ d \in G => d \notin Realizations \cup SupplierReturns
  BY <1>1, FiniteAssumption, KindsAssumption DEF Payable
<1>5. /\ M \subseteq T /\ P \subseteq T /\ M \cap P = {} /\ T = M \cup P
      /\ \A t \in T : t \in M <=> CashTransaction[t].row.type = "INCOME"
  BY <1>1, <1>3 DEF OfType
<1>6. PICK p, q : p = [d \in D |-> documents[d].paidAmount] /\ q = [t \in T |-> Allocated(t)]
  OBVIOUS
<1>7. \A t \in T : \A a \in RowsOf(t) :
        /\ a[2] \in Payable
        /\ a[2] \in Realizations <=> CashTransaction[t].row.type = "INCOME"
  <2>1. ASSUME NEW t \in T, NEW a \in RowsOf(t) PROVE a[2] \in Payable
    BY <2>1 DEF RowsOf, AllocationId
  <2>2. \A t \in T : \A a \in RowsOf(t) :
          a[2] \in Realizations <=> CashTransaction[t].row.type = "INCOME"
    <3>1. \A t \in T : /\ t \in Transactions /\ t \in DOMAIN CashTransaction
                       /\ ~CashTransaction[t].isDeleted
      BY <1>2, <1>3 DEF Live
    <3> QED  BY <3>1 DEF SpentOnce
  <2> QED  BY <2>1, <2>2
<1>8. /\ Total(p, R) = Total(q, M)
      /\ (\A d \in R : p[d] \in Nat) /\ \A t \in M : q[t] \in Nat
  <2>1. PaidBy(k, R, M)
    BY <1>1, <1>4, <1>5, <1>7 DEF PaidBy
  <2>2. (\A d \in R : p[d] = documents[d].paidAmount) /\ \A t \in M : q[t] = Allocated(t)
    BY <1>4, <1>5, <1>6
  <2>3. /\ R \subseteq Payable /\ M \subseteq Live
        /\ R \subseteq LedgerDocuments(k) /\ M \subseteq LedgerTransactions(k)
    BY <1>1, <1>2, <1>4, <1>5
  <2> QED  BY <2>1, <2>2, <2>3, PaidByPayments
<1>9. /\ Total(p, G) = Total(q, P)
      /\ (\A d \in G : p[d] \in Nat) /\ \A t \in P : q[t] \in Nat
  <2>1. PaidBy(k, G, P)
    <3> SUFFICES ASSUME NEW t \in T, NEW a \in RowsOf(t), a[2] \in D
                 PROVE  a[2] \in G <=> t \in P
      BY <1>1 DEF PaidBy
    <3>1. a[2] \in G <=> a[2] \notin Realizations
      BY <1>4, <1>7 DEF Payable
    <3> QED  BY <1>5, <1>7, <3>1
  <2>2. (\A d \in G : p[d] = documents[d].paidAmount) /\ \A t \in P : q[t] = Allocated(t)
    BY <1>4, <1>5, <1>6
  <2>3. /\ G \subseteq Payable /\ P \subseteq Live
        /\ G \subseteq LedgerDocuments(k) /\ P \subseteq LedgerTransactions(k)
    BY <1>1, <1>2, <1>4, <1>5
  <2> QED  BY <2>1, <2>2, <2>3, PaidByPayments
<1>10. PICK c, o, e, r, g :
         /\ c = [d \in D |-> DocumentChange(d)] /\ o = [d \in D |-> Owed(d)]
         /\ r = [d \in D |-> IF d \in R THEN p[d] ELSE 0]
         /\ g = [d \in D |-> IF d \in G THEN p[d] ELSE 0]
         /\ \A d \in D : e[d] = r[d] - g[d]
  <2>1. PICK c, o, r, g :
          /\ c = [d \in D |-> DocumentChange(d)] /\ o = [d \in D |-> Owed(d)]
          /\ r = [d \in D |-> IF d \in R THEN p[d] ELSE 0]
          /\ g = [d \in D |-> IF d \in G THEN p[d] ELSE 0]
    OBVIOUS
  <2>2. PICK e : e = [d \in D |-> r[d] - g[d]]
    OBVIOUS
  <2> QED  BY <2>1, <2>2
<1>11. \A d \in D : r[d] \in Nat /\ g[d] \in Nat /\ e[d] = r[d] - g[d]
  BY <1>8, <1>9, <1>10
<1>12. \A d \in D : o[d] \in Int /\ e[d] \in Int /\ c[d] = o[d] + e[d]
  <2> TAKE d \in D
  <2>1. p[d] = documents[d].paidAmount /\ p[d] \in Int /\ documents[d].amount \in Nat
    BY <1>3, <1>6
  <2>2. c[d] = DocumentChange(d) /\ o[d] = Owed(d) /\ e[d] = r[d] - g[d]
    BY <1>10
  <2>3. CASE d \in R
    <3>1. d \in Realizations /\ r[d] = p[d] /\ g[d] = 0
      BY <1>4, <1>10, <2>3
    <3> QED  BY <2>1, <2>2, <3>1 DEF DocumentChange, Owed
  <2>4. CASE d \in G
    <3>1. /\ d \notin Realizations /\ d \notin SupplierReturns /\ d \in GoodsReceipts
          /\ r[d] = 0 /\ g[d] = p[d]
      BY <1>4, <1>10, <2>4
    <3> QED  BY <2>1, <2>2, <3>1 DEF DocumentChange, Owed
  <2>5. CASE d \notin R /\ d \notin G
    <3>1. d \notin Realizations /\ d \notin GoodsReceipts /\ r[d] = 0 /\ g[d] = 0
      BY <1>4, <1>10, <2>5
    <3> QED  BY <2>1, <2>2, <3>1 DEF DocumentChange, Owed
  <2> QED  BY <2>3, <2>4, <2>5
<1>13. Net(c, D) = Net(o, D) + Net(e, D)
  BY ONLY <1>2, <1>12, NetPlus
<1>14. Net(e, D) = Total(r, D) - Total(g, D) /\ Total(r, D) \in Nat /\ Total(g, D) \in Nat
  BY ONLY <1>2, <1>11, NetDifference
<1>15. Total(r, D) = Total(p, R) /\ Total(g, D) = Total(p, G)
  <2>1. /\ \A d \in D \cap R : r[d] = p[d]
        /\ \A d \in D \ R : r[d] = 0
        /\ \A d \in R \ D : p[d] = 0
    BY <1>4, <1>10
  <2>2. /\ \A d \in D \cap G : g[d] = p[d]
        /\ \A d \in D \ G : g[d] = 0
        /\ \A d \in G \ D : p[d] = 0
    BY <1>4, <1>10
  <2>3. Total(r, D) = Total(p, R)
    BY ONLY <2>1, TotalSame
  <2>4. Total(g, D) = Total(p, G)
    BY ONLY <2>2, TotalSame
  <2> QED  BY <2>3, <2>4
<1>16. PICK u, v, w, x, y :
         /\ u = [t \in T |-> Unspent(t)] /\ v = [t \in T |-> PaymentChange(t)]
         /\ x = [t \in T |-> IF t \in P THEN q[t] ELSE 0]
         /\ y = [t \in T |-> IF t \in M THEN q[t] ELSE 0]
         /\ \A t \in T : w[t] = x[t] - y[t]
  <2>1. PICK u, v, x, y :
          /\ u = [t \in T |-> Unspent(t)] /\ v = [t \in T |-> PaymentChange(t)]
          /\ x = [t \in T |-> IF t \in P THEN q[t] ELSE 0]
          /\ y = [t \in T |-> IF t \in M THEN q[t] ELSE 0]
    OBVIOUS
  <2>2. PICK w : w = [t \in T |-> x[t] - y[t]]
    OBVIOUS
  <2> QED  BY <2>1, <2>2
<1>17. \A t \in T : x[t] \in Nat /\ y[t] \in Nat /\ w[t] = x[t] - y[t]
  BY <1>8, <1>9, <1>16
<1>18. \A t \in T : u[t] \in Int /\ v[t] \in Int /\ w[t] = u[t] + v[t]
  <2> TAKE t \in T
  <2>1. q[t] = Allocated(t) /\ q[t] \in Nat /\ CashTransaction[t].row.amount \in Nat
    BY <1>3, <1>5, <1>6, <1>8, <1>9
  <2>2. u[t] = Unspent(t) /\ v[t] = PaymentChange(t) /\ w[t] = x[t] - y[t]
    BY <1>16
  <2>3. CASE t \in M
    <3>1. CashTransaction[t].row.type = "INCOME" /\ x[t] = 0 /\ y[t] = q[t]
      BY <1>5, <1>16, <2>3
    <3> QED  BY <2>1, <2>2, <3>1 DEF Unspent, PaymentChange
  <2>4. CASE t \notin M
    <3>1. CashTransaction[t].row.type # "INCOME" /\ x[t] = q[t] /\ y[t] = 0
      BY <1>5, <1>16, <2>4
    <3> QED  BY <2>1, <2>2, <3>1 DEF Unspent, PaymentChange
  <2> QED  BY <2>3, <2>4
<1>19. Net(w, T) = Net(u, T) + Net(v, T)
  BY ONLY <1>2, <1>18, NetPlus
<1>20. Net(w, T) = Total(x, T) - Total(y, T) /\ Total(x, T) \in Nat /\ Total(y, T) \in Nat
  BY ONLY <1>2, <1>17, NetDifference
<1>21. Total(x, T) = Total(q, P) /\ Total(y, T) = Total(q, M)
  <2>1. /\ \A t \in T \cap P : x[t] = q[t]
        /\ \A t \in T \ P : x[t] = 0
        /\ \A t \in P \ T : q[t] = 0
    BY <1>5, <1>16
  <2>2. /\ \A t \in T \cap M : y[t] = q[t]
        /\ \A t \in T \ M : y[t] = 0
        /\ \A t \in M \ T : q[t] = 0
    BY <1>5, <1>16
  <2>3. Total(x, T) = Total(q, P)
    BY ONLY <2>1, TotalSame
  <2>4. Total(y, T) = Total(q, M)
    BY ONLY <2>2, TotalSame
  <2> QED  BY <2>3, <2>4
<1>22. EndBalance(k, NULL, NULL) = Net(c, D) + Net(v, T)
  <2>1. PICK W, V :
          /\ W = {d \in LedgerDocuments(k) : InWindow(documents[d].date, NULL, NULL)}
          /\ V = {t \in LedgerTransactions(k) :
                    InWindow(CashTransaction[t].row.date, NULL, NULL)}
    OBVIOUS
  <2>2. DocumentChanges(D) = Net(c, D) /\ PaymentChanges(T) = Net(v, T)
    BY <1>10, <1>16 DEF DocumentChanges, PaymentChanges
  <2>3. DocumentChanges(D) \in Int /\ PaymentChanges(T) \in Int
    BY <1>2, ChangesOfDocuments, ChangesOfPayments
  <2>4. StartBalance(k, NULL) = 0
    BY DEF StartBalance
  <2>5. W = D /\ V = T
    BY <1>1, <2>1 DEF InWindow
  <2>6. EndBalance(k, NULL, NULL)
          = StartBalance(k, NULL) + DocumentChanges(W) + PaymentChanges(V)
    BY <2>1 DEF EndBalance
  <2> QED  BY <2>2, <2>3, <2>4, <2>5, <2>6
<1>23. OpenDebt(k) = Net(o, D) /\ OnAccount(k) = Net(u, T)
  BY <1>1, <1>10, <1>16 DEF OpenDebt, OnAccount
<1>24. Net(o, D) \in Int /\ Net(u, T) \in Int /\ Net(v, T) \in Int
  <2>1. \A f, S : IsFiniteSet(S) /\ (\A z \in S : f[z] \in Int) => Net(f, S) \in Int
    <3> SUFFICES ASSUME NEW f, NEW S, IsFiniteSet(S), \A z \in S : f[z] \in Int
                 PROVE  Net(f, S) \in Int
      OBVIOUS
    <3>1. PICK a, b : a = Gains(f, S) /\ b = Losses(f, S)
      OBVIOUS
    <3>2. \A z \in S : a[z] \in Nat /\ b[z] \in Nat /\ f[z] = a[z] - b[z]
      BY <3>1, NetParts
    <3> QED  BY <3>2, NetDifference
  <2> QED  BY <1>2, <1>12, <1>18, <2>1
<1> QED  BY <1>8, <1>9, <1>13, <1>14, <1>15, <1>19, <1>20, <1>21, <1>22, <1>23, <1>24

-----------------------------------------------------------------------------
(* The reports in every state.                                             *)

\* Reports of adjacent periods fit together: each period's end is the next one's
\* start, in the reconciliation act of every counterparty and the cash flow of every
\* cashbox, although opening balances and movements come from different queries.
THEOREM ReportsPeriodsJoin == Spec => []PeriodsJoin
<1>1. TypeInv => PeriodsJoin
  <2> SUFFICES ASSUME TablesOK, NEW from \in Dates \cup {NULL}, NEW next \in Dates,
                      from = NULL \/ from < next
               PROVE  /\ \A k \in Counterparties :
                           EndBalance(k, from, next - 1) = StartBalance(k, next)
                      /\ \A b \in Cashboxes \cup {NULL} :
                           CashEnd(b, from, next - 1) = CashBefore(b, next)
    BY DEF TypeInv, PeriodsJoin
  <2> QED  BY BalancesJoin, CashJoins
<1> QED  BY <1>1, SpecTyped, PTL

\* As long as no paid document was unposted or given to another counterparty, the
\* balance of a counterparty is its unpaid documents less its unspent payments.
THEOREM ReportsBalanceIsOpenDebt ==
  ASSUME OneCallPerTransaction
  PROVE  Spec => []BalanceIsOpenDebt
<1>1. Inv => BalanceIsOpenDebt
  BY BalanceByAllocations DEF Inv, BalanceIsOpenDebt
<1> QED  BY <1>1, SpecInv, PTL
=============================================================================
