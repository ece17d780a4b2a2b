-------------------------- MODULE PostingLoopProofs --------------------------
(***************************************************************************)
(* Proofs about the loops of post and unpost, for any number of lines,     *)
(* batches and products: they implement one atomic first-in first-out      *)
(* step (module AtomicPosting).                                            *)
(***************************************************************************)
EXTENDS PostingLoop, QuantitiesProofs

\* A batch as the SELECT of deductStock read it.
Read == [id : Batches, quantityLeft : Nat]

TypesOK ==
  /\ productId \in [Batches -> Products]
  /\ createdAt \in [Batches -> Int]
  /\ lines \in Seq([productId : Products, quantity : Nat])
  /\ quantityLeft \in [Batches -> Nat]
  /\ work \in [Batches -> Nat]
  /\ rows \in Seq(Row) /\ made \in Seq(Row)
  /\ status \in {"DRAFT", "POSTED"}
  /\ pc \in {"idle", "line", "batch", "return"}
  /\ line \in Nat /\ remaining \in Nat
  /\ batches \in Seq(Read)
  /\ todo \subseteq DOMAIN rows

\* What the transaction has taken off batch b.
Out(b) == quantityLeft[b] - work[b]

\* The batches of product p, and what was taken off them.
BatchesOf(p) == {b \in Batches : productId[b] = p}
OutOf(p) == Total([b \in BatchesOf(p) |-> Out(b)], BatchesOf(p))

\* The quantity of product p on the first n lines.
LinesOf(p, n) == {i \in DOMAIN lines : i <= n /\ lines[i].productId = p}
NeededOn(p, n) == Total([i \in LinesOf(p, n) |-> lines[i].quantity], LinesOf(p, n))

\* What the line at hand has got so far.
Partly(p) ==
  IF pc = "batch" /\ lines[line].productId = p THEN lines[line].quantity - remaining ELSE 0

\* The transaction of post has inserted rows for what it took, took what the
\* lines behind it need, and no batch before an older one is empty.
Moved ==
  \A b \in Batches : work[b] <= quantityLeft[b] /\ RowsTotal(made, b) = Out(b)

Served == \A p \in Products : OutOf(p) = NeededOn(p, line - 1) + Partly(p)

EmptiedInOrder ==
  \A older, b \in Batches :
    (productId[older] = productId[b] /\ createdAt[older] < createdAt[b] /\ Out(b) > 0)
      => work[older] = 0

\* While deductStock has something left to take, every batch with goods is before
\* it, as it read it and oldest first.
Selection ==
  /\ line <= Len(lines)
  /\ remaining <= lines[line].quantity
  /\ \A i \in DOMAIN batches : /\ batches[i].quantityLeft = work[batches[i].id]
                               /\ productId[batches[i].id] = lines[line].productId
  /\ \A i, j \in DOMAIN batches : i < j =>
       /\ batches[i].id # batches[j].id
       /\ createdAt[batches[i].id] <= createdAt[batches[j].id]
  /\ remaining > 0 =>
       \A b \in Batches : (productId[b] = lines[line].productId /\ work[b] > 0)
                             => \E i \in DOMAIN batches : batches[i].id = b

Posting ==
  /\ status = "DRAFT"
  /\ line \in 1 .. Len(lines) + 1
  /\ Moved /\ Served /\ EmptiedInOrder

\* What unpost has still to return of batch b.
Pending(b) ==
  LET I == {i \in todo : rows[i].batchId = b}
  IN  Total([i \in I |-> rows[i].quantity], I)

Returning ==
  /\ status = "POSTED"
  /\ \A b \in Batches : work[b] + Pending(b) = quantityLeft[b] + RowsTotal(rows, b)

\* The inductive invariant.
Inv ==
  /\ TypesOK
  /\ status = "DRAFT" => rows = << >>
  /\ pc \in {"line", "batch"} => Posting
  /\ pc = "batch" => Selection
  /\ pc = "return" => Returning

-----------------------------------------------------------------------------
(* Sums of the quantities on some elements of a sequence: of the rows of a *)
(* batch, of the lines of a product.                                       *)

SumOf(s, I) == Total([i \in I |-> s[i].quantity], I)

\* Sums of quantities are quantities.
LEMMA SumNat ==
  ASSUME NEW s, NEW I, IsFiniteSet(I), \A i \in I : s[i].quantity \in Nat
  PROVE  SumOf(s, I) \in Nat
<1> DEFINE f == [i \in I |-> s[i].quantity]
<1>1. \A i \in I : f[i] \in Nat
  OBVIOUS
<1> HIDE DEF f
<1>2. Total(f, I) \in Nat
  BY <1>1, TotalNat
<1> QED  BY <1>2 DEF SumOf, f

\* No element, no quantity.
LEMMA SumEmpty ==
  ASSUME NEW s, NEW I, I = {}
  PROVE  SumOf(s, I) = 0
BY TotalEmpty DEF SumOf

\* One more element adds its quantity.
LEMMA SumAdd ==
  ASSUME NEW s, NEW I, IsFiniteSet(I), NEW x, x \notin I, NEW J, J = I \cup {x},
         \A i \in J : s[i].quantity \in Nat
  PROVE  SumOf(s, J) = SumOf(s, I) + s[x].quantity
<1> DEFINE f == [i \in J |-> s[i].quantity]
           g == [i \in I |-> s[i].quantity]
<1>1. /\ \A i \in J : f[i] \in Nat
      /\ \A i \in I : f[i] = g[i]
      /\ f[x] = s[x].quantity /\ x \in J
  OBVIOUS
<1>2. IsFiniteSet(J) /\ I = J \ {x}
  BY FS_AddElement
<1> HIDE DEF f, g
<1>3. Total(f, J) = Total(f, J \ {x}) + f[x]
  BY <1>1, <1>2, TotalRemove
<1>4. Total(f, I) = Total(g, I)
  BY <1>1, TotalEqual
<1> QED  BY <1>1, <1>2, <1>3, <1>4 DEF SumOf, f, g

\* More elements have the larger sum.
LEMMA SumMonotone ==
  ASSUME NEW s, NEW I, NEW J, IsFiniteSet(J), I \subseteq J,
         \A i \in J : s[i].quantity \in Nat
  PROVE  SumOf(s, I) <= SumOf(s, J)
<1> DEFINE f == [i \in J |-> s[i].quantity]
           g == [i \in I |-> s[i].quantity]
           R == J \ I
<1>1. /\ \A i \in J : f[i] \in Nat
      /\ \A i \in I : f[i] = g[i]
  OBVIOUS
<1>2. IsFiniteSet(I) /\ IsFiniteSet(R) /\ I \cap R = {} /\ I \cup R = J
  BY FS_Subset
<1> HIDE DEF f, g, R
<1>3. Total(f, I \cup R) = Total(f, I) + Total(f, R)
  BY <1>1, <1>2, TotalUnion
<1>4. Total(f, I) = Total(g, I)
  BY <1>1, TotalEqual
<1>5. Total(f, I) \in Nat /\ Total(f, R) \in Nat
  BY <1>1, <1>2, TotalNat
<1>6. Total(f, J) = Total(f, I) + Total(f, R)
  BY <1>2, <1>3
<1> QED  BY <1>4, <1>5, <1>6 DEF SumOf, f, g

\* The same quantities have the same sum.
LEMMA SumEqual ==
  ASSUME NEW s, NEW t, NEW I, \A i \in I : s[i].quantity = t[i].quantity
  PROVE  SumOf(s, I) = SumOf(t, I)
<1>1. [i \in I |-> s[i].quantity] = [i \in I |-> t[i].quantity]
  OBVIOUS
<1> QED  BY <1>1 DEF SumOf

\* What rows hold of a batch.
LEMMA RowsFacts ==
  ASSUME NEW s \in Seq(Row), NEW b
  PROVE  /\ RowsTotal(s, b) = SumOf(s, {i \in DOMAIN s : s[i].batchId = b})
         /\ IsFiniteSet(DOMAIN s)
         /\ \A i \in DOMAIN s : s[i].quantity \in Nat /\ s[i].batchId \in Batches
         /\ RowsTotal(s, b) \in Nat
<1>1. RowsTotal(s, b) = SumOf(s, {i \in DOMAIN s : s[i].batchId = b})
  BY DEF RowsTotal, SumOf
<1>2. IsFiniteSet(DOMAIN s)
  BY FS_Interval
<1>3. \A i \in DOMAIN s : s[i].quantity \in Nat /\ s[i].batchId \in Batches
  <2>1. \A i \in DOMAIN s : s[i] \in Row
    OBVIOUS
  <2> QED  BY <2>1 DEF Row
<1>4. RowsTotal(s, b) \in Nat
  <2>1. PICK I : I = {i \in DOMAIN s : s[i].batchId = b}
    OBVIOUS
  <2>2. IsFiniteSet(I) /\ \A i \in I : s[i].quantity \in Nat
    BY <1>2, <1>3, <2>1, FS_Subset
  <2> QED  BY <1>1, <2>1, <2>2, SumNat
<1> QED  BY <1>1, <1>2, <1>3, <1>4

\* INSERT of a row.
LEMMA RowsAppend ==
  ASSUME NEW s \in Seq(Row), NEW r \in Row, NEW b
  PROVE  RowsTotal(Append(s, r), b) =
           RowsTotal(s, b) + IF r.batchId = b THEN r.quantity ELSE 0
<1>1. PICK t, n, I, J : /\ t = Append(s, r) /\ n = Len(s) + 1
                        /\ I = {i \in DOMAIN s : s[i].batchId = b}
                        /\ J = {i \in DOMAIN t : t[i].batchId = b}
  OBVIOUS
<1>2. /\ t \in Seq(Row) /\ DOMAIN t = 1 .. n /\ DOMAIN s = 1 .. Len(s) /\ Len(s) \in Nat
      /\ t[n] = r /\ \A i \in DOMAIN s : t[i] = s[i]
  BY <1>1
<1>3. RowsTotal(s, b) = SumOf(s, I) /\ RowsTotal(t, b) = SumOf(t, J) /\ RowsTotal(s, b) \in Nat
  BY <1>1, <1>2, RowsFacts
<1>4. SumOf(s, I) = SumOf(t, I)
  <2>1. \A i \in I : s[i].quantity = t[i].quantity
    BY <1>1, <1>2
  <2> QED  BY <2>1, SumEqual
<1>5. IsFiniteSet(I) /\ n \notin I
  <2>1. I \subseteq DOMAIN s /\ IsFiniteSet(DOMAIN s)
    BY <1>1, RowsFacts
  <2>2. IsFiniteSet(I)
    BY <2>1, FS_Subset
  <2>3. n \notin I
    BY <1>1, <1>2, <2>1
  <2> QED  BY <2>2, <2>3
<1>6. CASE r.batchId = b
  <2>1. J = I \cup {n}
    BY <1>1, <1>2, <1>6
  <2>2. \A i \in J : t[i].quantity \in Nat
    BY <1>1, <1>2, RowsFacts
  <2>3. SumOf(t, J) = SumOf(t, I) + t[n].quantity
    BY <1>5, <2>1, <2>2, SumAdd
  <2> QED  BY <1>1, <1>2, <1>3, <1>4, <1>6, <2>3
<1>7. CASE r.batchId # b
  <2>1. J = I
    BY <1>1, <1>2, <1>7
  <2>2. RowsTotal(t, b) = RowsTotal(s, b)
    BY <1>3, <1>4, <2>1
  <2>3. RowsTotal(s, b) + 0 = RowsTotal(s, b)
    BY <1>3
  <2> QED  BY <1>1, <1>7, <2>2, <2>3
<1> QED  BY <1>6, <1>7

\* The lines of a product, one after the other.
LEMMA NeededFacts ==
  ASSUME TypesOK, NEW p
  PROVE  /\ \A n : NeededOn(p, n) = SumOf(lines, LinesOf(p, n))
         /\ \A n : NeededOn(p, n) \in Nat
         /\ NeededOn(p, 0) = 0
         /\ \A n \in DOMAIN lines : NeededOn(p, n) =
              NeededOn(p, n - 1) + IF lines[n].productId = p THEN lines[n].quantity ELSE 0
         /\ \A n : NeededOn(p, n) <= NeededOn(p, Len(lines))
<1>1. /\ Len(lines) \in Nat /\ DOMAIN lines = 1 .. Len(lines) /\ IsFiniteSet(DOMAIN lines)
      /\ \A i \in DOMAIN lines : lines[i].quantity \in Nat
  <2> DEFINE L == [productId : Products, quantity : Nat]
  <2>1. lines \in Seq(L)
    BY DEF TypesOK
  <2> HIDE DEF L
  <2>2. /\ Len(lines) \in Nat /\ DOMAIN lines = 1 .. Len(lines)
        /\ \A i \in DOMAIN lines : lines[i] \in L
    BY <2>1
  <2>3. \A i \in DOMAIN lines : lines[i].quantity \in Nat
    BY <2>2 DEF L
  <2> QED  BY <2>2, <2>3, FS_Interval
<1>2. ASSUME NEW n
      PROVE  /\ IsFiniteSet(LinesOf(p, n))
             /\ \A i \in LinesOf(p, n) : lines[i].quantity \in Nat
             /\ LinesOf(p, n) \subseteq LinesOf(p, Len(lines))
  BY <1>1, FS_Subset DEF LinesOf
<1>3. \A n : NeededOn(p, n) = SumOf(lines, LinesOf(p, n))
  BY DEF NeededOn, SumOf
<1>4. \A n : NeededOn(p, n) \in Nat
  BY <1>2, <1>3, SumNat
<1>5. NeededOn(p, 0) = 0
  <2>1. LinesOf(p, 0) = {}
    BY <1>1 DEF LinesOf
  <2> QED  BY <1>3, <2>1, SumEmpty
<1>6. ASSUME NEW n \in DOMAIN lines
      PROVE  NeededOn(p, n) =
               NeededOn(p, n - 1) + IF lines[n].productId = p THEN lines[n].quantity ELSE 0
  <2>1. PICK I, J : I = LinesOf(p, n - 1) /\ J = LinesOf(p, n)
    OBVIOUS
  <2>2. IsFiniteSet(I) /\ \A i \in J : lines[i].quantity \in Nat
    BY <1>2, <2>1
  <2>3. CASE lines[n].productId = p
    <3>1. J = I \cup {n} /\ n \notin I
      BY <1>1, <2>1, <2>3 DEF LinesOf
    <3>2. SumOf(lines, J) = SumOf(lines, I) + lines[n].quantity
      BY <2>2, <3>1, SumAdd
    <3> QED  BY <1>3, <2>1, <2>3, <3>2
  <2>4. CASE lines[n].productId # p
    <3>1. J = I
      BY <1>1, <2>1, <2>4 DEF LinesOf
    <3>2. NeededOn(p, n) = NeededOn(p, n - 1) /\ NeededOn(p, n - 1) \in Nat
      BY <1>3, <1>4, <2>1, <3>1
    <3> QED  BY <2>4, <3>2
  <2> QED  BY <2>3, <2>4
<1>7. ASSUME NEW n PROVE NeededOn(p, n) <= NeededOn(p, Len(lines))
  <2>1. SumOf(lines, LinesOf(p, n)) <= SumOf(lines, LinesOf(p, Len(lines)))
    BY <1>2, SumMonotone
  <2> QED  BY <1>3, <2>1
<1> QED  BY <1>3, <1>4, <1>5, <1>6, <1>7

\* What was taken off the batches of a product.
LEMMA OutFacts ==
  ASSUME TypesOK, \A b \in Batches : work[b] <= quantityLeft[b], NEW p
  PROVE  /\ IsFiniteSet(BatchesOf(p)) /\ BatchesOf(p) \subseteq Batches
         /\ \A b \in Batches : Out(b) \in Nat
         /\ OutOf(p) \in Nat
<1>1. IsFiniteSet(BatchesOf(p)) /\ BatchesOf(p) \subseteq Batches
  BY BoundsAssumption, FS_Subset DEF BatchesOf
<1>2. \A b \in Batches : Out(b) \in Nat
  BY DEF TypesOK, Out
<1>3. OutOf(p) \in Nat
  <2> DEFINE f == [b \in BatchesOf(p) |-> Out(b)]
  <2>1. \A b \in BatchesOf(p) : f[b] \in Nat
    BY <1>1, <1>2
  <2> HIDE DEF f
  <2>2. Total(f, BatchesOf(p)) \in Nat
    BY <1>1, <2>1, TotalNat
  <2> QED  BY <2>2 DEF OutOf, f
<1> QED  BY <1>1, <1>2, <1>3

-----------------------------------------------------------------------------
(* The actions.                                                            *)

\* The sums over what an action leaves alone.
LEMMA NeededSame ==
  ASSUME UNCHANGED lines
  PROVE  \A p, n : NeededOn(p, n)' = NeededOn(p, n)
BY DEF NeededOn, LinesOf

\* What was taken stays when the batches are left alone.
LEMMA OutSame ==
  ASSUME UNCHANGED <<productId, quantityLeft, work>>
  PROVE  (\A b : Out(b)' = Out(b)) /\ (\A p : OutOf(p)' = OutOf(p))
BY DEF OutOf, BatchesOf, Out

\* Between calls the invariant is about the tables only.
LEMMA CallOverKeeps ==
  ASSUME Inv, UNCHANGED given, CallOver, quantityLeft' \in [Batches -> Nat],
         rows' \in Seq(Row), status' \in {"DRAFT", "POSTED"},
         status' = "DRAFT" => rows' = << >>
  PROVE  Inv'
<1>1. << >> \in Seq(Read) /\ << >> \in Seq(Row)
  OBVIOUS
<1>2. TypesOK'
  BY <1>1 DEF Inv, TypesOK, CallOver, given
<1> QED  BY <1>2 DEF Inv, CallOver

\* BEGIN of post.
LEMMA BeginPostKeeps ==
  ASSUME Inv, BeginPost
  PROVE  Inv'
<1>1. /\ pc' = "line" /\ line' = 1 /\ work' = quantityLeft /\ made' = << >>
      /\ status = "DRAFT"
      /\ UNCHANGED <<productId, createdAt, lines, quantityLeft, rows, status, batches,
                     remaining, todo>>
  BY DEF BeginPost, given, stored, Inv, TypesOK
<1>2. TypesOK'
  <2>1. << >> \in Seq(Row)
    OBVIOUS
  <2> QED  BY <1>1, <2>1 DEF Inv, TypesOK
<1>3. \A b \in Batches : Out(b)' = 0 /\ quantityLeft[b] \in Nat
  BY <1>1 DEF Out, Inv, TypesOK
<1>4. Moved'
  <2>1. \A b : RowsTotal(made, b)' = 0
    <3> TAKE b
    <3>1. {i \in DOMAIN << >> : << >>[i].batchId = b} = {}
      OBVIOUS
    <3>2. SumOf(<< >>, {i \in DOMAIN << >> : << >>[i].batchId = b}) = 0
      BY <3>1, SumEmpty
    <3> QED  BY <1>1, <3>2 DEF RowsTotal, SumOf
  <2> QED  BY <1>1, <1>3, <2>1 DEF Moved
<1>5. Served'
  <2> SUFFICES ASSUME NEW p \in Products PROVE OutOf(p)' = NeededOn(p, 0)' + 0
    BY <1>1 DEF Served, Partly
  <2>1. NeededOn(p, 0)' = 0
    BY <1>1, NeededFacts, NeededSame DEF Inv
  <2>2. OutOf(p)' = 0
    <3>1. \A b \in BatchesOf(p)' : [x \in BatchesOf(p)' |-> Out(x)'][b] = 0
      BY <1>3 DEF BatchesOf
    <3>2. Total([x \in BatchesOf(p)' |-> Out(x)'], BatchesOf(p)') = 0
      BY <3>1, TotalZero
    <3> QED  BY <3>2 DEF OutOf
  <2> QED  BY <2>1, <2>2
<1>6. EmptiedInOrder'
  BY <1>3 DEF EmptiedInOrder
<1>7. 1 \in 1 .. Len(lines) + 1
  BY DEF Inv, TypesOK
<1> QED  BY <1>1, <1>2, <1>4, <1>5, <1>6, <1>7 DEF Inv, Posting

\* The SELECT of deductStock returns every batch that has something left.
LEMMA SelectBatchesKeeps ==
  ASSUME Inv, SelectBatches
  PROVE  Inv'
<1>1. /\ pc = "line" /\ line <= Len(lines) /\ pc' = "batch"
      /\ remaining' = lines[line].quantity
      /\ UNCHANGED <<productId, createdAt, lines, quantityLeft, rows, status, line, work, made, todo>>
      /\ Posting /\ TypesOK
  BY DEF SelectBatches, given, stored, Inv
<1>2. PICK n \in Nat : \E s \in [1 .. n -> Batches] :
        /\ IsSelection(s, lines[line].productId)
        /\ batches' = [i \in 1 .. n |-> [id |-> s[i], quantityLeft |-> work[s[i]]]]
  <2>1. Cardinality(Batches) \in Nat
    BY BoundsAssumption, FS_CardinalityType
  <2> QED  BY <2>1 DEF SelectBatches
<1>3. PICK s \in [1 .. n -> Batches] :
        /\ IsSelection(s, lines[line].productId)
        /\ batches' = [i \in 1 .. n |-> [id |-> s[i], quantityLeft |-> work[s[i]]]]
  BY <1>2
<1>4. \A i \in 1 .. n : /\ batches'[i] \in Read
                        /\ batches'[i].id = s[i] /\ batches'[i].quantityLeft = work[s[i]]
  BY <1>1, <1>3 DEF TypesOK, Read
<1>5. DOMAIN batches' = 1 .. n /\ batches' \in Seq(Read)
  BY <1>3, <1>4
<1>6. line \in DOMAIN lines /\ lines[line].quantity \in Nat
  <2> DEFINE L == [productId : Products, quantity : Nat]
  <2>1. lines \in Seq(L) /\ line \in Nat /\ line >= 1
    BY <1>1 DEF TypesOK, Posting
  <2> HIDE DEF L
  <2>2. line \in DOMAIN lines /\ lines[line] \in L
    BY <1>1, <2>1
  <2> QED  BY <2>2 DEF L
<1>7. TypesOK'
  BY <1>1, <1>5, <1>6 DEF TypesOK
<1>8. Posting'
  <2>1. Moved'
    BY <1>1, OutSame DEF Posting, Moved, RowsTotal
  <2>2. Served'
    <3> SUFFICES ASSUME NEW p \in Products
                 PROVE  OutOf(p)' = NeededOn(p, line - 1)' + Partly(p)'
      BY DEF Served
    <3>1. OutOf(p) = NeededOn(p, line - 1) + 0
      BY <1>1 DEF Posting, Served, Partly
    <3>2. Partly(p)' = 0
      BY <1>1, <1>6 DEF Partly
    <3>3. OutOf(p)' = OutOf(p) /\ NeededOn(p, line - 1)' = NeededOn(p, line - 1)
      BY <1>1, OutSame, NeededSame
    <3> QED  BY <3>1, <3>2, <3>3
  <2>3. EmptiedInOrder'
    BY <1>1, OutSame DEF Posting, EmptiedInOrder
  <2> QED  BY <1>1, <2>1, <2>2, <2>3 DEF Posting
<1>9. Selection'
  <2>1. \A i \in 1 .. n : productId[s[i]] = lines[line].productId
    BY <1>3 DEF IsSelection
  <2>2. \A i, j \in 1 .. n : i < j => s[i] # s[j] /\ createdAt[s[i]] <= createdAt[s[j]]
    BY <1>3 DEF IsSelection
  <2>3. \A b \in Batches : (productId[b] = lines[line].productId /\ work[b] > 0)
                              => \E i \in 1 .. n : s[i] = b
    BY <1>3 DEF IsSelection
  <2>4. line' <= Len(lines') /\ remaining' <= lines'[line'].quantity
    BY <1>1, <1>6
  <2>5. \A i \in DOMAIN batches' :
          /\ batches'[i].quantityLeft = work'[batches'[i].id]
          /\ productId'[batches'[i].id] = lines'[line'].productId
    BY <1>1, <1>4, <1>5, <2>1
  <2>6. \A i, j \in DOMAIN batches' : i < j =>
          /\ batches'[i].id # batches'[j].id
          /\ createdAt'[batches'[i].id] <= createdAt'[batches'[j].id]
    BY <1>1, <1>4, <1>5, <2>2
  <2>7. \A b \in Batches : (productId'[b] = lines'[line'].productId /\ work'[b] > 0)
                              => \E i \in DOMAIN batches' : batches'[i].id = b
    BY <1>1, <1>4, <1>5, <2>3
  <2> QED  BY <2>4, <2>5, <2>6, <2>7 DEF Selection
<1> QED  BY <1>1, <1>7, <1>8, <1>9 DEF Inv

\* Taking from one batch changes what was taken of its product by as much.
LEMMA OutChange ==
  ASSUME TypesOK, \A x \in Batches : work[x] <= quantityLeft[x],
         UNCHANGED <<productId, quantityLeft>>, NEW b \in Batches, NEW take \in Nat,
         take <= work[b], work' = [work EXCEPT ![b] = @ - take]
  PROVE  /\ \A x \in Batches : /\ work'[x] \in Nat /\ work'[x] <= work[x]
                               /\ x # b => work'[x] = work[x] /\ Out(x)' = Out(x)
         /\ work'[b] = work[b] - take
         /\ Out(b)' = Out(b) + take
         /\ \A p : OutOf(p)' = OutOf(p) + IF productId[b] = p THEN take ELSE 0
<1>1. \A x \in Batches : quantityLeft[x] \in Nat /\ work[x] \in Nat
  BY DEF TypesOK
<1>2. /\ \A x \in Batches : /\ work'[x] \in Nat /\ work'[x] <= work[x]
                            /\ x # b => work'[x] = work[x]
      /\ work'[b] = work[b] - take
  BY <1>1 DEF TypesOK
<1>3. \A x \in Batches : x # b => Out(x)' = Out(x)
  BY <1>2 DEF Out
<1>4. Out(b)' = Out(b) + take /\ Out(b) \in Nat
  BY <1>1, <1>2 DEF Out
<1>5. ASSUME NEW p
      PROVE  OutOf(p)' = OutOf(p) + IF productId[b] = p THEN take ELSE 0
  <2>1. PICK B : B = BatchesOf(p) /\ B = BatchesOf(p)'
    BY DEF BatchesOf
  <2>2. IsFiniteSet(B) /\ B \subseteq Batches /\ OutOf(p) \in Nat
        /\ \A x \in Batches : Out(x) \in Nat
    BY <2>1, OutFacts
  <2>3. PICK f, g : f = [x \in B |-> Out(x)] /\ g = [x \in B |-> Out(x)']
    OBVIOUS
  <2>4. OutOf(p) = Total(f, B) /\ OutOf(p)' = Total(g, B)
    BY <2>1, <2>3 DEF OutOf
  <2>5. \A x \in B : f[x] = Out(x) /\ g[x] = Out(x)'
    BY <2>3
  <2>6. CASE productId[b] = p
    <3>1. b \in B
      BY <2>1, <2>6 DEF BatchesOf
    <3>2. \A x \in B : f[x] \in Nat /\ g[x] \in Nat /\ (x # b => g[x] = f[x])
      BY <1>3, <1>4, <2>2, <2>5
    <3>3. Total(g, B) + f[b] = Total(f, B) + g[b]
      BY <2>2, <3>1, <3>2, TotalChange
    <3>4. g[b] = f[b] + take /\ f[b] \in Nat /\ Total(g, B) \in Nat
      BY <1>4, <2>2, <2>5, <3>1, <3>2, TotalNat
    <3> QED  BY <2>2, <2>4, <2>6, <3>3, <3>4
  <2>7. CASE productId[b] # p
    <3>1. \A x \in B : g[x] = f[x]
      BY <1>3, <2>1, <2>2, <2>5, <2>7 DEF BatchesOf
    <3>2. Total(g, B) = Total(f, B)
      BY <3>1, TotalEqual
    <3> QED  BY <2>2, <2>4, <2>7, <3>2
  <2> QED  BY <2>6, <2>7
<1> QED  BY <1>2, <1>3, <1>4, <1>5

\* deductStock takes what it can from the oldest batch that has something left.
LEMMA TakeFromBatchKeeps ==
  ASSUME Inv, TakeFromBatch
  PROVE  Inv'
<1>1. /\ pc = "batch" /\ pc' = "batch" /\ batches # << >> /\ remaining > 0
      /\ UNCHANGED <<productId, createdAt, lines, quantityLeft, rows, status, line, todo>>
      /\ Posting /\ TypesOK /\ Selection /\ batches' = Tail(batches)
  BY DEF TakeFromBatch, given, stored, Inv
<1>2. PICK head, take : head = Head(batches) /\ take = TakeOf(head)
  OBVIOUS
<1>3. /\ work' = [work EXCEPT ![head.id] = @ - take]
      /\ made' = Append(made, [batchId |-> head.id, quantity |-> take])
      /\ remaining' = remaining - take
  BY <1>2 DEF TakeFromBatch
<1>4. /\ batches \in Seq(Read) /\ remaining \in Nat /\ made \in Seq(Row)
      /\ \A b \in Batches : /\ work[b] \in Nat /\ quantityLeft[b] \in Nat
                            /\ work[b] <= quantityLeft[b] /\ createdAt[b] \in Int
  BY <1>1 DEF TypesOK, Posting, Moved
<1>5. /\ Len(batches) \in Nat /\ DOMAIN batches = 1 .. Len(batches) /\ 1 \in DOMAIN batches
      /\ head = batches[1] /\ head \in Read
      /\ batches' \in Seq(Read) /\ DOMAIN batches' = 1 .. Len(batches) - 1
      /\ \A i \in DOMAIN batches' : batches'[i] = batches[i + 1] /\ i + 1 \in DOMAIN batches
  BY <1>1, <1>2, <1>4
<1>6. PICK b \in Batches : b = head.id /\ head.quantityLeft = work[b]
  BY <1>1, <1>5 DEF Read, Selection
<1>7. /\ take \in Nat /\ take <= work[b] /\ take <= remaining
      /\ take = remaining \/ take = work[b]
  BY <1>2, <1>4, <1>6 DEF TakeOf
<1>8. /\ \A x \in Batches : /\ work'[x] \in Nat /\ work'[x] <= work[x]
                            /\ x # b => work'[x] = work[x] /\ Out(x)' = Out(x)
      /\ work'[b] = work[b] - take /\ Out(b)' = Out(b) + take
      /\ \A p : OutOf(p)' = OutOf(p) + IF productId[b] = p THEN take ELSE 0
  <2>1. \A x \in Batches : work[x] <= quantityLeft[x]
    BY <1>4
  <2>2. work' = [work EXCEPT ![b] = @ - take]
    BY <1>3, <1>6
  <2>3. UNCHANGED <<productId, quantityLeft>> /\ take \in Nat /\ take <= work[b]
    BY <1>1, <1>7
  <2> QED  BY <1>1, <2>1, <2>2, <2>3, OutChange
<1>9. PICK row \in Row : row.batchId = b /\ row.quantity = take /\ made' = Append(made, row)
  <2>1. [batchId |-> b, quantity |-> take] \in Row
    BY <1>7 DEF Row
  <2> QED  BY <1>3, <1>6, <2>1
<1>10. TypesOK'
  <2>1. made' \in Seq(Row) /\ remaining' \in Nat
    BY <1>3, <1>4, <1>7, <1>9
  <2>2. work' \in [Batches -> Nat]
    BY <1>1, <1>3, <1>8 DEF TypesOK
  <2> QED  BY <1>1, <1>5, <2>1, <2>2 DEF TypesOK
<1>11. Moved'
  <2> SUFFICES ASSUME NEW x \in Batches
               PROVE  work'[x] <= quantityLeft[x] /\ RowsTotal(made, x)' = Out(x)'
    BY <1>1 DEF Moved
  <2>1. RowsTotal(made, x) = Out(x) /\ Out(x) \in Nat
    BY <1>1, <1>4 DEF Posting, Moved, Out
  <2>2. RowsTotal(made', x) = RowsTotal(made, x) + IF b = x THEN take ELSE 0
    BY <1>4, <1>9, RowsAppend
  <2>3. RowsTotal(made, x)' = RowsTotal(made', x)
    BY DEF RowsTotal
  <2>4. RowsTotal(made, x)' = Out(x)'
    BY <1>7, <1>8, <2>1, <2>2, <2>3
  <2> QED  BY <1>4, <1>8, <2>4
<1>12. productId[b] = lines[line].productId
  BY <1>1, <1>5, <1>6 DEF Selection
<1>13. lines[line].quantity \in Nat
  <2> DEFINE L == [productId : Products, quantity : Nat]
  <2>1. lines \in Seq(L) /\ line \in 1 .. Len(lines)
    BY <1>1 DEF TypesOK, Posting, Selection
  <2> HIDE DEF L
  <2>2. lines[line] \in L
    BY <2>1
  <2> QED  BY <2>2 DEF L
<1>14. Served'
  <2> SUFFICES ASSUME NEW p \in Products
               PROVE  OutOf(p)' = NeededOn(p, line - 1)' + Partly(p)'
    BY DEF Served
  <2>1. NeededOn(p, line - 1)' = NeededOn(p, line - 1) /\ NeededOn(p, line - 1) \in Nat
    BY <1>1, NeededSame, NeededFacts
  <2>2. OutOf(p) = NeededOn(p, line - 1) + Partly(p)
    BY <1>1 DEF Posting, Served
  <2>3. CASE productId[b] = p
    <3>1. Partly(p) = lines[line].quantity - remaining
          /\ Partly(p)' = lines[line].quantity - (remaining - take)
      BY <1>1, <1>3, <1>12, <2>3 DEF Partly
    <3>2. OutOf(p)' = OutOf(p) + take
      BY <1>8, <2>3
    <3> QED  BY <1>4, <1>7, <1>13, <2>1, <2>2, <3>1, <3>2
  <2>4. CASE productId[b] # p
    <3>1. Partly(p) = 0 /\ Partly(p)' = 0
      BY <1>1, <1>12, <2>4 DEF Partly
    <3>2. OutOf(p)' = OutOf(p) + 0
      BY <1>8, <2>4
    <3> QED  BY <2>1, <2>2, <3>1, <3>2
  <2> QED  BY <2>3, <2>4
<1>15. EmptiedInOrder'
  <2> SUFFICES ASSUME NEW older \in Batches, NEW x \in Batches, productId[older] = productId[x],
                      createdAt[older] < createdAt[x], Out(x)' > 0
               PROVE  work'[older] = 0
    BY <1>1 DEF EmptiedInOrder
  <2>1. CASE x # b
    <3>1. work[older] = 0
      BY <1>1, <1>8, <2>1 DEF Posting, EmptiedInOrder
    <3> QED  BY <1>8, <3>1
  <2>2. CASE x = b
    <3>1. work[older] = 0
      <4> SUFFICES ASSUME work[older] > 0 PROVE FALSE
        BY <1>4
      <4>1. PICK i \in DOMAIN batches : batches[i].id = older
        BY <1>1, <1>12, <2>2 DEF Selection
      <4>2. i = 1 \/ (1 < i /\ createdAt[batches[1].id] <= createdAt[older])
        BY <1>1, <1>5, <4>1 DEF Selection
      <4>3. createdAt[b] <= createdAt[older]
        BY <1>4, <1>5, <1>6, <4>1, <4>2
      <4> QED  BY <1>4, <2>2, <4>3
    <3> QED  BY <1>8, <3>1
  <2> QED  BY <2>1, <2>2
<1>16. Posting'
  BY <1>1, <1>11, <1>14, <1>15 DEF Posting
<1>17. Selection'
  <2>1. line' <= Len(lines') /\ remaining' <= lines'[line'].quantity
    BY <1>1, <1>3, <1>4, <1>7, <1>13 DEF Selection
  <2>2. \A i, j \in DOMAIN batches' : i < j =>
          /\ batches'[i].id # batches'[j].id
          /\ createdAt'[batches'[i].id] <= createdAt'[batches'[j].id]
    BY <1>1, <1>5 DEF Selection
  <2>3. ASSUME NEW i \in DOMAIN batches'
        PROVE  batches'[i].id # b /\ batches'[i].id \in Batches
    <3>1. batches'[i] = batches[i + 1] /\ i + 1 \in DOMAIN batches /\ 1 < i + 1
      BY <1>5
    <3>2. batches[i + 1] \in Read
      BY <1>4, <3>1
    <3>3. batches[1].id # batches[i + 1].id
      BY <1>1, <1>5, <3>1 DEF Selection
    <3> QED  BY <1>5, <1>6, <3>1, <3>2, <3>3 DEF Read
  <2>4. \A i \in DOMAIN batches' :
          /\ batches'[i].quantityLeft = work'[batches'[i].id]
          /\ productId'[batches'[i].id] = lines'[line'].productId
    BY <1>1, <1>5, <1>8, <2>3 DEF Selection
  <2>5. ASSUME remaining' > 0, NEW x \in Batches, productId[x] = lines[line].productId,
               work'[x] > 0
        PROVE  \E i \in DOMAIN batches' : batches'[i].id = x
    <3>1. take = work[b]
      BY <1>3, <1>4, <1>7, <2>5
    <3>2. x # b /\ work[x] > 0
      BY <1>4, <1>8, <2>5, <3>1
    <3>3. PICK i \in DOMAIN batches : batches[i].id = x
      BY <1>1, <2>5, <3>2 DEF Selection
    <3>4. i # 1 /\ i - 1 \in DOMAIN batches' /\ batches'[i - 1] = batches[i]
      BY <1>5, <1>6, <3>2, <3>3
    <3> QED  BY <3>3, <3>4
  <2> QED  BY <1>1, <2>1, <2>2, <2>4, <2>5 DEF Selection
<1> QED  BY <1>1, <1>10, <1>16, <1>17 DEF Inv

\* The line is served.
LEMMA NextLineKeeps ==
  ASSUME Inv, NextLine
  PROVE  Inv'
<1>1. /\ pc = "batch" /\ pc' = "line" /\ remaining = 0 /\ batches' = << >> /\ line' = line + 1
      /\ UNCHANGED <<productId, createdAt, lines, quantityLeft, rows, status, remaining, work,
                     made, todo>>
      /\ Posting /\ TypesOK /\ Selection
  BY DEF NextLine, given, stored, Inv, TypesOK
<1>2. TypesOK'
  <2>1. << >> \in Seq(Read)
    OBVIOUS
  <2> QED  BY <1>1, <2>1 DEF TypesOK
<1>3. line \in Nat /\ line \in DOMAIN lines /\ line + 1 \in 1 .. Len(lines) + 1
      /\ lines[line].quantity \in Nat
  <2> DEFINE L == [productId : Products, quantity : Nat]
  <2>1. lines \in Seq(L) /\ line \in 1 .. Len(lines)
    BY <1>1 DEF TypesOK, Posting, Selection
  <2> HIDE DEF L
  <2>2. lines[line] \in L
    BY <2>1
  <2> QED  BY <2>1, <2>2 DEF L
<1>4. Served'
  <2> SUFFICES ASSUME NEW p \in Products
               PROVE  OutOf(p)' = NeededOn(p, line - 1)' + Partly(p)'
    BY DEF Served
  <2>1. PICK n \in DOMAIN lines : n = line /\ line' - 1 = n /\ lines[n].quantity \in Nat
    BY <1>1, <1>3
  <2>2. NeededOn(p, line - 1)' = NeededOn(p, n)
    BY <1>1, <2>1 DEF NeededOn, LinesOf
  <2>3. NeededOn(p, n) =
          NeededOn(p, n - 1) + IF lines[n].productId = p THEN lines[n].quantity ELSE 0
    BY <1>1, NeededFacts
  <2>4. NeededOn(p, n) \in Nat /\ NeededOn(p, n - 1) \in Nat
    BY <1>1, NeededFacts
  <2>5. OutOf(p) = NeededOn(p, n - 1) + Partly(p)
    BY <1>1, <2>1 DEF Posting, Served
  <2>6. Partly(p) = IF lines[n].productId = p THEN lines[n].quantity ELSE 0
    BY <1>1, <2>1 DEF Partly
  <2>7. Partly(p)' = 0
    BY <1>1 DEF Partly
  <2>8. OutOf(p)' = OutOf(p)
    BY <1>1, OutSame
  <2> QED  BY <2>2, <2>3, <2>4, <2>5, <2>6, <2>7, <2>8
<1>5. Moved' /\ EmptiedInOrder'
  BY <1>1, OutSame DEF Posting, Moved, EmptiedInOrder, RowsTotal
<1> QED  BY <1>1, <1>2, <1>3, <1>4, <1>5 DEF Inv, Posting

\* Rows that come after rows.
LEMMA RowsJoin ==
  ASSUME NEW s \in Seq(Row), NEW t \in Seq(Row)
  PROVE  s \o t \in Seq(Row)
OBVIOUS

\* COMMIT of post.
LEMMA CommitPostKeeps ==
  ASSUME Inv, CommitPost
  PROVE  Inv'
<1>1. quantityLeft' \in [Batches -> Nat]
  BY DEF CommitPost, Inv, TypesOK
<1>2. rows' \in Seq(Row)
  BY RowsJoin DEF CommitPost, Inv, TypesOK
<1>3. status' = "POSTED" /\ UNCHANGED given /\ CallOver
  BY DEF CommitPost
<1> QED  BY <1>1, <1>2, <1>3, CallOverKeeps

\* ROLLBACK, of a post short of goods and of any call whose query failed.
LEMMA RollbackKeeps ==
  ASSUME Inv, Throw \/ Abort
  PROVE  Inv'
<1>1. UNCHANGED given /\ UNCHANGED stored /\ CallOver
  BY DEF Throw, Abort
<1>2. /\ quantityLeft' \in [Batches -> Nat] /\ rows' \in Seq(Row)
      /\ status' \in {"DRAFT", "POSTED"} /\ (status' = "DRAFT" => rows' = << >>)
  BY <1>1 DEF Inv, TypesOK, stored
<1> QED  BY <1>1, <1>2, CallOverKeeps

\* BEGIN of unpost.
LEMMA BeginUnpostKeeps ==
  ASSUME Inv, BeginUnpost
  PROVE  Inv'
<1>1. /\ pc' = "return" /\ status = "POSTED" /\ work' = quantityLeft /\ todo' = DOMAIN rows
      /\ UNCHANGED <<productId, createdAt, lines, quantityLeft, rows, status, line, batches,
                     remaining, made>>
      /\ TypesOK
  BY DEF BeginUnpost, given, stored, Inv
<1>2. TypesOK'
  BY <1>1 DEF TypesOK
<1>3. \A b \in Batches : Pending(b)' = RowsTotal(rows, b)'
  BY <1>1 DEF Pending, RowsTotal
<1>4. Returning'
  BY <1>1, <1>3 DEF Returning
<1> QED  BY <1>1, <1>2, <1>4 DEF Inv

\* What is pending of a batch is a sum over rows.
LEMMA PendingFacts ==
  ASSUME TypesOK, NEW b
  PROVE  /\ Pending(b) = SumOf(rows, {i \in todo : rows[i].batchId = b})
         /\ IsFiniteSet({i \in todo : rows[i].batchId = b})
         /\ Pending(b) \in Nat
<1>1. Pending(b) = SumOf(rows, {i \in todo : rows[i].batchId = b})
  BY DEF Pending, SumOf
<1>2. rows \in Seq(Row) /\ todo \subseteq DOMAIN rows
  BY DEF TypesOK
<1>3. PICK I : I = {i \in todo : rows[i].batchId = b}
  OBVIOUS
<1>4. IsFiniteSet(I) /\ \A i \in I : rows[i].quantity \in Nat
  BY <1>2, <1>3, RowsFacts, FS_Subset
<1> QED  BY <1>1, <1>3, <1>4, SumNat

\* One row of returnStock goes back to its batch.
LEMMA ReturnRowKeeps ==
  ASSUME Inv, NEW i \in todo, ReturnRow(i)
  PROVE  Inv'
<1>1. /\ pc = "return" /\ pc' = "return" /\ todo' = todo \ {i}
      /\ UNCHANGED <<productId, createdAt, lines, quantityLeft, rows, status, line, batches,
                     remaining, made>>
      /\ work' = [work EXCEPT ![rows[i].batchId] = @ + rows[i].quantity]
      /\ TypesOK /\ Returning
  BY DEF ReturnRow, given, stored, Inv
<1>2. i \in DOMAIN rows /\ rows \in Seq(Row) /\ work \in [Batches -> Nat]
  BY <1>1 DEF TypesOK
<1>3. PICK b \in Batches, q \in Nat : b = rows[i].batchId /\ q = rows[i].quantity
  BY <1>2, RowsFacts
<1>4. /\ work' \in [Batches -> Nat] /\ work'[b] = work[b] + q
      /\ \A x \in Batches : x # b => work'[x] = work[x]
  BY <1>1, <1>2, <1>3
<1>5. TypesOK'
  BY <1>1, <1>4 DEF TypesOK
<1>6. ASSUME NEW x \in Batches
      PROVE  Pending(x) = Pending(x)' + IF x = b THEN q ELSE 0
  <2>1. PICK I, J : /\ I = {k \in todo : rows[k].batchId = x}
                    /\ J = {k \in todo' : rows'[k].batchId = x}
    OBVIOUS
  <2>2. /\ Pending(x) = SumOf(rows, I) /\ IsFiniteSet(I) /\ Pending(x) \in Nat
    BY <1>1, <2>1, PendingFacts
  <2>3. Pending(x)' = SumOf(rows, J)
    BY <1>1, <2>1 DEF Pending, SumOf
  <2>4. \A k \in I : rows[k].quantity \in Nat
    BY <1>1, <2>1, RowsFacts DEF TypesOK
  <2>5. CASE x = b
    <3>1. I = J \cup {i} /\ i \notin J
      BY <1>1, <1>3, <2>1, <2>5
    <3>2. IsFiniteSet(J)
      BY <2>2, <3>1, FS_Subset
    <3>3. SumOf(rows, I) = SumOf(rows, J) + rows[i].quantity
      BY <2>4, <3>1, <3>2, SumAdd
    <3> QED  BY <1>3, <2>2, <2>3, <2>5, <3>3
  <2>6. CASE x # b
    <3>1. I = J
      BY <1>1, <1>3, <2>1, <2>6
    <3> QED  BY <2>2, <2>3, <2>6, <3>1
  <2> QED  BY <2>5, <2>6
<1>7. Returning'
  <2> SUFFICES ASSUME NEW x \in Batches
               PROVE  work'[x] + Pending(x)' = quantityLeft'[x] + RowsTotal(rows, x)'
    BY <1>1 DEF Returning
  <2>1. work[x] + Pending(x) = quantityLeft[x] + RowsTotal(rows, x)
    BY <1>1 DEF Returning
  <2>2. RowsTotal(rows, x)' = RowsTotal(rows, x)
    BY <1>1 DEF RowsTotal
  <2>3. Pending(x)' \in Nat
    <3>1. TypesOK' => Pending(x)' \in Nat
      <4>1. PICK J : J = {k \in todo' : rows'[k].batchId = x}
        OBVIOUS
      <4>2. Pending(x)' = SumOf(rows', J)
        BY <4>1 DEF Pending, SumOf
      <4>3. IsFiniteSet(J) /\ \A k \in J : rows'[k].quantity \in Nat
        BY <1>1, <1>2, <4>1, RowsFacts, FS_Subset DEF TypesOK
      <4> QED  BY <4>2, <4>3, SumNat
    <3> QED  BY <1>5, <3>1
  <2>4. CASE x = b
    <3>1. Pending(x) = Pending(x)' + q
      BY <1>6, <2>4
    <3> QED  BY <1>1, <1>2, <1>4, <2>1, <2>2, <2>3, <2>4, <3>1
  <2>5. CASE x # b
    <3>1. Pending(x) = Pending(x)' + 0
      BY <1>6, <2>5
    <3> QED  BY <1>1, <1>2, <1>4, <2>1, <2>2, <2>3, <2>5, <3>1
  <2> QED  BY <2>4, <2>5
<1> QED  BY <1>1, <1>5, <1>7 DEF Inv

\* COMMIT of unpost.
LEMMA CommitUnpostKeeps ==
  ASSUME Inv, CommitUnpost
  PROVE  Inv'
<1>1. << >> \in Seq(Row)
  OBVIOUS
<1>2. quantityLeft' \in [Batches -> Nat] /\ rows' \in Seq(Row) /\ rows' = << >>
  BY <1>1 DEF CommitUnpost, Inv, TypesOK
<1>3. status' = "DRAFT" /\ UNCHANGED given /\ CallOver
  BY DEF CommitUnpost
<1> QED  BY <1>2, <1>3, CallOverKeeps

\* At the start there is a document and no call.
LEMMA InitInv == Init => Inv
<1> SUFFICES ASSUME Init PROVE Inv
  OBVIOUS
<1>1. << >> \in Seq(Read) /\ << >> \in Seq(Row)
  OBVIOUS
<1>2. lines \in Seq([productId : Products, quantity : Nat])
  <2>1. PICK n \in Nat : lines \in [1 .. n -> Line]
    BY BoundsAssumption DEF Init
  <2>2. Line \subseteq [productId : Products, quantity : Nat]
    BY DEF Line
  <2> HIDE DEF Line
  <2>3. PICK L : L = [productId : Products, quantity : Nat]
    OBVIOUS
  <2>4. \A i \in 1 .. n : lines[i] \in L
    BY <2>1, <2>2, <2>3
  <2>5. lines \in [1 .. n -> L]
    BY <2>1, <2>4
  <2>6. lines \in Seq(L)
    BY <2>5
  <2> QED  BY <2>3, <2>6
<1>3. quantityLeft \in [Batches -> Nat] /\ createdAt \in [Batches -> Int]
  <2>1. /\ quantityLeft \in [Batches -> 0 .. MaxLeft] /\ 0 .. MaxLeft \subseteq Nat
        /\ createdAt \in [Batches -> Dates] /\ Dates \subseteq Int
    BY BoundsAssumption DEF Init
  <2>2. quantityLeft \in [Batches -> Nat]
    BY <2>1
  <2>3. createdAt \in [Batches -> Int]
    BY <2>1
  <2> QED  BY <2>2, <2>3
<1>4. TypesOK
  BY <1>1, <1>2, <1>3 DEF Init, TypesOK
<1> QED  BY <1>4 DEF Init, Inv

\* Every step keeps the invariant.
LEMMA NextInv == Inv /\ [Next]_vars => Inv'
<1> SUFFICES ASSUME Inv, [Next]_vars PROVE Inv'
  OBVIOUS
<1>1. CASE BeginPost  BY <1>1, BeginPostKeeps
<1>2. CASE SelectBatches  BY <1>2, SelectBatchesKeeps
<1>3. CASE TakeFromBatch  BY <1>3, TakeFromBatchKeeps
<1>4. CASE NextLine  BY <1>4, NextLineKeeps
<1>5. CASE Throw  BY <1>5, RollbackKeeps
<1>6. CASE CommitPost  BY <1>6, CommitPostKeeps
<1>7. CASE BeginUnpost  BY <1>7, BeginUnpostKeeps
<1>8. CASE \E i \in todo : ReturnRow(i)  BY <1>8, ReturnRowKeeps
<1>9. CASE CommitUnpost  BY <1>9, CommitUnpostKeeps
<1>10. CASE Abort  BY <1>10, RollbackKeeps
<1>11. CASE UNCHANGED vars
  <2>1. UNCHANGED <<productId, createdAt, lines, quantityLeft, rows, status, pc, line, batches,
                    remaining, work, made, todo>>
    BY <1>11 DEF vars, given, stored
  <2>2. TypesOK'
    BY <2>1 DEF Inv, TypesOK
  <2>3. Posting => Posting'
    <3> SUFFICES ASSUME Posting PROVE Posting'
      OBVIOUS
    <3>1. Moved'
      BY <2>1, OutSame DEF Posting, Moved, RowsTotal
    <3>2. EmptiedInOrder'
      BY <2>1, OutSame DEF Posting, EmptiedInOrder
    <3>3. Served'
      BY <2>1, OutSame DEF Posting, Served, Partly, NeededOn, LinesOf
    <3> QED  BY <2>1, <3>1, <3>2, <3>3 DEF Posting
  <2>4. Selection => Selection'
    BY <2>1 DEF Selection
  <2>5. Returning => Returning'
    BY <2>1 DEF Returning, Pending, RowsTotal
  <2> QED  BY <2>1, <2>2, <2>3, <2>4, <2>5 DEF Inv
<1> QED
  BY <1>1, <1>2, <1>3, <1>4, <1>5, <1>6, <1>7, <1>8, <1>9, <1>10, <1>11 DEF Next

\* The inductive invariant holds.
LEMMA SpecInv == Spec => []Inv
BY InitInv, NextInv, PTL DEF Spec

-----------------------------------------------------------------------------
(* The theorems.                                                           *)

\* Between the queries of post and deductStock, whatever the lines are, goods
\* are moved from batches to rows: none is made, lost or taken twice.
THEOREM PostMovesGoods == Spec => []GoodsMoved
<1>1. Inv => GoodsMoved
  <2> SUFFICES ASSUME Inv, pc \in {"line", "batch"}, NEW b \in Batches
               PROVE  work[b] >= 0 /\ work[b] + RowsTotal(made, b) = quantityLeft[b]
    BY DEF GoodsMoved
  <2>1. work[b] \in Nat /\ quantityLeft[b] \in Nat
    BY DEF Inv, TypesOK
  <2>2. RowsTotal(made, b) = quantityLeft[b] - work[b]
    BY DEF Inv, Posting, Moved, Out
  <2> QED  BY <2>1, <2>2
<1> QED  BY <1>1, SpecInv, PTL

-----------------------------------------------------------------------------
(* The loops implement the atomic steps.                                   *)

\* No rows hold nothing.
LEMMA RowsEmpty ==
  ASSUME NEW s, s = << >>, NEW b
  PROVE  RowsTotal(s, b) = 0
<1>1. PICK I : I = {i \in DOMAIN s : s[i].batchId = b}
  OBVIOUS
<1>2. I = {}
  BY <1>1
<1>3. SumOf(s, I) = 0
  BY <1>2, SumEmpty
<1> QED  BY <1>1, <1>3 DEF RowsTotal, SumOf

\* Both modules count units, and mean the same by first-in first-out.
LEMMA SameTotal ==
  /\ \A f, S : Atomic!Total(f, S) = Total(f, S)
  /\ \A take, left, created, B, n :
       Atomic!FifoTake(take, left, created, B, n) <=> FifoTake(take, left, created, B, n)
<1>1. \A f, S : Atomic!Total(f, S) = Total(f, S)
  BY DEF Atomic!Total, Total, Atomic!Units, Units, Atomic!Cardinality, Cardinality
<1>2. \A take, left, created, B :
        Atomic!OldestFirst(take, left, created, B) <=> OldestFirst(take, left, created, B)
  BY DEF Atomic!OldestFirst, OldestFirst
<1> QED  BY <1>1, <1>2 DEF Atomic!FifoTake, FifoTake

\* What all lines need is what the lines up to the last one need.
LEMMA NeededAll ==
  ASSUME TypesOK, NEW p
  PROVE  Atomic!Needed(p) = NeededOn(p, Len(lines))
<1>1. Len(lines) \in Nat /\ DOMAIN lines = 1 .. Len(lines)
  BY DEF TypesOK
<1>2. {i \in DOMAIN lines : lines[i].productId = p} = LinesOf(p, Len(lines))
  BY <1>1 DEF LinesOf
<1> QED  BY <1>2, SameTotal DEF Atomic!Needed, NeededOn

\* COMMIT of post publishes one first-in first-out deduction of all lines.
LEMMA PostRefined ==
  ASSUME Inv, CommitPost
  PROVE  Atomic!Post /\ UNCHANGED given
<1>1. /\ pc = "line" /\ line > Len(lines) /\ quantityLeft' = work /\ rows' = rows \o made
      /\ status = "DRAFT" /\ status' = "POSTED" /\ reply' = "posted" /\ rows = << >>
      /\ UNCHANGED given /\ TypesOK /\ Posting
  BY DEF CommitPost, Inv, Posting
<1>2. rows' = made
  BY <1>1 DEF TypesOK
<1>3. PICK take : take = [b \in Batches |-> RowsTotal(made, b)]
  OBVIOUS
<1>4. \A b \in Batches : /\ take[b] = quantityLeft[b] - work[b] /\ take[b] = Out(b)
                         /\ take[b] \in Nat /\ quantityLeft[b] \in Nat /\ work[b] \in Nat
                         /\ take[b] <= quantityLeft[b]
  BY <1>1, <1>3 DEF TypesOK, Posting, Moved, Out
<1>5. take \in [Batches -> Atomic!Takes]
  <2>1. \A b \in Batches : take[b] \in Atomic!Takes
    BY <1>4 DEF Atomic!Takes
  <2> QED  BY <1>3, <2>1
<1>6. ASSUME NEW p \in Products
      PROVE  FifoTake(take, quantityLeft, createdAt, Atomic!Of(p), Atomic!Needed(p))
  <2>1. Atomic!Of(p) = BatchesOf(p) /\ BatchesOf(p) \subseteq Batches
    BY DEF Atomic!Of, BatchesOf
  <2>2. Total([b \in BatchesOf(p) |-> take[b]], BatchesOf(p)) = OutOf(p)
    <3>1. \A b \in BatchesOf(p) : take[b] = Out(b)
      BY <1>4, <2>1
    <3>2. [b \in BatchesOf(p) |-> take[b]] = [b \in BatchesOf(p) |-> Out(b)]
      BY <3>1
    <3> QED  BY <3>2 DEF OutOf
  <2>3. OutOf(p) = Atomic!Needed(p)
    <3>1. OutOf(p) = NeededOn(p, line - 1) + 0
      BY <1>1 DEF Posting, Served, Partly
    <3>2. line - 1 = Len(lines)
      BY <1>1 DEF Posting, TypesOK
    <3>3. NeededOn(p, Len(lines)) \in Nat
      BY <1>1, NeededFacts
    <3> QED  BY <1>1, <3>1, <3>2, <3>3, NeededAll
  <2>4. OldestFirst(take, quantityLeft, createdAt, BatchesOf(p))
    <3> SUFFICES ASSUME NEW older \in BatchesOf(p), NEW b \in BatchesOf(p),
                        createdAt[older] < createdAt[b], take[b] > 0
                 PROVE  take[older] = quantityLeft[older]
      BY DEF OldestFirst
    <3>1. work[older] = 0
      BY <1>1, <1>4 DEF Posting, EmptiedInOrder, BatchesOf
    <3> QED  BY <1>4, <2>1, <3>1
  <2> QED  BY <1>4, <2>1, <2>2, <2>3, <2>4 DEF FifoTake
<1>7. quantityLeft' = [b \in Batches |-> quantityLeft[b] - take[b]]
  <2>1. work = [b \in Batches |-> work[b]]
    BY <1>1 DEF TypesOK
  <2>2. \A b \in Batches : work[b] = quantityLeft[b] - take[b]
    BY <1>4
  <2> QED  BY <1>1, <2>1, <2>2
<1>8. [b \in Batches |-> RowsTotal(rows, b)]' = take
  BY <1>2, <1>3 DEF RowsTotal
<1>9. \E t \in [Batches -> Atomic!Takes] :
        /\ \A p \in Products :
             Atomic!FifoTake(t, quantityLeft, createdAt, Atomic!Of(p), Atomic!Needed(p))
        /\ quantityLeft' = [b \in Batches |-> quantityLeft[b] - t[b]]
        /\ [b \in Batches |-> RowsTotal(rows, b)]' = t
  <2>1. \A p \in Products :
          Atomic!FifoTake(take, quantityLeft, createdAt, Atomic!Of(p), Atomic!Needed(p))
    BY <1>6, SameTotal
  <2> QED  BY <1>5, <1>7, <1>8, <2>1
<1> QED  BY <1>1, <1>9 DEF Atomic!Post

\* post throws only when the lines need more of a product than is in stock.
LEMMA ThrowRefined ==
  ASSUME Inv, Throw
  PROVE  Atomic!Refuse /\ UNCHANGED given
<1>1. /\ pc = "batch" /\ batches = << >> /\ remaining > 0 /\ reply' = "INSUFFICIENT_STOCK"
      /\ UNCHANGED given /\ UNCHANGED stored /\ status = "DRAFT"
      /\ TypesOK /\ Posting /\ Selection
  BY DEF Throw, Inv, Posting
<1>2. line \in DOMAIN lines /\ lines[line].quantity \in Nat /\ lines[line].productId \in Products
  <2> DEFINE L == [productId : Products, quantity : Nat]
  <2>1. lines \in Seq(L) /\ line \in 1 .. Len(lines)
    BY <1>1 DEF TypesOK, Posting, Selection
  <2> HIDE DEF L
  <2>2. line \in DOMAIN lines /\ lines[line] \in L
    BY <2>1
  <2> QED  BY <2>2 DEF L
<1>3. PICK p \in Products : p = lines[line].productId
  BY <1>2
<1>4. \A b \in BatchesOf(p) : Out(b) = quantityLeft[b]
  <2> TAKE b \in BatchesOf(p)
  <2>1. b \in Batches /\ productId[b] = p
    BY DEF BatchesOf
  <2>2. work[b] \in Nat /\ quantityLeft[b] \in Nat
    BY <1>1, <2>1 DEF TypesOK
  <2>3. ~ (work[b] > 0)
    BY <1>1, <1>3, <2>1 DEF Selection
  <2> QED  BY <2>2, <2>3 DEF Out
<1>5. Atomic!InStock(p) = OutOf(p)
  <2>1. [b \in BatchesOf(p) |-> quantityLeft[b]] = [b \in BatchesOf(p) |-> Out(b)]
    BY <1>4
  <2>2. Atomic!Of(p) = BatchesOf(p)
    BY DEF Atomic!Of, BatchesOf
  <2> QED  BY <2>1, <2>2, SameTotal DEF Atomic!InStock, OutOf
<1>6. OutOf(p) = NeededOn(p, line - 1) + (lines[line].quantity - remaining)
  BY <1>1, <1>3 DEF Posting, Served, Partly
<1>7. NeededOn(p, line) = NeededOn(p, line - 1) + lines[line].quantity
  BY <1>1, <1>2, <1>3, NeededFacts
<1>8. /\ NeededOn(p, line) <= Atomic!Needed(p)
      /\ NeededOn(p, line - 1) \in Nat /\ NeededOn(p, line) \in Nat /\ Atomic!Needed(p) \in Nat
  BY <1>1, NeededFacts, NeededAll
<1>9. remaining \in Nat
  BY <1>1 DEF TypesOK
<1>10. Atomic!InStock(p) < Atomic!Needed(p)
  BY <1>1, <1>2, <1>5, <1>6, <1>7, <1>8, <1>9
<1>11. UNCHANGED [b \in Batches |-> RowsTotal(rows, b)]
  BY <1>1 DEF stored, RowsTotal
<1> QED  BY <1>1, <1>10, <1>11 DEF Atomic!Refuse, stored

\* COMMIT of unpost publishes that everything the rows held is back.
LEMMA UnpostRefined ==
  ASSUME Inv, CommitUnpost
  PROVE  Atomic!Unpost /\ UNCHANGED given
<1>1. /\ pc = "return" /\ todo = {} /\ quantityLeft' = work /\ rows' = << >>
      /\ status = "POSTED" /\ status' = "DRAFT" /\ reply' = "unposted"
      /\ UNCHANGED given /\ TypesOK /\ Returning
  BY DEF CommitUnpost, Inv, Returning
<1>2. PICK held : held = [b \in Batches |-> RowsTotal(rows, b)]
  OBVIOUS
<1>3. ASSUME NEW b \in Batches PROVE work[b] = quantityLeft[b] + held[b]
  <2>1. PICK I : I = {i \in todo : rows[i].batchId = b}
    OBVIOUS
  <2>2. I = {}
    BY <1>1, <2>1
  <2>3. Pending(b) = 0
    BY <2>1, <2>2, SumEmpty DEF Pending, SumOf
  <2>4. work[b] + Pending(b) = quantityLeft[b] + RowsTotal(rows, b)
    BY <1>1 DEF Returning
  <2>5. work[b] \in Nat
    BY <1>1 DEF TypesOK
  <2> QED  BY <1>2, <2>3, <2>4, <2>5
<1>4. quantityLeft' = [b \in Batches |-> quantityLeft[b] + held[b]]
  <2>1. work = [b \in Batches |-> work[b]]
    BY <1>1 DEF TypesOK
  <2> QED  BY <1>1, <1>3, <2>1
<1>5. [b \in Batches |-> RowsTotal(rows, b)]' = [b \in Batches |-> 0]
  <2>1. \A b \in Batches : RowsTotal(rows', b) = 0
    BY <1>1, RowsEmpty
  <2> QED  BY <2>1 DEF RowsTotal
<1> QED  BY <1>1, <1>2, <1>4, <1>5 DEF Atomic!Unpost

\* The initial states are initial states of the atomic steps.
LEMMA InitRefined == Init => Atomic!Init
<1> SUFFICES ASSUME Init PROVE Atomic!Init
  OBVIOUS
<1>1. quantityLeft \in [Batches -> Nat] /\ rows = << >>
  BY InitInv DEF Init, Inv, TypesOK
<1>2. \A b \in Batches : RowsTotal(rows, b) = 0
  BY <1>1, RowsEmpty
<1> QED  BY <1>1, <1>2 DEF Init, Atomic!Init

\* A query of a loop shows nobody anything; the COMMITs and the throw are the
\* atomic steps.
LEMMA NextRefined == Inv /\ [Next]_vars => [Atomic!Next]_(Atomic!vars)
<1> SUFFICES ASSUME Inv, [Next]_vars PROVE [Atomic!Next]_(Atomic!vars)
  OBVIOUS
<1>1. CASE CommitPost
  BY <1>1, PostRefined DEF Atomic!Next, given, Atomic!given
<1>2. CASE Throw
  BY <1>2, ThrowRefined DEF Atomic!Next, given, Atomic!given
<1>3. CASE CommitUnpost
  BY <1>3, UnpostRefined DEF Atomic!Next, given, Atomic!given
<1>4. CASE UNCHANGED <<given, stored, reply>>
  BY <1>4 DEF Atomic!vars, Atomic!given, given, stored, RowsTotal
<1>5. \/ UNCHANGED <<given, stored, reply>>
      \/ CommitPost \/ Throw \/ CommitUnpost
  BY DEF Next, vars, BeginPost, SelectBatches, TakeFromBatch, NextLine, BeginUnpost, ReturnRow,
         Abort
<1> QED  BY <1>1, <1>2, <1>3, <1>4, <1>5

\* The loops of post and unpost, query by query and with calls that fail in
\* between, implement the atomic first-in first-out steps.
THEOREM LoopsImplementAtomic == Spec => ImplementsAtomic
<1>1. Spec => Atomic!Spec
  BY InitRefined, NextRefined, SpecInv, PTL DEF Spec, Atomic!Spec
<1> QED  BY <1>1 DEF ImplementsAtomic
=============================================================================
