-------------------------- MODULE QuantitiesProofs --------------------------
(***************************************************************************)
(* What Total computes, for every finite set and every quantities: the     *)
(* facts about sums that the proofs about the stock ledger cite.           *)
(***************************************************************************)
EXTENDS Quantities, FiniteSetTheorems, FunctionTheorems, TLAPS

\* Disjoint sets: the cardinalities add up.
LEMMA DisjointCardinality ==
  ASSUME NEW A, NEW B, IsFiniteSet(A), IsFiniteSet(B), A \cap B = {}
  PROVE  Cardinality(A \cup B) = Cardinality(A) + Cardinality(B)
<1>1. Cardinality(A) \in Nat /\ Cardinality(B) \in Nat
  BY FS_CardinalityType
<1>2. Cardinality(A \cap B) = 0
  BY FS_EmptySet
<1>3. Cardinality(A \cup B) = Cardinality(A) + Cardinality(B) - Cardinality(A \cap B)
  BY FS_Union
<1> QED  BY <1>1, <1>2, <1>3

\* The units of f over S, pair by pair.
LEMMA UnitsMember ==
  ASSUME NEW S, NEW f, NEW x, NEW i
  PROVE  <<x, i>> \in Units(f, S) <=> x \in S /\ i \in 1 .. f[x]
BY DEF Units

\* Finitely many finite quantities have finitely many units.
LEMMA UnitsFinite ==
  ASSUME NEW S, IsFiniteSet(S), NEW f, \A x \in S : f[x] \in Nat
  PROVE  IsFiniteSet(Units(f, S))
<1> DEFINE part == [x \in S |-> {x} \X (1 .. f[x])]
           T == {{x} \X (1 .. f[x]) : x \in S}
<1>1. part \in Surjection(S, T)
  BY DEF Surjection
<1>2. IsFiniteSet(T)
  BY <1>1, FS_Surjection
<1>3. \A x \in S : IsFiniteSet({x} \X (1 .. f[x]))
  <2> TAKE x \in S
  <2>1. IsFiniteSet({x})  BY FS_Singleton
  <2>2. IsFiniteSet(1 .. f[x])  BY FS_Interval
  <2> QED  BY <2>1, <2>2, FS_Product
<1> QED  BY <1>2, <1>3, FS_UNION DEF Units

\* A sum of quantities is a quantity.
THEOREM TotalNat ==
  ASSUME NEW S, IsFiniteSet(S), NEW f, \A x \in S : f[x] \in Nat
  PROVE  Total(f, S) \in Nat
BY UnitsFinite, FS_CardinalityType DEF Total

\* The sum depends on the values of f in S only.
THEOREM TotalEqual ==
  ASSUME NEW S, NEW f, NEW g, \A x \in S : f[x] = g[x]
  PROVE  Total(f, S) = Total(g, S)
<1>1. Units(f, S) = Units(g, S)
  BY DEF Units
<1> QED  BY <1>1 DEF Total

\* The sum over no holders is 0.
THEOREM TotalEmpty ==
  ASSUME NEW f
  PROVE  Total(f, {}) = 0
<1>1. Units(f, {}) = {}  BY DEF Units
<1> QED  BY <1>1, FS_EmptySet DEF Total

\* The sum over one holder is what it holds.
THEOREM TotalSingleton ==
  ASSUME NEW x, NEW f, f[x] \in Nat
  PROVE  Total(f, {x}) = f[x]
<1>1. PICK n, A, C : n \in Nat /\ n = f[x] /\ A = {x} /\ C = 1 .. n
  OBVIOUS
<1>2. IsFiniteSet(A) /\ Cardinality(A) = 1
  BY <1>1, FS_Singleton
<1>3. IsFiniteSet(C) /\ Cardinality(C) = n
  BY <1>1, FS_Interval
<1>4. Cardinality(A \X C) = Cardinality(A) * Cardinality(C)
  BY <1>2, <1>3, FS_Product
<1>5. Cardinality(A \X C) = n
  BY <1>1, <1>2, <1>3, <1>4
<1>6. Units(f, {x}) = A \X C
  BY <1>1 DEF Units
<1> QED  BY <1>1, <1>5, <1>6 DEF Total

\* Sums over disjoint sets of holders add up.
THEOREM TotalUnion ==
  ASSUME NEW S, IsFiniteSet(S), NEW T, IsFiniteSet(T), S \cap T = {},
         NEW f, \A x \in S \cup T : f[x] \in Nat
  PROVE  Total(f, S \cup T) = Total(f, S) + Total(f, T)
<1>1. Units(f, S \cup T) = Units(f, S) \cup Units(f, T)
  BY DEF Units
<1>2. Units(f, S) \cap Units(f, T) = {}
  BY DEF Units
<1>3. IsFiniteSet(Units(f, S)) /\ IsFiniteSet(Units(f, T))
  BY UnitsFinite
<1>4. Cardinality(Units(f, S) \cup Units(f, T)) =
        Cardinality(Units(f, S)) + Cardinality(Units(f, T))
  BY <1>2, <1>3, DisjointCardinality
<1> QED  BY <1>1, <1>4 DEF Total

\* Removing a holder removes what it holds.
THEOREM TotalRemove ==
  ASSUME NEW S, IsFiniteSet(S), NEW x \in S, NEW f, \A y \in S : f[y] \in Nat
  PROVE  Total(f, S) = Total(f, S \ {x}) + f[x]
<1>1. IsFiniteSet(S \ {x}) /\ IsFiniteSet({x})
  BY FS_RemoveElement, FS_Singleton
<1>2. S = (S \ {x}) \cup {x} /\ (S \ {x}) \cap {x} = {}
  OBVIOUS
<1>3. Total(f, (S \ {x}) \cup {x}) = Total(f, S \ {x}) + Total(f, {x})
  BY <1>1, <1>2, TotalUnion
<1>4. Total(f, {x}) = f[x]  BY TotalSingleton
<1> QED  BY <1>2, <1>3, <1>4

\* One holder gets another quantity.
THEOREM TotalChange ==
  ASSUME NEW S, IsFiniteSet(S), NEW x \in S, NEW f, NEW g,
         \A y \in S : f[y] \in Nat /\ g[y] \in Nat, \A y \in S : y # x => g[y] = f[y]
  PROVE  Total(g, S) + f[x] = Total(f, S) + g[x]
<1>1. IsFiniteSet(S \ {x})  BY FS_RemoveElement
<1>2. Total(f, S) = Total(f, S \ {x}) + f[x]  BY TotalRemove
<1>3. Total(g, S) = Total(g, S \ {x}) + g[x]  BY TotalRemove
<1>4. Total(g, S \ {x}) = Total(f, S \ {x})  BY TotalEqual
<1>5. Total(f, S \ {x}) \in Nat  BY <1>1, TotalNat
<1> QED  BY <1>2, <1>3, <1>4, <1>5

\* Larger quantities have the larger sum.
THEOREM TotalMonotone ==
  ASSUME NEW S, IsFiniteSet(S), NEW f, NEW g,
         \A x \in S : f[x] \in Nat /\ g[x] \in Nat /\ f[x] <= g[x]
  PROVE  Total(f, S) <= Total(g, S)
<1>1. Units(f, S) \subseteq Units(g, S)
  BY DEF Units
<1>2. IsFiniteSet(Units(g, S))  BY UnitsFinite
<1> QED  BY <1>1, <1>2, FS_Subset DEF Total

\* No holder holds more than the sum.
THEOREM TotalBounds ==
  ASSUME NEW S, IsFiniteSet(S), NEW f, \A x \in S : f[x] \in Nat
  PROVE  \A x \in S : f[x] <= Total(f, S)
<1> TAKE x \in S
<1>1. IsFiniteSet(S \ {x})  BY FS_RemoveElement
<1>2. Total(f, S \ {x}) \in Nat  BY <1>1, TotalNat
<1>3. Total(f, S) = Total(f, S \ {x}) + f[x]  BY TotalRemove
<1> QED  BY <1>2, <1>3

\* The sum is 0 when every holder holds 0.
THEOREM TotalZero ==
  ASSUME NEW S, NEW f, \A x \in S : f[x] = 0
  PROVE  Total(f, S) = 0
<1>1. Units(f, S) = {}  BY DEF Units
<1> QED  BY <1>1, FS_EmptySet DEF Total

\* Holders of 0 do not matter to the sum.
THEOREM TotalSame ==
  ASSUME NEW S, NEW T, NEW f, NEW g, \A x \in S \cap T : f[x] = g[x],
         \A x \in S \ T : f[x] = 0, \A x \in T \ S : g[x] = 0
  PROVE  Total(f, S) = Total(g, T)
<1>1. \A x, i : x \in S /\ i \in 1 .. f[x] <=> x \in T /\ i \in 1 .. g[x]
  OBVIOUS
<1>2. Units(f, S) = Units(g, T)
  BY <1>1 DEF Units
<1> QED  BY <1>2 DEF Total

\* Sums add up holder by holder: the units of f + g are the units of f and,
\* ranked above them, the units of g.
THEOREM TotalPlus ==
  ASSUME NEW S, IsFiniteSet(S), NEW f, NEW g, NEW h,
         \A x \in S : f[x] \in Nat /\ g[x] \in Nat /\ h[x] = f[x] + g[x]
  PROVE  Total(h, S) = Total(f, S) + Total(g, S)
<1> DEFINE above == Units(h, S) \ Units(f, S)
           raise == [u \in Units(g, S) |-> <<u[1], f[u[1]] + u[2]>>]
<1>1. Units(f, S) \subseteq Units(h, S)
  BY DEF Units
<1>2. \A x, i : <<x, i>> \in above <=> x \in S /\ i \in f[x] + 1 .. h[x]
  <2> TAKE x, i
  <2>1. <<x, i>> \in above <=> /\ x \in S /\ i \in 1 .. h[x]
                              /\ ~(x \in S /\ i \in 1 .. f[x])
    BY UnitsMember
  <2> QED  BY <2>1
<1>3. \A u \in Units(g, S) : u = <<u[1], u[2]>> /\ u[1] \in S /\ u[2] \in 1 .. g[u[1]]
  BY DEF Units
<1>4. raise \in [Units(g, S) -> above]
  <2> SUFFICES ASSUME NEW u \in Units(g, S) PROVE <<u[1], f[u[1]] + u[2]>> \in above
    OBVIOUS
  <2>1. u[1] \in S /\ f[u[1]] + u[2] \in f[u[1]] + 1 .. h[u[1]]
    BY <1>3
  <2> QED  BY <2>1, <1>2
<1>5. \A u, v \in Units(g, S) : raise[u] = raise[v] => u = v
  BY <1>3
<1>6. \A w \in above : \E u \in Units(g, S) : raise[u] = w
  <2> SUFFICES ASSUME NEW w \in above PROVE \E u \in Units(g, S) : raise[u] = w
    OBVIOUS
  <2>1. w = <<w[1], w[2]>>  BY DEF Units
  <2>2. w[1] \in S /\ w[2] \in f[w[1]] + 1 .. h[w[1]]
    BY <2>1, <1>2
  <2> DEFINE u == <<w[1], w[2] - f[w[1]]>>
  <2>3. u \in Units(g, S)
    BY <2>2, UnitsMember
  <2>4. raise[u] = w
    BY <2>1, <2>2, <2>3
  <2> QED  BY <2>3, <2>4
<1>7. raise \in Bijection(Units(g, S), above)
  BY <1>4, <1>5, <1>6, Fun_IsBij
<1>8. IsFiniteSet(Units(f, S)) /\ IsFiniteSet(Units(g, S)) /\ IsFiniteSet(Units(h, S))
  BY UnitsFinite
<1>9. IsFiniteSet(above) /\ Cardinality(above) = Cardinality(Units(g, S))
  BY <1>7, <1>8, FS_Bijection, Fun_ExistsBij
<1>10. Units(h, S) = Units(f, S) \cup above /\ Units(f, S) \cap above = {}
  BY <1>1
<1>11. Cardinality(Units(f, S) \cup above) = Cardinality(Units(f, S)) + Cardinality(above)
  BY <1>8, <1>9, <1>10, DisjointCardinality
<1> QED  BY <1>9, <1>10, <1>11 DEF Total

\* The same quantities with other holders have the same sum.
THEOREM TotalMoved ==
  ASSUME NEW S, IsFiniteSet(S), NEW T, NEW f, NEW g, NEW h \in [S -> T],
         \A x, y \in S : h[x] = h[y] => x = y,
         \A z \in T : \E x \in S : h[x] = z,
         \A x \in S : f[x] \in Nat /\ g[h[x]] = f[x]
  PROVE  Total(g, T) = Total(f, S)
<1> DEFINE move == [u \in Units(f, S) |-> <<h[u[1]], u[2]>>]
<1>1. \A u \in Units(f, S) : u = <<u[1], u[2]>> /\ u[1] \in S /\ u[2] \in 1 .. f[u[1]]
  BY DEF Units
<1>2. move \in [Units(f, S) -> Units(g, T)]
  <2> SUFFICES ASSUME NEW u \in Units(f, S) PROVE <<h[u[1]], u[2]>> \in Units(g, T)
    OBVIOUS
  <2>1. h[u[1]] \in T /\ u[2] \in 1 .. g[h[u[1]]]
    BY <1>1
  <2> QED  BY <2>1, UnitsMember
<1>3. \A u, v \in Units(f, S) : move[u] = move[v] => u = v
  BY <1>1
<1>4. \A w \in Units(g, T) : \E u \in Units(f, S) : move[u] = w
  <2> SUFFICES ASSUME NEW w \in Units(g, T) PROVE \E u \in Units(f, S) : move[u] = w
    OBVIOUS
  <2>1. w = <<w[1], w[2]>> /\ w[1] \in T /\ w[2] \in 1 .. g[w[1]]
    BY DEF Units
  <2>2. PICK x \in S : h[x] = w[1]
    BY <2>1
  <2> DEFINE u == <<x, w[2]>>
  <2>3. u \in Units(f, S)
    BY <2>1, <2>2, UnitsMember
  <2>4. move[u] = w
    BY <2>1, <2>2, <2>3
  <2> QED  BY <2>3, <2>4
<1>5. move \in Bijection(Units(f, S), Units(g, T))
  BY <1>2, <1>3, <1>4, Fun_IsBij
<1>6. IsFiniteSet(Units(f, S))
  BY UnitsFinite
<1> QED  BY <1>5, <1>6, FS_Bijection, Fun_ExistsBij DEF Total

\* The members of S that k puts into group j.
GroupOf(S, k, j) == {x \in S : k[x] = j}

\* A sum can be taken group by group.
THEOREM TotalGrouped ==
  ASSUME NEW S, IsFiniteSet(S), NEW K, NEW k, \A x \in S : k[x] \in K,
         NEW f, \A x \in S : f[x] \in Nat,
         NEW g, \A j \in K : g[j] = Total(f, GroupOf(S, k, j))
  PROVE  Total(g, K) = Total(f, S)
<1> DEFINE U(j) == Units(f, GroupOf(S, k, j))
           rank == [j \in K |-> CHOOSE b : b \in Bijection(1 .. g[j], U(j))]
           place == [u \in Units(g, K) |-> rank[u[1]][u[2]]]
<1>1. ASSUME NEW j \in K
      PROVE  g[j] \in Nat /\ rank[j] \in Bijection(1 .. g[j], U(j))
  <2>1. IsFiniteSet(GroupOf(S, k, j)) /\ \A x \in GroupOf(S, k, j) : f[x] \in Nat
    BY FS_Subset DEF GroupOf
  <2>2. IsFiniteSet(U(j))
    BY <2>1, UnitsFinite
  <2>3. g[j] = Cardinality(U(j))
    BY DEF Total
  <2>4. g[j] \in Nat /\ ExistsBijection(1 .. g[j], U(j))
    BY <2>2, <2>3, FS_CardinalityType
  <2>5. \E b : b \in Bijection(1 .. g[j], U(j))
    BY <2>4 DEF ExistsBijection
  <2> QED  BY <2>4, <2>5
<1>2. \A j \in K : \A i \in 1 .. g[j] : rank[j][i] \in U(j)
  BY <1>1 DEF Bijection, Injection
<1>3. \A u : \A j \in K : u \in U(j) <=> u \in Units(f, S) /\ k[u[1]] = j
  BY DEF Units, GroupOf
<1>4. \A u \in Units(f, S) : u[1] \in S
  BY DEF Units
<1>5. \A u \in Units(g, K) : u = <<u[1], u[2]>> /\ u[1] \in K /\ u[2] \in 1 .. g[u[1]]
  BY DEF Units
<1> HIDE DEF U, rank
<1>6. place \in [Units(g, K) -> Units(f, S)]
  BY <1>2, <1>3, <1>5
<1>7. ASSUME NEW u \in Units(g, K), NEW v \in Units(g, K), place[u] = place[v]
      PROVE  u = v
  <2>1. place[u] = rank[u[1]][u[2]] /\ place[v] = rank[v[1]][v[2]]
    OBVIOUS
  <2>2. k[place[u][1]] = u[1] /\ k[place[v][1]] = v[1]
    BY <1>2, <1>3, <1>5, <2>1
  <2>3. u[1] = v[1]
    BY <1>7, <2>2
  <2>4. PICK j \in K : j = u[1] /\ j = v[1]
    BY <1>5, <2>3
  <2>5. u[2] \in 1 .. g[j] /\ v[2] \in 1 .. g[j] /\ rank[j][u[2]] = rank[j][v[2]]
    BY <1>5, <1>7, <2>1, <2>4
  <2>6. u[2] = v[2]
    BY <1>1, <2>5 DEF Bijection, Injection, IsInjective
  <2> QED  BY <1>5, <2>3, <2>6
<1>8. ASSUME NEW w \in Units(f, S) PROVE \E u \in Units(g, K) : place[u] = w
  <2>1. PICK j \in K : j = k[w[1]]
    BY <1>4
  <2>2. w \in U(j)
    BY <1>3, <2>1
  <2>3. PICK i \in 1 .. g[j] : rank[j][i] = w
    BY <1>1, <2>2 DEF Bijection, Surjection
  <2>4. <<j, i>> \in Units(g, K)
    BY UnitsMember
  <2> QED  BY <2>3, <2>4
<1> HIDE DEF place
<1>9. place \in Bijection(Units(g, K), Units(f, S))
  BY <1>6, <1>7, <1>8, Fun_IsBij
<1>10. ExistsBijection(Units(f, S), Units(g, K))
  <2>1. ExistsBijection(Units(g, K), Units(f, S))
    BY <1>9, Fun_ExistsBij
  <2> QED  BY <2>1, Fun_ExistsBijSymmetric
<1>11. IsFiniteSet(Units(f, S))
  BY UnitsFinite
<1> QED  BY <1>10, <1>11, FS_Bijection DEF Total

\* The sum of f over the pairs of b with the d in D, and of the b in B with d.
OverSecond(f, b, D) == Total([d \in D |-> f[<<b, d>>]], D)
OverFirst(f, B, d) == Total([b \in B |-> f[<<b, d>>]], B)

\* The sum over pairs: for every first part, sum over the second parts.
THEOREM TotalPairs ==
  ASSUME NEW B, IsFiniteSet(B), NEW D, IsFiniteSet(D),
         NEW f, \A b \in B : \A d \in D : f[<<b, d>>] \in Nat,
         NEW g, \A b \in B : g[b] = OverSecond(f, b, D)
  PROVE  Total(f, B \X D) = Total(g, B)
<1>1. PICK S, k : S = B \X D /\ k = [x \in S |-> x[1]]
  OBVIOUS
<1>2. IsFiniteSet(S) /\ (\A x \in S : k[x] \in B) /\ \A x \in S : f[x] \in Nat
  BY <1>1, FS_Product
<1>3. ASSUME NEW b \in B PROVE g[b] = Total(f, GroupOf(S, k, b))
  <2>1. PICK m, h, T : /\ m = [d \in D |-> <<b, d>>] /\ h = [d \in D |-> f[<<b, d>>]]
                       /\ T = GroupOf(S, k, b)
    OBVIOUS
  <2>2. m \in [D -> T] /\ \A x, y \in D : m[x] = m[y] => x = y
    BY <1>1, <2>1 DEF GroupOf
  <2>3. \A z \in T : \E d \in D : m[d] = z
    BY <1>1, <2>1 DEF GroupOf
  <2>4. \A d \in D : h[d] \in Nat /\ f[m[d]] = h[d]
    BY <2>1
  <2>5. Total(f, T) = Total(h, D)
    BY <2>2, <2>3, <2>4, TotalMoved
  <2> QED  BY <2>1, <2>5 DEF OverSecond
<1>4. \A j \in B : g[j] = Total(f, GroupOf(S, k, j))
  BY <1>3
<1>5. Total(g, B) = Total(f, S)
  BY ONLY <1>2, <1>4, TotalGrouped
<1> QED  BY <1>1, <1>5

\* Pair by pair, the sums may be taken in the other order as well.
THEOREM TotalPairsSecond ==
  ASSUME NEW B, IsFiniteSet(B), NEW D, IsFiniteSet(D),
         NEW f, \A b \in B : \A d \in D : f[<<b, d>>] \in Nat,
         NEW g, \A d \in D : g[d] = OverFirst(f, B, d)
  PROVE  Total(f, B \X D) = Total(g, D)
<1>1. PICK S, k : S = B \X D /\ k = [x \in S |-> x[2]]
  OBVIOUS
<1>2. IsFiniteSet(S) /\ (\A x \in S : k[x] \in D) /\ \A x \in S : f[x] \in Nat
  BY <1>1, FS_Product
<1>3. ASSUME NEW d \in D PROVE g[d] = Total(f, GroupOf(S, k, d))
  <2>1. PICK m, h, T : /\ m = [b \in B |-> <<b, d>>] /\ h = [b \in B |-> f[<<b, d>>]]
                       /\ T = GroupOf(S, k, d)
    OBVIOUS
  <2>2. m \in [B -> T] /\ \A x, y \in B : m[x] = m[y] => x = y
    BY <1>1, <2>1 DEF GroupOf
  <2>3. \A z \in T : \E b \in B : m[b] = z
    BY <1>1, <2>1 DEF GroupOf
  <2>4. \A b \in B : h[b] \in Nat /\ f[m[b]] = h[b]
    BY <2>1
  <2>5. Total(f, T) = Total(h, B)
    BY <2>2, <2>3, <2>4, TotalMoved
  <2> QED  BY <2>1, <2>5 DEF OverFirst
<1>4. \A j \in D : g[j] = Total(f, GroupOf(S, k, j))
  BY <1>3
<1>5. Total(g, D) = Total(f, S)
  BY ONLY <1>2, <1>4, TotalGrouped
<1> QED  BY <1>1, <1>5

-----------------------------------------------------------------------------
(* Sums of integers.                                                       *)

\* What f adds, and what it subtracts.
Gains(f, S) == [x \in S |-> IF f[x] > 0 THEN f[x] ELSE 0]
Losses(f, S) == [x \in S |-> IF f[x] < 0 THEN 0 - f[x] ELSE 0]

\* A sum of integers is what is added less what is subtracted, both sums of
\* quantities.
LEMMA NetParts ==
  ASSUME NEW S, NEW f, \A x \in S : f[x] \in Int
  PROVE  /\ Net(f, S) = Total(Gains(f, S), S) - Total(Losses(f, S), S)
         /\ \A x \in S : /\ Gains(f, S)[x] \in Nat /\ Losses(f, S)[x] \in Nat
                         /\ f[x] = Gains(f, S)[x] - Losses(f, S)[x]
<1>1. Net(f, S) = Total(Gains(f, S), S) - Total(Losses(f, S), S)
  BY DEF Net, Gains, Losses
<1>2. \A x \in S : /\ Gains(f, S)[x] \in Nat /\ Losses(f, S)[x] \in Nat
                   /\ f[x] = Gains(f, S)[x] - Losses(f, S)[x]
  BY DEF Gains, Losses
<1> QED  BY <1>1, <1>2

\* However integers are written as differences of quantities, their sum is the
\* difference of the sums.
THEOREM NetDifference ==
  ASSUME NEW S, IsFiniteSet(S), NEW f, NEW a, NEW b,
         \A x \in S : a[x] \in Nat /\ b[x] \in Nat /\ f[x] = a[x] - b[x]
  PROVE  /\ Net(f, S) = Total(a, S) - Total(b, S)
         /\ Total(a, S) \in Nat /\ Total(b, S) \in Nat /\ Net(f, S) \in Int
<1>1. PICK p, n : p = Gains(f, S) /\ n = Losses(f, S)
  OBVIOUS
<1>2. \A x \in S : f[x] \in Int
  OBVIOUS
<1>3. /\ Net(f, S) = Total(p, S) - Total(n, S)
      /\ \A x \in S : p[x] \in Nat /\ n[x] \in Nat /\ f[x] = p[x] - n[x]
  BY <1>1, <1>2, NetParts
<1>4. PICK h : h = [x \in S |-> p[x] + b[x]]
  OBVIOUS
<1>5. \A x \in S : h[x] = p[x] + b[x] /\ h[x] = a[x] + n[x]
  BY <1>3, <1>4
<1>6. Total(h, S) = Total(p, S) + Total(b, S)
  BY <1>3, <1>5, TotalPlus
<1>7. Total(h, S) = Total(a, S) + Total(n, S)
  BY <1>3, <1>5, TotalPlus
<1>8. /\ Total(a, S) \in Nat /\ Total(b, S) \in Nat
      /\ Total(p, S) \in Nat /\ Total(n, S) \in Nat
  BY <1>3, TotalNat
<1> QED  BY <1>3, <1>6, <1>7, <1>8

\* Sums of integers over disjoint sets add up.
THEOREM NetUnion ==
  ASSUME NEW S, IsFiniteSet(S), NEW T, IsFiniteSet(T), S \cap T = {},
         NEW f, NEW g, NEW h, \A x \in S \cup T : h[x] \in Int,
         \A x \in S : f[x] = h[x], \A x \in T : g[x] = h[x]
  PROVE  Net(h, S \cup T) = Net(f, S) + Net(g, T)
<1>1. PICK U, p, n : U = S \cup T /\ p = Gains(h, U) /\ n = Losses(h, U)
  OBVIOUS
<1>2. \A x \in U : h[x] \in Int
  BY <1>1
<1>3. /\ Net(h, U) = Total(p, U) - Total(n, U)
      /\ \A x \in U : p[x] \in Nat /\ n[x] \in Nat /\ h[x] = p[x] - n[x]
  BY <1>1, <1>2, NetParts
<1>4. Total(p, S \cup T) = Total(p, S) + Total(p, T)
  <2>1. \A x \in S \cup T : p[x] \in Nat
    BY <1>1, <1>3
  <2> QED  BY <2>1, TotalUnion
<1>5. Total(n, S \cup T) = Total(n, S) + Total(n, T)
  <2>1. \A x \in S \cup T : n[x] \in Nat
    BY <1>1, <1>3
  <2> QED  BY <2>1, TotalUnion
<1>6. \A x \in S : p[x] \in Nat /\ n[x] \in Nat /\ f[x] = p[x] - n[x]
  BY <1>1, <1>3
<1>7. \A x \in T : p[x] \in Nat /\ n[x] \in Nat /\ g[x] = p[x] - n[x]
  BY <1>1, <1>3
<1>8. /\ Net(f, S) = Total(p, S) - Total(n, S)
      /\ Total(p, S) \in Nat /\ Total(n, S) \in Nat
  <2>1. IsFiniteSet(S)
    OBVIOUS
  <2> QED  BY ONLY <1>6, <2>1, NetDifference
<1>9. /\ Net(g, T) = Total(p, T) - Total(n, T)
      /\ Total(p, T) \in Nat /\ Total(n, T) \in Nat
  <2>1. IsFiniteSet(T)
    OBVIOUS
  <2> QED  BY ONLY <1>7, <2>1, NetDifference
<1> QED  BY <1>1, <1>3, <1>4, <1>5, <1>8, <1>9

\* Sums of integers add up holder by holder.
THEOREM NetPlus ==
  ASSUME NEW S, IsFiniteSet(S), NEW f, NEW g, NEW h,
         \A x \in S : f[x] \in Int /\ g[x] \in Int /\ h[x] = f[x] + g[x]
  PROVE  Net(h, S) = Net(f, S) + Net(g, S)
<1>1. PICK p, n, q, m : /\ p = Gains(f, S) /\ n = Losses(f, S)
                        /\ q = Gains(g, S) /\ m = Losses(g, S)
  OBVIOUS
<1>2. /\ Net(f, S) = Total(p, S) - Total(n, S)
      /\ \A x \in S : p[x] \in Nat /\ n[x] \in Nat /\ f[x] = p[x] - n[x]
  BY <1>1, NetParts
<1>3. /\ Net(g, S) = Total(q, S) - Total(m, S)
      /\ \A x \in S : q[x] \in Nat /\ m[x] \in Nat /\ g[x] = q[x] - m[x]
  BY <1>1, NetParts
<1>4. PICK a, b : a = [x \in S |-> p[x] + q[x]] /\ b = [x \in S |-> n[x] + m[x]]
  OBVIOUS
<1>5. \A x \in S : /\ a[x] = p[x] + q[x] /\ b[x] = n[x] + m[x]
                   /\ a[x] \in Nat /\ b[x] \in Nat /\ h[x] = a[x] - b[x]
  BY <1>2, <1>3, <1>4
<1>6. Net(h, S) = Total(a, S) - Total(b, S)
  BY <1>5, NetDifference
<1>7. Total(a, S) = Total(p, S) + Total(q, S)
  BY <1>2, <1>3, <1>5, TotalPlus
<1>8. Total(b, S) = Total(n, S) + Total(m, S)
  BY <1>2, <1>3, <1>5, TotalPlus
<1>9. /\ Total(p, S) \in Nat /\ Total(q, S) \in Nat
      /\ Total(n, S) \in Nat /\ Total(m, S) \in Nat
  BY <1>2, <1>3, TotalNat
<1> QED  BY <1>2, <1>3, <1>6, <1>7, <1>8, <1>9

\* A sum of integers is an integer.
THEOREM NetInt ==
  ASSUME NEW S, IsFiniteSet(S), NEW f, \A x \in S : f[x] \in Int
  PROVE  Net(f, S) \in Int
<1>1. PICK p, n : p = Gains(f, S) /\ n = Losses(f, S)
  OBVIOUS
<1>2. \A x \in S : p[x] \in Nat /\ n[x] \in Nat /\ f[x] = p[x] - n[x]
  BY <1>1, NetParts
<1> QED  BY <1>2, NetDifference

\* Of quantities it is their sum.
THEOREM NetNat ==
  ASSUME NEW S, IsFiniteSet(S), NEW f, \A x \in S : f[x] \in Nat
  PROVE  Net(f, S) = Total(f, S)
<1>1. PICK z : z = [x \in S |-> 0]
  OBVIOUS
<1>2. \A x \in S : f[x] \in Nat /\ z[x] \in Nat /\ f[x] = f[x] - z[x]
  BY <1>1
<1>3. Net(f, S) = Total(f, S) - Total(z, S) /\ Total(f, S) \in Nat
  BY <1>2, NetDifference
<1>4. Total(z, S) = 0
  BY <1>1, TotalZero
<1> QED  BY <1>3, <1>4

\* It depends on the values of f in S only.
THEOREM NetEqual ==
  ASSUME NEW S, NEW f, NEW g, \A x \in S : f[x] = g[x]
  PROVE  Net(f, S) = Net(g, S)
<1>1. /\ Total(Gains(f, S), S) = Total(Gains(g, S), S)
      /\ Total(Losses(f, S), S) = Total(Losses(g, S), S)
  <2>1. \A x \in S : Gains(f, S)[x] = Gains(g, S)[x] /\ Losses(f, S)[x] = Losses(g, S)[x]
    BY DEF Gains, Losses
  <2> QED  BY <2>1, TotalEqual
<1> QED  BY <1>1 DEF Net, Gains, Losses

\* The sum of integers that are all 0 is 0; so is that of none.
THEOREM NetZero ==
  ASSUME NEW S, NEW f, \A x \in S : f[x] = 0
  PROVE  Net(f, S) = 0
<1>1. Total(Gains(f, S), S) = 0 /\ Total(Losses(f, S), S) = 0
  <2>1. \A x \in S : Gains(f, S)[x] = 0 /\ Losses(f, S)[x] = 0
    BY DEF Gains, Losses
  <2> QED  BY <2>1, TotalZero
<1> QED  BY <1>1 DEF Net, Gains, Losses

\* Holders of 0 do not matter to the sum.
THEOREM NetSame ==
  ASSUME NEW S, NEW T, NEW f, NEW g, \A x \in S \cap T : f[x] = g[x],
         \A x \in S \ T : f[x] = 0, \A x \in T \ S : g[x] = 0
  PROVE  Net(f, S) = Net(g, T)
<1>1. Total(Gains(f, S), S) = Total(Gains(g, T), T)
  <2>1. /\ \A x \in S \cap T : Gains(f, S)[x] = Gains(g, T)[x]
        /\ \A x \in S \ T : Gains(f, S)[x] = 0
        /\ \A x \in T \ S : Gains(g, T)[x] = 0
    BY DEF Gains
  <2> QED  BY <2>1, TotalSame
<1>2. Total(Losses(f, S), S) = Total(Losses(g, T), T)
  <2>1. /\ \A x \in S \cap T : Losses(f, S)[x] = Losses(g, T)[x]
        /\ \A x \in S \ T : Losses(f, S)[x] = 0
        /\ \A x \in T \ S : Losses(g, T)[x] = 0
    BY DEF Losses
  <2> QED  BY <2>1, TotalSame
<1> QED  BY <1>1, <1>2 DEF Net, Gains, Losses

\* The sum over one holder is what it holds.
THEOREM NetSingleton ==
  ASSUME NEW x, NEW f, f[x] \in Int
  PROVE  Net(f, {x}) = f[x]
<1>1. PICK S, p, n : S = {x} /\ p = Gains(f, S) /\ n = Losses(f, S)
  OBVIOUS
<1>2. /\ Net(f, S) = Total(p, S) - Total(n, S)
      /\ p[x] \in Nat /\ n[x] \in Nat /\ f[x] = p[x] - n[x]
  <2>1. \A y \in S : f[y] \in Int
    BY <1>1
  <2> QED  BY <1>1, <2>1, NetParts
<1>3. Total(p, {x}) = p[x] /\ Total(n, {x}) = n[x]
  BY <1>2, TotalSingleton
<1> QED  BY <1>1, <1>2, <1>3

\* Where all but one holder hold 0, the sum is what that one holds.
THEOREM NetOnly ==
  ASSUME NEW S, IsFiniteSet(S), NEW x \in S, NEW f, f[x] \in Int,
         \A y \in S \ {x} : f[y] = 0
  PROVE  Net(f, S) = f[x]
<1>1. IsFiniteSet(S \ {x}) /\ IsFiniteSet({x})
  BY FS_RemoveElement, FS_Singleton
<1>2. PICK R, T : R = S \ {x} /\ T = {x}
  OBVIOUS
<1>3. S = R \cup T /\ R \cap T = {} /\ \A y \in R \cup T : f[y] \in Int
  BY <1>2
<1>4. Net(f, R \cup T) = Net(f, R) + Net(f, T)
  BY <1>1, <1>2, <1>3, NetUnion
<1>5. Net(f, R) = 0
  BY <1>2, NetZero
<1>6. Net(f, T) = f[x]
  BY <1>2, NetSingleton
<1> QED  BY <1>3, <1>4, <1>5, <1>6

\* Larger integers have the larger sum.
THEOREM NetMonotone ==
  ASSUME NEW S, IsFiniteSet(S), NEW f, NEW g,
         \A x \in S : f[x] \in Int /\ g[x] \in Int /\ f[x] <= g[x]
  PROVE  Net(f, S) <= Net(g, S)
<1>1. PICK h : h = [x \in S |-> g[x] - f[x]]
  OBVIOUS
<1>2. \A x \in S : h[x] \in Nat /\ f[x] \in Int /\ h[x] \in Int /\ g[x] = f[x] + h[x]
  BY <1>1
<1>3. Net(g, S) = Net(f, S) + Net(h, S)
  BY <1>2, NetPlus
<1>4. Net(h, S) = Total(h, S) /\ Total(h, S) \in Nat
  BY <1>2, NetNat, TotalNat
<1>5. Net(f, S) \in Int
  BY <1>2, NetInt
<1> QED  BY <1>3, <1>4, <1>5

\* The same integers with other holders have the same sum.
THEOREM NetMoved ==
  ASSUME NEW S, IsFiniteSet(S), NEW T, NEW f, NEW g, NEW h \in [S -> T],
         \A x, y \in S : h[x] = h[y] => x = y,
         \A z \in T : \E x \in S : h[x] = z,
         \A x \in S : f[x] \in Int /\ g[h[x]] = f[x]
  PROVE  Net(g, T) = Net(f, S)
<1>1. PICK p, n, q, m : /\ p = Gains(f, S) /\ n = Losses(f, S)
                        /\ q = Gains(g, T) /\ m = Losses(g, T)
  OBVIOUS
<1>2. \A x \in S : /\ p[x] \in Nat /\ q[h[x]] = p[x]
                   /\ n[x] \in Nat /\ m[h[x]] = n[x]
  BY <1>1 DEF Gains, Losses
<1>3. Total(q, T) = Total(p, S)
  BY <1>2, TotalMoved
<1>4. Total(m, T) = Total(n, S)
  BY <1>2, TotalMoved
<1>5. Net(f, S) = Total(p, S) - Total(n, S)
  BY <1>1 DEF Net, Gains, Losses
<1>6. Net(g, T) = Total(q, T) - Total(m, T)
  BY <1>1 DEF Net, Gains, Losses
<1> QED  BY <1>3, <1>4, <1>5, <1>6

\* A sum of integers, too, can be taken group by group.
THEOREM NetGrouped ==
  ASSUME NEW S, IsFiniteSet(S), NEW K, IsFiniteSet(K), NEW k, \A x \in S : k[x] \in K,
         NEW f, \A x \in S : f[x] \in Int,
         NEW g, \A j \in K : g[j] = Net(f, GroupOf(S, k, j))
  PROVE  Net(g, K) = Net(f, S)
<1>1. PICK p, n : p = Gains(f, S) /\ n = Losses(f, S)
  OBVIOUS
<1>2. /\ Net(f, S) = Total(p, S) - Total(n, S)
      /\ \A x \in S : p[x] \in Nat /\ n[x] \in Nat /\ f[x] = p[x] - n[x]
  BY <1>1, NetParts
<1>3. PICK a, b : /\ a = [j \in K |-> Total(p, GroupOf(S, k, j))]
                  /\ b = [j \in K |-> Total(n, GroupOf(S, k, j))]
  OBVIOUS
<1>4. \A j \in K : a[j] \in Nat /\ b[j] \in Nat /\ g[j] = a[j] - b[j]
  <2> SUFFICES ASSUME NEW j \in K
               PROVE  a[j] \in Nat /\ b[j] \in Nat /\ g[j] = a[j] - b[j]
    OBVIOUS
  <2>1. PICK G : G = GroupOf(S, k, j)
    OBVIOUS
  <2>2. G \subseteq S /\ IsFiniteSet(G)
    BY <2>1, FS_Subset DEF GroupOf
  <2>3. \A x \in G : p[x] \in Nat /\ n[x] \in Nat /\ f[x] = p[x] - n[x]
    BY <1>2, <2>2
  <2>4. /\ Net(f, G) = Total(p, G) - Total(n, G)
        /\ Total(p, G) \in Nat /\ Total(n, G) \in Nat
    BY <2>2, <2>3, NetDifference
  <2> QED  BY <1>3, <2>1, <2>4
<1>5. Net(g, K) = Total(a, K) - Total(b, K)
  BY <1>4, NetDifference
<1>6. Total(a, K) = Total(p, S)
  BY <1>2, <1>3, TotalGrouped
<1>7. Total(b, K) = Total(n, S)
  BY <1>2, <1>3, TotalGrouped
<1> QED  BY <1>2, <1>5, <1>6, <1>7
=============================================================================
