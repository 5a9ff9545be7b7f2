------------------------------ MODULE SortProofs ------------------------------
(***************************************************************************)
(* Proofs about CFG_Calls::construct and CFG::sort, for graphs of any size *)
(* in which no way leads back and any number of pointer arguments: every   *)
(* call has its nodes, one per pointer argument, and the postorder with    *)
(* its heap of counts puts every node after its successors.                *)
(***************************************************************************)
EXTENDS CFGSort, FiniteSetTheorems, TLAPS

\* One slot for each node that stands for a node below n.
Slots(a, n) == UNION {{m} \X (1 .. Copies(a, m)) : m \in 0 .. n - 1}

\* Every node that comes in has at least one copy.
LEMMA CopiesType ==
  ASSUME NEW sz \in Nat, NEW a \in [0 .. sz - 1 -> Nat], NEW n \in 0 .. sz - 1
  PROVE  Copies(a, n) \in Nat /\ Copies(a, n) > 0
  BY DEF Copies

\* The slots for the nodes up to n: those for the nodes below n, and those for
\* n, which are new.
LEMMA SlotsStep ==
  ASSUME NEW a, NEW n \in Nat
  PROVE  /\ Slots(a, n + 1) = Slots(a, n) \cup ({n} \X (1 .. Copies(a, n)))
         /\ Slots(a, n) \cap ({n} \X (1 .. Copies(a, n))) = {}
         /\ Slots(a, 0) = {}
<1>1. \A m : m \in 0 .. (n + 1) - 1 <=> m \in 0 .. n - 1 \/ m = n
  OBVIOUS
<1>2. n \notin 0 .. n - 1
  OBVIOUS
<1>3. 0 .. 0 - 1 = {}
  OBVIOUS
<1>4. \A x, k : x \in Slots(a, k) <=> \E m \in 0 .. k - 1 : x \in {m} \X (1 .. Copies(a, m))
  BY Zenon DEF Slots
<1>5. Slots(a, n + 1) = Slots(a, n) \cup ({n} \X (1 .. Copies(a, n)))
  BY <1>1, <1>4, Zenon
<1>6. Slots(a, n) \cap ({n} \X (1 .. Copies(a, n))) = {}
  <2> SUFFICES ASSUME NEW x \in Slots(a, n), x \in {n} \X (1 .. Copies(a, n)) PROVE FALSE
    BY Zenon
  <2>1. PICK m \in 0 .. n - 1 : x \in {m} \X (1 .. Copies(a, m))
    BY <1>4, Zenon
  <2>2. x[1] = m /\ x[1] = n
    BY <2>1, Zenon
  <2> QED
    BY <1>2, <2>2, Zenon
<1>7. Slots(a, 0) = {}
  BY <1>3, <1>4, Zenon
<1> QED
  BY <1>5, <1>6, <1>7, Zenon

\* A run of numbers has as many as its length.
LEMMA IntervalSize ==
  ASSUME NEW i \in Nat, NEW c \in Nat
  PROVE  /\ IsFiniteSet(1 .. c) /\ Cardinality(1 .. c) = c
         /\ IsFiniteSet(i .. i + c - 1) /\ Cardinality(i .. i + c - 1) = c
<1>1. 1 \in Int /\ c \in Int /\ i \in Int /\ i + c - 1 \in Int
  OBVIOUS
<1>2. IsFiniteSet(1 .. c) /\ Cardinality(1 .. c) = IF 1 > c THEN 0 ELSE c - 1 + 1
  BY <1>1, FS_Interval, Zenon
<1>3. /\ IsFiniteSet(i .. i + c - 1)
      /\ Cardinality(i .. i + c - 1) = IF i > i + c - 1 THEN 0 ELSE i + c - 1 - i + 1
  BY <1>1, FS_Interval
<1> QED
  BY <1>2, <1>3

\* A node has as many slots as it has copies.
LEMMA SlotSize ==
  ASSUME NEW n, NEW c \in Nat
  PROVE  IsFiniteSet({n} \X (1 .. c)) /\ Cardinality({n} \X (1 .. c)) = c
<1>1. IsFiniteSet({n}) /\ Cardinality({n}) = 1
  BY FS_Singleton, Zenon
<1>2. IsFiniteSet(1 .. c) /\ Cardinality(1 .. c) = c
  BY IntervalSize, Zenon
<1>3. /\ IsFiniteSet({n} \X (1 .. c))
      /\ Cardinality({n} \X (1 .. c)) = Cardinality({n}) * Cardinality(1 .. c)
  BY <1>1, <1>2, FS_Product, Zenon
<1> QED
  BY <1>1, <1>2, <1>3

\* The slots are finitely many: a least n for which they were not would have a
\* predecessor for which they were.
LEMMA SlotsFinite ==
  ASSUME NEW sz \in Nat, NEW a \in [0 .. sz - 1 -> Nat], NEW n \in 0 .. sz
  PROVE  IsFiniteSet(Slots(a, n))
<1> DEFINE Bad == {m \in 0 .. sz : ~IsFiniteSet(Slots(a, m))}
<1> SUFFICES ASSUME Bad # {} PROVE FALSE
  BY Zenon
<1>1. Bad \subseteq Nat
  OBVIOUS
<1> HIDE DEF Bad
<1>2. PICK m \in Bad : \A k \in Bad : <<k, m>> \notin OpToRel(<, Nat)
  BY <1>1, NatLessThanWellFounded, WFMin, Zenon
<1>3. m \in 0 .. sz /\ ~IsFiniteSet(Slots(a, m))
  BY Zenon DEF Bad
<1>4. m # 0
  BY <1>3, SlotsStep, FS_EmptySet, Zenon
<1>5. /\ m - 1 \in 0 .. sz - 1 /\ m - 1 \in 0 .. sz /\ m - 1 \in Nat /\ m = (m - 1) + 1
      /\ m - 1 < m
  BY <1>3, <1>4
<1>6. m - 1 \notin Bad
  BY <1>1, <1>2, <1>5, Zenon DEF OpToRel
<1>7. IsFiniteSet(Slots(a, m - 1))
  BY <1>5, <1>6, Zenon DEF Bad
<1>8. IsFiniteSet({m - 1} \X (1 .. Copies(a, m - 1)))
  BY <1>5, CopiesType, SlotSize, Zenon
<1>9. Slots(a, m) = Slots(a, m - 1) \cup ({m - 1} \X (1 .. Copies(a, m - 1)))
  BY <1>5, SlotsStep, Zenon
<1>10. IsFiniteSet(Slots(a, m - 1) \cup ({m - 1} \X (1 .. Copies(a, m - 1))))
  BY <1>7, <1>8, FS_Union, Zenon
<1> QED
  BY <1>3, <1>9, <1>10, Zenon

\* So the offset of a node is a number.
LEMMA OffsetType ==
  ASSUME NEW sz \in Nat, NEW a \in [0 .. sz - 1 -> Nat], NEW n \in 0 .. sz
  PROVE  Offset(a, n) \in Nat /\ Offset(a, 0) = 0
<1>1. Offset(a, n) = Cardinality(Slots(a, n)) /\ Offset(a, 0) = Cardinality(Slots(a, 0))
  BY Zenon DEF Offset, Slots
<1>2. Slots(a, 0) = {}
  BY SlotsStep, Zenon
<1> QED
  BY <1>1, <1>2, SlotsFinite, FS_CardinalityType, FS_EmptySet, Zenon

\* After the nodes for n come those for n + 1.
LEMMA OffsetStep ==
  ASSUME NEW sz \in Nat, NEW a \in [0 .. sz - 1 -> Nat], NEW n \in 0 .. sz - 1
  PROVE  Offset(a, n + 1) = Offset(a, n) + Copies(a, n)
<1> DEFINE C == {n} \X (1 .. Copies(a, n))
<1>0. n \in Nat /\ n \in 0 .. sz
  OBVIOUS
<1>1. IsFiniteSet(Slots(a, n))
  BY <1>0, SlotsFinite, Zenon
<1>2. IsFiniteSet(C) /\ Cardinality(C) = Copies(a, n) /\ Copies(a, n) \in Nat
  BY CopiesType, SlotSize, Zenon
<1>3. Slots(a, n + 1) = Slots(a, n) \cup C /\ Slots(a, n) \cap C = {}
  BY <1>0, SlotsStep, Zenon
<1> HIDE DEF C
<1>4. Cardinality(Slots(a, n + 1)) = Cardinality(Slots(a, n)) + Cardinality(C) - Cardinality({})
  BY <1>1, <1>2, <1>3, FS_Union
<1>5. Cardinality(Slots(a, n)) \in Nat
  BY <1>1, FS_CardinalityType, Zenon
<1>6. Cardinality(Slots(a, n + 1)) = Cardinality(Slots(a, n)) + Copies(a, n)
  BY <1>2, <1>4, <1>5, FS_EmptySet
<1> QED
  BY <1>6, Zenon DEF Offset, Slots

\* A later node has no smaller offset.
LEMMA OffsetMonotone ==
  ASSUME NEW sz \in Nat, NEW a \in [0 .. sz - 1 -> Nat],
         NEW m \in 0 .. sz, NEW n \in 0 .. sz, m <= n
  PROVE  Offset(a, m) <= Offset(a, n)
<1>1. Slots(a, m) \in SUBSET Slots(a, n)
  <2>1. 0 .. m - 1 \subseteq 0 .. n - 1
    OBVIOUS
  <2> QED
    BY <2>1, Zenon DEF Slots
<1>2. Cardinality(Slots(a, m)) <= Cardinality(Slots(a, n))
  BY <1>1, SlotsFinite, FS_Subset, Zenon
<1> QED
  BY <1>2, Zenon DEF Offset, Slots

\* Each place belongs to one node.
LEMMA OffsetPlace ==
  ASSUME NEW sz \in Nat, NEW a \in [0 .. sz - 1 -> Nat], NEW k \in 1 .. Offset(a, sz)
  PROVE  /\ \E n \in 0 .. sz - 1 : Offset(a, n) < k /\ k <= Offset(a, n + 1)
         /\ \A m, n \in 0 .. sz - 1 :
              /\ Offset(a, m) < k /\ k <= Offset(a, m + 1)
              /\ Offset(a, n) < k /\ k <= Offset(a, n + 1)
              => m = n
<1>0. \A n \in 0 .. sz : Offset(a, n) \in Nat
  BY OffsetType, Zenon
<1>1. \E n \in 0 .. sz - 1 : Offset(a, n) < k /\ k <= Offset(a, n + 1)
  <2> DEFINE Q == {n \in 0 .. sz : k <= Offset(a, n)}
  <2>1. Q \subseteq Nat /\ sz \in Q
    OBVIOUS
  <2> HIDE DEF Q
  <2>2. PICK m \in Q : \A l \in Q : <<l, m>> \notin OpToRel(<, Nat)
    BY <2>1, NatLessThanWellFounded, WFMin, Zenon
  <2>3. m \in 0 .. sz /\ k <= Offset(a, m)
    BY Zenon DEF Q
  <2>4. m # 0
    <3>1. Offset(a, 0) = 0
      BY OffsetType
    <3> QED
      BY <2>3, <3>1
  <2>5. m - 1 \in 0 .. sz - 1 /\ m - 1 \in 0 .. sz /\ (m - 1) + 1 = m /\ m - 1 < m
    BY <2>3, <2>4
  <2>6. m - 1 \notin Q
    BY <2>1, <2>2, <2>5, Zenon DEF OpToRel
  <2>7. Offset(a, m - 1) < k
    BY <1>0, <2>5, <2>6 DEF Q
  <2> QED
    BY <2>3, <2>5, <2>7, Zenon
<1>2. ASSUME NEW m \in 0 .. sz - 1, NEW n \in 0 .. sz - 1,
             k <= Offset(a, m + 1), Offset(a, n) < k
      PROVE  n <= m
  <2> SUFFICES ASSUME m < n PROVE FALSE
    OBVIOUS
  <2>1. m + 1 \in 0 .. sz /\ n \in 0 .. sz /\ m + 1 <= n
    OBVIOUS
  <2>2. Offset(a, m + 1) <= Offset(a, n)
    BY <2>1, OffsetMonotone, Zenon
  <2> QED
    BY <1>0, <1>2, <2>1, <2>2
<1>3. ASSUME NEW m \in 0 .. sz - 1, NEW n \in 0 .. sz - 1,
             Offset(a, m) < k, k <= Offset(a, m + 1),
             Offset(a, n) < k, k <= Offset(a, n + 1)
      PROVE  m = n
  <2>1. n <= m /\ m <= n
    BY <1>2, <1>3, Zenon
  <2> QED
    BY <2>1
<1> QED
  BY <1>1, <1>3, Zenon

\* construct adds the nodes of the graph that comes in, Copies of each.
LEMMA ExpandNodes ==
  ASSUME NEW sz \in Nat, NEW a \in [0 .. sz - 1 -> Nat]
  PROVE  LET new == Expand(a, sz)
         IN  /\ new \in Seq(0 .. sz - 1)
             /\ \A n \in 0 .. sz - 1 :
                  Cardinality({r \in 0 .. Len(new) - 1 : new[r + 1] = n}) = Copies(a, n)
<1> DEFINE new == Expand(a, sz)
           L == Offset(a, sz)
           At(n, k) == Offset(a, n) < k /\ k <= Offset(a, n + 1)
<1>1. L \in Nat /\ \A n \in 0 .. sz : Offset(a, n) \in Nat /\ Offset(a, n) <= L
  BY OffsetType, OffsetMonotone
<1>2. new = [k \in 1 .. L |-> CHOOSE n \in 0 .. sz - 1 : At(n, k)]
  BY Zenon DEF Expand
<1>3. ASSUME NEW k \in 1 .. L PROVE new[k] \in 0 .. sz - 1 /\ At(new[k], k)
  <2>1. \E n \in 0 .. sz - 1 : At(n, k)
    BY OffsetPlace, Zenon
  <2>2. new[k] = CHOOSE n \in 0 .. sz - 1 : At(n, k)
    BY <1>2, Zenon
  <2> HIDE DEF At
  <2> QED
    BY <2>1, <2>2, Zenon
<1>4. ASSUME NEW k \in 1 .. L, NEW n \in 0 .. sz - 1, At(n, k) PROVE new[k] = n
  <2>1. \A l, m \in 0 .. sz - 1 : At(l, k) /\ At(m, k) => l = m
    BY OffsetPlace, Zenon
  <2> HIDE DEF At
  <2> QED
    BY <1>3, <1>4, <2>1, Zenon
<1>5. new \in Seq(0 .. sz - 1) /\ Len(new) = L
  <2>1. new \in [1 .. L -> 0 .. sz - 1]
    BY <1>2, <1>3, Zenon
  <2> HIDE DEF new, L
  <2> QED
    BY <1>1, <2>1
<1>6. ASSUME NEW n \in 0 .. sz - 1
      PROVE  Cardinality({r \in 0 .. L - 1 : new[r + 1] = n}) = Copies(a, n)
  <2> DEFINE i == Offset(a, n)
             c == Copies(a, n)
  <2>1. c \in Nat /\ i \in Nat /\ Offset(a, n + 1) = i + c /\ i + c <= L
    <3>1. n \in 0 .. sz /\ n + 1 \in 0 .. sz
      OBVIOUS
    <3> QED
      BY <1>1, <3>1, CopiesType, OffsetStep, Zenon
  <2>2. ASSUME NEW r \in 0 .. L - 1
        PROVE  new[r + 1] = n <=> r \in i .. i + c - 1
    <3>1. r + 1 \in 1 .. L
      BY <1>1
    <3>2. At(n, r + 1) <=> r \in i .. i + c - 1
      <4>1. r \in Nat
        BY <1>1
      <4>2. At(n, r + 1) <=> i < r + 1 /\ r + 1 <= i + c
        BY <2>1, Zenon
      <4> HIDE DEF At, i, c
      <4> QED
        BY <2>1, <4>1, <4>2
    <3>3. new[r + 1] = n <=> At(n, r + 1)
      <4> HIDE DEF At
      <4> QED
        BY <1>3, <1>4, <3>1, Zenon
    <3> QED
      BY <3>2, <3>3, Zenon
  <2>3. i .. i + c - 1 \subseteq 0 .. L - 1
    BY <1>1, <2>1
  <2> HIDE DEF i, c, new, L
  <2>4. {r \in 0 .. L - 1 : new[r + 1] = n} = i .. i + c - 1
    BY <2>2, <2>3, Zenon
  <2>5. Cardinality(i .. i + c - 1) = c
    BY <2>1, IntervalSize, Zenon
  <2> QED
    BY <2>4, <2>5, Zenon DEF c
<1> HIDE DEF L, new
<1> QED
  BY <1>5, <1>6, Zenon DEF new

\* A graph that maps into one without a way back has none.
LEMMA NoWayBackImage ==
  ASSUME NEW V, NEW E, NEW W, NEW F, NEW h, \A n \in V : h[n] \in W, NoWayBack(W, F),
         \A e \in E : e[1] \in V /\ e[2] \in V => <<h[e[1]], h[e[2]]>> \in F
  PROVE  NoWayBack(V, E)
<1> SUFFICES ASSUME NEW S \in SUBSET V, S # {}
             PROVE  \E r \in S : Succ(E, r) \cap S = {}
  BY Zenon DEF NoWayBack
<1> DEFINE T == {h[r] : r \in S}
<1>1. T \in SUBSET W /\ T # {}
  BY Zenon
<1> HIDE DEF T
<1>2. PICK n \in T : Succ(F, n) \cap T = {}
  BY <1>1, Zenon DEF NoWayBack
<1>3. PICK r \in S : h[r] = n
  BY Zenon DEF T
<1>4. ASSUME NEW e \in E, e[1] = r, e[2] \in S
      PROVE  FALSE
  <2>1. <<n, h[e[2]]>> \in F
    BY <1>3, <1>4, Zenon
  <2>2. h[e[2]] \in Succ(F, n)
    <3>1. <<n, h[e[2]]>>[1] = n /\ <<n, h[e[2]]>>[2] = h[e[2]]
      BY Zenon
    <3> QED
      BY <2>1, <3>1, Zenon DEF Succ
  <2>3. h[e[2]] \in T
    BY <1>4, Zenon DEF T
  <2> QED
    BY <1>2, <2>2, <2>3, Zenon
<1> QED
  BY <1>4, Zenon DEF Succ

\* The graph with its calls replaced maps into the one that came in, and has
\* no way back either (calls.cc:35-46).
LEMMA CallsNoWayBack ==
  ASSUME SortInv, spc # "calls"
  PROVE  NoWayBack(CallsNode, cpo)
<1> DEFINE h == [r \in CallsNode |-> Of(r)]
<1>1. \A r \in CallsNode : h[r] \in InNode
  BY DEF SortInv, CallsNode, Of
<1>2. \A e \in cpo : e[1] \in CallsNode /\ e[2] \in CallsNode => <<h[e[1]], h[e[2]]>> \in in
  BY Zenon DEF SortInv
<1>3. NoWayBack(InNode, in)
  BY Zenon DEF SortInv
<1> HIDE DEF h
<1> QED
  BY <1>1, <1>2, <1>3, NoWayBackImage, Zenon

\* The nodes of the graph that is sorted are finitely many numbers.
LEMMA SortTypes ==
  ASSUME SortInv, spc # "calls"
  PROVE  /\ Len(cnodes) \in Nat /\ IsFiniteSet(CallsNode) /\ CallsNode \subseteq Nat
         /\ cpo \subseteq CallsNode \X CallsNode
         /\ \A r : Succ(cpo, r) \subseteq CallsNode /\ Pred(cpo, r) \subseteq CallsNode
         /\ \A r, s : s \in Succ(cpo, r) <=> <<r, s>> \in cpo
         /\ \A r, s : s \in Pred(cpo, r) <=> <<s, r>> \in cpo
<1>1. Len(cnodes) \in Nat
  BY DEF SortInv
<1>2. IsFiniteSet(CallsNode) /\ CallsNode \subseteq Nat
  <2>1. Len(cnodes) - 1 \in Int /\ 0 \in Int
    BY <1>1
  <2> QED
    BY <2>1, FS_Interval DEF CallsNode
<1>3. cpo \subseteq CallsNode \X CallsNode
  BY Zenon DEF SortInv
<1>4. \A e \in cpo : e = <<e[1], e[2]>> /\ e[1] \in CallsNode /\ e[2] \in CallsNode
  BY <1>3
<1>5. \A r, s : s \in Succ(cpo, r) <=> <<r, s>> \in cpo
  BY <1>4, Zenon DEF Succ
<1>6. \A r, s : s \in Pred(cpo, r) <=> <<s, r>> \in cpo
  BY <1>4, Zenon DEF Pred
<1>7. \A r : Succ(cpo, r) \subseteq CallsNode /\ Pred(cpo, r) \subseteq CallsNode
  BY <1>4, Zenon DEF Succ, Pred
<1> QED
  BY <1>1, <1>2, <1>3, <1>5, <1>6, <1>7, Zenon

\* What the heap gives: a node that is not placed, with all its successors.
LEMMA LeastIsLeaf ==
  ASSUME SortInv, spc = "postorder", heap # {}
  PROVE  /\ Least[1] = 0 /\ Least[2] \in CallsNode \ Range(order) /\ Least = <<0, Least[2]>>
         /\ ref2n[Least[2]] = 0 /\ Succ(cpo, Least[2]) \subseteq Range(order)
<1> DEFINE U == CallsNode \ Range(order)
           N(r) == Cardinality(Succ(cpo, r) \ Range(order))
           Leaf == {r \in U : N(r) = 0}
<1>1. /\ ref2n = [r \in CallsNode |-> N(r)]
      /\ heap = {<<ref2n[r], r>> : r \in U}
  BY Zenon DEF SortInv
<1>2. \A r : IsFiniteSet(Succ(cpo, r) \ Range(order)) /\ N(r) \in Nat
  <2>1. \A r : Succ(cpo, r) \ Range(order) \in SUBSET CallsNode
    BY SortTypes, Zenon
  <2>2. \A r : IsFiniteSet(Succ(cpo, r) \ Range(order))
    BY <2>1, SortTypes, FS_Subset, Zenon
  <2> QED
    BY <2>2, FS_CardinalityType, Zenon
<1>3. heap = {<<N(r), r>> : r \in U}
  BY <1>1, Zenon
<1>4. Leaf # {}
  <2>1. U \in SUBSET CallsNode /\ U # {}
    BY <1>3, Zenon
  <2>2. PICK r \in U : Succ(cpo, r) \cap U = {}
    BY <2>1, CallsNoWayBack, Zenon DEF NoWayBack
  <2>3. Succ(cpo, r) \ Range(order) = {}
    BY <2>2, SortTypes, Zenon
  <2>4. N(r) = 0
    BY <2>3, FS_EmptySet, Zenon
  <2> QED
    BY <2>4, Zenon
<1>5. PICK l \in Leaf : \A r \in Leaf : l <= r
  <2>1. Leaf \subseteq Nat
    BY SortTypes, Zenon
  <2> HIDE DEF Leaf
  <2>2. PICK l \in Leaf : \A r \in Leaf : <<r, l>> \notin OpToRel(<, Nat)
    BY <1>4, <2>1, NatLessThanWellFounded, WFMin, Zenon
  <2>3. \A r \in Leaf : ~(r < l)
    BY <2>1, <2>2, Zenon DEF OpToRel
  <2> QED
    BY <2>1, <2>3
<1> DEFINE P(x) == \A y \in heap : x[1] < y[1] \/ (x[1] = y[1] /\ x[2] <= y[2])
<1>6. <<0, l>> \in heap /\ P(<<0, l>>)
  <2>1. l \in U /\ N(l) = 0
    BY Zenon
  <2>2. <<0, l>> \in heap
    BY <1>3, <2>1, Zenon
  <2>3. ASSUME NEW r \in U
        PROVE  0 < N(r) \/ (0 = N(r) /\ l <= r)
    <3>1. CASE N(r) = 0
      <4>1. r \in Leaf
        BY <3>1, Zenon
      <4> QED
        BY <1>5, <3>1, <4>1, Zenon
    <3>2. CASE N(r) # 0
      <4>1. N(r) \in Nat
        BY <1>2, Zenon
      <4> HIDE DEF N
      <4> QED
        BY <3>2, <4>1
    <3> QED
      BY <3>1, <3>2, Zenon
  <2>4. ASSUME NEW y \in heap
        PROVE  0 < y[1] \/ (0 = y[1] /\ l <= y[2])
    <3>1. PICK r \in U : y = <<N(r), r>>
      BY <1>3, Zenon
    <3>2. y[1] = N(r) /\ y[2] = r
      BY <3>1, Zenon
    <3> QED
      BY <2>3, <3>2, Zenon
  <2>5. P(<<0, l>>)
    BY <2>4, Zenon
  <2> QED
    BY <2>2, <2>5, Zenon
<1>7. Least \in heap /\ P(Least)
  <2>1. Least = CHOOSE x \in heap : P(x)
    BY Zenon DEF Least
  <2> HIDE DEF P
  <2> QED
    BY <1>6, <2>1, Zenon
<1>8. PICK r \in U : Least = <<N(r), r>>
  BY <1>3, <1>7, Zenon
<1>9. N(r) = 0
  <2>1. N(r) < 0 \/ N(r) = 0
    BY <1>6, <1>7, <1>8, Zenon
  <2> QED
    BY <1>2, <2>1
<1>10. Succ(cpo, r) \ Range(order) = {}
  BY <1>2, <1>9, FS_EmptySet, Zenon
<1> QED
  BY <1>1, <1>8, <1>9, <1>10, Zenon

\* A node is placed after all its successors and before all its predecessors.
LEMMA PlacePreds ==
  ASSUME SortInv, spc = "postorder", heap # {}, NEW p \in Pred(cpo, Least[2])
  PROVE  /\ p \in CallsNode \ Range(order) /\ p # Least[2]
         /\ ref2n[p] \in Nat /\ ref2n[p] # 0
         /\ Cardinality(Succ(cpo, p) \ (Range(order) \cup {Least[2]})) = ref2n[p] - 1
<1> DEFINE ref == Least[2]
           A == Succ(cpo, p) \ Range(order)
<1>1. /\ ref \in CallsNode \ Range(order) /\ Succ(cpo, ref) \subseteq Range(order)
  BY LeastIsLeaf, Zenon
<1>2. p \in CallsNode /\ <<p, ref>> \in cpo /\ ref \in A
  BY <1>1, SortTypes, Zenon
<1>3. p # ref
  BY <1>1, <1>2, SortTypes, Zenon
<1>4. p \notin Range(order)
  <2> SUFFICES ASSUME p \in Range(order) PROVE FALSE
    BY Zenon
  <2>1. order \in Seq(CallsNode) /\ DOMAIN order = 1 .. Len(order)
    BY DEF SortInv
  <2>2. PICK i \in 1 .. Len(order) : p = order[i]
    BY <2>1, Zenon DEF Range
  <2>3. \E j \in 1 .. i - 1 : ref = order[j]
    <3>1. <<p, ref>>[1] = p /\ <<p, ref>>[2] = ref
      BY Zenon
    <3>2. \A e \in cpo : e[1] = order[i] => \E j \in 1 .. i - 1 : e[2] = order[j]
      BY <2>2, Zenon DEF SortInv
    <3> QED
      BY <1>2, <2>2, <3>1, <3>2, Zenon
  <2>4. \A j \in 1 .. i - 1 : j \in DOMAIN order
    BY <2>1, <2>2
  <2> QED
    BY <1>1, <2>3, <2>4, Zenon DEF Range
<1>5. IsFiniteSet(A) /\ ref2n[p] = Cardinality(A)
  <2>1. A \in SUBSET CallsNode
    BY SortTypes, Zenon
  <2> QED
    BY <1>2, <2>1, SortTypes, FS_Subset DEF SortInv
<1>6. Cardinality(A) \in Nat /\ Cardinality(A) # 0 /\ Cardinality(A \ {ref}) = Cardinality(A) - 1
  <2> HIDE DEF A
  <2> QED
    BY <1>2, <1>5, FS_CardinalityType, FS_EmptySet, FS_RemoveElement, Zenon
<1>7. A \ {ref} = Succ(cpo, p) \ (Range(order) \cup {ref})
  BY Zenon
<1> QED
  BY <1>2, <1>3, <1>4, <1>5, <1>6, <1>7, Zenon

\* What one round of compute_postorder does: its assertions hold.
LEMMA PlaceEffect ==
  ASSUME SortInv, Place
  PROVE  LET ref == Least[2]
         IN  /\ spc = "postorder" /\ spc' = "postorder" /\ heap # {}
             /\ order' = Append(order, ref)
             /\ ref2n' = [r \in CallsNode |->
                            IF r \in Pred(cpo, ref) THEN ref2n[r] - 1 ELSE ref2n[r]]
             /\ heap' = (heap \ ({Least} \cup {<<ref2n[p], p>> : p \in Pred(cpo, ref)}))
                          \cup {<<ref2n[p] - 1, p>> : p \in Pred(cpo, ref)}
             /\ UNCHANGED <<inSize, in, args, cnodes, cpo, entry>>
<1>1. spc = "postorder" /\ heap # {}
  BY Zenon DEF Place
<1>2. ~(Least[1] # 0 \/ ref2n[Least[2]] # 0 \/ \E pred \in Pred(cpo, Least[2]) : ref2n[pred] = 0)
  BY <1>1, LeastIsLeaf, PlacePreds, Zenon
<1> QED
  BY <1>1, <1>2, Zenon DEF Place

\* A round of compute_postorder keeps SortInv: none of its assertions fails,
\* the counts go down by one for the predecessors of the node that is placed,
\* and the heap follows them (cfg.cc:142-160).
LEMMA SortPlaceInv == SortInv /\ Place => SortInv'
<1> SUFFICES ASSUME SortInv, Place PROVE SortInv'
  BY Zenon
<1> DEFINE ref == Least[2]
           R == Range(order)
           Pr == Pred(cpo, ref)
<1>1. /\ spc = "postorder" /\ spc' = "postorder" /\ heap # {}
      /\ order' = Append(order, ref)
      /\ ref2n' = [r \in CallsNode |-> IF r \in Pr THEN ref2n[r] - 1 ELSE ref2n[r]]
      /\ heap' = (heap \ ({Least} \cup {<<ref2n[p], p>> : p \in Pr}))
                   \cup {<<ref2n[p] - 1, p>> : p \in Pr}
      /\ inSize' = inSize /\ in' = in /\ args' = args /\ cnodes' = cnodes /\ cpo' = cpo
  BY PlaceEffect, Zenon
<1>2. /\ ref \in CallsNode /\ ref \notin R /\ Least = <<0, ref>> /\ ref2n[ref] = 0
      /\ Succ(cpo, ref) \subseteq R
  BY <1>1, LeastIsLeaf, Zenon
<1>3. \A p \in Pr : /\ p \in CallsNode /\ p \notin R /\ p # ref
                    /\ Cardinality(Succ(cpo, p) \ (R \cup {ref})) = ref2n[p] - 1
  BY <1>1, PlacePreds, Zenon
<1>4. /\ order \in Seq(CallsNode)
      /\ \A i, j \in 1 .. Len(order) : order[i] = order[j] => i = j
      /\ ref2n = [r \in CallsNode |-> Cardinality(Succ(cpo, r) \ R)]
      /\ heap = {<<ref2n[r], r>> : r \in CallsNode \ R}
      /\ \A i \in 1 .. Len(order) : \A e \in cpo :
           e[1] = order[i] => \E j \in 1 .. i - 1 : e[2] = order[j]
  BY <1>1, Zenon DEF SortInv
<1>5. /\ InNode' = InNode /\ CallsNode' = CallsNode /\ \A r : Of(r)' = Of(r)
  BY <1>1, Zenon DEF InNode, CallsNode, Of
<1> HIDE DEF ref, R, Pr
<1>6. /\ order' \in Seq(CallsNode) /\ Len(order') = Len(order) + 1 /\ Len(order) \in Nat
      /\ order'[Len(order) + 1] = ref
      /\ \A i \in 1 .. Len(order) : order'[i] = order[i]
      /\ DOMAIN order = 1 .. Len(order) /\ DOMAIN order' = 1 .. Len(order) + 1
  BY <1>1, <1>2, <1>4
<1>7. Range(order') = R \cup {ref}
  <2>1. \A i \in 1 .. Len(order) + 1 : i \in 1 .. Len(order) \/ i = Len(order) + 1
    BY <1>6
  <2>2. 1 .. Len(order) \subseteq 1 .. Len(order) + 1 /\ Len(order) + 1 \in 1 .. Len(order) + 1
    BY <1>6
  <2> QED
    BY <1>6, <2>1, <2>2, Zenon DEF Range, R
<1>8. \A i \in 1 .. Len(order) : order[i] \in R
  BY <1>6, Zenon DEF R, Range
<1>9. \A i, j \in 1 .. Len(order') : order'[i] = order'[j] => i = j
  <2> SUFFICES ASSUME NEW i \in 1 .. Len(order) + 1, NEW j \in 1 .. Len(order) + 1,
                      order'[i] = order'[j]
               PROVE  i = j
    BY <1>6, Zenon
  <2>1. CASE i \in 1 .. Len(order) /\ j \in 1 .. Len(order)
    BY <1>4, <1>6, <2>1, Zenon
  <2>2. CASE i = Len(order) + 1 \/ j = Len(order) + 1
    BY <1>2, <1>6, <1>8, <2>2
  <2> QED
    BY <1>6, <2>1, <2>2
<1>10. ref2n' = [r \in CallsNode |-> Cardinality(Succ(cpo, r) \ (R \cup {ref}))]
  <2>1. ASSUME NEW r \in CallsNode, r \notin Pr
        PROVE  Succ(cpo, r) \ (R \cup {ref}) = Succ(cpo, r) \ R
    <3>1. ref \notin Succ(cpo, r)
      BY <1>1, <2>1, SortTypes, Zenon DEF Pr
    <3> QED
      BY <3>1, Zenon
  <2>2. ASSUME NEW r \in CallsNode
        PROVE  ref2n'[r] = Cardinality(Succ(cpo, r) \ (R \cup {ref}))
    <3>1. CASE r \in Pr
      BY <1>1, <1>3, <3>1, Zenon
    <3>2. CASE r \notin Pr
      <4>1. ref2n'[r] = ref2n[r]
        BY <1>1, <3>2, Zenon
      <4>2. ref2n[r] = Cardinality(Succ(cpo, r) \ R)
        BY <1>4, Zenon
      <4> QED
        BY <2>1, <3>2, <4>1, <4>2, Zenon
    <3> QED
      BY <3>1, <3>2, Zenon
  <2> QED
    BY <1>1, <2>2, Zenon
<1>11. heap' = {<<ref2n'[r], r>> : r \in CallsNode \ (R \cup {ref})}
  <2>1. \A r \in CallsNode : ref2n'[r] = IF r \in Pr THEN ref2n[r] - 1 ELSE ref2n[r]
    BY <1>1, Zenon
  <2>2. ASSUME NEW x \in heap'
        PROVE  \E r \in CallsNode \ (R \cup {ref}) : x = <<ref2n'[r], r>>
    <3>1. CASE \E p \in Pr : x = <<ref2n[p] - 1, p>>
      BY <1>3, <2>1, <3>1, Zenon
    <3>2. CASE x \in heap /\ x # Least /\ \A p \in Pr : x # <<ref2n[p], p>>
      <4>1. PICK r \in CallsNode \ R : x = <<ref2n[r], r>>
        BY <1>4, <3>2, Zenon
      <4>2. r # ref /\ r \notin Pr
        BY <1>2, <3>2, <4>1, Zenon
      <4> QED
        BY <2>1, <4>1, <4>2, Zenon
    <3> QED
      BY <1>1, <3>1, <3>2, Zenon
  <2>3. ASSUME NEW r \in CallsNode, r \notin R, r # ref
        PROVE  <<ref2n'[r], r>> \in heap'
    <3>1. CASE r \in Pr
      BY <1>1, <2>1, <3>1, Zenon
    <3>2. CASE r \notin Pr
      <4>1. ref2n'[r] = ref2n[r] /\ <<ref2n[r], r>> \in heap
        BY <1>4, <2>1, <2>3, <3>2, Zenon
      <4>2. <<ref2n[r], r>> # Least /\ \A p \in Pr : <<ref2n[r], r>> # <<ref2n[p], p>>
        BY <1>2, <2>3, <3>2, Zenon
      <4> QED
        BY <1>1, <4>1, <4>2, Zenon
    <3> QED
      BY <3>1, <3>2, Zenon
  <2> QED
    BY <2>2, <2>3, Zenon
<1>12. ASSUME NEW i \in 1 .. Len(order'), NEW e \in cpo, e[1] = order'[i]
       PROVE  \E j \in 1 .. i - 1 : e[2] = order'[j]
  <2>1. CASE i \in 1 .. Len(order)
    <3>1. PICK j \in 1 .. i - 1 : e[2] = order[j]
      BY <1>4, <1>6, <1>12, <2>1
    <3>2. j \in 1 .. Len(order)
      BY <1>6, <2>1
    <3> QED
      BY <1>6, <3>1, <3>2, Zenon
  <2>2. CASE i = Len(order) + 1
    <3>1. e[2] \in R
      <4>1. e[1] = ref /\ e = <<e[1], e[2]>>
        BY <1>1, <1>6, <1>12, <2>2, SortTypes
      <4>2. e[2] \in Succ(cpo, ref)
        BY <1>1, <4>1, SortTypes, Zenon
      <4> QED
        BY <1>2, <4>2, Zenon
    <3>2. PICK j \in 1 .. Len(order) : e[2] = order[j]
      BY <1>6, <3>1, Zenon DEF R, Range
    <3> QED
      BY <1>6, <2>2, <3>2
  <2> QED
    BY <1>6, <2>1, <2>2
<1>13. /\ inSize' \in Nat /\ in' \subseteq InNode' \X InNode'
       /\ NoWayBack(InNode', in')
       /\ cnodes' \in Seq(InNode')
       /\ cpo' = {e \in CallsNode' \X CallsNode' : <<Of(e[1])', Of(e[2])'>> \in in'}
  BY <1>1, <1>5, Zenon DEF SortInv
<1>14. ASSUME NEW n \in InNode'
       PROVE  Cardinality({r \in CallsNode' : Of(r)' = n}) = Copies(args', n)
  <2>1. {r \in CallsNode' : Of(r)' = n} = {r \in CallsNode : Of(r) = n}
    BY <1>5, Zenon
  <2> QED
    BY <1>1, <1>5, <2>1, Zenon DEF SortInv
<1>15. /\ order' \in Seq(CallsNode')
       /\ \A k, l \in 1 .. Len(order') : order'[k] = order'[l] => k = l
       /\ ref2n' = [r \in CallsNode' |-> Cardinality(Succ(cpo', r) \ Range(order'))]
       /\ heap' = {<<ref2n'[r], r>> : r \in CallsNode' \ Range(order')}
       /\ \A k \in 1 .. Len(order') : \A e \in cpo' :
            e[1] = order'[k] => \E j \in 1 .. k - 1 : e[2] = order'[j]
  BY <1>1, <1>5, <1>6, <1>7, <1>9, <1>10, <1>11, <1>12, Zenon
<1> QED
  BY <1>1, <1>13, <1>14, <1>15, Zenon DEF SortInv

\* The initial state satisfies SortInv.
LEMMA SortInitInv == SortInit => SortInv
  BY Zenon DEF SortInit, SortInv

\* construct establishes what SortInv says of the graph: the nodes for each
\* call, and the edges between them (calls.cc:8-46).
LEMMA SortCallsInv == SortInv /\ SortCalls => SortInv'
<1> SUFFICES ASSUME SortInv, SortCalls PROVE SortInv'
  BY Zenon
<1>0. PICK sz \in Nat : \E E \in SUBSET ((0 .. sz - 1) \X (0 .. sz - 1)) :
        \E a \in [0 .. sz - 1 -> Args] : NoWayBack(0 .. sz - 1, E) /\ Calls(sz, E, a)
  BY Zenon DEF SortCalls
<1>1. PICK E \in SUBSET ((0 .. sz - 1) \X (0 .. sz - 1)) :
        \E a \in [0 .. sz - 1 -> Args] : NoWayBack(0 .. sz - 1, E) /\ Calls(sz, E, a)
  BY <1>0, Zenon
<1>a. PICK a \in [0 .. sz - 1 -> Args] : NoWayBack(0 .. sz - 1, E) /\ Calls(sz, E, a)
  BY <1>1, Zenon
<1> DEFINE new == Expand(a, sz)
<1>2. /\ spc = "calls" /\ spc' = "heap" /\ order' = order
      /\ inSize' = sz /\ in' = E /\ args' = a /\ cnodes' = new
      /\ cpo' = {e \in (0 .. Len(new) - 1) \X (0 .. Len(new) - 1) :
                   <<new[e[1] + 1], new[e[2] + 1]>> \in E}
  BY <1>a, Zenon DEF Calls
<1>3. a \in [0 .. sz - 1 -> Nat]
  BY SortAssumption, Zenon
<1>4. /\ new \in Seq(0 .. sz - 1)
      /\ \A n \in 0 .. sz - 1 :
           Cardinality({r \in 0 .. Len(new) - 1 : new[r + 1] = n}) = Copies(a, n)
  BY <1>3, ExpandNodes, Zenon
<1> HIDE DEF new
<1>5. /\ InNode' = 0 .. sz - 1 /\ CallsNode' = 0 .. Len(new) - 1
      /\ \A r : Of(r)' = new[r + 1]
  BY <1>2, Zenon DEF InNode, CallsNode, Of
<1>6. /\ inSize' \in Nat /\ in' \subseteq InNode' \X InNode' /\ NoWayBack(InNode', in')
      /\ cnodes' \in Seq(InNode')
      /\ cpo' = {e \in CallsNode' \X CallsNode' : <<Of(e[1])', Of(e[2])'>> \in in'}
  BY <1>a, <1>2, <1>4, <1>5, Zenon
<1>7. ASSUME NEW n \in InNode'
      PROVE  Cardinality({r \in CallsNode' : Of(r)' = n}) = Copies(args', n)
  BY <1>2, <1>4, <1>5, Zenon
<1>8. order' = <<>>
  BY <1>2, Zenon DEF SortInv
<1> QED
  BY <1>2, <1>6, <1>7, <1>8, Zenon DEF SortInv

\* The heap begins with the number of successors of every node
\* (cfg.cc:135-140).
LEMMA SortInitHeapInv == SortInv /\ InitHeap => SortInv'
<1> SUFFICES ASSUME SortInv, InitHeap PROVE SortInv'
  BY Zenon
<1>1. /\ spc = "heap" /\ spc' = "postorder" /\ order' = order /\ order = <<>>
      /\ inSize' = inSize /\ in' = in /\ args' = args /\ cnodes' = cnodes /\ cpo' = cpo
      /\ ref2n' = [ref \in CallsNode |-> Cardinality(Succ(cpo, ref))]
      /\ heap' = {<<Cardinality(Succ(cpo, ref)), ref>> : ref \in CallsNode}
  BY Zenon DEF InitHeap, SortInv
<1>2. /\ InNode' = InNode /\ CallsNode' = CallsNode /\ \A r : Of(r)' = Of(r)
  BY <1>1, Zenon DEF InNode, CallsNode, Of
<1>3. /\ inSize' \in Nat /\ in' \subseteq InNode' \X InNode'
      /\ NoWayBack(InNode', in')
      /\ cnodes' \in Seq(InNode')
      /\ cpo' = {e \in CallsNode' \X CallsNode' : <<Of(e[1])', Of(e[2])'>> \in in'}
  BY <1>1, <1>2, Zenon DEF SortInv
<1>4. ASSUME NEW n \in InNode'
      PROVE  Cardinality({r \in CallsNode' : Of(r)' = n}) = Copies(args', n)
  <2>1. {r \in CallsNode' : Of(r)' = n} = {r \in CallsNode : Of(r) = n}
    BY <1>2, Zenon
  <2> QED
    BY <1>1, <1>2, <2>1 DEF SortInv
<1>5. Len(order') = 0 /\ order' \in Seq(CallsNode') /\ Range(order') = {} /\ 1 .. Len(order') = {}
  BY <1>1 DEF Range
<1>6. \A r : Succ(cpo', r) \ Range(order') = Succ(cpo, r)
  BY <1>1, <1>5, Zenon
<1>7. ref2n' = [r \in CallsNode' |-> Cardinality(Succ(cpo', r) \ Range(order'))]
  BY <1>1, <1>2, <1>6, Zenon
<1>8. heap' = {<<ref2n'[r], r>> : r \in CallsNode' \ Range(order')}
  <2>1. \A r \in CallsNode : ref2n'[r] = Cardinality(Succ(cpo, r))
    BY <1>1, Zenon
  <2> QED
    BY <1>1, <1>2, <1>5, <2>1, Zenon
<1> QED
  BY <1>1, <1>3, <1>4, <1>5, <1>7, <1>8, Zenon DEF SortInv

\* When the heap is empty, order has every node once.
LEMMA OrderComplete ==
  ASSUME SortInv, spc = "postorder", heap = {}
  PROVE  /\ Len(order) = Len(cnodes) /\ Len(order) \in Nat
         /\ \A r \in CallsNode : \E i \in 1 .. Len(order) : order[i] = r
         /\ \A i \in 1 .. Len(order) : order[i] \in CallsNode
<1>1. /\ order \in Seq(CallsNode)
      /\ \A i, j \in 1 .. Len(order) : order[i] = order[j] => i = j
      /\ heap = {<<ref2n[r], r>> : r \in CallsNode \ Range(order)}
  BY Zenon DEF SortInv
<1>2. Len(order) \in Nat /\ DOMAIN order = 1 .. Len(order) /\ order \in [1 .. Len(order) -> CallsNode]
  BY <1>1
<1>3. CallsNode \subseteq Range(order)
  <2> SUFFICES ASSUME NEW r \in CallsNode, r \notin Range(order) PROVE FALSE
    BY Zenon
  <2>1. <<ref2n[r], r>> \in {<<ref2n[q], q>> : q \in CallsNode \ Range(order)}
    BY Zenon
  <2> QED
    BY <1>1, <2>1, Zenon
<1>4. \A r \in CallsNode : \E i \in 1 .. Len(order) : order[i] = r
  BY <1>2, <1>3, Zenon DEF Range
<1>5. order \in Bijection(1 .. Len(order), CallsNode)
  BY <1>1, <1>2, <1>4, Zenon DEF Bijection, Injection, IsInjective, Surjection
<1>6. Cardinality(CallsNode) = Cardinality(1 .. Len(order)) /\ Cardinality(1 .. Len(order)) = Len(order)
  <2>1. IsFiniteSet(1 .. Len(order)) /\ Cardinality(1 .. Len(order)) = Len(order)
    BY <1>2, IntervalSize, Zenon
  <2>2. ExistsBijection(1 .. Len(order), CallsNode)
    BY <1>5, Zenon DEF ExistsBijection
  <2> QED
    BY <2>1, <2>2, FS_Bijection, Zenon
<1>7. Cardinality(CallsNode) = Len(cnodes)
  <2>1. Len(cnodes) \in Nat /\ 0 \in Nat /\ 0 .. 0 + Len(cnodes) - 1 = CallsNode
    BY SortTypes DEF CallsNode
  <2> QED
    BY <2>1, IntervalSize, Zenon
<1> QED
  BY <1>2, <1>4, <1>6, <1>7, Zenon

\* The rest of sort: the places are turned round.
LEMMA SortSortInv == SortInv /\ Sort => SortInv'
<1> SUFFICES ASSUME SortInv, Sort PROVE SortInv'
  BY Zenon
<1> DEFINE M == Len(order)
           New(ref) == CHOOSE n \in CallsNode : order[M - n] = ref
<1>1. /\ spc = "postorder" /\ heap = {} /\ spc' = "sorted"
      /\ inSize' = inSize /\ in' = in /\ args' = args
      /\ cpo' = {<<New(e[1]), New(e[2])>> : e \in cpo}
      /\ cnodes' = [n \in 1 .. Len(cnodes) |-> Of(order[M - n + 1])]
  BY Zenon DEF Sort
<1>2. /\ M = Len(cnodes) /\ M \in Nat
      /\ \A r \in CallsNode : \E i \in 1 .. M : order[i] = r
      /\ \A i \in 1 .. M : order[i] \in CallsNode
  BY <1>1, OrderComplete, Zenon
<1>3. /\ \A i, j \in 1 .. M : order[i] = order[j] => i = j
      /\ \A i \in 1 .. M : \A e \in cpo :
           e[1] = order[i] => \E j \in 1 .. i - 1 : e[2] = order[j]
      /\ cpo = {e \in CallsNode \X CallsNode : <<Of(e[1]), Of(e[2])>> \in in}
  BY <1>1, Zenon DEF SortInv
<1> HIDE DEF M
<1>4. CallsNode = 0 .. M - 1 /\ \A n \in 0 .. M - 1 : M - n \in 1 .. M
  BY <1>2 DEF CallsNode
<1>5. ASSUME NEW r \in CallsNode PROVE New(r) \in 0 .. M - 1 /\ order[M - New(r)] = r
  <2>1. PICK i \in 1 .. M : order[i] = r
    BY <1>2, Zenon
  <2>2. M - i \in CallsNode /\ M - (M - i) = i
    BY <1>2, <1>4
  <2>3. \E n \in CallsNode : order[M - n] = r
    BY <2>1, <2>2, Zenon
  <2>4. New(r) \in CallsNode /\ order[M - New(r)] = r
    BY <2>3, Zenon
  <2> QED
    BY <1>4, <2>4, Zenon
<1> HIDE DEF New
<1>6. ASSUME NEW n \in 0 .. M - 1
      PROVE  order[M - n] \in CallsNode /\ New(order[M - n]) = n
  <2>1. order[M - n] \in CallsNode
    BY <1>2, <1>4, Zenon
  <2>2. New(order[M - n]) \in 0 .. M - 1 /\ order[M - New(order[M - n])] = order[M - n]
    BY <1>5, <2>1, Zenon
  <2>3. M - New(order[M - n]) = M - n
    BY <1>3, <1>4, <2>2, Zenon
  <2> QED
    BY <1>2, <2>1, <2>2, <2>3
<1>7. /\ Len(cnodes') = M /\ cnodes' \in Seq(InNode)
      /\ \A n \in 0 .. M - 1 : cnodes'[n + 1] = Of(order[M - n])
  <2>1. \A r \in CallsNode : Of(r) \in InNode
    BY <1>1 DEF SortInv, CallsNode, Of
  <2>2. ASSUME NEW k \in 1 .. M PROVE M - k + 1 \in 1 .. M
    BY <1>2
  <2>3. \A k \in 1 .. M : Of(order[M - k + 1]) \in InNode
    BY <1>2, <2>1, <2>2, Zenon
  <2>4. cnodes' \in [1 .. M -> InNode]
    BY <1>1, <1>2, <2>3, Zenon
  <2>5. Len(cnodes') = M /\ cnodes' \in Seq(InNode)
    BY <1>2, <2>4
  <2>6. ASSUME NEW n \in 0 .. M - 1 PROVE cnodes'[n + 1] = Of(order[M - n])
    <3>1. n + 1 \in 1 .. M /\ M - (n + 1) + 1 = M - n
      BY <1>2
    <3>2. cnodes'[n + 1] = Of(order[M - (n + 1) + 1])
      BY <1>1, <1>2, <3>1, Zenon
    <3> QED
      BY <3>1, <3>2, Zenon
  <2> QED
    BY <2>5, <2>6, Zenon
<1>8. /\ InNode' = InNode /\ CallsNode' = CallsNode
      /\ \A n \in CallsNode : cnodes'[n + 1] = Of(order[M - n])
  BY <1>1, <1>4, <1>7, Zenon DEF InNode, CallsNode
<1>9. \A r \in CallsNode : New(r) \in CallsNode /\ cnodes'[New(r) + 1] = Of(r)
  BY <1>4, <1>5, <1>8, Zenon
<1>10. cpo' = {e \in CallsNode' \X CallsNode' : <<Of(e[1])', Of(e[2])'>> \in in'}
  <2>1. ASSUME NEW d \in cpo'
        PROVE  d \in CallsNode \X CallsNode /\ <<Of(d[1])', Of(d[2])'>> \in in
    <3>1. PICK e \in cpo : d = <<New(e[1]), New(e[2])>>
      BY <1>1, Zenon
    <3>2. e[1] \in CallsNode /\ e[2] \in CallsNode /\ <<Of(e[1]), Of(e[2])>> \in in
      BY <1>3, Zenon
    <3>3. d[1] = New(e[1]) /\ d[2] = New(e[2])
      BY <3>1, Zenon
    <3>4. Of(d[1])' = Of(e[1]) /\ Of(d[2])' = Of(e[2])
      <4>1. cnodes'[d[1] + 1] = Of(e[1]) /\ cnodes'[d[2] + 1] = Of(e[2])
        BY <1>9, <3>2, <3>3, Zenon
      <4>2. Of(d[1])' = cnodes'[d[1] + 1] /\ Of(d[2])' = cnodes'[d[2] + 1]
        BY Zenon DEF Of
      <4> QED
        BY <4>1, <4>2, Zenon
    <3> QED
      BY <1>9, <3>1, <3>2, <3>4, Zenon
  <2>2. ASSUME NEW d \in CallsNode \X CallsNode, <<Of(d[1])', Of(d[2])'>> \in in
        PROVE  d \in cpo'
    <3>1. d[1] \in 0 .. M - 1 /\ d[2] \in 0 .. M - 1 /\ d = <<d[1], d[2]>>
      BY <1>4
    <3> DEFINE a == order[M - d[1]]
               b == order[M - d[2]]
    <3>2. a \in CallsNode /\ New(a) = d[1] /\ b \in CallsNode /\ New(b) = d[2]
      BY <1>6, <3>1, Zenon
    <3>3. Of(d[1])' = Of(a) /\ Of(d[2])' = Of(b)
      <4>1. cnodes'[d[1] + 1] = Of(a) /\ cnodes'[d[2] + 1] = Of(b)
        BY <1>4, <1>8, <3>1, Zenon
      <4>2. Of(d[1])' = cnodes'[d[1] + 1] /\ Of(d[2])' = cnodes'[d[2] + 1]
        BY Zenon DEF Of
      <4> QED
        BY <4>1, <4>2, Zenon
    <3>4. <<Of(a), Of(b)>> \in in
      BY <2>2, <3>3, Zenon
    <3> HIDE DEF a, b
    <3>5. <<a, b>> \in cpo
      <4>1. <<a, b>> \in CallsNode \X CallsNode /\ <<a, b>>[1] = a /\ <<a, b>>[2] = b
        BY <3>2, Zenon
      <4> QED
        BY <1>3, <3>4, <4>1, Zenon
    <3>6. <<New(a), New(b)>> \in cpo'
      <4>1. <<a, b>>[1] = a /\ <<a, b>>[2] = b
        BY Zenon
      <4> QED
        BY <1>1, <3>5, <4>1, Zenon
    <3> QED
      BY <3>1, <3>2, <3>6, Zenon
  <2> QED
    BY <1>1, <1>8, <2>1, <2>2, Zenon
<1>11. ASSUME NEW d \in cpo' PROVE d[1] < d[2]
  <2>1. PICK e \in cpo : d = <<New(e[1]), New(e[2])>>
    BY <1>1, Zenon
  <2>2. e[1] \in CallsNode /\ e[2] \in CallsNode
    BY <1>3, Zenon
  <2>3. PICK i \in 1 .. M : order[i] = e[1]
    BY <1>2, <2>2, Zenon
  <2>4. PICK j \in 1 .. i - 1 : e[2] = order[j]
    BY <1>3, <2>3, Zenon
  <2>5. M - i \in 0 .. M - 1 /\ M - j \in 0 .. M - 1 /\ M - (M - i) = i /\ M - (M - j) = j
    BY <1>2
  <2>6. New(e[1]) = M - i /\ New(e[2]) = M - j
    BY <1>6, <2>3, <2>4, <2>5, Zenon
  <2>7. d[1] = M - i /\ d[2] = M - j
    BY <2>1, <2>6, Zenon
  <2> QED
    BY <1>2, <2>7
<1>12. ASSUME NEW n \in InNode'
       PROVE  Cardinality({r \in CallsNode' : Of(r)' = n}) = Copies(args', n)
  <2> DEFINE S == {r \in CallsNode : Of(r) = n}
             T == {r \in CallsNode : cnodes'[r + 1] = n}
             f == [r \in S |-> New(r)]
  <2>1. f \in [S -> T]
    BY <1>9, Zenon
  <2>2. \A x, y \in S : f[x] = f[y] => x = y
    BY <1>5, Zenon
  <2>3. ASSUME NEW t \in T PROVE \E x \in S : f[x] = t
    <3>1. t \in 0 .. M - 1 /\ Of(order[M - t]) = n
      BY <1>4, <1>8, Zenon
    <3>2. order[M - t] \in S /\ New(order[M - t]) = t
      BY <1>6, <3>1, Zenon
    <3> QED
      BY <3>2, Zenon
  <2>4. IsFiniteSet(S)
    <3>1. S \in SUBSET CallsNode
      BY Zenon
    <3> QED
      BY <1>1, <3>1, SortTypes, FS_Subset, Zenon
  <2>5. Cardinality(S) = Copies(args, n)
    BY <1>1, <1>8, Zenon DEF SortInv
  <2> HIDE DEF S, T, f
  <2>6. ExistsBijection(S, T)
    BY <2>1, <2>2, <2>3, Zenon DEF ExistsBijection, Bijection, Injection, IsInjective, Surjection
  <2>7. Cardinality(T) = Cardinality(S)
    BY <2>4, <2>6, FS_Bijection, Zenon
  <2>8. {r \in CallsNode' : Of(r)' = n} = T
    BY <1>8, Zenon DEF T, Of
  <2> QED
    BY <1>1, <2>5, <2>7, <2>8, Zenon
<1>13. /\ inSize' \in Nat /\ in' \subseteq InNode' \X InNode' /\ NoWayBack(InNode', in')
       /\ cnodes' \in Seq(InNode')
  BY <1>1, <1>7, <1>8, Zenon DEF SortInv
<1> QED
  BY <1>1, <1>10, <1>11, <1>12, <1>13, Zenon DEF SortInv

\* A step that changes nothing keeps SortInv.
LEMMA SortSameInv == SortInv /\ UNCHANGED sortVars => SortInv'
<1> SUFFICES ASSUME SortInv, UNCHANGED sortVars PROVE SortInv'
  BY Zenon
<1>1. /\ inSize' = inSize /\ in' = in /\ args' = args /\ cnodes' = cnodes /\ cpo' = cpo
      /\ ref2n' = ref2n /\ heap' = heap /\ order' = order /\ spc' = spc
  BY Zenon DEF sortVars
<1>2. /\ InNode' = InNode /\ CallsNode' = CallsNode /\ \A r : Of(r)' = Of(r)
  BY <1>1, Zenon DEF InNode, CallsNode, Of
<1>3. CASE spc = "calls"
  BY <1>1, <1>3, Zenon DEF SortInv
<1>4. CASE spc # "calls"
  <2>1. /\ inSize' \in Nat /\ in' \subseteq InNode' \X InNode'
        /\ NoWayBack(InNode', in')
        /\ cnodes' \in Seq(InNode')
        /\ cpo' = {e \in CallsNode' \X CallsNode' : <<Of(e[1])', Of(e[2])'>> \in in'}
    BY <1>1, <1>2, <1>4, Zenon DEF SortInv
  <2>2. ASSUME NEW n \in InNode'
        PROVE  Cardinality({r \in CallsNode' : Of(r)' = n}) = Copies(args', n)
    <3>1. {r \in CallsNode' : Of(r)' = n} = {r \in CallsNode : Of(r) = n}
      BY <1>2, Zenon
    <3> QED
      BY <1>1, <1>2, <1>4, <3>1, Zenon DEF SortInv
  <2>3. spc' = "postorder" =>
       /\ order' \in Seq(CallsNode')
       /\ \A k, l \in 1 .. Len(order') : order'[k] = order'[l] => k = l
       /\ ref2n' = [r \in CallsNode' |-> Cardinality(Succ(cpo', r) \ Range(order'))]
       /\ heap' = {<<ref2n'[r], r>> : r \in CallsNode' \ Range(order')}
       /\ \A k \in 1 .. Len(order') : \A e \in cpo' :
            e[1] = order'[k] => \E j \in 1 .. k - 1 : e[2] = order'[j]
    <3> SUFFICES ASSUME spc = "postorder"
                 PROVE  /\ order' \in Seq(CallsNode')
                        /\ \A k, l \in 1 .. Len(order') : order'[k] = order'[l] => k = l
                        /\ ref2n' = [r \in CallsNode' |->
                                       Cardinality(Succ(cpo', r) \ Range(order'))]
                        /\ heap' = {<<ref2n'[r], r>> : r \in CallsNode' \ Range(order')}
                        /\ \A k \in 1 .. Len(order') : \A e \in cpo' :
                             e[1] = order'[k] => \E j \in 1 .. k - 1 : e[2] = order'[j]
      BY <1>1, Zenon
    <3>1. /\ order' \in Seq(CallsNode')
          /\ \A k, l \in 1 .. Len(order') : order'[k] = order'[l] => k = l
      BY <1>1, <1>2 DEF SortInv
    <3>2. ref2n' = [r \in CallsNode' |-> Cardinality(Succ(cpo', r) \ Range(order'))]
      BY <1>1, <1>2, Zenon DEF SortInv
    <3>3. heap' = {<<ref2n'[r], r>> : r \in CallsNode' \ Range(order')}
      BY <1>1, <1>2 DEF SortInv
    <3>4. \A k \in 1 .. Len(order') : \A e \in cpo' :
            e[1] = order'[k] => \E j \in 1 .. k - 1 : e[2] = order'[j]
      BY <1>1, <1>2 DEF SortInv
    <3> QED
      BY <3>1, <3>2, <3>3, <3>4, Zenon
  <2>4. /\ spc' \in {"calls", "heap", "postorder", "sorted"}
        /\ spc' \in {"calls", "heap"} => order' = <<>>
        /\ spc' = "sorted" => \A e \in cpo' : e[1] < e[2]
    BY <1>1, Zenon DEF SortInv
  <2> QED
    BY <2>1, <2>2, <2>3, <2>4, Zenon DEF SortInv
<1> QED
  BY <1>3, <1>4, Zenon

\* Every step of construct and sort keeps SortInv.
LEMMA SortStepInv == SortInv /\ [SortCalls \/ SortNext]_sortVars => SortInv'
  BY SortCallsInv, SortInitHeapInv, SortPlaceInv, SortSortInv, SortSameInv, Zenon DEF SortNext

\* SortInv holds throughout.
THEOREM SortInvariant == SortSpec => []SortInv
  BY SortInitInv, SortStepInv, PTL DEF SortSpec

\* After sort every edge ascends, no assertion of compute_postorder fails, and
\* the graph is the one that came in with its calls replaced, for every graph
\* without a way back and any number of pointer arguments (cfg.cc:128-160,
\* 329-372, calls.cc:8-46).
THEOREM SortSortedTopologically == SortSpec => []SortedTopologically
<1>1. SortInv => SortedTopologically
  BY Zenon DEF SortInv, SortedTopologically
<1> QED
  BY <1>1, SortInvariant, PTL
=============================================================================
