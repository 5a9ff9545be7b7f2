------------------------------- MODULE CFGProofs ------------------------------
(***************************************************************************)
(* Proofs about the graphs that are made of a function: prune and          *)
(* resolve_refs, for graphs of any size and any order of the worklist and  *)
(* of a node's predecessors, and the whole pipeline, sort between them.    *)
(***************************************************************************)
EXTENDS CFGPipeline, SortProofs

-----------------------------------------------------------------------------
(* prune.  PruneInv is inductive: the edges left are those of the graph      *)
(* between nodes that are left, and a node whose last successor has gone is  *)
(* on the worklist.                                                          *)

\* The worklist starts with every node that is not an exit (cfg.cc:51-56).
LEMMA PruneInitInv == PruneInit => PruneInv
  BY Zenon DEF PruneInit, PruneInv, Unrolled, Exit, Entry

\* A leaf is deleted and its predecessors are queued; any other node is only
\* taken off the list, and keeps a successor (cfg.cc:59-72).
LEMMA PrunePopInv == PruneInv /\ Pop => PruneInv'
<1> SUFFICES ASSUME PruneInv, Pop PROVE PruneInv'
  BY Zenon
<1>1. PICK ref \in todo :
        IF Succ(po, ref) = {}
          THEN /\ todo' = (todo \ {ref}) \cup Pred(po, ref)
               /\ po' = {e \in po : ref \notin {e[1], e[2]}}
               /\ deleted' = deleted \cup {ref}
          ELSE /\ todo' = todo \ {ref}
               /\ UNCHANGED <<po, deleted>>
  BY Zenon DEF Pop
<1>2. /\ ppc = "prune" /\ ppc' = "prune"
      /\ num_refs' = num_refs /\ graph' = graph /\ Unrolled' = Unrolled
  BY Zenon DEF Pop, Unrolled
<1>3. /\ Exit \notin deleted
      /\ \A e \in graph : e[1] \in deleted => e[2] \in deleted
      /\ graph \subseteq Unrolled \X Unrolled
      /\ todo \subseteq Unrolled \ {Exit}
      /\ todo \cap deleted = {}
      /\ \A e \in graph : e[1] # Exit
      /\ po = {e \in graph : e[1] \notin deleted /\ e[2] \notin deleted}
      /\ \A n \in Unrolled \ (todo \cup deleted \cup {Exit}) :
           \E e \in graph : e[1] = n /\ e[2] \notin deleted
  BY <1>2, Zenon DEF PruneInv
<1>4. CASE Succ(po, ref) = {}
  <2>1. \A e \in po : e[1] # ref
    BY <1>4, Zenon DEF Succ
  <2>2. \A n : n \in Pred(po, ref) <=> \E e \in po : e[2] = ref /\ e[1] = n
    BY Zenon DEF Pred
  <2>3. Exit \notin deleted'
    BY <1>1, <1>3, <1>4, Zenon
  <2>4. \A e \in graph : e[1] \in deleted' => e[2] \in deleted'
    BY <1>1, <1>3, <1>4, <2>1, Zenon
  <2>5. todo' \subseteq Unrolled \ {Exit}
    <3>1. \A e \in po : e[1] \in Unrolled /\ e[1] # Exit
      BY <1>3, Zenon
    <3>2. Pred(po, ref) \subseteq Unrolled \ {Exit}
      BY <2>2, <3>1, Zenon
    <3> QED
      BY <1>1, <1>3, <1>4, <3>2, Zenon
  <2>6. todo' \cap deleted' = {}
    <3>1. \A e \in po : e[1] \notin deleted
      BY <1>3, Zenon
    <3>2. \A n \in Pred(po, ref) : n # ref /\ n \notin deleted
      BY <2>1, <2>2, <3>1
    <3> QED
      BY <1>1, <1>3, <1>4, <3>2, Zenon
  <2>7. po' = {e \in graph : e[1] \notin deleted' /\ e[2] \notin deleted'}
    BY <1>1, <1>3, <1>4, Zenon
  <2>8. ASSUME NEW n \in Unrolled \ (todo' \cup deleted' \cup {Exit})
        PROVE  \E e \in graph : e[1] = n /\ e[2] \notin deleted'
    <3>1. n \notin todo /\ n \notin deleted /\ n \notin Pred(po, ref)
      BY <1>1, <1>4, Zenon
    <3>2. PICK e \in graph : e[1] = n /\ e[2] \notin deleted
      BY <1>3, <3>1, Zenon
    <3>3. e[2] # ref
      BY <1>3, <3>1, <3>2, <2>2, Zenon
    <3> QED
      BY <1>1, <1>4, <3>2, <3>3, Zenon
  <2> QED
    BY <1>2, <1>3, <2>3, <2>4, <2>5, <2>6, <2>7, <2>8, Zenon DEF PruneInv
<1>5. CASE Succ(po, ref) # {}
  <2>1. PICK e \in po : e[1] = ref
    BY <1>5, Zenon DEF Succ
  <2>2. e \in graph /\ e[2] \notin deleted
    BY <1>3, <2>1, Zenon
  <2>3. \A n \in Unrolled \ (todo' \cup deleted' \cup {Exit}) :
          \E d \in graph : d[1] = n /\ d[2] \notin deleted'
    BY <1>1, <1>3, <1>5, <2>1, <2>2, Zenon
  <2> QED
    BY <1>1, <1>2, <1>3, <1>5, <2>3, Zenon DEF PruneInv
<1> QED
  BY <1>4, <1>5, Zenon

\* Every step of prune keeps it.
LEMMA PruneStepInv == PruneInv /\ [PruneNext]_pruneVars => PruneInv'
<1> SUFFICES ASSUME PruneInv, [PruneNext]_pruneVars PROVE PruneInv'
  BY Zenon
<1>1. CASE Pop
  BY <1>1, PrunePopInv, Zenon
<1>2. CASE Renumber
  BY <1>2, Zenon DEF PruneInv, Renumber
<1>3. CASE UNCHANGED pruneVars
  BY <1>3, Zenon DEF PruneInv, pruneVars, Unrolled
<1> QED
  BY <1>1, <1>2, <1>3, Zenon DEF PruneNext

\* PruneInv holds throughout.
THEOREM PruneInvariant == PruneSpec => []PruneInv
  BY PruneInitInv, PruneStepInv, PTL DEF PruneSpec

\* No deleted node is on the worklist or on an edge, so that the lookups of
\* cfg.cc:65-71 and 103 do not throw, for every graph and worklist order.
THEOREM PruneNoDangling == PruneSpec => []NoDangling
<1>1. PruneInv => NoDangling
  BY Zenon DEF PruneInv, NoDangling
<1> QED
  BY <1>1, PruneInvariant, PTL

\* prune deletes only what leads nowhere, and when it ends every node left
\* leads on to another, for every graph and worklist order.
THEOREM PrunePrunedLocally == PruneSpec => []PrunedLocally
<1>1. PruneInv => PrunedLocally
  BY Zenon DEF PruneInv, PrunedLocally
<1> QED
  BY <1>1, PruneInvariant, PTL

\* The number that refmap gives to r when the nodes of L are left.
Rank(L, r) == Cardinality({n \in L : n < r})

\* refmap keeps the order of the nodes.
LEMMA RankLess ==
  ASSUME NEW L \in SUBSET Nat, IsFiniteSet(L), NEW a \in L, NEW b \in L, a < b
  PROVE  Rank(L, a) < Rank(L, b)
<1> DEFINE A == {n \in L : n < a}
           B == {n \in L : n < b}
<1>1. A \cup {a} \in SUBSET B /\ a \notin A /\ A \in SUBSET L /\ B \in SUBSET L
  <2>1. \A n \in Nat : n < a => n < b
    OBVIOUS
  <2>2. ~(a < a)
    OBVIOUS
  <2> QED
    BY <2>1, <2>2, Zenon
<1>2. IsFiniteSet(A) /\ IsFiniteSet(B)
  BY <1>1, FS_Subset, Zenon
<1>3. Cardinality(A) \in Nat /\ Cardinality(B) \in Nat
  BY <1>2, FS_CardinalityType, Zenon
<1>4. Cardinality(A \cup {a}) = Cardinality(A) + 1
  BY <1>1, <1>2, FS_AddElement, Zenon
<1>5. Cardinality(A \cup {a}) <= Cardinality(B)
  BY <1>1, <1>2, FS_Subset, Zenon
<1> HIDE DEF A, B
<1>6. Cardinality(A) < Cardinality(B)
  BY <1>3, <1>4, <1>5
<1> QED
  BY <1>6, Zenon DEF A, B, Rank

\* The numbers of refmap are below the number of nodes left.
LEMMA RankBound ==
  ASSUME NEW L \in SUBSET Nat, IsFiniteSet(L), NEW a \in L
  PROVE  Rank(L, a) \in 0 .. Cardinality(L) - 1
<1> DEFINE A == {n \in L : n < a}
<1>1. A \in SUBSET (L \ {a})
  OBVIOUS
<1>2. IsFiniteSet(L \ {a}) /\ Cardinality(L \ {a}) = Cardinality(L) - 1
  BY FS_RemoveElement, Zenon
<1>3. IsFiniteSet(A) /\ Cardinality(A) <= Cardinality(L \ {a})
  BY <1>1, <1>2, FS_Subset, Zenon
<1>4. Cardinality(A) \in Nat /\ Cardinality(L) \in Nat
  BY <1>3, FS_CardinalityType, Zenon
<1> HIDE DEF A
<1>5. Cardinality(A) \in 0 .. Cardinality(L) - 1
  BY <1>2, <1>3, <1>4
<1> QED
  BY <1>5, Zenon DEF A, Rank

\* Two nodes have two numbers.
LEMMA RankUnique ==
  ASSUME NEW L \in SUBSET Nat, IsFiniteSet(L), NEW a \in L, NEW b \in L,
         Rank(L, a) = Rank(L, b)
  PROVE  a = b
<1>1. Rank(L, a) \in Int
  BY RankBound
<1>2. ~(a < b) /\ ~(b < a)
  BY <1>1, RankLess
<1> QED
  BY <1>2

\* Every number below the number of nodes left is given to a node.
LEMMA RankOnto ==
  ASSUME NEW L \in SUBSET Nat, IsFiniteSet(L), NEW n \in 0 .. Cardinality(L) - 1
  PROVE  \E r \in L : Rank(L, r) = n
<1> DEFINE T == 0 .. Cardinality(L) - 1
           f == [r \in L |-> Rank(L, r)]
<1>1. Cardinality(L) \in Nat
  BY FS_CardinalityType, Zenon
<1>2. IsFiniteSet(T) /\ Cardinality(T) = Cardinality(L)
  <2>1. Cardinality(L) - 1 \in Int /\ 0 \in Int
    BY <1>1
  <2>2. IsFiniteSet(T) /\ Cardinality(T) = IF 0 > Cardinality(L) - 1 THEN 0
                                             ELSE Cardinality(L) - 1 - 0 + 1
    BY <2>1, FS_Interval, Zenon
  <2> HIDE DEF T
  <2> QED
    BY <1>1, <2>2
<1>3. f \in [L -> T]
  BY RankBound, Zenon
<1>4. \A a, b \in L : f[a] = f[b] => a = b
  BY RankUnique, Zenon
<1> HIDE DEF f
<1>5. f \in Injection(L, T)
  BY <1>3, <1>4, Zenon DEF Injection, IsInjective
<1>6. f \in Surjection(L, T)
  BY <1>2, <1>5, FS_Injection, Zenon
<1>7. \A t \in T : \E r \in L : f[r] = t
  BY <1>6, Zenon DEF Surjection
<1>8. PICK r \in L : f[r] = n
  BY <1>7, Zenon
<1> QED
  BY <1>8, Zenon DEF f

\* Where nothing can be reached from where it leads, no way leads back: of the
\* closed sets that meet a set of nodes each of which leads into the set, a
\* smallest one would have a smaller one.
LEMMA ReachesNoWayBack ==
  ASSUME num_refs \in Nat,
         NEW E, E \subseteq Unrolled \X Unrolled, \A e \in E : ~Reaches(E, e[2], e[1])
  PROVE  NoWayBack(Unrolled, E)
<1> SUFFICES ASSUME NEW S \in SUBSET Unrolled, S # {},
                    \A n \in S : Succ(E, n) \cap S # {}
             PROVE  FALSE
  BY Zenon DEF NoWayBack
<1> DEFINE Fam == {C \in SUBSET Unrolled : /\ \A e \in E : e[1] \in C => e[2] \in C
                                          /\ C \cap S # {}}
<1>1. IsFiniteSet(Unrolled)
  BY FS_Interval DEF Unrolled
<1>2. Fam \subseteq FiniteSubsetsOf(Unrolled)
  BY <1>1, FS_Subset, Zenon DEF FiniteSubsetsOf
<1>3. Fam # {}
  <2>1. Unrolled \in Fam
    BY Zenon
  <2> QED
    BY <2>1, Zenon
<1>4. PICK C \in Fam : \A T \in Fam : <<T, C>> \notin StrictSubsetOrdering(Unrolled)
  <2> HIDE DEF Fam
  <2> QED
    BY <1>2, <1>3, FS_StrictSubsetOrderingWellFounded, WFMin, Zenon
<1>5. PICK m \in C : m \in S
  BY Zenon
<1>6. PICK e \in E : e[1] = m /\ e[2] \in S
  BY <1>5, Zenon DEF Succ
<1> DEFINE T == {l \in Unrolled : Reaches(E, e[2], l)}
<1>7. e[2] \in Unrolled /\ e[2] \in C
  BY <1>5, <1>6, Zenon
<1>8. T \subseteq C
  BY <1>7, Zenon DEF Reaches
<1>9. e[2] \in T
  BY <1>7, Zenon DEF Reaches
<1>10. \A d \in E : d[1] \in T => d[2] \in T
  BY Zenon DEF Reaches
<1>11. m \notin T
  BY <1>6, Zenon
<1> HIDE DEF T
<1>12. T \in Fam
  BY <1>6, <1>8, <1>9, <1>10, Zenon
<1>13. <<T, C>> \in StrictSubsetOrdering(Unrolled)
  BY <1>2, <1>5, <1>8, <1>11, <1>12, Zenon DEF StrictSubsetOrdering, FiniteSubsetsOf
<1> QED
  BY <1>4, <1>12, <1>13, Zenon

\* Where no way leads back and every node left that is not the exit leads to a
\* node left, the exit is reached from every node left.
LEMMA LeftReach ==
  ASSUME NEW E, NoWayBack(Unrolled, E),
         NEW D, \A n \in Unrolled \ (D \cup {Exit}) : \E e \in E : e[1] = n /\ e[2] \notin D,
         NEW n \in Unrolled \ D
  PROVE  Reaches(E, n, Exit)
<1> SUFFICES ASSUME NEW R \in SUBSET Unrolled, n \in R, Exit \notin R,
                    \A e \in E : e[1] \in R => e[2] \in R
             PROVE  FALSE
  BY Zenon DEF Reaches
<1>1. R \ D \in SUBSET Unrolled /\ R \ D # {}
  BY Zenon
<1>2. PICK m \in R \ D : Succ(E, m) \cap (R \ D) = {}
  BY <1>1, Zenon DEF NoWayBack
<1>3. PICK e \in E : e[1] = m /\ e[2] \notin D
  BY <1>2, Zenon
<1>4. e[2] \in Succ(E, m) /\ e[2] \in R \ D
  BY <1>3, Zenon DEF Succ
<1> QED
  BY <1>2, <1>4, Zenon

\* What construct() hands to prune satisfies ExactInv.
LEMMA ExactInit == PruneInit => ExactInv
  BY PruneAssumption DEF PruneInit, ExactInv, PrunedExactly, IsCFG, Unrolled, Exit

\* A round of the loop keeps it: only nodes of the worklist are deleted, and
\* the graph that came in stays as it is.
LEMMA ExactPop == PruneInv /\ ExactInv /\ Pop => ExactInv'
<1> SUFFICES ASSUME PruneInv, ExactInv, Pop PROVE ExactInv'
  BY Zenon
<1>1. /\ ppc = "prune" /\ ppc' = "prune" /\ num_refs' = num_refs
      /\ graph' = graph /\ Unrolled' = Unrolled
  BY Zenon DEF Pop, Unrolled
<1>2. todo \subseteq Unrolled
  BY <1>1, Zenon DEF PruneInv
<1>3. deleted' \subseteq Unrolled
  BY <1>1, <1>2 DEF Pop, ExactInv
<1>4. \A n, m : Reaches(graph, n, m)' = Reaches(graph, n, m)
  BY <1>1, Zenon DEF Reaches
<1> QED
  BY <1>1, <1>3, <1>4, Zenon DEF ExactInv, PrunedExactly

\* The nodes that are left and what refmap gives them.
LEMMA RenumberNodes ==
  ASSUME ExactInv, Renumber
  PROVE  LET L == Unrolled \ deleted
         IN  /\ L \in SUBSET Nat /\ IsFiniteSet(L) /\ num_refs' = Cardinality(L)
             /\ num_refs' \in Nat /\ Cardinality(deleted) \in Nat
             /\ num_refs' + Cardinality(deleted) = num_refs
             /\ DOMAIN nodes' = Unrolled'
             /\ \A n \in Unrolled' : nodes'[n] \in L /\ Rank(L, nodes'[n]) = n
             /\ \A r \in L : Rank(L, r) \in Unrolled' /\ nodes'[Rank(L, r)] = r
<1> DEFINE L == Unrolled \ deleted
<1>1. num_refs \in Nat /\ deleted \in SUBSET Unrolled
  BY Zenon DEF ExactInv, Renumber
<1>2. IsFiniteSet(Unrolled) /\ Cardinality(Unrolled) = num_refs
  <2>1. 0 \in Int /\ num_refs - 1 \in Int
    BY <1>1
  <2>2. IsFiniteSet(Unrolled) /\ Cardinality(Unrolled) = IF 0 > num_refs - 1 THEN 0
                                                           ELSE num_refs - 1 - 0 + 1
    BY <2>1, FS_Interval, Zenon DEF Unrolled
  <2> QED
    BY <1>1, <2>2
<1>3. L \in SUBSET Nat
  BY <1>1 DEF Unrolled
<1>4. IsFiniteSet(L) /\ Cardinality(L) = num_refs - Cardinality(deleted)
  <2>1. Unrolled \cap deleted = deleted
    BY <1>1, Zenon
  <2> QED
    BY <1>2, <2>1, FS_Difference
<1>5. Cardinality(deleted) \in Nat /\ Cardinality(L) \in Nat
  BY <1>1, <1>2, <1>4, FS_Subset, FS_CardinalityType, Zenon
<1> HIDE DEF L
<1>6. /\ num_refs' = Cardinality(L) /\ Unrolled' = 0 .. Cardinality(L) - 1
      /\ nodes' = [n \in 0 .. Cardinality(L) - 1 |-> CHOOSE ref \in L : Rank(L, ref) = n]
  BY Zenon DEF Renumber, Unrolled, NewRef, Rank, L
<1>7. num_refs' + Cardinality(deleted) = num_refs
  BY <1>1, <1>4, <1>5, <1>6
<1>8. ASSUME NEW n \in Unrolled' PROVE nodes'[n] \in L /\ Rank(L, nodes'[n]) = n
  <2>1. \E r \in L : Rank(L, r) = n
    BY <1>3, <1>4, <1>6, RankOnto, Zenon
  <2>2. nodes'[n] = CHOOSE ref \in L : Rank(L, ref) = n
    BY <1>6, Zenon
  <2> QED
    BY <2>1, <2>2, Zenon
<1>9. ASSUME NEW r \in L PROVE Rank(L, r) \in Unrolled' /\ nodes'[Rank(L, r)] = r
  <2>1. Rank(L, r) \in Unrolled'
    BY <1>3, <1>4, <1>6, RankBound, Zenon
  <2>2. nodes'[Rank(L, r)] \in L /\ Rank(L, nodes'[Rank(L, r)]) = Rank(L, r)
    BY <1>8, <2>1, Zenon
  <2>3. \A a, b \in L : Rank(L, a) = Rank(L, b) => a = b
    BY <1>3, <1>4, RankUnique, Zenon
  <2> QED
    BY <2>1, <2>2, <2>3, Zenon
<1>10. DOMAIN nodes' = Unrolled'
  BY <1>6, Zenon
<1> QED
  BY <1>3, <1>4, <1>5, <1>6, <1>7, <1>8, <1>9, <1>10, Zenon DEF L

\* Renumbering establishes PrunedExactly: the nodes left are those that reach
\* the exit, and refmap numbers them in their order (cfg.cc:78-106).
LEMMA RenumberExact == PruneInv /\ ExactInv /\ Renumber => PrunedExactly'
<1> SUFFICES ASSUME PruneInv, ExactInv, Renumber PROVE PrunedExactly'
  BY Zenon
<1> DEFINE L == Unrolled \ deleted
<1>1. /\ L \in SUBSET Nat /\ IsFiniteSet(L)
      /\ num_refs' \in Nat /\ Cardinality(deleted) \in Nat
      /\ num_refs' + Cardinality(deleted) = num_refs
      /\ DOMAIN nodes' = Unrolled'
      /\ \A n \in Unrolled' : nodes'[n] \in L /\ Rank(L, nodes'[n]) = n
      /\ \A r \in L : Rank(L, r) \in Unrolled' /\ nodes'[Rank(L, r)] = r
  BY RenumberNodes, Zenon
<1>2. /\ graph' = graph /\ deleted' = deleted /\ ppc = "prune" /\ todo = {}
      /\ po' = {<<Rank(L, e[1]), Rank(L, e[2])>> : e \in po}
  BY Zenon DEF Renumber, NewRef, Rank
<1>3. /\ Exit \notin deleted
      /\ \A e \in graph : e[1] \in deleted => e[2] \in deleted
      /\ graph \subseteq Unrolled \X Unrolled
      /\ po = {e \in graph : e[1] \notin deleted /\ e[2] \notin deleted}
      /\ \A n \in Unrolled \ (deleted \cup {Exit}) :
           \E e \in graph : e[1] = n /\ e[2] \notin deleted
  BY <1>2, Zenon DEF PruneInv
<1>4. /\ num_refs \in Nat /\ deleted \subseteq Unrolled
      /\ \A e \in graph : ~Reaches(graph, e[2], e[1])
  BY <1>2, Zenon DEF ExactInv
<1>5. ASSUME NEW old \in DOMAIN nodes', NEW new \in DOMAIN nodes', old < new
      PROVE  nodes'[old] < nodes'[new]
  <2>1. /\ nodes'[old] \in L /\ Rank(L, nodes'[old]) = old
        /\ nodes'[new] \in L /\ Rank(L, nodes'[new]) = new
    BY <1>1, Zenon
  <2>2. ~(nodes'[new] < nodes'[old])
    <3> SUFFICES ASSUME nodes'[new] < nodes'[old] PROVE FALSE
      BY Zenon
    <3>1. new < old
      BY <1>1, <2>1, RankLess
    <3>2. old \in Int /\ new \in Int
      BY <1>1, <2>1, RankBound
    <3> QED
      BY <1>5, <3>1, <3>2
  <2>3. nodes'[old] # nodes'[new]
    <3>1. old \in Int /\ new \in Int
      BY <1>1, <2>1, RankBound
    <3> QED
      BY <1>5, <2>1, <3>1
  <2>4. nodes'[old] \in Nat /\ nodes'[new] \in Nat
    BY <1>1, <2>1, Zenon
  <2> QED
    BY <2>2, <2>3, <2>4
<1>6. Left' = L
  <2> HIDE DEF L
  <2> QED
    BY <1>1, Zenon DEF Left
<1>7. OldNode' = Unrolled
  <2>1. /\ num_refs' \in Nat /\ Cardinality(deleted) \in Nat
        /\ num_refs' + Cardinality(deleted) = num_refs
    BY <1>1, Zenon
  <2>2. num_refs' + (Cardinality(deleted) - 1) = num_refs - 1
    BY <2>1
  <2> QED
    BY <1>2, <2>2, Zenon DEF OldNode, Unrolled
<1>8. L = {n \in Unrolled : Reaches(graph, n, Exit)}
  <2>1. ASSUME NEW n \in L PROVE Reaches(graph, n, Exit)
    <3>1. NoWayBack(Unrolled, graph)
      BY <1>3, <1>4, ReachesNoWayBack, Zenon
    <3> QED
      BY <1>3, <3>1, LeftReach, Zenon
  <2>2. ASSUME NEW n \in deleted PROVE ~Reaches(graph, n, Exit)
    BY <1>3, <1>4, Zenon DEF Reaches
  <2> QED
    BY <2>1, <2>2, Zenon
<1>9. {<<nodes'[e[1]], nodes'[e[2]]>> : e \in po'} =
        {e \in graph : e[1] \in L /\ e[2] \in L}
  <2>1. po = {e \in graph : e[1] \in L /\ e[2] \in L}
    BY <1>3, Zenon
  <2>2. \A e \in po : e = <<e[1], e[2]>>
    BY <1>3
  <2> HIDE DEF L
  <2>3. \A e \in po : /\ nodes'[Rank(L, e[1])] = e[1]
                      /\ nodes'[Rank(L, e[2])] = e[2]
    BY <1>1, <2>1, Zenon
  <2>4. ASSUME NEW e \in po
        PROVE  \E d \in po' : e = <<nodes'[d[1]], nodes'[d[2]]>>
    <3>1. <<Rank(L, e[1]), Rank(L, e[2])>> \in po'
      BY <1>2, Zenon
    <3> QED
      BY <2>2, <2>3, <3>1, Zenon
  <2>5. ASSUME NEW d \in po'
        PROVE  <<nodes'[d[1]], nodes'[d[2]]>> \in po
    <3>1. PICK e \in po : d = <<Rank(L, e[1]), Rank(L, e[2])>>
      BY <1>2, Zenon
    <3>2. d[1] = Rank(L, e[1]) /\ d[2] = Rank(L, e[2])
      BY <3>1, Zenon
    <3>3. <<nodes'[d[1]], nodes'[d[2]]>> = <<e[1], e[2]>>
      BY <2>3, <3>2, Zenon
    <3> QED
      BY <2>2, <3>3, Zenon
  <2>6. {<<nodes'[e[1]], nodes'[e[2]]>> : e \in po'} = po
    BY <2>4, <2>5, Zenon
  <2> QED
    BY <2>1, <2>6, Zenon
<1>10. OldNode' = Unrolled /\ \A n : ToExit(n)' = Reaches(graph, n, Exit)
  BY <1>2, <1>7, Zenon DEF ToExit, Reaches
<1> QED
  BY <1>2, <1>5, <1>6, <1>8, <1>9, <1>10, Zenon DEF PrunedExactly

\* Every step of prune keeps ExactInv.
LEMMA ExactStep == PruneInv /\ ExactInv /\ [PruneNext]_pruneVars => ExactInv'
<1> SUFFICES ASSUME PruneInv, ExactInv, [PruneNext]_pruneVars PROVE ExactInv'
  BY Zenon
<1>1. CASE Pop
  BY <1>1, ExactPop, Zenon
<1>2. CASE Renumber
  <2>1. ppc' = "done"
    BY <1>2, Zenon DEF Renumber
  <2>2. PrunedExactly'
    BY <1>2, RenumberExact, Zenon
  <2> QED
    BY <2>1, <2>2, Zenon DEF ExactInv
<1>3. CASE UNCHANGED pruneVars
  <2>1. /\ num_refs' = num_refs /\ graph' = graph /\ po' = po
        /\ deleted' = deleted /\ nodes' = nodes /\ ppc' = ppc
    BY <1>3, Zenon DEF pruneVars
  <2>2. Unrolled' = Unrolled
    BY <2>1, Zenon DEF Unrolled
  <2>3. OldNode' = OldNode /\ Left' = Left /\ \A n : ToExit(n)' = ToExit(n)
    BY <2>1, <2>2, Zenon DEF OldNode, Left, ToExit
  <2>5. PrunedExactly'
    BY <2>1, <2>3 DEF ExactInv, PrunedExactly
  <2>4. \A n, m : Reaches(graph, n, m)' = Reaches(graph, n, m)
    BY <2>1, <2>2, Zenon DEF Reaches
  <2> QED
    BY <2>1, <2>2, <2>4, <2>5, Zenon DEF ExactInv
<1> QED
  BY <1>1, <1>2, <1>3, Zenon DEF PruneNext

\* prune keeps exactly the nodes that reach the exit, with their edges and in
\* their order, for every graph and worklist order (cfg.cc:49-108).
THEOREM PrunePrunedExactly == PruneSpec => []PrunedExactly
<1>1. ExactInv => PrunedExactly
  BY Zenon DEF ExactInv
<1> QED
  BY <1>1, ExactInit, ExactStep, PruneInvariant, PTL DEF PruneSpec

-----------------------------------------------------------------------------
(* resolve_refs. *)

\* Nothing has been begun (expanded.cc:148-155).
LEMMA RefsInitInv == RefsInit => MapInv
  BY DEF RefsInit, RefsIdle, MapInv

\* A node is begun: none of its predecessors has been given away, since this
\* successor of theirs was not done (expanded.cc:157-161).
LEMMA RefsBeginInv == MapInv /\ Begin => MapInv'
<1> SUFFICES ASSUME MapInv, Begin PROVE MapInv'
  BY Zenon
<1>1. cur \in Nat /\ done = 0 .. cur - 1 /\ done' = 0 .. cur /\ cur' = cur
  BY DEF MapInv, Begin
<1>2. preds' \subseteq 0 .. cur - 1
  BY <1>1 DEF MapInv, EdgesAscend, Begin, Pred
<1>3. ASSUME NEW n \in done' \ live'
      PROVE  Succ(epo, n)' \subseteq done' /\ n \notin preds'
  <2>1. n \in done \ live
    BY <1>1, <1>3, Zenon DEF Begin
  <2>2. Succ(epo, n) \subseteq done
    BY <2>1, Zenon DEF MapInv
  <2>3. cur \notin Succ(epo, n)
    BY <1>1, <2>2, Zenon DEF Begin
  <2> QED
    BY <1>1, <2>2, <2>3, Zenon DEF Begin, graphVars, Succ, Pred
<1> QED
  BY <1>1, <1>2, <1>3, Zenon DEF MapInv, Begin, graphVars

\* A predecessor is merged; it is given away only when all its successors are
\* done, and is then no longer to be merged (expanded.cc:162-181).
LEMMA RefsMergeInv == MapInv /\ MergePred => MapInv'
<1> SUFFICES ASSUME MapInv, MergePred PROVE MapInv'
  BY Zenon
<1>1. PICK p \in preds :
        /\ preds' = preds \ {p}
        /\ live' = IF PredDone(p) THEN live \ {p} ELSE live
        /\ epo' = epo /\ size' = size /\ done' = done /\ cur' = cur
  BY Zenon DEF MergePred, graphVars
<1>2. \A n \in done' \ live' : Succ(epo, n)' \subseteq done' /\ n \notin preds'
  BY <1>1 DEF MapInv, PredDone, Succ
<1> QED
  BY <1>1, <1>2, Zenon DEF MapInv

\* Every step of resolve_refs keeps it.
LEMMA RefsStepInv == MapInv /\ [RefsNext]_refsVars => MapInv'
<1> SUFFICES ASSUME MapInv, [RefsNext]_refsVars PROVE MapInv'
  BY Zenon
<1>1. CASE Begin
  BY <1>1, RefsBeginInv, Zenon
<1>2. CASE MergePred
  BY <1>2, RefsMergeInv, Zenon
<1>3. CASE Resolve
  BY <1>3 DEF MapInv, Resolve, graphVars
<1>4. CASE UNCHANGED refsVars
  BY <1>4, Zenon DEF MapInv, refsVars, graphVars, Succ
<1> QED
  BY <1>1, <1>2, <1>3, <1>4, Zenon DEF RefsNext

\* MapInv holds throughout.
THEOREM RefsInvariant == RefsSpec => []MapInv
  BY RefsInitInv, RefsStepInv, PTL DEF RefsSpec

\* The map of a predecessor that is still to be merged has not been given away:
\* resolve_refs dereferences no empty optional, for every graph.
THEOREM RefsNoUseAfterMove == RefsSpec => []NoUseAfterMove
<1>1. MapInv => NoUseAfterMove
  BY DEF MapInv, NoUseAfterMove
<1> QED
  BY <1>1, RefsInvariant, PTL

\* The nodes on some way to n, as a least closed set: the recursive function
\* Ancestors is defined because these sets satisfy its equation.
Closed(S) == \A e \in epo : e[2] \in S => e[1] \in S
Anc(n) == {m \in Nat : \A S \in SUBSET Nat : n \in S /\ Closed(S) => m \in S}

\* The least closed sets satisfy the equation of Ancestors.
LEMMA AncFix ==
  ASSUME epo \subseteq Nat \X Nat, NEW n \in Nat
  PROVE  Anc(n) = {n} \cup UNION {Anc(m) : m \in Pred(epo, n)}
<1> DEFINE U == {n} \cup UNION {Anc(m) : m \in Pred(epo, n)}
<1>1. \A m \in Nat : Anc(m) \in SUBSET Nat /\ m \in Anc(m) /\ Closed(Anc(m))
  BY Zenon DEF Anc, Closed
<1>2. Pred(epo, n) \subseteq Nat
  BY Zenon DEF Pred
<1>3. ASSUME NEW m \in Pred(epo, n) PROVE Anc(m) \subseteq Anc(n)
  BY <1>3, <1>2, Zenon DEF Anc, Closed, Pred
<1>4. U \in SUBSET Nat /\ n \in U
  BY <1>1, <1>2, Zenon
<1>5. Closed(U)
  <2> SUFFICES ASSUME NEW e \in epo, e[2] \in U PROVE e[1] \in U
    BY Zenon DEF Closed
  <2>1. CASE e[2] = n
    <3>1. e[1] \in Pred(epo, n)
      BY <2>1, Zenon DEF Pred
    <3> QED BY <3>1, <1>1, <1>2, Zenon
  <2>2. CASE e[2] # n
    <3>1. PICK m \in Pred(epo, n) : e[2] \in Anc(m)
      BY <2>2, Zenon
    <3>2. e[1] \in Anc(m)
      BY <3>1, <1>1, <1>2, Zenon DEF Closed
    <3> QED BY <3>2, Zenon
  <2> QED BY <2>1, <2>2, Zenon
<1>6. Anc(n) \subseteq U
  BY <1>4, <1>5, Zenon DEF Anc
<1>7. U \subseteq Anc(n)
  BY <1>1, <1>3, Zenon
<1> QED BY <1>6, <1>7, Zenon

\* So the function Ancestors satisfies its equation, whatever the graph.
LEMMA AncestorsFix ==
  ASSUME NEW F, F = [n \in Nat |-> {n} \cup UNION {F[m] : m \in Pred(epo, n)}]
  PROVE  Ancestors = [n \in Nat |-> {n} \cup UNION {Ancestors[m] : m \in Pred(epo, n)}]
  BY Zenon DEF Ancestors

\* The equation node by node.
LEMMA AncestorsEquation ==
  ASSUME epo \subseteq Nat \X Nat, NEW n \in Nat
  PROVE  Ancestors[n] = {n} \cup UNION {Ancestors[m] : m \in Pred(epo, n)}
<1> DEFINE F == [m \in Nat |-> Anc(m)]
<1>1. \A m \in Nat : Pred(epo, m) \subseteq Nat
  BY Zenon DEF Pred
<1>2. ASSUME NEW m \in Nat PROVE Anc(m) = {m} \cup UNION {F[l] : l \in Pred(epo, m)}
  <2>1. Anc(m) = {m} \cup UNION {Anc(l) : l \in Pred(epo, m)}
    BY AncFix, Zenon
  <2>2. \A l \in Pred(epo, m) : F[l] = Anc(l)
    BY <1>1, Zenon
  <2> HIDE DEF F
  <2>3. {F[l] : l \in Pred(epo, m)} = {Anc(l) : l \in Pred(epo, m)}
    BY <2>2, Zenon
  <2> QED BY <2>1, <2>3, Zenon
<1>3. F = [m \in Nat |-> {m} \cup UNION {F[l] : l \in Pred(epo, m)}]
  BY <1>2, Zenon
<1> HIDE DEF F
<1> QED BY <1>3, AncestorsFix

\* resolve_refs changes no edge, so the ancestors stay.
LEMMA AncestorsSame == ASSUME epo' = epo PROVE Ancestors' = Ancestors
  BY Zenon DEF Ancestors, Pred

\* Nor does it change a key, so the definitions stay.
LEMMA DefinitionsSame ==
  ASSUME epo' = epo, key' = key, NEW n, NEW k
  PROVE  Definitions(n, k)' = Definitions(n, k)
  BY AncestorsSame, Zenon DEF Definitions

\* What is defined on some way to a node: its own key, and what is defined on
\* some way to a predecessor.
LEMMA DefinitionsEquation ==
  ASSUME epo \subseteq Nat \X Nat, NEW n \in Nat, NEW k
  PROVE  /\ Definitions(n, k) \subseteq
              {n} \cup UNION {Definitions(m, k) : m \in Pred(epo, n)}
         /\ UNION {Definitions(m, k) : m \in Pred(epo, n)} \subseteq Definitions(n, k)
         /\ n \in DOMAIN key /\ key[n] = k => n \in Definitions(n, k)
         /\ n \in Definitions(n, k) => n \in DOMAIN key /\ key[n] = k
<1>1. Ancestors[n] = {n} \cup UNION {Ancestors[m] : m \in Pred(epo, n)}
  BY AncestorsEquation, Zenon
<1> QED BY <1>1 DEF Definitions

\* Before the first node no map has anything.
LEMMA BindInit == RefsInit => BindInv
<1> SUFFICES ASSUME RefsInit PROVE BindInv
  BY Zenon
<1>1. DOMAIN maps = {} /\ DOMAIN refs = {} /\ 0 .. cur - 1 = {} /\ done = {}
  BY DEF RefsInit, RefsIdle
<1> QED BY <1>1, Zenon DEF RefsInit, BindInv

\* A node begins with the empty map, and with none of its predecessors merged
\* (expanded.cc:157-161).
LEMMA BindBegin == MapInv /\ BindInv /\ Begin => BindInv'
<1> SUFFICES ASSUME MapInv, BindInv, Begin PROVE BindInv'
  BY Zenon
<1>1. cur \in Nat /\ done = 0 .. cur - 1 /\ done' = 0 .. cur /\ cur' = cur /\ cur \notin 0 .. cur - 1
  BY DEF MapInv, Begin
<1>2. epo' = epo /\ key' = key /\ size' = size /\ refs' = refs /\ preds' = Pred(epo, cur)
  BY Zenon DEF Begin, graphVars
<1>3. \A n, k : Definitions(n, k)' = Definitions(n, k)
  BY <1>2, DefinitionsSame, Zenon
<1>4. /\ DOMAIN maps' = 0 .. cur /\ maps'[cur] = Empty
      /\ \A n \in 0 .. cur - 1 : maps'[n] = maps[n]
  BY <1>1, Zenon DEF Begin
<1>5. \A k \in Key : Incoming(cur, k)' = {}
  BY <1>1, <1>2, Zenon DEF Incoming
<1>6. \A n \in done' : DOMAIN maps'[n] = Key
  BY <1>1, <1>4 DEF BindInv, Empty
<1>7. \A k \in Key : maps'[cur][k] = {}
  BY <1>4, Zenon DEF Empty
<1>8. (DOMAIN key \subseteq ExpNode /\ \A n \in DOMAIN key : key[n] \in Key)'
  BY <1>2, Zenon DEF BindInv, ExpNode
<1>9. (DOMAIN refs = 0 .. cur - 1 /\ \A n \in 0 .. cur - 1 : refs[n] = maps[n])'
  BY <1>1, <1>2, <1>4, Zenon DEF BindInv
<1>10. (\A n \in 0 .. cur - 1 : \A k \in Key :
         /\ maps[n][k] \subseteq Definitions(n, k)
         /\ maps[n][k] = {} => Definitions(n, k) = {})'
  BY <1>1, <1>3, <1>4, Zenon DEF BindInv
<1> QED
  BY <1>1, <1>2, <1>4, <1>5, <1>6, <1>7, <1>8, <1>9, <1>10, Zenon DEF BindInv

\* The three ways to merge a predecessor (taking over, moving the keys that are
\* not there yet, uniting) lose no key and invent no definition
\* (expanded.cc:162-181).
LEMMA BindMerge == MapInv /\ BindInv /\ MergePred => BindInv'
<1> SUFFICES ASSUME MapInv, BindInv, MergePred PROVE BindInv'
  BY Zenon
<1>1. PICK p \in preds :
        /\ preds' = preds \ {p}
        /\ maps' = [maps EXCEPT
                      ![cur] = IF @ = Empty THEN maps[p]
                               ELSE IF PredDone(p) THEN Merge(@, maps[p])
                               ELSE Union(@, maps[p])]
  BY Zenon DEF MergePred
<1>2. epo' = epo /\ key' = key /\ size' = size /\ refs' = refs /\ done' = done /\ cur' = cur
  BY Zenon DEF MergePred, graphVars
<1>3. \A n, k : Definitions(n, k)' = Definitions(n, k)
  BY <1>2, DefinitionsSame, Zenon
<1>4. /\ cur \in Nat /\ cur \in done /\ p \in 0 .. cur - 1 /\ 0 .. cur - 1 \subseteq done
      /\ p \in Pred(epo, cur) /\ cur \notin 0 .. cur - 1
  BY <1>1 DEF MapInv, BindInv
<1>5. /\ DOMAIN maps' = done
      /\ \A n \in done \ {cur} : maps'[n] = maps[n]
      /\ \/ maps'[cur] \in {Merge(maps[cur], maps[p]), Union(maps[cur], maps[p])}
         \/ maps[cur] = Empty /\ maps'[cur] = maps[p]
  BY <1>1, <1>4, Zenon DEF BindInv
<1>6. ASSUME NEW k \in Key
      PROVE  /\ maps'[cur][k] \subseteq Incoming(cur, k)'
             /\ maps'[cur][k] = {} => Incoming(cur, k)' = {}
  <2>1. /\ maps'[cur][k] \subseteq maps[cur][k] \cup maps[p][k]
        /\ maps'[cur][k] = {} => maps[cur][k] = {} /\ maps[p][k] = {}
    BY <1>5, Zenon DEF Merge, Union, Empty
  <2>2. Incoming(cur, k)' = Incoming(cur, k) \cup Definitions(p, k)
    BY <1>1, <1>2, <1>3, <1>4, Zenon DEF Incoming
  <2>3. /\ maps[cur][k] \subseteq Incoming(cur, k) /\ (maps[cur][k] = {} => Incoming(cur, k) = {})
        /\ maps[p][k] \subseteq Definitions(p, k) /\ (maps[p][k] = {} => Definitions(p, k) = {})
    BY <1>4, Zenon DEF BindInv
  <2> QED BY <2>1, <2>2, <2>3, Zenon
<1>7. \A n \in done' : DOMAIN maps'[n] = Key
  BY <1>2, <1>4, <1>5 DEF BindInv, Merge, Union
<1>8. (DOMAIN key \subseteq ExpNode /\ \A n \in DOMAIN key : key[n] \in Key)'
  BY <1>2, Zenon DEF BindInv, ExpNode
<1>9. (DOMAIN refs = 0 .. cur - 1 /\ \A n \in 0 .. cur - 1 : refs[n] = maps[n])'
  BY <1>2, <1>4, <1>5, Zenon DEF BindInv
<1>10. (\A n \in 0 .. cur - 1 : \A k \in Key :
         /\ maps[n][k] \subseteq Definitions(n, k)
         /\ maps[n][k] = {} => Definitions(n, k) = {})'
  BY <1>2, <1>3, <1>4, <1>5, Zenon DEF BindInv
<1>11. (cur \in done => preds \subseteq Pred(epo, cur))'
  BY <1>1, <1>2, Zenon DEF BindInv
<1> QED
  BY <1>2, <1>5, <1>6, <1>7, <1>8, <1>9, <1>10, <1>11, Zenon DEF BindInv

\* When all predecessors are merged, the node adds its own definition, and its
\* map is right for its successors (expanded.cc:183-194).
LEMMA BindResolve == MapInv /\ BindInv /\ Resolve => BindInv'
<1> SUFFICES ASSUME MapInv, BindInv, Resolve PROVE BindInv'
  BY Zenon
<1>1. epo' = epo /\ key' = key /\ size' = size /\ done' = done /\ preds' = {} /\ cur' = cur + 1
  BY Zenon DEF Resolve, graphVars
<1>2. \A n, k : Definitions(n, k)' = Definitions(n, k)
  BY <1>1, DefinitionsSame, Zenon
<1>3. /\ cur \in Nat /\ cur \in done /\ done = 0 .. cur /\ preds = {}
      /\ 0 .. cur' - 1 = 0 .. cur /\ cur' \notin done /\ epo \subseteq Nat \X Nat
  BY <1>1 DEF MapInv, Resolve, EdgesAscend
<1>4. /\ DOMAIN maps' = done /\ maps'[cur] = Bound(cur)
      /\ \A n \in done \ {cur} : maps'[n] = maps[n]
      /\ DOMAIN refs' = done /\ refs'[cur] = Bound(cur)
      /\ \A n \in done \ {cur} : refs'[n] = refs[n]
  BY <1>3, Zenon DEF Resolve, BindInv
<1>5. DOMAIN Bound(cur) = Key
  BY <1>3, Zenon DEF Bound, BindInv
<1>6. ASSUME NEW k \in Key
      PROVE  /\ Bound(cur)[k] \subseteq Definitions(cur, k)
             /\ Bound(cur)[k] = {} => Definitions(cur, k) = {}
  <2> DEFINE In == UNION {Definitions(m, k) : m \in Pred(epo, cur)}
  <2>1. maps[cur][k] \subseteq In /\ (maps[cur][k] = {} => In = {})
    BY <1>3 DEF BindInv, Incoming
  <2>2. /\ Definitions(cur, k) \subseteq {cur} \cup In /\ In \subseteq Definitions(cur, k)
        /\ cur \in DOMAIN key /\ key[cur] = k => cur \in Definitions(cur, k)
        /\ cur \in Definitions(cur, k) => cur \in DOMAIN key /\ key[cur] = k
    BY <1>3, DefinitionsEquation, Zenon
  <2>3. Bound(cur)[k] = IF cur \in DOMAIN key /\ key[cur] = k
                          THEN maps[cur][k] \cup {cur} ELSE maps[cur][k]
    BY <1>3, Zenon DEF Bound, BindInv
  <2> HIDE DEF In
  <2> QED BY <2>1, <2>2, <2>3, Zenon
<1>7. \A n \in done' : DOMAIN maps'[n] = Key
  BY <1>1, <1>4, <1>5, Zenon DEF BindInv
<1>8. (DOMAIN key \subseteq ExpNode /\ \A n \in DOMAIN key : key[n] \in Key)'
  BY <1>1, Zenon DEF BindInv, ExpNode
<1>a. \A n \in done \ {cur} : n \in 0 .. cur - 1
  BY <1>3
<1>b. \A n \in done \ {cur} :
        /\ refs[n] = maps[n]
        /\ \A k \in Key : /\ maps[n][k] \subseteq Definitions(n, k)
                          /\ maps[n][k] = {} => Definitions(n, k) = {}
  BY <1>a, Zenon DEF BindInv
<1>c. (0 .. cur - 1)' = done
  BY <1>3, Zenon
<1>10. (DOMAIN refs = 0 .. cur - 1 /\ \A n \in 0 .. cur - 1 : refs[n] = maps[n])'
  <2>1. \A n \in done : refs'[n] = maps'[n]
    BY <1>4, <1>b, Zenon
  <2> QED BY <2>1, <1>4, <1>c, Zenon
<1>11. (\A n \in 0 .. cur - 1 : \A k \in Key :
         /\ maps[n][k] \subseteq Definitions(n, k)
         /\ maps[n][k] = {} => Definitions(n, k) = {})'
  <2>1. \A n \in done : \A k \in Key : /\ maps'[n][k] \subseteq Definitions(n, k)
                                       /\ maps'[n][k] = {} => Definitions(n, k) = {}
    <3> SUFFICES ASSUME NEW n \in done, NEW k \in Key
                 PROVE  /\ maps'[n][k] \subseteq Definitions(n, k)
                        /\ maps'[n][k] = {} => Definitions(n, k) = {}
      BY Zenon
    <3>1. CASE n = cur
      BY <3>1, <1>4, <1>6, Zenon
    <3>2. CASE n # cur
      <4>1. maps'[n] = maps[n]
        BY <3>2, <1>4, Zenon
      <4> QED BY <3>2, <4>1, <1>b, Zenon
    <3> QED BY <3>1, <3>2, Zenon
  <2> QED BY <2>1, <1>2, <1>c, Zenon
<1> QED
  BY <1>1, <1>3, <1>4, <1>7, <1>8, <1>10, <1>11, Zenon DEF BindInv

\* A step that changes nothing keeps BindInv.
LEMMA BindSame == BindInv /\ UNCHANGED refsVars => BindInv'
<1> SUFFICES ASSUME BindInv, UNCHANGED refsVars PROVE BindInv'
  BY Zenon
<1>1. /\ epo' = epo /\ key' = key /\ size' = size /\ maps' = maps
      /\ done' = done /\ preds' = preds /\ cur' = cur /\ refs' = refs
  BY Zenon DEF refsVars, graphVars
<1>2. \A n, k : Definitions(n, k)' = Definitions(n, k)
  BY <1>1, DefinitionsSame, Zenon
<1>3. \A k : Incoming(cur, k)' = Incoming(cur, k)
  BY <1>1, <1>2, Zenon DEF Incoming
<1> QED BY <1>1, <1>2, <1>3 DEF BindInv, ExpNode

\* Every step of resolve_refs keeps it.
LEMMA BindStep == MapInv /\ BindInv /\ [RefsNext]_refsVars => BindInv'
  BY BindBegin, BindMerge, BindResolve, BindSame, Zenon DEF RefsNext

\* BindInv holds throughout.
THEOREM RefsBindInvariant == RefsSpec => []BindInv
  BY BindInit, BindStep, RefsInvariant, PTL DEF RefsSpec

\* AlwaysBound for every sorted graph and every assignment of keys: the lookup
\* in resolve_single_ref finds the key whenever some way to the node defines it.
THEOREM RefsAlwaysBound == RefsSpec => []AlwaysBound
<1>1. BindInv => AlwaysBound
  BY Zenon DEF BindInv, AlwaysBound
<1> QED
  BY <1>1, RefsBindInvariant, PTL

\* What BindInv says of the references: a key that only one node defines is
\* bound to all its definitions.
LEMMA BindInvBound == BindInv => BoundToAncestors
<1> SUFFICES ASSUME BindInv PROVE BoundToAncestors
  BY Zenon
<1>1. \A n \in DOMAIN refs : \A k \in Key : /\ refs[n][k] \subseteq Definitions(n, k)
                                            /\ refs[n][k] = {} => Definitions(n, k) = {}
  BY Zenon DEF BindInv
<1>2. ASSUME \A m, n \in DOMAIN key : key[m] = key[n] => m = n
      PROVE  MergesIncoming
  <2> SUFFICES ASSUME NEW n \in DOMAIN refs, NEW k \in Key
               PROVE  refs[n][k] = Definitions(n, k)
    BY Zenon DEF MergesIncoming
  <2>1. \A l, m \in Definitions(n, k) : l = m
    BY <1>2, Zenon DEF Definitions
  <2>2. CASE refs[n][k] = {}
    BY <1>1, <2>2, Zenon
  <2>3. CASE refs[n][k] # {}
    BY <1>1, <2>1, <2>3, Zenon
  <2> QED
    BY <2>2, <2>3, Zenon
<1> QED
  BY <1>1, <1>2, Zenon DEF BoundToAncestors

\* BoundToAncestors for every sorted graph and every assignment of keys: no
\* operand is bound to a node that does not come before it (expanded.cc:161-194).
THEOREM RefsBoundToAncestors == RefsSpec => []BoundToAncestors
  BY BindInvBound, RefsBindInvariant, PTL

-----------------------------------------------------------------------------
(* The pipeline.  PipelineInv is inductive: each stage hands to the next one *)
(* what the invariant of the next one needs to begin with.                   *)

\* The initial state of the pipeline satisfies the invariant.
LEMMA PipelineInit == Init => PipelineInv
<1> SUFFICES ASSUME Init PROVE PipelineInv
  BY Zenon
<1>1. PruneInit /\ SortInit /\ size = 0 /\ epo = {} /\ key = <<>> /\ RefsIdle
  BY Zenon DEF Init
<1>2. RefsInit
  BY <1>1 DEF RefsInit, EdgesAscend, ExpNode
<1>3. PruneInv /\ ExactInv /\ SortInv /\ MapInv /\ BindInv
  BY <1>1, <1>2, PruneInitInv, ExactInit, SortInitInv, RefsInitInv, BindInit, Zenon
<1>4. ppc = "prune" /\ spc = "calls"
  BY <1>1, Zenon DEF PruneInit, SortInit
<1> QED
  BY <1>1, <1>3, <1>4, Zenon DEF PipelineInv

\* What prune hands to CFG_Calls: edges between its nodes, and no way back,
\* because the new numbers lead into the old graph (cfg.cc:78-106).
LEMMA RenumberGraph ==
  ASSUME PruneInv, ExactInv, Renumber
  PROVE  num_refs' \in Nat /\ po' \subseteq Unrolled' \X Unrolled' /\ NoWayBack(Unrolled', po')
<1> DEFINE L == Unrolled \ deleted
<1>1. /\ num_refs' \in Nat
      /\ \A n \in Unrolled' : nodes'[n] \in L
      /\ \A r \in L : Rank(L, r) \in Unrolled' /\ nodes'[Rank(L, r)] = r
  BY RenumberNodes, Zenon
<1>2. ppc = "prune" /\ po' = {<<Rank(L, e[1]), Rank(L, e[2])>> : e \in po}
  BY Zenon DEF Renumber, NewRef, Rank
<1>3. /\ graph \subseteq Unrolled \X Unrolled
      /\ po = {e \in graph : e[1] \notin deleted /\ e[2] \notin deleted}
  BY <1>2, Zenon DEF PruneInv
<1>4. NoWayBack(Unrolled, graph)
  <2>1. num_refs \in Nat /\ \A e \in graph : ~Reaches(graph, e[2], e[1])
    BY <1>2, Zenon DEF ExactInv
  <2> QED
    BY <1>3, <2>1, ReachesNoWayBack, Zenon
<1>5. \A e \in po : e[1] \in L /\ e[2] \in L /\ <<e[1], e[2]>> \in graph
  BY <1>3
<1>6. L \subseteq Unrolled
  BY Zenon
<1> HIDE DEF L
<1>7. ASSUME NEW d \in po'
      PROVE  d \in Unrolled' \X Unrolled' /\ <<nodes'[d[1]], nodes'[d[2]]>> \in graph
  <2>1. PICK e \in po : d = <<Rank(L, e[1]), Rank(L, e[2])>>
    BY <1>2, Zenon
  <2>2. d[1] = Rank(L, e[1]) /\ d[2] = Rank(L, e[2])
    BY <2>1, Zenon
  <2> QED
    BY <1>1, <1>5, <2>1, <2>2, Zenon
<1>8. NoWayBack(Unrolled', po')
  BY <1>1, <1>4, <1>6, <1>7, NoWayBackImage, Zenon
<1> QED
  BY <1>1, <1>7, <1>8, Zenon

\* A step of prune keeps it.
LEMMA PipelinePrune ==
  PipelineInv /\ PruneNext /\ UNCHANGED <<sortVars, refsVars>> => PipelineInv'
<1> SUFFICES ASSUME PipelineInv, PruneNext, UNCHANGED <<sortVars, refsVars>>
             PROVE  PipelineInv'
  BY Zenon
<1>1. ppc = "prune" /\ ppc' \in {"prune", "done"}
  BY Zenon DEF PruneNext, Pop, Renumber
<1>2. spc = "calls" /\ PruneInv /\ ExactInv /\ SortInv /\ MapInv /\ BindInv
  BY <1>1, Zenon DEF PipelineInv
<1>3. PruneInv' /\ ExactInv'
  BY <1>2, PruneStepInv, ExactStep, Zenon
<1>4. SortInv' /\ MapInv' /\ BindInv'
  BY <1>2, SortSameInv, RefsStepInv, BindStep, Zenon
<1>5. ppc' = "done" =>
        num_refs' \in Nat /\ po' \subseteq Unrolled' \X Unrolled' /\ NoWayBack(Unrolled', po')
  <2>1. CASE Pop
    BY <1>1, <2>1, Zenon DEF Pop
  <2>2. CASE Renumber
    BY <1>2, <2>2, RenumberGraph, Zenon
  <2> QED
    BY <2>1, <2>2, Zenon DEF PruneNext
<1>6. spc' = "calls" /\ (size = 0 /\ epo = {} /\ key = <<>> /\ RefsIdle)'
  BY <1>2, Zenon DEF PipelineInv, RefsIdle, sortVars, refsVars, graphVars
<1> QED
  BY <1>1, <1>3, <1>4, <1>5, <1>6, Zenon DEF PipelineInv

\* CFG_Calls is made of a graph without a way back, as sort needs it.
LEMMA PipelineCalls == PipelineInv /\ ConstructCalls => PipelineInv'
<1> SUFFICES ASSUME PipelineInv, ConstructCalls PROVE PipelineInv'
  BY Zenon
<1>1. ppc = "done" /\ ppc' = "used" /\ UNCHANGED refsVars
  BY Zenon DEF ConstructCalls
<1>2. /\ spc = "calls" /\ SortInv /\ MapInv /\ BindInv
      /\ num_refs \in Nat /\ po \in SUBSET (Unrolled \X Unrolled) /\ NoWayBack(Unrolled, po)
  BY <1>1, Zenon DEF PipelineInv
<1>3. PICK a \in [Unrolled -> Args] : Calls(num_refs, po, a)
  BY Zenon DEF ConstructCalls
<1>4. SortCalls
  BY <1>2, <1>3, Zenon DEF SortCalls, Unrolled
<1>5. SortInv' /\ MapInv' /\ BindInv'
  BY <1>1, <1>2, <1>4, SortCallsInv, RefsStepInv, BindStep, Zenon
<1>6. (size = 0 /\ epo = {} /\ key = <<>> /\ RefsIdle)'
  BY <1>1, <1>2, Zenon DEF PipelineInv, RefsIdle, refsVars, graphVars
<1> QED
  BY <1>1, <1>5, <1>6, Zenon DEF PipelineInv

\* A step of sort keeps it.
LEMMA PipelineSort ==
  PipelineInv /\ SortNext /\ UNCHANGED <<pruneVars, refsVars>> => PipelineInv'
<1> SUFFICES ASSUME PipelineInv, SortNext, UNCHANGED <<pruneVars, refsVars>>
             PROVE  PipelineInv'
  BY Zenon
<1>1. spc \in {"heap", "postorder"}
  BY Zenon DEF SortNext, InitHeap, Place, Sort
<1>2. ppc = "used" /\ SortInv /\ MapInv /\ BindInv
  BY <1>1, Zenon DEF PipelineInv
<1>3. SortInv' /\ MapInv' /\ BindInv'
  BY <1>2, SortStepInv, RefsStepInv, BindStep, Zenon
<1>4. ppc' = "used"
  BY <1>2, Zenon DEF pruneVars
<1>5. (size = 0 /\ epo = {} /\ key = <<>> /\ RefsIdle)'
  BY <1>1, Zenon DEF PipelineInv, RefsIdle, refsVars, graphVars
<1> QED
  BY <1>3, <1>4, <1>5, Zenon DEF PipelineInv

\* CFG_Expanded is made of a sorted graph, as resolve_refs needs it
\* (expanded.cc:151-154).
LEMMA PipelineExpanded == PipelineInv /\ ConstructExpanded => PipelineInv'
<1> SUFFICES ASSUME PipelineInv, ConstructExpanded PROVE PipelineInv'
  BY Zenon
<1>1. spc = "sorted" /\ spc' = "used" /\ ppc' = ppc
  BY Zenon DEF ConstructExpanded
<1>2. ppc = "used" /\ SortInv /\ RefsIdle
  BY <1>1, Zenon DEF PipelineInv
<1>3. /\ cnodes \in Seq(InNode) /\ cpo \subseteq CallsNode \X CallsNode
      /\ \A e \in cpo : e[1] < e[2]
  BY <1>1, <1>2, Zenon DEF SortInv
<1>4. PICK instr \in Instructions :
        Construct(Len(cnodes), cpo,
                  [r \in {c \in CallsNode : nodes[Of(c)] \in Key} |-> instr[nodes[Of(r)]]])
  BY Zenon DEF ConstructExpanded
<1>5. \A k \in Key : instr[k] \in Key
  <2>1. PICK e \in Key \X Key : instr = [n \in Key |-> IF n = e[2] THEN e[1] ELSE n]
    BY Zenon DEF Instructions
  <2> QED
    BY <2>1, Zenon
<1>6. size' = Len(cnodes) /\ epo' = cpo /\ RefsIdle'
  BY <1>2, <1>4, Zenon DEF Construct, RefsIdle
<1>7. EdgesAscend(size', epo')
  BY <1>3, <1>6, Zenon DEF EdgesAscend, CallsNode
<1>8. DOMAIN key' \subseteq ExpNode' /\ \A n \in DOMAIN key' : key'[n] \in Key
  BY <1>4, <1>5, Zenon DEF Construct, CallsNode, ExpNode
<1>9. size' \in Nat
  BY <1>3, <1>6
<1>10. RefsInit'
  BY <1>6, <1>7, <1>8, <1>9, Zenon DEF RefsInit
<1>11. MapInv' /\ BindInv'
  BY <1>10, RefsInitInv, BindInit, PTL
<1> QED
  BY <1>1, <1>2, <1>11, Zenon DEF PipelineInv

\* A step of resolve_refs keeps it.
LEMMA PipelineRefs ==
  PipelineInv /\ spc = "used" /\ RefsNext /\ UNCHANGED <<pruneVars, sortVars>> => PipelineInv'
<1> SUFFICES ASSUME PipelineInv, spc = "used", RefsNext, UNCHANGED <<pruneVars, sortVars>>
             PROVE  PipelineInv'
  BY Zenon
<1>1. ppc = "used" /\ MapInv /\ BindInv
  BY Zenon DEF PipelineInv
<1>2. MapInv' /\ BindInv'
  BY <1>1, RefsStepInv, BindStep, Zenon
<1>3. ppc' = "used" /\ spc' = "used"
  BY <1>1, Zenon DEF pruneVars, sortVars
<1> QED
  BY <1>2, <1>3, Zenon DEF PipelineInv

\* And so does a step that changes nothing.
LEMMA PipelineSame == PipelineInv /\ UNCHANGED vars => PipelineInv'
<1> SUFFICES ASSUME PipelineInv, UNCHANGED vars PROVE PipelineInv'
  BY Zenon
<1>1. UNCHANGED <<pruneVars, sortVars, refsVars>>
  BY Zenon DEF vars
<1>2. ppc # "used" => PruneInv' /\ ExactInv'
  BY <1>1, PruneStepInv, ExactStep, Zenon DEF PipelineInv
<1>3. spc # "used" => SortInv'
  BY <1>1, SortSameInv, Zenon DEF PipelineInv
<1>4. MapInv' /\ BindInv'
  BY <1>1, RefsStepInv, BindStep, Zenon DEF PipelineInv
<1>5. ppc' = ppc /\ num_refs' = num_refs /\ po' = po /\ Unrolled' = Unrolled
  BY <1>1, Zenon DEF pruneVars, Unrolled
<1>6. spc' = spc
  BY <1>1, Zenon DEF sortVars
<1>7. size' = size /\ epo' = epo /\ key' = key /\ (RefsIdle => RefsIdle')
  BY <1>1, Zenon DEF refsVars, graphVars, RefsIdle
<1> QED
  BY <1>2, <1>3, <1>4, <1>5, <1>6, <1>7, Zenon DEF PipelineInv

\* PipelineInv holds from the first graph of a function to the last.
THEOREM PipelineInvariant == Spec => []PipelineInv
<1>1. PipelineInv /\ [Next]_vars => PipelineInv'
  BY PipelinePrune, PipelineCalls, PipelineSort, PipelineExpanded, PipelineRefs, PipelineSame, Zenon
     DEF Next
<1> QED
  BY <1>1, PipelineInit, PTL DEF Spec

\* In the pipeline of runOnFunction (lcm.cc:325-346), where the graph that sort
\* works on is the one that prune leaves and the one that resolve_refs works on
\* is the one that sort leaves, each of them does what it promises.
THEOREM PipelineSafety ==
  Spec => []( /\ PrunedExactly
              /\ SortedTopologically
              /\ NoUseAfterMove
              /\ AlwaysBound
              /\ BoundToAncestors)
<1>1. PipelineInv => PrunedExactly
  BY Zenon DEF PipelineInv, ExactInv, PrunedExactly
<1>2. PipelineInv => SortedTopologically
  BY Zenon DEF PipelineInv, SortInv, SortedTopologically
<1>3. PipelineInv => NoUseAfterMove
  BY DEF PipelineInv, MapInv, NoUseAfterMove
<1>4. PipelineInv => AlwaysBound
  BY Zenon DEF PipelineInv, BindInv, AlwaysBound
<1>5. PipelineInv => BoundToAncestors
  BY BindInvBound, Zenon DEF PipelineInv
<1> QED
  BY <1>1, <1>2, <1>3, <1>4, <1>5, PipelineInvariant, PTL
=============================================================================
