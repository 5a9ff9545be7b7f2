------------------------------- MODULE CFGPrune -------------------------------
(***************************************************************************)
(* CFG::prune, the last step of CFG_Unrolled::construct: the nodes from    *)
(* which no exit can be reached (what follows the last unrolled iteration  *)
(* of a loop) are taken away, leaf by leaf, from an unordered worklist;    *)
(* then the nodes that are left are renumbered.                            *)
(***************************************************************************)
EXTENDS Naturals, FiniteSets, CFG

CONSTANT MaxNodes    \* bound on the number of nodes

ASSUME PruneAssumption == MaxNodes \in Nat

Entry == 0    \* construct() adds the entry first, then the exit
Exit  == 1

VARIABLES
  num_refs, \* number of nodes
  graph,    \* the edges before prune
  po,       \* the edges
  todo,     \* worklist
  deleted,  \* deleted nodes
  nodes,    \* nodes[new]: the node that has number new after prune
  ppc       \* "prune", "done", or "used": the next graph has been made

pruneVars == <<num_refs, graph, po, todo, deleted, nodes, ppc>>

Unrolled == 0 .. num_refs - 1

\* Every set of nodes that has n and the successors of its members has m.
Reaches(E, n, m) ==
  \A S \in SUBSET Unrolled :
    n \in S /\ (\A e \in E : e[1] \in S => e[2] \in S) => m \in S

\* What construct() hands to prune: the entry leads to one node and nothing to
\* it, the exit leads nowhere, blocks are reachable, loops have been unrolled.
IsCFG(E) ==
  /\ Cardinality(Succ(E, Entry)) = 1
  /\ \A n \in Unrolled \ {Exit} : Reaches(E, Entry, n)
  /\ \A e \in E : ~Reaches(E, e[2], e[1])

PruneInit ==
  /\ num_refs \in 3 .. MaxNodes
  /\ graph \in SUBSET ((Unrolled \ {Exit}) \X (Unrolled \ {Entry}))
  /\ IsCFG(graph)
  /\ po = graph
  /\ todo = Unrolled \ {Exit}
  /\ deleted = {}
  /\ nodes = [n \in Unrolled |-> n]
  /\ ppc = "prune"

\* Mutant of Pop: a node that is taken off the list is not looked at again
\* when it becomes a leaf.
PopForgetful ==
  /\ ppc = "prune"
  /\ \E ref \in todo :
       /\ todo' = todo \ {ref}
       /\ IF Succ(po, ref) = {}
            THEN /\ po' = {e \in po : ref \notin {e[1], e[2]}}
                 /\ deleted' = deleted \cup {ref}
            ELSE UNCHANGED <<po, deleted>>
  /\ UNCHANGED <<num_refs, graph, nodes, ppc>>

\* Mutant of Pop: a node that is not a leaf goes back on the list.
PopRequeues ==
  /\ ppc = "prune"
  /\ \E ref \in todo :
       IF Succ(po, ref) = {}
         THEN /\ todo' = (todo \ {ref}) \cup Pred(po, ref)
              /\ po' = {e \in po : ref \notin {e[1], e[2]}}
              /\ deleted' = deleted \cup {ref}
         ELSE UNCHANGED <<todo, po, deleted>>
  /\ UNCHANGED <<num_refs, graph, nodes, ppc>>

\* One round of the loop: some node is popped, and deleted if it is a leaf.
Pop ==
  /\ ppc = "prune"
  /\ \E ref \in todo :
       IF Succ(po, ref) = {}
         THEN /\ todo' = (todo \ {ref}) \cup Pred(po, ref)
              /\ po' = {e \in po : ref \notin {e[1], e[2]}}
              /\ deleted' = deleted \cup {ref}
         ELSE /\ todo' = todo \ {ref}
              /\ UNCHANGED <<po, deleted>>
  /\ UNCHANGED <<num_refs, graph, nodes, ppc>>

\* refmap: the nodes that are left, numbered in their old order.
NewRef(ref) == Cardinality({n \in Unrolled \ deleted : n < ref})

Renumber ==
  /\ ppc = "prune" /\ todo = {}
  /\ ppc' = "done"
  /\ num_refs' = Cardinality(Unrolled \ deleted)
  /\ nodes' = [n \in 0 .. num_refs' - 1 |->
                 CHOOSE ref \in Unrolled \ deleted : NewRef(ref) = n]
  /\ po' = {<<NewRef(e[1]), NewRef(e[2])>> : e \in po}
  /\ UNCHANGED <<graph, todo, deleted>>

PruneNext == Pop \/ Renumber

PruneSpec == PruneInit /\ [][PruneNext]_pruneVars

-----------------------------------------------------------------------------
(* Properties. *)

\* The worklist and the edges name no deleted node: po.fwd.at(ref) and
\* refmap.at(dst) never throw, in whatever order nodes are popped
\* (cfg.cc:65-71, 103).
NoDangling ==
  ppc = "prune" =>
    /\ todo \cap deleted = {}
    /\ \A e \in po : e[1] \notin deleted /\ e[2] \notin deleted

\* What is deleted leads only to deleted nodes; when the loop ends, every node
\* that is left and is not the exit leads to a node that is left (cfg.cc:59-72).
PrunedLocally ==
  /\ Exit \notin deleted
  /\ \A e \in graph : e[1] \in deleted => e[2] \in deleted
  /\ ppc = "prune" /\ todo = {} =>
       \A n \in Unrolled \ (deleted \cup {Exit}) :
         \E e \in graph : e[1] = n /\ e[2] \notin deleted

\* After prune: the nodes there were, and those that are left.
OldNode == 0 .. num_refs + Cardinality(deleted) - 1
Left == {nodes[n] : n \in Unrolled}

\* n reached the exit before prune.
ToExit(n) ==
  \A S \in SUBSET OldNode :
    n \in S /\ (\A e \in graph : e[1] \in S => e[2] \in S) => Exit \in S

\* The result is the graph of exactly the nodes that reach the exit, with all
\* edges between them, in the old order, whatever the order of the worklist
\* (cfg.cc:49-108).
PrunedExactly ==
  ppc = "done" =>
    /\ \A old \in DOMAIN nodes : \A new \in DOMAIN nodes :
         old < new => nodes[old] < nodes[new]
    /\ Left = {n \in OldNode : ToExit(n)}
    /\ {<<nodes[e[1]], nodes[e[2]]>> : e \in po} =
         {e \in graph : e[1] \in Left /\ e[2] \in Left}

-----------------------------------------------------------------------------
\* The inductive invariant: po is the graph without the deleted nodes, and a
\* node that has become a leaf is on the worklist.
PruneInv ==
  /\ Exit \notin deleted
  /\ \A e \in graph : e[1] \in deleted => e[2] \in deleted
  /\ ppc = "prune" =>
       /\ graph \subseteq Unrolled \X Unrolled
       /\ todo \subseteq Unrolled \ {Exit}
       /\ todo \cap deleted = {}
       /\ \A e \in graph : e[1] # Exit
       /\ po = {e \in graph : e[1] \notin deleted /\ e[2] \notin deleted}
       /\ \A n \in Unrolled \ (todo \cup deleted \cup {Exit}) :
            \E e \in graph : e[1] = n /\ e[2] \notin deleted

\* With PruneInv, inductive for PrunedExactly: until the nodes are renumbered,
\* only nodes of the graph are deleted, and no way leads back.
ExactInv ==
  /\ ppc = "prune" =>
       /\ num_refs \in Nat /\ deleted \subseteq Unrolled
       /\ \A e \in graph : ~Reaches(graph, e[2], e[1])
  /\ PrunedExactly
=============================================================================
