------------------------------- MODULE CFGUnroll ------------------------------
(***************************************************************************)
(* CFG_Unrolled: a function's basic blocks become a graph without loops,   *)
(* every natural loop replaced by a chain of num_unrolls + 1 copies of its *)
(* body, loops within loops included.  A basic block is one node here (its *)
(* instructions are a chain, unrolled.cc:96-116); calls are left out.      *)
(***************************************************************************)
EXTENDS Naturals, Sequences, FiniteSets

CONSTANTS
  NumBlocks,    \* blocks 1 .. NumBlocks: 1 is the entry, the last one returns
  num_unrolls

ASSUME UnrollAssumption ==
  /\ NumBlocks \in Nat \ {0, 1}
  /\ num_unrolls \in Nat \ {0}

Block == 1 .. NumBlocks
First == 1
Ret   == NumBlocks

VARIABLES
  succ,    \* the successors of each block
  cfg,     \* the edges of the unrolled graph
  pc

vars == <<succ, cfg, pc>>

-----------------------------------------------------------------------------
(* LLVM's DominatorTree and LoopInfo, which the code asks for the loops. *)

RECURSIVE ReachFrom(_, _, _)
\* The members of `within` reached from S along edges f.
ReachFrom(f, within, S) ==
  LET T == S \cup (UNION {f[b] : b \in S} \cap within)
  IN  IF T = S THEN S ELSE ReachFrom(f, within, T)

Pred == [b \in Block |-> {a \in Block : b \in succ[a]}]

Dominates(h, b) ==
  h = b \/ h = First \/ b \notin ReachFrom(succ, Block \ {h}, {First})

Latches(h) == {b \in Pred[h] : Dominates(h, b)}

Headers == {h \in Block : Latches(h) # {}}

LoopBlocks(h) == {h} \cup ReachFrom(Pred, Block \ {h}, Latches(h) \ {h})

\* The loops directly within a set of blocks, `top` itself excepted.
SubLoops(blocks, top) ==
  LET in == {h \in Headers \cap blocks : h # top}
  IN  {h \in in : \A g \in in : g # h => h \notin LoopBlocks(g)}

Exiting(h) == {b \in LoopBlocks(h) : succ[b] \ LoopBlocks(h) # {}}

-----------------------------------------------------------------------------
(* The construction.  A node is a block and the iteration of each loop     *)
(* around it; a port has the edges made so far, the node to enter by and   *)
(* the nodes to leave by.                                                  *)

\* A block of an iteration; its instructions are one after the other.
construct_block(b, id) == <<b, id>>

RECURSIVE construct_loop(_, _), construct_loop_forest(_, _, _, _, _)

construct_loop_forest(entry, blocks, loops, exits, id) ==
  LET loopPort == [h \in loops |-> construct_loop(h, id)]
      InLoop(b) == \E h \in loops : b \in LoopBlocks(h)
      LoopOf(b) == CHOOSE h \in loops : b \in LoopBlocks(h)
      EntryOf(b) == IF InLoop(b) THEN loopPort[LoopOf(b)].entry
                    ELSE construct_block(b, id)
      nonloop == {b \in blocks : ~InLoop(b)}
      blockEdges ==
        UNION {{<<construct_block(b, id), EntryOf(dst)>> :
                   dst \in succ[b] \cap blocks} : b \in nonloop}
      loopEdges ==
        UNION {{<<n, EntryOf(dst)>> :
                  n \in {m \in loopPort[h].exits : m[1] = b},
                  dst \in (succ[b] \cap blocks) \ LoopBlocks(h)} :
               h \in loops, b \in UNION {Exiting(g) : g \in loops}}
  IN  [entry |-> EntryOf(entry),
       exits |-> UNION {IF InLoop(b) THEN loopPort[LoopOf(b)].exits ELSE {construct_block(b, id)} :
                        b \in exits},
       edges |-> UNION {loopPort[h].edges : h \in loops} \cup blockEdges \cup loopEdges]

\* Mutant of construct_loop: the last iteration is not linked.
LoopOneShort(h, id) ==
  LET iteration ==
        [i \in 0 .. num_unrolls |->
           construct_loop_forest(h, LoopBlocks(h), SubLoops(LoopBlocks(h), h),
                                 Exiting(h), Append(id, i))]
      back(i) == {e \in iteration[i].edges : e[2] = iteration[i].entry}
  IN  [entry |-> iteration[0].entry,
       exits |-> UNION {iteration[i].exits : i \in 0 .. num_unrolls},
       edges |-> UNION {iteration[i].edges \ back(i) : i \in 0 .. num_unrolls}
                 \cup UNION {{<<e[1], iteration[i + 1].entry>> : e \in back(i)} :
                             i \in 0 .. num_unrolls - 2}]

\* All iterations are built; the edges back to an iteration's header are taken
\* out and lead to the next iteration, those of the last one nowhere.
construct_loop(h, id) ==
  LET iteration ==
        [i \in 0 .. num_unrolls |->
           construct_loop_forest(h, LoopBlocks(h), SubLoops(LoopBlocks(h), h),
                                 Exiting(h), Append(id, i))]
      continuations(i) == {e \in iteration[i].edges : e[2] = iteration[i].entry}
  IN  [entry |-> iteration[0].entry,
       exits |-> UNION {iteration[i].exits : i \in 0 .. num_unrolls},
       edges |-> UNION {iteration[i].edges \ continuations(i) : i \in 0 .. num_unrolls}
                 \cup UNION {{<<e[1], iteration[i + 1].entry>> : e \in continuations(i)} :
                             i \in 0 .. num_unrolls - 1}]

construct_function ==
  construct_loop_forest(First, Block, SubLoops(Block, First), {Ret}, <<>>)

-----------------------------------------------------------------------------
\* A cycle that is not a natural loop has an edge back that is no latch's.
IsReducible ==
  \A b \in Block : LET fwd == [a \in Block |-> {d \in succ[a] : ~Dominates(d, a)}]
                   IN  b \notin ReachFrom(fwd, Block, fwd[b])

\* A block branches to some blocks, never to the entry block; every
\* block is reached.
Init ==
  /\ succ \in {f \in [Block -> SUBSET (Block \ {First})] :
                 /\ f[Ret] = {}
                 /\ \A b \in Block \ {Ret} : f[b] # {}}
  /\ ReachFrom(succ, Block, {First}) = Block
  /\ IsReducible     \* LoopInfo has no other cycles; those stay in the graph
  /\ cfg = {}
  /\ pc = "construct"

Construct ==
  /\ pc = "construct"
  /\ cfg' = construct_function.edges
  /\ pc' = "done"
  /\ UNCHANGED succ

Next == Construct

Spec == Init /\ [][Next]_vars

-----------------------------------------------------------------------------
(* Properties. *)

Nodes == {e[1] : e \in cfg} \cup {e[2] : e \in cfg}
Step == [n \in Nodes |-> {e[2] : e \in {d \in cfg : d[1] = n}}]

\* cfg/cfg.h: "All CFGs should have the property of being loop-free."
LoopFree == \A n \in Nodes : n \notin ReachFrom(Step, Nodes, Step[n])

RECURSIVE PathsTo(_), RunsFrom(_, _)
\* The sequences of blocks along which Ret is reached from a node.
PathsTo(n) ==
  IF n[1] = Ret THEN {<<Ret>>}
  ELSE UNION {{<<n[1]>> \o p : p \in PathsTo(m)} : m \in Step[n]}

\* The executions of the function from block b to Ret that go round no loop
\* more than num_unrolls times each time they are in it; round[h] counts.
RunsFrom(b, round) ==
  IF b = Ret THEN {<<Ret>>}
  ELSE LET after(d) == [h \in Headers |->
                          IF d \notin LoopBlocks(h) THEN 0
                          ELSE IF d = h /\ b \in LoopBlocks(h) THEN round[h] + 1
                          ELSE round[h]]
       IN  UNION {{<<b>> \o p : p \in RunsFrom(d, after(d))} :
                  d \in {c \in succ[b] : \A h \in Headers : after(c)[h] <= num_unrolls}}

\* The unrolled graph has no cycle, and its paths are exactly the executions
\* that go round each loop at most num_unrolls times: construct_loop and
\* construct_loop_forest add none and lose none.
UnrollsExactly ==
  pc = "done" =>
    /\ LoopFree
    /\ PathsTo(construct_function.entry) = RunsFrom(First, [h \in Headers |-> 0])
=============================================================================
