-------------------------------- MODULE CFGSort -------------------------------
(***************************************************************************)
(* CFG_Calls::construct, which puts in the place of an external call one   *)
(* node for each of its pointer arguments, and CFG::sort, which renumbers  *)
(* the nodes of the result in the reverse of the postorder that            *)
(* compute_postorder finds with a heap on the number of successors still   *)
(* to be placed.                                                           *)
(***************************************************************************)
EXTENDS Naturals, Sequences, FiniteSets, Functions, CFG

CONSTANT Args     \* the numbers of pointer arguments a call may have

ASSUME SortAssumption == Args \subseteq Nat

VARIABLES
  inSize,   \* number of nodes of the graph that comes in
  in,       \* its edges
  args,     \* the pointer arguments of its nodes
  cnodes,   \* cnodes[ref + 1]: the node that came in that ref stands for
  cpo,      \* edges
  entry,
  ref2n,    \* successors of a node that are not placed yet
  heap,     \* pairs <<ref2n[ref], ref>>
  order,    \* the nodes placed so far
  spc       \* the stage; "used": the next graph has been made

sortVars == <<inSize, in, args, cnodes, cpo, entry, ref2n, heap, order, spc>>

InNode == 0 .. inSize - 1
CallsNode == 0 .. Len(cnodes) - 1
Of(ref) == cnodes[ref + 1]

SortInit ==
  /\ inSize = 0 /\ in = {} /\ args = <<>>
  /\ cnodes = <<>> /\ cpo = {} /\ entry = 0
  /\ ref2n = <<>> /\ heap = {} /\ order = <<>>
  /\ spc = "calls"

\* A call without pointer arguments, and all else, is copied.
Copies(a, n) == IF a[n] = 0 THEN 1 ELSE a[n]

\* How many nodes are added before those for n.
Offset(a, n) == Cardinality(UNION {{m} \X (1 .. Copies(a, m)) : m \in 0 .. n - 1})

\* The nodes in the order in which they are added.
Expand(a, size) ==
  [k \in 1 .. Offset(a, size) |->
     CHOOSE n \in 0 .. size - 1 : Offset(a, n) < k /\ k <= Offset(a, n + 1)]

\* Mutant of Calls: the arguments of one call are chained.
CallsChained(size, E, a) ==
  LET new == Expand(a, size)
      Out == 0 .. Len(new) - 1
  IN  /\ spc = "calls" /\ spc' = "heap"
      /\ inSize' = size /\ in' = E /\ args' = a
      /\ cnodes' = new
      /\ cpo' = {e \in Out \X Out : \/ <<new[e[1] + 1], new[e[2] + 1]>> \in E
                                    \/ new[e[1] + 1] = new[e[2] + 1] /\ e[2] = e[1] + 1}
      /\ entry' = 0
      /\ UNCHANGED <<ref2n, heap, order>>

\* construct, for a graph of size nodes with edges E and a[n] pointer arguments.
Calls(size, E, a) ==
  LET new == Expand(a, size)
      Out == 0 .. Len(new) - 1
  IN  /\ spc = "calls" /\ spc' = "heap"
      /\ inSize' = size /\ in' = E /\ args' = a
      /\ cnodes' = new
      /\ cpo' = {e \in Out \X Out : <<new[e[1] + 1], new[e[2] + 1]>> \in E}
      /\ entry' = 0
      /\ UNCHANGED <<ref2n, heap, order>>

InitHeap ==
  /\ spc = "heap" /\ spc' = "postorder"
  /\ ref2n' = [ref \in CallsNode |-> Cardinality(Succ(cpo, ref))]
  /\ heap' = {<<Cardinality(Succ(cpo, ref)), ref>> : ref \in CallsNode}
  /\ UNCHANGED <<inSize, in, args, cnodes, cpo, entry, order>>

\* The least element of the heap: fewest successors, then least number.
Least == CHOOSE x \in heap : \A y \in heap :
           x[1] < y[1] \/ (x[1] = y[1] /\ x[2] <= y[2])

\* One round of compute_postorder, with its assertions.
Place ==
  /\ spc = "postorder" /\ heap # {}
  /\ LET ref   == Least[2]
         preds == Pred(cpo, ref)
     IN  IF Least[1] # 0 \/ ref2n[ref] # 0 \/ \E pred \in preds : ref2n[pred] = 0
           THEN spc' = "aborted" /\ UNCHANGED <<heap, order, ref2n>>
           ELSE /\ order' = Append(order, ref)
                /\ ref2n' = [r \in CallsNode |->
                               IF r \in preds THEN ref2n[r] - 1 ELSE ref2n[r]]
                /\ heap' = (heap \ ({Least} \cup {<<ref2n[p], p>> : p \in preds}))
                           \cup {<<ref2n[p] - 1, p>> : p \in preds}
                /\ UNCHANGED spc
  /\ UNCHANGED <<inSize, in, args, cnodes, cpo, entry>>

\* The rest of sort: a node's new number is its place from the end of order.
Sort ==
  /\ spc = "postorder" /\ heap = {}
  /\ LET new(ref) == CHOOSE n \in CallsNode : order[Len(order) - n] = ref
     IN  /\ cpo' = {<<new(e[1]), new(e[2])>> : e \in cpo}
         /\ cnodes' = [n \in 1 .. Len(cnodes) |-> Of(order[Len(order) - n + 1])]
         /\ entry' = new(entry)
  /\ spc' = "sorted"
  /\ UNCHANGED <<inSize, in, args, ref2n, heap, order>>

SortNext == InitHeap \/ Place \/ Sort

\* construct for any graph without a loop, then sort.
SortCalls ==
  \E size \in Nat : \E E \in SUBSET ((0 .. size - 1) \X (0 .. size - 1)) :
    \E a \in [0 .. size - 1 -> Args] : NoWayBack(0 .. size - 1, E) /\ Calls(size, E, a)

SortSpec == SortInit /\ [][SortCalls \/ SortNext]_sortVars

-----------------------------------------------------------------------------
(* Properties. *)

\* After sort every edge leads from a smaller number to a larger one, which
\* reverse_postorder() relies on, and the graph is the one that came in with
\* its calls replaced (cfg.cc:329-372, calls.cc:8-46); on the way there the
\* assertions of compute_postorder hold (cfg.cc:144-154).
SortedTopologically ==
  /\ spc # "aborted"
  /\ spc = "sorted" =>
       /\ \A e \in cpo : e[1] < e[2]
       /\ cpo = {e \in CallsNode \X CallsNode : <<Of(e[1]), Of(e[2])>> \in in}
       /\ \A n \in InNode : Cardinality({r \in CallsNode : Of(r) = n}) = Copies(args, n)

\* The inductive invariant: order has nodes all of whose successors come before
\* them, ref2n counts the successors that are not in it, and heap has the nodes
\* that are not.
SortInv ==
  /\ spc \in {"calls", "heap", "postorder", "sorted"}
  /\ spc \in {"calls", "heap"} => order = <<>>
  /\ spc # "calls" =>
       /\ inSize \in Nat /\ in \subseteq InNode \X InNode /\ NoWayBack(InNode, in)
       /\ cnodes \in Seq(InNode)
       /\ \A n \in InNode : Cardinality({r \in CallsNode : Of(r) = n}) = Copies(args, n)
       /\ cpo = {e \in CallsNode \X CallsNode : <<Of(e[1]), Of(e[2])>> \in in}
  /\ spc = "sorted" => \A e \in cpo : e[1] < e[2]
  /\ spc = "postorder" =>
       /\ order \in Seq(CallsNode)
       /\ \A i, j \in 1 .. Len(order) : order[i] = order[j] => i = j
       /\ ref2n = [r \in CallsNode |-> Cardinality(Succ(cpo, r) \ Range(order))]
       /\ heap = {<<ref2n[r], r>> : r \in CallsNode \ Range(order)}
       /\ \A i \in 1 .. Len(order) : \A e \in cpo :
            e[1] = order[i] => \E j \in 1 .. i - 1 : e[2] = order[j]
=============================================================================
