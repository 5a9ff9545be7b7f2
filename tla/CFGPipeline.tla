------------------------------ MODULE CFGPipeline -----------------------------
(***************************************************************************)
(* The graphs that LCMPass::runOnFunction makes of a function, one from    *)
(* the other: CFG_Unrolled (its last step, prune), CFG_Calls, which is     *)
(* sorted, and CFG_Expanded, which binds the operands.                     *)
(***************************************************************************)
EXTENDS CFGPrune, CFGSort, ResolveRefs

vars == <<pruneVars, sortVars, refsVars>>

Init ==
  /\ PruneInit
  /\ SortInit
  /\ size = 0 /\ epo = {} /\ key = <<>> /\ RefsIdle

\* cfg_calls.construct(aegpo_unrolled).  The entry and the exit have no
\* arguments.  Of the unrolled graph only the nodes are used any more.
ConstructCalls ==
  /\ ppc = "done"
  /\ \E a \in [Unrolled -> Args] :
       /\ \A n \in Unrolled : nodes[n] \in {Entry, Exit} => a[n] = 0
       /\ Calls(num_refs, po, a)
  /\ graph' = {} /\ po' = {} /\ todo' = {} /\ deleted' = {}
  /\ ppc' = "used"
  /\ UNCHANGED <<num_refs, nodes, refsVars>>

\* The instruction of each node of the unrolled graph: at most two nodes are
\* copies of one instruction (iterations of a loop).
Instructions ==
  {[n \in Key |-> IF n = e[2] THEN e[1] ELSE n] : e \in {d \in Key \X Key : d[1] <= d[2]}}

\* cfg_expanded.construct(cfg_calls): all the nodes of a call have the key of
\* the call.  The graph that came in is not used any more.
ConstructExpanded ==
  /\ spc = "sorted"
  /\ \E instr \in Instructions :
       Construct(Len(cnodes), cpo,
                 [r \in {c \in CallsNode : nodes[Of(c)] \in Key} |-> instr[nodes[Of(r)]]])
  /\ num_refs' = 0 /\ nodes' = <<>>
  /\ inSize' = 0 /\ in' = {} /\ args' = <<>> /\ cnodes' = <<>> /\ cpo' = {}
  /\ entry' = 0 /\ ref2n' = <<>> /\ heap' = {} /\ order' = <<>>
  /\ spc' = "used"
  /\ UNCHANGED <<graph, po, todo, deleted, ppc>>

Next ==
  \/ PruneNext /\ UNCHANGED <<sortVars, refsVars>>
  \/ ConstructCalls
  \/ SortNext /\ UNCHANGED <<pruneVars, refsVars>>
  \/ ConstructExpanded
  \/ spc = "used" /\ RefsNext /\ UNCHANGED <<pruneVars, sortVars>>

\* One thread runs from the first graph to the last.
Spec == Init /\ [][Next]_vars /\ WF_vars(Next)

-----------------------------------------------------------------------------
\* Every function gets its last graph, with the operands of all nodes bound:
\* prune, compute_postorder and resolve_refs end (lcm.cc:325-346).
Ends == <>(spc = "used" /\ cur = size)

\* The inductive invariant: what each stage hands to the next is what the next
\* one relies on, and a stage that has not begun is as it was.
PipelineInv ==
  /\ ppc \in {"prune", "done", "used"}
  /\ ppc # "used" => spc = "calls" /\ PruneInv /\ ExactInv
  /\ ppc = "done" =>
       num_refs \in Nat /\ po \subseteq Unrolled \X Unrolled /\ NoWayBack(Unrolled, po)
  /\ spc # "used" => SortInv /\ size = 0 /\ epo = {} /\ key = <<>> /\ RefsIdle
  /\ MapInv /\ BindInv
=============================================================================
