---------------------------------- MODULE AEG ---------------------------------
(***************************************************************************)
(* aeg/construct.cc: the abstract event graph of a function.  AEG::        *)
(* construct runs once, step by step, over the expanded CFG; every step is *)
(* an action.  The formulas it builds for Z3 are predicates on a world w,  *)
(* an assignment of Z3's variables:                                        *)
(*   w.arch, w.trans   the nodes executed architecturally, transiently     *)
(*   w.tfo             the tfo edges taken                                 *)
(*   w.addr            the value of each symbolic address                  *)
(*                                                                         *)
(* The input g is the expanded CFG and the configuration.  Nodes 0..g.n    *)
(* are in topological order, 0 is the entry and g.n the exit; g.kind is    *)
(* the instruction, g.ptr its pointer operand, g.val, g.idx and g.cond the *)
(* nodes that define a stored value, an index and a branch condition,      *)
(* g.gep the type and the indices of a getelementptr,                      *)
(* g.func the call stack of a node.  A pointer operand o is a value o.v    *)
(* with the nodes o.defs that define it, none for an argument or a global. *)
(***************************************************************************)
EXTENDS Integers, Sequences, FiniteSets, SequencesExt, CFG

CONSTANT Inputs      \* the expanded CFGs, each with a configuration

VARIABLES
  g,
  node,          \* AEG::nodes
  edges,         \* AEG::graph, in the order of insertion
  dependencies,
  aliases,       \* alias_assertions and the constraints on addresses; alias_rel
  dominators,
  postdominators,
  step           \* the next step of AEG::construct

aegVars == <<g, node, edges, dependencies, aliases, dominators, postdominators, step>>

Args    == {-1, -2}
Globals == {-3, -4}
Opaque  == {-5}     \* a global without a size, or a constant expression
Null    == -9
GlobalBytes == 4
AllocaBits  == 32

Entry == 0
Nodes == 0 .. g.n
Exit  == g.n
Special(i) == i \in {Entry, Exit}
Order == [i \in 1 .. g.n + 1 |-> i - 1]       \* po.reverse_postorder()
Up(S) == SelectSeq(Order, LAMBDA i : i \in S)  \* a set of nodes in that order

(***************************************************************************)
(* inst.h: what a node may do.                                             *)
(***************************************************************************)
may_read(i)    == g.kind[i] \in {"load", "exit"}
may_write(i)   == g.kind[i] \in {"store", "entry"}
may_access(i)  == may_read(i) \/ may_write(i)
is_memory(i)   == g.kind[i] \in {"load", "store"}
may_xsread(i)  == IF g.kind[i] \in {"load", "store", "exit"} THEN "MUST" ELSE "NO"
may_xswrite(i) == CASE g.kind[i] \in {"store", "entry"} -> "MUST"
                    [] g.kind[i] = "load" -> "MAY"
                    [] OTHER -> "NO"
defines_addr(i) == g.kind[i] \in {"gep", "alloca"} \/ i \in g.pointers
Refs(i) == g.ptr[i].defs \cup g.val[i] \cup g.idx[i] \cup g.cond[i]

may_introduce_speculation(i) ==
  IF g.cls = "v4"
  THEN \E j \in Succ(g.po, i) : g.kind[j] = "load"
  ELSE g.kind[i] = "branch" /\ Cardinality(Succ(g.po, i)) > 1

(***************************************************************************)
(* construct_nodes: trans is FALSE where no speculation can reach.  arch   *)
(* is named by the node whose variable it is.                              *)
(***************************************************************************)
get_arch(acc, i) ==
  IF ~Special(i) /\ \E p \in Nodes : Pred(g.po, i) = {p} /\ ~may_introduce_speculation(p)
  THEN acc[CHOOSE p \in Nodes : Pred(g.po, i) = {p}]
  ELSE i

get_trans(acc, i) ==
  /\ ~Special(i) /\ g.kind[i] # "fence"
  /\ \E p \in Pred(g.po, i) : may_introduce_speculation(p) \/ acc[p]

MinOf(S, top) == CHOOSE m \in S \cup {top} : \A x \in S \cup {top} : m <= x

\* Mutant of min_specs: the distance is taken over the farthest predecessor.
min_specsFar ==
  FoldLeft(LAMBDA acc, i :
             LET outs == {acc[p].out : p \in Pred(g.po, i)}
                 m    == IF outs = {} THEN g.depth
                         ELSE CHOOSE x \in outs : \A y \in outs : y <= x
             IN  [acc EXCEPT ![i] =
                    [in  |-> m,
                     out |-> IF may_introduce_speculation(i) THEN 0
                             ELSE MinOf({m + 1}, g.depth)]],
           [i \in Nodes |-> [in |-> 0, out |-> 0]], Order)

min_specs ==
  FoldLeft(LAMBDA acc, i :
             LET m == MinOf({acc[p].out : p \in Pred(g.po, i)}, g.depth)
             IN  [acc EXCEPT ![i] =
                    [in  |-> m,
                     out |-> IF may_introduce_speculation(i) THEN 0
                             ELSE MinOf({m + 1}, g.depth)]],
           [i \in Nodes |-> [in |-> 0, out |-> 0]], Order)

NewNode == [arch |-> Entry, trans |-> FALSE, read |-> FALSE, write |-> FALSE,
            xsread |-> "NO", xswrite |-> "NO", def |-> {}, ref |-> {},
            taint |-> TRUE, stores |-> 0]

construct_nodes ==
  LET arch  == FoldLeft(LAMBDA acc, i : [acc EXCEPT ![i] = get_arch(acc, i)],
                        [i \in Nodes |-> Entry], Order)
      trans == FoldLeft(LAMBDA acc, i : [acc EXCEPT ![i] = get_trans(acc, i)],
                        [i \in Nodes |-> FALSE], Order)
      dist  == min_specs
  IN  /\ step = "nodes" /\ step' = "arch"
      /\ node' = [i \in Nodes |->
                    [NewNode EXCEPT !.arch = arch[i], !.trans = trans[i] /\ dist[i].in < g.depth]]
      /\ UNCHANGED <<g, edges, dependencies, aliases, dominators, postdominators>>

\* construct_arch: TRUE at the entry, a variable of its own elsewhere.
construct_arch ==
  /\ step = "arch" /\ step' = "tfo"
  /\ node' = [i \in Nodes |-> [node[i] EXCEPT !.arch = i]]
  /\ UNCHANGED <<g, edges, dependencies, aliases, dominators, postdominators>>

(***************************************************************************)
(* Edges.  The condition of a dependence is a set of alternatives, each a  *)
(* set of nodes that must be executed; a tfo edge is a variable of its own *)
(* whose constraint is tfo_allowed.                                        *)
(***************************************************************************)
Edge(k, s, d, c) == [kind |-> k, src |-> s, dst |-> d, cond |-> c]
Exec(w) == w.arch \cup w.trans
Exists(w, e) == IF e.kind = "TFO" THEN <<e.src, e.dst>> \in w.tfo
                ELSE \E c \in e.cond : c \subseteq Exec(w)

EdgesOf(kind) == {e \in Range(edges) : e.kind = kind}

(* get_nodes: of several edges of a kind to one neighbour only the first.  *)
get_in(ref, kind) ==
  {edges[k] : k \in {j \in DOMAIN edges :
     /\ edges[j].kind = kind /\ edges[j].dst = ref
     /\ \A h \in 1 .. j - 1 : ~(edges[h].kind = kind /\ edges[h].dst = ref
                                                   /\ edges[h].src = edges[j].src)}}

TfoEdges == SelectSeq([k \in 1 .. (g.n + 1) * (g.n + 1) |->
                         <<(k - 1) \div (g.n + 1), (k - 1) % (g.n + 1)>>],
                      LAMBDA e : e \in g.po /\ ~Special(e[1]))

\* The constraint add_optional_edge puts on a tfo edge.
tfo_allowed(A, T, e) ==
  \/ e[1] \in A /\ e[2] \in A
  \/ may_introduce_speculation(e[1]) /\ e[1] \in A /\ e[2] \in T
  \/ e[1] \in T /\ e[2] \in T

construct_tfo ==
  /\ step = "tfo" /\ step' = "addrs"
  /\ edges' = edges \o [k \in DOMAIN TfoEdges |->
                          Edge("TFO", TfoEdges[k][1], TfoEdges[k][2], {})]
  /\ UNCHANGED <<g, node, dependencies, aliases, dominators, postdominators>>

(***************************************************************************)
(* construct_addrs.  An address is an integer, a symbol with an offset, an *)
(* offset clamped when it is computed architecturally (the base is not     *)
(* added), or a choice among the definitions that are executed.            *)
(***************************************************************************)
IntAddr(n)       == [k |-> "int", n |-> n]
SymAddr(s)       == [k |-> "sym", s |-> s]
PlusAddr(e, n)   == [k |-> "plus", e |-> e, n |-> n]
ClampAddr(s, lo, hi) == [k |-> "clamp", s |-> s, lo |-> lo, hi |-> hi]
IteAddr(alts, e) == [k |-> "ite", alts |-> alts, e |-> e]

RECURSIVE ValueOf(_, _)
ValueOf(w, e) ==
  CASE e.k = "int"   -> e.n
    [] e.k = "sym"   -> w.addr[e.s]
    [] e.k = "plus"  -> ValueOf(w, e.e) + e.n
    [] e.k = "clamp" -> IF e.s \in w.arch
                        THEN LET v == MinOf({w.addr[e.s]}, e.hi) IN IF v < e.lo THEN e.lo ELSE v
                        ELSE w.addr[e.s]
    [] e.k = "ite"   -> FoldLeft(LAMBDA v, a : IF a[1] \in Exec(w) THEN ValueOf(w, a[2]) ELSE v,
                                 ValueOf(w, e.e), e.alts)

(* util/llvm.cc, getelementptr_*_offset: bytes from the base, as a set with *)
(* at most one element.  A type has its size in bits (LLVM's data layout);  *)
(* a constant index is {n}, another one {}.  A struct is walked by the      *)
(* sizes of its fields, without padding.                                    *)
Into(T, n) ==
  IF T.k = "struct"
  THEN [bits |-> FoldLeft(LAMBDA a, f : a + f.bits, 0, SubSeq(T.fields, 1, n)), T |-> T.fields[n + 1]]
  ELSE [bits |-> T.elem.bits * n, T |-> T.elem]

\* An index that is no constant.  The maximum is one past the end of the array;
\* what follows is not added.
VariableIndex(bound, acc) ==
  CASE bound = "min" /\ acc.T.k = "array" -> [acc EXCEPT !.T = @.elem]
    [] bound = "max" /\ acc.T.k = "array" /\ acc.T.n > 0 ->
         [acc EXCEPT !.bits = @ + acc.T.n * acc.T.elem.bits, !.done = TRUE]
    [] OTHER -> [acc EXCEPT !.done = TRUE, !.some = FALSE]

GepOffset(gep, bound) ==
  LET Enter(acc, to) == [acc EXCEPT !.bits = @ + to.bits, !.T = to.T]
      Walk(acc, index) ==
        CASE acc.done                    -> acc
          [] ~acc.done /\ index = {}     -> VariableIndex(bound, acc)
          [] OTHER -> Enter(acc, Into(acc.T, CHOOSE n \in index : TRUE))
      Bytes(r) == IF r.some THEN {r.bits \div 8} ELSE {}
  IN  Bytes(FoldLeft(Walk, [T |-> gep.T, bits |-> 0, done |-> FALSE, some |-> TRUE], gep.indices))

getelementptr_const_offset(gep) == GepOffset(gep, "const")
getelementptr_min_offset(gep) == GepOffset(gep, "min")
getelementptr_max_offset(gep) == GepOffset(gep, "max")

\* The address of operand o, given the definitions and globals bound so far.
BindRef(acc, o) ==
  CASE o.defs = {} /\ o.v = Null      -> IntAddr(0)
    [] o.defs = {} /\ o.v \in Args \cup Opaque -> SymAddr(o.v)
    [] o.defs = {} /\ o.v \in Globals -> IntAddr(acc.globals[o.v])
    [] Cardinality(o.defs) = 1        -> acc.def[CHOOSE d \in o.defs : TRUE]
    [] OTHER -> LET ds == Up(o.defs)
                IN  IteAddr([k \in DOMAIN ds |-> <<ds[k], acc.def[ds[k]]>>], acc.def[ds[1]])

\* A global gets its address, below zero, where it is met first.
BindGlobal(acc, o) ==
  IF o.defs = {} /\ o.v \in Globals /\ acc.globals[o.v] = 0
  THEN [acc EXCEPT !.globals[o.v] = acc.global - GlobalBytes, !.global = @ - GlobalBytes]
  ELSE acc

BindGep(i, ref, const, lo, hi) ==
  LET The(S) == CHOOSE n \in S : TRUE
  IN  CASE const # {}                             -> PlusAddr(ref, The(const))
        [] const = {} /\ lo # {} /\ hi # {}       -> ClampAddr(i, The(lo), The(hi))
        [] const = {} /\ (lo = {} \/ hi = {})     -> SymAddr(i)

BindDef(acc, i) ==
  CASE g.kind[i] = "alloca" -> [acc EXCEPT !.def[i] = IntAddr(acc.stack), !.stack = @ + AllocaBits]
    [] g.kind[i] = "gep" ->
         [acc EXCEPT !.def[i] = BindGep(i, acc.ref[i], getelementptr_const_offset(g.gep[i]),
                                        getelementptr_min_offset(g.gep[i]),
                                        getelementptr_max_offset(g.gep[i]))]
    [] OTHER -> [acc EXCEPT !.def[i] = SymAddr(i)]

Bound ==
  LET Ref(acc, i) == [acc EXCEPT !.ref[i] = BindRef(acc, g.ptr[i])]
      Operand(acc, i) == IF g.kind[i] \notin {"load", "store", "gep"} THEN acc
                         ELSE Ref(BindGlobal(acc, g.ptr[i]), i)
      Bind(acc, i) == IF defines_addr(i) THEN BindDef(acc, i) ELSE acc
  IN  FoldLeft(LAMBDA acc, i : Bind(Operand(acc, i), i),
               [stack |-> 1, global |-> -1, globals |-> [v \in Globals |-> 0],
                def |-> [i \in Nodes |-> {}], ref |-> [i \in Nodes |-> {}]],
               Order)

construct_addrs ==
  LET Addressed(b) == [i \in Nodes |-> [node[i] EXCEPT !.def = b.def[i], !.ref = b.ref[i]]]
  IN  /\ step = "addrs" /\ step' = "aliases"
      /\ node' = Addressed(Bound)
      /\ UNCHANGED <<g, edges, dependencies, aliases, dominators, postdominators>>

get_memory_address(w, i) == ValueOf(w, node[i].ref)
same_addr(w, i, j) == Special(i) \/ Special(j)
                      \/ get_memory_address(w, i) = get_memory_address(w, j)

(***************************************************************************)
(* alias.cc, construct_aliases.  An address info is the node that defines  *)
(* a pointer or an argument or global that no node defines.                *)
(***************************************************************************)
AddrNodes == {i \in Nodes : defines_addr(i)}
FreeValues == {g.ptr[i].v : i \in {j \in Nodes : /\ g.kind[j] \in {"load", "store", "gep"}
                                                 /\ g.ptr[j].defs = {}}}
AddrInfos == AddrNodes \cup FreeValues
\* The call stack of an address info; a global has none.  g.argfunc is that of an argument.
FuncOf(v) == CASE v >= 0 -> g.func[v] [] v \in Args -> g.argfunc [] OTHER -> <<>>
AddrOf(v) == CASE v >= 0 -> node[v].def
               [] OTHER  -> (node[CHOOSE i \in Nodes : g.ptr[i] = [v |-> v, defs |-> {}]]).ref

\* LLVM's alias analysis of two values of one function.
AA(u, v) == CASE {u, v} \in g.noalias -> "No" [] {u, v} \in g.mustalias -> "Must" [] OTHER -> "May"

pointer_is_read_only(v) == \A i \in Nodes : g.kind[i] = "store" => g.ptr[i].v # v

\* The symbols of the addresses, and the worlds as far as addresses go.
Symbols == (FreeValues \cap (Args \cup Opaque)) \cup
           {i \in AddrNodes : /\ g.kind[i] # "alloca"
                              /\ g.kind[i] = "gep" => getelementptr_const_offset(g.gep[i]) = {}}
Addresses == [Symbols -> g.dom]

AliasHolds(w, aa) == (ValueOf(w, AddrOf(aa.u)) = ValueOf(w, AddrOf(aa.v))) <=> (aa.res = "Must")

\* add_aa asserts nothing of an address that a getelementptr, a cast or a load computes.
Asserted(v) == v < 0 \/ g.kind[v] \notin {"gep", "bitcast", "load"}

construct_aliases ==
  LET Alloca(v) == v >= 0 /\ g.kind[v] = "alloca"
      pairs  == {[u |-> u, v |-> v, res |-> AA(u, v)] : u, v \in AddrInfos}
      llvm   == {p \in pairs : /\ p.u < p.v /\ p.res # "May" /\ FuncOf(p.u) = FuncOf(p.v)
                               /\ ~(pointer_is_read_only(p.u) /\ pointer_is_read_only(p.v))}
      possible(p) == \E A \in SUBSET AddrNodes, f \in Addresses :
                       AliasHolds([arch |-> A, trans |-> {}, addr |-> f], p)
      Assertions(rel, clause) ==
        [windowed |-> {p \in clause : p.u >= 0 \/ p.v >= 0},
         global   |-> {p \in clause : p.u < 0 /\ p.v < 0} \cup
                      {[u |-> u, v |-> v, res |-> "No"] :
                         u \in {x \in AddrInfos : Alloca(x)}, v \in AddrInfos \cap Args},
         rel      |-> rel]
  IN  /\ step = "aliases"
      /\ step' = IF \A p \in llvm : possible(p) THEN "com" ELSE "abort"
      /\ aliases' = Assertions(llvm, {p \in llvm : Asserted(p.u) /\ Asserted(p.v)})
      /\ UNCHANGED <<g, node, edges, dependencies, dominators, postdominators>>

\* constrain_aliases, and the constraints that do not depend on the window.
constrain_aliases(W, w) ==
  /\ \A aa \in aliases.windowed : {aa.u, aa.v} \cap Nodes \subseteq W => AliasHolds(w, aa)
  /\ \A aa \in aliases.global : AliasHolds(w, aa)

(* check_alias looks a pointer up under the call stack of the access, not  *)
(* of the definition.                                                      *)
check_alias(i, j) ==
  LET Is(k, v) == g.ptr[k].v = v /\ g.func[k] = FuncOf(v)
      found    == {r \in aliases.rel : (Is(i, r.u) /\ Is(j, r.v)) \/ (Is(i, r.v) /\ Is(j, r.u))}
  IN  CASE Special(i) \/ Special(j) -> "Must"
        [] found # {}               -> (CHOOSE r \in found : TRUE).res
        [] OTHER                    -> "May"

\* construct_com and construct_comx.
construct_com ==
  /\ step = "com" /\ step' = "comx"
  /\ node' = [i \in Nodes |-> [node[i] EXCEPT !.read = may_read(i), !.write = may_write(i)]]
  /\ UNCHANGED <<g, edges, dependencies, aliases, dominators, postdominators>>

construct_comx ==
  /\ step = "comx" /\ step' = "dependencies"
  /\ node' = [i \in Nodes |-> [node[i] EXCEPT !.xsread = may_xsread(i), !.xswrite = may_xswrite(i)]]
  /\ UNCHANGED <<g, edges, dependencies, aliases, dominators, postdominators>>

construct_dependencies2 ==
  /\ step = "dependencies" /\ step' = "dominators"
  /\ dependencies' = FoldLeft(LAMBDA acc, i :
                                [acc EXCEPT ![i] = Refs(i) \cup UNION {acc[r] : r \in Refs(i)}],
                              [i \in Nodes |-> {}], Order)
  /\ UNCHANGED <<g, node, edges, aliases, dominators, postdominators>>

(***************************************************************************)
(* cfg/block.cc: maximal runs of nodes with one successor and one          *)
(* predecessor.  A block is named by its first node.                       *)
(***************************************************************************)
RECURSIVE construct_block(_)
construct_block(i) ==
  IF \E j \in Nodes : Succ(g.po, i) = {j} /\ Cardinality(Pred(g.po, j)) = 1
  THEN <<i>> \o construct_block(CHOOSE j \in Nodes : Succ(g.po, i) = {j})
  ELSE <<i>>

RECURSIVE BlocksFrom(_, _)
BlocksFrom(todo, done) ==
  IF todo = {} THEN done
  ELSE LET b == CHOOSE i \in todo : TRUE
       IN  BlocksFrom((todo \cup Succ(g.po, Last(construct_block(b)))) \ (done \cup {b}),
                      done \cup {b})

BlockCFG ==
  LET Graph(bs, block, of) ==
        [blocks |-> block, ref2block |-> of,
         po     |-> UNION {{<<b, of[i]>> : i \in Succ(g.po, Last(construct_block(b)))} : b \in bs}]
      Of(bs, block) == Graph(bs, block, [i \in Nodes |-> CHOOSE b \in bs : i \in block[b]])
      Blocks(bs) == Of(bs, [b \in bs |-> Range(construct_block(b))])
  IN  Blocks(BlocksFrom({Entry}, {}))

(* construct_dominators_shared2.  outs of a block whose successors are all *)
(* done is moved from; Moved stands for the empty optional left behind.    *)
Moved == {-1}

\* Mutant of dominators_shared2: the set is dropped after the first successor.
dominators_shared2Early(order, po) ==
  (FoldLeft(LAMBDA acc, b :
     LET in  == IF Pred(po, b) = {} THEN {}
                ELSE {d \in Nodes : \A p \in Pred(po, b) : d \in acc.outs[p]}
         out == in \cup {b}
     IN  [outs |-> [x \in DOMAIN acc.outs |->
                      CASE x = b -> out [] x \in Pred(po, b) -> Moved [] OTHER -> acc.outs[x]],
          done |-> acc.done \cup {b},
          doms |-> [d \in DOMAIN acc.doms |-> IF d \in out THEN acc.doms[d] \cup {b} ELSE acc.doms[d]]],
     [outs |-> [b \in Range(order) |-> {}], done |-> {}, doms |-> [b \in Range(order) |-> {}]],
     order)).doms

dominators_shared2(order, po) ==
  (FoldLeft(LAMBDA acc, b :
     LET in   == IF Pred(po, b) = {} THEN {}
                 ELSE {d \in Nodes : \A p \in Pred(po, b) : d \in acc.outs[p]}
         out  == in \cup {b}
         done == acc.done \cup {b}
     IN  [outs |-> [x \in DOMAIN acc.outs |->
                      CASE x = b -> out
                        [] x \in Pred(po, b) /\ Succ(po, x) \subseteq done -> Moved
                        [] OTHER -> acc.outs[x]],
          done |-> done,
          doms |-> [d \in DOMAIN acc.doms |-> IF d \in out THEN acc.doms[d] \cup {b} ELSE acc.doms[d]]],
     [outs |-> [b \in Range(order) |-> {}], done |-> {}, doms |-> [b \in Range(order) |-> {}]],
     order)).doms

construct_dominators ==
  LET Doms(bcfg) == dominators_shared2(Up(DOMAIN bcfg.blocks), bcfg.po)
  IN  /\ step = "dominators" /\ step' = "postdominators"
      /\ dominators' = Doms(BlockCFG)
      /\ UNCHANGED <<g, node, edges, dependencies, aliases, postdominators>>

construct_postdominators ==
  LET Doms(bcfg) == dominators_shared2(Reverse(Up(DOMAIN bcfg.blocks)), {<<e[2], e[1]>> : e \in bcfg.po})
  IN  /\ step = "postdominators" /\ step' = "addr"
      /\ postdominators' = Doms(BlockCFG)
      /\ UNCHANGED <<g, node, edges, dependencies, aliases, dominators>>

(***************************************************************************)
(* The dependences among loads and accesses.                               *)
(***************************************************************************)
\* for_each_dependency: the definitions of an operand and what they depend on.
DepsOf(defs) == defs \cup UNION {dependencies[d] : d \in defs}
Loads(S)     == {i \in S : may_read(i)}
Accesses     == {i \in Nodes : is_memory(i)}

construct_addr ==
  /\ step = "addr" /\ step' = "addr_gep"
  /\ edges' = FoldLeft(LAMBDA acc, d : acc \o
                 LET src == Up(Loads(DepsOf(g.ptr[d].defs)))
                 IN  [k \in DOMAIN src |-> Edge("ADDR", src[k], d, {{src[k], d}})],
               edges, Up(Accesses))
  /\ UNCHANGED <<g, node, dependencies, aliases, dominators, postdominators>>

construct_addr_gep ==
  /\ step = "addr_gep" /\ step' = "data"
  /\ edges' = FoldLeft(LAMBDA acc, d : acc \o
                 LET geps == {p \in DepsOf(g.ptr[d].defs) : g.kind[p] = "gep"}
                     By(s) == {p \in geps : s \in DepsOf(g.idx[p])}
                     src  == Up(Loads(UNION {DepsOf(g.idx[p]) : p \in geps}))
                 IN  [k \in DOMAIN src |->
                        Edge("ADDR_GEP", src[k], d, {{src[k], p, d} : p \in By(src[k])})],
               edges, Up(Accesses))
  /\ UNCHANGED <<g, node, dependencies, aliases, dominators, postdominators>>

construct_data ==
  /\ step = "data" /\ step' = "ctrl"
  /\ edges' = FoldLeft(LAMBDA acc, d : acc \o
                 LET src == Up(Loads(DepsOf(g.val[d])))
                 IN  [k \in DOMAIN src |-> Edge("DATA", src[k], d, {{src[k], d}})],
               edges, Up({i \in Nodes : g.kind[i] = "store"}))
  /\ UNCHANGED <<g, node, dependencies, aliases, dominators, postdominators>>

\* The blocks b dominates that do not postdominate it.
excl_doms(b) == {d \in dominators[b] : b \notin postdominators[d]}

construct_ctrl ==
  LET Body(bcfg, br) == Up({i \in UNION {bcfg.blocks[b] : b \in excl_doms(bcfg.ref2block[br])} :
                              may_access(i)})
      From(l, br, body) == [k \in DOMAIN body |-> Edge("CTRL", l, body[k], {{l, br, body[k]}})]
      Edges_(br, body) == FoldLeft(LAMBDA acc, l : acc \o From(l, br, body), <<>>, Up(Loads(dependencies[br])))
      Ctrl(bcfg) == FoldLeft(LAMBDA acc, br : acc \o Edges_(br, Body(bcfg, br)),
                             edges, Up({i \in Nodes : g.kind[i] = "branch"}))
  IN  /\ step = "ctrl" /\ step' = "taint"
      /\ edges' = Ctrl(BlockCFG)
      /\ UNCHANGED <<g, node, dependencies, aliases, dominators, postdominators>>

construct_attacker_taint ==
  /\ step = "taint" /\ step' = "built"
  /\ node' = [i \in Nodes |->
                [node[i] EXCEPT !.taint = IF g.control THEN ~Special(i) /\ i \in g.tainted ELSE TRUE]]
  /\ UNCHANGED <<g, edges, dependencies, aliases, dominators, postdominators>>

AEGInit ==
  /\ g \in Inputs
  /\ node = [i \in Nodes |-> NewNode]
  /\ edges = <<>>
  /\ dependencies = [i \in Nodes |-> {}]
  /\ aliases = [windowed |-> {}, global |-> {}, rel |-> {}]
  /\ dominators = <<>> /\ postdominators = <<>>
  /\ step = "nodes"

construct ==
  \/ construct_nodes \/ construct_arch \/ construct_tfo \/ construct_addrs
  \/ construct_aliases \/ construct_com \/ construct_comx \/ construct_dependencies2
  \/ construct_dominators \/ construct_postdominators
  \/ construct_addr \/ construct_addr_gep \/ construct_data \/ construct_ctrl
  \/ construct_attacker_taint
=============================================================================
