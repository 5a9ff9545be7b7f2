---------------------------- MODULE AEGConstraints ----------------------------
(***************************************************************************)
(* What a detector asks Z3 about one candidate transmitter: the windows of *)
(* nodes around it (aeg/util.cc, cfg/cfg.cc), the constraints on a window  *)
(* (aeg/constraints.cc) and the conditions of the communication edges      *)
(* (aeg/exists.cc), as predicates on worlds.                               *)
(***************************************************************************)
EXTENDS AEG, TLC

Unlimited == 99     \* numeric_limits<unsigned>::max()

(* for_each_pred_in_window: the nodes at most size steps before ref, and   *)
(* the entry and the exits.  The distance of a node that does not reach    *)
(* ref is the maximum, which an unlimited window admits too.               *)
Distances(ref) ==
  FoldLeft(LAMBDA acc, i :
             IF i = ref THEN acc
             ELSE LET m == MinOf({acc[j] : j \in Succ(g.po, i)}, Unlimited)
                  IN  [acc EXCEPT ![i] = IF m < Unlimited THEN m + 1 ELSE m],
           [i \in Nodes |-> IF i = ref THEN 0 ELSE Unlimited], Reverse(Order))

for_each_pred_in_window(ref, size) ==
  LET dist == Distances(ref) IN {i \in Nodes : Special(i) \/ dist[i] <= size}

shared_prefix(s, t) ==
  LET Same(k) == \A j \in 1 .. k : s[j] = t[j]
      ks      == {k \in 0 .. MinOf({Len(s)}, Len(t)) : Same(k)}
  IN  SubSeq(s, 1, CHOOSE k \in ks : \A j \in ks : j <= k)

(* prune_exec_window: drop the nodes of a callee that the window cuts off  *)
(* from the code of the function itself.                                   *)
prune_exec_window(W) ==
  LET out == [i \in W |->
                FoldLeft(LAMBDA f, j : shared_prefix(f, g.func[j]), g.func[i],
                         Up(Succ(g.po, i) \cap W))]
      map == FoldLeft(LAMBDA acc, i :
                        [acc EXCEPT ![i] =
                           FoldLeft(LAMBDA f, j : shared_prefix(f, acc[j]), acc[i],
                                    Up(Pred(g.po, i) \cap W))],
                      out, Up(W))
  IN  {i \in W : map[i] = <<>>}

(***************************************************************************)
(* The constraints on a window W.                                          *)
(***************************************************************************)
TfoIn(W, w, i)  == {e \in w.tfo : e[2] = i /\ e[1] \in W}
TfoOut(W, w, i) == {e \in w.tfo : e[1] = i /\ e[2] \in W}
exactly(S, n) == Cardinality(S) = n
atmost(S, n)  == Cardinality(S) <= n

constrain_arch(W, w) ==
  /\ Exit \in w.arch
  /\ \E i \in W : ~Special(i) /\ i \in w.arch

constrain_exec(W, w) == \A i \in W : ~(i \in w.arch /\ i \in w.trans)

constrain_trans(W, w) ==
  /\ \A i \in W : i \in w.trans => exactly(TfoIn(W, w, i), 1)
  /\ atmost(w.trans \cap W, g.depth)
  /\ g.cls = "v4" /\ g.lsq # Unlimited => atmost({i \in w.trans \cap W : may_access(i)}, g.lsq)

cold_start(W, w) == exactly({i \in W : ~Special(i) /\ i \in w.arch /\ TfoIn(W, w, i) = {}}, 1)

constrain_tfo(W, w) ==
  /\ \A i \in W : /\ i # Exit /\ i \in Exec(w) => atmost(TfoOut(W, w, i), 1)
                  /\ i # Entry /\ i \in w.trans => exactly(TfoIn(W, w, i), 1)
  /\ atmost({e \in w.tfo : {e[1], e[2]} \subseteq W /\ e[1] \in w.arch /\ e[2] \in w.trans}, 1)
  /\ cold_start(W, w)

(* The executions a solver admits for transmitter tx: the constraints, the *)
(* constraints of the tfo edges, and those of the two windows.             *)
Executions(tx, W, TW) ==
  LET V == {i \in W \cap TW : node[i].trans}
      Transients == {T \in SUBSET V : tx \in T}
      Archs(T)   == {A \cup {Entry, Exit} : A \in SUBSET (W \ (T \cup {Entry, Exit}))}
      Taken(A, T) == SUBSET {e \in Range(TfoEdges) : tfo_allowed(A, T, e)}
      Candidates == UNION {UNION {{[arch |-> A, trans |-> T, tfo |-> F] : F \in Taken(A, T)} :
                                    A \in Archs(T)} : T \in Transients}
  IN  {w \in Candidates : /\ constrain_arch(W, w) /\ constrain_exec(W, w)
                          /\ constrain_trans(W, w) /\ constrain_tfo(W, w)}

\* The worlds: executions xs with addresses.
Worlds(xs, W) ==
  LET World(x, f) == [arch |-> x.arch, trans |-> x.trans, tfo |-> x.tfo, addr |-> f]
  IN  {w \in {World(x, f) : x \in xs, f \in Addresses} : constrain_aliases(W, w)}

(***************************************************************************)
(* The order of the accesses to the microarchitectural state.  ord is a    *)
(* value for xsaccess_order; the state a node accesses is named by its      *)
(* address (constrain_comx).  A load may write the state or not; only rfx  *)
(* edges from stores and the entry are asked for, and for them a load that *)
(* writes excludes more, so loads are taken not to.                        *)
(***************************************************************************)
XSAccesses(W) == {i \in W : is_memory(i)}
xswrites(W) == {i \in XSAccesses(W) : may_xswrite(i) = "MUST"}

\* Mutant of fence_order: only the last access before a fence is ordered.
fence_orderLast(W, ord) ==
  \A f \in {i \in W : g.kind[i] = "fence"} : \A i, j \in XSAccesses(W) :
    i < f /\ f < j /\ (\A k \in XSAccesses(W) : ~(i < k /\ k < f)) => ord[i] <= ord[j]

\* Every access before a fence precedes every access after it, in the order of the nodes.
fence_order(W, ord) ==
  \A f \in {i \in W : g.kind[i] = "fence"} :
    \A i, j \in XSAccesses(W) : i < f /\ f < j => ord[i] < ord[j]

assert_xsaccess_order(W, w, ord) ==
  LET Writes(i) == {j \in xswrites(W) \cap w.arch :
                      j < i /\ get_memory_address(w, j) = get_memory_address(w, i)}
      Latest(js) == IF js = {} THEN 0 ELSE ord[Max(js)]
  IN  /\ \A i \in XSAccesses(W) \cap w.arch : Latest(Writes(i)) < ord[i]
      /\ fence_order(W, ord)

xsaccess_order_less(ord, a, b) ==
  /\ a # b /\ b # Entry /\ a # Exit
  /\ \/ a = Entry \/ b = Exit
     \/ IF a < b THEN ord[a] <= ord[b] ELSE ord[a] < ord[b]

rfx_exists(W, w, ord, src, dst) ==
  LET Same(i, j) == Special(i) \/ Special(j) \/ get_memory_address(w, i) = get_memory_address(w, j)
      less(a, b) == xsaccess_order_less(ord, a, b)
  IN  /\ {src, dst} \subseteq Exec(w)
      /\ src \in xswrites(W) \cup {Entry}
      /\ Same(src, dst) /\ less(src, dst)
      /\ ~\E i \in xswrites(W) \cap Exec(w) :
            Same(i, src) /\ Same(i, dst) /\ less(src, i) /\ less(i, dst)

(* Z3 finds a model for w in which the rfx edges exist.  Only the order of *)
(* the values matters, and a tie is an order of the nodes for every reader *)
(* (xsaccess_order_less), so a permutation of the accesses is enough.      *)
(* Without an rfx edge the order of the nodes satisfies the assertions.    *)
Orderable(W, w, rfx) ==
  LET X == XSAccesses(W)
  IN  \/ rfx = {}
      \/ \E ord \in Permutations(X) :
           /\ assert_xsaccess_order(W, w, ord)
           /\ \A e \in rfx : rfx_exists(W, w, ord, e[1], e[2])
=============================================================================
