------------------------------- MODULE LeakSpec -------------------------------
(***************************************************************************)
(* What the graph, the constraints and the search are for: paths, control  *)
(* dependence and chains of dependences defined without the algorithms of  *)
(* Clou, and the properties that compare Clou's results with them.         *)
(***************************************************************************)
EXTENDS Detector

(***************************************************************************)
(* Paths of the CFG.                                                       *)
(***************************************************************************)
RECURSIVE PathsFrom(_, _)
PathsFrom(i, S) ==    \* the paths from i within S, as sequences
  {<<i>>} \cup UNION {{<<i>> \o p : p \in PathsFrom(j, S)} : j \in Succ(g.po, i) \cap S}

FullPaths == {p \in PathsFrom(Entry, Nodes) : Last(p) = Exit}
Reaches(i, j, S) == \E p \in PathsFrom(i, S) : Last(p) = j
Steps(p) == {<<p[k], p[k + 1]>> : k \in 1 .. Len(p) - 1}

(* A partial execution: an architectural path, then a transient one that   *)
(* starts where the processor may mispredict and ends at the transmitter.  *)
(* It starts in the function itself, at a return to it, or further down.   *)
PartialExecutions(tx, W) ==
  LET inner   == {i \in W : ~Special(i)}
      home(i) == \/ g.func[i] = <<>>
                 \/ \E j \in Succ(g.po, i) \cap W : shared_prefix(g.func[i], g.func[j]) = <<>>
      starts  == {i \in inner : \E h \in inner : home(h) /\ Reaches(h, i, inner)}
      whole   == {p \in UNION {PathsFrom(i, inner) : i \in starts} : Last(p) = tx}
      cuts(p) == {k \in 1 .. Len(p) - 1 :
                    /\ may_introduce_speculation(p[k])
                    /\ Len(p) - k <= g.depth
                    /\ \A m \in k + 1 .. Len(p) : g.kind[p[m]] # "fence"
                    /\ g.cls = "v4" /\ g.lsq # Unlimited =>
                         Cardinality({m \in k + 1 .. Len(p) : is_memory(p[m])}) <= g.lsq}
  IN  UNION {{[arch  |-> {p[m] : m \in 1 .. k} \cup {Entry, Exit},
               trans |-> {p[m] : m \in k + 1 .. Len(p)},
               tfo   |-> Steps(p)] : k \in cuts(p)} : p \in whole}

(***************************************************************************)
(* Chains of dependences that lead back from the transmitter.  A link is a *)
(* dependence the class asks for, or one step of traceback: by the address *)
(* of the load, or by the data of the store it reads from.                 *)
(***************************************************************************)
Committed(it, from) ==
  IF it > Len(Deps) THEN {}
  ELSE {[how |-> "dep", it |-> it, e |-> e, rf |-> -1] : e \in get_in(from, Deps[it][1])}
Traced(from, mode) ==
  {[how |-> mode, it |-> 0, e |-> e, rf |-> -1] : e \in get_in(from, "ADDR")} \cup
  UNION {{[how |-> mode, it |-> 0, e |-> e, rf |-> s] : e \in get_in(s, "DATA")} :
           s \in {x \in job.window : may_write(x) /\ ~BeforeAlloca(x, from)}}

InWindow(l) == {l.e.src, l.e.dst} \subseteq job.window

LinkHolds(w, l, from) ==
  LET R == {i \in job.window : Reaches(i, from, job.window)}
  IN  /\ EdgeModes(w, l.e)
      /\ same_basic_block(l.e.src, l.e.dst) => Chain(l.e.src, l.e.dst) \subseteq Exec(w)
      /\ l.how = "dep" => l.e.src \in ExecIn(w, Deps[l.it][2])
      /\ l.how # "dep" => from \in Exec(w) /\ may_read(from)
      /\ l.rf # -1 => l.rf \in R /\ rf_holds(w, l.rf, from, R) /\ l.rf \in ExecIn(w, l.how)

\* A chain: its nodes from the transmitter, what is left to commit and to
\* trace, the stores read from, and the worlds in which its links hold.
Extend(c, l) ==
  [vec |-> Append(c.vec, l.e.src),
   it  |-> IF l.how = "dep" THEN c.it + 1 ELSE c.it,
   tb  |-> IF l.how = "dep" THEN c.tb ELSE c.tb + 1,
   rf  |-> IF l.rf = -1 THEN c.rf ELSE c.rf \cup {<<l.rf, Last(c.vec)>>},
   worlds |-> {w \in c.worlds : LinkHolds(w, l, Last(c.vec))}]

RECURSIVE Chains(_)
Chains(c) ==
  LET from == Last(c.vec)
      next == {l \in Committed(c.it, from) \cup
                     (IF c.tb < g.max_traceback /\ from # job.tx THEN Traced(from, "EXEC") ELSE {}) :
                 InWindow(l)}
  IN  {c} \cup UNION {Chains(Extend(c, l)) : l \in next}

Complete == {c \in Chains([vec |-> <<job.tx>>, it |-> 1, tb |-> 0, rf |-> {},
                           worlds |-> Worlds(PartialExecutions(job.tx, job.all), job.window)]) :
               c.it > Len(Deps)}

V1Leaks == {Reverse(c.vec) : c \in {x \in Complete :
              /\ g.control => node[Last(x.vec)].taint
              /\ \E w \in x.worlds : g.control => BranchTainted(w)}}

\* Spectre v4 traces the load further, through stores executed architecturally.
RECURSIVE Older(_)
Older(c) ==
  {c} \cup UNION {Older(Extend(c, l)) :
                    l \in {x \in (IF c.tb < g.max_traceback THEN Traced(Last(c.vec), "ARCH") ELSE {}) :
                             InWindow(x)}}

Filtered(rf) == \E p \in rf : get_in(p[1], "ADDR") = {} /\ check_alias(p[1], p[2]) = "No"

\* The operand that is node a itself.
Def_(a) == [v |-> a, defs |-> {a}]

\* The accesses from the bypassed store to the load fit in the queue (--lsq).
QueueHolds(b, l) ==
  g.lsq = Unlimited \/ Cardinality({i \in job.window : is_memory(i) /\ i \in b .. l}) <= g.lsq

Bypasses(c) ==
  LET l == Last(c.vec)
      R == {i \in job.window : Reaches(i, l, job.window)}
  IN  {<<s, b>> \in {<<x, y>> \in job.window \X (R \ {Entry}) : may_write(x) /\ may_write(y) /\ x < y} :
         /\ ~BeforeAlloca(b, l) /\ ~Filtered(c.rf \cup {<<b, l>>}) /\ QueueHolds(b, l)
         /\ g.diff_names => ~\E a \in Nodes : g.kind[a] = "alloca" /\ g.ptr[b] = Def_(a) /\ g.ptr[l] = Def_(a)
         /\ \E w \in c.worlds :
              /\ Range(c.vec) \subseteq w.trans
              /\ b \in w.arch /\ rf_holds(w, b, l, R)
              /\ same_addr(w, s, l)
              /\ Orderable(job.window, w, {<<s, l>>})}

EntryLeaks ==      \* without concrete sourced stores the load reads what the entry left
  {<<Entry, Entry, Last(c.vec), job.tx>> : c \in {x \in Complete :
     /\ ~Filtered(x.rf)
     /\ \E w \in x.worlds : /\ Range(x.vec) \subseteq w.trans
                            /\ Orderable(job.window, w, {<<Entry, Last(x.vec)>>})}}

V4Leaks ==
  UNION {{<<p[1], p[2], Last(c.vec), job.tx>> : p \in Bypasses(c)} : c \in UNION {Older(x) : x \in Complete}}

Leaks == CASE g.cls # "v4"  -> V1Leaks
           [] g.cls = "v4" /\ g.concrete  -> V4Leaks
           [] g.cls = "v4" /\ ~g.concrete -> EntryLeaks

(***************************************************************************)
(* The properties.                                                         *)
(***************************************************************************)
(* The solver of a job admits exactly the partial executions of the window *)
(* (constraints.cc).  Neither the variables construct_nodes makes FALSE by *)
(* a distance nor the nodes prune_exec_window drops cost an execution or a *)
(* candidate, and the counting constraints leave nothing but paths.        *)
ExecutionsExact ==
  /\ step = "solver" => job.execs = PartialExecutions(job.tx, job.all)
  /\ step = "jobs" /\ job = <<>> =>
       \A e \in EdgesOf(Deps[1][1]) :
         e.dst \in g.seen \cup todo
         \/ PartialExecutions(e.dst, for_each_pred_in_window(e.dst, g.window)) = {}

Later(p, i, j) == \E k, m \in DOMAIN p : p[k] = i /\ p[m] = j /\ k < m

\* The accesses a branch decides on: it is on every path to them, and some path
\* from it avoids them.
Decided(b) ==
  {a \in Nodes \ {b} : /\ may_access(a)
                       /\ \A p \in FullPaths : a \in Range(p) => Later(p, b, a)
                       /\ \E p \in FullPaths : b \in Range(p) /\ a \notin Range(p)}

\* Those before the paths from the branch have come together again.
Immediate(b) ==
  {a \in Decided(b) : ~\E d \in Nodes \ {a, b} :
     /\ \A p \in FullPaths : b \in Range(p) => Later(p, b, d)
     /\ \E p \in FullPaths : Later(p, b, d) /\ Later(p, d, a)}

(* construct_ctrl misses no control dependence and makes none up.          *)
(* construct.cc:844, "Control dependencies can only be from a dominator    *)
(* node to a node that has no intervening post-dominators": each load that *)
(* a branch depends on has an edge to each such access; and every edge     *)
(* goes from a load that a branch depends on to an access that the branch  *)
(* decides on.  Whether there are edges past an intervening post-dominator *)
(* is left open.                                                           *)
CtrlCovers ==
  LET branches == {i \in Nodes : g.kind[i] = "branch"}
      ctrl     == {<<e.src, e.dst>> : e \in EdgesOf("CTRL")}
  IN  step = "taint" =>
        /\ UNION {Loads(dependencies[b]) \X Immediate(b) : b \in branches} \subseteq ctrl
        /\ ctrl \subseteq UNION {Loads(dependencies[b]) \X Decided(b) : b \in branches}

(* The search reports exactly the leaks: no branch of it is cut off by a   *)
(* constraint left behind by another, by the look ahead, by the filter on  *)
(* addresses or by a check that timed out.  In fast mode it stops at the   *)
(* first.                                                                  *)
LeaksExact ==
  LET Exact_(found, all) == IF g.fast THEN found \subseteq all /\ (found = {} => all = {})
                            ELSE found = all
  IN  step = "searched" => Exact_(job.st.leaks, Leaks)

(* The assertions of output_execution, traceback_rf and run_sourced_store  *)
(* hold: a leak is output only after a successful look ahead, with a       *)
(* satisfiable solver and with actions that form one chain.                *)
OutputAsserts == job # <<>> => ~job.st.bad

(* A fence on every way from a store to a load keeps the load from         *)
(* bypassing the store (assert_xsaccess_order).                            *)
FenceBlocks ==
  step = "searched" /\ g.cls = "v4" /\ g.concrete =>
    \A v \in job.st.leaks :
      \E p \in PathsFrom(v[2], {i \in Nodes : g.kind[i] # "fence"}) : Last(p) = v[3]
=============================================================================
