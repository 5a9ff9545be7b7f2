------------------------------- MODULE Detector -------------------------------
(***************************************************************************)
(* leakage/leakage.cc, spectre-v1.cc and spectre-v4.cc: the search of one  *)
(* job for leaks at one candidate transmitter.  The search backtracks over *)
(* a Z3 solver; its state is a record                                      *)
(*   worlds, rfx   the solver: the worlds that satisfy what was asserted,  *)
(*                 and the rfx edges asserted                              *)
(*   leaks, actions, depth, tmp    leaks, actions, traceback_depth and     *)
(*                 lookahead_tmp of the job                                *)
(*   thrown        "none", or the exception on its way: "found"            *)
(*                 (lookahead_found) or "next" (next_transmitter)          *)
(*   bad           an assertion of the code failed                         *)
(* The callbacks the code passes down are records applied by Apply.  Loops *)
(* over hash sets take the nodes in ascending order.                       *)
(***************************************************************************)
EXTENDS AEGConstraints

VARIABLES
  todo,    \* the candidate transmitters no job was run for
  job,     \* the windows, the solver and the results of the last job
  leaks    \* the leaks found

detVars == <<aegVars, todo, job, leaks>>

ExecIn(w, mode) == CASE mode = "ARCH" -> w.arch [] mode = "TRANS" -> w.trans [] mode = "EXEC" -> Exec(w)

\* get_deps, the last dependence first as traceback_deps walks them.
Deps == CASE g.cls = "v1-addr" -> <<<<"ADDR", "TRANS">>, <<"ADDR_GEP", "EXEC">>>>
          [] g.cls = "v1-ctrl" -> <<<<"CTRL", "TRANS">>, <<"ADDR_GEP", "EXEC">>>>
          [] g.cls = "v4"      -> <<<<"ADDR", "TRANS">>, <<"ADDR", "TRANS">>>>

get_candidate_transmitters ==
  {e.dst : e \in {x \in EdgesOf(Deps[1][1]) :
                    (Deps[1][2] = "TRANS" => node[x.dst].trans) /\ may_access(x.dst)}} \ g.seen

(***************************************************************************)
(* The solver.  A check under a time limit may answer unknown, which the   *)
(* callers take for not unsat.                                             *)
(***************************************************************************)
Sat(st) == \E w \in st.worlds : Orderable(job.window, w, st.rfx)
solver_unsat(st) == ~g.timeouts /\ ~Sat(st)

\* Mutants of Pop: the scope of the solver, or that of the actions, is missing.
PopActions(outer, st) == [st EXCEPT !.actions = outer.actions, !.depth = outer.depth]
PopSolver(outer, st) == [st EXCEPT !.worlds = outer.worlds, !.rfx = outer.rfx, !.depth = outer.depth]

\* A scope of the solver and of the stacks ends; what the job found stays.
Pop(outer, st) == [st EXCEPT !.worlds = outer.worlds, !.rfx = outer.rfx,
                             !.actions = outer.actions, !.depth = outer.depth]
Push(st, s, k, d) == [st EXCEPT !.actions = Append(@, [src |-> s, edge |-> k, dst |-> d])]

check_edge(s, d) == s \in job.window /\ d \in job.window

RECURSIVE Chain(_, _)
Chain(src, dst) ==
  CASE src > dst -> {-1}
    [] src = dst -> {}
    [] src < dst /\ Cardinality(Succ(g.po, src)) # 1 -> {-1}
    [] OTHER -> {src} \cup Chain(CHOOSE j \in Nodes : j \in Succ(g.po, src), dst)

same_basic_block(src, dst) == -1 \notin Chain(src, dst)

\* What assert_edge adds besides the nodes between two nodes of a basic block.
EdgeModes(w, e) ==
  /\ Exists(w, e)
  /\ e.src \in w.trans => e.dst \in w.trans
  /\ e.dst \in w.arch => e.src \in w.arch

assert_edge(st, e) ==
  [st EXCEPT !.worlds = {w \in @ :
     /\ EdgeModes(w, e)
     /\ same_basic_block(e.src, e.dst) => Chain(e.src, e.dst) \subseteq Exec(w)}]

(***************************************************************************)
(* precompute_rf: the stores a load can read from, each with the condition *)
(* that it is the last one executed before the load to the same address.   *)
(***************************************************************************)
RECURSIVE reachable_r(_, _)
reachable_r(todo_, seen) ==
  IF todo_ = {} THEN seen
  ELSE LET new == (todo_ \cap job.window) \ seen
       IN  reachable_r(UNION {Pred(g.po, i) : i \in new}, seen \cup new)

MayEqual(s, l) == \E A \in SUBSET AddrNodes, f \in Addresses :
                    same_addr([arch |-> A, trans |-> {}, addr |-> f], s, l)

BeforeAlloca(s, l) == LET o == g.ptr[l]
                      IN  \E a \in o.defs : o.v = a /\ g.kind[a] = "alloca" /\ s < a

rf_holds(w, s, l, R) ==
  LET Writes(x) == x \in Exec(w) /\ same_addr(w, x, l)
  IN  Writes(s) /\ ~\E x \in R : s < x /\ may_write(x) /\ Writes(x)

rf_sources(l) ==
  IF l = Exit \/ ~may_read(l) THEN {}
  ELSE {s \in reachable_r({l}, {}) : may_write(s) /\ ~BeforeAlloca(s, l) /\ (s = Entry \/ MayEqual(s, l))}

RfWindow(mode) == IF mode = "TRANS" THEN job.trans_window ELSE job.window

(***************************************************************************)
(* output_execution.                                                       *)
(***************************************************************************)
Linked(acts) == \A k \in 1 .. Len(acts) - 1 : acts[k + 1].dst = acts[k].src

output_execution(st, vec) ==
  [st EXCEPT !.leaks = @ \cup {vec},
             !.bad = @ \/ ~st.tmp \/ ~Sat(st) \/ ~Linked(st.actions),
             !.thrown = IF g.fast THEN "next" ELSE @]

(***************************************************************************)
(* Spectre v1: the leak needs an attacker-controlled first load and a      *)
(* mispredicted branch on an attacker-controlled condition.                *)
(***************************************************************************)
BranchTainted(w) ==
  \E b \in job.window : /\ g.kind[b] = "branch" /\ b \in w.arch /\ node[b].taint
                        /\ \E e \in w.tfo : e[1] = b /\ e[2] \in job.window /\ e[2] \in w.trans

run_postdeps(vec, mode, st) ==
  LET Judge(in) == IF Sat(in) THEN output_execution(in, Reverse(vec)) ELSE in
  IN  CASE mode = "SLOW" /\ ~Sat(st)                -> st
        [] g.control /\ ~node[Last(vec)].taint      -> st
        [] mode = "FAST"                            -> [st EXCEPT !.thrown = "found"]
        [] OTHER -> Judge(IF g.control THEN [st EXCEPT !.worlds = {w \in @ : BranchTainted(w)}]
                          ELSE st)

(***************************************************************************)
(* Spectre v4: a load bypasses the store it should have read from and      *)
(* reads an older one.                                                     *)
(***************************************************************************)
filter(st) ==
  \E k \in DOMAIN st.actions :
    LET a == st.actions[k]
    IN  a.edge = "RF" /\ get_in(a.src, "ADDR") = {} /\ check_alias(a.src, a.dst) = "No"

check_solution(vec, load, bypassed, sourced, mode, st) ==
  CASE filter(st)                   -> st
    [] mode = "FAST"                -> [st EXCEPT !.thrown = "found"]
    [] mode = "SLOW" /\ ~Sat(st)    -> st
    [] OTHER -> output_execution(st, <<sourced, bypassed, load, vec[1]>>)

run_sourced_store(load, bypassed, vec, mode, st) ==
  FoldLeft(LAMBDA acc, s :
             IF acc.thrown # "none" THEN acc
             ELSE LET in == IF mode = "FAST" THEN acc
                            ELSE [acc EXCEPT !.worlds = {w \in @ : same_addr(w, s, load)},
                                             !.rfx = @ \cup {<<s, load>>}]
                  IN  Pop(acc, check_solution(vec, load, bypassed, s, mode, in)),
           [st EXCEPT !.bad = @ \/ ~(bypassed < load)],
           Up({s \in job.window : s < bypassed /\ may_write(s)}))

\* constrain_lsq counts the accesses between the two, executed or not.
LsqHolds(s, l) == g.lsq # Unlimited =>
  atmost({i \in job.window : s <= i /\ i <= l /\ is_memory(i)}, g.lsq)

\* diff_names: two allocas of one call must be different ones.
different_names(l, s) ==
  LET Alloca(i) == \E a \in g.ptr[i].defs : g.ptr[i].v = a /\ g.kind[a] = "alloca"
  IN  Alloca(l) /\ Alloca(s) /\ g.func[l] = g.func[s] => g.ptr[l].v # g.ptr[s].v

bypass(load, vec, s, mode, st) ==
  LET lsq == IF mode = "FAST" THEN st ELSE [st EXCEPT !.worlds = {w \in @ : LsqHolds(s, load)}]
      in  == IF mode = "FAST" THEN st ELSE [lsq EXCEPT !.worlds = {w \in @ : s \in w.arch}]
  IN  CASE s = Entry                            -> st
        [] s # Entry /\ g.diff_names /\ ~different_names(load, s) -> lsq
        [] mode = "SLOW" /\ solver_unsat(in)    -> in
        [] OTHER -> run_sourced_store(load, s, vec, mode, in)

(* The bypassed store is any earlier store to the address; the entry is    *)
(* one, so the disjunction is never false.                                 *)
Ancestors(i) == {j \in Nodes : Distances(i)[j] < Unlimited}

run_bypassed_store_fast(load, vec, mode, st) ==
  LET stores == {s \in Ancestors(load) : may_write(s)}
      in     == [st EXCEPT !.worlds = {w \in @ : \E s \in stores : s \in w.arch /\ same_addr(w, s, load)}]
  IN  IF mode = "FAST" THEN [st EXCEPT !.thrown = "found"]
      ELSE check_solution(vec, load, Entry, Entry, mode, in)

(***************************************************************************)
(* The search.                                                             *)
(***************************************************************************)
RECURSIVE Apply(_, _, _, _)

\* lookahead: does the rest of the search, without the solver, find anything?
Looks(mode) == mode = "SLOW" /\ g.lookahead
lookahead(st, ahead) == [st EXCEPT !.tmp = (ahead.thrown = "found"), !.bad = ahead.bad]

Ahead(k, s, mode, st) == IF Looks(mode) THEN lookahead(st, Apply(k, s, "FAST", st)) ELSE st

traceback_rf(load, exec_mode, k, mode, st) ==
  LET R == reachable_r({load}, {})
      Assume(acc, s) ==
        IF mode = "FAST" THEN acc
        ELSE [acc EXCEPT !.worlds = {w \in @ : rf_holds(w, s, load, R) /\ s \in ExecIn(w, exec_mode)}]
      Go(acc, s) == IF Looks(mode) /\ ~acc.tmp THEN acc
                    ELSE Pop(acc, Apply(k, s, mode, Push(Assume(acc, s), s, "RF", load)))
      One(acc, s) == IF acc.thrown # "none" \/ s \notin RfWindow(exec_mode) THEN acc
                     ELSE Go(Ahead(k, s, mode, acc), s)
      Over(sources) ==
        FoldLeft(One, [st EXCEPT !.bad = @ \/ (sources # {} /\ load \notin job.window)], Up(sources))
  IN  Over(rf_sources(load))

traceback_edge(kind, ref, k, mode, st) ==
  LET Assume(acc, e) == Push(IF mode = "FAST" THEN acc ELSE assert_edge(acc, e), e.src, kind, ref)
      Go(s, in) == IF Looks(mode) /\ ~in.tmp THEN in ELSE Apply(k, s, mode, in)
      Edge_(s) == CHOOSE e \in get_in(ref, kind) : e.src = s
      One(acc, s) == IF acc.thrown # "none" \/ ~check_edge(s, ref) THEN acc
                     ELSE Pop(acc, Go(s, Ahead(k, s, mode, Assume(acc, Edge_(s)))))
  IN  FoldLeft(One, st, Up({e.src : e \in get_in(ref, kind)}))

traceback(load, exec_mode, k, mode, st) ==
  LET Addr(rf) == IF rf.thrown # "none" THEN rf ELSE traceback_edge("ADDR", load, k, mode, rf)
      Go(in) == IF mode = "SLOW" /\ solver_unsat(in) THEN st
                ELSE Pop(st, Addr(traceback_rf(load, exec_mode, [f |-> "data", then |-> k], mode,
                                               [in EXCEPT !.depth = @ + 1])))
  IN  IF st.depth = g.max_traceback THEN st
      ELSE Go(IF mode = "FAST" THEN st
              ELSE [st EXCEPT !.worlds = {w \in @ : load \in Exec(w) /\ may_read(load)}])

run_bypassed_store(load, vec, mode, st) ==
  LET Older(rf) == IF rf.thrown # "none" THEN rf
                   ELSE traceback(load, "ARCH", [f |-> "older", vec |-> vec], mode, rf)
  IN  CASE ~g.concrete -> run_bypassed_store_fast(load, vec, mode, st)
        [] g.concrete /\ mode = "SLOW" /\ solver_unsat(st) -> st
        [] OTHER -> Older(traceback_rf(load, "ARCH", [f |-> "bypass", load |-> load, vec |-> vec],
                                       mode, st))

\* Every load of the chain is transient.
run_transmitter(vec, mode, st) ==
  LET load == Last(vec)
      in   == [st EXCEPT !.worlds = {w \in @ : Range(vec) \subseteq w.trans},
                         !.bad = @ \/ ~may_read(load)]
      rfx  == IF g.concrete THEN in ELSE [in EXCEPT !.rfx = @ \cup {<<Entry, load>>}]
  IN  run_bypassed_store(load, vec, mode, IF mode = "FAST" THEN st ELSE rfx)

Found(vec, mode, st) == IF g.cls = "v4" THEN run_transmitter(vec, mode, st)
                        ELSE run_postdeps(vec, mode, st)

traceback_deps_rec(it, vec0, from, mode, st) ==
  LET vec  == Append(vec0, from)
      srcs == IF it > Len(Deps) THEN {} ELSE get_in(from, Deps[it][1])
      Assume(acc, e) ==
        IF mode = "FAST" THEN acc
        ELSE [assert_edge(acc, e) EXCEPT !.worlds = {w \in @ : e.src \in ExecIn(w, Deps[it][2])}]
      Next_(acc, e) ==
        Pop(acc, Apply([f |-> "deps", it |-> it + 1, vec |-> vec], e.src, mode,
                       Push(Assume(acc, e), e.src, e.kind, from)))
      Commit(acc, s) == IF acc.thrown # "none" \/ ~check_edge(s, from) THEN acc
                        ELSE Next_(acc, CHOOSE e \in srcs : e.src = s)
      Label(in) == IF in.thrown # "none" \/ from = vec[1] THEN in
                   ELSE traceback(from, "EXEC", [f |-> "deps", it |-> it, vec |-> vec], mode, in)
      Go(in) ==
        CASE Looks(mode) /\ ~in.tmp -> in
          [] ~(Looks(mode) /\ ~in.tmp) /\ it <= Len(Deps) /\ srcs = {} -> Label(in)
          [] OTHER ->
               IF mode = "SLOW" /\ solver_unsat(in) THEN in
               ELSE Label(IF it > Len(Deps) THEN Found(vec, mode, in)
                          ELSE FoldLeft(Commit, in, Up({e.src : e \in srcs})))
  IN  Go(IF Looks(mode) THEN lookahead(st, Apply([f |-> "deps", it |-> it, vec |-> vec], from, "FAST", st)) ELSE st)

(* k.f names the callback: continue with dependence k.it, follow a data    *)
(* dependence of the store, try the store as the one bypassed, or start    *)
(* again from an older load.                                               *)
Apply(k, ref, mode, st) ==
  CASE k.f = "deps"   -> traceback_deps_rec(k.it, k.vec, ref, mode, st)
    [] k.f = "data"   -> traceback_edge("DATA", ref, k.then, mode, st)
    [] k.f = "bypass" -> bypass(k.load, k.vec, ref, mode, st)
    [] k.f = "older"  ->
         run_bypassed_store(ref, Append(k.vec, ref), mode,
           IF mode = "FAST" THEN st ELSE [st EXCEPT !.worlds = {w \in @ : ref \in w.trans}])

traceback_deps(mode, st) == Apply([f |-> "deps", it |-> 1, vec |-> <<>>], job.tx, mode, st)

(***************************************************************************)
(* The jobs.  DetectorPool models how they share threads and results; here *)
(* they run one after another, in any order.                               *)
(***************************************************************************)
NoSearch == [worlds |-> {}, rfx |-> {}, leaks |-> {}, actions |-> <<>>, depth |-> 0,
             tmp |-> TRUE, thrown |-> "none", bad |-> FALSE]

run ==
  /\ step = "built" /\ step' = "jobs"
  /\ todo' = get_candidate_transmitters
  /\ UNCHANGED <<g, node, edges, dependencies, aliases, dominators, postdominators, job, leaks>>

\* for_one_transmitter: the windows,
windows(tx) ==
  LET W == for_each_pred_in_window(tx, g.window)
  IN  /\ step = "jobs" /\ tx \in todo /\ step' = "windows"
      /\ todo' = todo \ {tx}
      /\ job' = [tx |-> tx, all |-> W, window |-> prune_exec_window(W),
                 trans_window |-> for_each_pred_in_window(tx, g.depth),
                 execs |-> {}, st |-> NoSearch]
      /\ UNCHANGED <<g, node, edges, dependencies, aliases, dominators, postdominators, leaks>>

\* a first look ahead, and the solver with the constraints of the window,
constrain ==
  LET Goes(st) == st.tmp /\ job.tx # Exit
      With(st, xs) == [job EXCEPT !.execs = xs, !.st = [st EXCEPT !.worlds = Worlds(xs, job.window)]]
      Begin(st) ==
        /\ step' = IF Goes(st) THEN "solver" ELSE "searched"
        /\ job' = With(st, IF Goes(st) THEN Executions(job.tx, job.window, job.trans_window) ELSE {})
  IN  /\ step = "windows"
      /\ Begin(IF g.lookahead
               THEN lookahead(NoSearch, traceback_deps("FAST", NoSearch))
               ELSE NoSearch)
      /\ UNCHANGED <<g, node, edges, dependencies, aliases, dominators, postdominators, todo, leaks>>

\* and the search.
search ==
  LET End(st) == /\ job' = [job EXCEPT !.st = [st EXCEPT !.worlds = {}]]
                 /\ leaks' = leaks \cup st.leaks
  IN  /\ step = "solver" /\ step' = "searched"
      /\ End(IF solver_unsat(job.st) THEN job.st
             ELSE traceback_deps("SLOW", job.st))
      /\ UNCHANGED <<g, node, edges, dependencies, aliases, dominators, postdominators, todo>>

next_job ==
  /\ step = "searched" /\ step' = "jobs"
  /\ UNCHANGED <<g, node, edges, dependencies, aliases, dominators, postdominators, todo, job, leaks>>

Init == AEGInit /\ todo = {} /\ job = <<>> /\ leaks = {}

Next == \/ construct /\ UNCHANGED <<todo, job, leaks>>
        \/ run \/ (\E tx \in todo : windows(tx)) \/ constrain \/ search \/ next_job

Spec == Init /\ [][Next]_detVars
=============================================================================
