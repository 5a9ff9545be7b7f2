# A verification project for Clou

Clou is an LLVM pass that looks for transmitters of secrets in compiled
functions. This directory models its processes and its analysis in TLA+,
model-checks it on small instances with TLC and proves part of it, for every
value of the constants, with TLAPS. Source lines are named in `PROJECT.json`
(`map`); paths below are relative to `src/src/`.

## The system

One **compile process** runs per translation unit, several at a time. Its
module pass (`lcm.cc`) makes a list of functions, visits them callees first and
analyses each:

1. `CFG_Unrolled` (`cfg/unrolled.cc`) inlines calls and unrolls loops;
   `CFG::prune` (`cfg/cfg.cc`) removes nodes that lead nowhere.
2. `CFG_Calls` (`cfg/calls.cc`) splits external calls into one node per pointer
   argument; `CFG::sort` numbers the nodes topologically.
3. `CFG_Expanded` (`cfg/expanded.cc`) copies the graph and binds each
   operand to the nodes that define it (`resolve_refs`).
4. `AEG` (`aeg/`) turns the graph into z3 constraints.
5. The detectors (`leakage/`) examine candidate transmitters, in a pool of
   threads with one solver each.
6. Optionally fences are inserted.

The **data-flow passes** (`passes/attacker-taint.cc`, `passes/ssb-control.cc`,
`dataflow/transient-aa.cc`) run beside it on a small library of their own,
`dataflow/dataflow.h`, which solves loops from the inside out and knows a least
number of iterations for each. The detectors take attacker taint from the first.

Processes share a gdbm file of analysed functions guarded by `flock` (`db.h`),
and a System V semaphore that bounds the number of running jobs (`util/sem.h`).
A **monitor** (`mon/main.cc`) creates the semaphore, accepts the processes on a
Unix socket and shows their functions as running, completed or aborted.

## Modules

| Module | Models | State and actions |
|---|---|---|
| `LeakageSearch` | what a search promises | candidates are taken once, decided, and what was found is published once |
| `DetectorPool` | `DetectorMain::run`, `solver_check`, `output_execution`, `semutil` | control states of the main thread and of each worker; mutex, the two atomics, the semaphore with its undo records; one action per stretch of code between two shared accesses; a process can die anywhere |
| `CreateSolvers` | `DetectorMain::create_solvers` | the rounds of threads, what each solver holds |
| `Monitor` | server threads, `Client::send`, the messages of a compilation | socket and `FILE` buffer as sequences of writes; lists of jobs |
| `MonClient` | `Client` inside one process | threads, the recursive mutex, a stream that may break |
| `LCMPass` | `LCMPass`, `SharedDatabase` | list, closure under calls, visit, analysis, records; file lock; kills and restarts |
| `CFGUnroll` | `CFG_Unrolled::construct_loop_forest`, `construct_loop`, `construct_function` | pure operators on a graph of blocks |
| `CFGPrune` | `CFG::prune` | worklist in any order, renumbering |
| `CFGSort` | `CFG_Calls::construct`, `compute_postorder`, `sort` | expansion of calls, heap of remaining successors, new numbers |
| `ResolveRefs` | `CFG_Expanded::resolve_refs` | maps per node, moved from when no longer needed |
| `CFGPipeline` | the graphs of `LCMPass::runOnFunction` | composes `CFGPrune`, `CFGSort` and `ResolveRefs`: each stage starts from the graph the one before has left |
| `Dataflow` | `dataflow/dataflow.h` | pure operators: graphs of components with their cache, loops with a least number of iterations, the modes INST, BLOCK and LOOP |
| `AttackerTaint` | `passes/attacker-taint.cc` | one action per visit of an instruction and per end of a sweep; `transfer`, `meet`, `alias` as operators; then the function is executed, one action per instruction; a pointer gets a place in memory each time it is computed, one that agrees with the alias analysis |
| `DataflowPasses` | the attacker taint pass by the library, `ssb-control.cc`, `transient-aa.cc` | three instances of `Dataflow`, and the properties of the passes |
| `AEG` | `AEG::construct` (`aeg/construct.cc`, `alias.cc`, `taint.cc`), `cfg/block.cc`, `getelementptr_*_offset` | one action per step of `construct`; nodes, edges, dependences, dominators, alias assertions |
| `AEGConstraints` | `aeg/constraints.cc`, windows of `cfg/cfg.cc`, order of cache accesses | predicates over an assignment: what a job's solver accepts |
| `Detector` | `DetectorJob` (`leakage/leakage.cc`), `spectre-v1.cc`, `spectre-v4.cc` | windows, constraints and search of one job after another; the search is a set of mutually recursive operators, as in the code |
| `LeakSpec` | what the three modules above are for | paths, control dependence and chains of dependences without the algorithms of Clou; the properties |

`CFG` has the successor and predecessor sets of a relation; `MCLCMPass`,
`MCDataflowPasses` and `MCDetector` give the instances for TLC; the `*Proofs`
modules, `DetectorPoolPromises` and `MonitorStreams` hold the theorems.
`DetectorPool` defines `Search == INSTANCE LeakageSearch WITH ...` and is shown to
implement it: a candidate counts as decided once it has been handed out and no
worker has it any more (one that the counter passed over would count too), and
the result is published by `dump`. Operators named
as mutants in their comments are variations of the definition that follows them;
they show that the properties notice such a change.

**The solver.** In `AEG` an address is a term (a number, a symbol, a sum, a
clamped offset, a choice between nodes), as z3 has it. A *world* assigns every
Boolean of the nodes and every symbol a value of a small domain. A job's state
has the set of worlds that satisfy what was asserted so far: asserting a
constraint filters it, a scope's end restores it (`Pop`), a check asks whether
it is empty. The order of cache accesses is looked for when a check needs it
(`Orderable`). A check with a time limit either never times out or always does;
the second is the worst case for a search that must not lose leaks.

**The reference.** `PartialExecutions` has the paths that run architecturally
up to a misprediction and transiently from there to the transmitter.
`V1Leaks` and `V4Leaks` have the chains of dependences, read backwards from the
transmitter, whose links hold in one of them. No window, look ahead, scope or
counting constraint occurs in these definitions; the bound of the load and store
queue is counted along the path (`QueueHolds`). What a definition shares with the
search is the event graph itself: its addresses, dependences and alias
assertions, as `construct` leaves them.

## Runs

| Run | Instance | Shows |
|---|---|---|
| `pool_tasks` | 1 process, up to 3 workers, 3 candidates, 1 solver call each, 2 permits | exclusion, each candidate once, no circular wait, progress, refinement of `LeakageSearch` |
| `pool_shared` | 2 processes competing for 1 permit, with and without a monitor, which may be started twice | permits survive deaths; every pool ends |
| `solvers` | up to 11 solvers | contexts are never shared, all solvers are filled, the call returns |
| `monitor` | 2 clients, 1 function name | the three lists, a client that goes is no longer shown as running |
| `client` | 2 threads, 2 sends each | no failed assertion, frames intact, sends return |
| `pass` | 2 modules with a shared recursive function, 1 restart each | the database is sound, modules are covered, the list is closed, compilations end |
| `unroll` | every reducible graph of 4 blocks, 2 unrolls | loop-free; paths are the executions with at most 2 returns to each header |
| `cfg_pipeline` | every loop-free graph of up to 5 nodes, calls with 2 pointer arguments, at most two copies of an instruction | prune keeps exactly what reaches the exit; the sort is topological and its assertions hold; no map is used after it was moved; operands are bound to definitions on the way, to all of them where keys are unique |
| `cfg_merge` | up to 4 nodes | **violated**: "merge incoming" |
| `passes` | diamond, loop, nested loops, nested loops with one latch; two pointers that may, must or do not alias, and a third that a loop computes anew (`Moving`); loads, stores and calls in every combination of the slots; callees that are declared only, store locally, or write through calls of their own | the sweep ends, is sound for every execution and equals the library's solution; the three modes agree; promised iterations lose no path; the SSB pass keeps what every path has committed; alias results are kept only for allocas and chains of casts |
| `ssb_joins` | a store in one block and a load in another | **violated**: what is printed of the load |
| `detect` | inputs made from eleven functions (bounds check, the same inlined, two branches, a join, a spilled index, tables of pointers, fences, copies, locals, merged pointers, accesses spread between a store and a load), with and without look ahead, timeouts, fast mode, windows, queue sizes, `diff_names` | executions and leaks are exact; control dependences are covered and none is made up; the assertions of the search hold; fences block |

The violated properties are what a comment of the repository says; `findings`
quotes each.

**Other disagreements met while modelling**, which have no run:

* `config.cc:367` looks the semaphore up once, with no semaphores to create. A
  process that reads its options before the monitor has made the set has id -1;
  `acquire` fails, nobody looks, and its jobs run without a permit, beside
  those of `-J`, "max number of threads across all compilation jobs"
  (`scripts/run-bench.sh:24`). `DetectorPool` has these processes.
* `mon/main.cc:482` polls the socket before each message, although the `FILE` it
  reads from may hold the next one already. A function is then shown as running
  only when its client sends again. `Monitor` has both buffers.
* `cfg/cfg.h:42` says all CFGs are loop-free; a cycle with two entries is no
  loop of LLVM's `LoopInfo` and stays. `CFGUnroll` starts from the others.
* `prune` also deletes the entry of a function that never returns, although
  `cfg/node.h:16` says each graph contains exactly one.
* `--callees` brings back functions that `--skip-func` names (`lcm.cc:130`).
* `aeg/construct.cc:844` says that control dependences lead "to a node that has
  no intervening post-dominators". `construct_ctrl` (847-859) only leaves out
  the nodes that post-dominate the branch itself: a node of a second branch
  after the join of the first gets edges from both (871, "investigate
  whether this is expected or buggy"). `CtrlCovers` therefore states what is
  between the two: no immediate dependence is missing, and an edge leads only to
  what the branch decides on.
* `attacker-taint.cc:399-458`, a comparison of the sweep with the library that is
  compiled and never run, once asserted `ins == ins2`. `top` lacks a pointer that
  is annotated and never stored to, so it is not above every value; in a loop that
  loads such a pointer the library reports taint that the sweep does not.
  `TaintAgrees` and `ModesAgree` are stated for functions where `top` has them
  (`TopIsTop`).

**Observations on the analysis**, which the models follow:

* `prune_exec_window` compares a node with the call stacks of its successors
  and not with what it has propagated, so of a callee that the window cuts off
  only the last node before the return is kept.
* `assert_xsaccess_order` takes "before a fence" as a smaller number. A fence in
  one arm of a branch orders the accesses around it also when the other arm runs.
* An address with a bounded offset is the clamped offset alone, without its
  base; the greatest offset is one past the end of the array, and indices after
  the first variable one are not added.
* Without concrete sourced stores the Spectre v4 search takes the entry for the
  bypassed store, so its condition on that store always holds.
  With `diff_names` as well, `different_names` would be asked about the entry,
  which has no address; the inputs leave that combination out.
* `may_source_stb` is always true; a job's own set of transmitters is empty
  whenever it is read; what `construct_nodes` shares of `arch` is made again by
  `construct_arch`.
* `only_local_stores` (`attacker-taint.cc:183-203`) looks at the store instructions
  of a called function and not at its calls, memory intrinsics and atomics. A callee
  that writes the caller's memory in one of these ways leaves the known stores in
  place. `TaintSound` holds up to the first such call (`hidden`).
* `transient-aa.cc:27` asks that all operands of a `getelementptr` be constants, its
  pointer operand included, and that this operand be among the valid
  instructions; no instruction is a constant, so no `getelementptr` is ever valid.
* `transient-aa.cc:45` asserts that no other instruction makes a pointer: a function
  with a `phi`, `select` or `inttoptr` of pointer type stops the pass
  (`TransientAborts`).
* `Graph::transfer_once` takes its entry value by reference (`dataflow.h:202`) and
  puts it in the cache after the component has been solved (218-222). For a loop
  that value has been overwritten by then, so the cache has what the header settled
  at, and the next round finds it only when nothing has changed.
* In the taint pass an annotated pointer that nothing stores to is dropped at
  the start of a block by `meet` and is back after the next instruction.

**Bounds.** Two workers already race and a third makes the last candidate be
taken while two are active; two processes suffice for a permit to be held by
the other side. Four blocks hold two nested loops with a second exit. Five nodes are the entry, the exit and three
instructions, which become up to eight after the splitting of calls: a node can
have predecessors that are finished, unfinished, and given away before it.
Eleven solvers give full and cut-short rounds.
The functions of `passes` have up to five blocks and two free instructions, enough for
a value to go round two loops, or three with one that computes a pointer at the head of the
loop, so that a store is followed by another place for its pointer; paths are followed for nine blocks, executions for
as long as they go (their states are finitely many), and three places in memory
let pointers that do not alias be apart. Those of
`detect` have up to ten nodes, so that a speculation of depth 3 or 4 ends inside
them, and addresses have two values, so that two pointers can be equal or not; queue
sizes of 3 and 4 lie on both sides of the number of accesses of `Spread`. Counters (updates, sends, solver
calls, restarts, starts of the monitor) are capped by constants named `Max...`.

**Deadlock** is not checked, as every modelled program ends; `NeverStuck` states
its absence for the pool, and each other component has a liveness property or
is a terminating algorithm.

**Fairness.** The pool: weak fairness of each thread, as the scheduler gives.
The monitor: weak fairness of its threads and of a send that was begun; none of
clients, as an analysis may run for ever. The pass: strong fairness of a process's
steps, which stands for `flock` being granted to those who wait. `CreateSolvers`,
`MonClient`, `CFGPipeline` and `AttackerTaint`: weak fairness of the code itself.

## Proofs

Each proof is for every value of the constants: any number of processes,
threads, clients and nodes, any graph, any function. An invariant named below is
inductive, and the property follows from it.

**The pool** (`DetectorPoolProofs`, `DetectorPoolPromises`). `PoolInv` joins the
types, that the owner of the mutex is the one thread in a locked section, that
tasks at work are distinct and below the counter, that a snapshot of the result
is current while the mutex is held, and that workers exist only once started.
Mutual exclusion alone is not inductive: it needs who owns the mutex. Under
`PoolInv` every step is a step of `LeakageSearch` or leaves its state alone,
which is the refinement. `ProgressInv` adds that what the monitor was told last is
at most what a worker is about to tell it, and both at most the count of finished
candidates; `ProgressMonotone` follows. `PermitInv` adds that the undo record of a
process is the number of permits its workers hold, so that the kernel's undo
after a death gives back exactly what was held.

**The threads of a process** (`ThreadProofs`). `SolversInv` says which
threads a round of `create_solvers` has: thread `k` copies solver `k`, which is
full, to solver `idx + k`; each such solver is full or being filled. `ClientInv` says who owns the recursive mutex, that the
stream ends in a whole frame unless its owner is in the middle of one, and what
has been sent of each thread up to its current message.

**The monitor** (`MonitorStreams`, `MonitorProofs`). `MonInv` says of each client
that what it wrote and what is still in the socket and in the `FILE` buffer
alternate in length and body, fit the state its server thread will be in when it
reaches them, and lead from the lists as they are to the lists as the client has
reported. `MonitorStreams` has what appending at one end and taking from the
other does to such a sequence; `MonitorProofs` goes through the actions.

**The pass** (`PassProofs`). `PassInv` follows each selected function from the
list to the report; `ClosureInv` says only the frontier may have callees off the
list.

**Attacker taint** (`PassProofs`). `TaintInv` has three parts. When a sweep has
changed nothing so far, the values it has passed solve the equations of the pass
(each value is the meet of those before it, or what `transfer` makes of it);
so after the last sweep all do. An execution is *covered* by the value before
its next instruction: what it controls is tainted there, and no pointer known to
hold an untainted value points to controlled memory. And what is known stays true
of places although pointers are computed again in loops: each pointer of `stores`
has an *anchor*, one that is alive, at the same place in every execution
(`Tied`), and that no live pointer which does not dominate the next instruction
can bring to an end while the fact is held (`Anchored`); or it is annotated. The anchor is needed
because the pass keeps names: a pointer may be computed anew after a store through
it, and then the fact is about its old place. If the pass still has the fact there, it
had it on every way to the pointer's instruction, the first one included, where the
pointer did not exist: then another pointer, computed earlier, is at that
place for good, and it is the anchor. A set of live pointers closed under must-alias
carries this through `meet`, which
keeps a pointer only when it must alias one of each side. The meet over the
predecessors is a recursive function, whose equation is proved from a least number
for which it could fail. The assumptions are what LLVM's verifier guarantees of a
function (`WellFormed`, dominance included), that the places of an
execution agree with the alias analysis, and that annotated pointers never hold
controlled values.

**The graphs** (`SortProofs`, `CFGProofs`).

* `PruneInv` says that a node that is a leaf and no exit is still on the worklist.
  `ExactInv` adds that a deleted node reaches no exit; with it, and because in a
  finite graph without cycles a node that is left and has successors reaches one
  that is left and has none, `prune` deletes exactly what does not reach an exit.
* `SortInv` says of `compute_postorder` that the count of a node is the number of
  its successors that are not placed, that the heap has each node not placed with
  its count, and that a placed node comes after its successors. A heap whose
  least count is not 0 would mean a cycle. The numbers of the nodes that calls
  are split into are counted with `Offset`, the cardinality of the nodes before.
* `MapInv` says a begun node keeps its map until all its successors have begun and
  merged it. `BindInv` adds that the map of a node has, of each key, nodes that
  define it among its ancestors, and some of them where there are any, with the
  predecessors still to be merged left out. That the ancestors of a node are its
  predecessors and theirs is proved from the least set closed under predecessors.
* `PipelineInv` composes them: each stage starts from a graph for which the one
  before has established what its proof assumes (`NoWayBack` from the input to
  `prune` and through the splitting of calls to `sort`, ascending edges from
  `sort` to `resolve_refs`). `PipelineSafety` states the five properties for the
  three stages run one after the other on any graph without cycles.

The assumptions are the named ASSUMEs on the constants: that bounds and numbers of
arguments are natural numbers, that the set of processes is finite, that no
thread is called `free`, that inputs are graphs of the kind `CFG_Unrolled`
makes, and `WellFormed`.

**Only model-checked.**

* Everything about liveness (`Terminates`, `Returns`, `EventuallySettled`,
  `SendReturns`, `Ends`, `TaintEnds`) and ENABLED (`NeverStuck`), which the prover
  does not handle.
* `UnrollsExactly`, the properties of the data-flow library and of the passes built
  on it (`TaintAgrees`, `ModesAgree`, `LoopModeSound`, `SSBKeepsCommitted`,
  `TransientSound`), and those of the event graph and the search
  (`ExecutionsExact`, `CtrlCovers`, `LeaksExact`, `OutputAsserts`, `FenceBlocks`):
  their definitions are recursive operators, as the code is recursive.

## Simplifications

* In `DetectorPool` a job's solver answers are nondeterministic; a candidate is
  leaky or not. `Detector` has the search of a job, and runs jobs one after
  another: what they share is the pool's concern.
* `LCMPass` models complete options. Where `check_config` finds one missing, a
  function is passed over without analysis.
* `CFGUnroll` has one node per block and no calls; blocks are reachable.
* `ResolveRefs` treats an operand as a key; arguments of inlined functions and
  constants are not translated.
* `gdbm`, `flock`, semaphores, sockets, stdio and LLVM's analyses are modelled
  from how the code uses them; so are z3's checks, and the results of LLVM's alias
  analysis, which are part of the input of `AEG` and `DataflowPasses`.
* `AEG` starts from an expanded graph with one call stack per node. Struct
  offsets add the sizes of fields without padding, as the code does.
* In `AttackerTaint` a called function is what the scan sees of it and what it writes:
  after a call that writes memory every place but the annotated ones may be
  controlled. LLVM's `PartialAlias` is not modelled.

## Not modelled

`components` in `PROJECT.json` lists every part.

* Calls: their inlining in `CFG_Unrolled::construct_call` with the translation
  of arguments, and call instructions as nodes of the event graph. They need
  several functions and value maps at once; in the models a callee is a call
  stack of nodes (`AEG`) or a kind (`AttackerTaint`).
* Identifiers of loop iterations, which `construct_aliases` compares: `AEG`
  starts from graphs without copies of one block.
* `compute_alias`, `compute_min_store_paths` and `get_mems`, whose results
  nothing uses.
* The values of adaptive timeouts (`get_timeout`, `set_timeout`): wall-clock
  time; the two extremes are modelled.
* `fol.h` and `leakage/fol.cc`: relations evaluated in a model for the drawing of
  an execution.
* Fence insertion, which changes only the compiled code; option parsing, log
  files, drawing of graphs, printers of statistics and the terminal display:
  output without state that lasts.
* The database classes other than `SharedDatabase`, which the pass does not use.
