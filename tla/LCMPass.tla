-------------------------------- MODULE LCMPass --------------------------------
(***************************************************************************)
(* The pass of several compile processes that share the database of        *)
(* analysed functions (LCMPass, SharedDatabase).                           *)
(*                                                                         *)
(* A process first makes its list of functions: the selected functions of  *)
(* its module that the database does not have, each looked up on its own,  *)
(* and with --callees all they call.  Then it visits the functions of the  *)
(* module, callees first, and analyses those on the list; an analysis      *)
(* covers the callees it inlines.  Only when the report is written are the *)
(* functions it covered put into the database, one by one.                 *)
(*                                                                         *)
(* Every database operation opens the file and holds its flock until it    *)
(* closes it.  A process can be killed at any point (the file timeout, a   *)
(* failed assertion); the kernel drops its lock, but a store or the        *)
(* creation of the file that is cut short may leave it unreadable.  A      *)
(* killed compilation may be started again.                                *)
(***************************************************************************)
EXTENDS Naturals

None == "none"

PC == {"off", "list", "contains", "exists", "closure", "visit", "analyse",
       "record", "store", "done", "dead"}

CONSTANTS
  Proc,      \* compile processes
  Func,      \* function names
  Module,    \* Module[p]: functions that p's module defines
  Calls,     \* the call graph, a set of pairs <<caller, callee>>
  Skip,      \* functions that --func and --skip-func leave out
  Callees,   \* analyze_callees
  MaxRuns    \* bound on how often a compilation is started

ASSUME PassAssumption ==
  /\ Module \in [Proc -> SUBSET Func]
  /\ Calls \subseteq Func \X Func
  /\ Skip \subseteq Func
  /\ Callees \in BOOLEAN
  /\ MaxRuns \in Nat
  /\ None \notin Proc \cup Func

VARIABLES
  db,        \* functions.db
  damaged,   \* the file cannot be opened any more
  flock,     \* owner of the file lock, or None
  reported,  \* functions covered by an analysis whose report was written
  runs,      \* runs[p]: how often p was started
  pc,        \* pc[p]: control state
  unseen,      \* unseen[p]: functions still to look up
  fun,       \* fun[p]: the function at hand
  list,      \* list[p]: functions_list
  frontier,  \* frontier[p]: cur of the closure loop
  visited,   \* visited[p]: functions runOnFunction has returned from
  toInsert   \* toInsert[p]: functions still to be put into the database

procVars == <<runs, pc, unseen, fun, list, frontier, visited, toInsert>>
vars == <<db, damaged, flock, reported, procVars>>

Called(S) == {c[2] : c \in {d \in Calls : d[1] \in S}}

\* Functions that the module knows: those it defines and those they call.
Known(p) == Module[p] \cup Called(Module[p])

\* What an analysis of f may inline: the definitions that calls lead to.
Inlinable(p, f) ==
  {g \in Module[p] : \A S \in SUBSET Module[p] :
     f \in S /\ Called(S) \cap Module[p] \subseteq S => g \in S}

Init ==
  /\ db = {} /\ damaged = FALSE /\ flock = None /\ reported = {}
  /\ runs = [p \in Proc |-> 0]
  /\ pc = [p \in Proc |-> "off"]
  /\ unseen = [p \in Proc |-> {}]
  /\ fun = [p \in Proc |-> None]
  /\ list = [p \in Proc |-> {}]
  /\ frontier = [p \in Proc |-> {}]
  /\ visited = [p \in Proc |-> {}]
  /\ toInsert = [p \in Proc |-> {}]

-----------------------------------------------------------------------------
\* runOnModule begins: should_skip will be asked of every function.
Start(p) ==
  /\ pc[p] \in {"off", "dead"} /\ runs[p] < MaxRuns
  /\ runs' = [runs EXCEPT ![p] = @ + 1]
  /\ pc' = [pc EXCEPT ![p] = "list"]
  /\ unseen' = [unseen EXCEPT ![p] = Known(p)]
  /\ UNCHANGED <<db, damaged, flock, reported, fun, list, frontier, visited,
                 toInsert>>

Dead(p) ==
  /\ pc' = [pc EXCEPT ![p] = "dead"]
  /\ flock' = IF flock = p THEN None ELSE flock
  /\ unseen' = [unseen EXCEPT ![p] = {}]
  /\ fun' = [fun EXCEPT ![p] = None]
  /\ list' = [list EXCEPT ![p] = {}]
  /\ frontier' = [frontier EXCEPT ![p] = {}]
  /\ visited' = [visited EXCEPT ![p] = {}]
  /\ toInsert' = [toInsert EXCEPT ![p] = {}]
  /\ UNCHANGED <<db, reported, runs>>

\* The process is killed; what it was writing to the file may be half written.
Kill(p) ==
  /\ pc[p] \notin {"off", "dead", "done"}
  /\ Dead(p)
  /\ \/ UNCHANGED damaged
     \/ /\ pc[p] = "store" \/ (pc[p] = "exists" /\ db = {})
        /\ damaged' = TRUE

\* SharedDatabase::file: open, flock, and gdbm_fd_open, which throws on a
\* damaged file; nothing catches that, so the process ends.
Lock(p, from, to) ==
  /\ pc[p] = from /\ flock = None
  /\ IF damaged
       THEN Dead(p) /\ UNCHANGED damaged
       ELSE /\ flock' = p
            /\ pc' = [pc EXCEPT ![p] = to]
            /\ UNCHANGED <<db, damaged, reported, runs, unseen, fun, list,
                           frontier, visited, toInsert>>

\* Mutant of Contains: the answer of gdbm_exists is taken the wrong way round.
ContainsInverted(p) ==
  /\ pc[p] = "exists"
  /\ list' = [list EXCEPT ![p] =
                IF fun[p] \in db /\ fun[p] \notin Skip THEN @ \cup {fun[p]} ELSE @]
  /\ flock' = None
  /\ pc' = [pc EXCEPT ![p] = "list"]
  /\ fun' = [fun EXCEPT ![p] = None]
  /\ UNCHANGED <<db, damaged, reported, runs, unseen, frontier, visited, toInsert>>

PickFunction(p) ==
  /\ pc[p] = "list"
  /\ \E f \in unseen[p] :
       /\ fun' = [fun EXCEPT ![p] = f]
       /\ unseen' = [unseen EXCEPT ![p] = @ \ {f}]
  /\ pc' = [pc EXCEPT ![p] = "contains"]
  /\ UNCHANGED <<db, damaged, flock, reported, runs, list, frontier, visited,
                 toInsert>>

\* should_skip: contains, then the names.
Contains(p) ==
  /\ pc[p] = "exists"
  /\ list' = [list EXCEPT ![p] =
                IF fun[p] \notin db \cup Skip THEN @ \cup {fun[p]} ELSE @]
  /\ flock' = None
  /\ pc' = [pc EXCEPT ![p] = "list"]
  /\ fun' = [fun EXCEPT ![p] = None]
  /\ UNCHANGED <<db, damaged, reported, runs, unseen, frontier, visited, toInsert>>

ListDone(p) ==
  /\ pc[p] = "list" /\ unseen[p] = {}
  /\ frontier' = [frontier EXCEPT ![p] = IF Callees THEN list[p] ELSE {}]
  /\ pc' = [pc EXCEPT ![p] = "closure"]
  /\ UNCHANGED <<db, damaged, flock, reported, runs, unseen, fun, list, visited,
                 toInsert>>

\* Mutant of Closure: the functions of the next round are not followed.
ClosureOneRound(p) ==
  /\ pc[p] = "closure"
  /\ list' = [list EXCEPT ![p] = @ \cup Called(frontier[p] \cap Module[p])]
  /\ frontier' = [frontier EXCEPT ![p] = {}]
  /\ pc' = [pc EXCEPT ![p] = IF frontier[p] = {} THEN "visit" ELSE @]
  /\ UNCHANGED <<db, damaged, flock, reported, runs, unseen, fun, visited, toInsert>>

\* One round of the while loop of get_functions_list.
Closure(p) ==
  LET new == Called(frontier[p] \cap Module[p]) \ list[p]
  IN  /\ pc[p] = "closure"
      /\ list' = [list EXCEPT ![p] = @ \cup new]
      /\ frontier' = [frontier EXCEPT ![p] = new]
      /\ pc' = [pc EXCEPT ![p] = IF frontier[p] = {} THEN "visit" ELSE @]
      /\ UNCHANGED <<db, damaged, flock, reported, runs, unseen, fun, visited,
                     toInsert>>

\* runOnSCC takes the components of the call graph callees first: f comes when
\* what it calls has been visited, unless f is called by it in turn.
Ready(p, f) ==
  \A g \in Inlinable(p, f) \ {f} :
     g \in visited[p] \/ f \in Inlinable(p, g)

\* runOnFunction begins; a function that is not on the list is passed over.
Visit(p) ==
  /\ pc[p] = "visit"
  /\ \E f \in Module[p] \ visited[p] :
       /\ Ready(p, f)
       /\ IF f \in list[p]
            THEN /\ fun' = [fun EXCEPT ![p] = f]
                 /\ pc' = [pc EXCEPT ![p] = "analyse"]
                 /\ UNCHANGED visited
            ELSE /\ visited' = [visited EXCEPT ![p] = @ \cup {f}]
                 /\ UNCHANGED <<fun, pc>>
  /\ UNCHANGED <<db, damaged, flock, reported, runs, unseen, list, frontier,
                 toInsert>>

\* Mutant of Analyse: the functions are recorded before the report is written.
AnalyseLate(p) ==
  /\ pc[p] = "analyse"
  /\ \E S \in SUBSET Inlinable(p, fun[p]) :
       toInsert' = [toInsert EXCEPT ![p] = S]
  /\ pc' = [pc EXCEPT ![p] = "record"]
  /\ UNCHANGED <<db, damaged, flock, reported, runs, unseen, fun, list, frontier,
                 visited>>

\* The analysis: CFGs, AEG, detectors and the report.  S are the functions with
\* instructions in the unrolled CFG.
Analyse(p) ==
  /\ pc[p] = "analyse"
  /\ \E S \in SUBSET Inlinable(p, fun[p]) :
       /\ reported' = reported \cup S \cup {fun[p]}
       /\ toInsert' = [toInsert EXCEPT ![p] = S]
  /\ pc' = [pc EXCEPT ![p] = "record"]
  /\ UNCHANGED <<db, damaged, flock, runs, unseen, fun, list, frontier, visited>>

\* Mutant of Insert: the file is not closed, so the lock is kept.
InsertNoClose(p) ==
  /\ pc[p] = "store"
  /\ \E f \in toInsert[p] :
       /\ db' = db \cup {f}
       /\ toInsert' = [toInsert EXCEPT ![p] = @ \ {f}]
  /\ pc' = [pc EXCEPT ![p] = "record"]
  /\ UNCHANGED <<damaged, flock, reported, runs, unseen, fun, list, frontier,
                 visited>>

\* SharedDatabase::insert of one of the functions.
Insert(p) ==
  /\ pc[p] = "store"
  /\ \E f \in toInsert[p] :
       /\ db' = db \cup {f}
       /\ toInsert' = [toInsert EXCEPT ![p] = @ \ {f}]
  /\ flock' = None
  /\ pc' = [pc EXCEPT ![p] = "record"]
  /\ UNCHANGED <<damaged, reported, runs, unseen, fun, list, frontier, visited>>

\* The function is completed.
FunctionDone(p) ==
  /\ pc[p] = "record" /\ toInsert[p] = {}
  /\ visited' = [visited EXCEPT ![p] = @ \cup {fun[p]}]
  /\ fun' = [fun EXCEPT ![p] = None]
  /\ pc' = [pc EXCEPT ![p] = "visit"]
  /\ UNCHANGED <<db, damaged, flock, reported, runs, unseen, list, frontier,
                 toInsert>>

ModuleDone(p) ==
  /\ pc[p] = "visit" /\ visited[p] = Module[p]
  /\ pc' = [pc EXCEPT ![p] = "done"]
  /\ UNCHANGED <<db, damaged, flock, reported, runs, unseen, fun, list, frontier,
                 visited, toInsert>>

Step(p) ==
  \/ PickFunction(p) \/ Lock(p, "contains", "exists") \/ Contains(p)
  \/ ListDone(p) \/ Closure(p) \/ Visit(p) \/ Analyse(p)
  \/ (toInsert[p] # {} /\ Lock(p, "record", "store"))
  \/ Insert(p) \/ FunctionDone(p) \/ ModuleDone(p)

Next == \E p \in Proc : Start(p) \/ Kill(p) \/ Step(p)

\* A process that can go on does; flock is granted in turn.
Spec == Init /\ [][Next]_vars /\ \A p \in Proc : SF_vars(Step(p))

-----------------------------------------------------------------------------
(* Properties. *)

TypeOK ==
  /\ db \subseteq Func /\ reported \subseteq Func
  /\ damaged \in BOOLEAN
  /\ flock \in Proc \cup {None}
  /\ runs \in [Proc -> 0 .. MaxRuns]
  /\ pc \in [Proc -> PC]
  /\ fun \in [Proc -> Func \cup {None}]
  /\ unseen \in [Proc -> SUBSET Func]
  /\ list \in [Proc -> SUBSET Func]
  /\ frontier \in [Proc -> SUBSET Func]
  /\ visited \in [Proc -> SUBSET Func]
  /\ toInsert \in [Proc -> SUBSET Func]
  /\ \A p \in Proc : flock = p <=> pc[p] \in {"exists", "store"}
  /\ \A p \in Proc : pc[p] \in {"contains", "exists", "analyse", "record", "store"}
                       => fun[p] \in Func

\* A function is in the database only if a report that covers it has been
\* written, whatever processes were killed and where: the database never makes
\* a compilation skip a function nobody has reported on (lcm.cc:211, 384, 422).
RecordedMeansReported == db \subseteq reported

\* A compilation that ends has every selected function of its module covered
\* by a written report, its own or the one of the process that made it skip
\* the function, also after kills and restarts (lcm.cc:107-208).
Coverage ==
  \A p \in Proc : pc[p] = "done" => Module[p] \ Skip \subseteq reported

\* With --callees the list is closed under calls: what an analysed function
\* calls is analysed too, if the module defines it (lcm.cc:121-139).
CalleesListed ==
  Callees =>
    \A p \in Proc : pc[p] \in {"visit", "analyse", "record", "store", "done"} =>
      Called(list[p] \cap Module[p]) \subseteq list[p]

\* Every compilation ends, and no process waits for the file lock for ever,
\* whatever the others do with it (db.h:254-270).
Ends == \A p \in Proc : pc[p] = "list" ~> pc[p] \in {"done", "dead"}

\* The inductive invariant: what is to be recorded has been reported; of the
\* selected functions of the module none is forgotten while the list is made;
\* what was visited and is on the list has been reported.
PassInv ==
  /\ db \subseteq reported
  /\ \A p \in Proc :
       /\ toInsert[p] \subseteq reported
       /\ pc[p] \notin {"off", "dead"} =>
            Module[p] \ Skip \subseteq
              unseen[p] \cup {fun[p]} \cup list[p] \cup reported
       /\ pc[p] \notin {"list", "contains", "exists", "off", "dead"} => unseen[p] = {}
       /\ pc[p] \notin {"contains", "exists", "analyse", "record", "store"} =>
            fun[p] = None
       /\ pc[p] \notin {"visit", "analyse", "record", "store", "done"} =>
            visited[p] = {}
       /\ pc[p] \in {"record", "store"} => fun[p] \in reported
       /\ pc[p] = "analyse" => fun[p] \in list[p]
       /\ pc[p] = "done" => visited[p] = Module[p]
       /\ visited[p] \cap list[p] \subseteq reported

\* While the closure is computed, only the frontier may have callees that are
\* not on the list.
ClosureInv ==
  /\ CalleesListed
  /\ Callees => \A p \in Proc : pc[p] = "closure" =>
       Called((list[p] \ frontier[p]) \cap Module[p]) \subseteq list[p]
=============================================================================
