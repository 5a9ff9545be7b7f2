----------------------------- MODULE DetectorPool -----------------------------
(***************************************************************************)
(* The thread pool that examines the candidate transmitters of a function  *)
(* (DetectorMain::run), in several compile processes at once.              *)
(*                                                                         *)
(* Inside a process: the main thread holds aeg.context.mutex while it      *)
(* starts the workers; a worker takes the next task from an atomic         *)
(* counter, takes a permit of the System V semaphore, then the mutex (the  *)
(* DetectorJob constructor), and runs the job.  The job gives the mutex up *)
(* around every solver call (solver_check, z3_cond_scope) and appends to   *)
(* the shared vector leaks while it holds it.  The permit goes back before *)
(* the mutex does.  Then the worker counts the task and reports progress   *)
(* to the monitor under the mutex.                                         *)
(*                                                                         *)
(* Between processes: the semaphore, which the monitor creates and sets to *)
(* the number of threads it was given.  Its operations carry SEM_UNDO: the *)
(* kernel keeps, per process, what its exit must give back (semadj), and a *)
(* SETVAL clears those records.                                            *)
(***************************************************************************)
EXTENDS Integers, FiniteSets, FiniteSetsExt

CONSTANTS
  Proc,         \* compile processes
  MaxParallel,  \* max_parallel, the -j option of a process
  MaxTasks,     \* bound on the number of candidates of a function
  MaxChecks,    \* bound on the solver calls of one job
  NumThreads,   \* num_threads, the -j option of the monitor
  MaxMonStarts, \* bound on how often the monitor is started
  Connect       \* outcomes of connecting to the monitor's socket

ASSUME PoolAssumption ==
  /\ IsFiniteSet(Proc)
  /\ MaxParallel \in Nat \ {0}
  /\ MaxTasks \in Nat
  /\ MaxChecks \in Nat
  /\ NumThreads \in Nat \ {0}
  /\ MaxMonStarts \in Nat
  /\ Connect \in SUBSET BOOLEAN

Worker == 1 .. MaxParallel
Main   == 0           \* the main thread as an owner of the mutex
Free   == -1          \* no owner
NoTask == -1          \* task out of scope

\* Control states of the main thread and of a worker.
MainPC   == {"new", "create", "spawn", "join", "done", "gone", "dead"}
WorkerPC == {"unborn", "fetch", "acquire", "lock", "run", "check", "emplace",
             "unlock", "count", "report", "frac", "send", "exit"}

VARIABLES
  semExists,  \* the semaphore has been created
  semval,     \* its value
  semadj,     \* semadj[p]: what the exit of p adds to the value
  starts,     \* how often the monitor has been started
  semid,      \* semid[p]: p found the semaphore when it read its options
  client,     \* client[p]: p is connected to the monitor
  total,      \* total[p]: total_tasks
  mpc,        \* mpc[p]: control state of the main thread
  spawned,    \* spawned[p]: number of workers started
  mutex,      \* mutex[p]: owner of aeg.context.mutex
  next_task, completed_tasks,      \* the two atomics of DetectorMain::run
  wpc,        \* wpc[p][w]: control state of a worker
  task,       \* task[p][w]: the task it works on, NoTask outside a job
  checks,     \* checks[p][w]: solver calls of its current job
  snapshot,   \* snapshot[p][w]: leaks as read by its emplace_back
  frac,       \* frac[p][w]: completed_tasks as read for a progress message
  leaks,      \* leaks[p]: candidates in the shared vector
  sent,       \* sent[p]: completed_tasks in the last progress message
  out         \* out[p]: what dump() wrote

semVars  == <<semExists, semval, semadj, starts>>
procVars == <<semid, client, total>>
mainVars == <<mpc, spawned, out>>
vars == <<semVars, procVars, mainVars, mutex, next_task, completed_tasks,
          wpc, task, checks, snapshot, frac, leaks, sent>>

-----------------------------------------------------------------------------
Init ==
  /\ semExists = FALSE
  /\ semval = 0
  /\ semadj = [p \in Proc |-> 0]
  /\ starts = 0
  /\ semid  = [p \in Proc |-> FALSE]
  /\ client = [p \in Proc |-> FALSE]
  /\ total  = [p \in Proc |-> 0]
  /\ mpc    = [p \in Proc |-> "new"]
  /\ spawned = [p \in Proc |-> 0]
  /\ mutex  = [p \in Proc |-> Free]
  /\ next_task = [p \in Proc |-> 0]
  /\ completed_tasks = [p \in Proc |-> 0]
  /\ wpc    = [p \in Proc |-> [w \in Worker |-> "unborn"]]
  /\ task   = [p \in Proc |-> [w \in Worker |-> NoTask]]
  /\ checks = [p \in Proc |-> [w \in Worker |-> 0]]
  /\ snapshot = [p \in Proc |-> [w \in Worker |-> {}]]
  /\ frac   = [p \in Proc |-> [w \in Worker |-> 0]]
  /\ leaks  = [p \in Proc |-> {}]
  /\ sent   = [p \in Proc |-> 0]
  /\ out    = [p \in Proc |-> {}]

NumSolvers(p) == IF MaxParallel < total[p] THEN MaxParallel ELSE total[p]
Alive(p) == mpc[p] \notin {"new", "gone", "dead"}
Goto(p, w, pc) == wpc' = [wpc EXCEPT ![p][w] = pc]
At(p, w, pc) == Alive(p) /\ wpc[p][w] = pc

-----------------------------------------------------------------------------
(* The monitor and the life of a process. *)

\* mon: semget and SETVAL, which also clears the undo records of all processes.
MonStart ==
  /\ starts < MaxMonStarts
  /\ starts' = starts + 1
  /\ semExists' = TRUE
  /\ semval' = NumThreads
  /\ semadj' = [p \in Proc |-> 0]
  /\ UNCHANGED <<procVars, mainVars, mutex, next_task, completed_tasks,
                 wpc, task, checks, snapshot, frac, leaks, sent>>

\* A process reads its options (semget with nsems = 0 finds a semaphore but
\* cannot create one), and its function turns out to have n candidates.
Start(p) ==
  /\ mpc[p] = "new"
  /\ mpc' = [mpc EXCEPT ![p] = "create"]
  /\ semid' = [semid EXCEPT ![p] = semExists]
  /\ \E c \in Connect : client' = [client EXCEPT ![p] = c]
  /\ \E n \in 0 .. MaxTasks : total' = [total EXCEPT ![p] = n]
  /\ UNCHANGED <<semVars, spawned, out, mutex, next_task, completed_tasks,
                 wpc, task, checks, snapshot, frac, leaks, sent>>

\* The kernel's exit_sem: the undo record is added, never below zero.
Undo(p) ==
  /\ semval' = LET v == semval + semadj[p] IN IF v < 0 THEN 0 ELSE v
  /\ semadj' = [semadj EXCEPT ![p] = 0]

\* Exit of a process after its report, and its death at any point before: a
\* failed assertion, the file timeout's _Exit, an exception out of a thread.
\* Its memory goes with it; the report and the monitor's knowledge stay.
Exit(p) ==
  /\ Alive(p)
  /\ mpc' = [mpc EXCEPT ![p] = IF mpc[p] = "done" THEN "gone" ELSE "dead"]
  /\ Undo(p)
  /\ semid'   = [semid EXCEPT ![p] = FALSE]
  /\ client'  = [client EXCEPT ![p] = FALSE]
  /\ total'   = [total EXCEPT ![p] = 0]
  /\ spawned' = [spawned EXCEPT ![p] = 0]
  /\ mutex'   = [mutex EXCEPT ![p] = Free]
  /\ next_task' = [next_task EXCEPT ![p] = 0]
  /\ completed_tasks' = [completed_tasks EXCEPT ![p] = 0]
  /\ wpc'     = [wpc EXCEPT ![p] = [w \in Worker |-> "unborn"]]
  /\ task'    = [task EXCEPT ![p] = [w \in Worker |-> NoTask]]
  /\ checks'  = [checks EXCEPT ![p] = [w \in Worker |-> 0]]
  /\ snapshot' = [snapshot EXCEPT ![p] = [w \in Worker |-> {}]]
  /\ frac'    = [frac EXCEPT ![p] = [w \in Worker |-> 0]]
  /\ leaks'   = [leaks EXCEPT ![p] = {}]
  /\ UNCHANGED <<semExists, starts, out, sent>>

-----------------------------------------------------------------------------
(* The main thread of DetectorMain::run. *)

LockSpawn(p) ==
  /\ mpc[p] = "create"
  /\ mutex[p] = Free
  /\ mutex' = [mutex EXCEPT ![p] = Main]
  /\ mpc' = [mpc EXCEPT ![p] = "spawn"]
  /\ UNCHANGED <<semVars, procVars, spawned, out, next_task, completed_tasks,
                 wpc, task, checks, snapshot, frac, leaks, sent>>

Spawn(p) ==
  /\ mpc[p] = "spawn"
  /\ spawned[p] < NumSolvers(p)
  /\ spawned' = [spawned EXCEPT ![p] = @ + 1]
  /\ Goto(p, spawned[p] + 1, "fetch")
  /\ UNCHANGED <<semVars, procVars, mpc, out, mutex, next_task,
                 completed_tasks, task, checks, snapshot, frac, leaks, sent>>

UnlockSpawn(p) ==
  /\ mpc[p] = "spawn"
  /\ spawned[p] = NumSolvers(p)
  /\ mutex' = [mutex EXCEPT ![p] = Free]
  /\ mpc' = [mpc EXCEPT ![p] = "join"]
  /\ UNCHANGED <<semVars, procVars, spawned, out, next_task, completed_tasks,
                 wpc, task, checks, snapshot, frac, leaks, sent>>

\* Every thread joined: dump() writes the leaks.
JoinAndDump(p) ==
  /\ mpc[p] = "join"
  /\ \A w \in 1 .. spawned[p] : wpc[p][w] = "exit"
  /\ out' = [out EXCEPT ![p] = leaks[p]]
  /\ mpc' = [mpc EXCEPT ![p] = "done"]
  /\ UNCHANGED <<semVars, procVars, spawned, mutex, next_task,
                 completed_tasks, wpc, task, checks, snapshot, frac, leaks, sent>>

-----------------------------------------------------------------------------
(* A worker thread. *)

Fetch(p, w) ==
  /\ At(p, w, "fetch")
  /\ next_task' = [next_task EXCEPT ![p] = @ + 1]
  /\ IF next_task[p] >= total[p]
       THEN /\ Goto(p, w, "exit")
            /\ UNCHANGED task
       ELSE /\ Goto(p, w, "acquire")
            /\ task' = [task EXCEPT ![p][w] = next_task[p]]
  /\ UNCHANGED <<semVars, procVars, mainVars, mutex, completed_tasks,
                 checks, snapshot, frac, leaks, sent>>

\* Mutant of Acquire: semop without SEM_UNDO.
AcquireNoUndo(p, w) ==
  /\ At(p, w, "acquire")
  /\ IF semid[p]
       THEN /\ semval > 0
            /\ semval' = semval - 1
            /\ UNCHANGED semadj
       ELSE UNCHANGED <<semval, semadj>>
  /\ Goto(p, w, "lock")
  /\ UNCHANGED <<semExists, starts, procVars, mainVars, mutex, next_task,
                 completed_tasks, task, checks, snapshot, frac, leaks, sent>>

\* semutil::acquire; without a semaphore semop fails and the result is ignored.
Acquire(p, w) ==
  /\ At(p, w, "acquire")
  /\ IF semid[p]
       THEN /\ semval > 0
            /\ semval' = semval - 1
            /\ semadj' = [semadj EXCEPT ![p] = @ + 1]
       ELSE UNCHANGED <<semval, semadj>>
  /\ Goto(p, w, "lock")
  /\ UNCHANGED <<semExists, starts, procVars, mainVars, mutex, next_task,
                 completed_tasks, task, checks, snapshot, frac, leaks, sent>>

\* The constructor of DetectorJob.
Lock(p, w) ==
  /\ At(p, w, "lock")
  /\ mutex[p] = Free
  /\ mutex' = [mutex EXCEPT ![p] = w]
  /\ Goto(p, w, "run")
  /\ UNCHANGED <<semVars, procVars, mainVars, next_task, completed_tasks,
                 task, checks, snapshot, frac, leaks, sent>>

\* solver_check, z3_cond_scope: the mutex is free while the solver works.
SolverUnlock(p, w) ==
  /\ At(p, w, "run")
  /\ checks[p][w] < MaxChecks
  /\ checks' = [checks EXCEPT ![p][w] = @ + 1]
  /\ mutex' = [mutex EXCEPT ![p] = Free]
  /\ Goto(p, w, "check")
  /\ UNCHANGED <<semVars, procVars, mainVars, next_task, completed_tasks,
                 task, snapshot, frac, leaks, sent>>

\* Mutant of SolverRelock: solver_check returns without the lock.
SolverNoRelock(p, w) ==
  /\ At(p, w, "check")
  /\ Goto(p, w, "run")
  /\ UNCHANGED <<semVars, procVars, mainVars, mutex, next_task, completed_tasks,
                 task, checks, snapshot, frac, leaks, sent>>

SolverRelock(p, w) ==
  /\ At(p, w, "check")
  /\ mutex[p] = Free
  /\ mutex' = [mutex EXCEPT ![p] = w]
  /\ Goto(p, w, "run")
  /\ UNCHANGED <<semVars, procVars, mainVars, next_task, completed_tasks,
                 task, checks, snapshot, frac, leaks, sent>>

\* output_execution appends to the vector that all jobs share; the append
\* reads the vector and writes it back, which only the mutex makes atomic.
EmplaceRead(p, w) ==
  /\ At(p, w, "run")
  /\ task[p][w] \notin leaks[p]
  /\ snapshot' = [snapshot EXCEPT ![p][w] = leaks[p]]
  /\ Goto(p, w, "emplace")
  /\ UNCHANGED <<semVars, procVars, mainVars, mutex, next_task,
                 completed_tasks, task, checks, frac, leaks, sent>>

EmplaceWrite(p, w) ==
  /\ At(p, w, "emplace")
  /\ leaks' = [leaks EXCEPT ![p] = snapshot[p][w] \cup {task[p][w]}]
  /\ snapshot' = [snapshot EXCEPT ![p][w] = {}]
  /\ Goto(p, w, "run")
  /\ UNCHANGED <<semVars, procVars, mainVars, mutex, next_task,
                 completed_tasks, task, checks, frac, sent>>

\* Mutant of Release: the permit is not given back.
ReleaseForgotten(p, w) ==
  /\ At(p, w, "run")
  /\ UNCHANGED <<semval, semadj>>
  /\ Goto(p, w, "unlock")
  /\ UNCHANGED <<semExists, starts, procVars, mainVars, mutex, next_task,
                 completed_tasks, task, checks, snapshot, frac, leaks, sent>>

\* semutil::release, while the job still holds the mutex.
Release(p, w) ==
  /\ At(p, w, "run")
  /\ IF semid[p]
       THEN /\ semval' = semval + 1
            /\ semadj' = [semadj EXCEPT ![p] = @ - 1]
       ELSE UNCHANGED <<semval, semadj>>
  /\ Goto(p, w, "unlock")
  /\ UNCHANGED <<semExists, starts, procVars, mainVars, mutex, next_task,
                 completed_tasks, task, checks, snapshot, frac, leaks, sent>>

\* Mutant of Unlock: the job ends with the mutex held.
UnlockForgotten(p, w) ==
  /\ At(p, w, "unlock")
  /\ checks' = [checks EXCEPT ![p][w] = 0]
  /\ Goto(p, w, "count")
  /\ UNCHANGED <<semVars, procVars, mainVars, mutex, next_task, completed_tasks,
                 task, snapshot, frac, leaks, sent>>

\* The destructor of DetectorJob.
Unlock(p, w) ==
  /\ At(p, w, "unlock")
  /\ mutex' = [mutex EXCEPT ![p] = Free]
  /\ checks' = [checks EXCEPT ![p][w] = 0]
  /\ Goto(p, w, "count")
  /\ UNCHANGED <<semVars, procVars, mainVars, next_task, completed_tasks,
                 task, snapshot, frac, leaks, sent>>

Count(p, w) ==
  /\ At(p, w, "count")
  /\ completed_tasks' = [completed_tasks EXCEPT ![p] = @ + 1]
  /\ task' = [task EXCEPT ![p][w] = NoTask]
  /\ Goto(p, w, IF client[p] THEN "report" ELSE "fetch")
  /\ UNCHANGED <<semVars, procVars, mainVars, mutex, next_task, checks,
                 snapshot, frac, leaks, sent>>

\* Mutant of LockReport: the progress message is made without the mutex.
ReportNoLock(p, w) ==
  /\ At(p, w, "report")
  /\ Goto(p, w, "frac")
  /\ UNCHANGED <<semVars, procVars, mainVars, mutex, next_task, completed_tasks,
                 task, checks, snapshot, frac, leaks, sent>>

\* The progress message: lock, read completed_tasks, send, unlock.
LockReport(p, w) ==
  /\ At(p, w, "report")
  /\ mutex[p] = Free
  /\ mutex' = [mutex EXCEPT ![p] = w]
  /\ Goto(p, w, "frac")
  /\ UNCHANGED <<semVars, procVars, mainVars, next_task, completed_tasks,
                 task, checks, snapshot, frac, leaks, sent>>

ReadFrac(p, w) ==
  /\ At(p, w, "frac")
  /\ frac' = [frac EXCEPT ![p][w] = completed_tasks[p]]
  /\ Goto(p, w, "send")
  /\ UNCHANGED <<semVars, procVars, mainVars, mutex, next_task,
                 completed_tasks, task, checks, snapshot, leaks, sent>>

SendReport(p, w) ==
  /\ At(p, w, "send")
  /\ sent' = [sent EXCEPT ![p] = frac[p][w]]
  /\ frac' = [frac EXCEPT ![p][w] = 0]
  /\ mutex' = [mutex EXCEPT ![p] = Free]
  /\ Goto(p, w, "fetch")
  /\ UNCHANGED <<semVars, procVars, mainVars, next_task, completed_tasks,
                 task, checks, snapshot, leaks>>

MainStep(p) == \/ LockSpawn(p) \/ Spawn(p) \/ UnlockSpawn(p)
               \/ JoinAndDump(p)

WorkerStep(p, w) ==
  \/ Fetch(p, w) \/ Acquire(p, w) \/ Lock(p, w)
  \/ SolverUnlock(p, w) \/ SolverRelock(p, w)
  \/ EmplaceRead(p, w) \/ EmplaceWrite(p, w)
  \/ Release(p, w) \/ Unlock(p, w) \/ Count(p, w)
  \/ LockReport(p, w) \/ ReadFrac(p, w) \/ SendReport(p, w)

Next == \/ MonStart
        \/ \E p \in Proc : \/ Start(p) \/ Exit(p) \/ MainStep(p)
                            \/ \E w \in Worker : WorkerStep(p, w)

Spec == Init /\ [][Next]_vars

\* A thread that can run is run: the kernel schedules every thread, and the
\* waits for the mutex and for a permit end when one is free for good.
Fairness == \A p \in Proc : /\ WF_vars(MainStep(p))
                            /\ \A w \in Worker : WF_vars(WorkerStep(p, w))

FairSpec == Spec /\ Fairness

-----------------------------------------------------------------------------
(* Properties. *)

TypeOK ==
  /\ semExists \in BOOLEAN
  /\ semval \in Nat
  /\ semadj \in [Proc -> Int]
  /\ starts \in 0 .. MaxMonStarts
  /\ semid \in [Proc -> BOOLEAN]
  /\ client \in [Proc -> BOOLEAN]
  /\ total \in [Proc -> 0 .. MaxTasks]
  /\ mpc \in [Proc -> MainPC]
  /\ spawned \in [Proc -> 0 .. MaxParallel]
  /\ mutex \in [Proc -> Worker \cup {Main, Free}]
  /\ next_task \in [Proc -> Nat]
  /\ completed_tasks \in [Proc -> Nat]
  /\ wpc \in [Proc -> [Worker -> WorkerPC]]
  /\ task \in [Proc -> [Worker -> Nat \cup {NoTask}]]
  /\ checks \in [Proc -> [Worker -> 0 .. MaxChecks]]
  /\ snapshot \in [Proc -> [Worker -> SUBSET Nat]]
  /\ frac \in [Proc -> [Worker -> Nat]]
  /\ leaks \in [Proc -> SUBSET Nat]
  /\ sent \in [Proc -> Nat]
  /\ out \in [Proc -> SUBSET Nat]

\* The control states between taking aeg.context.mutex and giving it back.
Locked == {"run", "emplace", "unlock", "frac", "send"}

\* The AEG, its z3 context and the vector leaks belong to one thread at a
\* time: no two workers are inside a locked section, and none is while the
\* main thread starts the pool (leakage.cc:138-171, 406, 1204-1241).
MutualExclusion ==
  \A p \in Proc : \A w \in Worker :
    wpc[p][w] \in Locked =>
      /\ mpc[p] # "spawn"
      /\ \A v \in Worker : wpc[p][v] \in Locked => v = w

\* next_task++ hands every candidate to one worker only: two workers never
\* examine the same candidate, and a task in progress has been handed out
\* (leakage.cc:144-150).
TasksDisjoint ==
  \A p \in Proc : \A v, w \in Worker :
    task[p][w] # NoTask =>
      /\ task[p][w] < next_task[p]
      /\ task[p][w] < total[p]
      /\ task[p][v] = task[p][w] => v = w

\* The workers that hold a permit of the semaphore.
PermitHolders ==
  {x \in Proc \X Worker :
     /\ Alive(x[1]) /\ semid[x[1]]
     /\ wpc[x[1]][x[2]] \in {"lock", "run", "check", "emplace"}}

\* There is no circular wait through the mutexes and the semaphore: while a
\* pool has not finished, some thread can take a step (permits are taken
\* before the mutex, leakage.cc:149-150, and never while it is held).
NeverStuck ==
  (\E p \in Proc : mpc[p] \in {"create", "spawn", "join"}) =>
     \E q \in Proc : \/ ENABLED MainStep(q)
                     \/ \E w \in Worker : ENABLED WorkerStep(q, w)

\* As long as the monitor is started once, permits are neither lost nor
\* made, whatever processes die and wherever (SEM_UNDO in util/sem.h): the
\* value of the semaphore and the permits held add up to num_threads.
PermitConservation ==
  starts = 1 => semval + Cardinality(PermitHolders) = NumThreads

\* The fraction the monitor is told never goes back, although workers finish
\* and report in any order: it is read under the mutex (leakage.cc:158-165).
ProgressMonotone == [][\A p \in Proc : sent'[p] >= sent[p]]_vars

\* The refinement mapping: a candidate is decided when it has been handed out
\* and no worker has it any more; a leak is found when its append begins.
Decided(p) == {t \in 0 .. total[p] - 1 :
                 t < next_task[p] /\ \A w \in Worker : task[p][w] # t}
Found(p)   == leaks[p] \cup
                {task[p][w] : w \in {v \in Worker : wpc[p][v] = "emplace"}}
Status(p)  == CASE mpc[p] = "new" -> "idle"
                [] mpc[p] \in {"create", "spawn", "join"} -> "searching"
                [] mpc[p] = "done" -> "reported"
                [] OTHER -> "dead"

Search == INSTANCE LeakageSearch WITH
  decided <- [p \in Proc |-> Decided(p)],
  found   <- [p \in Proc |-> Found(p)],
  report  <- out,
  status  <- [p \in Proc |-> Status(p)]

\* The pool keeps the promise of LeakageSearch: every candidate is decided
\* once, no leak that was found is lost, and what dump() writes is published
\* after the last decision (leakage.cc:121-224, 246).
ImplementsLeakageSearch == Search!Spec

\* Every run of the pool ends, whatever happens to the other processes that
\* share the semaphore: no cycle of waits through mutex and permits.
Terminates ==
  \A p \in Proc : mpc[p] = "create" ~> mpc[p] \in {"done", "gone", "dead"}

-----------------------------------------------------------------------------
(* The inductive invariant. *)

InTask == {"acquire", "lock", "run", "check", "emplace", "unlock", "count"}

\* Who is in a locked section is who owns the mutex.
LockInv ==
  \A p \in Proc :
    /\ mutex[p] = Main <=> mpc[p] = "spawn"
    /\ \A w \in Worker : mutex[p] = w <=> wpc[p][w] \in Locked

\* The tasks in progress were handed out, each to one worker.
TaskInv ==
  \A p \in Proc : \A w \in Worker :
    /\ task[p][w] # NoTask <=> wpc[p][w] \in InTask
    /\ task[p][w] # NoTask =>
         /\ task[p][w] < next_task[p]
         /\ task[p][w] < total[p]
         /\ \A v \in Worker : task[p][v] = task[p][w] => v = w

\* An append in progress has read the vector as it still is.
SnapshotInv ==
  \A p \in Proc : \A w \in Worker :
    wpc[p][w] = "emplace" => snapshot[p][w] = leaks[p]

\* Which workers exist, and what it means that one has left its loop.
WorkersAsSpawned(p) ==
  /\ \A w \in Worker : wpc[p][w] = "unborn" <=> w > spawned[p]
  /\ \A w \in Worker : wpc[p][w] = "exit" => next_task[p] >= total[p]
  /\ spawned[p] <= NumSolvers(p)
  /\ mpc[p] \in {"join", "done"} => spawned[p] = NumSolvers(p)
  /\ mpc[p] = "done" => \A w \in Worker : wpc[p][w] \in {"unborn", "exit"}
  /\ mpc[p] \notin {"spawn", "join", "done"} => spawned[p] = 0
  /\ ~Alive(p) => next_task[p] = 0 /\ leaks[p] = {} /\ total[p] = 0

SpawnInv == \A p \in Proc : WorkersAsSpawned(p)

PoolInv == TypeOK /\ LockInv /\ TaskInv /\ SnapshotInv /\ SpawnInv

-----------------------------------------------------------------------------
(* Two more invariants, inductive given PoolInv. *)

\* What was sent last and what a worker is about to send are counts that
\* completed_tasks has already reached, the second the later one.
ProgressInv ==
  \A p \in Proc :
    /\ mpc[p] \notin {"gone", "dead"} => sent[p] <= completed_tasks[p]
    /\ \A w \in Worker : wpc[p][w] = "send" =>
         sent[p] <= frac[p][w] /\ frac[p][w] <= completed_tasks[p]

Holders(p) == {x \in PermitHolders : x[1] = p}

\* The undo record of a process is the number of permits its workers hold; who
\* looks for the semaphore before the monitor is started does not find it.
PermitInv ==
  /\ starts = 0 => ~semExists /\ \A p \in Proc : ~semid[p]
  /\ starts = 1 => \A p \in Proc : semadj[p] = Cardinality(Holders(p))
  /\ PermitConservation
=============================================================================
