-------------------------- MODULE DetectorPoolProofs --------------------------
(***************************************************************************)
(* Proofs about the detector pool, for every number of processes, workers, *)
(* tasks and permits: PoolInv is inductive, so the mutex excludes and no   *)
(* task is handed out twice.                                               *)
(***************************************************************************)
EXTENDS DetectorPool, TLAPS

-----------------------------------------------------------------------------
(* The initial states, the types and the mutex. *)

\* The initial state satisfies the invariant.
LEMMA PoolInitInv == Init => PoolInv
<1> SUFFICES ASSUME Init PROVE PoolInv
  BY Zenon
<1> USE PoolAssumption
<1>1. TypeOK
  <2>1. /\ semval \in Nat /\ starts \in 0 .. MaxMonStarts
        /\ total \in [Proc -> 0 .. MaxTasks] /\ spawned \in [Proc -> 0 .. MaxParallel]
    BY DEF Init
  <2>2. mpc \in [Proc -> MainPC] /\ wpc \in [Proc -> [Worker -> WorkerPC]]
    BY Zenon DEF Init, MainPC, WorkerPC
  <2>3. checks \in [Proc -> [Worker -> 0 .. MaxChecks]]
    BY DEF Init
  <2>4. /\ snapshot \in [Proc -> [Worker -> SUBSET Nat]]
        /\ frac \in [Proc -> [Worker -> Nat]]
        /\ task \in [Proc -> [Worker -> Nat \cup {NoTask}]]
    BY Zenon DEF Init
  <2>5. /\ semadj \in [Proc -> Int]
        /\ mutex \in [Proc -> Worker \cup {Main, Free}]
        /\ next_task \in [Proc -> Nat] /\ completed_tasks \in [Proc -> Nat]
    BY DEF Init
  <2>6. /\ semid \in [Proc -> BOOLEAN] /\ client \in [Proc -> BOOLEAN]
    BY Zenon DEF Init
  <2>7. /\ leaks \in [Proc -> SUBSET Nat] /\ out \in [Proc -> SUBSET Nat]
        /\ sent \in [Proc -> Nat]
    BY Zenon DEF Init
  <2> QED BY <2>1, <2>2, <2>3, <2>4, <2>5, <2>6, <2>7, Zenon DEF Init, TypeOK
<1>2. LockInv
  <2>1. \A p \in Proc : /\ mutex[p] = Free /\ mpc[p] = "new"
                         /\ \A w \in Worker : wpc[p][w] = "unborn"
    BY Zenon DEF Init
  <2> QED BY <2>1 DEF LockInv, Locked, Worker, Main, Free
<1>3. TaskInv /\ SnapshotInv
  BY Zenon DEF Init, TaskInv, SnapshotInv, InTask
<1>4. SpawnInv
  BY DEF Init, SpawnInv, WorkersAsSpawned, Alive, NumSolvers, Worker
<1> QED BY <1>1, <1>2, <1>3, <1>4, Zenon DEF PoolInv

\* Every step keeps the types.
LEMMA PoolTypeStep == TypeOK /\ TaskInv /\ [Next]_vars => TypeOK'
<1> SUFFICES ASSUME TypeOK, TaskInv, [Next]_vars PROVE TypeOK'
  BY Zenon
<1> USE PoolAssumption
<1>1. CASE MonStart
  <2>1. semExists' \in BOOLEAN
    BY <1>1, Zenon DEF TypeOK, MonStart
  <2>2. semval' \in Nat
    BY <1>1, Zenon DEF TypeOK, MonStart
  <2>3. semadj' \in [Proc -> Int]
    BY <1>1 DEF TypeOK, MonStart
  <2>4. starts' \in 0 .. MaxMonStarts
    BY <1>1 DEF TypeOK, MonStart
  <2> QED BY <1>1, <2>1, <2>2, <2>3, <2>4, Zenon DEF TypeOK, MonStart, semVars, procVars, mainVars
<1>2. ASSUME NEW p \in Proc, Start(p) PROVE TypeOK'
  <2>1. semid' \in [Proc -> BOOLEAN]
    BY <1>2, Zenon DEF TypeOK, Start
  <2>2. client' \in [Proc -> BOOLEAN]
    BY <1>2 DEF TypeOK, Start
  <2>3. total' \in [Proc -> 0 .. MaxTasks]
    BY <1>2 DEF TypeOK, Start
  <2>4. mpc' \in [Proc -> MainPC]
    BY <1>2, Zenon DEF TypeOK, Start, MainPC
  <2> QED BY <1>2, <2>1, <2>2, <2>3, <2>4, Zenon DEF TypeOK, Start, semVars, procVars, mainVars
<1>3. ASSUME NEW p \in Proc, Exit(p) PROVE TypeOK'
  <2>1. semval' \in Nat
    BY <1>3 DEF TypeOK, Exit, Undo, Alive
  <2>2. semadj' \in [Proc -> Int]
    BY <1>3 DEF TypeOK, Exit, Undo, Alive
  <2>3. semid' \in [Proc -> BOOLEAN]
    BY <1>3, Zenon DEF TypeOK, Exit, Undo, Alive
  <2>4. client' \in [Proc -> BOOLEAN]
    BY <1>3, Zenon DEF TypeOK, Exit, Undo, Alive
  <2>5. total' \in [Proc -> 0 .. MaxTasks]
    BY <1>3 DEF TypeOK, Exit, Undo, Alive
  <2>6. mpc' \in [Proc -> MainPC]
    BY <1>3, Zenon DEF TypeOK, Exit, Undo, Alive, MainPC
  <2>7. spawned' \in [Proc -> 0 .. MaxParallel]
    BY <1>3 DEF TypeOK, Exit, Undo, Alive
  <2>8. mutex' \in [Proc -> Worker \cup {Main, Free}]
    BY <1>3, Zenon DEF TypeOK, Exit, Undo, Alive, Main, Free
  <2>9. next_task' \in [Proc -> Nat]
    BY <1>3, Zenon DEF TypeOK, Exit, Undo, Alive
  <2>10. completed_tasks' \in [Proc -> Nat]
    BY <1>3, Zenon DEF TypeOK, Exit, Undo, Alive
  <2>11. wpc' \in [Proc -> [Worker -> WorkerPC]]
    BY <1>3, Zenon DEF TypeOK, Exit, Undo, Alive, WorkerPC, Goto, Worker
  <2>12. task' \in [Proc -> [Worker -> Nat \cup {NoTask}]]
    BY <1>3, Zenon DEF TypeOK, Exit, Undo, Alive, NoTask
  <2>13. checks' \in [Proc -> [Worker -> 0 .. MaxChecks]]
    BY <1>3 DEF TypeOK, Exit, Undo, Alive
  <2>14. snapshot' \in [Proc -> [Worker -> SUBSET Nat]]
    BY <1>3, Zenon DEF TypeOK, Exit, Undo, Alive
  <2>15. frac' \in [Proc -> [Worker -> Nat]]
    BY <1>3, Zenon DEF TypeOK, Exit, Undo, Alive
  <2>16. leaks' \in [Proc -> SUBSET Nat]
    BY <1>3, Zenon DEF TypeOK, Exit, Undo, Alive
  <2> QED BY <1>3, <2>1, <2>2, <2>3, <2>4, <2>5, <2>6, <2>7, <2>8, <2>9, <2>10, <2>11, <2>12, <2>13, <2>14, <2>15, <2>16, Zenon DEF TypeOK, Exit, semVars, procVars, mainVars, Undo, Alive
<1>4. ASSUME NEW p \in Proc, LockSpawn(p) PROVE TypeOK'
  <2>1. mpc' \in [Proc -> MainPC]
    BY <1>4, Zenon DEF TypeOK, LockSpawn, MainPC
  <2>2. mutex' \in [Proc -> Worker \cup {Main, Free}]
    BY <1>4, Zenon DEF TypeOK, LockSpawn, Main, Free
  <2> QED BY <1>4, <2>1, <2>2, Zenon DEF TypeOK, LockSpawn, semVars, procVars, mainVars
<1>5. ASSUME NEW p \in Proc, Spawn(p) PROVE TypeOK'
  <2>1. spawned' \in [Proc -> 0 .. MaxParallel]
    BY <1>5 DEF TypeOK, Spawn, NumSolvers
  <2>2. wpc' \in [Proc -> [Worker -> WorkerPC]]
    BY <1>5, Zenon DEF TypeOK, Spawn, NumSolvers, WorkerPC, Goto, Worker
  <2> QED BY <1>5, <2>1, <2>2, Zenon DEF TypeOK, Spawn, semVars, procVars, mainVars
<1>6. ASSUME NEW p \in Proc, UnlockSpawn(p) PROVE TypeOK'
  <2>1. mpc' \in [Proc -> MainPC]
    BY <1>6, Zenon DEF TypeOK, UnlockSpawn, MainPC
  <2>2. mutex' \in [Proc -> Worker \cup {Main, Free}]
    BY <1>6, Zenon DEF TypeOK, UnlockSpawn, Main, Free
  <2> QED BY <1>6, <2>1, <2>2, Zenon DEF TypeOK, UnlockSpawn, semVars, procVars, mainVars
<1>7. ASSUME NEW p \in Proc, JoinAndDump(p) PROVE TypeOK'
  <2>1. mpc' \in [Proc -> MainPC]
    BY <1>7, Zenon DEF TypeOK, JoinAndDump, MainPC
  <2>2. out' \in [Proc -> SUBSET Nat]
    BY <1>7, Zenon DEF TypeOK, JoinAndDump
  <2> QED BY <1>7, <2>1, <2>2, Zenon DEF TypeOK, JoinAndDump, semVars, procVars, mainVars
<1>8. ASSUME NEW p \in Proc, NEW w \in Worker, Fetch(p, w) PROVE TypeOK'
  <2>1. next_task' \in [Proc -> Nat]
    BY <1>8 DEF TypeOK, Fetch
  <2>2. /\ wpc' \in [Proc -> [Worker -> WorkerPC]]
        /\ task' \in [Proc -> [Worker -> Nat \cup {NoTask}]]
    <3>1. CASE next_task[p] >= total[p]
      <4>1. wpc' = [wpc EXCEPT ![p][w] = "exit"] /\ task' = task
        BY <1>8, <3>1, Zenon DEF Fetch, Goto
      <4> QED BY <4>1, Zenon DEF TypeOK, WorkerPC
    <3>2. CASE ~(next_task[p] >= total[p])
      <4>1. /\ wpc' = [wpc EXCEPT ![p][w] = "acquire"]
            /\ task' = [task EXCEPT ![p][w] = next_task[p]]
        BY <1>8, <3>2, Zenon DEF Fetch, Goto
      <4> QED BY <4>1, Zenon DEF TypeOK, WorkerPC
    <3> QED BY <3>1, <3>2, Zenon
  <2> QED BY <1>8, <2>1, <2>2, Zenon DEF TypeOK, Fetch, semVars, procVars, mainVars
<1>9. ASSUME NEW p \in Proc, NEW w \in Worker, Acquire(p, w) PROVE TypeOK'
  <2>1. semval' \in Nat
    BY <1>9 DEF TypeOK, Acquire, At
  <2>2. semadj' \in [Proc -> Int]
    BY <1>9 DEF TypeOK, Acquire, At
  <2>3. wpc' \in [Proc -> [Worker -> WorkerPC]]
    BY <1>9, Zenon DEF TypeOK, Acquire, At, WorkerPC, Goto, Worker
  <2> QED BY <1>9, <2>1, <2>2, <2>3, Zenon DEF TypeOK, Acquire, semVars, procVars, mainVars, At
<1>10. ASSUME NEW p \in Proc, NEW w \in Worker, Lock(p, w) PROVE TypeOK'
  <2>1. mutex' \in [Proc -> Worker \cup {Main, Free}]
    BY <1>10, Zenon DEF TypeOK, Lock, At, Main, Free
  <2>2. wpc' \in [Proc -> [Worker -> WorkerPC]]
    BY <1>10, Zenon DEF TypeOK, Lock, At, WorkerPC, Goto, Worker
  <2> QED BY <1>10, <2>1, <2>2, Zenon DEF TypeOK, Lock, semVars, procVars, mainVars, At
<1>11. ASSUME NEW p \in Proc, NEW w \in Worker, SolverUnlock(p, w) PROVE TypeOK'
  <2>1. mutex' \in [Proc -> Worker \cup {Main, Free}]
    BY <1>11, Zenon DEF TypeOK, SolverUnlock, At, Main, Free
  <2>2. wpc' \in [Proc -> [Worker -> WorkerPC]]
    BY <1>11, Zenon DEF TypeOK, SolverUnlock, At, WorkerPC, Goto, Worker
  <2>3. checks' \in [Proc -> [Worker -> 0 .. MaxChecks]]
    BY <1>11 DEF TypeOK, SolverUnlock, At
  <2> QED BY <1>11, <2>1, <2>2, <2>3, Zenon DEF TypeOK, SolverUnlock, semVars, procVars, mainVars, At
<1>12. ASSUME NEW p \in Proc, NEW w \in Worker, SolverRelock(p, w) PROVE TypeOK'
  <2>1. mutex' \in [Proc -> Worker \cup {Main, Free}]
    BY <1>12, Zenon DEF TypeOK, SolverRelock, At, Main, Free
  <2>2. wpc' \in [Proc -> [Worker -> WorkerPC]]
    BY <1>12, Zenon DEF TypeOK, SolverRelock, At, WorkerPC, Goto, Worker
  <2> QED BY <1>12, <2>1, <2>2, Zenon DEF TypeOK, SolverRelock, semVars, procVars, mainVars, At
<1>13. ASSUME NEW p \in Proc, NEW w \in Worker, EmplaceRead(p, w) PROVE TypeOK'
  <2>1. wpc' \in [Proc -> [Worker -> WorkerPC]]
    BY <1>13, Zenon DEF TypeOK, EmplaceRead, At, WorkerPC, Goto, Worker
  <2>2. snapshot' \in [Proc -> [Worker -> SUBSET Nat]]
    BY <1>13, Zenon DEF TypeOK, EmplaceRead, At
  <2> QED BY <1>13, <2>1, <2>2, Zenon DEF TypeOK, EmplaceRead, semVars, procVars, mainVars, At
<1>14. ASSUME NEW p \in Proc, NEW w \in Worker, EmplaceWrite(p, w) PROVE TypeOK'
  <2>1. wpc' \in [Proc -> [Worker -> WorkerPC]]
    BY <1>14, Zenon DEF TypeOK, EmplaceWrite, At, WorkerPC, Goto, Worker
  <2>2. snapshot' \in [Proc -> [Worker -> SUBSET Nat]]
    BY <1>14, Zenon DEF TypeOK, EmplaceWrite, At
  <2>0. task[p][w] \in Nat /\ snapshot[p][w] \in SUBSET Nat
    BY <1>14 DEF TypeOK, EmplaceWrite, At, TaskInv, InTask, NoTask
  <2>3. leaks' \in [Proc -> SUBSET Nat]
    BY <1>14, <2>0, Zenon DEF TypeOK, EmplaceWrite
  <2> QED BY <1>14, <2>1, <2>2, <2>3, Zenon DEF TypeOK, EmplaceWrite, semVars, procVars, mainVars, At
<1>15. ASSUME NEW p \in Proc, NEW w \in Worker, Release(p, w) PROVE TypeOK'
  <2>1. semval' \in Nat
    BY <1>15 DEF TypeOK, Release, At
  <2>2. semadj' \in [Proc -> Int]
    BY <1>15 DEF TypeOK, Release, At
  <2>3. wpc' \in [Proc -> [Worker -> WorkerPC]]
    BY <1>15, Zenon DEF TypeOK, Release, At, WorkerPC, Goto, Worker
  <2> QED BY <1>15, <2>1, <2>2, <2>3, Zenon DEF TypeOK, Release, semVars, procVars, mainVars, At
<1>16. ASSUME NEW p \in Proc, NEW w \in Worker, Unlock(p, w) PROVE TypeOK'
  <2>1. mutex' \in [Proc -> Worker \cup {Main, Free}]
    BY <1>16, Zenon DEF TypeOK, Unlock, At, Main, Free
  <2>2. wpc' \in [Proc -> [Worker -> WorkerPC]]
    BY <1>16, Zenon DEF TypeOK, Unlock, At, WorkerPC, Goto, Worker
  <2>3. checks' \in [Proc -> [Worker -> 0 .. MaxChecks]]
    BY <1>16 DEF TypeOK, Unlock, At
  <2> QED BY <1>16, <2>1, <2>2, <2>3, Zenon DEF TypeOK, Unlock, semVars, procVars, mainVars, At
<1>17. ASSUME NEW p \in Proc, NEW w \in Worker, Count(p, w) PROVE TypeOK'
  <2>1. completed_tasks' \in [Proc -> Nat]
    BY <1>17 DEF TypeOK, Count, At
  <2>2. wpc' \in [Proc -> [Worker -> WorkerPC]]
    BY <1>17, Zenon DEF TypeOK, Count, At, WorkerPC, Goto, Worker
  <2>3. task' \in [Proc -> [Worker -> Nat \cup {NoTask}]]
    BY <1>17, Zenon DEF TypeOK, Count, At, NoTask
  <2> QED BY <1>17, <2>1, <2>2, <2>3, Zenon DEF TypeOK, Count, semVars, procVars, mainVars, At
<1>18. ASSUME NEW p \in Proc, NEW w \in Worker, LockReport(p, w) PROVE TypeOK'
  <2>1. mutex' \in [Proc -> Worker \cup {Main, Free}]
    BY <1>18, Zenon DEF TypeOK, LockReport, At, Main, Free
  <2>2. wpc' \in [Proc -> [Worker -> WorkerPC]]
    BY <1>18, Zenon DEF TypeOK, LockReport, At, WorkerPC, Goto, Worker
  <2> QED BY <1>18, <2>1, <2>2, Zenon DEF TypeOK, LockReport, semVars, procVars, mainVars, At
<1>19. ASSUME NEW p \in Proc, NEW w \in Worker, ReadFrac(p, w) PROVE TypeOK'
  <2>1. wpc' \in [Proc -> [Worker -> WorkerPC]]
    BY <1>19, Zenon DEF TypeOK, ReadFrac, At, WorkerPC, Goto, Worker
  <2>2. frac' \in [Proc -> [Worker -> Nat]]
    BY <1>19, Zenon DEF TypeOK, ReadFrac, At
  <2> QED BY <1>19, <2>1, <2>2, Zenon DEF TypeOK, ReadFrac, semVars, procVars, mainVars, At
<1>20. ASSUME NEW p \in Proc, NEW w \in Worker, SendReport(p, w) PROVE TypeOK'
  <2>1. mutex' \in [Proc -> Worker \cup {Main, Free}]
    BY <1>20, Zenon DEF TypeOK, SendReport, At, Main, Free
  <2>2. wpc' \in [Proc -> [Worker -> WorkerPC]]
    BY <1>20, Zenon DEF TypeOK, SendReport, At, WorkerPC, Goto, Worker
  <2>3. frac' \in [Proc -> [Worker -> Nat]]
    BY <1>20, Zenon DEF TypeOK, SendReport, At
  <2>4. sent' \in [Proc -> Nat]
    BY <1>20 DEF TypeOK, SendReport, At
  <2> QED BY <1>20, <2>1, <2>2, <2>3, <2>4, Zenon DEF TypeOK, SendReport, semVars, procVars, mainVars, At
<1>21. CASE UNCHANGED vars
  BY <1>21, Zenon DEF vars, semVars, procVars, mainVars, TypeOK
<1> QED BY <1>1, <1>2, <1>3, <1>4, <1>5, <1>6, <1>7, <1>8, <1>9, <1>10, <1>11, <1>12, <1>13, <1>14, <1>15, <1>16, <1>17, <1>18, <1>19, <1>20, <1>21, Zenon DEF Next, MainStep, WorkerStep

\* A worker's step changes its own control state and no other.
LEMMA GotoFrame ==
  ASSUME wpc \in [Proc -> [Worker -> WorkerPC]],
         NEW p \in Proc, NEW w \in Worker, NEW pc, Goto(p, w, pc)
  PROVE  /\ wpc'[p][w] = pc
         /\ \A q \in Proc : \A v \in Worker : q # p \/ v # w => wpc'[q][v] = wpc[q][v]
  BY Zenon DEF Goto

\* Every step keeps the mutex with the thread in the locked section.
LEMMA PoolLockStep == TypeOK /\ LockInv /\ [Next]_vars => LockInv'
<1> SUFFICES ASSUME TypeOK, LockInv, [Next]_vars PROVE LockInv'
  BY Zenon
<1> USE PoolAssumption
<1>0. /\ mpc \in [Proc -> MainPC]
      /\ mutex \in [Proc -> Worker \cup {Main, Free}]
      /\ wpc \in [Proc -> [Worker -> WorkerPC]]
  BY Zenon DEF TypeOK
<1>a. ASSUME NEW p \in Proc, NEW w \in Worker, NEW pc, Goto(p, w, pc),
             wpc[p][w] \in Locked <=> pc \in Locked, UNCHANGED <<mpc, mutex>>
      PROVE  LockInv'
  BY <1>0, <1>a, GotoFrame DEF LockInv
<1>b. ASSUME NEW p \in Proc, NEW w \in Worker, NEW pc, Goto(p, w, pc), pc \in Locked,
             mutex[p] = Free, mutex' = [mutex EXCEPT ![p] = w], UNCHANGED mpc
      PROVE  LockInv'
  <2>1. /\ mutex'[p] = w /\ \A q \in Proc : q # p => mutex'[q] = mutex[q]
        /\ w # Main /\ \A v \in Worker : v # Free
    BY <1>0, <1>b DEF Worker, Main, Free
  <2>2. mpc[p] # "spawn" /\ \A v \in Worker : wpc[p][v] \notin Locked
    BY <1>b, <2>1 DEF LockInv, Main, Free
  <2> QED BY <1>0, <1>b, <2>1, <2>2, GotoFrame DEF LockInv
<1>c. ASSUME NEW p \in Proc, NEW w \in Worker, NEW pc, Goto(p, w, pc), pc \notin Locked,
             wpc[p][w] \in Locked, mutex' = [mutex EXCEPT ![p] = Free], UNCHANGED mpc
      PROVE  LockInv'
  <2>1. /\ mutex'[p] = Free /\ \A q \in Proc : q # p => mutex'[q] = mutex[q]
        /\ w # Main /\ Main # Free /\ \A v \in Worker : v # Free
    BY <1>0, <1>c DEF Worker, Main, Free
  <2>2. mpc[p] # "spawn" /\ \A v \in Worker : v # w => wpc[p][v] \notin Locked
    BY <1>c, <2>1 DEF LockInv
  <2> QED BY <1>0, <1>c, <2>1, <2>2, GotoFrame DEF LockInv
<1>1. CASE MonStart
  BY <1>0, <1>1 DEF MonStart, semVars, procVars, mainVars, LockInv, Locked, Worker, Main, Free
<1>2. ASSUME NEW p \in Proc, Start(p) PROVE LockInv'
  BY <1>0, <1>2 DEF Start, semVars, procVars, mainVars, LockInv, Locked, Worker, Main, Free
<1>3. ASSUME NEW p \in Proc, Exit(p) PROVE LockInv'
  BY <1>0, <1>3 DEF Exit, Undo, Alive, semVars, procVars, mainVars, LockInv, Locked, Worker, Main, Free
<1>4. ASSUME NEW p \in Proc, LockSpawn(p) PROVE LockInv'
  BY <1>0, <1>4 DEF LockSpawn, semVars, procVars, mainVars, LockInv, Locked, Worker, Main, Free
<1>5. ASSUME NEW p \in Proc, Spawn(p) PROVE LockInv'
  BY <1>0, <1>5 DEF Spawn, Goto, semVars, procVars, mainVars, LockInv, Locked, Worker, Main, Free
<1>6. ASSUME NEW p \in Proc, UnlockSpawn(p) PROVE LockInv'
  BY <1>0, <1>6 DEF UnlockSpawn, semVars, procVars, mainVars, LockInv, Locked, Worker, Main, Free
<1>7. ASSUME NEW p \in Proc, JoinAndDump(p) PROVE LockInv'
  BY <1>0, <1>7 DEF JoinAndDump, semVars, procVars, mainVars, LockInv, Locked, Worker, Main, Free
<1>8. ASSUME NEW p \in Proc, NEW w \in Worker, Fetch(p, w) PROVE LockInv'
  <2>1. /\ wpc[p][w] = "fetch" /\ UNCHANGED <<mpc, mutex>>
        /\ Goto(p, w, "exit") \/ Goto(p, w, "acquire")
    BY <1>8, Zenon DEF Fetch, At, mainVars
  <2> QED BY <1>a, <2>1, Zenon DEF Locked
<1>9. ASSUME NEW p \in Proc, NEW w \in Worker, Acquire(p, w) PROVE LockInv'
  BY <1>a, <1>9, Zenon DEF Acquire, At, Locked, mainVars
<1>10. ASSUME NEW p \in Proc, NEW w \in Worker, Lock(p, w) PROVE LockInv'
  BY <1>b, <1>10, Zenon DEF Lock, At, Locked, mainVars
<1>11. ASSUME NEW p \in Proc, NEW w \in Worker, SolverUnlock(p, w) PROVE LockInv'
  BY <1>c, <1>11, Zenon DEF SolverUnlock, At, Locked, mainVars
<1>12. ASSUME NEW p \in Proc, NEW w \in Worker, SolverRelock(p, w) PROVE LockInv'
  BY <1>b, <1>12, Zenon DEF SolverRelock, At, Locked, mainVars
<1>13. ASSUME NEW p \in Proc, NEW w \in Worker, EmplaceRead(p, w) PROVE LockInv'
  BY <1>a, <1>13, Zenon DEF EmplaceRead, At, Locked, mainVars
<1>14. ASSUME NEW p \in Proc, NEW w \in Worker, EmplaceWrite(p, w) PROVE LockInv'
  BY <1>a, <1>14, Zenon DEF EmplaceWrite, At, Locked, mainVars
<1>15. ASSUME NEW p \in Proc, NEW w \in Worker, Release(p, w) PROVE LockInv'
  BY <1>a, <1>15, Zenon DEF Release, At, Locked, mainVars
<1>16. ASSUME NEW p \in Proc, NEW w \in Worker, Unlock(p, w) PROVE LockInv'
  BY <1>c, <1>16, Zenon DEF Unlock, At, Locked, mainVars
<1>17. ASSUME NEW p \in Proc, NEW w \in Worker, Count(p, w) PROVE LockInv'
  <2>1. /\ wpc[p][w] = "count" /\ UNCHANGED <<mpc, mutex>>
        /\ Goto(p, w, "report") \/ Goto(p, w, "fetch")
    BY <1>17, Zenon DEF Count, At, mainVars
  <2> QED BY <1>a, <2>1, Zenon DEF Locked
<1>18. ASSUME NEW p \in Proc, NEW w \in Worker, LockReport(p, w) PROVE LockInv'
  BY <1>b, <1>18, Zenon DEF LockReport, At, Locked, mainVars
<1>19. ASSUME NEW p \in Proc, NEW w \in Worker, ReadFrac(p, w) PROVE LockInv'
  BY <1>a, <1>19, Zenon DEF ReadFrac, At, Locked, mainVars
<1>20. ASSUME NEW p \in Proc, NEW w \in Worker, SendReport(p, w) PROVE LockInv'
  BY <1>c, <1>20, Zenon DEF SendReport, At, Locked, mainVars
<1>21. CASE UNCHANGED vars
  BY <1>21 DEF vars, semVars, procVars, mainVars, LockInv, Locked, Worker, Main, Free
<1> QED BY <1>1, <1>2, <1>3, <1>4, <1>5, <1>6, <1>7, <1>8, <1>9, <1>10, <1>11, <1>12, <1>13, <1>14, <1>15, <1>16, <1>17, <1>18, <1>19, <1>20, <1>21, Zenon DEF Next, MainStep, WorkerStep

-----------------------------------------------------------------------------
(* The tasks, and the invariant as a whole. *)

\* Every step keeps the tasks disjoint.
LEMMA PoolTaskStep == TypeOK /\ TaskInv /\ SpawnInv /\ [Next]_vars => TaskInv'
<1> SUFFICES ASSUME TypeOK, TaskInv, SpawnInv, [Next]_vars PROVE TaskInv'
  BY Zenon
<1> USE PoolAssumption
<1>0. /\ total \in [Proc -> 0 .. MaxTasks]
      /\ spawned \in [Proc -> 0 .. MaxParallel]
      /\ next_task \in [Proc -> Nat]
      /\ wpc \in [Proc -> [Worker -> WorkerPC]]
      /\ task \in [Proc -> [Worker -> Nat \cup {NoTask}]]
  BY Zenon DEF TypeOK
<1>a. ASSUME UNCHANGED <<total, next_task, wpc, task>> PROVE TaskInv'
  BY <1>a, Zenon DEF TaskInv
<1>b. ASSUME NEW p \in Proc, NEW w \in Worker, NEW pc, Goto(p, w, pc),
             wpc[p][w] \in InTask <=> pc \in InTask, UNCHANGED <<total, next_task, task>>
      PROVE  TaskInv'
  <2>1. \A q \in Proc : \A v \in Worker : wpc'[q][v] \in InTask <=> wpc[q][v] \in InTask
    BY <1>0, <1>b, GotoFrame
  <2> QED BY <1>b, <2>1, Zenon DEF TaskInv
<1>1. CASE MonStart
  BY <1>a, <1>1, Zenon DEF MonStart, procVars
<1>2. ASSUME NEW p \in Proc, Start(p) PROVE TaskInv'
  <2>1. \A v \in Worker : task[p][v] = NoTask
    <3>1. spawned[p] = 0
      BY <1>2, Zenon DEF Start, SpawnInv, WorkersAsSpawned, Alive
    <3>2. \A v \in Worker : wpc[p][v] = "unborn"
      BY <3>1 DEF SpawnInv, WorkersAsSpawned, Alive, Worker
    <3> QED BY <3>2, Zenon DEF TaskInv, InTask
  <2>2. UNCHANGED <<next_task, wpc, task>>
    BY <1>2, Zenon DEF Start
  <2>3. \A q \in Proc : q # p => total'[q] = total[q]
    BY <1>0, <1>2, Zenon DEF Start
  <2> QED BY <2>1, <2>2, <2>3 DEF TaskInv
<1>3. ASSUME NEW p \in Proc, Exit(p) PROVE TaskInv'
  BY <1>0, <1>3 DEF Exit, Undo, Alive, semVars, procVars, mainVars, TaskInv, InTask, NoTask
<1>4. ASSUME NEW p \in Proc, LockSpawn(p) PROVE TaskInv'
  BY <1>a, <1>4, Zenon DEF LockSpawn, procVars
<1>5. ASSUME NEW p \in Proc, Spawn(p) PROVE TaskInv'
  <2>1. spawned[p] + 1 \in Worker /\ spawned[p] \in Nat
    BY <1>0, <1>5 DEF Spawn, NumSolvers, Worker
  <2>2. wpc[p][spawned[p] + 1] = "unborn"
    BY <2>1 DEF SpawnInv, WorkersAsSpawned, Alive
  <2> QED BY <1>0, <1>5, <2>1, <2>2 DEF Spawn, Goto, procVars, mainVars, TaskInv, InTask, NoTask
<1>6. ASSUME NEW p \in Proc, UnlockSpawn(p) PROVE TaskInv'
  BY <1>a, <1>6, Zenon DEF UnlockSpawn, procVars
<1>7. ASSUME NEW p \in Proc, JoinAndDump(p) PROVE TaskInv'
  BY <1>a, <1>7, Zenon DEF JoinAndDump, procVars
<1>8. ASSUME NEW p \in Proc, NEW w \in Worker, Fetch(p, w) PROVE TaskInv'
  <2>1. /\ wpc[p][w] = "fetch" /\ next_task'[p] = next_task[p] + 1 /\ total' = total
        /\ \A q \in Proc : q # p => next_task'[q] = next_task[q]
        /\ next_task[p] \in Nat /\ total[p] \in Nat
    BY <1>0, <1>8 DEF Fetch, At, procVars
  <2>2. CASE next_task[p] >= total[p]
    <3>1. Goto(p, w, "exit") /\ task' = task
      BY <1>8, <2>2, Zenon DEF Fetch
    <3>2. \A q \in Proc : \A v \in Worker : wpc'[q][v] \in InTask <=> wpc[q][v] \in InTask
      BY <1>0, <2>1, <3>1, GotoFrame, SMTT(30) DEF InTask
    <3>3. \A v \in Worker : task[p][v] # NoTask => task[p][v] < next_task'[p]
      BY <1>0, <2>1 DEF TaskInv
    <3> QED BY <2>1, <3>1, <3>2, <3>3, Zenon DEF TaskInv
  <2>3. CASE ~(next_task[p] >= total[p])
    <3>1. Goto(p, w, "acquire") /\ task' = [task EXCEPT ![p][w] = next_task[p]]
      BY <1>8, <2>3, Zenon DEF Fetch
    <3>2. /\ task'[p][w] = next_task[p] /\ next_task[p] # NoTask
          /\ \A q \in Proc : \A v \in Worker : q # p \/ v # w => task'[q][v] = task[q][v]
      BY <1>0, <2>1, <3>1 DEF NoTask
    <3>3. \A v \in Worker : task[p][v] # NoTask =>
            task[p][v] < next_task'[p] /\ task[p][v] # next_task[p]
      BY <1>0, <2>1 DEF TaskInv
    <3>4. "acquire" \in InTask
      BY Zenon DEF InTask
    <3>5. ASSUME NEW q \in Proc, NEW v \in Worker
          PROVE  /\ task'[q][v] # NoTask <=> wpc'[q][v] \in InTask
                 /\ task'[q][v] # NoTask =>
                      /\ task'[q][v] < next_task'[q]
                      /\ task'[q][v] < total'[q]
                      /\ \A u \in Worker : task'[q][u] = task'[q][v] => u = v
      <4>1. CASE q # p
        BY <1>0, <2>1, <3>1, <3>2, <4>1, GotoFrame DEF TaskInv
      <4>2. CASE q = p /\ v = w
        BY <1>0, <2>1, <2>3, <3>1, <3>2, <3>3, <3>4, <4>2, GotoFrame
      <4>3. CASE q = p /\ v # w
        <5>1. wpc'[p][v] = wpc[p][v] /\ task'[p][v] = task[p][v]
          BY <1>0, <3>1, <3>2, <4>3, GotoFrame
        <5> QED BY <2>1, <3>2, <3>3, <4>3, <5>1 DEF TaskInv
      <4> QED BY <4>1, <4>2, <4>3, Zenon
    <3> QED BY <3>5, Zenon DEF TaskInv
  <2> QED BY <2>2, <2>3, Zenon
<1>9. ASSUME NEW p \in Proc, NEW w \in Worker, Acquire(p, w) PROVE TaskInv'
  BY <1>b, <1>9, Zenon DEF Acquire, At, InTask, procVars
<1>10. ASSUME NEW p \in Proc, NEW w \in Worker, Lock(p, w) PROVE TaskInv'
  BY <1>b, <1>10, Zenon DEF Lock, At, InTask, procVars
<1>11. ASSUME NEW p \in Proc, NEW w \in Worker, SolverUnlock(p, w) PROVE TaskInv'
  BY <1>b, <1>11, Zenon DEF SolverUnlock, At, InTask, procVars
<1>12. ASSUME NEW p \in Proc, NEW w \in Worker, SolverRelock(p, w) PROVE TaskInv'
  BY <1>b, <1>12, Zenon DEF SolverRelock, At, InTask, procVars
<1>13. ASSUME NEW p \in Proc, NEW w \in Worker, EmplaceRead(p, w) PROVE TaskInv'
  BY <1>b, <1>13, Zenon DEF EmplaceRead, At, InTask, procVars
<1>14. ASSUME NEW p \in Proc, NEW w \in Worker, EmplaceWrite(p, w) PROVE TaskInv'
  BY <1>b, <1>14, Zenon DEF EmplaceWrite, At, InTask, procVars
<1>15. ASSUME NEW p \in Proc, NEW w \in Worker, Release(p, w) PROVE TaskInv'
  BY <1>b, <1>15, Zenon DEF Release, At, InTask, procVars
<1>16. ASSUME NEW p \in Proc, NEW w \in Worker, Unlock(p, w) PROVE TaskInv'
  BY <1>b, <1>16, Zenon DEF Unlock, At, InTask, procVars
<1>17. ASSUME NEW p \in Proc, NEW w \in Worker, Count(p, w) PROVE TaskInv'
  <2>1. /\ wpc[p][w] = "count" /\ UNCHANGED <<total, next_task>>
        /\ Goto(p, w, "report") \/ Goto(p, w, "fetch")
    BY <1>17, Zenon DEF Count, At, procVars
  <2>2. /\ task'[p][w] = NoTask
        /\ \A q \in Proc : \A v \in Worker : q # p \/ v # w => task'[q][v] = task[q][v]
    BY <1>0, <1>17, Zenon DEF Count
  <2>3. /\ wpc'[p][w] \notin InTask
        /\ \A q \in Proc : \A v \in Worker : q # p \/ v # w => wpc'[q][v] = wpc[q][v]
    BY <1>0, <2>1, GotoFrame DEF InTask
  <2> QED BY <2>1, <2>2, <2>3 DEF TaskInv
<1>18. ASSUME NEW p \in Proc, NEW w \in Worker, LockReport(p, w) PROVE TaskInv'
  BY <1>b, <1>18, Zenon DEF LockReport, At, InTask, procVars
<1>19. ASSUME NEW p \in Proc, NEW w \in Worker, ReadFrac(p, w) PROVE TaskInv'
  BY <1>b, <1>19, Zenon DEF ReadFrac, At, InTask, procVars
<1>20. ASSUME NEW p \in Proc, NEW w \in Worker, SendReport(p, w) PROVE TaskInv'
  BY <1>b, <1>20, Zenon DEF SendReport, At, InTask, procVars
<1>21. CASE UNCHANGED vars
  BY <1>21 DEF vars, semVars, procVars, mainVars, TaskInv, InTask, NoTask
<1> QED BY <1>1, <1>2, <1>3, <1>4, <1>5, <1>6, <1>7, <1>8, <1>9, <1>10, <1>11, <1>12, <1>13, <1>14, <1>15, <1>16, <1>17, <1>18, <1>19, <1>20, <1>21, Zenon DEF Next, MainStep, WorkerStep

\* Every step keeps the snapshot of an append current.
LEMMA PoolSnapshotStep == TypeOK /\ LockInv /\ SnapshotInv /\ [Next]_vars => SnapshotInv'
<1> SUFFICES ASSUME TypeOK, LockInv, SnapshotInv, [Next]_vars PROVE SnapshotInv'
  BY Zenon
<1> USE PoolAssumption
<1>0. /\ mutex \in [Proc -> Worker \cup {Main, Free}]
      /\ wpc \in [Proc -> [Worker -> WorkerPC]]
      /\ snapshot \in [Proc -> [Worker -> SUBSET Nat]]
      /\ leaks \in [Proc -> SUBSET Nat]
  BY Zenon DEF TypeOK
<1>a. ASSUME UNCHANGED <<wpc, snapshot, leaks>> PROVE SnapshotInv'
  BY <1>a, Zenon DEF SnapshotInv
<1>b. ASSUME NEW p \in Proc, NEW w \in Worker, NEW pc, Goto(p, w, pc), pc # "emplace",
             UNCHANGED <<snapshot, leaks>>
      PROVE  SnapshotInv'
  BY <1>0, <1>b, GotoFrame, SMTT(30) DEF SnapshotInv
<1>1. CASE MonStart
  BY <1>a, <1>1, Zenon DEF MonStart
<1>2. ASSUME NEW p \in Proc, Start(p) PROVE SnapshotInv'
  BY <1>a, <1>2, Zenon DEF Start
<1>3. ASSUME NEW p \in Proc, Exit(p) PROVE SnapshotInv'
  BY <1>0, <1>3 DEF Exit, Undo, Alive, semVars, procVars, mainVars, SnapshotInv, LockInv, Locked
<1>4. ASSUME NEW p \in Proc, LockSpawn(p) PROVE SnapshotInv'
  BY <1>a, <1>4, Zenon DEF LockSpawn
<1>5. ASSUME NEW p \in Proc, Spawn(p) PROVE SnapshotInv'
  BY <1>0, <1>5 DEF Spawn, Goto, semVars, procVars, mainVars, SnapshotInv, LockInv, Locked
<1>6. ASSUME NEW p \in Proc, UnlockSpawn(p) PROVE SnapshotInv'
  BY <1>a, <1>6, Zenon DEF UnlockSpawn
<1>7. ASSUME NEW p \in Proc, JoinAndDump(p) PROVE SnapshotInv'
  BY <1>a, <1>7, Zenon DEF JoinAndDump
<1>8. ASSUME NEW p \in Proc, NEW w \in Worker, Fetch(p, w) PROVE SnapshotInv'
  <2>1. UNCHANGED <<snapshot, leaks>> /\ (Goto(p, w, "exit") \/ Goto(p, w, "acquire"))
    BY <1>8, Zenon DEF Fetch
  <2> QED BY <1>b, <2>1, Zenon
<1>9. ASSUME NEW p \in Proc, NEW w \in Worker, Acquire(p, w) PROVE SnapshotInv'
  BY <1>b, <1>9, Zenon DEF Acquire
<1>10. ASSUME NEW p \in Proc, NEW w \in Worker, Lock(p, w) PROVE SnapshotInv'
  BY <1>b, <1>10, Zenon DEF Lock
<1>11. ASSUME NEW p \in Proc, NEW w \in Worker, SolverUnlock(p, w) PROVE SnapshotInv'
  BY <1>b, <1>11, Zenon DEF SolverUnlock
<1>12. ASSUME NEW p \in Proc, NEW w \in Worker, SolverRelock(p, w) PROVE SnapshotInv'
  BY <1>b, <1>12, Zenon DEF SolverRelock
<1>13. ASSUME NEW p \in Proc, NEW w \in Worker, EmplaceRead(p, w) PROVE SnapshotInv'
  <2>1. /\ Goto(p, w, "emplace") /\ leaks' = leaks /\ snapshot'[p][w] = leaks[p]
        /\ \A q \in Proc : \A v \in Worker : q # p \/ v # w => snapshot'[q][v] = snapshot[q][v]
    BY <1>0, <1>13, Zenon DEF EmplaceRead
  <2> QED BY <1>0, <2>1, GotoFrame DEF SnapshotInv
<1>14. ASSUME NEW p \in Proc, NEW w \in Worker, EmplaceWrite(p, w) PROVE SnapshotInv'
  <2>1. /\ Goto(p, w, "run") /\ wpc[p][w] = "emplace"
        /\ \A q \in Proc : q # p => leaks'[q] = leaks[q]
        /\ \A q \in Proc : \A v \in Worker : q # p \/ v # w => snapshot'[q][v] = snapshot[q][v]
    BY <1>0, <1>14, Zenon DEF EmplaceWrite, At
  <2>2. \A v \in Worker : wpc[p][v] = "emplace" => v = w
    BY <2>1 DEF LockInv, Locked
  <2>3. /\ wpc'[p][w] = "run"
        /\ \A q \in Proc : \A v \in Worker : q # p \/ v # w => wpc'[q][v] = wpc[q][v]
    BY <1>0, <2>1, GotoFrame, Zenon
  <2> QED BY <2>1, <2>2, <2>3 DEF SnapshotInv
<1>15. ASSUME NEW p \in Proc, NEW w \in Worker, Release(p, w) PROVE SnapshotInv'
  BY <1>b, <1>15, Zenon DEF Release
<1>16. ASSUME NEW p \in Proc, NEW w \in Worker, Unlock(p, w) PROVE SnapshotInv'
  BY <1>b, <1>16, Zenon DEF Unlock
<1>17. ASSUME NEW p \in Proc, NEW w \in Worker, Count(p, w) PROVE SnapshotInv'
  <2>1. UNCHANGED <<snapshot, leaks>> /\ (Goto(p, w, "report") \/ Goto(p, w, "fetch"))
    BY <1>17, Zenon DEF Count
  <2> QED BY <1>b, <2>1, Zenon
<1>18. ASSUME NEW p \in Proc, NEW w \in Worker, LockReport(p, w) PROVE SnapshotInv'
  BY <1>b, <1>18, Zenon DEF LockReport
<1>19. ASSUME NEW p \in Proc, NEW w \in Worker, ReadFrac(p, w) PROVE SnapshotInv'
  BY <1>b, <1>19, Zenon DEF ReadFrac
<1>20. ASSUME NEW p \in Proc, NEW w \in Worker, SendReport(p, w) PROVE SnapshotInv'
  BY <1>b, <1>20, Zenon DEF SendReport
<1>21. CASE UNCHANGED vars
  BY <1>21 DEF vars, semVars, procVars, mainVars, SnapshotInv, LockInv, Locked
<1> QED BY <1>1, <1>2, <1>3, <1>4, <1>5, <1>6, <1>7, <1>8, <1>9, <1>10, <1>11, <1>12, <1>13, <1>14, <1>15, <1>16, <1>17, <1>18, <1>19, <1>20, <1>21, Zenon DEF Next, MainStep, WorkerStep

\* Every step keeps the bookkeeping of the workers.
LEMMA PoolSpawnStep == TypeOK /\ LockInv /\ SpawnInv /\ [Next]_vars => SpawnInv'
<1> SUFFICES ASSUME TypeOK, LockInv, SpawnInv, [Next]_vars PROVE SpawnInv'
  BY Zenon
<1> USE PoolAssumption
<1>0. /\ total \in [Proc -> 0 .. MaxTasks]
      /\ mpc \in [Proc -> MainPC]
      /\ spawned \in [Proc -> 0 .. MaxParallel]
      /\ next_task \in [Proc -> Nat]
      /\ wpc \in [Proc -> [Worker -> WorkerPC]]
      /\ leaks \in [Proc -> SUBSET Nat]
  BY Zenon DEF TypeOK
<1>a. ASSUME NEW p \in Proc, NEW w \in Worker, NEW pc, Goto(p, w, pc), Alive(p),
             wpc[p][w] \notin {"unborn", "exit"}, pc # "unborn",
             pc = "exit" => next_task'[p] >= total[p],
             UNCHANGED <<total, mpc, spawned>>,
             next_task'[p] \in Nat, next_task'[p] >= next_task[p],
             \A q \in Proc : q # p => next_task'[q] = next_task[q] /\ leaks'[q] = leaks[q]
      PROVE  SpawnInv'
  <2>1. \A q \in Proc : NumSolvers(q)' = NumSolvers(q) /\ (Alive(q)' <=> Alive(q))
    BY <1>a, Zenon DEF NumSolvers, Alive
  <2>2. ASSUME NEW q \in Proc, q # p PROVE WorkersAsSpawned(q)'
    <3>1. \A v \in Worker : wpc'[q][v] = wpc[q][v]
      BY <1>0, <1>a, <2>2, GotoFrame
    <3>2. WorkersAsSpawned(q)
      BY Zenon DEF SpawnInv
    <3> QED BY <1>a, <2>1, <2>2, <3>1, <3>2, Zenon DEF WorkersAsSpawned
  <2>3. WorkersAsSpawned(p)'
    <3>1. wpc'[p][w] = pc /\ \A v \in Worker : v # w => wpc'[p][v] = wpc[p][v]
      BY <1>0, <1>a, GotoFrame
    <3>2. next_task[p] \in Nat /\ total[p] \in Nat
      BY <1>0
    <3> WorkersAsSpawned(p)
      BY SMTT(30) DEF SpawnInv
    <3>3. \A v \in Worker : wpc'[p][v] = "unborn" <=> v > spawned'[p]
      BY <1>a, <3>1, <3>2, Zenon DEF WorkersAsSpawned
    <3>4. \A v \in Worker : wpc'[p][v] = "exit" => next_task'[p] >= total'[p]
      BY <1>a, <3>1, <3>2 DEF WorkersAsSpawned
    <3>5. mpc[p] # "done"
      BY <1>a, <3>2, Zenon DEF WorkersAsSpawned
    <3> QED BY <1>a, <2>1, <3>2, <3>3, <3>4, <3>5, Zenon DEF WorkersAsSpawned
  <2> QED BY <2>2, <2>3, Zenon DEF SpawnInv
<1>b. ASSUME NEW p \in Proc, NEW w \in Worker, NEW pc, Goto(p, w, pc), Alive(p),
             wpc[p][w] \notin {"unborn", "exit"}, pc \notin {"unborn", "exit"},
             UNCHANGED <<total, mpc, spawned, next_task>>,
             \A q \in Proc : q # p => leaks'[q] = leaks[q]
      PROVE  SpawnInv'
  <2>1. next_task'[p] \in Nat /\ next_task'[p] >= next_task[p]
    BY <1>0, <1>b
  <2> QED BY <1>a, <1>b, <2>1, Zenon
<1>1. CASE MonStart
  BY <1>0, <1>1, Zenon DEF MonStart, semVars, procVars, mainVars, SpawnInv, WorkersAsSpawned, Alive, NumSolvers, Worker
<1>2. ASSUME NEW p \in Proc, Start(p) PROVE SpawnInv'
  BY <1>0, <1>2 DEF Start, semVars, procVars, mainVars, SpawnInv, WorkersAsSpawned, Alive, NumSolvers, Worker
<1>3. ASSUME NEW p \in Proc, Exit(p) PROVE SpawnInv'
  BY <1>0, <1>3 DEF Exit, Undo, Alive, semVars, procVars, mainVars, SpawnInv, WorkersAsSpawned, NumSolvers, Worker
<1>4. ASSUME NEW p \in Proc, LockSpawn(p) PROVE SpawnInv'
  BY <1>0, <1>4 DEF LockSpawn, semVars, procVars, mainVars, SpawnInv, WorkersAsSpawned, Alive, NumSolvers, Worker
<1>5. ASSUME NEW p \in Proc, Spawn(p) PROVE SpawnInv'
  BY <1>0, <1>5 DEF Spawn, Goto, semVars, procVars, mainVars, SpawnInv, WorkersAsSpawned, Alive, NumSolvers, Worker
<1>6. ASSUME NEW p \in Proc, UnlockSpawn(p) PROVE SpawnInv'
  BY <1>0, <1>6 DEF UnlockSpawn, semVars, procVars, mainVars, SpawnInv, WorkersAsSpawned, Alive, NumSolvers, Worker
<1>7. ASSUME NEW p \in Proc, JoinAndDump(p) PROVE SpawnInv'
  BY <1>0, <1>7 DEF JoinAndDump, semVars, procVars, mainVars, SpawnInv, WorkersAsSpawned, Alive, NumSolvers, Worker
<1>8. ASSUME NEW p \in Proc, NEW w \in Worker, Fetch(p, w) PROVE SpawnInv'
  <2>1. /\ Alive(p) /\ wpc[p][w] = "fetch" /\ UNCHANGED <<total, mpc, spawned, leaks>>
        /\ \A q \in Proc : q # p => next_task'[q] = next_task[q]
        /\ next_task'[p] \in Nat /\ next_task'[p] >= next_task[p]
    BY <1>0, <1>8 DEF Fetch, At, procVars, mainVars
  <2>2. CASE next_task[p] >= total[p]
    <3>1. Goto(p, w, "exit") /\ next_task'[p] >= total[p]
      BY <1>0, <1>8, <2>2 DEF Fetch
    <3> QED BY <1>a, <2>1, <3>1, Zenon
  <2>3. CASE ~(next_task[p] >= total[p])
    <3>1. Goto(p, w, "acquire")
      BY <1>8, <2>3, Zenon DEF Fetch
    <3> QED BY <1>a, <2>1, <3>1, Zenon
  <2> QED BY <2>2, <2>3, Zenon
<1>9. ASSUME NEW p \in Proc, NEW w \in Worker, Acquire(p, w) PROVE SpawnInv'
  BY <1>b, <1>9, Zenon DEF Acquire, At, procVars, mainVars
<1>10. ASSUME NEW p \in Proc, NEW w \in Worker, Lock(p, w) PROVE SpawnInv'
  BY <1>b, <1>10, Zenon DEF Lock, At, procVars, mainVars
<1>11. ASSUME NEW p \in Proc, NEW w \in Worker, SolverUnlock(p, w) PROVE SpawnInv'
  BY <1>b, <1>11, Zenon DEF SolverUnlock, At, procVars, mainVars
<1>12. ASSUME NEW p \in Proc, NEW w \in Worker, SolverRelock(p, w) PROVE SpawnInv'
  BY <1>b, <1>12, Zenon DEF SolverRelock, At, procVars, mainVars
<1>13. ASSUME NEW p \in Proc, NEW w \in Worker, EmplaceRead(p, w) PROVE SpawnInv'
  BY <1>b, <1>13, Zenon DEF EmplaceRead, At, procVars, mainVars
<1>14. ASSUME NEW p \in Proc, NEW w \in Worker, EmplaceWrite(p, w) PROVE SpawnInv'
  <2>1. /\ Alive(p) /\ wpc[p][w] = "emplace" /\ Goto(p, w, "run")
        /\ UNCHANGED <<total, mpc, spawned, next_task>>
    BY <1>14, Zenon DEF EmplaceWrite, At, procVars, mainVars
  <2>2. \A q \in Proc : q # p => leaks'[q] = leaks[q]
    BY <1>0, <1>14, Zenon DEF EmplaceWrite
  <2> QED BY <1>b, <2>1, <2>2, Zenon
<1>15. ASSUME NEW p \in Proc, NEW w \in Worker, Release(p, w) PROVE SpawnInv'
  BY <1>b, <1>15, Zenon DEF Release, At, procVars, mainVars
<1>16. ASSUME NEW p \in Proc, NEW w \in Worker, Unlock(p, w) PROVE SpawnInv'
  BY <1>b, <1>16, Zenon DEF Unlock, At, procVars, mainVars
<1>17. ASSUME NEW p \in Proc, NEW w \in Worker, Count(p, w) PROVE SpawnInv'
  <2>1. /\ Alive(p) /\ wpc[p][w] = "count" /\ (Goto(p, w, "report") \/ Goto(p, w, "fetch"))
        /\ UNCHANGED <<total, mpc, spawned, next_task, leaks>>
    BY <1>17, Zenon DEF Count, At, procVars, mainVars
  <2> QED BY <1>b, <2>1, Zenon
<1>18. ASSUME NEW p \in Proc, NEW w \in Worker, LockReport(p, w) PROVE SpawnInv'
  BY <1>b, <1>18, Zenon DEF LockReport, At, procVars, mainVars
<1>19. ASSUME NEW p \in Proc, NEW w \in Worker, ReadFrac(p, w) PROVE SpawnInv'
  BY <1>b, <1>19, Zenon DEF ReadFrac, At, procVars, mainVars
<1>20. ASSUME NEW p \in Proc, NEW w \in Worker, SendReport(p, w) PROVE SpawnInv'
  BY <1>b, <1>20, Zenon DEF SendReport, At, procVars, mainVars
<1>21. CASE UNCHANGED vars
  BY <1>21, Zenon DEF vars, semVars, procVars, mainVars, SpawnInv, WorkersAsSpawned, Alive, NumSolvers, Worker
<1> QED BY <1>1, <1>2, <1>3, <1>4, <1>5, <1>6, <1>7, <1>8, <1>9, <1>10, <1>11, <1>12, <1>13, <1>14, <1>15, <1>16, <1>17, <1>18, <1>19, <1>20, <1>21, Zenon DEF Next, MainStep, WorkerStep

\* Every step keeps the invariant.
LEMMA PoolInvStep == PoolInv /\ [Next]_vars => PoolInv'
  BY PoolTypeStep, PoolLockStep, PoolTaskStep, PoolSnapshotStep, PoolSpawnStep, Zenon
     DEF PoolInv

\* The inductive invariant holds in every reachable state of the pools.
THEOREM PoolInvariant == Spec => []PoolInv
  BY PoolInitInv, PoolInvStep, PTL DEF Spec

\* The variables of the pool keep their types; in particular the semaphore is
\* never negative and no more workers are started than max_parallel
\* (leakage.cc:135-171, util/sem.h).
THEOREM PoolTypes == Spec => []TypeOK
<1>1. PoolInv => TypeOK
  BY Zenon DEF PoolInv
<1> QED BY <1>1, PoolInvariant, PTL

\* aeg.context.mutex does its work: no two workers of a process are inside a
\* locked section, and none is while the main thread starts the pool
\* (leakage.cc:138-171, 406, 1204-1241).
THEOREM PoolMutualExclusion == Spec => []MutualExclusion
<1>1. PoolInv => MutualExclusion
  <2> SUFFICES ASSUME PoolInv, NEW p \in Proc, NEW w \in Worker, wpc[p][w] \in Locked
               PROVE  /\ mpc[p] # "spawn"
                      /\ \A v \in Worker : wpc[p][v] \in Locked => v = w
    BY Zenon DEF MutualExclusion
  <2>1. mutex[p] = w
    BY Zenon DEF PoolInv, LockInv
  <2>2. w # Main
    BY PoolAssumption DEF Worker, Main
  <2> QED BY <2>1, <2>2, Zenon DEF PoolInv, LockInv
<1> QED BY <1>1, PoolInvariant, PTL

\* next_task++ hands every candidate to one worker only (leakage.cc:144-150).
THEOREM PoolTasksDisjoint == Spec => []TasksDisjoint
<1>1. PoolInv => TasksDisjoint
  BY Zenon DEF PoolInv, TaskInv, TasksDisjoint
<1> QED BY <1>1, PoolInvariant, PTL
=============================================================================
