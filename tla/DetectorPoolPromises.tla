------------------------- MODULE DetectorPoolPromises -------------------------
(***************************************************************************)
(* Proofs about what the pools promise to the rest, for every number of    *)
(* processes, workers, tasks and permits: each pool implements             *)
(* LeakageSearch; the progress that the monitor is told never goes back;   *)
(* no permit of the semaphore is lost or made.                             *)
(***************************************************************************)
EXTENDS DetectorPoolProofs, FiniteSetTheorems

-----------------------------------------------------------------------------
(* The refinement: every step is a step of LeakageSearch or a stutter. *)

\* A step that leaves alone what the mapping reads is a stuttering step of
\* LeakageSearch.
LEMMA SearchStutter ==
  ASSUME UNCHANGED <<total, next_task, task, leaks, out>>,
         \A p \in Proc : Status(p)' = Status(p),
         \A p \in Proc : \A w \in Worker :
            wpc'[p][w] = "emplace" <=> wpc[p][w] = "emplace"
  PROVE  UNCHANGED Search!vars
<1>1. \A p \in Proc : Decided(p)' = Decided(p)
  BY Zenon DEF Decided
<1>2. \A p \in Proc : Found(p)' = Found(p)
  BY Zenon DEF Found
<1> QED BY <1>1, <1>2, Zenon DEF Search!vars

\* The initial state maps to an initial state.
LEMMA SearchInit == Init => Search!Init
<1> SUFFICES ASSUME Init PROVE Search!Init
  BY Zenon
<1>1. \A p \in Proc : Decided(p) = {} /\ Found(p) = {} /\ Status(p) = "idle"
  BY DEF Init, Decided, Found, Status
<1> QED BY <1>1, Zenon DEF Init, Search!Init

\* Every step maps to a step or a stutter.
LEMMA SearchStep == PoolInv /\ [Next]_vars => [Search!Next]_(Search!vars)
<1> SUFFICES ASSUME PoolInv, [Next]_vars PROVE [Search!Next]_(Search!vars)
  BY Zenon
<1> USE PoolAssumption
<1>0. /\ total \in [Proc -> 0 .. MaxTasks]
      /\ mpc \in [Proc -> MainPC]
      /\ next_task \in [Proc -> Nat]
      /\ wpc \in [Proc -> [Worker -> WorkerPC]]
      /\ task \in [Proc -> [Worker -> Nat \cup {NoTask}]]
      /\ leaks \in [Proc -> SUBSET Nat]
      /\ out \in [Proc -> SUBSET Nat]
  BY Zenon DEF PoolInv, TypeOK
<1>1. CASE MonStart \/ UNCHANGED vars
  <2>1. UNCHANGED <<total, next_task, task, leaks, out, mpc, wpc>>
    BY <1>1, Zenon DEF MonStart, vars, procVars, mainVars
  <2>2. \A p \in Proc : Status(p)' = Status(p)
    BY <2>1, Zenon DEF Status
  <2> QED BY <2>1, <2>2, SearchStutter, Zenon
<1>2. ASSUME NEW p \in Proc, Start(p)
     PROVE  [Search!Next]_(Search!vars)
  <2>1. PICK n \in 0 .. MaxTasks : total' = [total EXCEPT ![p] = n]
    BY <1>2, Zenon DEF Start
  <2>2. /\ mpc[p] = "new" /\ mpc' = [mpc EXCEPT ![p] = "create"]
        /\ UNCHANGED <<next_task, task, wpc, leaks, out>>
    BY <1>2, Zenon DEF Start
  <2>3. next_task[p] = 0
    BY <2>2, Zenon DEF PoolInv, SpawnInv, WorkersAsSpawned, Alive
  <2>4. \A q \in Proc : Decided(q)' = Decided(q)
    BY <1>0, <2>1, <2>2, <2>3 DEF Decided
  <2>5. \A q \in Proc : Found(q)' = Found(q)
    BY <2>2, Zenon DEF Found
  <2>6. Status(p) = "idle" /\ Status(p)' = "searching"
        /\ \A q \in Proc : q # p => Status(q)' = Status(q)
    BY <1>0, <2>2, Zenon DEF Status
  <2>7. Search!Begin(p)
    BY <2>1, <2>2, <2>4, <2>5, <2>6, Zenon DEF Search!Begin
  <2> QED BY <2>7, Zenon DEF Search!Next
<1>3. ASSUME NEW p \in Proc, Exit(p)
     PROVE  [Search!Next]_(Search!vars)
  <2>1. /\ mpc' = [mpc EXCEPT ![p] = IF mpc[p] = "done" THEN "gone" ELSE "dead"]
        /\ total' = [total EXCEPT ![p] = 0]
        /\ next_task' = [next_task EXCEPT ![p] = 0]
        /\ wpc' = [wpc EXCEPT ![p] = [w \in Worker |-> "unborn"]]
        /\ task' = [task EXCEPT ![p] = [w \in Worker |-> NoTask]]
        /\ leaks' = [leaks EXCEPT ![p] = {}]
        /\ out' = out /\ Alive(p)
    BY <1>3, Zenon DEF Exit
  <2>2. Decided(p)' = {} /\ \A q \in Proc : q # p => Decided(q)' = Decided(q)
    BY <1>0, <2>1 DEF Decided
  <2>3. Found(p)' = {} /\ \A q \in Proc : q # p => Found(q)' = Found(q)
    BY <1>0, <2>1, Zenon DEF Found
  <2>4. Status(p) \in {"searching", "reported"} /\ Status(p)' = "dead"
        /\ \A q \in Proc : q # p => Status(q)' = Status(q)
    BY <1>0, <2>1, Zenon DEF Status, Alive, MainPC
  <2>5. Search!Die(p)
    BY <2>1, <2>2, <2>3, <2>4, Zenon DEF Search!Die
  <2> QED BY <2>5, Zenon DEF Search!Next
<1>4. ASSUME NEW p \in Proc, LockSpawn(p)
     PROVE  [Search!Next]_(Search!vars)
  <2>1. UNCHANGED <<total, next_task, task, leaks, out, wpc>>
    BY <1>4, Zenon DEF LockSpawn, procVars
  <2>2. \A q \in Proc : Status(q)' = Status(q)
    BY <1>0, <1>4, Zenon DEF LockSpawn, Status
  <2> QED BY <2>1, <2>2, SearchStutter, Zenon
<1>5. ASSUME NEW p \in Proc, Spawn(p)
     PROVE  [Search!Next]_(Search!vars)
  <2>1. UNCHANGED <<total, next_task, task, leaks, out, mpc>>
        /\ wpc' = [wpc EXCEPT ![p][spawned[p] + 1] = "fetch"]
    BY <1>5, Zenon DEF Spawn, Goto, procVars, mainVars
  <2>2. \A q \in Proc : Status(q)' = Status(q)
    BY <2>1, Zenon DEF Status
  <2>3. spawned[p] + 1 \in Worker /\ spawned[p] \in Nat
    <3>1. spawned[p] \in 0 .. MaxParallel /\ spawned[p] < NumSolvers(p)
      BY <1>5, Zenon DEF PoolInv, TypeOK, Spawn
    <3> QED BY <1>0, <3>1 DEF NumSolvers, Worker
  <2>4. wpc[p][spawned[p] + 1] = "unborn"
    BY <2>3 DEF PoolInv, SpawnInv, WorkersAsSpawned, Alive
  <2>5. \A q \in Proc : \A v \in Worker : wpc'[q][v] = "emplace" <=> wpc[q][v] = "emplace"
    BY <1>0, <2>1, <2>3, <2>4, Zenon
  <2> QED BY <2>1, <2>2, <2>5, SearchStutter, Zenon
<1>6. ASSUME NEW p \in Proc, UnlockSpawn(p)
     PROVE  [Search!Next]_(Search!vars)
  <2>1. UNCHANGED <<total, next_task, task, leaks, out, wpc>>
    BY <1>6, Zenon DEF UnlockSpawn, procVars
  <2>2. \A q \in Proc : Status(q)' = Status(q)
    BY <1>0, <1>6, Zenon DEF UnlockSpawn, Status
  <2> QED BY <2>1, <2>2, SearchStutter, Zenon
<1>7. ASSUME NEW p \in Proc, JoinAndDump(p)
     PROVE  [Search!Next]_(Search!vars)
  <2>1. /\ mpc[p] = "join" /\ mpc' = [mpc EXCEPT ![p] = "done"]
        /\ out' = [out EXCEPT ![p] = leaks[p]]
        /\ \A w \in 1 .. spawned[p] : wpc[p][w] = "exit"
        /\ UNCHANGED <<total, next_task, task, leaks, wpc>>
    BY <1>7, Zenon DEF JoinAndDump, procVars
  <2>2. spawned[p] \in Nat /\ spawned[p] = NumSolvers(p)
    BY <2>1 DEF PoolInv, TypeOK, SpawnInv, WorkersAsSpawned, Alive
  <2>3. \A w \in Worker : wpc[p][w] \in {"exit", "unborn"}
    BY <2>1, <2>2 DEF PoolInv, SpawnInv, WorkersAsSpawned, Alive, Worker
  <2>4. \A w \in Worker : task[p][w] = NoTask
    BY <2>3, Zenon DEF PoolInv, TaskInv, InTask
  <2>5. total[p] = 0 \/ next_task[p] >= total[p]
    <3>1. CASE total[p] # 0
      <4>1. 1 \in Worker /\ 1 \in 1 .. spawned[p]
        BY <1>0, <2>2, <3>1 DEF NumSolvers, Worker
      <4> QED BY <2>1, <4>1, Zenon DEF PoolInv, SpawnInv, WorkersAsSpawned, Alive
    <3> QED BY <3>1, Zenon
  <2>6. Decided(p) = 0 .. total[p] - 1
    BY <1>0, <2>4, <2>5 DEF Decided, NoTask
  <2>7. Found(p) = leaks[p]
    BY <2>3, Zenon DEF Found
  <2>8. \A q \in Proc : Decided(q)' = Decided(q) /\ Found(q)' = Found(q)
    BY <2>1, Zenon DEF Decided, Found
  <2>9. Status(p) = "searching" /\ Status(p)' = "reported"
        /\ \A q \in Proc : q # p => Status(q)' = Status(q)
    BY <1>0, <2>1, Zenon DEF Status
  <2>10. Search!Publish(p)
    BY <2>1, <2>6, <2>7, <2>8, <2>9, Zenon DEF Search!Publish, Search!Candidates
  <2> QED BY <2>10, Zenon DEF Search!Next
<1>8. ASSUME NEW p \in Proc, NEW w \in Worker, Fetch(p, w)
     PROVE  [Search!Next]_(Search!vars)
  <2>1. /\ wpc[p][w] = "fetch" /\ next_task' = [next_task EXCEPT ![p] = @ + 1]
        /\ UNCHANGED <<total, mpc, leaks, out>>
    BY <1>8, Zenon DEF Fetch, At, procVars, mainVars
  <2>2. \A q \in Proc : Status(q)' = Status(q)
    BY <2>1, Zenon DEF Status
  <2>3. task[p][w] = NoTask
    BY <2>1, Zenon DEF PoolInv, TaskInv, InTask
  <2>4. CASE next_task[p] >= total[p]
    <3>1. wpc' = [wpc EXCEPT ![p][w] = "exit"] /\ task' = task
      BY <1>8, <2>4, Zenon DEF Fetch, Goto
    <3>2. \A q \in Proc : Decided(q)' = Decided(q)
      BY <1>0, <2>1, <2>4, <3>1 DEF Decided
    <3>3. \A q \in Proc : \A v \in Worker : wpc'[q][v] = "emplace" <=> wpc[q][v] = "emplace"
      BY <1>0, <2>1, <3>1, Zenon
    <3>4. \A q \in Proc : Found(q)' = Found(q)
      BY <2>1, <3>1, <3>3 DEF Found
    <3> QED BY <2>1, <2>2, <3>2, <3>4, Zenon DEF Search!vars
  <2>5. CASE ~(next_task[p] >= total[p])
    <3>1. /\ wpc' = [wpc EXCEPT ![p][w] = "acquire"]
          /\ task' = [task EXCEPT ![p][w] = next_task[p]]
      BY <1>8, <2>5, Zenon DEF Fetch, Goto
    <3>2. Decided(p)' = Decided(p)
      <4>1. \A v \in Worker : task'[p][v] = IF v = w THEN next_task[p] ELSE task[p][v]
        BY <1>0, <3>1, Zenon
      <4>2. \A v \in Worker : task[p][v] # next_task[p]
        BY <1>0 DEF PoolInv, TaskInv, NoTask
      <4>3. next_task'[p] = next_task[p] + 1 /\ next_task[p] \in Nat /\ total'[p] = total[p]
        BY <1>0, <2>1, Zenon
      <4>4. total[p] \in Nat
        BY <1>0
      <4>5. ASSUME NEW t \in 0 .. total[p] - 1
            PROVE  (t < next_task'[p] /\ \A v \in Worker : task'[p][v] # t)
                    <=> (t < next_task[p] /\ \A v \in Worker : task[p][v] # t)
        <5>1. CASE t = next_task[p]
          BY <4>1, <4>3, <5>1
        <5>2. CASE t # next_task[p]
          BY <2>3, <4>1, <4>3, <4>4, <5>2 DEF NoTask
        <5> QED BY <5>1, <5>2, Zenon
      <4> QED BY <4>3, <4>5, Zenon DEF Decided
    <3>3. \A q \in Proc : q # p => Decided(q)' = Decided(q)
      BY <1>0, <2>1, <3>1, Zenon DEF Decided
    <3>4. \A q \in Proc : \A v \in Worker :
             /\ wpc'[q][v] = "emplace" <=> wpc[q][v] = "emplace"
             /\ wpc[q][v] = "emplace" => task'[q][v] = task[q][v]
      BY <1>0, <2>1, <3>1, Zenon
    <3>5. \A q \in Proc : Found(q)' = Found(q)
      BY <2>1, <3>4 DEF Found
    <3> QED BY <2>1, <2>2, <3>2, <3>3, <3>5, Zenon DEF Search!vars
  <2> QED BY <2>4, <2>5, Zenon
<1>9. ASSUME NEW p \in Proc, NEW w \in Worker, Acquire(p, w)
     PROVE  [Search!Next]_(Search!vars)
  <2>1. UNCHANGED <<total, next_task, task, leaks, out, mpc>>
    BY <1>9, Zenon DEF Acquire, procVars, mainVars
  <2>2. \A q \in Proc : Status(q)' = Status(q)
    BY <2>1, Zenon DEF Status
  <2>3. \A q \in Proc : \A v \in Worker : wpc'[q][v] = "emplace" <=> wpc[q][v] = "emplace"
    BY <1>0, <1>9, Zenon DEF Acquire, At, Goto
  <2> QED BY <2>1, <2>2, <2>3, SearchStutter, Zenon
<1>10. ASSUME NEW p \in Proc, NEW w \in Worker, Lock(p, w)
     PROVE  [Search!Next]_(Search!vars)
  <2>1. UNCHANGED <<total, next_task, task, leaks, out, mpc>>
    BY <1>10, Zenon DEF Lock, procVars, mainVars
  <2>2. \A q \in Proc : Status(q)' = Status(q)
    BY <2>1, Zenon DEF Status
  <2>3. \A q \in Proc : \A v \in Worker : wpc'[q][v] = "emplace" <=> wpc[q][v] = "emplace"
    BY <1>0, <1>10, Zenon DEF Lock, At, Goto
  <2> QED BY <2>1, <2>2, <2>3, SearchStutter, Zenon
<1>11. ASSUME NEW p \in Proc, NEW w \in Worker, SolverUnlock(p, w)
     PROVE  [Search!Next]_(Search!vars)
  <2>1. UNCHANGED <<total, next_task, task, leaks, out, mpc>>
    BY <1>11, Zenon DEF SolverUnlock, procVars, mainVars
  <2>2. \A q \in Proc : Status(q)' = Status(q)
    BY <2>1, Zenon DEF Status
  <2>3. \A q \in Proc : \A v \in Worker : wpc'[q][v] = "emplace" <=> wpc[q][v] = "emplace"
    BY <1>0, <1>11, Zenon DEF SolverUnlock, At, Goto
  <2> QED BY <2>1, <2>2, <2>3, SearchStutter, Zenon
<1>12. ASSUME NEW p \in Proc, NEW w \in Worker, SolverRelock(p, w)
     PROVE  [Search!Next]_(Search!vars)
  <2>1. UNCHANGED <<total, next_task, task, leaks, out, mpc>>
    BY <1>12, Zenon DEF SolverRelock, procVars, mainVars
  <2>2. \A q \in Proc : Status(q)' = Status(q)
    BY <2>1, Zenon DEF Status
  <2>3. \A q \in Proc : \A v \in Worker : wpc'[q][v] = "emplace" <=> wpc[q][v] = "emplace"
    BY <1>0, <1>12, Zenon DEF SolverRelock, At, Goto
  <2> QED BY <2>1, <2>2, <2>3, SearchStutter, Zenon
<1>13. ASSUME NEW p \in Proc, NEW w \in Worker, Release(p, w)
     PROVE  [Search!Next]_(Search!vars)
  <2>1. UNCHANGED <<total, next_task, task, leaks, out, mpc>>
    BY <1>13, Zenon DEF Release, procVars, mainVars
  <2>2. \A q \in Proc : Status(q)' = Status(q)
    BY <2>1, Zenon DEF Status
  <2>3. \A q \in Proc : \A v \in Worker : wpc'[q][v] = "emplace" <=> wpc[q][v] = "emplace"
    BY <1>0, <1>13, Zenon DEF Release, At, Goto
  <2> QED BY <2>1, <2>2, <2>3, SearchStutter, Zenon
<1>14. ASSUME NEW p \in Proc, NEW w \in Worker, Unlock(p, w)
     PROVE  [Search!Next]_(Search!vars)
  <2>1. UNCHANGED <<total, next_task, task, leaks, out, mpc>>
    BY <1>14, Zenon DEF Unlock, procVars, mainVars
  <2>2. \A q \in Proc : Status(q)' = Status(q)
    BY <2>1, Zenon DEF Status
  <2>3. \A q \in Proc : \A v \in Worker : wpc'[q][v] = "emplace" <=> wpc[q][v] = "emplace"
    BY <1>0, <1>14, Zenon DEF Unlock, At, Goto
  <2> QED BY <2>1, <2>2, <2>3, SearchStutter, Zenon
<1>15. ASSUME NEW p \in Proc, NEW w \in Worker, LockReport(p, w)
     PROVE  [Search!Next]_(Search!vars)
  <2>1. UNCHANGED <<total, next_task, task, leaks, out, mpc>>
    BY <1>15, Zenon DEF LockReport, procVars, mainVars
  <2>2. \A q \in Proc : Status(q)' = Status(q)
    BY <2>1, Zenon DEF Status
  <2>3. \A q \in Proc : \A v \in Worker : wpc'[q][v] = "emplace" <=> wpc[q][v] = "emplace"
    BY <1>0, <1>15, Zenon DEF LockReport, At, Goto
  <2> QED BY <2>1, <2>2, <2>3, SearchStutter, Zenon
<1>16. ASSUME NEW p \in Proc, NEW w \in Worker, ReadFrac(p, w)
     PROVE  [Search!Next]_(Search!vars)
  <2>1. UNCHANGED <<total, next_task, task, leaks, out, mpc>>
    BY <1>16, Zenon DEF ReadFrac, procVars, mainVars
  <2>2. \A q \in Proc : Status(q)' = Status(q)
    BY <2>1, Zenon DEF Status
  <2>3. \A q \in Proc : \A v \in Worker : wpc'[q][v] = "emplace" <=> wpc[q][v] = "emplace"
    BY <1>0, <1>16, Zenon DEF ReadFrac, At, Goto
  <2> QED BY <2>1, <2>2, <2>3, SearchStutter, Zenon
<1>17. ASSUME NEW p \in Proc, NEW w \in Worker, SendReport(p, w)
     PROVE  [Search!Next]_(Search!vars)
  <2>1. UNCHANGED <<total, next_task, task, leaks, out, mpc>>
    BY <1>17, Zenon DEF SendReport, procVars, mainVars
  <2>2. \A q \in Proc : Status(q)' = Status(q)
    BY <2>1, Zenon DEF Status
  <2>3. \A q \in Proc : \A v \in Worker : wpc'[q][v] = "emplace" <=> wpc[q][v] = "emplace"
    BY <1>0, <1>17, Zenon DEF SendReport, At, Goto
  <2> QED BY <2>1, <2>2, <2>3, SearchStutter, Zenon
<1>18. ASSUME NEW p \in Proc, NEW w \in Worker, EmplaceRead(p, w)
     PROVE  [Search!Next]_(Search!vars)
  <2>1. /\ Alive(p) /\ wpc[p][w] = "run"
        /\ wpc' = [wpc EXCEPT ![p][w] = "emplace"]
        /\ UNCHANGED <<total, mpc, next_task, task, leaks, out>>
    BY <1>18, Zenon DEF EmplaceRead, At, Goto, procVars, mainVars
  <2>2. task[p][w] \in 0 .. total[p] - 1
    BY <1>0, <2>1 DEF PoolInv, TaskInv, InTask, NoTask
  <2>3. task[p][w] \notin Decided(p) /\ \A q \in Proc : Decided(q)' = Decided(q)
    BY <2>1, Zenon DEF Decided
  <2>4. Status(p) = "searching" /\ \A q \in Proc : Status(q)' = Status(q)
    <3>1. mpc[p] # "done"
      BY <2>1, Zenon DEF PoolInv, SpawnInv, WorkersAsSpawned, Alive
    <3> QED BY <1>0, <2>1, <3>1, Zenon DEF Status, Alive, MainPC
  <2>5. Found(p)' = Found(p) \cup {task[p][w]}
    BY <1>0, <2>1, Zenon DEF Found
  <2>6. \A q \in Proc : q # p => Found(q)' = Found(q)
    BY <1>0, <2>1, Zenon DEF Found
  <2>7. Search!Find(p)
    BY <2>1, <2>2, <2>3, <2>4, <2>5, <2>6, Zenon DEF Search!Find, Search!Candidates
  <2> QED BY <2>7, Zenon DEF Search!Next
<1>19. ASSUME NEW p \in Proc, NEW w \in Worker, EmplaceWrite(p, w)
     PROVE  [Search!Next]_(Search!vars)
  <2>1. /\ wpc[p][w] = "emplace"
        /\ wpc' = [wpc EXCEPT ![p][w] = "run"]
        /\ leaks' = [leaks EXCEPT ![p] = snapshot[p][w] \cup {task[p][w]}]
        /\ UNCHANGED <<total, mpc, next_task, task, out>>
    BY <1>19, Zenon DEF EmplaceWrite, At, Goto, procVars, mainVars
  <2>2. snapshot[p][w] = leaks[p]
    BY <2>1, Zenon DEF PoolInv, SnapshotInv
  <2>3. \A q \in Proc : Decided(q)' = Decided(q)
    BY <2>1, Zenon DEF Decided
  <2>4. \A q \in Proc : Status(q)' = Status(q)
    BY <2>1, Zenon DEF Status
  <2>5. Found(p)' = Found(p)
    BY <1>0, <2>1, <2>2, Zenon DEF Found
  <2>6. \A q \in Proc : q # p => Found(q)' = Found(q)
    BY <1>0, <2>1, Zenon DEF Found
  <2> QED BY <2>1, <2>3, <2>4, <2>5, <2>6, Zenon DEF Search!vars
<1>20. ASSUME NEW p \in Proc, NEW w \in Worker, Count(p, w)
     PROVE  [Search!Next]_(Search!vars)
  <2>1. /\ Alive(p) /\ wpc[p][w] = "count"
        /\ wpc' = [wpc EXCEPT ![p][w] = IF client[p] THEN "report" ELSE "fetch"]
        /\ task' = [task EXCEPT ![p][w] = NoTask]
        /\ UNCHANGED <<total, mpc, next_task, leaks, out>>
    BY <1>20, Zenon DEF Count, At, Goto, procVars, mainVars
  <2>2. task[p][w] \in 0 .. total[p] - 1 /\ task[p][w] < next_task[p]
    BY <1>0, <2>1 DEF PoolInv, TaskInv, InTask, NoTask
  <2>3. task[p][w] \notin Decided(p)
    BY Zenon DEF Decided
  <2>4. Status(p) = "searching" /\ \A q \in Proc : Status(q)' = Status(q)
    <3>1. mpc[p] # "done"
      BY <2>1, Zenon DEF PoolInv, SpawnInv, WorkersAsSpawned, Alive
    <3> QED BY <1>0, <2>1, <3>1, Zenon DEF Status, Alive, MainPC
  <2>5. Decided(p)' = Decided(p) \cup {task[p][w]}
    <3>1. \A v \in Worker : v # w => task[p][v] # task[p][w]
      BY <2>2 DEF PoolInv, TaskInv, NoTask
    <3>2. \A v \in Worker : task'[p][v] = IF v = w THEN NoTask ELSE task[p][v]
      BY <1>0, <2>1, Zenon
    <3>3. ASSUME NEW t \in 0 .. total[p] - 1
          PROVE  (\A v \in Worker : task'[p][v] # t)
                   <=> t = task[p][w] \/ (\A v \in Worker : task[p][v] # t)
      BY <3>1, <3>2 DEF NoTask
    <3> QED BY <2>1, <2>2, <3>3 DEF Decided
  <2>6. \A q \in Proc : q # p => Decided(q)' = Decided(q)
    BY <1>0, <2>1, Zenon DEF Decided
  <2>7. \A q \in Proc : \A v \in Worker :
           /\ wpc'[q][v] = "emplace" <=> wpc[q][v] = "emplace"
           /\ wpc[q][v] = "emplace" => task'[q][v] = task[q][v]
    BY <1>0, <2>1, Zenon
  <2>8. \A q \in Proc : Found(q)' = Found(q)
    BY <2>1, <2>7 DEF Found
  <2>9. Search!Decide(p)
    BY <2>1, <2>2, <2>3, <2>4, <2>5, <2>6, <2>8, Zenon DEF Search!Decide, Search!Candidates
  <2> QED BY <2>9, Zenon DEF Search!Next
<1> QED BY <1>1, <1>2, <1>3, <1>4, <1>5, <1>6, <1>7, <1>8, <1>9, <1>10, <1>11, <1>12, <1>13, <1>14, <1>15, <1>16, <1>17, <1>18, <1>19, <1>20, Zenon
       DEF Next, MainStep, WorkerStep

\* The pool implements LeakageSearch: every candidate is decided once, no leak
\* that was found is lost, and what dump() writes is published after the last
\* decision (leakage.cc:121-224, 246).
THEOREM PoolImplementsLeakageSearch == Spec => ImplementsLeakageSearch
  BY SearchInit, SearchStep, PoolInvariant, PTL
     DEF Spec, ImplementsLeakageSearch, Search!Spec

-----------------------------------------------------------------------------
(* Progress and permits. *)

\* The worker that the main thread starts next is one of the pool.
LEMMA SpawnedWorker ==
  ASSUME TypeOK, NEW p \in Proc, Spawn(p)
  PROVE  spawned[p] + 1 \in Worker
<1>1. spawned[p] \in Nat /\ total[p] \in Nat /\ MaxParallel \in Nat
  BY PoolAssumption DEF TypeOK
<1> QED
  BY <1>1 DEF Spawn, NumSolvers, Worker

-----------------------------------------------------------------------------
(* Progress.  ProgressInv is inductive given PoolInv: the mutex is held from *)
(* the read of completed_tasks to the send.                                  *)

\* A step that leaves the counters and the messages alone keeps ProgressInv,
\* if it does not bring a worker to a send or a process back to life.
LEMMA ProgressQuiet ==
  ASSUME ProgressInv, UNCHANGED <<sent, completed_tasks, frac>>,
         \A p \in Proc : mpc[p] \in {"gone", "dead"} => mpc'[p] \in {"gone", "dead"},
         \A p \in Proc : \A w \in Worker : wpc'[p][w] = "send" => wpc[p][w] = "send"
  PROVE  ProgressInv'
  BY Zenon DEF ProgressInv

\* Who is about to send after a worker has gone elsewhere was about to before.
LEMMA GotoSend ==
  ASSUME TypeOK, NEW p \in Proc, NEW w \in Worker, NEW pc, pc # "send", Goto(p, w, pc)
  PROVE  \A q \in Proc : \A v \in Worker : wpc'[q][v] = "send" => wpc[q][v] = "send"
<1>0. wpc \in [Proc -> [Worker -> WorkerPC]]
  BY Zenon DEF TypeOK
<1> SUFFICES ASSUME NEW q \in Proc, NEW v \in Worker, wpc'[q][v] = "send"
             PROVE  wpc[q][v] = "send"
  BY Zenon
<1>1. CASE q = p /\ v = w
  BY <1>0, <1>1, GotoFrame
<1>2. CASE q # p \/ v # w
  BY <1>0, <1>2, GotoFrame
<1> QED
  BY <1>1, <1>2, Zenon

\* completed_tasks++ (leakage.cc:153).
LEMMA ProgressCount ==
  ASSUME TypeOK, ProgressInv, NEW p \in Proc, NEW w \in Worker, Count(p, w)
  PROVE  ProgressInv'
<1>1. /\ UNCHANGED <<sent, frac, mpc>>
      /\ \A q \in Proc : completed_tasks'[q] >= completed_tasks[q]
  BY DEF Count, TypeOK, mainVars
<1>2. \A q \in Proc : \A v \in Worker : wpc'[q][v] = "send" => wpc[q][v] = "send"
  <2>1. Goto(p, w, "report") \/ Goto(p, w, "fetch")
    BY Zenon DEF Count
  <2> QED
    BY <2>1, GotoSend, Zenon
<1>3. \A q \in Proc : /\ sent[q] \in Nat /\ completed_tasks[q] \in Nat
                      /\ completed_tasks'[q] \in Nat
                      /\ \A v \in Worker : frac[q][v] \in Nat
  BY DEF Count, TypeOK
<1> QED
  BY <1>1, <1>2, <1>3 DEF ProgressInv

\* The worker reads completed_tasks under the mutex: no message that was sent
\* tells of more (leakage.cc:158-165).
LEMMA ProgressReadFrac ==
  ASSUME PoolInv, ProgressInv, NEW p \in Proc, NEW w \in Worker, ReadFrac(p, w)
  PROVE  ProgressInv'
<1>1. /\ UNCHANGED <<sent, completed_tasks, mpc>>
      /\ mpc[p] \notin {"gone", "dead"}
      /\ completed_tasks[p] \in Nat
      /\ frac'[p][w] = completed_tasks[p]
      /\ \A q \in Proc : \A v \in Worker : q # p \/ v # w => frac'[q][v] = frac[q][v]
  BY Zenon DEF ReadFrac, At, Alive, PoolInv, TypeOK, mainVars
<1>2. \A q \in Proc : \A v \in Worker : q # p \/ v # w => wpc'[q][v] = wpc[q][v]
  BY GotoFrame DEF ReadFrac, PoolInv, TypeOK
<1> QED
  BY <1>1, <1>2 DEF ProgressInv

\* The message is sent under the mutex: no other worker is about to send one.
LEMMA ProgressSend ==
  ASSUME PoolInv, ProgressInv, NEW p \in Proc, NEW w \in Worker, SendReport(p, w)
  PROVE  /\ ProgressInv'
         /\ \A q \in Proc : sent'[q] >= sent[q]
<1>1. /\ UNCHANGED <<completed_tasks, mpc>>
      /\ sent'[p] = frac[p][w]
      /\ \A q \in Proc : q # p => sent'[q] = sent[q]
      /\ \A q \in Proc : \A v \in Worker : q # p \/ v # w => frac'[q][v] = frac[q][v]
      /\ \A q \in Proc : sent[q] \in Nat
  BY Zenon DEF SendReport, PoolInv, TypeOK, mainVars
<1>2. /\ wpc[p][w] = "send" /\ wpc'[p][w] = "fetch"
      /\ \A q \in Proc : \A v \in Worker : q # p \/ v # w => wpc'[q][v] = wpc[q][v]
  BY GotoFrame DEF SendReport, At, PoolInv, TypeOK
<1>3. \A v \in Worker : v # w => wpc[p][v] # "send"
  BY <1>2 DEF PoolInv, LockInv, Locked
<1>4. sent[p] <= frac[p][w] /\ frac[p][w] <= completed_tasks[p]
  BY <1>2, Zenon DEF ProgressInv
<1> QED
  BY <1>1, <1>2, <1>3, <1>4 DEF ProgressInv

\* Every step keeps ProgressInv and never takes back what was sent.
LEMMA ProgressStep ==
  PoolInv /\ ProgressInv /\ [Next]_vars =>
    ProgressInv' /\ \A p \in Proc : sent'[p] >= sent[p]
<1> SUFFICES ASSUME PoolInv, ProgressInv, [Next]_vars
             PROVE  ProgressInv' /\ \A p \in Proc : sent'[p] >= sent[p]
  BY Zenon
<1> DEFINE Goal == ProgressInv' /\ \A p \in Proc : sent'[p] >= sent[p]
<1>0. TypeOK
  BY Zenon DEF PoolInv
<1>a. (UNCHANGED sent) => \A p \in Proc : sent'[p] >= sent[p]
  BY <1>0 DEF TypeOK
<1>1. CASE MonStart
  BY <1>1, <1>a, ProgressQuiet, Zenon DEF MonStart, mainVars
<1>2. ASSUME NEW p \in Proc, Start(p) \/ MainStep(p) PROVE Goal
  <2>0. UNCHANGED <<sent, completed_tasks, frac>>
    BY <1>2, Zenon DEF Start, MainStep, LockSpawn, Spawn, UnlockSpawn, JoinAndDump
  <2>1. \A q \in Proc : mpc[q] \in {"gone", "dead"} => mpc'[q] \in {"gone", "dead"}
    <3>1. mpc[p] \notin {"gone", "dead"}
      BY <1>2, Zenon DEF Start, MainStep, LockSpawn, Spawn, UnlockSpawn, JoinAndDump
    <3>2. \/ mpc' = [mpc EXCEPT ![p] = "create"] \/ mpc' = [mpc EXCEPT ![p] = "spawn"]
          \/ mpc' = [mpc EXCEPT ![p] = "join"] \/ mpc' = [mpc EXCEPT ![p] = "done"]
          \/ mpc' = mpc
      BY <1>2, Zenon DEF Start, MainStep, LockSpawn, Spawn, UnlockSpawn, JoinAndDump
    <3> QED
      BY <1>0, <3>1, <3>2, Zenon DEF TypeOK
  <2>2. wpc' = wpc \/ \E w \in Worker : Goto(p, w, "fetch")
    <3>1. CASE Spawn(p)
      BY <1>0, <3>1, SpawnedWorker, Zenon DEF Spawn
    <3> QED
      BY <1>2, <3>1, Zenon DEF Start, MainStep, LockSpawn, UnlockSpawn, JoinAndDump
  <2>3. \A q \in Proc : \A v \in Worker : wpc'[q][v] = "send" => wpc[q][v] = "send"
    BY <1>0, <2>2, GotoSend, Zenon
  <2> QED
    BY <1>a, <2>0, <2>1, <2>3, ProgressQuiet, Zenon
<1>3. ASSUME NEW p \in Proc, Exit(p) PROVE Goal
  <2>1. /\ UNCHANGED sent /\ mpc'[p] \in {"gone", "dead"}
        /\ \A q \in Proc : q # p => /\ completed_tasks'[q] = completed_tasks[q]
                                    /\ frac'[q] = frac[q] /\ wpc'[q] = wpc[q]
                                    /\ mpc'[q] = mpc[q]
        /\ \A v \in Worker : wpc'[p][v] = "unborn"
    BY <1>0, <1>3, Zenon DEF Exit, TypeOK
  <2> QED
    BY <1>a, <2>1, Zenon DEF ProgressInv
<1>4. ASSUME NEW p \in Proc, NEW w \in Worker, WorkerStep(p, w) PROVE Goal
  <2>1. CASE Count(p, w)
    BY <1>0, <1>a, <2>1, ProgressCount, Zenon DEF Count
  <2>2. CASE ReadFrac(p, w)
    BY <1>a, <2>2, ProgressReadFrac, Zenon DEF ReadFrac
  <2>3. CASE SendReport(p, w)
    BY <2>3, ProgressSend, Zenon
  <2>4. CASE ~(Count(p, w) \/ ReadFrac(p, w) \/ SendReport(p, w))
    <3>1. /\ UNCHANGED <<sent, completed_tasks, frac, mpc>>
          /\ \E pc \in WorkerPC \ {"send"} : Goto(p, w, pc)
      <4>1. CASE Fetch(p, w)
        BY <4>1, Zenon DEF Fetch, WorkerPC, mainVars
      <4>2. CASE Acquire(p, w) \/ Lock(p, w) \/ Release(p, w) \/ Unlock(p, w) \/ LockReport(p, w)
        BY <4>2, Zenon DEF Acquire, Lock, Release, Unlock, LockReport, WorkerPC, mainVars
      <4>3. CASE \/ SolverUnlock(p, w) \/ SolverRelock(p, w)
                 \/ EmplaceRead(p, w) \/ EmplaceWrite(p, w)
        BY <4>3, Zenon DEF SolverUnlock, SolverRelock, EmplaceRead, EmplaceWrite, WorkerPC, mainVars
      <4> QED
        BY <1>4, <2>4, <4>1, <4>2, <4>3, Zenon DEF WorkerStep
    <3> QED
      BY <1>0, <1>a, <3>1, GotoSend, ProgressQuiet, Zenon
  <2> QED
    BY <2>1, <2>2, <2>3, <2>4, Zenon
<1>5. CASE UNCHANGED vars
  BY <1>5, <1>a, ProgressQuiet, Zenon DEF vars, mainVars
<1> QED
  BY <1>1, <1>2, <1>3, <1>4, <1>5, Zenon DEF Next

\* The fraction that the monitor is told never goes back, whatever the order in
\* which the workers finish and report (leakage.cc:158-165).
THEOREM PoolProgressMonotone == Spec => ProgressMonotone
<1>1. Init => ProgressInv
  BY DEF Init, ProgressInv
<1>2. PoolInv /\ ProgressInv /\ [Next]_vars => [\A p \in Proc : sent'[p] >= sent[p]]_vars
  BY ProgressStep, Zenon
<1> QED
  BY <1>1, <1>2, ProgressStep, PoolInvariant, PTL DEF Spec, ProgressMonotone

-----------------------------------------------------------------------------
(* Permits.  PermitInv is inductive given PoolInv: an undo record counts the *)
(* permits its process holds, so what the kernel gives back at an exit is    *)
(* what was taken.                                                           *)

Permitted == {"lock", "run", "check", "emplace"}
Holding(p, w) == Alive(p) /\ semid[p] /\ wpc[p][w] \in Permitted

\* The workers that hold a permit are finitely many.
LEMMA HoldersFinite ==
  /\ IsFiniteSet(PermitHolders)
  /\ \A p \in Proc : IsFiniteSet(Holders(p))
<1>1. IsFiniteSet(Proc \X Worker)
  <2>1. IsFiniteSet(Worker)
    BY PoolAssumption, FS_Interval DEF Worker
  <2> QED
    BY <2>1, PoolAssumption, FS_Product, Zenon
<1>2. PermitHolders \subseteq Proc \X Worker
  BY Zenon DEF PermitHolders
<1>3. \A p \in Proc : Holders(p) \subseteq Proc \X Worker
  BY <1>2, Zenon DEF Holders
<1> QED
  BY <1>1, <1>2, <1>3, FS_Subset, Zenon

\* A pair is among the holders when its worker holds a permit.
LEMMA HolderPairs ==
  /\ PermitHolders = {x \in Proc \X Worker : Holding(x[1], x[2])}
  /\ PermitHolders' = {x \in Proc \X Worker : Holding(x[1], x[2])'}
  BY Zenon DEF PermitHolders, Holding, Permitted

\* A step after which the same workers hold a permit, and that leaves the
\* semaphore alone, keeps PermitInv.
LEMMA PermitQuiet ==
  ASSUME PermitInv, UNCHANGED <<starts, semExists, semval, semadj>>,
         \A p \in Proc : semid'[p] => semid[p] \/ semExists,
         \A p \in Proc : \A w \in Worker : Holding(p, w)' <=> Holding(p, w)
  PROVE  PermitInv'
<1>1. PermitHolders' = PermitHolders
  BY HolderPairs, Zenon
<1>2. \A p \in Proc : Holders(p)' = Holders(p)
  BY <1>1, Zenon DEF Holders
<1> QED
  BY <1>1, <1>2, Zenon DEF PermitInv, PermitConservation

\* A worker's step changes whether it holds a permit, and for no other worker.
LEMMA GotoHolding ==
  ASSUME TypeOK, NEW p \in Proc, NEW w \in Worker, NEW pc, Goto(p, w, pc),
         UNCHANGED <<mpc, semid>>
  PROVE  /\ Holding(p, w)' <=> Alive(p) /\ semid[p] /\ pc \in Permitted
         /\ \A q \in Proc : \A v \in Worker :
              q # p \/ v # w => (Holding(q, v)' <=> Holding(q, v))
<1>1. wpc \in [Proc -> [Worker -> WorkerPC]]
  BY Zenon DEF TypeOK
<1>2. /\ wpc'[p][w] = pc
      /\ \A q \in Proc : \A v \in Worker : q # p \/ v # w => wpc'[q][v] = wpc[q][v]
  BY <1>1, GotoFrame, Zenon
<1>3. \A q \in Proc : Alive(q)' <=> Alive(q)
  BY Zenon DEF Alive
<1> QED
  BY <1>2, <1>3, Zenon DEF Holding

\* A worker that goes on without taking or giving back a permit.
LEMMA PermitGoto ==
  ASSUME TypeOK, PermitInv, NEW p \in Proc, NEW w \in Worker, NEW pc, Goto(p, w, pc),
         UNCHANGED <<semVars, semid, mpc>>,
         semid[p] => (wpc[p][w] \in Permitted <=> pc \in Permitted)
  PROVE  PermitInv'
<1>1. Holding(p, w)' <=> Holding(p, w)
  BY GotoHolding, Zenon DEF Holding
<1>2. \A q \in Proc : \A v \in Worker : Holding(q, v)' <=> Holding(q, v)
  BY <1>1, GotoHolding, Zenon
<1> QED
  BY <1>2, PermitQuiet, Zenon DEF semVars

\* A worker takes a permit: semop(-1) with SEM_UNDO (util/sem.h).
LEMMA PermitAcquire ==
  ASSUME TypeOK, PermitInv, NEW p \in Proc, NEW w \in Worker, Acquire(p, w), semid[p]
  PROVE  PermitInv'
<1>1. /\ Goto(p, w, "lock") /\ UNCHANGED <<mpc, semid, starts, semExists>>
      /\ Alive(p) /\ wpc[p][w] = "acquire"
      /\ semval' = semval - 1 /\ semadj' = [semadj EXCEPT ![p] = @ + 1]
  BY Zenon DEF Acquire, At, procVars, mainVars
<1>2. ~Holding(p, w) /\ Holding(p, w)'
  BY <1>1, GotoHolding, Zenon DEF Holding, Permitted
<1>3. \A q \in Proc : \A v \in Worker :
        q # p \/ v # w => (Holding(q, v)' <=> Holding(q, v))
  BY <1>1, GotoHolding, Zenon
<1>4. /\ PermitHolders' = PermitHolders \cup {<<p, w>>}
      /\ <<p, w>> \notin PermitHolders
  BY <1>2, <1>3, HolderPairs
<1>5. /\ Holders(p)' = Holders(p) \cup {<<p, w>>}
      /\ <<p, w>> \notin Holders(p)
      /\ \A q \in Proc : q # p => Holders(q)' = Holders(q)
  BY <1>4 DEF Holders
<1>6. /\ Cardinality(PermitHolders') = Cardinality(PermitHolders) + 1
      /\ Cardinality(Holders(p)') = Cardinality(Holders(p)) + 1
  BY <1>4, <1>5, HoldersFinite, FS_AddElement, Zenon
<1>7. /\ Cardinality(PermitHolders) \in Nat /\ Cardinality(Holders(p)) \in Nat
      /\ semval \in Nat /\ semadj \in [Proc -> Int] /\ NumThreads \in Nat
  BY HoldersFinite, FS_CardinalityType, PoolAssumption, Zenon DEF TypeOK
<1>8. starts = 1 => semval' + Cardinality(PermitHolders') = NumThreads
  BY <1>1, <1>6, <1>7 DEF PermitInv, PermitConservation
<1>9. ASSUME starts = 1, NEW q \in Proc PROVE semadj'[q] = Cardinality(Holders(q)')
  <2>1. semadj[q] = Cardinality(Holders(q))
    BY <1>9, Zenon DEF PermitInv
  <2> QED
    BY <1>1, <1>5, <1>6, <1>7, <2>1, Zenon
<1> QED
  BY <1>1, <1>8, <1>9, Zenon DEF PermitInv, PermitConservation

\* A worker gives its permit back: semop(+1) with SEM_UNDO (util/sem.h).
LEMMA PermitRelease ==
  ASSUME TypeOK, PermitInv, NEW p \in Proc, NEW w \in Worker, Release(p, w), semid[p]
  PROVE  PermitInv'
<1>1. /\ Goto(p, w, "unlock") /\ UNCHANGED <<mpc, semid, starts, semExists>>
      /\ Alive(p) /\ wpc[p][w] = "run"
      /\ semval' = semval + 1 /\ semadj' = [semadj EXCEPT ![p] = @ - 1]
  BY Zenon DEF Release, At, procVars, mainVars
<1>2. Holding(p, w) /\ ~Holding(p, w)'
  BY <1>1, GotoHolding DEF Holding, Permitted
<1>3. \A q \in Proc : \A v \in Worker :
        q # p \/ v # w => (Holding(q, v)' <=> Holding(q, v))
  BY <1>1, GotoHolding, Zenon
<1>4. /\ PermitHolders' = PermitHolders \ {<<p, w>>}
      /\ <<p, w>> \in PermitHolders
  BY <1>2, <1>3, HolderPairs
<1>5. /\ Holders(p)' = Holders(p) \ {<<p, w>>}
      /\ <<p, w>> \in Holders(p)
      /\ \A q \in Proc : q # p => Holders(q)' = Holders(q)
  BY <1>4 DEF Holders
<1>6. /\ Cardinality(PermitHolders') = Cardinality(PermitHolders) - 1
      /\ Cardinality(Holders(p)') = Cardinality(Holders(p)) - 1
  BY <1>4, <1>5, HoldersFinite, FS_RemoveElement, Zenon
<1>7. /\ Cardinality(PermitHolders) \in Nat /\ Cardinality(Holders(p)) \in Nat
      /\ semval \in Nat /\ semadj \in [Proc -> Int] /\ NumThreads \in Nat
  BY HoldersFinite, FS_CardinalityType, PoolAssumption, Zenon DEF TypeOK
<1>8. starts = 1 => semval' + Cardinality(PermitHolders') = NumThreads
  BY <1>1, <1>6, <1>7 DEF PermitInv, PermitConservation
<1>9. ASSUME starts = 1, NEW q \in Proc PROVE semadj'[q] = Cardinality(Holders(q)')
  <2>1. semadj[q] = Cardinality(Holders(q))
    BY <1>9, Zenon DEF PermitInv
  <2> QED
    BY <1>1, <1>5, <1>6, <1>7, <2>1, Zenon
<1> QED
  BY <1>1, <1>8, <1>9, Zenon DEF PermitInv, PermitConservation

\* A process exits or dies anywhere: the kernel adds its undo record, which is
\* what its workers had taken (exit_sem, for SEM_UNDO in util/sem.h).
LEMMA PermitExit ==
  ASSUME TypeOK, PermitInv, NEW p \in Proc, Exit(p)
  PROVE  PermitInv'
<1>1. /\ UNCHANGED <<starts, semExists>>
      /\ semval' = IF semval + semadj[p] < 0 THEN 0 ELSE semval + semadj[p]
      /\ semadj' = [semadj EXCEPT ![p] = 0]
  BY Zenon DEF Exit, Undo
<1>2. /\ mpc'[p] \in {"gone", "dead"} /\ ~semid'[p]
      /\ \A q \in Proc : q # p => /\ mpc'[q] = mpc[q] /\ semid'[q] = semid[q]
                                  /\ wpc'[q] = wpc[q]
  BY Zenon DEF Exit, TypeOK
<1>3. /\ \A w \in Worker : ~Holding(p, w)'
      /\ \A q \in Proc : \A v \in Worker : q # p => (Holding(q, v)' <=> Holding(q, v))
  BY <1>2, Zenon DEF Holding, Alive
<1>4. PermitHolders' = PermitHolders \ Holders(p)
  BY <1>3, HolderPairs, Zenon DEF Holders
<1>5. Holders(p)' = {} /\ \A q \in Proc : q # p => Holders(q)' = Holders(q)
  BY <1>4, Zenon DEF Holders
<1>6. /\ Cardinality(PermitHolders') = Cardinality(PermitHolders) - Cardinality(Holders(p))
      /\ Cardinality(Holders(p)') = 0
  <2>1. PermitHolders \cap Holders(p) = Holders(p)
    BY Zenon DEF Holders
  <2>2. Cardinality(PermitHolders \ Holders(p)) =
          Cardinality(PermitHolders) - Cardinality(PermitHolders \cap Holders(p))
    BY HoldersFinite, FS_Difference, Zenon
  <2> QED
    BY <1>4, <1>5, <2>1, <2>2, FS_EmptySet, Zenon
<1>7. /\ Cardinality(PermitHolders) \in Nat /\ Cardinality(Holders(p)) \in Nat
      /\ semval \in Nat /\ semadj \in [Proc -> Int] /\ NumThreads \in Nat
  BY HoldersFinite, FS_CardinalityType, PoolAssumption, Zenon DEF TypeOK
<1>8. ASSUME starts = 1 PROVE semval' + Cardinality(PermitHolders') = NumThreads
  <2>1. semadj[p] = Cardinality(Holders(p)) /\ semval + Cardinality(PermitHolders) = NumThreads
    BY <1>8, Zenon DEF PermitInv, PermitConservation
  <2> QED
    BY <1>1, <1>6, <1>7, <2>1
<1>9. ASSUME starts = 1, NEW q \in Proc PROVE semadj'[q] = Cardinality(Holders(q)')
  <2>1. semadj[q] = Cardinality(Holders(q))
    BY <1>9, Zenon DEF PermitInv
  <2> QED
    BY <1>1, <1>5, <1>6, <1>7, <2>1, Zenon
<1>10. starts = 0 => ~semExists /\ \A q \in Proc : ~semid'[q]
  BY <1>2, Zenon DEF PermitInv
<1> QED
  BY <1>1, <1>8, <1>9, <1>10, Zenon DEF PermitInv, PermitConservation

\* The monitor is started for the first time: no process has found a semaphore,
\* so none holds a permit of the new one.
LEMMA PermitMonStart ==
  ASSUME TypeOK, PermitInv, MonStart
  PROVE  PermitInv'
<1>1. /\ starts \in Nat /\ starts' = starts + 1 /\ semval' = NumThreads /\ NumThreads \in Nat
      /\ UNCHANGED <<semid, mpc, wpc>> /\ \A p \in Proc : semadj'[p] = 0
  BY PoolAssumption DEF MonStart, TypeOK, procVars, mainVars
<1>2. ASSUME starts = 0 PROVE PermitHolders' = {}
  <2>1. \A p \in Proc : ~semid'[p]
    BY <1>1, <1>2, Zenon DEF PermitInv
  <2> QED
    BY <2>1, Zenon DEF PermitHolders
<1>3. ASSUME starts = 0 PROVE \A p \in Proc : Holders(p)' = {}
  BY <1>2, <1>3, Zenon DEF Holders
<1>4. starts' # 0 /\ (starts' = 1 => starts = 0)
  BY <1>1
<1>5. starts' = 1 => semval' + Cardinality(PermitHolders') = NumThreads
  BY <1>1, <1>2, <1>4, FS_EmptySet
<1>6. starts' = 1 => \A p \in Proc : semadj'[p] = Cardinality(Holders(p)')
  BY <1>1, <1>3, <1>4, FS_EmptySet, Zenon
<1> QED
  BY <1>4, <1>5, <1>6, Zenon DEF PermitInv, PermitConservation

\* A process starts, or its main thread takes a step: no worker takes or gives
\* back a permit.
LEMMA PermitMain ==
  ASSUME PoolInv, PermitInv, NEW p \in Proc, Start(p) \/ MainStep(p)
  PROVE  PermitInv'
<1>0. TypeOK
  BY Zenon DEF PoolInv
<1>1. CASE Start(p)
  <2>1. /\ UNCHANGED <<starts, semExists, semval, semadj, wpc>>
        /\ semid'[p] = semExists
        /\ \A q \in Proc : q # p => semid'[q] = semid[q] /\ mpc'[q] = mpc[q]
    BY <1>0, <1>1, Zenon DEF Start, semVars, TypeOK
  <2>2. \A w \in Worker : wpc[p][w] = "unborn"
    <3>1. spawned[p] = 0
      BY <1>1, Zenon DEF Start, PoolInv, SpawnInv, WorkersAsSpawned
    <3> QED
      BY <3>1 DEF PoolInv, SpawnInv, WorkersAsSpawned, Worker
  <2>3. \A q \in Proc : \A w \in Worker : Holding(q, w)' <=> Holding(q, w)
    BY <2>1, <2>2, Zenon DEF Holding, Permitted, Alive
  <2> QED
    BY <2>1, <2>3, PermitQuiet, Zenon
<1>2. CASE Spawn(p)
  <2>1. spawned[p] + 1 \in Worker
    BY <1>0, <1>2, SpawnedWorker, Zenon
  <2>2. wpc[p][spawned[p] + 1] = "unborn"
    BY <2>1 DEF PoolInv, TypeOK, SpawnInv, WorkersAsSpawned
  <2> QED
    BY <1>0, <1>2, <2>1, <2>2, PermitGoto, Zenon DEF Spawn, procVars, Permitted
<1>3. CASE LockSpawn(p) \/ UnlockSpawn(p) \/ JoinAndDump(p)
  <2>1. UNCHANGED <<semVars, semid, wpc>>
    BY <1>3, Zenon DEF LockSpawn, UnlockSpawn, JoinAndDump, procVars
  <2>2. \A q \in Proc : Alive(q)' <=> Alive(q)
    BY <1>0, <1>3, Zenon DEF LockSpawn, UnlockSpawn, JoinAndDump, Alive, TypeOK
  <2> QED
    BY <2>1, <2>2, PermitQuiet, Zenon DEF semVars, Holding
<1> QED
  BY <1>1, <1>2, <1>3, Zenon DEF MainStep

\* A worker's step, one case for each.
LEMMA PermitWorker ==
  ASSUME TypeOK, PermitInv, NEW p \in Proc, NEW w \in Worker, WorkerStep(p, w)
  PROVE  PermitInv'
<1>1. CASE Fetch(p, w)
  <2>1. /\ wpc[p][w] = "fetch" /\ UNCHANGED <<semVars, semid, mpc>>
        /\ Goto(p, w, "exit") \/ Goto(p, w, "acquire")
    BY <1>1, Zenon DEF Fetch, At, procVars, mainVars
  <2> QED
    BY <2>1, PermitGoto, Zenon DEF Permitted
<1>2. CASE Acquire(p, w)
  <2>1. CASE ~semid[p]
    BY <1>2, <2>1, PermitGoto, Zenon DEF Acquire, procVars, mainVars, semVars
  <2> QED
    BY <1>2, <2>1, PermitAcquire, Zenon
<1>3. CASE Release(p, w)
  <2>1. CASE ~semid[p]
    BY <1>3, <2>1, PermitGoto, Zenon DEF Release, procVars, mainVars, semVars
  <2> QED
    BY <1>3, <2>1, PermitRelease, Zenon
<1>4. CASE Lock(p, w)
  BY <1>4, PermitGoto, Zenon DEF Lock, At, Permitted, procVars, mainVars
<1>5. CASE SolverUnlock(p, w)
  BY <1>5, PermitGoto, Zenon DEF SolverUnlock, At, Permitted, procVars, mainVars
<1>6. CASE SolverRelock(p, w)
  BY <1>6, PermitGoto, Zenon DEF SolverRelock, At, Permitted, procVars, mainVars
<1>7. CASE EmplaceRead(p, w)
  BY <1>7, PermitGoto, Zenon DEF EmplaceRead, At, Permitted, procVars, mainVars
<1>8. CASE EmplaceWrite(p, w)
  BY <1>8, PermitGoto, Zenon DEF EmplaceWrite, At, Permitted, procVars, mainVars
<1>9. CASE Unlock(p, w)
  BY <1>9, PermitGoto, Zenon DEF Unlock, At, Permitted, procVars, mainVars
<1>10. CASE Count(p, w)
  <2>1. /\ wpc[p][w] = "count" /\ UNCHANGED <<semVars, semid, mpc>>
        /\ Goto(p, w, "report") \/ Goto(p, w, "fetch")
    BY <1>10, Zenon DEF Count, At, procVars, mainVars
  <2> QED
    BY <2>1, PermitGoto, Zenon DEF Permitted
<1>11. CASE LockReport(p, w)
  BY <1>11, PermitGoto, Zenon DEF LockReport, At, Permitted, procVars, mainVars
<1>12. CASE ReadFrac(p, w)
  BY <1>12, PermitGoto, Zenon DEF ReadFrac, At, Permitted, procVars, mainVars
<1>13. CASE SendReport(p, w)
  BY <1>13, PermitGoto, Zenon DEF SendReport, At, Permitted, procVars, mainVars
<1> QED
  BY <1>1, <1>2, <1>3, <1>4, <1>5, <1>6, <1>7, <1>8, <1>9, <1>10, <1>11, <1>12, <1>13, Zenon
     DEF WorkerStep

\* Permits are neither lost nor made while the monitor is started once, whatever
\* processes start and die and wherever they die (util/sem.h, leakage.cc:149-152).
THEOREM PoolPermitConservation == Spec => []PermitConservation
<1>1. Init => PermitInv
  BY DEF Init, PermitInv, PermitConservation
<1>2. PoolInv /\ PermitInv /\ [Next]_vars => PermitInv'
  <2> SUFFICES ASSUME PoolInv, PermitInv, [Next]_vars PROVE PermitInv'
    BY Zenon
  <2>1. TypeOK
    BY Zenon DEF PoolInv
  <2>2. CASE UNCHANGED vars
    BY <2>2, PermitQuiet, Zenon
       DEF vars, semVars, procVars, mainVars, Holding, Alive
  <2> QED
    BY <2>1, <2>2, PermitMonStart, PermitMain, PermitExit, PermitWorker, Zenon DEF Next
<1>3. PermitInv => PermitConservation
  BY Zenon DEF PermitInv
<1> QED
  BY <1>1, <1>2, <1>3, PoolInvariant, PTL DEF Spec
=============================================================================
