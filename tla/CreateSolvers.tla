---------------------------- MODULE CreateSolvers ----------------------------
(***************************************************************************)
(* DetectorMain::create_solvers: one private z3 context and solver per     *)
(* worker.  Slot 0 is translated from the main solver; then every round    *)
(* doubles the number of slots that hold the formula, one thread copying   *)
(* slot i to slot idx + i, and joins its threads.  A z3 context may be     *)
(* used by one thread at a time, for reading too.                          *)
(***************************************************************************)
EXTENDS Naturals

CONSTANT MaxN   \* bound on the number of solvers asked for

ASSUME MaxNAssumption == MaxN \in Nat

VARIABLES
  N,        \* number of solvers asked for
  phase,       \* "front", "round", "done"
  idx, i,   \* the two loop variables
  threads,  \* running threads, as <<source slot, destination slot>>
  full      \* slots that hold the whole formula

solversVars == <<N, phase, idx, i, threads, full>>
Slot == 0 .. N - 1

SolversInit == /\ N \in 0 .. MaxN
        /\ phase = "front"
        /\ idx = 1
        /\ i = 0
        /\ threads = {}
        /\ full = {}

TranslateFront ==
  /\ phase = "front"
  /\ IF N = 0
       THEN phase' = "done" /\ UNCHANGED full
       ELSE phase' = "round" /\ full' = {0}
  /\ UNCHANGED <<N, idx, i, threads>>

\* Mutant of SpawnThread: every copy is made from slot 0.
SpawnFromFront ==
  /\ phase = "round" /\ idx < N /\ i < idx
  /\ threads' = IF idx + i < N THEN threads \cup {<<0, idx + i>>} ELSE threads
  /\ i' = i + 1
  /\ UNCHANGED <<N, phase, idx, full>>

SpawnThread ==
  /\ phase = "round" /\ idx < N /\ i < idx
  /\ threads' = IF idx + i < N THEN threads \cup {<<i, idx + i>>} ELSE threads
  /\ i' = i + 1
  /\ UNCHANGED <<N, phase, idx, full>>

\* A thread copies what its source slot holds.
ThreadCopies ==
  \E t \in threads :
    /\ threads' = threads \ {t}
    /\ full' = IF t[1] \in full THEN full \cup {t[2]} ELSE full
    /\ UNCHANGED <<N, phase, idx, i>>

\* Mutant of JoinRound: the step grows by more than the slots filled.
NextRoundTooFar ==
  /\ phase = "round" /\ idx < N /\ i = idx
  /\ threads = {}
  /\ idx' = 2 * idx + 1
  /\ i' = 0
  /\ UNCHANGED <<N, phase, threads, full>>

\* Mutant of JoinRound: idx is not advanced.
JoinRoundStalls ==
  /\ phase = "round" /\ idx < N /\ i = idx
  /\ threads = {}
  /\ idx' = idx
  /\ i' = 0
  /\ UNCHANGED <<N, phase, threads, full>>

JoinRound ==
  /\ phase = "round" /\ idx < N /\ i = idx
  /\ threads = {}
  /\ idx' = 2 * idx
  /\ i' = 0
  /\ UNCHANGED <<N, phase, threads, full>>

Return ==
  /\ phase = "round" /\ idx >= N
  /\ phase' = "done"
  /\ UNCHANGED <<N, idx, i, threads, full>>

SolversNext == TranslateFront \/ SpawnThread \/ ThreadCopies \/ JoinRound \/ Return

SolversSpec == SolversInit /\ [][SolversNext]_solversVars /\ WF_solversVars(SolversNext)

-----------------------------------------------------------------------------
SolversTypeOK ==
  /\ N \in 0 .. MaxN
  /\ phase \in {"front", "round", "done"}
  /\ idx \in Nat \ {0}
  /\ i \in 0 .. idx
  /\ threads \subseteq Slot \X Slot
  /\ full \subseteq Slot

\* No z3 context is touched by two running threads, whether as the source or
\* as the destination of a translation (leakage.cc:1274-1283).
ContextsDisjoint ==
  \A s, t \in threads :
    /\ s[1] # s[2]
    /\ s # t => {s[1], s[2]} \cap {t[1], t[2]} = {}

\* A thread copies only from a slot that already holds the whole formula.
SourcesFull == \A t \in threads : t[1] \in full

\* create_solvers returns N usable solvers: no slot is left empty, for any N,
\* a power of two or not.
AllSolversFull == phase = "done" => full = Slot

\* create_solvers returns.
Returns == <>(phase = "done")

-----------------------------------------------------------------------------
\* The inductive invariant: in the round that starts with idx slots full, the
\* threads are <<k, idx + k>> for the k < i of this round, and each of those
\* destinations is being copied or is full.
SolversInv ==
  /\ SolversTypeOK
  /\ phase = "front" => idx = 1 /\ i = 0 /\ threads = {} /\ full = {}
  /\ phase = "done" => threads = {} /\ full = Slot
  /\ phase = "round" =>
       /\ N > 0
       /\ \A k \in Slot : k < idx => k \in full
       /\ \A t \in threads : t[1] < i /\ t[2] = idx + t[1]
       /\ \A k \in 0 .. idx - 1 :
            k < i /\ idx + k < N =>
              idx + k \in full \/ <<k, idx + k>> \in threads
       /\ idx >= N => threads = {}
=============================================================================
