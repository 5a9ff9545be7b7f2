----------------------------- MODULE AttackerTaint ----------------------------
(***************************************************************************)
(* passes/attacker-taint.cc: which instructions of a function may hold a   *)
(* value the attacker controls.  The value at an instruction is the set of *)
(* tainted instructions and the set of pointers known to hold an untainted *)
(* value; runOnFunction sweeps over the function until nothing changes.    *)
(*                                                                         *)
(* A function is a record as in Dataflow.tla with, besides, p.aa, what     *)
(* LLVM's alias analysis says of two pointers, p.doms, which blocks        *)
(* properly dominate each block, and p.annotated, the pointers annotated   *)
(* clou.arch_uncontrolled.  An operand is the number of the instruction    *)
(* that defines it, or one of the three below.                             *)
(***************************************************************************)
EXTENDS Integers, Sequences

Const  == 0      \* a constant, a global, a block, metadata
IntArg == -1     \* an argument that is not a pointer
PtrArg == -2     \* an argument that is a pointer

CONSTANTS
  Functions,   \* the functions the pass is run on
  Place        \* the places in memory that a pointer may point to

VARIABLES
  fn,        \* the function
  ins, outs, \* the value before and after each instruction
  at,        \* the instruction that is visited next
  changed,
  results,   \* the tainted instructions
  tpc,       \* "sweep", then "done"; "run": the function is executed
  place,     \* in an execution: the place each pointer points to,
  alive,     \* the pointers that have been computed and still have that value,
  ip,        \* the instruction that is next (0: it has returned),
  regs,      \* the instructions whose value the attacker controls,
  memory,    \* the places whose content they control,
  hidden     \* and whether a call wrote memory in a way the scan does not see

runVars == <<place, alive, ip, regs, memory, hidden>>
taintVars == <<fn, ins, outs, at, changed, results, tpc, runVars>>

TInsts(p) == DOMAIN p.inst
TFront(p, B) == CHOOSE I \in TInsts(p) :
                  p.block[I] = B /\ \A J \in 1 .. I - 1 : p.block[J] # B
TTerminators(p, B) == {I \in TInsts(p) : \E A \in DOMAIN p.succ :
                        /\ B \in p.succ[A] /\ p.block[I] = A
                        /\ \A J \in I + 1 .. Len(p.inst) : p.block[J] # A}

\* The pointers the alias analysis is asked about.
Pointers(p) == {P \in {PtrArg} \cup TInsts(p) : <<P, P>> \in DOMAIN p.aa}

\* The instruction that may be executed after I, or 0 after a return.
Following(p, I) ==
  IF I < Len(p.inst) /\ p.block[I + 1] = p.block[I]
  THEN {I + 1}
  ELSE IF p.succ[p.block[I]] = {} THEN {0} ELSE {TFront(p, B) : B \in p.succ[p.block[I]]}

\* I is computed on every way to J.
Dominates(p, I, J) ==
  /\ I \in TInsts(p) /\ J \in TInsts(p)
  /\ IF p.block[I] = p.block[J] THEN I < J ELSE p.block[I] \in p.doms[p.block[J]]

(* LLVM's dominator tree: a strict order, in which what dominates an       *)
(* instruction is or dominates each one before it.                         *)
Dominance(p) ==
  /\ \A I \in TInsts(p) : ~Dominates(p, I, I) /\ ~Dominates(p, I, 1)
  /\ \A I, J, K \in TInsts(p) : Dominates(p, I, J) /\ Dominates(p, J, K) => Dominates(p, I, K)
  /\ \A I, J \in TInsts(p) : \A K \in Following(p, J) : Dominates(p, I, K) =>
                             I = J \/ Dominates(p, I, J)

(* What LLVM's verifier guarantees: a block is a run of instructions, has  *)
(* at least one, and the entry block has no predecessor; the pointer of a  *)
(* load or a store is an argument or computed by an instruction that       *)
(* dominates it; a store has no result and does not end its block.         *)
WellFormed(p) ==
  /\ Len(p.inst) \in Nat \ {0} /\ TInsts(p) = 1 .. Len(p.inst)
  /\ \A I, J \in TInsts(p) : I < J /\ p.block[I] = p.block[J] => p.block[I + 1] = p.block[I]
  /\ \A I \in TInsts(p) : p.block[I] \in DOMAIN p.succ
  /\ \A A \in DOMAIN p.succ : \A B \in p.succ[A] :
       B # p.block[1] /\ \E I \in TInsts(p) : p.block[I] = B
  /\ Dominance(p)
  /\ \A I \in TInsts(p) : p.inst[I].op \in {"load", "store"} =>
       p.inst[I].ptr \in Pointers(p) /\ (p.inst[I].ptr = PtrArg \/ Dominates(p, p.inst[I].ptr, I))
  /\ \A I \in TInsts(p) : p.inst[I].op = "store" =>
       I \notin Pointers(p) /\ I + 1 \in TInsts(p) /\ p.block[I + 1] = p.block[I]
  /\ p.annotated \subseteq Pointers(p)

ASSUME TaintAssumption == \A p \in Functions : WellFormed(p)

\* LLVM's alias analysis.
AA(p, P, Q) == p.aa[<<P, Q>>]

\* alias: an alloca of an integer and a getelementptr are taken to differ.
alias(p, P, V) ==
  LET Integral(X) == X > 0 /\ p.inst[X].op = "alloca" /\ p.inst[X].integer
      Gep(X) == X > 0 /\ p.inst[X].op = "gep"
  IN  IF AA(p, P, V) = "May" /\ ((Integral(V) /\ Gep(P)) \/ (Integral(P) /\ Gep(V)))
      THEN "No"
      ELSE AA(p, P, V)

(* meet.  find_if takes the first pointer of b that must alias VA in the   *)
(* order of a hash set; here it is any fixed one.                          *)
meet(p, a, b) ==
  LET Found(VA) == {VB \in b.stores : AA(p, VA, VB) = "Must"}
  IN  [insts  |-> a.insts \cup b.insts,
       stores |-> UNION {{VA, CHOOSE VB \in Found(VA) : TRUE} :
                           VA \in {V \in a.stores : Found(V) # {}}}]

in_taint(V, in) == V \in in.insts \/ V = IntArg

TransferStore(p, i, in) ==
  IF in_taint(i.val, in)
  THEN {V \in in.stores : alias(p, i.ptr, V) = "No"}
  ELSE {V \in in.stores : AA(p, i.ptr, V) # "Must"} \cup {i.ptr}

(* The scan of a called function.  Of a callee c the model has whether     *)
(* LLVM knows that it only reads memory, whether there is no body to scan  *)
(* (a declaration, an indirect call), and the ways in which it writes: by  *)
(* stores to its own allocas, by other stores, and by calls, memcpy or     *)
(* atomics, which the scan does not look at.                               *)
OnlyLocalStores(c) == c.readonly \/ (~c.declared /\ "other" \notin c.writes)

TaintedBy(p, i, in) ==
  CASE i.op = "load"  -> \A S \in in.stores : AA(p, i.ptr, S) # "Must"
    [] i.op = "call"  -> TRUE
    [] i.op \in {"store", "dbg"} -> FALSE
    [] OTHER          -> \E V \in i.ops : in_taint(V, in)

\* Mutant of transfer: a store of a tainted value forgets nothing.
transferKeepsStores(p, I, in) ==
  LET i == p.inst[I]
  IN  [insts  |-> IF TaintedBy(p, i, in) THEN in.insts \cup {I} ELSE in.insts,
       stores |-> CASE i.op = "store" -> IF in_taint(i.val, in) THEN in.stores
                                         ELSE TransferStore(p, i, in)
                    [] i.op = "call" /\ ~OnlyLocalStores(i.callee) -> {}
                    [] OTHER -> in.stores]

transfer(p, I, in) ==
  LET i      == p.inst[I]
      stores == CASE i.op = "store" -> TransferStore(p, i, in)
                  [] i.op = "call" /\ ~OnlyLocalStores(i.callee) -> {}
                  [] OTHER -> in.stores
  IN  [insts  |-> IF TaintedBy(p, i, in) THEN in.insts \cup {I} ELSE in.insts,
       stores |-> stores \cup p.annotated]

\* The value every instruction starts with: no taint, every pointer stored to.
top(p) ==
  [insts  |-> {},
   stores |-> {p.inst[I].ptr : I \in {J \in TInsts(p) : p.inst[J].op = "store"}}]

Unknown == [insts |-> {}, stores |-> {}]

TaintInit ==
  /\ fn \in Functions
  /\ ins = [I \in TInsts(fn) |-> IF I = 1 THEN Unknown ELSE top(fn)]
  /\ outs = [I \in TInsts(fn) |-> top(fn)]
  /\ at = 1 /\ changed = FALSE
  /\ results = {} /\ tpc = "sweep"
  /\ place = <<>> /\ alive = {} /\ ip = 0 /\ regs = {} /\ memory = {} /\ hidden = FALSE

(* The meet over the predecessors of a block, up to each instruction: the  *)
(* terminators among them one after the other.                             *)
MeetPreds(p, B, out) ==
  LET upTo[n \in 0 .. Len(p.inst)] ==
        IF n = 0 THEN top(p)
        ELSE IF n \in TTerminators(p, B) THEN meet(p, upTo[n - 1], out[n])
        ELSE upTo[n - 1]
  IN  upTo

\* The meet at the first instruction of a block, or the value that falls through.
NewIn(p, I, in, out) ==
  CASE I = 1 -> in[1]
    [] I > 1 /\ I = TFront(p, p.block[I]) ->
         MeetPreds(p, p.block[I], out)[Len(p.inst)]
    [] OTHER -> out[I - 1]

\* Mutant of VisitInst: a change is not noted, so there is one sweep only.
VisitInstQuietly ==
  LET in == NewIn(fn, at, ins, outs)
  IN  /\ tpc = "sweep" /\ at \in TInsts(fn)
      /\ ins' = [ins EXCEPT ![at] = in]
      /\ outs' = [outs EXCEPT ![at] = transfer(fn, at, in)]
      /\ at' = at + 1
      /\ UNCHANGED <<fn, changed, results, tpc, runVars>>

\* One instruction of a sweep.
VisitInst ==
  LET in  == NewIn(fn, at, ins, outs)
      out == transfer(fn, at, in)
  IN  /\ tpc = "sweep" /\ at \in TInsts(fn)
      /\ ins' = [ins EXCEPT ![at] = in]
      /\ outs' = [outs EXCEPT ![at] = out]
      /\ changed' = (changed \/ in # ins[at] \/ out # outs[at])
      /\ at' = at + 1
      /\ UNCHANGED <<fn, results, tpc, runVars>>

\* Mutant of Again: changed is not reset.
AgainSticky ==
  /\ tpc = "sweep" /\ at = Len(fn.inst) + 1 /\ changed
  /\ at' = 1
  /\ UNCHANGED <<fn, ins, outs, changed, results, tpc, runVars>>

Again ==
  /\ tpc = "sweep" /\ at = Len(fn.inst) + 1 /\ changed
  /\ at' = 1 /\ changed' = FALSE
  /\ UNCHANGED <<fn, ins, outs, results, tpc, runVars>>

Finish ==
  /\ tpc = "sweep" /\ at = Len(fn.inst) + 1 /\ ~changed
  /\ results' = {I \in TInsts(fn) : I \in outs[I].insts}
  /\ tpc' = "done"
  /\ UNCHANGED <<fn, ins, outs, at, changed, runVars>>

\* AttackerTaintResults::get.
get(V) == V \in results \/ V \in {IntArg, PtrArg}

-----------------------------------------------------------------------------
(* What the result is about: the executions of the function.  A pointer    *)
(* gets a place whenever it is computed, which agrees with the alias       *)
(* analysis (and with the rule of alias for integer allocas) as far as the *)
(* other pointers are alive.  Computing it again ends the life of those    *)
(* that it dominates: they are computed again before they are used.  The   *)
(* place of a pointer that is not alive is one it could have.              *)

Places(p) == {loc \in [Pointers(p) -> Place] : \A P, Q \in Pointers(p) :
                /\ AA(p, P, Q) = "Must" => loc[P] = loc[Q]
                /\ alias(p, P, Q) = "No" => loc[P] # loc[Q]}

\* The places of the annotated pointers, which never hold a controlled value.
Safe(p, loc) == {loc[P] : P \in p.annotated}

\* Memory starts out controlled.
Enter ==
  /\ tpc = "done" /\ tpc' = "run"
  /\ place' \in Places(fn) /\ alive' = Pointers(fn) \cap {PtrArg}
  /\ ip' = 1 /\ regs' = {} /\ memory' = Place \ Safe(fn, place') /\ hidden' = FALSE
  /\ UNCHANGED <<fn, ins, outs, at, changed, results>>

IsControlled(V) == V \in regs \/ V = IntArg

\* Whether the result of an instruction is controlled.
Hot(i) ==
  CASE i.op = "load" -> place[i.ptr] \in memory
    [] i.op = "call" -> TRUE
    [] i.op \in {"store", "dbg"} -> FALSE
    [] OTHER -> \E V \in i.ops : IsControlled(V)

\* Whether a callee writes memory that is not its own.
WritesMemory(c) == ~c.readonly /\ (c.declared \/ c.writes \cap {"other", "nested"} # {})

\* The controlled places after an instruction: at worst all, after a call that writes.
MemoryAfter(i) ==
  CASE i.op = "store" -> IF IsControlled(i.val) THEN memory \cup {place[i.ptr]}
                                                ELSE memory \ {place[i.ptr]}
    [] i.op = "call" /\ WritesMemory(i.callee) -> Place
    [] OTHER -> memory

\* The pointers of A that are still alive when I is computed.
Standing(p, A, I) == {Q \in A \ {I} : ~Dominates(p, I, Q)}

\* If I is a pointer it gets a place; those that are alive keep theirs.
Compute(I) ==
  IF I \in Pointers(fn)
  THEN /\ alive' = Standing(fn, alive, I) \cup {I}
       /\ place' \in {loc \in Places(fn) : \A Q \in Standing(fn, alive, I) : loc[Q] = place[Q]}
  ELSE UNCHANGED <<alive, place>>

Execute ==
  LET i == fn.inst[ip]
  IN  /\ tpc = "run" /\ ip # 0
      /\ Compute(ip)
      /\ regs' = IF Hot(i) THEN regs \cup {ip} ELSE regs \ {ip}
      /\ memory' = MemoryAfter(i) \ Safe(fn, place')
      /\ hidden' = (hidden \/ (i.op = "call" /\ OnlyLocalStores(i.callee) /\ WritesMemory(i.callee)))
      /\ ip' \in Following(fn, ip)
      /\ UNCHANGED <<fn, ins, outs, at, changed, results, tpc>>

TaintNext == VisitInst \/ Again \/ Finish \/ Enter \/ Execute

TaintSpec == TaintInit /\ [][TaintNext]_taintVars /\ WF_taintVars(TaintNext)

-----------------------------------------------------------------------------
(* Soundness: in no execution does an instruction that the pass calls      *)
(* untainted hold a value the attacker controls, although pointers are     *)
(* computed anew in loops; unless a callee that the scan has let pass      *)
(* wrote memory in a way it does not look at (attacker-taint.cc:189-203).  *)
TaintSound == tpc = "run" /\ ~hidden => \A V \in regs : get(V)

(* The inductive invariant behind TaintSound.  When a sweep has changed    *)
(* nothing, every value is what the meet and the transfer function give    *)
(* for the others, and an execution follows these equations: what it       *)
(* controls is covered by the value before its next instruction.  A        *)
(* pointer of stores may have been computed again since the store, or not  *)
(* at all; but the place it stands for is that of a pointer which is tied  *)
(* to it and which no instruction that can be reached computes again while *)
(* the fact lasts: its anchor.                                             *)
Values(p) == [insts : SUBSET TInsts(p), stores : SUBSET Pointers(p)]

Solved(J) == ins[J] = NewIn(fn, J, ins, outs) /\ outs[J] = transfer(fn, J, ins[J])

CoversRun(v, R, loc, M) == R \subseteq v.insts /\ \A P \in v.stores : loc[P] \notin M

\* Two pointers that are at the same place whatever the places are.
Tied(p, S, V) == \A loc \in Places(p) : loc[S] = loc[V]

Marked(p, S) == \E A \in p.annotated : Tied(p, S, A)

\* The fact about S, or about a pointer tied to it, is there when P is computed.
Held(p, in, P, S) == P \in TInsts(p) /\ \E V \in in[P].stores : Tied(p, S, V)

Anchor(p, in, A, n, S, V) ==
  /\ V \in A /\ Tied(p, S, V)
  /\ \A P \in A : ~Dominates(p, P, n) /\ Held(p, in, P, S) => V # P /\ ~Dominates(p, P, V)

Anchored(p, in, A, n) ==
  \A S \in in[n].stores : Marked(p, S) \/ \E V \in A : Anchor(p, in, A, n, S, V)

\* The dominators of the next instruction, and of a live pointer, are alive.
Lives(p, A, n) ==
  /\ A \subseteq Pointers(p) /\ Pointers(p) \cap {PtrArg} \subseteq A
  /\ \A P \in Pointers(p) : Dominates(p, P, n) => P \in A
  /\ \A P \in Pointers(p), Q \in A : Dominates(p, P, Q) => P \in A

RunInv ==
  /\ Lives(fn, alive, ip)
  /\ Anchored(fn, ins, alive, ip)
  /\ \A P \in alive : Dominates(fn, P, ip) => Anchored(fn, ins, alive, P)
  /\ ~hidden => CoversRun(ins[ip], regs, place, memory)

TaintInv ==
  /\ fn \in Functions
  /\ ins \in [TInsts(fn) -> Values(fn)] /\ outs \in [TInsts(fn) -> Values(fn)]
  /\ ins[1] = Unknown
  /\ at \in Nat /\ changed \in BOOLEAN /\ tpc \in {"sweep", "done", "run"}
  /\ tpc = "sweep" /\ ~changed => \A J \in TInsts(fn) : J < at => Solved(J)
  /\ tpc # "sweep" => /\ \A J \in TInsts(fn) : Solved(J)
                      /\ results = {I \in TInsts(fn) : I \in outs[I].insts}
  /\ tpc = "run" => /\ place \in Places(fn) /\ hidden \in BOOLEAN
                    /\ ip \in TInsts(fn) \cup {0}
                    /\ ~hidden => regs \subseteq results
                    /\ ip # 0 => RunInv

(* runOnFunction's do ... while (changed) loop ends on every function.     *)
TaintEnds == <>(tpc = "done")
=============================================================================
