---------------------------- MODULE DataflowPasses ----------------------------
(***************************************************************************)
(* The analyses that dataflow/dataflow.h is instantiated with: the taint   *)
(* of passes/attacker-taint.cc (its built-in comparison of the sweep with  *)
(* the library), the store buffer of passes/ssb-control.cc and the         *)
(* pointers of dataflow/transient-aa.cc.  They run on the function whose   *)
(* taint has been computed.                                                *)
(***************************************************************************)
EXTENDS AttackerTaint, FiniteSets, SequencesExt, TLC

CONSTANT MaxPath   \* length, in blocks, of the paths the results are compared with

STBSize == 1

\* Value::transfer of ssb-control.cc; tainted is AttackerTaintResults.
SSBTransfer(p, I, in) ==
  LET i       == p.inst[I]
      aged    == {[e EXCEPT !.staleness = @ + 1] : e \in in.stb}
      stb     == {e \in aged : e.staleness < STBSize}
      mem     == in.mem \cup {e.pointer : e \in aged \ stb}
      Kept(V) == AA(p, V, i.ptr) = "No"
  IN  CASE i.op = "store" ->
             IF i.ptr \in p.tainted
             THEN [stb |-> {e \in stb : Kept(e.pointer)}, mem |-> {V \in mem : Kept(V)}]
             ELSE [stb |-> stb \cup {[pointer |-> i.ptr, staleness |-> 0]}, mem |-> mem]
        [] i.op = "call" -> [stb |-> {}, mem |-> {}]
        [] OTHER -> in

\* Value::meet of ssb-control.cc.
SSBMeet(p, a, b) ==
  LET Less(s, t) == IF s < t THEN s ELSE t
      both == {<<e, f>> \in a.stb \X b.stb : AA(p, e.pointer, f.pointer) = "Must"}
  IN  [stb |-> a.stb \cup b.stb
                 \cup UNION {{[pointer |-> ef[1].pointer, staleness |-> Less(ef[1].staleness, ef[2].staleness)],
                              [pointer |-> ef[2].pointer, staleness |-> Less(ef[1].staleness, ef[2].staleness)]} :
                               ef \in both},
       mem |-> UNION {{VA, VB} : <<VA, VB>> \in
                        {m \in a.mem \X b.mem : AA(p, m[1], m[2]) = "Must"}}]

\* Mutant of SSBTop: the interior starts with nothing in memory.
SSBTopEmpty(p) == [stb |-> {}, mem |-> {}]

SSBTop(p) ==
  LET stores == top(p).stores
  IN  [stb |-> {[pointer |-> P, staleness |-> i] : P \in stores, i \in 0 .. STBSize - 1},
       mem |-> stores]

\* The instructions whose type is a pointer.
PointerInsts(p) == {I \in TInsts(p) : p.inst[I].pointer}

\* Mutant of TransientTransfer: a cast of a pointer that is not valid stays valid.
TransientTransferNoErase(p, I, in) ==
  LET i == p.inst[I]
  IN  CASE i.op = "alloca" -> in \cup {I}
        [] i.op = "gep" -> IF i.base \in in /\ i.ops \subseteq {Const}
                           THEN in \cup {I} ELSE in \ {I}
        [] i.op = "bitcast" /\ i.pointer -> IF i.base \in in THEN in \cup {I} ELSE in
        [] i.op \in {"load", "call"} -> in \ {I}
        [] OTHER -> in

(* Value::transfer of transient-aa.cc.  The operands of a getelementptr    *)
(* that must all be constants include its pointer operand.                 *)
TransientTransfer(p, I, in) ==
  LET i == p.inst[I]
  IN  CASE i.op = "alloca" -> in \cup {I}
        [] i.op = "gep" -> IF i.base \in in /\ i.ops \subseteq {Const}
                           THEN in \cup {I} ELSE in \ {I}
        [] i.op = "bitcast" /\ i.pointer -> IF i.base \in in THEN in \cup {I} ELSE in \ {I}
        [] i.op \in {"load", "call"} -> in \ {I}
        [] OTHER -> in

\* Its assertion fails: a pointer comes from an instruction of another kind.
TransientAborts(p) ==
  \E I \in PointerInsts(p) : p.inst[I].op \notin {"alloca", "gep", "bitcast", "load", "call"}

TransientMeet(p, a, b) == a \cap b

Taint     == INSTANCE Dataflow WITH Transfer <- transfer, Meet <- meet, Top <- top
SSB       == INSTANCE Dataflow WITH Transfer <- SSBTransfer, Meet <- SSBMeet, Top <- SSBTop
Transient == INSTANCE Dataflow WITH Transfer <- TransientTransfer, Meet <- TransientMeet,
                                    Top <- PointerInsts

\* SSBControlPass::runOnFunction, after the taint results have been computed.
WithTaint(p) == p @@ ("tainted" :> {V \in TInsts(p) \cup {IntArg, PtrArg} : get(V)})
SSBIns(p) == SSB!FunctionTransfer(WithTaint(p), "LOOP", [stb |-> {}, mem |-> {}]).ins

\* What it prints of a load.
Controlled(p, ssb, I) == \A V \in ssb[I].mem : AA(p, p.inst[I].ptr, V) # "Must"

\* The TransientAAResults of a function.
Valid(p) ==
  LET Everywhere(v) == {P \in PointerInsts(p) : \A I \in TInsts(p) : P \in v[I]}
  IN  Everywhere(Transient!FunctionTransfer(p, "INST", PointerInsts(p)).outs)

-----------------------------------------------------------------------------
\* Paths through the blocks of a function, of at most MaxPath blocks.
RECURSIVE PathsFrom(_, _)
PathsFrom(p, paths) ==
  LET longer == {Append(path, B) : path \in paths, B \in DOMAIN p.succ}
      real   == {q \in longer : q[Len(q)] \in p.succ[q[Len(q) - 1]]}
  IN  IF real = {} \/ \E path \in paths : Len(path) >= MaxPath
      THEN paths ELSE paths \cup PathsFrom(p, real)

Paths(p) == PathsFrom(p, {<<1>>})

\* Every stay in a loop that the path has left goes back to the header min times.
RespectsMin(p, path) ==
  \A l \in DOMAIN p.loop, i, j \in 1 .. Len(path) - 1 :
    LET stay == p.loop[l].blocks
    IN  (/\ i <= j
         /\ \A k \in i .. j : path[k] \in stay
         /\ i > 1 => path[i - 1] \notin stay
         /\ path[j + 1] \notin stay)
        => Cardinality({k \in i + 1 .. j : path[k] = p.loop[l].header}) >= p.loop[l].min

\* The instructions of all the blocks of a path but the last.
Along(p, path) ==
  FlattenSeq([k \in 1 .. Len(path) - 1 |->
    SelectSeq([I \in TInsts(p) |-> I], LAMBDA I : p.block[I] = path[k])])

Done == tpc = "done"

\* top is above every value: a pointer that is annotated is stored to as well.
TopIsTop(p) == p.annotated \subseteq top(p).stores

(* The comparison attacker-taint.cc carries in an if (false) block: the    *)
(* sweep over the instructions and the library's graph of instructions     *)
(* end with the same values before and after every instruction, where top  *)
(* has the annotated pointers.                                             *)
TaintAgrees ==
  LET Agrees(r) == r.ins = ins /\ r.outs = outs
  IN  Done /\ TopIsTop(fn) => Agrees(Taint!FunctionTransfer(fn, "INST", Unknown))

(* The three modes of Function::transfer agree where no loop promises      *)
(* iterations: solving the loops by themselves, inside out and with a      *)
(* cache, gives what one graph of all instructions gives.                  *)
ModesAgree ==
  LET Agrees(r) == r.outs = outs /\ r.ins = ins
  IN  Done /\ TopIsTop(fn) /\ (\A l \in DOMAIN fn.loop : fn.loop[l].min = 0) =>
        \A mode \in {"BLOCK", "LOOP"} : Agrees(Taint!FunctionTransfer(fn, mode, Unknown))

(* The LOOP mode covers every path on which each loop goes round at least  *)
(* as often as its annotation promises: it reports every taint of the path *)
(* and no pointer the path does not leave untainted.                       *)
LoopModeSound ==
  LET After(path) == FoldLeft(LAMBDA acc, I : transfer(fn, I, acc), Unknown,
                              Append(Along(fn, path), TFront(fn, path[Len(path)])))
      Covers(r, v) == /\ v.insts \subseteq r.insts
                      /\ \A S \in r.stores : \E V \in v.stores : AA(fn, S, V) = "Must"
      Sound(r) == \A path \in {q \in Paths(fn) : RespectsMin(fn, q)} :
                    Covers(r.outs[TFront(fn, path[Len(path)])], After(path))
  IN  Done => Sound(Taint!FunctionTransfer(fn, "LOOP", Unknown))

\* Uncontrolled memory at the end of a path, by the transfer function alone.
PathMem(p, path) ==
  FoldLeft(LAMBDA acc, I : SSBTransfer(WithTaint(p), I, acc), [stb |-> {}, mem |-> {}],
           Along(p, path)).mem

InMem(p, V, mem) == \E X \in mem : AA(p, V, X) = "Must"
PathsTo(p, B) == {q \in Paths(p) : q[Len(q)] = B}

(* The SSB pass keeps a pointer in its memory at a block whenever every    *)
(* path there has committed a store to it: the union of store buffers in   *)
(* its meet and the solving of loops by themselves lose no store, so no    *)
(* load is called controlled for a join or a loop on the way to it.        *)
SSBKeepsCommitted ==
  Done /\ (\A l \in DOMAIN fn.loop : fn.loop[l].min = 0) =>
    LET Keeps(ssb) == \A B \in DOMAIN fn.succ, V \in top(fn).stores :
                        (\A q \in PathsTo(fn, B) : InMem(fn, V, PathMem(fn, q)))
                          => InMem(fn, V, ssb[TFront(fn, B)].mem)
    IN  Keeps(SSBIns(fn))

(* ssb-control.cc:299, "For each load, print whether it can speculatively  *)
(* load controlled data": a load that begins its block and is printed as   *)
(* uncontrolled reads a pointer that every path to it has left in memory.  *)
SSBReportsControlled ==
  LET Uncontrolled(ssb, I) == fn.inst[I].op = "load" /\ ~Controlled(fn, ssb, I)
      Right(ssb) == \A B \in DOMAIN fn.succ :
                      Uncontrolled(ssb, TFront(fn, B)) =>
                        \A q \in PathsTo(fn, B) :
                          InMem(fn, fn.inst[TFront(fn, B)].ptr, PathMem(fn, q))
  IN  Done => Right(SSBIns(fn))

(* transient-aa.h:9, "Instructions for which architectural alias analysis  *)
(* is still valid under transient execution": unless its assertion stops   *)
(* the pass, a pointer called valid is computed from an alloca by casts    *)
(* and constant offsets alone, however long the chain and through loops;   *)
(* nothing that was loaded, returned or indexed has a part in it.          *)
TransientSound ==
  LET Fixed[J \in PointerInsts(fn)] ==
        \/ fn.inst[J].op = "alloca"
        \/ /\ fn.inst[J].op \in {"gep", "bitcast"}
           /\ fn.inst[J].ops \subseteq {fn.inst[J].base, Const}
           /\ fn.inst[J].base \in PointerInsts(fn) /\ Fixed[fn.inst[J].base]
  IN  Done /\ ~TransientAborts(fn) => \A V \in Valid(fn) : Fixed[V]
=============================================================================
