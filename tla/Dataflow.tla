------------------------------- MODULE Dataflow -------------------------------
(***************************************************************************)
(* dataflow/dataflow.h: the analysis of a function as a graph of           *)
(* components.  A component is an instruction, a block or a loop; a loop   *)
(* is again a graph, solved by itself each time the value at its header    *)
(* changes.  Every graph remembers, for each of its components, the entry  *)
(* value it last transferred and the exit values it got (the cache).       *)
(*                                                                         *)
(* A function p is a record: p.inst, its instructions in program order;    *)
(* p.block[I], the block of instruction I; p.succ[B], the successors of a  *)
(* block; p.loop[l], a loop: its header, its blocks, the loops directly    *)
(* inside it (sub) and the iterations its annotation promises (min).       *)
(***************************************************************************)
EXTENDS Naturals, Sequences, FiniteSets, FiniteSetsExt, SequencesExt

CONSTANTS
  Transfer(_, _, _),   \* Context::transfer, of p, an instruction and a value
  Meet(_, _, _),       \* Context::meet, of p and two values
  Top(_)               \* Context::top, of p

Insts(p) == DOMAIN p.inst
Blocks(p) == DOMAIN p.succ
FrontOf(p, B) == Min({I \in Insts(p) : p.block[I] = B})
Terminator(p, B) == Max({I \in Insts(p) : p.block[I] = B})
InstsOf(p, Bs) == {I \in Insts(p) : p.block[I] \in Bs}
Preds(p, B) == {A \in Blocks(p) : B \in p.succ[A]}

\* getExitingBlocks, as the loop analysis of LLVM gives them.
Exiting(p, l) == {B \in p.loop[l].blocks : p.succ[B] \ p.loop[l].blocks # {}}

(* entry(), exits() and insts() of a component, <<"inst", I>>,             *)
(* <<"block", B>> or <<"loop", l>>.                                        *)
EntryOf(p, c) ==
  CASE c[1] = "inst"  -> c[2]
    [] c[1] = "block" -> FrontOf(p, c[2])
    [] c[1] = "loop"  -> FrontOf(p, p.loop[c[2]].header)

ExitsOf(p, c) ==
  CASE c[1] = "inst"  -> {c[2]}
    [] c[1] = "block" -> {Terminator(p, c[2])}
    [] c[1] = "loop"  -> {Terminator(p, B) : B \in Exiting(p, c[2])}

InstsIn(p, c) ==
  CASE c[1] = "inst"  -> {c[2]}
    [] c[1] = "block" -> InstsOf(p, {c[2]})
    [] c[1] = "loop"  -> InstsOf(p, p.loop[c[2]].blocks)

\* The parts of a graph made of the loops ls and the blocks Bs outside them.
Parts(p, ls, Bs) ==
  {<<"loop", l>> : l \in ls}
    \cup {<<"block", B>> : B \in Bs \ UNION {p.loop[l].blocks : l \in ls}}

GraphOf(parts, entry) == [map |-> parts, entry |-> entry, exits |-> {}, ignore |-> {}]

MeetAll(p, v, values) == FoldSet(LAMBDA x, acc : Meet(p, acc, x), v, values)

check_edge(p, g, src, dst) ==
  /\ dst \in {EntryOf(p, c) : c \in g.map}
  /\ src \in UNION {ExitsOf(p, c) : c \in g.map}
  /\ <<src, dst>> \notin g.ignore

\* meet_once: the entries of the parts from the exit values of the last round.
meet_once(p, g, ins, outs) ==
  LET In(I) ==
        LET preds == {P \in {Terminator(p, B) : B \in Preds(p, p.block[I])} :
                        check_edge(p, g, P, I)}
        IN  IF I # FrontOf(p, p.block[I])
            THEN outs[I - 1]
            ELSE MeetAll(p, IF I = g.entry THEN ins[I] ELSE Top(p), {outs[P] : P \in preds})
  IN  [I \in {EntryOf(p, c) : c \in g.map} |-> In(I)] @@ ins

RECURSIVE ComponentTransfer(_, _, _, _, _), BlockTransfer(_, _, _, _, _),
          GraphTransfer(_, _, _, _, _, _), Settle(_, _, _, _), Rounds(_, _, _, _, _, _)

(* One part of transfer_once.  The cache spares a part whose entry value   *)
(* is the one it has.  entry_value is a reference into ins, read again     *)
(* after the transfer: a loop leaves there the value its header has        *)
(* settled at, not the one it was entered with.                            *)
Transferred(s, c, entry, r) ==
  [ins   |-> r.ins, outs |-> r.outs, exits |-> s.exits @@ r.exits,
   cache |-> (c :> [entry |-> r.ins[entry], exits |-> r.exits]) @@ s.cache]

TransferPart(p, s, c) ==
  LET entry == EntryOf(p, c)
      v     == s.ins[entry]
  IN  IF c \in DOMAIN s.cache /\ s.cache[c].entry = v
      THEN [s EXCEPT !.exits = @ @@ s.cache[c].exits]
      ELSE Transferred(s, c, entry, ComponentTransfer(p, c, v, s.ins, s.outs))

\* order: the parts in program order.
order(p, g) ==
  LET at == SelectSeq([I \in Insts(p) |-> I], LAMBDA I : \E c \in g.map : EntryOf(p, c) = I)
  IN  [k \in DOMAIN at |-> CHOOSE c \in g.map : EntryOf(p, c) = at[k]]

transfer_once(p, g, s) == FoldLeft(LAMBDA acc, c : TransferPart(p, acc, c), s, order(p, g))

\* The loop of Graph::transfer, which stops at a round that changes nothing.
Settle(p, g, old, s) ==
  LET now == <<s.ins, s.outs, s.exits>>
  IN  IF now = old THEN s
      ELSE Settle(p, g, now, transfer_once(p, g,
             [s EXCEPT !.ins = meet_once(p, g, s.ins, s.exits), !.exits = <<>>]))

GraphTransfer(p, g, v, ins, outs, cache) ==
  LET top == [I \in UNION {InstsIn(p, c) : c \in g.map} |-> Top(p)]
  IN  [Settle(p, g, <<>>,
              [ins   |-> (g.entry :> v) @@ top @@ ins,
               outs  |-> top @@ outs,
               exits |-> [I \in UNION {ExitsOf(p, c) : c \in g.map} |-> Top(p)],
               cache |-> cache])
       EXCEPT !.exits = Restrict(@, DOMAIN @ \cap g.exits)]

\* Instruction::transfer.
InstTransfer(I, v, out, ins, outs) ==
  [ins |-> [ins EXCEPT ![I] = v], outs |-> [outs EXCEPT ![I] = out], exits |-> (I :> out)]

\* Block::transfer: what is left of the block after its instruction I.
RestOfBlock(p, I, r) == IF I = Terminator(p, p.block[I]) THEN r
                        ELSE BlockTransfer(p, I + 1, r.exits[I], r.ins, r.outs)

BlockTransfer(p, I, v, ins, outs) ==
  RestOfBlock(p, I, InstTransfer(I, v, Transfer(p, I, v), ins, outs))

\* transfer_external's rounds without back edges, at most n of them.
Rounds(p, g, n, in, old, cache) ==
  LET Next(r) == Rounds(p, g, n - 1, MeetAll(p, Top(p), {r.exits[I] : I \in g.exits}), <<in>>, r.cache)
  IN  IF n = 0 \/ old = <<in>>
      THEN [in |-> in, cache |-> cache]
      ELSE Next(GraphTransfer(p, g, in, <<>>, <<>>, cache))

Backblocks(p, l) == {B \in p.loop[l].blocks : p.loop[l].header \in p.succ[B]}

\* Mutant of MinIterations: one more iteration than the annotation promises.
MinIterationsExtra(p, l) == p.loop[l].min + 1

\* get_min_loop_iterations: the annotation loop.min, or 0 without one.
MinIterations(p, l) == p.loop[l].min

\* Mutant of FinalGraph: the final pass goes on ignoring the back edges.
FinalGraphForward(p, l, g) == [g EXCEPT !.exits = ExitsOf(p, <<"loop", l>>)]

\* The graph of transfer_external's final pass.
FinalGraph(p, l, g) == [g EXCEPT !.exits = ExitsOf(p, <<"loop", l>>), !.ignore = {}]

(* Loop::transfer.  transfer_internal gives the values inside the loop;    *)
(* transfer_external, on the same graph and the same cache, those with     *)
(* which it is left after at least loop.min iterations.                    *)
transfer_external(p, l, g, v, cache) ==
  LET Final(r) == GraphTransfer(p, FinalGraph(p, l, g), r.in, <<>>, <<>>, r.cache)
  IN  Final(Rounds(p, g, MinIterations(p, l), v, <<>>, cache)).exits

LoopTransfer(p, l, v, ins, outs) ==
  LET entry   == EntryOf(p, <<"loop", l>>)
      g       == GraphOf(Parts(p, p.loop[l].sub, p.loop[l].blocks), entry)
      back    == {Terminator(p, B) : B \in Backblocks(p, l)}
      forward == [g EXCEPT !.ignore = {<<I, entry>> : I \in back}, !.exits = back]
      External(r) == [r EXCEPT !.exits = transfer_external(p, l, forward, v, r.cache)]
  IN  External(GraphTransfer(p, g, v, ins, outs, <<>>))

ComponentTransfer(p, c, v, ins, outs) ==
  CASE c[1] = "inst"  -> InstTransfer(c[2], v, Transfer(p, c[2], v), ins, outs)
    [] c[1] = "block" -> BlockTransfer(p, FrontOf(p, c[2]), v, ins, outs)
    [] c[1] = "loop"  -> LoopTransfer(p, c[2], v, ins, outs)

\* The outermost loops, those LoopInfo iterates over.
TopLoops(p) == DOMAIN p.loop \ UNION {p.loop[l].sub : l \in DOMAIN p.loop}

\* Function::transfer in one of its three modes.
FunctionTransfer(p, mode, v) ==
  LET parts == CASE mode = "INST"  -> {<<"inst", I>> : I \in Insts(p)}
                 [] mode = "BLOCK" -> {<<"block", B>> : B \in Blocks(p)}
                 [] mode = "LOOP"  -> Parts(p, TopLoops(p), Blocks(p))
  IN  GraphTransfer(p, GraphOf(parts, 1), v, <<>>, <<>>, <<>>)
=============================================================================
