--------------------------- MODULE MCDataflowPasses ---------------------------
(* Functions for TLC: four shapes of control flow, filled with loads,      *)
(* stores and calls on two pointers.  Instruction 1 is an alloca (P) and   *)
(* instruction 2 another pointer (Q); instruction 3 is the first slot.  In *)
(* some functions the header of a loop computes a third pointer (G).       *)
EXTENDS DataflowPasses

P == 1
Q == 2
R == 3
G == 5

Inst == [op |-> "other", ptr |-> Const, val |-> Const, ops |-> {}, base |-> Const,
         callee |-> Const, integer |-> FALSE, pointer |-> FALSE]

\* Functions: without a body; with stores to allocas only; and with a call or a memcpy.
Declared == [readonly |-> FALSE, declared |-> TRUE, writes |-> {}]
Local    == [readonly |-> FALSE, declared |-> FALSE, writes |-> {"alloca"}]
Nested   == [readonly |-> FALSE, declared |-> FALSE, writes |-> {"alloca", "nested"}]

Store(v, ptr) == [Inst EXCEPT !.op = "store", !.val = v, !.ptr = ptr]
Load(ptr) == [Inst EXCEPT !.op = "load", !.ptr = ptr]
Call(c) == [Inst EXCEPT !.op = "call", !.callee = c]

Pointer(op, base, ops) ==
  [Inst EXCEPT !.op = op, !.base = base, !.ops = {base} \cup ops, !.pointer = TRUE]

Indexed == <<Pointer("gep", PtrArg, {IntArg}), "May">>
Cast    == <<Pointer("bitcast", P, {}), "Must">>

\* The second pointer, and what is known of it and the alloca.
Second ==
  {Indexed, Cast, <<Pointer("gep", P, {Const}), "No">>,
   <<[Load(PtrArg) EXCEPT !.pointer = TRUE], "May">>}

Slots == {Store(Const, P), Store(Const, Q), Store(R, P), Call(Declared), Call(Local), Load(P)}

Loop(h, blocks, sub, min) == [header |-> h, blocks |-> blocks, sub |-> sub, min |-> min]

TopTested == {[succ |-> <<{2}, {3, 4}, {2}, {}>>, slot |-> <<2, 3>>,
               loop |-> <<Loop(2, {2, 3}, {}, m)>>] : m \in {0, 2}}

(* A diamond; a loop tested at its top; two nested loops; two nested loops *)
(* whose back edges leave the same block.                                  *)
Shapes ==
  {[succ |-> <<{2, 3}, {4}, {4}, {}>>, slot |-> <<2, 3>>, loop |-> <<>>]}
  \cup TopTested
  \cup {[succ |-> <<{2}, {3}, {3, 4}, {2, 5}, {}>>, slot |-> <<3, 4>>,
         loop |-> <<Loop(2, {2, 3, 4}, {2}, m), Loop(3, {3}, {}, m)>>] : m \in 0 .. 1}
  \cup {[succ |-> <<{2}, {3}, {3, 2, 4}, {}>>, slot |-> <<2, 3>>,
         loop |-> <<Loop(2, {2, 3}, {2}, m), Loop(3, {3}, {}, 0)>>] : m \in 0 .. 1}

\* Those without an annotation.
Plain == {sh \in Shapes : \A l \in DOMAIN sh.loop : sh.loop[l].min = 0}

(* Blocks without their slots are a branch alone; the last block has a     *)
(* load of P before it returns.                                            *)
Body(sh, q, s0, s1, s2, B) ==
  (IF B = 1 THEN <<[Inst EXCEPT !.op = "alloca", !.integer = TRUE, !.pointer = TRUE], q>> \o s0 ELSE <<>>)
  \o (IF B = sh.slot[1] THEN s1 ELSE <<>>)
  \o (IF B = sh.slot[2] THEN s2 ELSE <<>>)
  \o (IF B = Len(sh.succ) THEN <<Load(P)>> ELSE <<>>) \o <<Inst>>

\* The blocks that are reached without passing A.
RECURSIVE Avoiding(_, _, _)
Avoiding(succ, A, X) ==
  LET more == X \cup UNION {succ[B] \ {A} : B \in X}
  IN  IF more = X THEN X ELSE Avoiding(succ, A, more)

Known(q, pair) ==
  CASE pair[1] = pair[2] -> "Must"
    [] pair \in {<<P, Q>>, <<Q, P>>} -> q[2]
    [] pair \in {<<P, PtrArg>>, <<PtrArg, P>>} -> "No"
    [] G \in {pair[1], pair[2]} -> "May"
    [] OTHER -> IF q[2] = "May" THEN "May" ELSE "No"

MakeFunction(sh, q, s0, s1, s2, note) ==
  LET body   == [B \in 1 .. Len(sh.succ) |-> Body(sh, q[1], s0, s1, s2, B)]
      inst   == FlattenSeq(body)
      block  == FlattenSeq([B \in 1 .. Len(body) |-> [i \in 1 .. Len(body[B]) |-> B]])
      avoid  == [A \in DOMAIN sh.succ |-> Avoiding(sh.succ, A, {1} \ {A})]
      third  == {G} \cap {I \in DOMAIN inst : inst[I].pointer}
      Rep(V) == IF V \in third /\ inst[V].op = "bitcast" THEN inst[V].base ELSE V
  IN  [inst |-> inst, block |-> block, succ |-> sh.succ, loop |-> sh.loop,
       aa |-> [pair \in ({PtrArg, P, Q} \cup third) \X ({PtrArg, P, Q} \cup third) |->
                 Known(q, <<Rep(pair[1]), Rep(pair[2])>>)],
       doms |-> [B \in DOMAIN sh.succ |-> {A \in DOMAIN sh.succ \ {B} : B \notin avoid[A]}],
       annotated |-> note]

\* A load and then anything; stores first and then no use of their result, Q annotated.
Straight ==
  {MakeFunction(sh, q, <<Load(P)>>, <<s1>>, <<s2>>, {}) :
     sh \in Plain, q \in Second, s1 \in Slots, s2 \in Slots \ {Call(Local)}}
  \cup
  {MakeFunction(sh, Indexed, <<Load(P)>>, <<s1>>, <<s2>>, {}) :
     sh \in Shapes \ Plain, s1 \in Slots, s2 \in Slots}
  \cup
  {MakeFunction(sh, Indexed, <<s0, Store(Const, P)>>, <<s1>>, <<s2>>, note) :
     sh \in Shapes, s0 \in {Store(Const, P), Store(IntArg, Q)}, note \in {{}, {Q}},
     s1 \in Slots \ {Store(R, P), Call(Local), Call(Declared)}, s2 \in {Store(Const, Q), Load(P), Call(Declared)}}

\* A loop whose header computes G: another element, a cast of Q, or a pointer that is chosen.
Moving ==
  {MakeFunction(sh, q, <<s0>>, <<g, s1>>, <<s2>>, note) :
     sh \in {t \in Plain : t.slot = <<2, 3>> /\ t.loop # <<>>},
     q \in {Indexed, Cast}, s0 \in {Store(Const, Q)},
     g \in {Indexed[1], Pointer("bitcast", Q, {})},
     s1 \in {Store(Const, G), Load(G)}, s2 \in {Store(R, G), Load(Q), Call(Nested)},
     note \in {{}, {G}}}
  \cup
  {MakeFunction(sh, Indexed, <<Load(P)>>, <<Pointer("select", P, {PtrArg}), Store(Const, G)>>, <<Load(G)>>, {}) :
     sh \in TopTested}

MCFunctions == Straight \cup Moving

(* A store in one block and a load in another that can be reached by       *)
(* another way too, or before the store has left the buffer.               *)
StoreThenLoad ==
  {MakeFunction(sh, Indexed, <<Load(PtrArg)>>, <<s1>>, <<Load(P)>>, {}) :
     sh \in Shapes, s1 \in {Store(Const, P), Load(P)}}
=============================================================================
