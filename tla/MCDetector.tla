------------------------------ MODULE MCDetector ------------------------------
(* Small functions for the abstract event graph and the detectors.         *)
EXTENDS LeakSpec

None == [v |-> Null, defs |-> {}]
Arg(v) == [v |-> v, defs |-> {}]
Def(i) == [v |-> i, defs |-> {i}]

Byte  == [k |-> "int", bits |-> 8]
To(T) == [k |-> "ptr", bits |-> 64, elem |-> T]
Pair  == [k |-> "struct", bits |-> 16, fields |-> <<Byte, Byte>>]
Array == [k |-> "array", bits |-> 8, elem |-> Byte, n |-> 1]

Base(n, po) ==
  [n |-> n, po |-> po,
   kind |-> [i \in 0 .. n |-> CASE i = 0 -> "entry" [] i = n -> "exit" [] OTHER -> "other"],
   ptr |-> [i \in 0 .. n |-> None], val |-> [i \in 0 .. n |-> {}], idx |-> [i \in 0 .. n |-> {}],
   cond |-> [i \in 0 .. n |-> {}], gep |-> [i \in 0 .. n |-> [T |-> To(Byte), indices |-> <<{}>>]],
   pointers |-> {}, func |-> [i \in 0 .. n |-> <<>>], argfunc |-> <<>>,
   noalias |-> {}, mustalias |-> {}, dom |-> {1, 2}, tainted |-> {},
   cls |-> "v1-addr", depth |-> 4, window |-> Unlimited, lsq |-> Unlimited, control |-> TRUE,
   lookahead |-> FALSE, timeouts |-> FALSE, fast |-> FALSE, concrete |-> TRUE,
   max_traceback |-> 1, seen |-> {}, diff_names |-> FALSE]

Line(n) == {<<i, i + 1>> : i \in 0 .. n - 1}

\* if (x < n) { y = a[x]; b[y]; }
BoundsCheck ==
  [Base(7, Line(7) \cup {<<2, 7>>}) EXCEPT
     !.kind[1] = "load", !.kind[2] = "branch", !.kind[3] = "gep", !.kind[4] = "load",
     !.kind[5] = "gep", !.kind[6] = "load",
     !.ptr[1] = Arg(-1), !.ptr[3] = Arg(-2), !.ptr[4] = Def(3), !.ptr[5] = Arg(-2), !.ptr[6] = Def(5),
     !.cond[2] = {1}, !.idx[3] = {1}, !.idx[5] = {4}, !.tainted = {1, 2}]

\* The second branch depends on a load in one arm of the first.
TwoBranches ==
  [Base(8, (Line(8) \ {<<4, 5>>}) \cup {<<2, 5>>, <<4, 6>>, <<6, 8>>}) EXCEPT
     !.kind[1] = "load", !.kind[2] = "branch", !.kind[3] = "gep", !.kind[4] = "load",
     !.kind[5] = "store", !.kind[6] = "branch", !.kind[7] = "load",
     !.ptr[1] = Arg(-1), !.ptr[3] = Arg(-2), !.ptr[4] = Def(3), !.ptr[5] = Arg(-1), !.ptr[7] = Arg(-2),
     !.cond[2] = {1}, !.idx[3] = {1}, !.cond[6] = {4}, !.tainted = {1, 2, 6}, !.cls = "v1-ctrl"]

\* if (x < n) *p = ..; y = a[x]; *y
Joined ==
  [Base(7, Line(7) \cup {<<2, 4>>}) EXCEPT
     !.kind[1] = "load", !.kind[2] = "branch", !.kind[3] = "store", !.kind[4] = "gep",
     !.kind[5] = "load", !.kind[6] = "load",
     !.ptr[1] = Arg(-1), !.ptr[3] = Arg(-2), !.ptr[4] = Arg(-2), !.ptr[5] = Def(4), !.ptr[6] = Def(5),
     !.cond[2] = {1}, !.idx[4] = {1}, !.pointers = {5}, !.tainted = {1, 2}, !.depth = 3]

\* The index is spilled to a local before the bounds check and reloaded after it.
Spilled ==
  [Base(9, Line(9) \cup {<<4, 9>>}) EXCEPT
     !.kind[1] = "alloca", !.kind[2] = "load", !.kind[3] = "store", !.kind[4] = "branch",
     !.kind[5] = "load", !.kind[6] = "gep", !.kind[7] = "load", !.kind[8] = "load",
     !.ptr[2] = Arg(-3), !.ptr[3] = Def(1), !.ptr[5] = Def(1), !.ptr[6] = Arg(-2), !.ptr[7] = Def(6),
     !.ptr[8] = Def(7), !.val[3] = {2}, !.cond[4] = {2}, !.idx[6] = {5}, !.pointers = {7},
     !.tainted = {2, 4}]

\* *p = ..; *p = ..; q = *p; r = *q; *r
Tables ==
  [Base(6, Line(6)) EXCEPT
     !.kind[1] = "store", !.kind[2] = "store", !.kind[3] = "load", !.kind[4] = "load", !.kind[5] = "load",
     !.ptr[1] = Arg(-1), !.ptr[2] = Arg(-1), !.ptr[3] = Arg(-1), !.ptr[4] = Def(3), !.ptr[5] = Def(4),
     !.pointers = {3, 4}, !.cls = "v4"]

\* Tables with two more loads between the stores and the load: the queue is full at 4.
Spread ==
  [Base(8, Line(8)) EXCEPT
     !.kind[1] = "store", !.kind[2] = "store", !.kind[3] = "load", !.kind[4] = "load",
     !.kind[5] = "load", !.kind[6] = "load", !.kind[7] = "load",
     !.ptr[1] = Arg(-1), !.ptr[2] = Arg(-1), !.ptr[3] = Arg(-2), !.ptr[4] = Arg(-2), !.ptr[5] = Arg(-1),
     !.ptr[6] = Def(5), !.ptr[7] = Def(6), !.pointers = {5, 6}, !.cls = "v4"]

\* Tables with a fence after the stores, or in one arm of a branch there.
Fenced(arm) ==
  [Base(7, Line(7) \cup (IF arm THEN {<<2, 4>>} ELSE {})) EXCEPT
     !.kind[1] = "store", !.kind[2] = "store", !.kind[3] = "fence", !.kind[4] = "load",
     !.kind[5] = "load", !.kind[6] = "load",
     !.ptr[1] = Arg(-1), !.ptr[2] = Arg(-2), !.ptr[4] = Arg(-1), !.ptr[5] = Def(4), !.ptr[6] = Def(5),
     !.pointers = {4, 5}, !.cls = "v4"]

\* The pointer that is followed was stored before: v4 with a data dependence.
Copied ==
  [Base(7, Line(7)) EXCEPT
     !.kind[1] = "store", !.kind[2] = "load", !.kind[3] = "store", !.kind[4] = "load",
     !.kind[5] = "load", !.kind[6] = "load",
     !.ptr[1] = Arg(-1), !.ptr[2] = Arg(-1), !.ptr[3] = Arg(-2), !.ptr[4] = Arg(-2), !.ptr[5] = Def(4),
     !.ptr[6] = Def(5), !.val[3] = {2}, !.pointers = {4, 5}, !.cls = "v4"]

\* A local is stored to and followed; the store at 1 is older than the local.
Local ==
  [Base(7, Line(7)) EXCEPT
     !.kind[1] = "store", !.kind[2] = "alloca", !.kind[3] = "store", !.kind[4] = "load",
     !.kind[5] = "load", !.kind[6] = "load",
     !.ptr[1] = Arg(-1), !.ptr[3] = Def(2), !.ptr[4] = Def(2), !.ptr[5] = Def(4), !.ptr[6] = Def(5),
     !.pointers = {4, 5}, !.cls = "v4"]

\* The pointer comes from either arm of a branch: a field, or a bounded index.
Merged ==
  [Base(8, (Line(8) \ {<<3, 4>>}) \cup {<<2, 4>>, <<3, 5>>}) EXCEPT
     !.kind[1] = "store", !.kind[2] = "branch", !.kind[3] = "gep", !.kind[4] = "gep",
     !.kind[5] = "load", !.kind[6] = "load", !.kind[7] = "load",
     !.ptr[1] = Arg(-3), !.ptr[3] = Arg(-3), !.ptr[4] = Arg(-1), !.gep[3].T = To(Pair), !.gep[3].indices = <<{0}, {1}>>,
     !.gep[4].T = To(Array), !.gep[4].indices = <<{0}, {}>>, !.ptr[5] = [v |-> -6, defs |-> {3, 4}],
     !.ptr[6] = Def(5), !.ptr[7] = Def(6), !.pointers = {5, 6}, !.cls = "v4"]

\* Nodes 3 and 4 are inlined from a callee; 5 uses what the callee loaded.
Inlined ==
  [BoundsCheck EXCEPT !.func[3] = <<1>>, !.func[4] = <<1>>]

Exact == [lookahead |-> FALSE, timeouts |-> FALSE]
Lazy  == [lookahead |-> TRUE, timeouts |-> TRUE]
With(i, c) == [i EXCEPT !.lookahead = c.lookahead, !.timeouts = c.timeouts]
Fast(i) == [i EXCEPT !.fast = TRUE, !.lookahead = TRUE, !.concrete = FALSE]

V1Inputs ==
  {BoundsCheck, TwoBranches, Joined, Spilled, [BoundsCheck EXCEPT !.control = FALSE, !.depth = 3],
   [Spilled EXCEPT !.max_traceback = 0], [BoundsCheck EXCEPT !.kind[5] = "fence"],
   [TwoBranches EXCEPT !.cls = "v1-addr"], [BoundsCheck EXCEPT !.seen = {6}]}
  \cup {[Inlined EXCEPT !.window = k] : k \in 2 .. 5}

V4Inputs ==
  {Tables, Fenced(FALSE), Fenced(TRUE), Copied, [Tables EXCEPT !.max_traceback = 0],
   [Tables EXCEPT !.depth = 3], [Tables EXCEPT !.ptr[2] = Arg(-2), !.noalias = {{-1, -2}}],
   [Tables EXCEPT !.ptr[2] = Arg(-2)], [Copied EXCEPT !.max_traceback = 2],
   Local, Merged, [Tables EXCEPT !.concrete = FALSE], [Tables EXCEPT !.ptr[2] = Arg(-5)],
   [Tables EXCEPT !.ptr[2] = Arg(-2), !.mustalias = {{-1, -2}}]}
  \cup {[Tables EXCEPT !.lsq = k] : k \in 2 .. 3}
  \cup {[Spread EXCEPT !.lsq = k, !.dom = {1}] : k \in 3 .. 4}

\* The names are compared with concrete sourced stores only.
Named == {[i EXCEPT !.diff_names = TRUE] : i \in {Local, Tables}}

MCInputs == {With(i, c) : i \in V1Inputs \cup V4Inputs \cup Named, c \in {Exact, Lazy}}
            \cup {Fast(i) : i \in V1Inputs \cup V4Inputs}
=============================================================================
