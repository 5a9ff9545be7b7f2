---------------------------------- MODULE CFG ---------------------------------
(* The relation po of a control-flow graph: a set of edges <<src, dst>>.   *)

\* po.fwd.at(n) and po.rev.at(n)
Succ(E, n) == {e[2] : e \in {d \in E : d[1] = n}}
Pred(E, n) == {e[1] : e \in {d \in E : d[2] = n}}

\* No way leads back to where it came from: every set of nodes of V has one
\* that leads to none of them.
NoWayBack(V, E) == \A S \in (SUBSET V) \ {{}} : \E n \in S : Succ(E, n) \cap S = {}
=============================================================================
