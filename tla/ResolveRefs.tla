------------------------------ MODULE ResolveRefs -----------------------------
(***************************************************************************)
(* CFG_Expanded::resolve_refs: in the order of sort, each node merges the  *)
(* definitions that reach its predecessors, adds its own and looks up the  *)
(* operands it refers to.  A predecessor's map is given away once all its  *)
(* successors have been processed.                                         *)
(***************************************************************************)
EXTENDS Naturals, FiniteSets, CFG

CONSTANT Key    \* function instance and value

Empty == [k \in Key |-> {}]    \* a key that is not in a map has {}

VARIABLES
  size,    \* nodes 0 .. size - 1, numbered by sort
  epo,     \* edges
  key,     \* the keys of the nodes that define one
  maps,    \* maps[ref][k]: the nodes bound to k
  live,    \* the nodes whose map is not nullopt
  done,
  cur,     \* the node being processed
  preds,   \* its predecessors still to be merged
  refs     \* refs[ref]: what resolve_single_ref finds for each key

graphVars == <<size, epo, key>>
refsVars == <<graphVars, maps, live, done, cur, preds, refs>>

ExpNode == 0 .. size - 1

\* What sort leaves: edges lead from smaller numbers to larger ones.
EdgesAscend(n, E) == E \subseteq {e \in (0 .. n - 1) \X (0 .. n - 1) : e[1] < e[2]}

RefsIdle ==
  /\ maps = <<>> /\ live = {}
  /\ done = {} /\ cur = 0 /\ preds = {}
  /\ refs = <<>>

\* Any sorted graph, and any assignment of keys to some of its nodes.
RefsInit ==
  /\ size \in Nat /\ EdgesAscend(size, epo)
  /\ DOMAIN key \subseteq ExpNode /\ \A n \in DOMAIN key : key[n] \in Key
  /\ RefsIdle

\* construct_partial: the nodes and edges of the graph that comes in.
Construct(n, E, k) ==
  /\ size' = n /\ epo' = E /\ key' = k
  /\ UNCHANGED <<maps, live, done, cur, preds, refs>>

Union(f, g) == [k \in Key |-> f[k] \cup g[k]]

\* std::unordered_map::merge moves only the keys that are not there yet.
Merge(f, g) == [k \in Key |-> IF f[k] = {} THEN g[k] ELSE f[k]]

\* The next node of reverse_postorder().
Begin ==
  /\ cur < size /\ cur \notin done
  /\ done' = done \cup {cur}
  /\ maps' = [n \in 0 .. cur |-> IF n = cur THEN Empty ELSE maps[n]]
  /\ live' = live \cup {cur}
  /\ preds' = Pred(epo, cur)
  /\ UNCHANGED <<graphVars, cur, refs>>

\* Mutant of PredDone: a predecessor is given away at its first successor.
PredDoneEarly(p) == Succ(epo, p) \cap done # {}

PredDone(p) == Succ(epo, p) \subseteq done

\* Mutant of MergePred: a predecessor that is done replaces the map.
MergeReplaces ==
  \E p \in preds :
    /\ preds' = preds \ {p}
    /\ maps' = [maps EXCEPT
                  ![cur] = IF PredDone(p) \/ @ = Empty THEN maps[p] ELSE Union(@, maps[p])]
    /\ live' = IF PredDone(p) THEN live \ {p} ELSE live
    /\ UNCHANGED <<graphVars, done, cur, refs>>

\* One predecessor, in whatever order the set has them (NoUseAfterMove: the
\* map that is read is there).
MergePred ==
  \E p \in preds :
    /\ preds' = preds \ {p}
    /\ maps' = [maps EXCEPT
                  ![cur] = IF @ = Empty THEN maps[p]
                           ELSE IF PredDone(p) THEN Merge(@, maps[p])
                           ELSE Union(@, maps[p])]
    /\ live' = IF PredDone(p) THEN live \ {p} ELSE live
    /\ UNCHANGED <<graphVars, done, cur, refs>>

Bound(n) == IF n \in DOMAIN key
              THEN [maps[n] EXCEPT ![key[n]] = @ \cup {n}]
              ELSE maps[n]

\* Mutant of Resolve: the next node's number is bound.
BoundNext(n) == IF n \in DOMAIN key
                  THEN [maps[n] EXCEPT ![key[n]] = @ \cup {n + 1}]
                  ELSE maps[n]

ResolveOffByOne ==
  /\ cur \in done /\ preds = {}
  /\ maps' = [maps EXCEPT ![cur] = BoundNext(cur)]
  /\ refs' = [n \in 0 .. cur |-> IF n = cur THEN BoundNext(cur) ELSE refs[n]]
  /\ cur' = cur + 1
  /\ UNCHANGED <<graphVars, live, done, preds>>

\* The node's own definition, then its operands.
Resolve ==
  /\ cur \in done /\ preds = {}
  /\ maps' = [maps EXCEPT ![cur] = Bound(cur)]
  /\ refs' = [n \in 0 .. cur |-> IF n = cur THEN Bound(cur) ELSE refs[n]]
  /\ cur' = cur + 1
  /\ UNCHANGED <<graphVars, live, done, preds>>

RefsNext == Begin \/ MergePred \/ Resolve

RefsSpec == RefsInit /\ [][RefsNext]_refsVars

-----------------------------------------------------------------------------
(* Properties. *)

\* The nodes on some way to n, n included.
Ancestors[n \in Nat] == {n} \cup UNION {Ancestors[m] : m \in Pred(epo, n)}

\* The nodes that define k on some way to n.
Definitions(n, k) == {m \in DOMAIN key : key[m] = k /\ m \in Ancestors[n]}

\* A map that has been given away is never read again: each predecessor still
\* to be merged has one, for every order of nodes (expanded.cc:162-173).
NoUseAfterMove == preds \subseteq live

\* A key defined on some way to a node is bound there: the assertion of
\* resolve_single_ref holds (expanded.cc:87).
AlwaysBound ==
  \A n \in DOMAIN refs : \A k \in Key : Definitions(n, k) # {} => refs[n][k] # {}

\* "merge incoming" (expanded.cc:160): a node has the definitions that reach
\* any of its predecessors.
MergesIncoming ==
  \A n \in DOMAIN refs : \A k \in Key : refs[n][k] = Definitions(n, k)

\* A reference is bound only to nodes that define it on a way to the node,
\* and where no two nodes define one key to all of them (expanded.cc:161-194).
BoundToAncestors ==
  /\ \A n \in DOMAIN refs : \A k \in Key : refs[n][k] \subseteq Definitions(n, k)
  /\ (\A m, n \in DOMAIN key : key[m] = key[n] => m = n) => MergesIncoming

\* The inductive invariant behind NoUseAfterMove: a node that was begun has a
\* map until all its successors have been begun and have merged it.
MapInv ==
  /\ size \in Nat /\ cur \in Nat
  /\ EdgesAscend(size, epo)
  /\ done \in {0 .. cur - 1, 0 .. cur}
  /\ preds \subseteq 0 .. cur - 1
  /\ preds # {} => cur \in done
  /\ \A n \in done \ live : Succ(epo, n) \subseteq done /\ n \notin preds

\* What node n should have after the predecessors that it has merged so far.
Incoming(n, k) == UNION {Definitions(m, k) : m \in Pred(epo, n) \ preds}

\* The inductive invariant behind AlwaysBound and BoundToAncestors: what a map
\* has for a key are definitions of it, and there are some if there can be; for
\* the node at hand, as far as its predecessors have been merged.
BindInv ==
  /\ DOMAIN key \subseteq ExpNode /\ \A n \in DOMAIN key : key[n] \in Key
  /\ DOMAIN maps = done /\ \A n \in done : DOMAIN maps[n] = Key
  /\ DOMAIN refs = 0 .. cur - 1 /\ \A n \in 0 .. cur - 1 : refs[n] = maps[n]
  /\ \A n \in 0 .. cur - 1 : \A k \in Key :
       /\ maps[n][k] \subseteq Definitions(n, k)
       /\ maps[n][k] = {} => Definitions(n, k) = {}
  /\ cur \in done => \A k \in Key :
       /\ maps[cur][k] \subseteq Incoming(cur, k)
       /\ maps[cur][k] = {} => Incoming(cur, k) = {}
  /\ cur \in done => preds \subseteq Pred(epo, cur)
=============================================================================
