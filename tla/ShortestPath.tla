---------------------------- MODULE ShortestPath ----------------------------
(***************************************************************************)
(* The calls of util/graph/ShortestPath.h, and those of EDijkstra that     *)
(* begin or end at nodes: what search they come to.  Which of the results  *)
(* are wanted (edges, nodes) does not change the search.                   *)
(***************************************************************************)
EXTENDS Net

ZeroHeur(X) == [x \in X |-> 0]

\* Nodes: "one" to a set, "set" to a set, "many" for each of a set.
NodeCall(net, form, src, dst, heur) ==
  [net |-> net, form |-> form, src |-> src, dst |-> dst, heur |-> heur]

\* One target, which must have an edge into it.
PairCall(net, n, t, heur) == NodeCall(net, "pair", {n}, {t}, heur)

OutEdges(net, n) == AdjOut(net, n)
InEdges(net, ns) == UNION {AdjIn(net, n) : n \in ns}
NoNodes == [from |-> {}, to |-> {}]

\* Edges: "set" to a set, "many" for each of a set.
EdgeCall(net, form, src, dst, heur, cost) ==
  [net |-> net, form |-> form, src |-> src, dst |-> dst, heur |-> heur,
   ban |-> cost.ban, free |-> cost.free, init |-> ZeroHeur(src), stall |-> Inf,
   node |-> NoNodes]

EdgePairCall(net, e, t, heur, cost) == EdgeCall(net, "set", {e}, {t}, heur, cost)

\* With costs to begin with; stall is Inf where none is given.
InitCall(net, form, src, dst, heur, cost, init, stall) ==
  [EdgeCall(net, form, src, dst, heur, cost) EXCEPT !.init = init, !.stall = stall]

\* From an edge to nodes, by the edges into these.
ToNodesCall(net, e, ts, heur, cost) == EdgeCall(net, "set", {e}, InEdges(net, ts), heur, cost)

\* From an edge to all edges, and back.
AllCall(net, form, e, cost) == EdgeCall(net, form, {e}, {}, ZeroHeur(net.edges), cost)

\* The same from all edges out of a node, in both directions.
AllFromNodeCall(net, form, n, cost) ==
  EdgeCall(net, form, OutEdges(net, n), {}, ZeroHeur(net.edges), cost)

\* Mutant: from a node by the edges into it, as from several nodes.
FromNodeCallIn(net, n, ts, heur, cost) ==
  [EdgeCall(net, "set", InEdges(net, {n}), InEdges(net, ts), heur, cost)
     EXCEPT !.node = [from |-> {n}, to |-> ts]]

\* From a node by the edges out of it.
FromNodeCall(net, n, ts, heur, cost) ==
  [EdgeCall(net, "set", OutEdges(net, n), InEdges(net, ts), heur, cost)
     EXCEPT !.node = [from |-> {n}, to |-> ts]]

\* From several nodes, but by the edges into them.
FromNodesCall(net, ns, ts, heur, cost) ==
  EdgeCall(net, "set", InEdges(net, ns), InEdges(net, ts), heur, cost)
=============================================================================
