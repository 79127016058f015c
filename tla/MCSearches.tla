----------------------------- MODULE MCSearches -----------------------------
(***************************************************************************)
(* Calls of the three searches on small graphs, of four nodes and edges    *)
(* that cost 1 or 3.                                                       *)
(***************************************************************************)
EXTENDS NodeDijkstra, EdgeDijkstra, BiDijkstra, ShortestPath, TLC

VARIABLE part        \* which search is called, or another part of the library

\* The same function, evaluated at once.
Eager(f) == FoldSet(LAMBDA x, g : (x :> f[x]) @@ g, <<>>, DOMAIN f)

Arc(p, c) == [from |-> p[1], to |-> p[2], c |-> c]

\* All graphs, directed or not, over given pairs of nodes.
NetsOver(pairs) ==
  {[directed |-> d, nodes |-> 1..4, edges |-> {Arc(p, f[p]) : p \in {x \in pairs : f[x] > 0}}] :
   d \in BOOLEAN, f \in [pairs -> {0, 1, 3}]}

-----------------------------------------------------------------------------
\* Nodes: two ways that part and meet again, and a tail.
NodeNets == NetsOver({<<1, 2>>, <<1, 3>>, <<3, 2>>, <<2, 4>>, <<3, 4>>})

NodeHeurs == {h \in [1..4 -> {0, 2, 4}] : h[1] = 0 /\ h[4] = 0}

NodeQueries ==
  {q \in {NodeCall(n, f, {1}, t, h) : n \in NodeNets, f \in {"one", "set", "many"},
                                      t \in {{4}, {2, 4}}, h \in NodeHeurs} :
     Admissible(q.net, q.dst, q.heur)}
  \cup {PairCall(n, 1, t, Eager(ZeroHeur(1..4))) : n \in NodeNets, t \in {2, 4}}

\* Edges that cost nothing.
FreeNets ==
  {[n EXCEPT !.edges = {[e EXCEPT !.c = @ \div 2] : e \in n.edges}] : n \in NodeNets}

BothWays ==
  {NodeCall(n, "set", s, t, <<>>) : n \in NodeNets, s \in {{1}, {1, 4}}, t \in {{4}, {2, 4}}}
  \cup {NodeCall(n, "one", {1}, t, <<>>) : n \in NodeNets, t \in {{4}, {2, 4}}}
  \cup {NodeCall(n, "set", {1}, {4}, <<>>) : n \in FreeNets}

-----------------------------------------------------------------------------
\* Edges: two ways from 1 to 4, of which one can be left for the other, and a
\* way back; one edge off 3 is expensive.
EdgeNets ==
  {n \in NetsOver({<<1, 2>>, <<1, 3>>, <<2, 3>>, <<2, 4>>, <<3, 4>>, <<4, 1>>}) :
     /\ Cardinality(n.edges) >= 5 /\ Arc(<<4, 1>>, 1) \in n.edges
     /\ \E e \in n.edges : /\ e.c = 3 /\ e.from # 3
                           /\ \A x \in n.edges \ {e} : x.c = 1}

From(n, k) == {e \in n.edges : e.from = k}
Late(n) == {e \in n.edges : e.from = 4 \/ (e.from = 2 /\ e.to = 4)}

CostFuncs(n) ==
  {[ban |-> {}, free |-> f] : f \in BOOLEAN}
  \cup {[ban |-> {p \in n.edges \X n.edges : p[1].to = 3 /\ p[2].from = 3 /\ p[1].c = 1},
         free |-> FALSE]}

Zero(n) == Eager(ZeroHeur(n.edges))

\* No heuristic, a perfect one, and one that is only perfect on one of the ways
\* and so not consistent.
EdgeHeurs(n, ts, cf) ==
  LET q == EdgeCall(n, "set", {}, ts, Zero(n), cf)
      left == Eager([e \in n.edges |-> NearestCost(EdgeDist(q, {e}, [x \in {e} |-> 0]), ts)])
  IN {Zero(n), left,
      Eager([e \in n.edges |-> IF e.from = 3 \/ (e.from = 1 /\ e.to = 3) THEN 0 ELSE left[e]])}

\* What the start edges cost to begin with.
Begun(n) == Eager([e \in n.edges |-> e.to - 1])

QueriesOn(n, cf) ==
  {EdgeCall(n, "set", From(n, 1), From(n, 4), h, cf) : h \in EdgeHeurs(n, From(n, 4), cf)}
  \cup UNION {{EdgeCall(n, "many", {s}, Late(n), h, cf) : s \in From(n, 4)}
              \cup {InitCall(n, f, s, Late(n), h, cf, Begun(n), Inf) :
                      f \in {"init", "first"}, s \in {From(n, 1), From(n, 4)}} :
              h \in EdgeHeurs(n, Late(n), cf)}
  \cup {InitCall(n, f, s, Late(n), Zero(n), cf, Begun(n), 3) :
          f \in {"init", "first"}, s \in {From(n, 1), From(n, 4)}}
  \cup {AllCall(n, f, s, cf) :
          f \in {"all"} \cup IF n.directed THEN {"rev"} ELSE {}, s \in From(n, 3)}
  \cup {AllFromNodeCall(n, "all", 1, cf)}
  \cup {FromNodeCall(n, 1, ts, Zero(n), cf) : ts \in {{4}, {2, 4}, {3}}}
  \cup {FromNodesCall(n, {4}, {3}, Zero(n), cf),
        EdgePairCall(n, Arc(<<4, 1>>, 1), Arc(<<4, 1>>, 1), Zero(n), cf),
        ToNodesCall(n, Arc(<<4, 1>>, 1), {4}, Zero(n), cf)}

AllEdgeQueries == UNION {UNION {QueriesOn(n, cf) : cf \in CostFuncs(n)} : n \in EdgeNets}

-----------------------------------------------------------------------------
CallsInit == SearchInit /\ EdgeInit /\ BiInit

NextRound ==
  \/ part = "node" /\ SearchNext /\ UNCHANGED <<edgeVars, biVars, part>>
  \/ part = "edge" /\ EdgeNext /\ UNCHANGED <<nodeVars, biVars, part>>
  \/ part = "bi" /\ BiNext /\ UNCHANGED <<nodeVars, edgeVars, part>>

Round ==
  \/ part = "node" /\ SearchRound /\ UNCHANGED <<edgeVars, biVars, part>>
  \/ part = "edge" /\ EdgeRound /\ UNCHANGED <<nodeVars, biVars, part>>
  \/ part = "bi" /\ BiRound /\ UNCHANGED <<nodeVars, edgeVars, part>>

callVars == <<nodeVars, edgeVars, biVars>>

\* Every call returns, also if no target can be reached, a queue runs empty on
\* one side only, or entries are settled again (the loops of Dijkstra.tpp,
\* EDijkstra.tpp and BiDijkstra.tpp).
CallsReturn == []<>~(Running \/ Searching \/ BiRunning)
=============================================================================
