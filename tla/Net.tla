-------------------------------- MODULE Net --------------------------------
(***************************************************************************)
(* The graphs the searches of util/graph run on: directed or not, at most  *)
(* one edge between two nodes, with costs, as Graph can build them.  An    *)
(* edge is [from, to, c].  Costs of Inf and more are what a cost function  *)
(* calls infinite; sums stay far from the limits of the cost type.         *)
(* ShortestIn is the reference the searches are compared with.             *)
(***************************************************************************)
EXTENDS Integers, Sequences, FiniteSets, FiniteSetsExt

CONSTANT Inf

ASSUME InfAssumption == Inf \in Nat \ {0}

NoNode == 0

IsNet(net) ==
  /\ IsFiniteSet(net.nodes) /\ NoNode \notin net.nodes
  /\ net.directed \in BOOLEAN
  /\ \A e \in net.edges : e.from \in net.nodes /\ e.to \in net.nodes /\ e.c \in Nat

OtherNd(e, n) == IF e.to = n THEN e.from ELSE e.to

AdjOut(net, n) == {e \in net.edges : e.from = n \/ (~net.directed /\ e.to = n)}
AdjIn(net, n)  == {e \in net.edges : e.to = n \/ (~net.directed /\ e.from = n)}

\* The cheapest ways from an element of src, where they cost at[x] to begin
\* with, to each of V; Inf if they cost as much or there is none.  No way needs
\* more steps than there are elements.  step is a set of [from, to, c].
ShortestIn(V, step, src, at) ==
  LET ways[k \in Nat] ==        \* <<end, cost>> of k steps at most
        IF k = 0 THEN {<<x, at[x]>> : x \in src}
        ELSE LET w == ways[k - 1]
             IN w \cup {<<z[2].to, z[1][2] + z[2].c>> :
                         z \in {y \in w \X step : y[2].from = y[1][1] /\ y[1][2] + y[2].c < Inf}}
      all == ways[Cardinality(V)]
  IN [x \in V |-> Min({w[2] : w \in {y \in all : y[1] = x}} \cup {Inf})]

\* The steps between nodes that the edges of a net allow.
NodeSteps(net) ==
  {[from |-> e.from, to |-> e.to, c |-> e.c] : e \in net.edges}
  \cup IF net.directed THEN {}
       ELSE {[from |-> e.to, to |-> e.from, c |-> e.c] : e \in net.edges}

\* Costs of the cheapest ways from the nodes src.
DistFrom(net, src) == ShortestIn(net.nodes, NodeSteps(net), src, [n \in net.nodes |-> 0])

\* buildPath: what lies from n back to where a search began, by the parents in
\* what it settled, until there is none.
Climbed(routes, n, none) ==
  LET back[k \in 0..Cardinality(DOMAIN routes)] ==
        IF k = 0 THEN <<n>>
        ELSE LET path == back[k - 1]
                 parent == routes[path[Len(path)]].parent
             IN IF parent = none THEN path ELSE Append(path, parent)
  IN back[Cardinality(DOMAIN routes)]

\* Of the cheapest steps along a path, from its end to its front.
CostAlong(net, path) ==
  LET sum[k \in 0..(Len(path) - 1)] ==
        IF k = 0 THEN 0
        ELSE sum[k - 1] + Min({s.c : s \in {t \in NodeSteps(net) :
                                 t.from = path[k + 1] /\ t.to = path[k]}} \cup {Inf})
  IN sum[Len(path) - 1]

\* A heuristic never says more than what is left to the nearest target.
Admissible(net, dst, heur) ==
  \A n \in net.nodes :
    LET dist == DistFrom(net, {n}) IN \A t \in dst : heur[n] <= dist[t]

\* And it never falls by more than the cost of an edge.
Consistent(net, heur) ==
  \A s \in NodeSteps(net) : heur[s.from] <= s.c + heur[s.to]
=============================================================================
