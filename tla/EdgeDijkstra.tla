---------------------------- MODULE EdgeDijkstra ----------------------------
(***************************************************************************)
(* EDijkstra (util/graph/EDijkstra.tpp): a search that settles edges, so   *)
(* that the cost of an edge may depend on the one before it.  Its forms:   *)
(*   "set"    from a set of edges to the nearest of a set                  *)
(*   "many"   from one edge to each of a set                               *)
(*   "all"    from a set of edges to all;  "rev"  from all to a set        *)
(*   "init"   from a set, with a cost each to begin with, to each of a     *)
(*            set; "first" is the variant that returns start edges instead *)
(*            of paths.  Ways of `stall` and more (without the cost to     *)
(*            begin with) are cut off.                                     *)
(* A call that begins or ends at nodes is "set" for the edges of these.     *)
(* The queue is a MonotoneQueue: a key below the last one looked at is     *)
(* raised to it.                                                           *)
(***************************************************************************)
EXTENDS Net, ShortestPath

CONSTANT EdgeQueries   \* [net, form, src, dst, heur, ban, free, init, stall, node]

\* A cost to begin with is given for each edge to start at.  The searches for all
\* edges have no heuristic.
ASSUME EdgeQueriesAssumption ==
  \A q \in EdgeQueries :
    /\ IsNet(q.net) /\ IsFiniteSet(q.net.edges)
    /\ q.src \subseteq q.net.edges /\ q.dst \subseteq q.net.edges
    /\ q.heur \in [q.net.edges -> Nat]
    /\ q.form \in {"set", "many", "all", "rev", "init", "first"}
    /\ q.stall \in Nat /\ \A e \in q.src : q.init[e] \in Nat
    /\ q.form \in {"all", "rev"} => \A e \in q.net.edges : q.heur[e] = 0

\* A call from a node is one for the edges out of it.
ASSUME NodeCallsAssumption ==
  \A q \in EdgeQueries : q.node.from # {} =>
    /\ q.node.to \subseteq q.net.nodes
    /\ \E n \in q.net.nodes :
         q = FromNodeCall(q.net, n, q.node.to, q.heur, [ban |-> q.ban, free |-> q.free])

VARIABLES equery,      \* the call, NoEdgeQuery before it
          eq,          \* pq: [e, parent, n, d, dwi, key]
          low,         \* last_ of the queue
          esettled,    \* settled: edge -> its RouteEdge
          efound,      \* found
          costs,       \* costs: edge -> cost, as far as they are known
          over         \* has the search returned?

edgeVars == <<equery, eq, low, esettled, efound, costs, over>>

NoEdgeQuery == [form |-> "none"]
NoEdge == [from |-> NoNode, to |-> NoNode, c |-> 0]

EdgeTypeOK ==
  /\ low \in Nat /\ efound \in Nat /\ over \in BOOLEAN
  /\ equery # NoEdgeQuery =>
       /\ \A r \in eq : r.e \in equery.net.edges /\ r.key >= low /\ r.dwi <= r.d
       /\ DOMAIN esettled \subseteq equery.net.edges
       /\ DOMAIN costs \subseteq equery.net.edges

EdgeInit ==
  /\ equery = NoEdgeQuery /\ eq = {} /\ low = 0 /\ esettled = <<>>
  /\ efound = 0 /\ costs = <<>> /\ over = FALSE

-----------------------------------------------------------------------------
\* The cost function: of the first edge (0 if it is not to be counted), and of
\* edge f after e, infinite for a forbidden turn.
FirstCost(q, e) == IF q.free THEN 0 ELSE e.c
TurnCost(q, e, f) == IF <<e, f>> \in q.ban THEN Inf ELSE f.c

Targets(q) == IF q.form \in {"all", "rev"} THEN {} ELSE q.dst
Inits(q) == q.form \in {"init", "first"}
Each(q) == q.form \in {"many", "init", "first"}

\* The entry an edge of the start set begins with.
Begin(q, e) ==
  LET d == IF Inits(q) THEN q.init[e] ELSE FirstCost(q, e)
  IN [e |-> e, parent |-> IF q.form = "first" THEN e ELSE NoEdge, n |-> NoNode,
      d |-> d, dwi |-> 0,
      key |-> IF q.form \in {"all", "rev"} THEN 0 ELSE d + q.heur[e]]

EdgeStart(q) ==
  /\ equery' = q
  /\ eq' = IF Targets(q) = {} /\ q.form \notin {"all", "rev"} THEN {}
           ELSE {Begin(q, e) : e \in q.src}
  /\ costs' = [e \in Targets(q) |-> Inf]
  /\ UNCHANGED <<low, esettled, efound, over>>

Searching == equery # NoEdgeQuery /\ ~over
ETops == {r \in eq : \A s \in eq : r.key <= s.key}

\* Mutant: an edge is not entered again once it is settled.
EStaleOnceSettled(r) == r.e \in DOMAIN esettled

EStale(r) == r.e \in DOMAIN esettled /\ esettled[r.e].d <= r.d

\* The ends at which a search leaves an edge: both of an undirected one.
LeaveAt(e) ==
  IF ~equery.net.directed /\ e.from # e.to THEN {e.from, e.to} ELSE {e.to}

\* What a way costs when it leaves r's edge at x.  relaxInit and
\* relaxInitNoResEdgs add the cost so far twice where an undirected edge comes
\* from.
LeaveCost(r, x) ==
  IF Inits(equery) /\ x = r.e.from /\ x # r.e.to THEN r.d + r.d ELSE r.d

\* The node by which the way goes on, for buildPath.
Via(r, x) == IF equery.form = "first" THEN NoNode ELSE x

\* relax, relaxInit and relaxInitNoResEdgs: the entries for the edges at x, in
\* the last with the start edge for a parent.
RelaxedAt(r, x) ==
  {[e |-> f, parent |-> IF equery.form = "first" THEN r.parent ELSE r.e,
    n |-> Via(r, x),
    d |-> LeaveCost(r, x) + f.c,
    dwi |-> r.dwi + IF Inits(equery) THEN f.c ELSE 0,
    key |-> LeaveCost(r, x) + f.c + equery.heur[f]] :
   f \in {g \in AdjOut(equery.net, x) \ {r.e} :
            /\ TurnCost(equery, r.e, g) < Inf
            /\ r.d + g.c < Inf
            /\ equery.heur[g] < Inf
            /\ Inits(equery) => r.dwi + g.c < equery.stall}}

\* relaxInv: the edges before r's, whose own cost is not yet counted; every key
\* is the same.
RelaxedInv(r) ==
  {[e |-> f, parent |-> r.e, n |-> r.e.from, d |-> r.d + r.e.c, dwi |-> 0, key |-> 0] :
   f \in {g \in AdjIn(equery.net, r.e.from) \ {r.e} :
            /\ TurnCost(equery, g, r.e) < Inf
            /\ r.d + r.e.c < Inf}}

Pushed(r) ==
  IF equery.form = "rev" THEN RelaxedInv(r)
  ELSE UNION {RelaxedAt(r, x) : x \in LeaveAt(r.e)}

\* What the queue makes of keys below the last one.
Raised(rs, l) == {[r EXCEPT !.key = IF @ < l THEN l ELSE @] : r \in rs}

-----------------------------------------------------------------------------
\* The searches without targets do not look at Inf.
OutOfReach(r) ==
  \/ equery.form \notin {"all", "rev"} /\ Inf <= r.key
  \/ Inits(equery) /\ equery.stall <= r.dwi

EdgeGiveUp ==
  /\ Searching
  /\ eq = {} \/ \E r \in ETops : OutOfReach(r)
  /\ over' = TRUE
  /\ low' = IF eq = {} THEN low ELSE (CHOOSE r \in ETops : TRUE).key
  /\ UNCHANGED <<equery, eq, esettled, efound, costs>>

EdgeSkip ==
  /\ Searching
  /\ \E r \in ETops : /\ ~OutOfReach(r) /\ EStale(r)
                      /\ eq' = eq \ {r} /\ low' = r.key
  /\ UNCHANGED <<equery, esettled, efound, costs, over>>

\* An edge is settled; the search ends with the (last) target.
EdgeSettle ==
  /\ Searching
  /\ \E r \in ETops :
       LET hit  == r.e \in Targets(equery)
           hits == efound + IF hit THEN 1 ELSE 0
           end  == IF Each(equery) THEN hits = Cardinality(equery.dst) ELSE hits > 0
       IN /\ ~OutOfReach(r) /\ ~EStale(r)
          /\ low' = r.key
          /\ esettled' = [e \in DOMAIN esettled \cup {r.e} |-> IF e = r.e THEN r ELSE esettled[e]]
          /\ efound' = hits
          /\ costs' = IF hit \/ Targets(equery) = {}
                      THEN [e \in DOMAIN costs \cup {r.e} |-> IF e = r.e THEN r.d ELSE costs[e]]
                      ELSE costs
          /\ over' = end
          /\ eq' = (eq \ {r}) \cup IF end THEN {} ELSE Raised(Pushed(r), r.key)
  /\ UNCHANGED equery

EdgeRound == EdgeGiveUp \/ EdgeSkip \/ EdgeSettle
EdgeNext == (equery = NoEdgeQuery /\ \E q \in EdgeQueries : EdgeStart(q)) \/ EdgeRound

EdgeSpec == EdgeInit /\ [][EdgeNext]_edgeVars

-----------------------------------------------------------------------------
Returned == equery # NoEdgeQuery /\ over

\* A way may leave an edge at either end of it if it is undirected.
EdgeSteps(q) ==
  {[from |-> p[1], to |-> p[2], c |-> p[2].c] :
   p \in {x \in q.net.edges \X q.net.edges :
            /\ x[1] # x[2] /\ x \notin q.ban
            /\ x[2] \in AdjOut(q.net, x[1].to)
                        \cup IF q.net.directed THEN {} ELSE AdjOut(q.net, x[1].from)}}

\* Costs of the cheapest ways from the edges src, where they cost at[e].
EdgeDist(q, src, at) == ShortestIn(q.net.edges, EdgeSteps(q), src, at)

EdgeCosts(q) ==
  EdgeDist(q, q.src, [e \in q.src |-> IF Inits(q) THEN q.init[e] ELSE FirstCost(q, e)])

EdgeAdmissible(q) ==
  \A e \in q.net.edges :
    LET dist == EdgeDist(q, {e}, [x \in {e} |-> 0]) IN \A t \in q.dst : q.heur[e] <= dist[t]
EdgeConsistent(q) == \A s \in EdgeSteps(q) : q.heur[s.from] <= s.c + q.heur[s.to]

\* One heuristic value may be as much as Inf: the edge then leads nowhere.
EdgeUsable(q) == EdgeAdmissible(q) /\ (Each(q) => EdgeConsistent(q))

NearestCost(of, ts) == Min({of[t] : t \in ts} \cup {Inf})

\* Every form returns the costs of cheapest ways, to a nearest target, to each
\* target or to all in reach (and the start edges); a search for each target that
\* is cut off never returns less, and from a single edge just the ways that are
\* short enough.  (With costs to begin with, on directed graphs: an undirected
\* edge that is left at its own start pays them twice, EDijkstra.tpp:401-409 and
\* 456-464.)
EdgeShortest ==
  Returned /\ equery.form # "rev" /\ EdgeUsable(equery)
           /\ (Inits(equery) => equery.net.directed) =>
    LET dist == EdgeCosts(equery)
        near == {e \in equery.net.edges : dist[e] < Inf}
    IN CASE equery.form = "set" -> NearestCost(costs, equery.dst) = NearestCost(dist, equery.dst)
         [] equery.form = "all" ->
              costs = [e \in near \cup equery.src |->
                         IF e \in near THEN dist[e] ELSE FirstCost(equery, e)]
         [] Each(equery) -> \A t \in equery.dst :
              /\ costs[t] >= dist[t]
              /\ ~Inits(equery) \/ equery.stall >= Inf => costs[t] = dist[t]
              /\ \A s \in equery.src : Inits(equery) /\ equery.src = {s} =>
                   costs[t] = IF dist[t] - equery.init[s] < equery.stall THEN dist[t] ELSE Inf

\* TestMain.cpp:626-632: the backward search from an edge finds for each edge
\* what a forward search from it would, if the first edge is not counted.
RevIsForward ==
  Returned /\ equery.form = "rev" /\ equery.free /\ equery.net.directed =>
    \A e \in equery.net.edges :
      LET dist == EdgeDist(equery, {e}, [x \in {e} |-> 0])
          near == NearestCost(dist, equery.src)
      IN IF e \in DOMAIN costs THEN costs[e] = near ELSE near = Inf

\* A call from a node costs what it costs a search that settles nodes, unless
\* it starts at a target.
NodesAgree ==
  Returned /\ equery.node.from # {} /\ equery.node.from \cap equery.node.to = {}
           /\ ~equery.free /\ equery.ban = {} /\ EdgeUsable(equery) =>
    NearestCost(costs, equery.dst)
      = NearestCost(DistFrom(equery.net, equery.node.from), equery.node.to)

-----------------------------------------------------------------------------
\* buildPath, buildPathInit: the edges from e back to where the way began, and
\* the nodes between them behind the end of e; the first edge has none.
BuildEdges(e) == Climbed(esettled, e, NoEdge)

BuildNodes(e) ==
  LET path == BuildEdges(e)
      list[k \in 0..Len(path)] ==
        IF k = 0 THEN <<OtherNd(e, esettled[e].n)>>
        ELSE LET n == esettled[path[k]].n
             IN IF n = NoNode THEN list[k - 1] ELSE Append(list[k - 1], n)
  IN list[Len(path)]

Listed(path) == [nodes |-> BuildNodes(path) \o IF equery.node.from = {} THEN <<>> ELSE
                             <<CHOOSE n \in equery.node.from : TRUE>>, edges |-> BuildEdges(path)]

\* What the edges of a way cost but the last one in the list, where it began.
CostBehind(es) ==
  LET sum[k \in 0..(Len(es) - 1)] == IF k = 0 THEN 0 ELSE sum[k - 1] + es[k].c
  IN sum[Len(es) - 1]

\* Where no cheapest way enters an undirected edge and leaves it at the same
\* end, be it to get round a forbidden turn or because the edge costs nothing.
NoTurnWithin(q) == q.net.directed \/ (q.ban = {} /\ \A e \in q.net.edges : e.c > 0)

\* The lists handed out for a target are a way from the start to it that costs
\* what is returned: each edge joins the nodes before and behind it in the
\* list.  (The node list of a single undirected edge is wrong, if the edge was
\* added with the start as its end.)
WaysFit ==
  Returned /\ equery.form \in {"set", "many", "init"} /\ EdgeUsable(equery)
           /\ (Inits(equery) => equery.net.directed) =>
    \A t \in {x \in Targets(equery) \cap DOMAIN esettled : costs[x] < Inf} :
      LET es == Listed(t).edges
          ns == Listed(t).nodes
      IN /\ es[Len(es)] \in equery.src
         /\ \A i \in 1..(Len(es) - 1) : <<es[i + 1], es[i]>> \notin equery.ban
         /\ NoTurnWithin(equery) /\ (Len(es) > 1 \/ es[1].to # ns[Len(ns)]) =>
              \A i \in 1..(Len(ns) - 1) : {ns[i], ns[i + 1]} = {es[i].from, es[i].to}
         /\ costs[t] = CostBehind(es) + esettled[es[Len(es)]].d

\* A search that settles edges, at every round and when it returns, also one
\* backward (EDijkstra::shortestPathImpl, relax, relaxInit, relaxInitNoResEdgs,
\* relaxInv).
EdgeInv == EdgeTypeOK /\ EdgeShortest /\ RevIsForward

\* What such a search hands out: the lists of edges and nodes are a way, and a call
\* from nodes returns what a search that settles nodes would (buildPath,
\* buildPathInit, and the calls from nodes in EDijkstra.tpp).
EdgeAnswers == WaysFit /\ NodesAgree
=============================================================================
