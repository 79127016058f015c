---------------------------- MODULE NodeDijkstra ----------------------------
(***************************************************************************)
(* Dijkstra (util/graph/Dijkstra.tpp) in its three forms: from one node to *)
(* a set ("one"), from a set to a set ("set"), and from one node to each   *)
(* of a set ("many"); "pair" is the call for one target in ShortestPath.h, *)
(* which looks at the target first.  The priority queue is a set: which of *)
(* equal entries is on top is left open.                                   *)
(***************************************************************************)
EXTENDS Net

CONSTANT Queries     \* [net, form, src, dst, heur]

\* The calls that start at one node have one source, "pair" has one target.
ASSUME QueriesAssumption ==
  \A q \in Queries :
    /\ IsNet(q.net) /\ q.src \subseteq q.net.nodes /\ q.dst \subseteq q.net.nodes
    /\ q.heur \in [q.net.nodes -> Nat]
    /\ q.form \in {"one", "pair", "set", "many"}
    /\ q.form # "set" => \E n \in q.src : q.src = {n}
    /\ q.form = "pair" => \E t \in q.dst : q.dst = {t}

VARIABLES query,     \* the call, NoQuery before it
          pq,        \* pq: [n, parent, d, h]
          settled,   \* settled: node -> its RouteNode
          found,     \* found, as a count
          answer     \* cost by target; <<>> while the search runs

nodeVars == <<query, pq, settled, found, answer>>

NoQuery == [form |-> "none"]
SearchTypeOK ==
  /\ query # NoQuery =>
       /\ \A r \in pq : r.n \in query.net.nodes /\ r.d \in 0..Inf /\ r.h \in Nat
       /\ DOMAIN settled \subseteq query.net.nodes
       /\ found \in Nat
       /\ answer = <<>> \/ answer \in [query.dst -> 0..Inf]

SearchInit == query = NoQuery /\ pq = {} /\ settled = <<>> /\ found = 0 /\ answer = <<>>

AllInf(dst) == [t \in dst |-> Inf]
Single == query.form \in {"one", "pair"}

\* The early returns: no edge to leave by, no edge to arrive by, no target.
AtOnce(q) ==
  \/ q.form \in {"one", "pair", "many"} /\ \E n \in q.src : AdjOut(q.net, n) = {}
  \/ q.form = "pair" /\ \E t \in q.dst : AdjIn(q.net, t) = {}
  \/ q.form = "many" /\ q.dst = {}

Start(q) ==
  /\ query' = q
  /\ pq' = IF AtOnce(q) THEN {}
           ELSE {[n |-> n, parent |-> NoNode, d |-> 0, h |-> 0] : n \in q.src}
  /\ answer' = IF AtOnce(q) THEN AllInf(q.dst) ELSE <<>>
  /\ UNCHANGED <<settled, found>>

Running == query # NoQuery /\ answer = <<>>
Tops == {r \in pq : \A s \in pq : r.h <= s.h}

\* An entry to throw away.  The form for one node never settles a node twice,
\* the others do when the entry is cheaper.
Stale(r) == r.n \in DOMAIN settled /\ (Single \/ settled[r.n].d <= r.d)

\* Mutant: a node is entered with the remaining cost alone.
RelaxedGreedy(r) ==
  {[n |-> OtherNd(e, r.n), parent |-> r.n, d |-> r.d + e.c,
    h |-> query.heur[OtherNd(e, r.n)]] :
   e \in {x \in AdjOut(query.net, r.n) :
            r.d + x.c < Inf /\ query.heur[OtherNd(x, r.n)] < Inf}}

\* relax: the entries for the neighbours of r.
Relaxed(r) ==
  {[n |-> OtherNd(e, r.n), parent |-> r.n, d |-> r.d + e.c,
    h |-> r.d + e.c + query.heur[OtherNd(e, r.n)]] :
   e \in {x \in AdjOut(query.net, r.n) :
            r.d + x.c < Inf /\ query.heur[OtherNd(x, r.n)] < Inf}}

\* What is returned when the loop of the last form ends.
Collected(done) ==
  [t \in query.dst |-> IF t \in DOMAIN done THEN done[t].d ELSE Inf]

\* The queue is empty, or its top is infinitely far.  In the form "many" the
\* latter returns the costs as they were set up.
GiveUp ==
  /\ Running
  /\ \/ pq = {} /\ answer' = IF query.form = "many" THEN Collected(settled)
                             ELSE AllInf(query.dst)
     \/ (\E r \in Tops : Inf <= r.h) /\ answer' = AllInf(query.dst)
  /\ UNCHANGED <<query, pq, settled, found>>

Skip ==
  /\ Running
  /\ \E r \in Tops : r.h < Inf /\ Stale(r) /\ pq' = pq \ {r}
  /\ UNCHANGED <<query, settled, found, answer>>

\* A node is settled; the search ends if it was the (last) target.
Settle ==
  /\ Running
  /\ \E r \in Tops :
       LET done == [n \in DOMAIN settled \cup {r.n} |-> IF n = r.n THEN r ELSE settled[n]]
           hits == found + IF r.n \in query.dst THEN 1 ELSE 0
           end  == IF query.form = "many" THEN hits = Cardinality(query.dst) ELSE hits > 0
       IN /\ r.h < Inf /\ ~Stale(r)
          /\ settled' = done
          /\ found' = hits
          /\ pq' = (pq \ {r}) \cup IF end THEN {} ELSE Relaxed(r)
          /\ answer' = CASE ~end -> <<>>
                         [] end /\ query.form = "many" -> Collected(done)
                         [] end /\ query.form # "many" ->
                              [t \in query.dst |-> IF t = r.n THEN r.d ELSE Inf]
  /\ UNCHANGED query

SearchRound == GiveUp \/ Skip \/ Settle
SearchNext == (query = NoQuery /\ \E q \in Queries : Start(q)) \/ SearchRound

SearchSpec == SearchInit /\ [][SearchNext]_nodeVars

-----------------------------------------------------------------------------
\* buildPath
BuildPath(n) == Climbed(settled, n, NoNode)

Finished == query # NoQuery /\ answer # <<>>
Reached == {t \in DOMAIN answer : answer[t] < Inf}

\* What the heuristic has to satisfy.  The form "many" may never see a cost
\* that is finite but for the heuristic: it would return at once and forget
\* the targets it has settled.
Usable(q) ==
  LET dist == DistFrom(q.net, q.src)
  IN /\ Admissible(q.net, q.dst, q.heur)
     /\ q.form # "set" => Consistent(q.net, q.heur)
     /\ q.form = "many" =>
          ~\E s \in NodeSteps(q.net) : /\ dist[s.from] + s.c < Inf
                                       /\ dist[s.from] + s.c + q.heur[s.to] >= Inf

\* Every form returns the costs of shortest paths, the first three for a
\* nearest target, the last for all of them.
Shortest ==
  Finished /\ Usable(query) /\ ~(AtOnce(query) /\ query.src \cap query.dst # {}) =>
    LET dist == DistFrom(query.net, query.src)
    IN IF query.form = "many" THEN \A t \in query.dst : answer[t] = dist[t]
       ELSE LET best == Min({dist[t] : t \in query.dst} \cup {Inf})
            IN /\ best < Inf => Cardinality(Reached) = 1
               /\ \A t \in Reached : answer[t] = best /\ dist[t] = best

\* The path handed out leads from a source to the target and costs what is
\* returned.  Forms that settle a node again promise it for a usable heuristic:
\* a node on the path may have become cheaper than what the target was reached
\* with.
PathFits ==
  Finished /\ (Single \/ Usable(query)) => \A t \in Reached \cap DOMAIN settled :
    LET path == BuildPath(t)
    IN path[Len(path)] \in query.src /\ CostAlong(query.net, path) = answer[t]

\* A search that settles nodes, at every round and when it returns
\* (Dijkstra::shortestPathImpl).
SearchInv == SearchTypeOK /\ Shortest /\ PathFits
=============================================================================
