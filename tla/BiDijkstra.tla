----------------------------- MODULE BiDijkstra -----------------------------
(***************************************************************************)
(* BiDijkstra (util/graph/BiDijkstra.tpp): two searches, forward from the  *)
(* sources and backward from the targets, that take turns, the one whose   *)
(* queue has the cheaper top first, until a node settled by both costs no  *)
(* more than the best connection seen.  Heuristics are ignored.  Among     *)
(* equal entries of a queue the choice is left open.                       *)
(***************************************************************************)
EXTENDS Net

CONSTANT BiQueries   \* [net, form, src, dst]; form "one" has one source

ASSUME BiQueriesAssumption ==
  \A q \in BiQueries :
    /\ IsNet(q.net) /\ q.src \subseteq q.net.nodes /\ q.dst \subseteq q.net.nodes
    /\ q.form \in {"one", "set"}
    /\ q.form = "one" => \E n \in q.src : q.src = {n}

VARIABLES biquery,   \* the call, NoBiQuery before it
          sides,     \* pqFwd, pqBwd
          done,      \* settledFwd, settledBwd
          best,      \* l
          meet,      \* cur.n when found is set, NoNode before
          cost       \* what is returned, NoCost before

biVars == <<biquery, sides, done, best, meet, cost>>

NoBiQuery == [form |-> "none"]
NoCost == -1
Sides == {"fwd", "bwd"}
Other(s) == IF s = "fwd" THEN "bwd" ELSE "fwd"

BiTypeOK ==
  /\ cost \in 0..Inf \cup {NoCost} /\ best \in 0..Inf
  /\ biquery # NoBiQuery => \A s \in Sides :
       /\ \A r \in sides[s] : r.n \in biquery.net.nodes /\ r.d \in 0..Inf
       /\ DOMAIN done[s] \subseteq biquery.net.nodes
       /\ meet \in biquery.net.nodes \cup {NoNode}

BiInit ==
  /\ biquery = NoBiQuery
  /\ sides = [s \in Sides |-> {}] /\ done = [s \in Sides |-> <<>>]
  /\ best = Inf /\ meet = NoNode /\ cost = NoCost

\* A single source without an edge to leave by is given up at once.
BiAtOnce(q) == q.form = "one" /\ \E n \in q.src : AdjOut(q.net, n) = {}

BiStart(q) ==
  /\ biquery' = q
  /\ sides' = [s \in Sides |->
       {[n |-> n, parent |-> NoNode, d |-> 0] : n \in IF s = "fwd" THEN q.src ELSE q.dst}]
  /\ cost' = IF BiAtOnce(q) THEN Inf ELSE NoCost
  /\ UNCHANGED <<done, best, meet>>

BiRunning == biquery # NoBiQuery /\ cost = NoCost
BiTops(s) == {r \in sides[s] : \A x \in sides[s] : r.d <= x.d}
TopCost(s) == Min({r.d : r \in sides[s]})

\* The side with the cheaper top goes on, the forward one if they are equal.
Turn == IF TopCost("fwd") > TopCost("bwd") THEN "bwd" ELSE "fwd"

\* The edges by which a side leaves a node.
Adj(s, n) == IF s = "fwd" THEN AdjOut(biquery.net, n) ELSE AdjIn(biquery.net, n)

\* relaxFwd, relaxBwd: the new entries, and the cheapest connection they make
\* with what the other side has settled.
BiRelaxed(s, r) ==
  {[n |-> OtherNd(e, r.n), parent |-> r.n, d |-> r.d + e.c] :
   e \in {x \in Adj(s, r.n) : r.d + x.c < Inf}}

Connected(s, r) ==
  Min({x.d + done[Other(s)][x.n].d :
         x \in {y \in BiRelaxed(s, r) : y.n \in DOMAIN done[Other(s)]}} \cup {Inf})

\* Mutant: the loop goes on while one of the queues has entries.
BiGiveUpBoth ==
  /\ BiRunning
  /\ \A s \in Sides : sides[s] = {}
  /\ cost' = Inf
  /\ UNCHANGED <<biquery, sides, done, best, meet>>

\* One of the queues is empty.  That the tops of both are infinitely far is
\* tested as well, but entries as far as that are not made.
BiGiveUp ==
  /\ BiRunning
  /\ \E s \in Sides : sides[s] = {}
  /\ cost' = Inf
  /\ UNCHANGED <<biquery, sides, done, best, meet>>

BiGoesOn == BiRunning /\ \A s \in Sides : sides[s] # {}

BiStale(s, r) == r.n \in DOMAIN done[s] /\ done[s][r.n].d <= r.d

BiSkip ==
  /\ BiGoesOn
  /\ \E r \in BiTops(Turn) :
       BiStale(Turn, r) /\ sides' = [sides EXCEPT ![Turn] = @ \ {r}]
  /\ UNCHANGED <<biquery, done, best, meet, cost>>

\* Mutant: the first node that both sides have settled is taken.
FirstMeeting(s, r) == r.n \in DOMAIN done[Other(s)]

\* Both sides have settled the node, and nothing better was seen.
Meeting(s, r) ==
  r.n \in DOMAIN done[Other(s)] /\ r.d + done[Other(s)][r.n].d <= best

BiSettle ==
  /\ BiGoesOn
  /\ \E r \in BiTops(Turn) :
       /\ ~BiStale(Turn, r)
       /\ done' = [done EXCEPT ![Turn] =
                     [n \in DOMAIN @ \cup {r.n} |-> IF n = r.n THEN r ELSE @[n]]]
       /\ \/ /\ Meeting(Turn, r)
             /\ best' = r.d + done[Other(Turn)][r.n].d
             /\ cost' = best'
             /\ meet' = r.n
             /\ sides' = [sides EXCEPT ![Turn] = @ \ {r}]
          \/ /\ ~Meeting(Turn, r)
             /\ best' = Min({best, Connected(Turn, r)})
             /\ sides' = [sides EXCEPT ![Turn] = (@ \ {r}) \cup BiRelaxed(Turn, r)]
             /\ UNCHANGED <<meet, cost>>
  /\ UNCHANGED biquery

BiRound == BiGiveUp \/ BiSkip \/ BiSettle
BiNext == (biquery = NoBiQuery /\ \E q \in BiQueries : BiStart(q)) \/ BiRound

BiSpec == BiInit /\ [][BiNext]_biVars

-----------------------------------------------------------------------------
BiDone == biquery # NoBiQuery /\ cost # NoCost

NearestDist ==
  LET dist == DistFrom(biquery.net, biquery.src)
  IN Min({dist[t] : t \in biquery.dst} \cup {Inf})

\* The searches meet on a shortest path, whichever side gets ahead, and only
\* give up if there is none.  (If a target costs nothing, as a source itself or
\* by edges that cost nothing, they may give up before the sides have met: the
\* forward one goes first as long as costs are equal.)
BiShortest ==
  BiDone /\ ~(cost = Inf /\ NearestDist = 0) => cost = NearestDist

\* buildPath on one side.
HalfPath(s, n) == Climbed(done[s], n, NoNode)

\* The nodes handed out, from a target to a source: the backward half without
\* the meeting node, which the forward half begins with.
BiPath ==
  LET back == HalfPath("bwd", meet)
  IN [i \in 1..Len(back) - 1 |-> back[Len(back) + 1 - i]] \o HalfPath("fwd", meet)

\* Both halves together lead from a source to a target and cost what is
\* returned.
BiPathFits ==
  meet # NoNode =>
    /\ BiPath[1] \in biquery.dst /\ BiPath[Len(BiPath)] \in biquery.src
    /\ CostAlong(biquery.net, BiPath) = cost

\* Two searches that meet, at every round and when they return
\* (BiDijkstra::shortestPathImpl).
BiInv == BiTypeOK /\ BiShortest /\ BiPathFits
=============================================================================
