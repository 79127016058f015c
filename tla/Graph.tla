------------------------------- MODULE Graph -------------------------------
(***************************************************************************)
(* The adjacency lists of DirGraph and UndirGraph (util/graph).  Nodes and *)
(* edges are heap objects that know each other by pointers: an edge knows  *)
(* its two ends, a node the edges in its lists.  The memory is explicit:   *)
(* `edge` holds the edges that were allocated and not deleted, under an    *)
(* address that is free again after the delete.                            *)
(*                                                                         *)
(* An UndirNode has one list; it is kept in `out` and in `in`.  Lists are  *)
(* sets: addEdge never enters an edge twice, and no result depends on the  *)
(* order.  Payloads are left out.                                          *)
(***************************************************************************)
EXTENDS Naturals, Functions

CONSTANTS NodeAddrs,    \* addresses of nodes
          EdgeAddrs     \* addresses of edges

VARIABLES directed,     \* DirGraph or UndirGraph
          edge,         \* the edges on the heap: address -> [from, to]
          adj           \* the nodes of the graph: address -> [out, in]

graphVars == <<directed, edge, adj>>

Nds == DOMAIN adj

\* All pointers lead to objects that exist.
GraphTypeOK ==
  /\ directed \in BOOLEAN
  /\ DOMAIN edge \subseteq EdgeAddrs
  /\ Nds \subseteq NodeAddrs
  /\ edge \in [DOMAIN edge -> [from : Nds, to : Nds]]
  /\ adj \in [Nds -> [out : SUBSET DOMAIN edge, in : SUBSET DOMAIN edge]]

GraphInit == directed \in BOOLEAN /\ edge = <<>> /\ adj = <<>>

-----------------------------------------------------------------------------
\* The end of an edge that is not n.
GetOtherNd(ed, n) == IF ed.to = n THEN ed.from ELSE ed.to

HasEdgeOut(ed, n) == ed.from = n \/ (~directed /\ ed.to = n)
HasEdgeIn(ed, n)  == ed.to = n \/ (~directed /\ ed.from = n)

\* The edges by which getEdg finds b from a.
GetEdg(a, b) == {e \in adj[a].out : GetOtherNd(edge[e], a) = b}

\* addEdge, for both ends of each of the edges `new`.
Enter(new) ==
  [n \in Nds |->
     [out |-> adj[n].out \cup {e \in DOMAIN new : HasEdgeOut(new[e], n)},
      in  |-> adj[n].in \cup {e \in DOMAIN new : HasEdgeIn(new[e], n)}]]

\* Mutant: the end an edge leads to keeps it.
LeaveFrom(heap, lists, old) ==
  [n \in DOMAIN lists |->
     [out |-> lists[n].out \ {e \in old : heap[e].from = n},
      in  |-> lists[n].in \ {e \in old : heap[e].from = n}]]

\* removeEdge, for both ends of each of the edges `old`.
Leave(heap, lists, old) ==
  [n \in DOMAIN lists |->
     [out |-> lists[n].out \ {e \in old : HasEdgeOut(heap[e], n)},
      in  |-> lists[n].in \ {e \in old : HasEdgeIn(heap[e], n)}]]

-----------------------------------------------------------------------------
AddNd(n) ==
  /\ n \in NodeAddrs \ Nds
  /\ adj' = [m \in Nds \cup {n} |-> IF m = n THEN [out |-> {}, in |-> {}] ELSE adj[m]]
  /\ UNCHANGED <<directed, edge>>

\* addEdg, when there is no such edge yet (otherwise it returns that edge).
AddEdg(a, b, e) ==
  /\ a \in Nds /\ b \in Nds /\ e \in EdgeAddrs \ DOMAIN edge
  /\ GetEdg(a, b) = {}
  /\ edge' = [x \in DOMAIN edge \cup {e} |->
                IF x = e THEN [from |-> a, to |-> b] ELSE edge[x]]
  /\ adj' = Enter([x \in {e} |-> [from |-> a, to |-> b]])
  /\ UNCHANGED directed

\* delEdg, when there is an edge.
DelEdg(a, b) ==
  /\ a \in Nds /\ b \in Nds
  /\ \E e \in GetEdg(a, b) :
       /\ edge' = Restrict(edge, DOMAIN edge \ {e})
       /\ adj' = Leave(edge, adj, {e})
  /\ UNCHANGED directed

\* The destructor of n: every edge in its lists is taken from its other end
\* and deleted.
Destroy(n, heap, lists) ==
  LET gone == lists[n].out \cup lists[n].in
  IN [edge |-> Restrict(heap, DOMAIN heap \ gone),
      adj  |-> Restrict(Leave(heap, lists, gone), DOMAIN lists \ {n})]

DelNd(n) ==
  /\ n \in Nds
  /\ edge' = Destroy(n, edge, adj).edge
  /\ adj' = Destroy(n, edge, adj).adj
  /\ UNCHANGED directed

\* Mutant: mergeNds of an UndirGraph without the second loop.
MovedForward(a, b) ==
  {<<b, edge[e].to>> : e \in {x \in adj[a].out :
     edge[x].from = a /\ edge[x].to \notin {a, b} /\ GetEdg(b, edge[x].to) = {}}}

\* The edges mergeNds(a, b) gives to b, those to a itself left out, which go
\* with it.
Moved(a, b) ==
  {<<b, edge[e].to>> : e \in {x \in adj[a].out :
     edge[x].from = a /\ edge[x].to \notin {a, b} /\ GetEdg(b, edge[x].to) = {}}}
  \cup
  {<<edge[e].from, b>> : e \in {x \in adj[a].in :
     edge[x].to = a /\ edge[x].from \notin {a, b} /\ GetEdg(edge[x].from, b) = {}}}

\* mergeNds.  A self edge of an UndirGraph's a makes the loop over the list
\* of a grow this list, unless a and b share an edge: no caller may do that.
MergeNds(a, b) ==
  /\ a \in Nds /\ b \in Nds \ {a}
  /\ directed \/ GetEdg(a, a) = {} \/ GetEdg(a, b) # {}
  /\ \E at \in [Moved(a, b) -> EdgeAddrs \ DOMAIN edge] :
       /\ IsInjective(at)
       /\ LET new  == [e \in Range(at) |-> LET p == CHOOSE q \in DOMAIN at : at[q] = e
                                           IN [from |-> p[1], to |-> p[2]]]
              heap == [e \in DOMAIN edge \cup DOMAIN new |->
                         IF e \in DOMAIN new THEN new[e] ELSE edge[e]]
          IN /\ edge' = Destroy(a, heap, Enter(new)).edge
             /\ adj' = Destroy(a, heap, Enter(new)).adj
  /\ UNCHANGED directed

GraphNext ==
  \/ \E n \in NodeAddrs : AddNd(n) \/ DelNd(n)
  \/ \E a, b \in Nds : \/ DelEdg(a, b)
                       \/ MergeNds(a, b)
                       \/ \E e \in EdgeAddrs : AddEdg(a, b, e)

GraphSpec == GraphInit /\ [][GraphNext]_graphVars

-----------------------------------------------------------------------------
\* The lists hold exactly the edges on the heap, each at both of its ends:
\* no edge leaks, whatever was added, deleted and merged (the destructors of
\* DirNode and UndirNode).
ListsExact ==
  \A n \in Nds : /\ adj[n].out = {e \in DOMAIN edge : HasEdgeOut(edge[e], n)}
                 /\ adj[n].in = {e \in DOMAIN edge : HasEdgeIn(edge[e], n)}

\* There is at most one edge from a node to another, and at most one between
\* them in an UndirGraph, which getEdg and the paths of Dijkstra rely on.
OneEdge ==
  \A e, f \in DOMAIN edge :
    (\/ edge[e] = edge[f]
     \/ ~directed /\ edge[e] = [from |-> edge[f].to, to |-> edge[f].from]) => e = f

Succ(n) == {GetOtherNd(edge[e], n) : e \in adj[n].out}
Pred(n) == {GetOtherNd(edge[e], n) : e \in adj[n].in}

\* mergeNds(a, b) leaves b with the neighbours of both, and takes no edge
\* from or to any other pair of nodes.
MergeMoves ==
  [][\A a, b \in NodeAddrs : MergeNds(a, b) =>
       /\ Succ(b)' = (Succ(a) \cup Succ(b)) \ (IF b \in Succ(b) THEN {a} ELSE {a, b})
       /\ Pred(b)' = (Pred(a) \cup Pred(b)) \ (IF b \in Pred(b) THEN {a} ELSE {a, b})
       /\ \A n, m \in Nds \ {a, b} : (m \in Succ(n)) <=> (m \in Succ(n)')]_graphVars

\* A graph after any sequence of its operations (DirGraph, UndirGraph).
GraphInv == GraphTypeOK /\ ListsExact /\ OneEdge
=============================================================================
