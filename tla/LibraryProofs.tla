---------------------------- MODULE LibraryProofs -----------------------------
(***************************************************************************)
(* TLAPS proofs about what the server takes from util: graphs, grids,      *)
(* the radix heap and the writers of JSON and XML, in this order.          *)
(***************************************************************************)
EXTENDS GraphAlgorithm, Grid, RadixHeap, JsonWriter, XmlWriter, Lemmas, SequenceTheorems,
  FiniteSetTheorems, TLAPS

-----------------------------------------------------------------------------
(***************************************************************************)
(* Graph: for any numbers of nodes and edges, the lists of the nodes and   *)
(* the edges on the heap agree after any sequence of operations, a merge   *)
(* moves just the edges of the merged node, and connectedComponents finds  *)
(* the classes of linked nodes.                                            *)
(***************************************************************************)


\* The edge ed leads from n to m, or joins them in an UndirGraph.
Joins(ed, n, m) ==
  \/ ed.from = n /\ ed.to = m
  \/ ~directed /\ ed.from = m /\ ed.to = n

\* What GraphInv says, of any heap and any lists, so that it can be said of
\* those in the middle of an operation.
WellTyped(heap, lists) ==
  /\ DOMAIN heap \subseteq EdgeAddrs /\ DOMAIN lists \subseteq NodeAddrs
  /\ heap \in [DOMAIN heap -> [from : DOMAIN lists, to : DOMAIN lists]]
  /\ lists \in [DOMAIN lists -> [out : SUBSET DOMAIN heap, in : SUBSET DOMAIN heap]]

Exact(heap, lists) ==
  \A n \in DOMAIN lists :
    /\ lists[n].out = {e \in DOMAIN heap : HasEdgeOut(heap[e], n)}
    /\ lists[n].in = {e \in DOMAIN heap : HasEdgeIn(heap[e], n)}

Simple(heap) ==
  \A e, f \in DOMAIN heap : Joins(heap[e], heap[f].from, heap[f].to) => e = f

Sound(heap, lists) == WellTyped(heap, lists) /\ Exact(heap, lists) /\ Simple(heap)

LEMMA SameEnds ==
  ASSUME NEW N, NEW x \in [from : N, to : N], NEW y \in [from : N, to : N]
  PROVE  /\ x = y <=> x.from = y.from /\ x.to = y.to
         /\ x = [from |-> y.to, to |-> y.from] <=> x.from = y.to /\ x.to = y.from
  OBVIOUS

LEMMA ListsRecord ==
  ASSUME NEW S, NEW o \in SUBSET S, NEW i \in SUBSET S
  PROVE  [out |-> o, in |-> i] \in [out : SUBSET S, in : SUBSET S]
  OBVIOUS

LEMMA RestrictTyped ==
  ASSUME NEW D, NEW L, NEW f \in [D -> L], NEW X \in SUBSET D
  PROVE  Restrict(f, X) \in [X -> L]
  BY DEF Restrict

LEMMA SoundIsInv == GraphInv <=> directed \in BOOLEAN /\ Sound(edge, adj)
  <1>1. ASSUME GraphTypeOK
        PROVE  OneEdge <=> Simple(edge)
    <2>1. \A e, f \in DOMAIN edge :
            (\/ edge[e] = edge[f]
             \/ ~directed /\ edge[e] = [from |-> edge[f].to, to |-> edge[f].from])
            <=> Joins(edge[e], edge[f].from, edge[f].to)
      <3> SUFFICES ASSUME NEW e \in DOMAIN edge, NEW f \in DOMAIN edge
                   PROVE  (\/ edge[e] = edge[f]
                           \/ ~directed /\ edge[e] = [from |-> edge[f].to, to |-> edge[f].from])
                          <=> Joins(edge[e], edge[f].from, edge[f].to)
        OBVIOUS
      <3>1. edge[e] \in [from : Nds, to : Nds] /\ edge[f] \in [from : Nds, to : Nds]
        BY <1>1 DEF GraphTypeOK
      <3> QED BY <3>1, SameEnds DEF Joins
    <2> QED BY <2>1 DEF OneEdge, Simple
  <1> QED BY <1>1 DEF GraphInv, GraphTypeOK, ListsExact, Sound, WellTyped, Exact, Nds

\* The graph is sound after a step if what the step leaves is.
LEMMA SoundNext ==
  ASSUME directed \in BOOLEAN, directed' = directed, Sound(edge', adj')
  PROVE  GraphInv'
  <1>1. GraphTypeOK' /\ ListsExact'
    BY DEF GraphTypeOK, ListsExact, Sound, WellTyped, Exact, Nds, HasEdgeOut, HasEdgeIn
  <1>2. OneEdge'
    <2> SUFFICES ASSUME NEW e \in DOMAIN edge', NEW f \in DOMAIN edge',
                        \/ edge'[e] = edge'[f]
                        \/ ~directed /\ edge'[e] = [from |-> edge'[f].to, to |-> edge'[f].from]
                 PROVE  e = f
      BY DEF OneEdge
    <2>1. edge'[e] \in [from : DOMAIN adj', to : DOMAIN adj']
          /\ edge'[f] \in [from : DOMAIN adj', to : DOMAIN adj']
      BY DEF Sound, WellTyped
    <2>2. Joins(edge'[e], edge'[f].from, edge'[f].to)
      BY <2>1, SameEnds DEF Joins
    <2> QED BY <2>2 DEF Sound, Simple
  <1> QED BY <1>1, <1>2 DEF GraphInv

-----------------------------------------------------------------------------
(* The parts operations are made of. *)

\* Taking edges from the heap and from the lists of their ends.
LEMMA LeaveSound ==
  ASSUME NEW heap, NEW lists, Sound(heap, lists), NEW old \in SUBSET DOMAIN heap
  PROVE  LET rest == Restrict(heap, DOMAIN heap \ old)
         IN /\ Sound(rest, Leave(heap, lists, old))
            /\ DOMAIN Leave(heap, lists, old) = DOMAIN lists
            /\ DOMAIN rest = DOMAIN heap \ old
            /\ \A e \in DOMAIN heap \ old : rest[e] = heap[e]
  <1> DEFINE rest == Restrict(heap, DOMAIN heap \ old)
             left == Leave(heap, lists, old)
  <1>1. /\ DOMAIN rest = DOMAIN heap \ old
        /\ \A e \in DOMAIN heap \ old : rest[e] = heap[e]
        /\ rest = [e \in DOMAIN heap \ old |-> heap[e]]
    BY DEF Restrict
  <1>2. /\ DOMAIN left = DOMAIN lists
        /\ left = [n \in DOMAIN lists |->
                     [out |-> lists[n].out \ {e \in old : HasEdgeOut(heap[e], n)},
                      in  |-> lists[n].in \ {e \in old : HasEdgeIn(heap[e], n)}]]
    BY DEF Leave
  <1> HIDE DEF rest, left
  <1>3. \A n \in DOMAIN lists :
          /\ left[n].out = {e \in DOMAIN heap \ old : HasEdgeOut(heap[e], n)}
          /\ left[n].in = {e \in DOMAIN heap \ old : HasEdgeIn(heap[e], n)}
    BY <1>2 DEF Sound, Exact
  <1>4. Exact(rest, left)
    BY <1>1, <1>2, <1>3 DEF Exact
  <1>5. WellTyped(rest, left)
    <2>1. left \in [DOMAIN lists -> [out : SUBSET DOMAIN rest, in : SUBSET DOMAIN rest]]
      BY <1>1, <1>2, <1>3
    <2> QED BY <1>1, <1>2, <2>1 DEF Sound, WellTyped
  <1>6. Simple(rest)
    BY <1>1 DEF Sound, Simple
  <1> QED BY <1>1, <1>2, <1>4, <1>5, <1>6 DEF Sound, rest, left

\* The destructor of a node takes all edges at the node with it, and no others.
LEMMA DestroySound ==
  ASSUME NEW heap, NEW lists, Sound(heap, lists), NEW n \in DOMAIN lists
  PROVE  LET d == Destroy(n, heap, lists)
         IN /\ Sound(d.edge, d.adj)
            /\ DOMAIN d.adj = DOMAIN lists \ {n}
            /\ DOMAIN d.edge = {e \in DOMAIN heap : heap[e].from # n /\ heap[e].to # n}
            /\ \A e \in DOMAIN d.edge : d.edge[e] = heap[e]
  <1> DEFINE gone == lists[n].out \cup lists[n].in
             rest == Restrict(heap, DOMAIN heap \ gone)
             left == Leave(heap, lists, gone)
             ends == Restrict(left, DOMAIN lists \ {n})
  <1>1. gone = {e \in DOMAIN heap : heap[e].from = n \/ heap[e].to = n}
    BY DEF Sound, Exact, HasEdgeOut, HasEdgeIn
  <1>2. Destroy(n, heap, lists).edge = rest /\ Destroy(n, heap, lists).adj = ends
    BY DEF Destroy
  <1>3. gone \in SUBSET DOMAIN heap
    BY <1>1
  <1>4. /\ Sound(rest, left) /\ DOMAIN left = DOMAIN lists
        /\ DOMAIN rest = DOMAIN heap \ gone
        /\ \A e \in DOMAIN heap \ gone : rest[e] = heap[e]
    <2> HIDE DEF gone
    <2> QED BY <1>3, LeaveSound
  <1>5. DOMAIN ends = DOMAIN lists \ {n} /\ \A m \in DOMAIN lists \ {n} : ends[m] = left[m]
        /\ ends = [k \in DOMAIN lists \ {n} |-> left[k]]
    BY DEF Restrict
  <1>6. DOMAIN rest = {e \in DOMAIN heap : heap[e].from # n /\ heap[e].to # n}
    BY <1>1, <1>4
  <1> HIDE DEF rest, left, ends, gone
  <1>7. \A e \in DOMAIN rest : rest[e] = heap[e] /\ rest[e].from # n /\ rest[e].to # n
    BY <1>4, <1>6
  <1>8. \A e \in DOMAIN rest : rest[e] \in [from : DOMAIN ends, to : DOMAIN ends]
    BY <1>4, <1>5, <1>7 DEF Sound, WellTyped
  <1>9. WellTyped(rest, ends)
    <2>1. rest \in [DOMAIN rest -> [from : DOMAIN ends, to : DOMAIN ends]]
      BY <1>4, <1>8 DEF Sound, WellTyped
    <2> DEFINE L == [out : SUBSET DOMAIN rest, in : SUBSET DOMAIN rest]
    <2>2. left \in [DOMAIN lists -> L]
      BY <1>4 DEF Sound, WellTyped
    <2> HIDE DEF L
    <2>3. ends \in [DOMAIN ends -> L]
      <3>1. Restrict(left, DOMAIN lists \ {n}) \in [DOMAIN lists \ {n} -> L]
        BY <2>2, RestrictTyped
      <3> QED BY <1>5, <3>1 DEF ends
    <2> QED BY <1>4, <1>5, <2>1, <2>3 DEF Sound, WellTyped, L
  <1>10. Exact(rest, ends) /\ Simple(rest)
    BY <1>4, <1>5 DEF Sound, Exact
  <1> QED BY <1>2, <1>5, <1>6, <1>7, <1>9, <1>10 DEF Sound

\* Entering edges into the heap and into the lists of their ends; no two of
\* them, and none of them and of the old ones, may join the same nodes.
LEMMA EnterSound ==
  ASSUME Sound(edge, adj), NEW new, DOMAIN new \subseteq EdgeAddrs \ DOMAIN edge,
         new \in [DOMAIN new -> [from : Nds, to : Nds]],
         \A e \in DOMAIN new, f \in DOMAIN edge :
           ~Joins(new[e], edge[f].from, edge[f].to) /\ ~Joins(edge[f], new[e].from, new[e].to),
         Simple(new),
         NEW heap, heap = [e \in DOMAIN edge \cup DOMAIN new |->
                             IF e \in DOMAIN new THEN new[e] ELSE edge[e]]
  PROVE  Sound(heap, Enter(new)) /\ DOMAIN Enter(new) = Nds
  <1> DEFINE lists == Enter(new)
  <1>1. /\ DOMAIN lists = Nds
        /\ lists = [n \in Nds |->
             [out |-> adj[n].out \cup {e \in DOMAIN new : HasEdgeOut(new[e], n)},
              in  |-> adj[n].in \cup {e \in DOMAIN new : HasEdgeIn(new[e], n)}]]
    BY DEF Enter
  <1> HIDE DEF lists
  <1>2. /\ DOMAIN heap = DOMAIN edge \cup DOMAIN new
        /\ \A e \in DOMAIN new : heap[e] = new[e]
        /\ \A e \in DOMAIN edge : heap[e] = edge[e]
    OBVIOUS
  <1>3. \A n \in Nds :
          /\ lists[n].out = {e \in DOMAIN heap : HasEdgeOut(heap[e], n)}
          /\ lists[n].in = {e \in DOMAIN heap : HasEdgeIn(heap[e], n)}
    <2> SUFFICES ASSUME NEW n \in Nds
                 PROVE  /\ lists[n].out = {e \in DOMAIN heap : HasEdgeOut(heap[e], n)}
                        /\ lists[n].in = {e \in DOMAIN heap : HasEdgeIn(heap[e], n)}
      OBVIOUS
    <2>1. /\ adj[n].out = {e \in DOMAIN edge : HasEdgeOut(edge[e], n)}
          /\ adj[n].in = {e \in DOMAIN edge : HasEdgeIn(edge[e], n)}
      BY DEF Sound, Exact, Nds
    <2>2. /\ lists[n].out = adj[n].out \cup {e \in DOMAIN new : HasEdgeOut(new[e], n)}
          /\ lists[n].in = adj[n].in \cup {e \in DOMAIN new : HasEdgeIn(new[e], n)}
      BY <1>1
    <2> QED BY <1>2, <2>1, <2>2
  <1>4. Exact(heap, lists)
    BY <1>1, <1>3 DEF Exact
  <1>5. WellTyped(heap, lists)
    <2>1. lists \in [Nds -> [out : SUBSET DOMAIN heap, in : SUBSET DOMAIN heap]]
      <3> SUFFICES ASSUME NEW n \in Nds
                   PROVE  lists[n] \in [out : SUBSET DOMAIN heap, in : SUBSET DOMAIN heap]
        BY <1>1
      <3> DEFINE o == adj[n].out \cup {e \in DOMAIN new : HasEdgeOut(new[e], n)}
                 i == adj[n].in \cup {e \in DOMAIN new : HasEdgeIn(new[e], n)}
      <3>1. lists[n] = [out |-> o, in |-> i]
        BY <1>1
      <3>2. lists[n].out = o /\ lists[n].in = i
        BY <3>1
      <3> HIDE DEF o, i
      <3>3. o \in SUBSET DOMAIN heap /\ i \in SUBSET DOMAIN heap
        BY <1>3, <3>2
      <3> QED BY <3>1, <3>3, ListsRecord
    <2>2. \A e \in DOMAIN heap : heap[e] \in [from : Nds, to : Nds]
      BY <1>2 DEF Sound, WellTyped, Nds
    <2>3. DOMAIN heap \subseteq EdgeAddrs /\ Nds \subseteq NodeAddrs
      BY <1>2 DEF Sound, WellTyped, Nds
    <2>4. heap \in [DOMAIN heap -> [from : Nds, to : Nds]]
      BY <1>2, <2>2
    <2> QED BY <1>1, <2>1, <2>3, <2>4 DEF WellTyped
  <1>6. Simple(heap)
    <2> SUFFICES ASSUME NEW e \in DOMAIN heap, NEW f \in DOMAIN heap,
                        Joins(heap[e], heap[f].from, heap[f].to)
                 PROVE  e = f
      BY DEF Simple
    <2>1. CASE e \in DOMAIN edge /\ f \in DOMAIN edge
      BY <1>2, <2>1 DEF Sound, Simple
    <2>2. CASE e \in DOMAIN new /\ f \in DOMAIN new
      BY <1>2, <2>2 DEF Simple
    <2>3. CASE e \in DOMAIN new /\ f \in DOMAIN edge
      BY <1>2, <2>3
    <2>4. CASE e \in DOMAIN edge /\ f \in DOMAIN new
      BY <1>2, <2>4
    <2> QED BY <1>2, <2>1, <2>2, <2>3, <2>4
  <1> QED BY <1>1, <1>4, <1>5, <1>6 DEF Sound, lists

\* getEdg finds an edge just if there is one.
LEMMA GetEdgFinds ==
  ASSUME Sound(edge, adj), NEW a \in Nds, NEW b
  PROVE  \A e : e \in GetEdg(a, b) <=> e \in DOMAIN edge /\ Joins(edge[e], a, b)
  <1>1. adj[a].out = {e \in DOMAIN edge : HasEdgeOut(edge[e], a)}
    BY DEF Sound, Exact, Nds
  <1> QED BY <1>1 DEF GetEdg, GetOtherNd, HasEdgeOut, Joins

-----------------------------------------------------------------------------
(* The operations. *)

LEMMA InitSound == GraphInit => GraphInv
  <1> SUFFICES ASSUME GraphInit PROVE GraphInv OBVIOUS
  <1>1. DOMAIN edge = {} /\ DOMAIN adj = {}
    BY DEF GraphInit
  <1>2. edge \in [{} -> [from : {}, to : {}]] /\ adj \in [{} -> [out : SUBSET {}, in : SUBSET {}]]
    BY DEF GraphInit
  <1>3. Sound(edge, adj)
    BY <1>1, <1>2 DEF Sound, WellTyped, Exact, Simple
  <1> QED BY <1>3, SoundIsInv DEF GraphInit

LEMMA AddNdSound ==
  ASSUME GraphInv, NEW n \in NodeAddrs, AddNd(n)
  PROVE  GraphInv'
  <1>1. Sound(edge, adj) /\ directed \in BOOLEAN
    BY SoundIsInv
  <1>2. /\ n \notin Nds /\ edge' = edge /\ directed' = directed
        /\ adj' = [m \in Nds \cup {n} |-> IF m = n THEN [out |-> {}, in |-> {}] ELSE adj[m]]
    BY DEF AddNd
  <1>3. DOMAIN adj' = Nds \cup {n} /\ adj'[n] = [out |-> {}, in |-> {}]
        /\ \A m \in Nds : adj'[m] = adj[m]
    BY <1>2
  <1>4. \A e \in DOMAIN edge : edge[e].from # n /\ edge[e].to # n
    BY <1>1, <1>2 DEF Sound, WellTyped, Nds
  <1>5. Exact(edge, adj')
    BY <1>1, <1>3, <1>4 DEF Sound, Exact, Nds, HasEdgeOut, HasEdgeIn
  <1>6. WellTyped(edge, adj')
    <2>1. adj' \in [DOMAIN adj' -> [out : SUBSET DOMAIN edge, in : SUBSET DOMAIN edge]]
      BY <1>1, <1>2 DEF Sound, WellTyped, Nds
    <2>2. edge \in [DOMAIN edge -> [from : DOMAIN adj', to : DOMAIN adj']]
      BY <1>1, <1>3 DEF Sound, WellTyped, Nds
    <2> QED BY <1>1, <1>3, <2>1, <2>2 DEF Sound, WellTyped, Nds
  <1>7. Sound(edge', adj')
    BY <1>1, <1>2, <1>5, <1>6 DEF Sound
  <1> QED BY <1>1, <1>2, <1>7, SoundNext

LEMMA AddEdgSound ==
  ASSUME GraphInv, NEW a \in Nds, NEW b \in Nds, NEW e \in EdgeAddrs, AddEdg(a, b, e)
  PROVE  GraphInv'
  <1> DEFINE new == [x \in {e} |-> [from |-> a, to |-> b]]
  <1>1. Sound(edge, adj) /\ directed \in BOOLEAN
    BY SoundIsInv
  <1>2. /\ e \notin DOMAIN edge /\ GetEdg(a, b) = {} /\ adj' = Enter(new) /\ directed' = directed
        /\ edge' = [x \in DOMAIN edge \cup {e} |->
                      IF x = e THEN [from |-> a, to |-> b] ELSE edge[x]]
    BY DEF AddEdg
  <1>3. DOMAIN new = {e} /\ new[e].from = a /\ new[e].to = b
        /\ new \in [DOMAIN new -> [from : Nds, to : Nds]]
    OBVIOUS
  <1>4. edge' = [x \in DOMAIN edge \cup DOMAIN new |-> IF x \in DOMAIN new THEN new[x] ELSE edge[x]]
    BY <1>2, <1>3
  <1>5. \A f \in DOMAIN edge : ~Joins(edge[f], a, b)
    BY <1>1, <1>2, GetEdgFinds
  <1> HIDE DEF new
  <1>6. \A x \in DOMAIN new, f \in DOMAIN edge :
          ~Joins(new[x], edge[f].from, edge[f].to) /\ ~Joins(edge[f], new[x].from, new[x].to)
    BY <1>3, <1>5 DEF Joins
  <1>7. Simple(new)
    BY <1>3 DEF Simple
  <1>8. Sound(edge', adj')
    BY <1>1, <1>2, <1>3, <1>4, <1>6, <1>7, EnterSound
  <1> QED BY <1>1, <1>2, <1>8, SoundNext

LEMMA DelEdgSound ==
  ASSUME GraphInv, NEW a \in Nds, NEW b \in Nds, DelEdg(a, b)
  PROVE  GraphInv'
  <1>1. Sound(edge, adj) /\ directed \in BOOLEAN
    BY SoundIsInv
  <1>2. PICK e \in GetEdg(a, b) :
          edge' = Restrict(edge, DOMAIN edge \ {e}) /\ adj' = Leave(edge, adj, {e})
    BY DEF DelEdg
  <1>3. {e} \in SUBSET DOMAIN edge
    BY <1>1, <1>2, GetEdgFinds
  <1>4. Sound(edge', adj')
    BY <1>1, <1>2, <1>3, LeaveSound
  <1> QED BY <1>1, <1>4, SoundNext DEF DelEdg

LEMMA DelNdSound ==
  ASSUME GraphInv, NEW n \in NodeAddrs, DelNd(n)
  PROVE  GraphInv'
  <1>1. Sound(edge, adj) /\ directed \in BOOLEAN
    BY SoundIsInv
  <1>2. n \in DOMAIN adj /\ directed' = directed
        /\ edge' = Destroy(n, edge, adj).edge /\ adj' = Destroy(n, edge, adj).adj
    BY DEF DelNd, Nds
  <1>3. Sound(edge', adj')
    BY <1>1, <1>2, DestroySound
  <1> QED BY <1>1, <1>2, <1>3, SoundNext

\* The edges mergeNds(a, b) moves are none b had, and no two of them join the
\* same nodes.
LEMMA MovedPairs ==
  ASSUME Sound(edge, adj), NEW a \in Nds, NEW b \in Nds \ {a}
  PROVE  \A p : p \in Moved(a, b) <=>
           \E y \in Nds \ {a, b} :
             \/ /\ p = <<b, y>>
                /\ \E e \in DOMAIN edge : edge[e].from = a /\ edge[e].to = y
                /\ \A e \in DOMAIN edge : ~Joins(edge[e], b, y)
             \/ /\ p = <<y, b>>
                /\ \E e \in DOMAIN edge : edge[e].from = y /\ edge[e].to = a
                /\ \A e \in DOMAIN edge : ~Joins(edge[e], y, b)
  <1>1. /\ adj[a].out = {e \in DOMAIN edge : HasEdgeOut(edge[e], a)}
        /\ adj[a].in = {e \in DOMAIN edge : HasEdgeIn(edge[e], a)}
    BY DEF Sound, Exact, Nds
  <1>2. \A e \in DOMAIN edge : edge[e].from \in Nds /\ edge[e].to \in Nds
    BY DEF Sound, WellTyped, Nds
  <1>3. \A x \in Nds, y \in Nds :
          GetEdg(x, y) = {} <=> \A e \in DOMAIN edge : ~Joins(edge[e], x, y)
    BY GetEdgFinds
  <1>4. \A e \in DOMAIN edge : /\ e \in adj[a].out /\ edge[e].from = a <=> edge[e].from = a
                               /\ e \in adj[a].in /\ edge[e].to = a <=> edge[e].to = a
    BY <1>1 DEF HasEdgeOut, HasEdgeIn
  <1> SUFFICES ASSUME NEW p
               PROVE p \in Moved(a, b) <=>
           \E y \in Nds \ {a, b} :
             \/ /\ p = <<b, y>>
                /\ \E e \in DOMAIN edge : edge[e].from = a /\ edge[e].to = y
                /\ \A e \in DOMAIN edge : ~Joins(edge[e], b, y)
             \/ /\ p = <<y, b>>
                /\ \E e \in DOMAIN edge : edge[e].from = y /\ edge[e].to = a
                /\ \A e \in DOMAIN edge : ~Joins(edge[e], y, b)
    OBVIOUS
  <1>5. p \in Moved(a, b) <=>
          \/ \E e \in DOMAIN edge : /\ edge[e].from = a /\ edge[e].to \notin {a, b}
                                    /\ GetEdg(b, edge[e].to) = {} /\ p = <<b, edge[e].to>>
          \/ \E e \in DOMAIN edge : /\ edge[e].to = a /\ edge[e].from \notin {a, b}
                                    /\ GetEdg(edge[e].from, b) = {} /\ p = <<edge[e].from, b>>
    BY <1>1, <1>4 DEF Moved
  <1>6. \A e \in DOMAIN edge : /\ GetEdg(b, edge[e].to) = {} <=> \A f \in DOMAIN edge : ~Joins(edge[f], b, edge[e].to)
                               /\ GetEdg(edge[e].from, b) = {} <=> \A f \in DOMAIN edge : ~Joins(edge[f], edge[e].from, b)
    BY <1>2, <1>3
  <1> QED BY <1>2, <1>5, <1>6

\* mergeNds(a, b) is the destructor of a, run when a new edge for each pair of
\* Moved(a, b) has been entered.
LEMMA Merged ==
  ASSUME Sound(edge, adj), NEW a \in Nds, NEW b \in Nds, MergeNds(a, b)
  PROVE  \E heap, lists :
           /\ Sound(heap, lists) /\ DOMAIN lists = Nds
           /\ edge' = Destroy(a, heap, lists).edge /\ adj' = Destroy(a, heap, lists).adj
           /\ DOMAIN edge \subseteq DOMAIN heap /\ \A e \in DOMAIN edge : heap[e] = edge[e]
           /\ \A e \in DOMAIN heap \ DOMAIN edge : <<heap[e].from, heap[e].to>> \in Moved(a, b)
           /\ \A p \in Moved(a, b) : \E e \in DOMAIN heap : heap[e].from = p[1] /\ heap[e].to = p[2]
  <1> DEFINE newOf(at) == [e \in Range(at) |-> LET p == CHOOSE q \in DOMAIN at : at[q] = e
                                               IN [from |-> p[1], to |-> p[2]]]
             heapOf(new) == [e \in DOMAIN edge \cup DOMAIN new |->
                               IF e \in DOMAIN new THEN new[e] ELSE edge[e]]
  <1>1. b # a
    BY DEF MergeNds
  <1>2. PICK at \in [Moved(a, b) -> EdgeAddrs \ DOMAIN edge] :
          /\ IsInjective(at)
          /\ edge' = Destroy(a, heapOf(newOf(at)), Enter(newOf(at))).edge
          /\ adj' = Destroy(a, heapOf(newOf(at)), Enter(newOf(at))).adj
    BY DEF MergeNds
  <1>3. PICK new : new = newOf(at)
    OBVIOUS
  <1>4. PICK heap : heap = heapOf(new)
    OBVIOUS
  <1>5. /\ edge' = Destroy(a, heap, Enter(new)).edge /\ adj' = Destroy(a, heap, Enter(new)).adj
    BY <1>2, <1>3, <1>4
  <1>6. /\ DOMAIN at = Moved(a, b)
        /\ \A p \in Moved(a, b) : at[p] \in EdgeAddrs \ DOMAIN edge
        /\ \A p, q \in Moved(a, b) : at[p] = at[q] => p = q
    BY <1>2 DEF IsInjective
  <1>7. /\ DOMAIN new = {at[p] : p \in Moved(a, b)}
        /\ \A p \in Moved(a, b) : new[at[p]].from = p[1] /\ new[at[p]].to = p[2]
    <2>1. DOMAIN new = {at[p] : p \in Moved(a, b)}
      BY <1>3, <1>6 DEF Range
    <2> SUFFICES ASSUME NEW p \in Moved(a, b)
                 PROVE  new[at[p]].from = p[1] /\ new[at[p]].to = p[2]
      BY <2>1
    <2>2. (CHOOSE q \in DOMAIN at : at[q] = at[p]) = p
      BY <1>6
    <2>3. at[p] \in Range(at)
      BY <1>6 DEF Range
    <2>4. new[at[p]] = [from |-> p[1], to |-> p[2]]
      BY <1>3, <2>2, <2>3
    <2> QED BY <2>4
  <1>8. /\ DOMAIN heap = DOMAIN edge \cup DOMAIN new
        /\ heap = [e \in DOMAIN edge \cup DOMAIN new |-> IF e \in DOMAIN new THEN new[e] ELSE edge[e]]
        /\ \A e \in DOMAIN new : heap[e] = new[e]
    BY <1>4
  <1> HIDE DEF newOf, heapOf
  <1>9. DOMAIN new \subseteq EdgeAddrs \ DOMAIN edge
    BY <1>6, <1>7
  <1>10. \A e \in DOMAIN edge : heap[e] = edge[e]
    BY <1>8, <1>9
  <1>11. \A p \in Moved(a, b) :
           \E x \in Nds, y \in Nds : /\ p = <<x, y>> /\ x # y
                                     /\ (x = b /\ y \notin {a, b}) \/ (y = b /\ x \notin {a, b})
                                     /\ \A e \in DOMAIN edge : ~Joins(edge[e], x, y)
    BY <1>1, MovedPairs
  <1>12. \A p \in Moved(a, b) :
           \/ p[1] = b /\ p[2] # b /\ \E g \in DOMAIN edge : edge[g].from = a /\ edge[g].to = p[2]
           \/ p[2] = b /\ p[1] # b /\ \E g \in DOMAIN edge : edge[g].from = p[1] /\ edge[g].to = a
    BY <1>1, MovedPairs
  <1>13. new \in [DOMAIN new -> [from : Nds, to : Nds]]
    <2> SUFFICES ASSUME NEW e \in DOMAIN new
                 PROVE  new[e] \in [from : Nds, to : Nds]
      BY <1>3 DEF newOf
    <2>1. PICK p : p = CHOOSE q \in DOMAIN at : at[q] = e
      OBVIOUS
    <2>2. p \in Moved(a, b)
      BY <1>6, <1>7, <2>1
    <2>3. new[e] = [from |-> p[1], to |-> p[2]]
      BY <1>3, <2>1 DEF newOf
    <2>4. p[1] \in Nds /\ p[2] \in Nds
      BY <1>11, <2>2
    <2> QED BY <2>3, <2>4
  <1>14. \A e \in DOMAIN new : \E p \in Moved(a, b) :
           e = at[p] /\ new[e].from = p[1] /\ new[e].to = p[2]
    BY <1>7
  <1>15. \A e \in DOMAIN new, f \in DOMAIN edge :
           ~Joins(new[e], edge[f].from, edge[f].to) /\ ~Joins(edge[f], new[e].from, new[e].to)
    <2> SUFFICES ASSUME NEW e \in DOMAIN new, NEW f \in DOMAIN edge
                 PROVE  ~Joins(new[e], edge[f].from, edge[f].to) /\ ~Joins(edge[f], new[e].from, new[e].to)
      OBVIOUS
    <2>1. PICK p \in Moved(a, b) : new[e].from = p[1] /\ new[e].to = p[2]
      BY <1>14
    <2>2. PICK x \in Nds, y \in Nds : p = <<x, y>> /\ \A g \in DOMAIN edge : ~Joins(edge[g], x, y)
      BY <1>11
    <2> QED BY <2>1, <2>2 DEF Joins
  <1>16. Simple(new)
    <2> SUFFICES ASSUME NEW e \in DOMAIN new, NEW f \in DOMAIN new,
                        Joins(new[e], new[f].from, new[f].to)
                 PROVE  e = f
      BY DEF Simple
    <2>1. PICK p \in Moved(a, b) : e = at[p] /\ new[e].from = p[1] /\ new[e].to = p[2]
      BY <1>14
    <2>2. PICK q \in Moved(a, b) : f = at[q] /\ new[f].from = q[1] /\ new[f].to = q[2]
      BY <1>14
    <2>3. p = <<p[1], p[2]>> /\ q = <<q[1], q[2]>>
      BY <1>11
    <2>4. CASE p[1] = q[1] /\ p[2] = q[2]
      BY <2>1, <2>2, <2>3, <2>4
    <2>5. CASE ~directed /\ p[1] = q[2] /\ p[2] = q[1]
      \* One loop moves <<b, y>>, the other <<y, b>>: a had two edges to y.
      <3>1. PICK y : /\ y \in {p[1], p[2]} \ {a, b}
                     /\ \E g \in DOMAIN edge : edge[g].from = a /\ edge[g].to = y
                     /\ \E g \in DOMAIN edge : edge[g].from = y /\ edge[g].to = a
        BY <1>11, <1>12, <2>5
      <3> QED BY <2>5, <3>1 DEF Sound, Simple, Joins
    <2> QED BY <2>1, <2>2, <2>4, <2>5 DEF Joins
  <1>17. Sound(heap, Enter(new)) /\ DOMAIN Enter(new) = Nds
    BY <1>8, <1>9, <1>13, <1>15, <1>16, EnterSound
  <1>18. \A e \in DOMAIN heap \ DOMAIN edge : <<heap[e].from, heap[e].to>> \in Moved(a, b)
    BY <1>8, <1>11, <1>14
  <1>19. \A p \in Moved(a, b) : \E e \in DOMAIN heap : heap[e].from = p[1] /\ heap[e].to = p[2]
    BY <1>7, <1>8
  <1> WITNESS heap, Enter(new)
  <1> QED BY <1>5, <1>8, <1>10, <1>17, <1>18, <1>19

LEMMA MergeNdsSound ==
  ASSUME GraphInv, NEW a \in Nds, NEW b \in Nds, MergeNds(a, b)
  PROVE  GraphInv'
  <1>1. Sound(edge, adj) /\ directed \in BOOLEAN
    BY SoundIsInv
  <1>2. PICK heap, lists : /\ Sound(heap, lists) /\ DOMAIN lists = Nds
                           /\ edge' = Destroy(a, heap, lists).edge
                           /\ adj' = Destroy(a, heap, lists).adj
    BY <1>1, Merged
  <1>3. Sound(edge', adj')
    BY <1>2, DestroySound
  <1> QED BY <1>1, <1>3, SoundNext DEF MergeNds

\* GraphInv is inductive: DirGraph and UndirGraph stay sound under any
\* sequence of operations, for any numbers of nodes and edges.
THEOREM GraphSound == GraphSpec => []GraphInv
  <1>1. GraphInv /\ [GraphNext]_graphVars => GraphInv'
    <2> SUFFICES ASSUME GraphInv, [GraphNext]_graphVars PROVE GraphInv'
      OBVIOUS
    <2>1. ASSUME NEW n \in NodeAddrs, AddNd(n) PROVE GraphInv'
      BY <2>1, AddNdSound
    <2>2. ASSUME NEW n \in NodeAddrs, DelNd(n) PROVE GraphInv'
      BY <2>2, DelNdSound
    <2>3. ASSUME NEW a \in Nds, NEW b \in Nds, DelEdg(a, b) PROVE GraphInv'
      BY <2>3, DelEdgSound
    <2>4. ASSUME NEW a \in Nds, NEW b \in Nds, MergeNds(a, b) PROVE GraphInv'
      BY <2>4, MergeNdsSound
    <2>5. ASSUME NEW a \in Nds, NEW b \in Nds, NEW e \in EdgeAddrs, AddEdg(a, b, e) PROVE GraphInv'
      BY <2>5, AddEdgSound
    <2>6. CASE UNCHANGED graphVars
      BY <2>6 DEF graphVars, GraphInv, GraphTypeOK, ListsExact, OneEdge, Nds, HasEdgeOut, HasEdgeIn
    <2> QED BY <2>1, <2>2, <2>3, <2>4, <2>5, <2>6 DEF GraphNext
  <1> QED BY <1>1, InitSound, PTL DEF GraphSpec

-----------------------------------------------------------------------------
(* What a merge does. *)

\* The neighbours of a node are those the edges on the heap join it with.
LEMMA Neighbours ==
  ASSUME GraphInv, NEW n \in Nds
  PROVE  /\ \A m : m \in Succ(n) <=> \E e \in DOMAIN edge : Joins(edge[e], n, m)
         /\ \A m : m \in Pred(n) <=> \E e \in DOMAIN edge : Joins(edge[e], m, n)
  <1>1. /\ adj[n].out = {e \in DOMAIN edge : HasEdgeOut(edge[e], n)}
        /\ adj[n].in = {e \in DOMAIN edge : HasEdgeIn(edge[e], n)}
    BY DEF GraphInv, ListsExact
  <1>2. ASSUME NEW m
        PROVE m \in Succ(n) <=> \E e \in DOMAIN edge : Joins(edge[e], n, m)
    BY <1>1 DEF Succ, GetOtherNd, HasEdgeOut, Joins
  <1>3. ASSUME NEW m
        PROVE m \in Pred(n) <=> \E e \in DOMAIN edge : Joins(edge[e], m, n)
    BY <1>1 DEF Pred, GetOtherNd, HasEdgeIn, Joins
  <1> QED BY <1>2, <1>3

\* The same, of the graph after a step.
LEMMA NeighboursNext ==
  ASSUME GraphInv', directed' = directed, NEW n \in Nds'
  PROVE  /\ \A m : m \in Succ(n)' <=> \E e \in DOMAIN edge' : Joins(edge'[e], n, m)
         /\ \A m : m \in Pred(n)' <=> \E e \in DOMAIN edge' : Joins(edge'[e], m, n)
  <1>1. /\ adj'[n].out = {e \in DOMAIN edge' : HasEdgeOut(edge'[e], n)}
        /\ adj'[n].in = {e \in DOMAIN edge' : HasEdgeIn(edge'[e], n)}
    BY DEF GraphInv, ListsExact, HasEdgeOut, HasEdgeIn
  <1>2. ASSUME NEW m
        PROVE m \in Succ(n)' <=> \E e \in DOMAIN edge' : Joins(edge'[e], n, m)
    BY <1>1 DEF Succ, GetOtherNd, HasEdgeOut, Joins
  <1>3. ASSUME NEW m
        PROVE m \in Pred(n)' <=> \E e \in DOMAIN edge' : Joins(edge'[e], m, n)
    BY <1>1 DEF Pred, GetOtherNd, HasEdgeIn, Joins
  <1> QED BY <1>2, <1>3

\* Which nodes a merge leaves joined.
LEMMA MergedJoins ==
  ASSUME GraphInv, NEW a \in Nds, NEW b \in Nds, MergeNds(a, b)
  PROVE  \A n, m : (\E e \in DOMAIN edge' : Joins(edge'[e], n, m)) <=>
           /\ n # a /\ m # a
           /\ \/ \E e \in DOMAIN edge : Joins(edge[e], n, m)
              \/ n = b /\ m # b /\ \E e \in DOMAIN edge : Joins(edge[e], a, m)
              \/ m = b /\ n # b /\ \E e \in DOMAIN edge : Joins(edge[e], n, a)
  <1>1. Sound(edge, adj) /\ b # a
    BY SoundIsInv DEF MergeNds
  <1>2. PICK heap, lists :
          /\ Sound(heap, lists) /\ DOMAIN lists = Nds
          /\ edge' = Destroy(a, heap, lists).edge /\ adj' = Destroy(a, heap, lists).adj
          /\ DOMAIN edge \subseteq DOMAIN heap /\ \A e \in DOMAIN edge : heap[e] = edge[e]
          /\ \A e \in DOMAIN heap \ DOMAIN edge : <<heap[e].from, heap[e].to>> \in Moved(a, b)
          /\ \A p \in Moved(a, b) : \E e \in DOMAIN heap : heap[e].from = p[1] /\ heap[e].to = p[2]
    BY <1>1, Merged
  <1>3. /\ DOMAIN edge' = {e \in DOMAIN heap : heap[e].from # a /\ heap[e].to # a}
        /\ \A e \in DOMAIN edge' : edge'[e] = heap[e]
    BY <1>2, DestroySound
  <1>4. \A e \in DOMAIN edge : edge[e].from \in Nds /\ edge[e].to \in Nds
    BY <1>1 DEF Sound, WellTyped, Nds
  <1>5. \A x, y : <<x, y>> \in Moved(a, b) =>
          /\ x # a /\ y # a
          /\ \/ x = b /\ y # b /\ \E g \in DOMAIN edge : edge[g].from = a /\ edge[g].to = y
             \/ y = b /\ x # b /\ \E g \in DOMAIN edge : edge[g].from = x /\ edge[g].to = a
    BY <1>1, MovedPairs
  <1> SUFFICES ASSUME NEW n, NEW m
               PROVE (\E e \in DOMAIN edge' : Joins(edge'[e], n, m)) <=>
           /\ n # a /\ m # a
           /\ \/ \E e \in DOMAIN edge : Joins(edge[e], n, m)
              \/ n = b /\ m # b /\ \E e \in DOMAIN edge : Joins(edge[e], a, m)
              \/ m = b /\ n # b /\ \E e \in DOMAIN edge : Joins(edge[e], n, a)
    OBVIOUS
  <1>6. (\E e \in DOMAIN edge' : Joins(edge'[e], n, m)) <=>
          n # a /\ m # a /\ \E e \in DOMAIN heap : Joins(heap[e], n, m)
    BY <1>3 DEF Joins
  <1>7. ASSUME n # a, m # a, NEW e \in DOMAIN heap, Joins(heap[e], n, m)
        PROVE  \/ \E f \in DOMAIN edge : Joins(edge[f], n, m)
               \/ n = b /\ m # b /\ \E f \in DOMAIN edge : Joins(edge[f], a, m)
               \/ m = b /\ n # b /\ \E f \in DOMAIN edge : Joins(edge[f], n, a)
    <2>1. CASE e \in DOMAIN edge
      BY <1>2, <1>7, <2>1
    <2>2. CASE e \notin DOMAIN edge
      <3>1. PICK x, y : x = heap[e].from /\ y = heap[e].to
        OBVIOUS
      <3>2. <<x, y>> \in Moved(a, b)
        BY <1>2, <2>2, <3>1
      <3>3. \/ x = b /\ y # b /\ \E g \in DOMAIN edge : edge[g].from = a /\ edge[g].to = y
            \/ y = b /\ x # b /\ \E g \in DOMAIN edge : edge[g].from = x /\ edge[g].to = a
        BY <1>5, <3>2
      <3>4. (x = n /\ y = m) \/ (~directed /\ x = m /\ y = n)
        BY <1>7, <3>1 DEF Joins
      <3> QED BY <3>3, <3>4 DEF Joins
    <2> QED BY <2>1, <2>2
  <1>8. ASSUME n # a, m # a, NEW f \in DOMAIN edge, Joins(edge[f], n, m)
        PROVE  \E e \in DOMAIN heap : Joins(heap[e], n, m)
    BY <1>2, <1>8
  \* The edges of a to and from a third node are there for b as well.
  <1>9. ASSUME NEW y \in Nds \ {a, b}, NEW g \in DOMAIN edge, edge[g].from = a, edge[g].to = y
        PROVE  \E e \in DOMAIN heap : Joins(heap[e], b, y)
    <2>1. CASE \E e \in DOMAIN edge : Joins(edge[e], b, y)
      BY <1>2, <2>1
    <2>2. CASE \A e \in DOMAIN edge : ~Joins(edge[e], b, y)
      <3>1. <<b, y>> \in Moved(a, b)
        BY <1>1, <1>9, <2>2, MovedPairs
      <3> QED BY <1>2, <3>1 DEF Joins
    <2> QED BY <2>1, <2>2
  <1>10. ASSUME NEW y \in Nds \ {a, b}, NEW g \in DOMAIN edge, edge[g].from = y, edge[g].to = a
         PROVE  \E e \in DOMAIN heap : Joins(heap[e], y, b)
    <2>1. CASE \E e \in DOMAIN edge : Joins(edge[e], y, b)
      BY <1>2, <2>1
    <2>2. CASE \A e \in DOMAIN edge : ~Joins(edge[e], y, b)
      <3>1. <<y, b>> \in Moved(a, b)
        BY <1>1, <1>10, <2>2, MovedPairs
      <3> QED BY <1>2, <3>1 DEF Joins
    <2> QED BY <2>1, <2>2
  <1>11. ASSUME n = b, m \notin {a, b}, NEW f \in DOMAIN edge, Joins(edge[f], a, m)
         PROVE  \E e \in DOMAIN heap : Joins(heap[e], n, m)
    <2>1. m \in Nds \ {a, b}
      BY <1>4, <1>11 DEF Joins
    <2> QED BY <1>9, <1>10, <1>11, <2>1 DEF Joins
  <1>12. ASSUME m = b, n \notin {a, b}, NEW f \in DOMAIN edge, Joins(edge[f], n, a)
         PROVE  \E e \in DOMAIN heap : Joins(heap[e], n, m)
    <2>1. n \in Nds \ {a, b}
      BY <1>4, <1>12 DEF Joins
    <2> QED BY <1>9, <1>10, <1>12, <2>1 DEF Joins
  <1> QED BY <1>6, <1>7, <1>8, <1>11, <1>12

\* A merge moves the edges of the merged node to the other, and no others.
THEOREM MergesMove == GraphSpec => MergeMoves
  <1>1. ASSUME GraphInv, GraphInv', [GraphNext]_graphVars,
               NEW a \in NodeAddrs, NEW b \in NodeAddrs, MergeNds(a, b)
        PROVE  /\ Succ(b)' = (Succ(a) \cup Succ(b)) \ (IF b \in Succ(b) THEN {a} ELSE {a, b})
               /\ Pred(b)' = (Pred(a) \cup Pred(b)) \ (IF b \in Pred(b) THEN {a} ELSE {a, b})
               /\ \A n, m \in Nds \ {a, b} : (m \in Succ(n)) <=> (m \in Succ(n)')
    <2>1. a \in Nds /\ b \in Nds /\ a # b /\ directed' = directed
      BY <1>1 DEF MergeNds
    <2>2. Nds' = Nds \ {a}
      <3>1. Sound(edge, adj)
        BY <1>1, SoundIsInv
      <3>2. PICK heap, lists : /\ Sound(heap, lists) /\ DOMAIN lists = Nds
                               /\ adj' = Destroy(a, heap, lists).adj
        BY <1>1, <2>1, <3>1, Merged
      <3> QED BY <2>1, <3>2, DestroySound DEF Nds
    <2>3. \A n \in Nds :
            /\ \A m : m \in Succ(n) <=> \E e \in DOMAIN edge : Joins(edge[e], n, m)
            /\ \A m : m \in Pred(n) <=> \E e \in DOMAIN edge : Joins(edge[e], m, n)
      BY <1>1, Neighbours
    <2>4. ASSUME NEW n \in Nds'
          PROVE  /\ \A m : m \in Succ(n)' <=> \E e \in DOMAIN edge' : Joins(edge'[e], n, m)
                 /\ \A m : m \in Pred(n)' <=> \E e \in DOMAIN edge' : Joins(edge'[e], m, n)
      BY <1>1, <2>1, NeighboursNext
    <2>5. \A n, m : (\E e \in DOMAIN edge' : Joins(edge'[e], n, m)) <=>
            /\ n # a /\ m # a
            /\ \/ \E e \in DOMAIN edge : Joins(edge[e], n, m)
               \/ n = b /\ m # b /\ \E e \in DOMAIN edge : Joins(edge[e], a, m)
               \/ m = b /\ n # b /\ \E e \in DOMAIN edge : Joins(edge[e], n, a)
      BY <1>1, <2>1, MergedJoins, ZenonT(60)
    <2>6. b \in Nds'
      BY <2>1, <2>2
    <2>7. ASSUME NEW m
          PROVE m \in Succ(b)' <=> m \in (Succ(a) \cup Succ(b)) \ (IF b \in Succ(b) THEN {a} ELSE {a, b})
      BY <2>1, <2>3, <2>4, <2>5, <2>6
    <2>8. ASSUME NEW m
          PROVE m \in Pred(b)' <=> m \in (Pred(a) \cup Pred(b)) \ (IF b \in Pred(b) THEN {a} ELSE {a, b})
      BY <2>1, <2>3, <2>4, <2>5, <2>6
    <2>9. ASSUME NEW n \in Nds \ {a, b}, NEW m \in Nds \ {a, b}
          PROVE m \in Succ(n) <=> m \in Succ(n)'
      BY <2>2, <2>3, <2>4, <2>5
    <2> QED BY <2>7, <2>8, <2>9
  <1>2. GraphInv /\ GraphInv' /\ [GraphNext]_graphVars =>
          [\A a, b \in NodeAddrs : MergeNds(a, b) =>
             /\ Succ(b)' = (Succ(a) \cup Succ(b)) \ (IF b \in Succ(b) THEN {a} ELSE {a, b})
             /\ Pred(b)' = (Pred(a) \cup Pred(b)) \ (IF b \in Pred(b) THEN {a} ELSE {a, b})
             /\ \A n, m \in Nds \ {a, b} : (m \in Succ(n)) <=> (m \in Succ(n)')]_graphVars
    BY <1>1
  <1> QED BY <1>2, GraphSound, PTL DEF GraphSpec, MergeMoves

-----------------------------------------------------------------------------
(* connectedComponents. *)

\* The nodes joined to n by an edge of ok.
Near(n, ok) == {GetOtherNd(edge[e], n) : e \in adj[n].out \cap ok}

\* A graph connectedComponents is called with.
Searched(ok) == GraphInv /\ ~directed /\ IsFiniteSet(Nds) /\ ok \in SUBSET DOMAIN edge

\* An edge of ok is found from both of its ends.
LEMMA NearIs ==
  ASSUME NEW ok, Searched(ok), NEW n \in Nds
  PROVE  /\ Near(n, ok) \in SUBSET Nds
         /\ \A m : m \in Near(n, ok) <=>
                     \E e \in ok : \/ edge[e].from = n /\ edge[e].to = m
                                   \/ edge[e].from = m /\ edge[e].to = n
  <1>1. adj[n].out = {e \in DOMAIN edge : edge[e].from = n \/ edge[e].to = n}
    BY DEF Searched, GraphInv, ListsExact, HasEdgeOut
  <1>2. \A e \in ok : edge[e].from \in Nds /\ edge[e].to \in Nds /\ e \in DOMAIN edge
    BY DEF Searched, GraphInv, GraphTypeOK
  <1> QED BY <1>1, <1>2 DEF Near, GetOtherNd

LEMMA NearBack ==
  ASSUME NEW ok, Searched(ok), NEW n \in Nds, NEW m \in Near(n, ok)
  PROVE  m \in Nds /\ n \in Near(m, ok)
  BY NearIs

LEMMA ApartIs ==
  ASSUME NEW ok, Searched(ok), NEW S \in SUBSET Nds
  PROVE  Apart(S, ok) <=> \A n \in S : Near(n, ok) \subseteq S
  <1>1. \A e \in ok : edge[e].from \in Nds /\ edge[e].to \in Nds
    BY DEF Searched, GraphInv, GraphTypeOK
  <1>2. ASSUME Apart(S, ok), NEW n \in S PROVE Near(n, ok) \subseteq S
    BY <1>2, NearIs DEF Apart
  <1>3. ASSUME \A n \in S : Near(n, ok) \subseteq S, NEW e \in ok
        PROVE  edge[e].from \in S <=> edge[e].to \in S
    <2>1. edge[e].to \in Near(edge[e].from, ok) /\ edge[e].from \in Near(edge[e].to, ok)
      BY <1>1, NearIs
    <2> QED BY <1>3, <2>1
  <1> QED BY <1>2, <1>3 DEF Apart

LEMMA RestApart ==
  ASSUME NEW ok, Searched(ok), NEW S \in SUBSET Nds, Apart(S, ok)
  PROVE  Apart(Nds \ S, ok)
  <1>1. \A e \in ok : edge[e].from \in Nds /\ edge[e].to \in Nds
    BY DEF Searched, GraphInv, GraphTypeOK
  <1> QED BY <1>1 DEF Apart

\* To be linked is an equivalence, and its classes have no edges between them.
LEMMA LinkedIs ==
  ASSUME NEW ok, Searched(ok), NEW n \in Nds
  PROVE  /\ n \in Linked(n, ok)
         /\ Linked(n, ok) \in SUBSET Nds
         /\ Apart(Linked(n, ok), ok)
         /\ \A m \in Linked(n, ok) : Linked(m, ok) = Linked(n, ok)
  <1>1. n \in Linked(n, ok) /\ Linked(n, ok) \in SUBSET Nds
    BY DEF Linked
  <1>2. Apart(Linked(n, ok), ok)
    <2>1. ASSUME NEW m \in Linked(n, ok), NEW x \in Near(m, ok) PROVE x \in Linked(n, ok)
      <3>1. m \in Nds /\ x \in Nds BY <1>1, <2>1, NearBack
      <3>2. ASSUME NEW S \in SUBSET Nds, Apart(S, ok), n \in S PROVE x \in S
        <4>1. m \in S BY <3>2, <2>1 DEF Linked
        <4> QED BY <3>2, <4>1, <2>1, ApartIs
      <3> QED BY <3>1, <3>2 DEF Linked
    <2> QED BY <1>1, <2>1, ApartIs
  <1>3. ASSUME NEW m \in Linked(n, ok) PROVE Linked(m, ok) = Linked(n, ok)
    <2>1. ASSUME NEW S \in SUBSET Nds, Apart(S, ok) PROVE m \in S <=> n \in S
      <3>1. n \in S => m \in S BY <2>1 DEF Linked
      <3>2. n \in Nds \ S => m \in Nds \ S
        <4>1. Apart(Nds \ S, ok) BY <2>1, RestApart
        <4> QED BY <4>1 DEF Linked
      <3> QED BY <3>1, <3>2
    <2> QED BY <2>1 DEF Linked
  <1> QED BY <1>1, <1>2, <1>3

\* A union of classes has no edges to the rest.
LEMMA ClassesApart ==
  ASSUME NEW ok, Searched(ok), NEW C, \A c \in C : \E n \in Nds : c = Linked(n, ok)
  PROVE  UNION C \in SUBSET Nds /\ Apart(UNION C, ok)
  <1>1. UNION C \in SUBSET Nds BY LinkedIs
  <1>2. ASSUME NEW c \in C, NEW m \in c PROVE Near(m, ok) \subseteq UNION C
    <2>1. PICK n \in Nds : c = Linked(n, ok) OBVIOUS
    <2>2. c \in SUBSET Nds /\ Apart(c, ok) BY <2>1, LinkedIs
    <2>3. Near(m, ok) \subseteq c BY <2>2, ApartIs
    <2> QED BY <2>3
  <1>3. \A m \in UNION C : Near(m, ok) \subseteq UNION C BY <1>2
  <1> QED BY <1>1, <1>3, ApartIs

\* SetToSeq lists a finite set, each element once.
LEMMA Listed ==
  ASSUME NEW S, IsFiniteSet(S)
  PROVE  /\ SetToSeq(S) \in Seq(S) /\ Len(SetToSeq(S)) = Cardinality(S)
         /\ Cardinality(S) \in Nat
         /\ \A x \in S : \E i \in 1..Len(SetToSeq(S)) : SetToSeq(S)[i] = x
  <1> DEFINE N == Cardinality(S)
             f == SetToSeq(S)
  <1>1. N \in Nat /\ ExistsBijection(1..N, S) BY FS_CardinalityType
  <1>2. PICK g \in [1..N -> S] : IsInjective(g)
    BY <1>1 DEF ExistsBijection, Bijection, Injection
  <1>3. f \in [1..N -> S] /\ IsInjective(f) BY <1>2 DEF SetToSeq
  <1> HIDE DEF f
  <1>4. f \in Seq(S) /\ Len(f) = N BY <1>1, <1>3
  <1>5. ASSUME NEW x \in S, \A i \in 1..N : f[i] # x PROVE FALSE
    <2>1. f \in Injection(1..N, S \ {x}) BY <1>3, <1>5 DEF Injection
    <2>2. IsFiniteSet(S \ {x}) /\ Cardinality(S \ {x}) = N - 1 BY FS_RemoveElement
    <2>3. IsFiniteSet(1..N) /\ Cardinality(1..N) = N
      <3>1. 1 \in Int /\ N \in Int BY <1>1
      <3> QED BY <1>1, <3>1, FS_Interval
    <2>4. Cardinality(1..N) <= Cardinality(S \ {x}) BY <2>1, <2>2, FS_Injection
    <2> QED BY <1>1, <2>2, <2>3, <2>4
  <1>6. \A x \in S : \E i \in 1..N : f[i] = x BY <1>5
  <1> QED BY <1>1, <1>4, <1>6 DEF f

-----------------------------------------------------------------------------
(* The while loop: what is in the component, on the stack and visited, and *)
(* how many rounds are left.                                               *)

OnStack(q, x, i) == \E j \in i..Len(q) : q[j] = x

\* The search from n, when `seen` was visited before it: a node on the stack
\* that was visited since it was pushed has no neighbour left, or has them
\* above it.
InPart(s, n, seen, ok) ==
  /\ s \in [q : Seq(Nds), comp : SUBSET Nds, visited : SUBSET Nds]
  /\ s.visited = seen \cup s.comp
  /\ s.comp \subseteq Linked(n, ok)
  /\ \A i \in 1..Len(s.q) : s.q[i] \in Linked(n, ok)
  /\ n \in s.comp \/ OnStack(s.q, n, 1)
  /\ \A m \in s.comp : \A x \in Near(m, ok) : x \in s.visited \/ OnStack(s.q, x, 1)
  /\ \A i \in 1..Len(s.q) : s.q[i] \in s.visited =>
       \A x \in Near(s.q[i], ok) : x \in s.visited \/ OnStack(s.q, x, i + 1)

RoundsLeft(s) == Cardinality(Nds \ s.visited) * Cardinality(Nds) + Len(s.q)

LEMMA Times ==
  ASSUME NEW a \in Nat, NEW b \in Nat, NEW c \in Nat
  PROVE  /\ a * c \in Nat
         /\ a <= b => a * c <= b * c
         /\ a = b - 1 => a * c = b * c - c
  OBVIOUS

\* A round keeps InPart, and leaves one less.
LEMMA VisitInPart ==
  ASSUME NEW ok, Searched(ok), NEW n \in Nds, NEW seen,
         NEW s, InPart(s, n, seen, ok), s.q # <<>>
  PROVE  /\ InPart(Visit(s, ok), n, seen, ok)
         /\ RoundsLeft(Visit(s, ok)) \in Nat /\ RoundsLeft(s) \in Nat
         /\ RoundsLeft(Visit(s, ok)) < RoundsLeft(s)
  <1> DEFINE q == s.q
             cur == Last(q)
             visited == s.visited \cup {cur}
             next == NextNodes(cur, visited, ok)
             more == SetToSeq(next)
             t == Visit(s, ok)
             front == Front(q)
             r == front \o more
             F == Len(q) - 1
  <1>1. q \in Seq(Nds) /\ s.comp \in SUBSET Nds /\ s.visited \in SUBSET Nds
    BY DEF InPart
  <1>2. /\ Len(q) \in Nat /\ Len(q) >= 1 /\ cur = q[Len(q)] /\ cur \in Nds
        /\ front \in Seq(Nds) /\ Len(front) = F
        /\ \A i \in 1..F : front[i] = q[i]
        /\ F \in Nat /\ Len(q) = F + 1
    <2>1. /\ Len(q) \in Nat \ {0} /\ cur = q[Len(q)] /\ cur \in Nds
          /\ front \in Seq(Nds) /\ Len(front) = F
          /\ \A i \in 1..F : front[i] = q[i]
      BY <1>1, FrontIs
    <2> QED BY <2>1
  <1>3. next = Near(cur, ok) \ visited /\ next \in SUBSET Nds /\ IsFiniteSet(next)
        /\ IsFiniteSet(Nds)
    <2>1. next = Near(cur, ok) \ visited BY DEF NextNodes, Near
    <2>2. next \in SUBSET Nds BY <2>1, <1>2, NearIs
    <2>3. IsFiniteSet(Nds) BY DEF Searched
    <2> QED BY <2>1, <2>2, <2>3, FS_Subset
  <1>4. /\ t = [q |-> r, comp |-> s.comp \cup {cur}, visited |-> visited]
        /\ t.q = r /\ t.comp = s.comp \cup {cur} /\ t.visited = visited
    BY DEF Visit
  <1> HIDE DEF next, visited, t, F
  <1>5. /\ more \in Seq(next) /\ more \in Seq(Nds) /\ Len(more) = Cardinality(next)
        /\ \A x \in next : \E i \in 1..Len(more) : more[i] = x
        /\ \A i \in 1..Len(more) : more[i] \in next
    <2>1. /\ more \in Seq(next) /\ Len(more) = Cardinality(next)
          /\ \A x \in next : \E i \in 1..Len(more) : more[i] = x
      BY <1>3, Listed
    <2> HIDE DEF more
    <2>2. \A i \in 1..Len(more) : more[i] \in next BY <2>1
    <2>3. more \in Seq(Nds) BY <2>1, <1>3, SeqMonotonic
    <2> QED BY <2>1, <2>2, <2>3
  <1> HIDE DEF more, front
  <1>6. /\ r \in Seq(Nds) /\ Len(r) = F + Len(more) /\ F \in Nat /\ Len(more) \in Nat
        /\ \A i \in 1..F : r[i] = q[i]
        /\ \A i \in 1..Len(more) : r[F + i] = more[i]
    <2>1. r \in Seq(Nds) /\ Len(r) = F + Len(more) /\ F \in Nat /\ Len(more) \in Nat
      <3>0. front \in Seq(Nds) /\ more \in Seq(Nds) BY <1>2, <1>5
      <3>1. r \in Seq(Nds) /\ Len(r) = Len(front) + Len(more) BY ONLY <3>0, ConcatProperties
      <3>2. Len(more) \in Nat BY <1>5, LenProperties
      <3> QED BY <3>1, <3>2, <1>2
    <2>2. \A i \in 1..F : r[i] = q[i]
      <3> SUFFICES ASSUME NEW i \in 1..F PROVE r[i] = q[i] OBVIOUS
      <3>1. r[i] = front[i] BY <1>2, <1>5, <2>1, ConcatProperties
      <3> QED BY <3>1, <1>2
    <2>3. \A i \in 1..Len(more) : r[F + i] = more[i]
      <3> SUFFICES ASSUME NEW i \in 1..Len(more) PROVE r[F + i] = more[i] OBVIOUS
      <3>1. F + i \in 1..(F + Len(more)) /\ F + i > F BY <2>1
      <3>2. ~ (F + i <= F) /\ (F + i) - F = i BY <1>2, <2>1
      <3>3. r[F + i] = more[(F + i) - F] BY <1>2, <1>5, <3>1, <3>2, ConcatProperties
      <3> QED BY <3>2, <3>3
    <2> QED BY <2>1, <2>2, <2>3
  <1> HIDE DEF r
  <1>7. \A i \in 1..Len(r) : i \in 1..F \/ (i > F /\ r[i] \in next)
    <2> SUFFICES ASSUME NEW i \in 1..Len(r), i \notin 1..F PROVE i > F /\ r[i] \in next
      OBVIOUS
    <2>1. i > F /\ i - F \in 1..Len(more) /\ F + (i - F) = i BY <1>6
    <2>2. r[i] = more[i - F] BY <2>1, <1>6
    <2> QED BY <2>1, <2>2, <1>5
  \* What was above i is visited or still above it.
  <1>8. ASSUME NEW i \in 1..Len(q), NEW x, OnStack(q, x, i)
        PROVE  x \in visited \/ OnStack(r, x, i)
    <2>1. PICK j \in i..Len(q) : q[j] = x BY <1>8 DEF OnStack
    <2>2. CASE j = Len(q) BY <2>1, <2>2, <1>2 DEF visited
    <2>3. CASE j # Len(q)
      <3>1. j \in 1..F /\ j \in i..Len(r) BY <2>3, <1>2, <1>6
      <3> QED BY <3>1, <2>1, <1>6 DEF OnStack
    <2> QED BY <2>2, <2>3
  <1>9. ASSUME NEW x \in Near(cur, ok), NEW i \in 1..Len(q)
        PROVE  x \in visited \/ OnStack(r, x, i)
    <2> SUFFICES ASSUME x \notin visited PROVE OnStack(r, x, i) OBVIOUS
    <2>1. x \in next BY <1>3
    <2>2. PICK j \in 1..Len(more) : more[j] = x BY <2>1, <1>5
    <2>3. F + j \in i..Len(r) /\ r[F + j] = x BY <2>2, <1>6, <1>2
    <2> QED BY <2>3 DEF OnStack
  <1>10. cur \in Linked(n, ok)
    <2>1. Len(q) \in 1..Len(q) BY <1>2
    <2> QED BY <2>1, <1>2 DEF InPart
  <1>11. next \subseteq Linked(n, ok)
    <2>1. Apart(Linked(n, ok), ok) /\ Linked(n, ok) \in SUBSET Nds BY LinkedIs
    <2>2. Near(cur, ok) \subseteq Linked(n, ok) BY <2>1, <1>10, ApartIs
    <2> QED BY <2>2, <1>3
  <1>12. 1 \in 1..Len(q) BY <1>2
  <1>13. InPart(t, n, seen, ok)
    <2>1. t \in [q : Seq(Nds), comp : SUBSET Nds, visited : SUBSET Nds]
      <3>1. visited \in SUBSET Nds /\ s.comp \cup {cur} \in SUBSET Nds
        BY <1>1, <1>2 DEF visited
      <3> QED BY <3>1, <1>4, <1>6
    <2>2. t.visited = seen \cup t.comp
      <3>1. s.visited = seen \cup s.comp BY DEF InPart
      <3> HIDE DEF cur
      <3> QED BY <3>1, <1>4 DEF visited
    <2>3. t.comp \subseteq Linked(n, ok) BY <1>4, <1>10 DEF InPart
    <2>4. \A i \in 1..Len(t.q) : t.q[i] \in Linked(n, ok)
      <3> SUFFICES ASSUME NEW i \in 1..Len(r) PROVE r[i] \in Linked(n, ok) BY <1>4
      <3>1. CASE i \in 1..F
        <4>1. r[i] = q[i] /\ i \in 1..Len(q) BY <3>1, <1>6, <1>2
        <4> QED BY <4>1 DEF InPart
      <3>2. CASE r[i] \in next BY <3>2, <1>11
      <3> QED BY <3>1, <3>2, <1>7
    <2>5. n \in t.comp \/ OnStack(t.q, n, 1)
      <3>1. CASE n \in s.comp BY <3>1, <1>4
      <3>2. CASE OnStack(q, n, 1)
        <4>1. PICK j \in 1..Len(q) : q[j] = n BY <3>2 DEF OnStack
        <4>2. CASE j = Len(q) BY <4>1, <4>2, <1>2, <1>4
        <4>3. CASE j # Len(q)
          <5>1. j \in 1..F /\ j \in 1..Len(r) BY <4>3, <1>2, <1>6
          <5> QED BY <5>1, <4>1, <1>4, <1>6 DEF OnStack
        <4> QED BY <4>2, <4>3
      <3> QED BY <3>1, <3>2 DEF InPart
    <2>6. \A m \in t.comp : \A x \in Near(m, ok) : x \in t.visited \/ OnStack(t.q, x, 1)
      <3> SUFFICES ASSUME NEW m \in s.comp \cup {cur}, NEW x \in Near(m, ok)
                   PROVE  x \in visited \/ OnStack(r, x, 1)
        BY <1>4
      <3>1. CASE m = cur BY <3>1, <1>9, <1>12
      <3>2. CASE m \in s.comp
        <4>1. x \in s.visited \/ OnStack(q, x, 1) BY <3>2 DEF InPart
        <4> QED BY <4>1, <1>8, <1>12 DEF visited
      <3> QED BY <3>1, <3>2
    <2>7. \A i \in 1..Len(t.q) : t.q[i] \in t.visited =>
            \A x \in Near(t.q[i], ok) : x \in t.visited \/ OnStack(t.q, x, i + 1)
      <3> SUFFICES ASSUME NEW i \in 1..Len(r), r[i] \in visited, NEW x \in Near(r[i], ok)
                   PROVE  x \in visited \/ OnStack(r, x, i + 1)
        BY <1>4
      <3>1. i \in 1..F BY <1>7, <1>3
      <3>2. r[i] = q[i] /\ i \in 1..Len(q) /\ i + 1 \in 1..Len(q) BY <3>1, <1>6, <1>2
      <3>3. CASE q[i] = cur BY <3>2, <3>3, <1>9
      <3>4. CASE q[i] \in s.visited
        <4>1. x \in s.visited \/ OnStack(q, x, i + 1) BY <3>2, <3>4 DEF InPart
        <4> QED BY <4>1, <3>2, <1>8 DEF visited
      <3> QED BY <3>2, <3>3, <3>4 DEF visited
    <2> QED BY <2>1, <2>2, <2>3, <2>4, <2>5, <2>6, <2>7 DEF InPart
  <1>14. RoundsLeft(t) \in Nat /\ RoundsLeft(s) \in Nat /\ RoundsLeft(t) < RoundsLeft(s)
    <2> DEFINE N == Cardinality(Nds)
               W == Cardinality(Nds \ s.visited)
               V == Cardinality(Nds \ visited)
               M == Cardinality(next)
    <2>1. N \in Nat /\ W \in Nat /\ V \in Nat /\ M \in Nat /\ M <= N
      <3>1. IsFiniteSet(Nds \ s.visited) /\ IsFiniteSet(Nds \ visited) BY <1>3, FS_Difference
      <3>2. M <= N BY <1>3, FS_Subset
      <3> QED BY <1>3, <3>1, <3>2, FS_CardinalityType
    <2>2. RoundsLeft(s) = W * N + Len(q) BY DEF RoundsLeft
    <2>3. RoundsLeft(t) = V * N + (F + M) BY <1>4, <1>5, <1>6 DEF RoundsLeft
    <2>4. W * N \in Nat /\ V * N \in Nat BY <2>1, Times
    <2>5. CASE cur \in s.visited
      <3>1. visited = s.visited BY <2>5 DEF visited
      <3>2. next = {}
        <4>1. Len(q) \in 1..Len(q) BY <1>2
        <4>2. \A x : ~OnStack(q, x, Len(q) + 1) BY <1>2 DEF OnStack
        <4>3. \A x \in Near(cur, ok) : x \in s.visited BY <2>5, <4>1, <4>2, <1>2 DEF InPart
        <4> QED BY <4>3, <3>1, <1>3
      <3>3. M = 0 BY <3>2, FS_EmptySet
      <3> QED BY <3>1, <3>3, <2>2, <2>3, <2>4, <1>2
    <2>6. CASE cur \notin s.visited
      <3>1. Nds \ visited = (Nds \ s.visited) \ {cur} /\ cur \in Nds \ s.visited
        BY <2>6, <1>2 DEF visited
      <3>2. IsFiniteSet(Nds \ s.visited) BY <1>3, FS_Difference
      <3>3. V = W - 1 BY <3>1, <3>2, FS_RemoveElement, ZenonT(60)
      <3> HIDE DEF V, W, N, M
      <3>4. V * N = W * N - N BY <3>3, <2>1, Times
      <3> DEFINE wn == W * N
                 vn == V * N
      <3> HIDE DEF wn, vn
      <3>5. wn \in Nat /\ vn \in Nat /\ vn = wn - N BY <2>4, <3>4 DEF wn, vn
      <3>6. RoundsLeft(s) = wn + Len(q) /\ RoundsLeft(t) = vn + (F + M)
        BY <2>2, <2>3 DEF wn, vn
      <3> QED BY <3>5, <3>6, <2>1, <1>2, SMTT(60)
    <2> QED BY <2>5, <2>6
  <1> QED BY <1>13, <1>14 DEF t

\* The while loop ends, and the component is the class of n.
LEMMA ExploreIs ==
  ASSUME NEW ok, Searched(ok), NEW n \in Nds, NEW seen \in SUBSET Nds,
         Apart(seen, ok), n \notin seen
  PROVE  Explore(n, seen, ok) = Linked(n, ok)
  <1> DEFINE N == Cardinality(Nds)
             first == [q |-> <<n>>, comp |-> {}, visited |-> seen]
             Next1(t) == IF t.q = <<>> THEN t ELSE Visit(t, ok)
             Is(f) == f = [k \in 0..Rounds |-> IF k = 0 THEN first ELSE Next1(f[k - 1])]
             s == CHOOSE f : Is(f)
             T == [q : Seq(Nds), comp : SUBSET Nds, visited : SUBSET Nds]
             V == {t \in T : InPart(t, n, seen, ok)}
             step == [p \in (1..Rounds) \X V |-> Next1(p[2])]
  <1>1. IsFiniteSet(Nds) /\ N \in Nat BY FS_CardinalityType DEF Searched
  <1>2. Rounds = N * N + 1 /\ N * N \in Nat /\ Rounds \in Nat BY <1>1, Times DEF Rounds
  <1>3. first \in V
    <2>1. <<n>> \in Seq(Nds) /\ Len(<<n>>) = 1 /\ <<n>>[1] = n OBVIOUS
    <2>2. first \in T BY <2>1
    <2>3. first.q = <<n>> /\ first.comp = {} /\ first.visited = seen OBVIOUS
    <2> HIDE DEF first
    <2>4. OnStack(first.q, n, 1)
      <3>1. 1 \in 1..Len(<<n>>) BY <2>1
      <3> QED BY <2>1, <2>3, <3>1 DEF OnStack
    <2>5. \A i \in 1..Len(first.q) : first.q[i] = n BY <2>1, <2>3
    <2>6. n \in Linked(n, ok) BY LinkedIs
    <2>7. InPart(first, n, seen, ok) BY <2>2, <2>3, <2>4, <2>5, <2>6 DEF InPart
    <2> QED BY <2>2, <2>7
  <1>4. ASSUME NEW t \in V PROVE Next1(t) \in V
    <2>1. CASE t.q = <<>> BY <2>1
    <2>2. CASE t.q # <<>>
      <3>1. InPart(Visit(t, ok), n, seen, ok) BY <2>2, VisitInPart
      <3>2. Visit(t, ok) \in T BY <3>1 DEF InPart
      <3> QED BY <2>2, <3>1, <3>2
    <2> QED BY <2>1, <2>2
  <1>5. \A j \in 1..Rounds, t \in V : step[<<j, t>>] = Next1(t) OBVIOUS
  <1>6. \A t \in V : InPart(t, n, seen, ok) OBVIOUS
  <1> HIDE DEF step, V, first, Next1
  <1>7. PICK f \in [0..Rounds -> V] : Goes(f, Rounds, first, step)
    <2>1. StaysIn(V, Rounds, step) BY <1>4, <1>5 DEF StaysIn
    <2> QED BY <1>2, <1>3, <2>1, Recursion
  <1>8. Is(f)
    <2>1. ASSUME NEW k \in 0..Rounds PROVE f[k] = IF k = 0 THEN first ELSE Next1(f[k - 1])
      <3>1. CASE k = 0 BY <3>1, <1>7 DEF Goes
      <3>2. CASE k # 0
        <4>1. k \in 1..Rounds /\ k - 1 \in 0..Rounds BY <1>2, <3>2
        <4>2. f[k - 1] \in V BY <4>1
        <4>3. f[k] = step[<<k, f[k - 1]>>] BY <4>1, <1>7 DEF Goes
        <4> QED BY <3>2, <4>1, <4>2, <4>3, <1>5
      <3> QED BY <3>1, <3>2
    <2> QED BY <2>1
  <1>9. Is(s)
    <2> HIDE DEF Is
    <2> QED BY <1>8
  <1>10. Explore(n, seen, ok) = s[Rounds].comp BY DEF Explore, s, Is, Next1, first
  <1> HIDE DEF s
  <1>11. s[0] = first /\ \A k \in 1..Rounds : s[k] = Next1(s[k - 1])
    BY <1>2, <1>9 DEF Is
  <1> DEFINE S == {k \in Nat : k <= Rounds =>
                     s[k] \in V /\ (s[k].q = <<>> \/ RoundsLeft(s[k]) + k <= Rounds)}
  <1>12. 0 \in S
    <2>1. RoundsLeft(first) = Cardinality(Nds \ seen) * N + 1
      <3>1. first.q = <<n>> /\ first.visited = seen /\ Len(<<n>>) = 1 BY DEF first
      <3> QED BY <3>1 DEF RoundsLeft
    <2>2. Cardinality(Nds \ seen) \in Nat /\ Cardinality(Nds \ seen) <= N
      <3>1. Nds \ seen \in SUBSET Nds OBVIOUS
      <3> QED BY <1>1, <3>1, FS_Subset, FS_CardinalityType
    <2>3. Cardinality(Nds \ seen) * N <= N * N /\ Cardinality(Nds \ seen) * N \in Nat
      BY <1>1, <2>2, Times
    <2>4. RoundsLeft(first) + 0 <= Rounds BY <2>1, <2>3, <1>2
    <2> QED BY <2>4, <1>3, <1>11
  <1>13. ASSUME NEW k \in Nat, k \in S PROVE k + 1 \in S
    <2> SUFFICES ASSUME k + 1 <= Rounds
                 PROVE  s[k + 1] \in V
                        /\ (s[k + 1].q = <<>> \/ RoundsLeft(s[k + 1]) + (k + 1) <= Rounds)
      OBVIOUS
    <2>1. s[k] \in V /\ (s[k].q = <<>> \/ RoundsLeft(s[k]) + k <= Rounds) BY <1>2, <1>13
    <2>2. s[k + 1] = Next1(s[k])
      <3>1. k + 1 \in 1..Rounds /\ (k + 1) - 1 = k BY <1>2
      <3> QED BY <3>1, <1>11
    <2>3. s[k + 1] \in V BY <2>1, <2>2, <1>4
    <2>4. CASE s[k].q = <<>> BY <2>2, <2>3, <2>4 DEF Next1
    <2>5. CASE s[k].q # <<>>
      <3>1. s[k + 1] = Visit(s[k], ok) BY <2>2, <2>5 DEF Next1
      <3>2. InPart(s[k], n, seen, ok) BY <2>1, <1>6
      <3>3. /\ RoundsLeft(s[k + 1]) \in Nat /\ RoundsLeft(s[k]) \in Nat
            /\ RoundsLeft(s[k + 1]) < RoundsLeft(s[k])
        BY <2>5, <3>1, <3>2, VisitInPart
      <3>4. RoundsLeft(s[k + 1]) + (k + 1) <= Rounds BY <2>1, <2>5, <3>3, <1>2
      <3> QED BY <2>3, <3>4
    <2> QED BY <2>4, <2>5
  <1>14. \A k \in Nat : k \in S
    <2> HIDE DEF S
    <2> QED BY <1>12, <1>13, Induct
  <1> DEFINE t == s[Rounds]
  <1>15. InPart(t, n, seen, ok) /\ (t.q = <<>> \/ RoundsLeft(t) + Rounds <= Rounds)
    BY <1>2, <1>6, <1>14
  <1> HIDE DEF t
  <1>16. t.q = <<>>
    <2> SUFFICES ASSUME t.q # <<>> PROVE FALSE OBVIOUS
    <2>1. RoundsLeft(Visit(t, ok)) \in Nat /\ RoundsLeft(t) \in Nat
          /\ RoundsLeft(Visit(t, ok)) < RoundsLeft(t)
      BY <1>15, VisitInPart
    <2> QED BY <2>1, <1>15, <1>2
  <1>17. n \in t.comp /\ t.comp \subseteq Linked(n, ok) /\ t.visited = seen \cup t.comp
         /\ t.comp \in SUBSET Nds
         /\ \A m \in t.comp : Near(m, ok) \subseteq t.visited
    <2>1. \A x : ~OnStack(t.q, x, 1)
      <3>1. Len(t.q) = 0 BY <1>16, EmptySeq
      <3> QED BY <3>1 DEF OnStack
    <2> QED BY <2>1, <1>15 DEF InPart
  <1>18. \A m \in Linked(n, ok) : m \notin seen
    <2>1. Apart(Nds \ seen, ok) BY RestApart
    <2> QED BY <2>1 DEF Linked
  <1>19. Apart(t.comp, ok)
    <2>1. ASSUME NEW m \in t.comp, NEW x \in Near(m, ok) PROVE x \in t.comp
      <3>1. Apart(Linked(n, ok), ok) /\ Linked(n, ok) \in SUBSET Nds BY LinkedIs
      <3>2. x \in Linked(n, ok) BY <1>17, <3>1, <2>1, ApartIs
      <3> QED BY <3>2, <1>17, <1>18, <2>1
    <2> QED BY <2>1, <1>17, ApartIs
  <1>20. Linked(n, ok) \subseteq t.comp BY <1>17, <1>19 DEF Linked
  <1> QED BY <1>10, <1>17, <1>20 DEF t

-----------------------------------------------------------------------------
(* The for loop. *)

\* Classes found, each once.
Found(ret, ok) == IsInjective(ret) /\ \A c \in ToSet(ret) : \E n \in Nds : c = Linked(n, ok)

LEMMA ElementsOf ==
  ASSUME NEW S, NEW s \in Seq(S)
  PROVE  ToSet(s) \in SUBSET S /\ \A x : x \in ToSet(s) <=> \E i \in 1..Len(s) : s[i] = x
  BY DEF ToSet

LEMMA ElementsOfAppend ==
  ASSUME NEW S, NEW s \in Seq(S), NEW x \in S
  PROVE  /\ Append(s, x) \in Seq(S)
         /\ ToSet(Append(s, x)) = ToSet(s) \cup {x}
         /\ IsInjective(s) /\ x \notin ToSet(s) => IsInjective(Append(s, x))
  <1> DEFINE a == Append(s, x)
  <1>1. /\ a \in Seq(S) /\ Len(a) = Len(s) + 1 /\ a[Len(s) + 1] = x /\ Len(s) \in Nat
        /\ \A i \in 1..Len(s) : a[i] = s[i]
    BY AppendProperties, LenProperties
  <1> HIDE DEF a
  <1>2. DOMAIN a = 1..(Len(s) + 1) /\ DOMAIN s = 1..Len(s) BY <1>1
  <1>3. \A i \in 1..(Len(s) + 1) : i \in 1..Len(s) \/ i = Len(s) + 1 BY <1>1
  <1>4. ToSet(a) = ToSet(s) \cup {x}
    <2>1. \A i \in 1..Len(s) : i \in 1..(Len(s) + 1) BY <1>1
    <2>2. Len(s) + 1 \in 1..(Len(s) + 1) BY <1>1
    <2>3. ASSUME NEW y \in ToSet(a) PROVE y \in ToSet(s) \cup {x}
      BY <1>1, <1>2, <1>3 DEF ToSet
    <2>4. ASSUME NEW y \in ToSet(s) \cup {x} PROVE y \in ToSet(a)
      BY <1>1, <1>2, <2>1, <2>2 DEF ToSet
    <2> QED BY <2>3, <2>4
  <1>5. ASSUME IsInjective(s), x \notin ToSet(s), NEW i \in DOMAIN a, NEW j \in DOMAIN a, a[i] = a[j]
        PROVE  i = j
    <2>1. \A k \in 1..Len(s) : s[k] # x BY <1>2, <1>5 DEF ToSet
    <2>2. CASE i \in 1..Len(s) /\ j \in 1..Len(s) BY <2>2, <1>1, <1>2, <1>5 DEF IsInjective
    <2>3. CASE i = Len(s) + 1 /\ j = Len(s) + 1 BY <2>3
    <2>4. CASE i = Len(s) + 1 /\ j \in 1..Len(s) BY <2>1, <2>4, <1>1, <1>5
    <2>5. CASE j = Len(s) + 1 /\ i \in 1..Len(s) BY <2>1, <2>5, <1>1, <1>5
    <2> QED BY <1>2, <1>3, <2>2, <2>3, <2>4, <2>5
  <1>6. IsInjective(s) /\ x \notin ToSet(s) => IsInjective(a) BY <1>5 DEF IsInjective
  <1> QED BY <1>1, <1>4, <1>6 DEF a

\* A turn of the for loop, for the node n.
Turn(ret, n, ok) ==
  LET visited == UNION ToSet(ret)
  IN IF n \in visited THEN ret ELSE Append(ret, Explore(n, visited, ok))

\* It finds the class of n, if it is not found yet, and no other.
LEMMA TurnFinds ==
  ASSUME NEW ok, Searched(ok), NEW ret \in Seq(SUBSET Nds), Found(ret, ok), NEW n \in Nds
  PROVE  /\ Turn(ret, n, ok) \in Seq(SUBSET Nds) /\ Found(Turn(ret, n, ok), ok)
         /\ ToSet(Turn(ret, n, ok)) = ToSet(ret) \cup {Linked(n, ok)}
  <1> DEFINE visited == UNION ToSet(ret)
             c == Linked(n, ok)
  <1>1. visited \in SUBSET Nds /\ Apart(visited, ok) BY ClassesApart DEF Found
  <1>2. c \in SUBSET Nds /\ n \in c BY LinkedIs
  <1>3. CASE n \in visited
    <2>1. Turn(ret, n, ok) = ret BY <1>3 DEF Turn
    <2>2. PICK d \in ToSet(ret) : n \in d BY <1>3
    <2>3. PICK m \in Nds : d = Linked(m, ok) BY DEF Found
    <2>4. c = d BY <2>2, <2>3, LinkedIs
    <2> QED BY <2>1, <2>2, <2>4
  <1>4. CASE n \notin visited
    <2>1. Explore(n, visited, ok) = c BY <1>1, <1>4, ExploreIs
    <2>2. Turn(ret, n, ok) = Append(ret, c) BY <1>4, <2>1 DEF Turn
    <2>3. c \notin ToSet(ret) BY <1>2, <1>4
    <2> HIDE DEF c
    <2>4. Append(ret, c) \in Seq(SUBSET Nds) /\ ToSet(Append(ret, c)) = ToSet(ret) \cup {c}
          /\ IsInjective(Append(ret, c))
      BY <1>2, <2>3, ElementsOfAppend DEF Found
    <2>5. Found(Append(ret, c), ok) BY <2>4 DEF Found, c
    <2> QED BY <2>2, <2>4, <2>5 DEF c
  <1> QED BY <1>3, <1>4

\* connectedComponents of any graph.
LEMMA ComponentsAre ==
  ASSUME NEW ok, Searched(ok)
  PROVE  /\ IsInjective(ConnectedComponents(ok))
         /\ ToSet(ConnectedComponents(ok)) = {Linked(n, ok) : n \in Nds}
  <1> DEFINE nds == SetToSeq(Nds)
             N == Len(nds)
             Is(f) == f = [k \in 0..N |-> IF k = 0 THEN <<>> ELSE Turn(f[k - 1], nds[k], ok)]
             found == CHOOSE f : Is(f)
             V == {ret \in Seq(SUBSET Nds) : Found(ret, ok)}
             step == [p \in (1..N) \X V |-> Turn(p[2], nds[p[1]], ok)]
  <1>1. nds \in Seq(Nds) /\ N \in Nat /\ \A n \in Nds : \E i \in 1..N : nds[i] = n
    <2>1. IsFiniteSet(Nds) BY DEF Searched
    <2> QED BY <2>1, Listed, LenProperties
  <1>2. ConnectedComponents(ok) = found[N] BY DEF ConnectedComponents, Turn
  <1> HIDE DEF nds, N
  <1>3. \A j \in 1..N : nds[j] \in Nds BY <1>1 DEF N
  <1>4. <<>> \in V /\ ToSet(<<>>) = {}
    <2>1. <<>> \in Seq(SUBSET Nds) /\ Len(<<>>) = 0 BY EmptySeq
    <2>2. ToSet(<<>>) = {} /\ DOMAIN <<>> = {} BY <2>1, EmptyFunction DEF ToSet
    <2>3. Found(<<>>, ok) BY <2>2 DEF Found, IsInjective
    <2> QED BY <2>1, <2>2, <2>3
  <1>5. ASSUME NEW ret \in V, NEW n \in Nds
        PROVE  Turn(ret, n, ok) \in V /\ ToSet(Turn(ret, n, ok)) = ToSet(ret) \cup {Linked(n, ok)}
    BY TurnFinds
  <1>6. \A j \in 1..N, ret \in V : step[<<j, ret>>] = Turn(ret, nds[j], ok) OBVIOUS
  <1>7. \A ret \in V : Found(ret, ok) OBVIOUS
  <1> HIDE DEF step, V
  <1>8. PICK f \in [0..N -> V] : Goes(f, N, <<>>, step)
    <2>1. StaysIn(V, N, step) BY <1>3, <1>5, <1>6 DEF StaysIn
    <2> QED BY <1>1, <1>4, <2>1, Recursion
  <1>9. Is(f)
    <2>1. ASSUME NEW k \in 0..N PROVE f[k] = IF k = 0 THEN <<>> ELSE Turn(f[k - 1], nds[k], ok)
      <3>1. CASE k = 0 BY <3>1, <1>8 DEF Goes
      <3>2. CASE k # 0
        <4>1. k \in 1..N /\ k - 1 \in 0..N BY <1>1, <3>2
        <4>2. f[k - 1] \in V BY <4>1
        <4>3. f[k] = step[<<k, f[k - 1]>>] BY <4>1, <1>8 DEF Goes
        <4> QED BY <3>2, <4>1, <4>2, <4>3, <1>6
      <3> QED BY <3>1, <3>2
    <2> QED BY <2>1
  <1>10. Is(found)
    <2> HIDE DEF Is
    <2> QED BY <1>9
  <1> HIDE DEF found
  <1>11. found[0] = <<>> /\ \A k \in 1..N : found[k] = Turn(found[k - 1], nds[k], ok)
    BY <1>1, <1>10 DEF Is
  <1> DEFINE Classes(k) == {Linked(nds[i], ok) : i \in 1..k}
             S == {k \in Nat : k <= N => found[k] \in V /\ ToSet(found[k]) = Classes(k)}
  <1>12. 0 \in S
    <2>1. Classes(0) = {} OBVIOUS
    <2> QED BY <2>1, <1>4, <1>11
  <1>13. ASSUME NEW k \in Nat, k \in S PROVE k + 1 \in S
    <2> SUFFICES ASSUME k + 1 <= N
                 PROVE  found[k + 1] \in V /\ ToSet(found[k + 1]) = Classes(k + 1)
      OBVIOUS
    <2>1. found[k] \in V /\ ToSet(found[k]) = Classes(k) BY <1>1, <1>13
    <2>2. k + 1 \in 1..N /\ (k + 1) - 1 = k BY <1>1
    <2>3. found[k + 1] = Turn(found[k], nds[k + 1], ok) BY <2>2, <1>11
    <2>4. nds[k + 1] \in Nds BY <2>2, <1>3
    <2>5. Classes(k + 1) = Classes(k) \cup {Linked(nds[k + 1], ok)}
      <3>1. \A i : i \in 1..(k + 1) <=> i \in 1..k \/ i = k + 1 OBVIOUS
      <3> QED BY <3>1
    <2> QED BY <2>1, <2>3, <2>4, <2>5, <1>5
  <1>14. \A k \in Nat : k \in S
    <2> HIDE DEF S
    <2> QED BY <1>12, <1>13, Induct
  <1>15. found[N] \in V /\ ToSet(found[N]) = Classes(N) BY <1>1, <1>14
  <1>16. Classes(N) = {Linked(n, ok) : n \in Nds} BY <1>1, <1>3 DEF N
  <1> QED BY <1>2, <1>7, <1>15, <1>16 DEF Found

-----------------------------------------------------------------------------
(* The graph keeps a finite number of nodes. *)

LEMMA InitFinite == GraphInit => IsFiniteSet(Nds)
  <1> SUFFICES ASSUME GraphInit PROVE IsFiniteSet(Nds) OBVIOUS
  <1>1. Nds = {} BY EmptyFunction DEF GraphInit, Nds
  <1> QED BY <1>1, FS_EmptySet

LEMMA NextFinite ==
  ASSUME IsFiniteSet(Nds), [GraphNext]_graphVars
  PROVE  IsFiniteSet(Nds')
  <1>1. ASSUME NEW n \in NodeAddrs, AddNd(n) PROVE IsFiniteSet(Nds')
    <2>1. Nds' = Nds \cup {n} BY <1>1 DEF AddNd, Nds
    <2> QED BY <2>1, FS_AddElement
  <1>2. ASSUME NEW n, NEW heap, NEW lists, DOMAIN lists = Nds
        PROVE  DOMAIN Destroy(n, heap, lists).adj \in SUBSET Nds
    BY <1>2 DEF Destroy, Restrict
  <1>3. ASSUME NEW n \in NodeAddrs, DelNd(n) PROVE IsFiniteSet(Nds')
    <2>1. Nds' = DOMAIN Destroy(n, edge, adj).adj BY <1>3 DEF DelNd, Nds
    <2>2. Nds' \in SUBSET Nds BY <2>1, <1>2 DEF Nds
    <2> QED BY <2>2, FS_Subset
  <1>4. ASSUME NEW a \in Nds, NEW b \in Nds, DelEdg(a, b) PROVE IsFiniteSet(Nds')
    <2>1. PICK e : adj' = Leave(edge, adj, {e}) BY <1>4 DEF DelEdg
    <2>2. Nds' = Nds BY <2>1 DEF Leave, Nds
    <2> QED BY <2>2
  <1>5. ASSUME NEW a \in Nds, NEW b \in Nds, MergeNds(a, b) PROVE IsFiniteSet(Nds')
    <2>1. PICK new, heap : adj' = Destroy(a, heap, Enter(new)).adj BY <1>5 DEF MergeNds
    <2>2. DOMAIN Enter(new) = Nds BY DEF Enter
    <2>3. Nds' = DOMAIN Destroy(a, heap, Enter(new)).adj BY <2>1 DEF Nds
    <2>4. Nds' \in SUBSET Nds BY <2>2, <2>3, <1>2
    <2> QED BY <2>4, FS_Subset
  <1>6. ASSUME NEW a \in Nds, NEW b \in Nds, NEW e \in EdgeAddrs, AddEdg(a, b, e)
        PROVE  IsFiniteSet(Nds')
    <2>1. Nds' = Nds BY <1>6 DEF AddEdg, Enter, Nds
    <2> QED BY <2>1
  <1>7. ASSUME UNCHANGED graphVars PROVE IsFiniteSet(Nds')
    BY <1>7 DEF graphVars, Nds
  <1> QED BY <1>1, <1>3, <1>4, <1>5, <1>6, <1>7 DEF GraphNext

LEMMA ComponentsFound ==
  ASSUME GraphInv, IsFiniteSet(Nds)
  PROVE  ComponentsAreClasses
  <1> SUFFICES ASSUME ~directed, NEW ok \in SUBSET DOMAIN edge
               PROVE  /\ IsInjective(ConnectedComponents(ok))
                      /\ ToSet(ConnectedComponents(ok)) = {Linked(n, ok) : n \in Nds}
    BY DEF ComponentsAreClasses
  <1>1. Searched(ok) BY DEF Searched
  <1> QED BY <1>1, ComponentsAre

\* connectedComponents finds the classes of any graph that any sequence of
\* operations leads to, and its while loop ends.
THEOREM ComponentsSound == GraphSpec => []ComponentsAreClasses
  <1>1. GraphSpec => []IsFiniteSet(Nds)
    <2>1. GraphInit => IsFiniteSet(Nds) BY InitFinite
    <2>2. IsFiniteSet(Nds) /\ [GraphNext]_graphVars => IsFiniteSet(Nds)'
      <3>1. IsFiniteSet(Nds)' <=> IsFiniteSet(Nds') OBVIOUS
      <3> QED BY <3>1, NextFinite
    <2> QED BY <2>1, <2>2, PTL DEF GraphSpec
  <1>2. GraphInv /\ IsFiniteSet(Nds) => ComponentsAreClasses BY ComponentsFound
  <1> QED BY <1>1, <1>2, GraphSound, PTL

-----------------------------------------------------------------------------
(***************************************************************************)
(* Grid: for any cells, geometries and values, the value index is exact    *)
(* and no query misses a value it should find.                             *)
(***************************************************************************)

-----------------------------------------------------------------------------
(* Sets of integers. *)

\* A finite set of integers has a largest element: among the sets without one
\* there would be a smallest one, but take an element from it.
LEMMA FiniteMax ==
  ASSUME NEW S \in SUBSET Int, IsFiniteSet(S), S # {}
  PROVE  \E m \in S : \A x \in S : x <= m
  <1> DEFINE T == {X \in SUBSET S : X # {} /\ ~\E m \in X : \A x \in X : x <= m}
             R == StrictSubsetOrdering(S)
  <1>1. IsWellFoundedOn(R, FiniteSubsetsOf(S))
    BY FS_StrictSubsetOrderingWellFounded
  <1>2. T \subseteq FiniteSubsetsOf(S)
    BY FS_Subset DEF FiniteSubsetsOf
  <1>3. ASSUME T # {} PROVE FALSE
    <2> HIDE DEF T, R
    <2>1. PICK X \in T : \A Y \in T : <<Y, X>> \notin R
      BY <1>1, <1>2, <1>3, WFMin
    <2>2. X \in SUBSET S /\ X # {} /\ ~\E m \in X : \A x \in X : x <= m
      BY <2>1 DEF T
    <2>3. PICK x \in X : TRUE
      BY <2>2
    <2>4. CASE X \ {x} = {}
      BY <2>2, <2>3, <2>4
    <2>5. CASE X \ {x} # {}
      <3>1. <<X \ {x}, X>> \in R
        BY <2>2, <2>3 DEF R, StrictSubsetOrdering
      <3>2. X \ {x} \notin T
        BY <2>1, <3>1
      <3>3. PICK m \in X \ {x} : \A y \in X \ {x} : y <= m
        BY <2>2, <2>5, <3>2 DEF T
      <3> QED BY <2>2, <2>3, <3>3
    <2> QED BY <2>4, <2>5
  <1> QED BY <1>3

LEMMA FiniteMin ==
  ASSUME NEW S \in SUBSET Int, IsFiniteSet(S), S # {}
  PROVE  \E m \in S : \A x \in S : m <= x
  <1> DEFINE T == {X \in SUBSET S : X # {} /\ ~\E m \in X : \A x \in X : m <= x}
             R == StrictSubsetOrdering(S)
  <1>1. IsWellFoundedOn(R, FiniteSubsetsOf(S))
    BY FS_StrictSubsetOrderingWellFounded
  <1>2. T \subseteq FiniteSubsetsOf(S)
    BY FS_Subset DEF FiniteSubsetsOf
  <1>3. ASSUME T # {} PROVE FALSE
    <2> HIDE DEF T, R
    <2>1. PICK X \in T : \A Y \in T : <<Y, X>> \notin R
      BY <1>1, <1>2, <1>3, WFMin
    <2>2. X \in SUBSET S /\ X # {} /\ ~\E m \in X : \A x \in X : m <= x
      BY <2>1 DEF T
    <2>3. PICK x \in X : TRUE
      BY <2>2
    <2>4. CASE X \ {x} = {}
      BY <2>2, <2>3, <2>4
    <2>5. CASE X \ {x} # {}
      <3>1. <<X \ {x}, X>> \in R
        BY <2>2, <2>3 DEF R, StrictSubsetOrdering
      <3>2. X \ {x} \notin T
        BY <2>1, <3>1
      <3>3. PICK m \in X \ {x} : \A y \in X \ {x} : m <= y
        BY <2>2, <2>5, <3>2 DEF T
      <3> QED BY <2>2, <2>3, <3>3
    <2> QED BY <2>4, <2>5
  <1> QED BY <1>3

LEMMA MinMax ==
  ASSUME NEW S \in SUBSET Int, IsFiniteSet(S), S # {}
  PROVE  /\ Min(S) \in S /\ Max(S) \in S
         /\ \A x \in S : Min(S) <= x /\ x <= Max(S)
  <1>1. \E m \in S : \A x \in S : m <= x
    BY FiniteMin
  <1>2. \E m \in S : \A x \in S : m >= x
    BY FiniteMax
  <1> QED BY <1>1, <1>2 DEF Min, Max

-----------------------------------------------------------------------------
(* Rounding. *)

LEMMA DivMod ==
  ASSUME NEW a \in Nat, NEW c \in Nat \ {0}
  PROVE  /\ a \div c \in Nat
         /\ c * (a \div c) <= a
         /\ a < c * (a \div c) + c
  OBVIOUS

LEMMA DivMonotone ==
  ASSUME NEW a \in Nat, NEW b \in Nat, NEW c \in Nat \ {0}, a <= b
  PROVE  a \div c <= b \div c
  <1> DEFINE q == a \div c
             r == b \div c
  <1>1. q \in Nat /\ r \in Nat /\ c * q <= a /\ b < c * r + c
    BY DivMod
  <1> HIDE DEF q, r
  <1>2. ASSUME r + 1 <= q PROVE FALSE
    <2>1. c * (r + 1) <= c * q
      BY <1>1, <1>2
    <2> QED BY <1>1, <2>1
  <1> QED BY <1>1, <1>2 DEF q, r

\* A sum is rounded down to no more than what its parts, one of them rounded
\* up, are.
LEMMA DivSum ==
  ASSUME NEW a \in Nat, NEW b \in Nat, NEW t \in Nat, NEW c \in Nat \ {0}, b <= a + t
  PROVE  b \div c <= a \div c + (t + c - 1) \div c
  <1> DEFINE q == a \div c
             r == b \div c
             u == (t + c - 1) \div c
  <1>1. /\ q \in Nat /\ r \in Nat /\ u \in Nat
        /\ a < c * q + c /\ c * r <= b /\ t + c - 1 < c * u + c
    BY DivMod
  <1> HIDE DEF q, r, u
  <1>2. ASSUME q + u + 1 <= r PROVE FALSE
    <2>1. c * (q + u + 1) <= c * r
      BY <1>1, <1>2
    <2>2. c * (q + u + 1) = c * q + c * u + c
      BY <1>1
    <2> QED BY <1>1, <2>1, <2>2
  <1> QED BY <1>1, <1>2 DEF q, r, u

-----------------------------------------------------------------------------
(* Cells. *)

LEMMA AreaType ==
  ASSUME area \in Areas
  PROVE  \A d \in 1..2 : area.ll[d] \in Int /\ Cell[d] \in Nat \ {0}
  BY GridAssumption

\* There is a float nearest to an offset: among the distances of the floats from
\* it is a smallest one.
LEMMA NarrowNearest ==
  ASSUME NEW n \in Nat
  PROVE  /\ Narrow(n) \in Floats /\ Narrow(n) \in Nat
         /\ \A e \in Floats : Gap(Narrow(n), n) <= Gap(e, n)
  <1>1. Floats \subseteq Nat /\ Floats # {}
    BY GridAssumption
  <1> DEFINE Nearest(f) == \A e \in Floats : Gap(f, n) <= Gap(e, n)
  <1>2. CASE n \in Floats
    <2>1. Narrow(n) = n
      BY <1>2 DEF Narrow
    <2>2. ASSUME NEW e \in Floats PROVE Gap(n, n) <= Gap(e, n)
      <3>1. e \in Nat
        BY <1>1
      <3> QED BY <3>1 DEF Gap
    <2> QED BY <1>2, <2>1, <2>2
  <1>3. CASE n \notin Floats
    <2> DEFINE G == {Gap(f, n) : f \in Floats}
    <2>1. G \subseteq Nat /\ G # {}
      <3>1. ASSUME NEW f \in Floats PROVE Gap(f, n) \in Nat
        <4>1. f \in Nat
          BY <1>1
        <4> QED BY <4>1 DEF Gap
      <3> QED BY <1>1, <3>1
    <2>2. PICK g \in G : \A h \in G : ~(<<h, g>> \in OpToRel(<, Nat))
      <3> HIDE DEF G
      <3> QED BY <2>1, NatLessThanWellFounded, WFMin
    <2>3. ASSUME NEW h \in G PROVE g <= h
      <3>1. g \in Nat /\ h \in Nat
        BY <2>1
      <3>2. ~(h < g)
        BY <2>2, <3>1 DEF OpToRel
      <3> QED BY <3>1, <3>2
    <2>4. PICK f \in Floats : g = Gap(f, n)
      OBVIOUS
    <2>5. Nearest(f)
      <3> SUFFICES ASSUME NEW e \in Floats PROVE Gap(f, n) <= Gap(e, n)
        OBVIOUS
      <3>1. Gap(e, n) \in G
        OBVIOUS
      <3> HIDE DEF G
      <3> QED BY <2>3, <2>4, <3>1
    <2>6. Narrow(n) = CHOOSE x \in Floats : Nearest(x)
      BY <1>3 DEF Narrow
    <2> HIDE DEF Nearest
    <2>7. Narrow(n) \in Floats /\ Nearest(Narrow(n))
      BY <2>5, <2>6
    <2> QED BY <1>1, <2>7 DEF Nearest
  <1> QED BY <1>2, <1>3

\* What is nearest to a larger offset is no smaller.
LEMMA NarrowMonotone ==
  ASSUME NEW m \in Nat, NEW n \in Nat, m <= n
  PROVE  Narrow(m) <= Narrow(n)
  <1> DEFINE a == Narrow(m)
             b == Narrow(n)
  <1>1. /\ a \in Nat /\ b \in Nat
        /\ Gap(a, m) <= Gap(b, m) /\ Gap(b, n) <= Gap(a, n)
    BY NarrowNearest
  <1>2. m = n => a = b
    OBVIOUS
  <1> HIDE DEF a, b
  <1>3. ASSUME b < a PROVE FALSE
    <2>1. m < n
      BY <1>1, <1>2, <1>3
    <2> QED BY <1>1, <1>3, <2>1 DEF Gap
  <1>4. a <= b
    BY <1>1, <1>3
  <1> QED BY <1>4 DEF a, b

LEMMA CellOfType ==
  ASSUME area \in Areas, NEW d \in 1..2, NEW x \in Int
  PROVE  CellOf(x, d) \in Nat
  <1>1. area.ll[d] \in Int /\ Cell[d] \in Nat \ {0}
    BY AreaType
  <1>2. CASE x < area.ll[d]
    BY <1>2 DEF CellOf
  <1>3. CASE ~(x < area.ll[d])
    <2>1. x - area.ll[d] \in Nat
      BY <1>1, <1>3
    <2>2. Narrow(x - area.ll[d]) \in Nat
      BY <2>1, NarrowNearest
    <2>3. CellOf(x, d) = Narrow(x - area.ll[d]) \div Cell[d]
      BY <1>3 DEF CellOf
    <2> QED BY <1>1, <2>2, <2>3, DivMod
  <1> QED BY <1>2, <1>3

\* A point lies in its cell where narrowing its offset leaves it there.
LEMMA CellOfHolds ==
  ASSUME area \in Areas, NEW d \in 1..2, NEW x \in Int, area.ll[d] <= x,
         CellOf(x, d) = (x - area.ll[d]) \div Cell[d]
  PROVE  /\ area.ll[d] + CellOf(x, d) * Cell[d] <= x
         /\ x <= area.ll[d] + (CellOf(x, d) + 1) * Cell[d]
  <1> DEFINE l == area.ll[d]
             c == Cell[d]
             q == (x - l) \div c
  <1>1. l \in Int /\ c \in Nat \ {0}
    BY AreaType
  <1>2. x - l \in Nat
    BY <1>1
  <1>3. q \in Nat /\ c * q <= x - l /\ x - l < c * q + c
    BY <1>1, <1>2, DivMod
  <1>4. CellOf(x, d) = q
    OBVIOUS
  <1> HIDE DEF q, l, c
  <1>5. q * c = c * q /\ (q + 1) * c = c * q + c
    BY <1>1, <1>3
  <1>6. l + q * c <= x /\ x <= l + (q + 1) * c
    BY <1>1, <1>3, <1>5
  <1> QED BY <1>4, <1>6 DEF l, c

LEMMA CellOfMonotone ==
  ASSUME area \in Areas, NEW d \in 1..2, NEW x \in Int, NEW y \in Int, x <= y
  PROVE  CellOf(x, d) <= CellOf(y, d)
  <1>1. area.ll[d] \in Int /\ Cell[d] \in Nat \ {0}
    BY AreaType
  <1>2. CASE x < area.ll[d]
    <2>1. CellOf(x, d) = 0 BY <1>2 DEF CellOf
    <2>2. CellOf(y, d) \in Nat BY CellOfType
    <2> QED BY <2>1, <2>2
  <1>3. CASE ~(x < area.ll[d])
    <2> DEFINE a == x - area.ll[d]
               b == y - area.ll[d]
    <2>1. a \in Nat /\ b \in Nat /\ a <= b /\ ~(y < area.ll[d])
      BY <1>1, <1>3
    <2>2. CellOf(x, d) = Narrow(a) \div Cell[d] /\ CellOf(y, d) = Narrow(b) \div Cell[d]
      BY <1>3, <2>1 DEF CellOf
    <2> HIDE DEF a, b
    <2>3. Narrow(a) \in Nat /\ Narrow(b) \in Nat /\ Narrow(a) <= Narrow(b)
      BY <2>1, NarrowNearest, NarrowMonotone
    <2> QED BY <1>1, <2>2, <2>3, DivMonotone
  <1> QED BY <1>2, <1>3

\* Of points that narrowing leaves in their cells: the cell of one is the
\* permitted distance away from the other's at most.
LEMMA CellOfClose ==
  ASSUME area \in Areas, NEW d \in 1..2, NEW x \in Int, NEW y \in Int, NEW t \in Nat,
         area.ll[d] <= x, area.ll[d] <= y, y <= x + t,
         CellOf(x, d) = (x - area.ll[d]) \div Cell[d],
         CellOf(y, d) = (y - area.ll[d]) \div Cell[d]
  PROVE  CellOf(y, d) <= CellOf(x, d) + Perm(t, d)
  <1>1. area.ll[d] \in Int /\ Cell[d] \in Nat \ {0}
    BY AreaType
  <1>2. x - area.ll[d] \in Nat /\ y - area.ll[d] \in Nat /\ y - area.ll[d] <= x - area.ll[d] + t
    BY <1>1
  <1> QED BY <1>1, <1>2, DivSum DEF Perm

-----------------------------------------------------------------------------
(* Geometries. *)

LEMMA GeomPoints ==
  ASSUME NEW g \in Geoms
  PROVE  /\ ToSet(g) \in SUBSET (Int \X Int) /\ IsFiniteSet(ToSet(g)) /\ ToSet(g) # {}
  <1>1. g \in Seq(Int \X Int) /\ g # <<>>
    BY GridAssumption
  <1>2. Len(g) \in Nat /\ g \in [1..Len(g) -> Int \X Int] /\ DOMAIN g = 1..Len(g) /\ Len(g) # 0
    BY <1>1, LenProperties, EmptySeq
  <1>3. IsFiniteSet(1..Len(g))
    BY <1>2, FS_Interval
  <1>4. g \in Surjection(1..Len(g), ToSet(g))
    BY <1>2 DEF Surjection, ToSet
  <1> QED BY <1>2, <1>3, <1>4, FS_Surjection DEF ToSet

\* The bounding box of a geometry bounds its points.
LEMMA BoxBounds ==
  ASSUME NEW g \in Geoms
  PROVE  LET b == GetBoundingBox(ToSet(g))
         IN /\ \A d \in 1..2 : b.ll[d] \in Int /\ b.ur[d] \in Int
            /\ \A p \in ToSet(g) : PointInBox(p, b)
  <1> DEFINE ps == ToSet(g)
             b == GetBoundingBox(ps)
             low(d) == {p[d] : p \in ps} \cup {EmptyBox.ll[d]}
             high(d) == {p[d] : p \in ps} \cup {EmptyBox.ur[d]}
  <1>1. ASSUME NEW d \in 1..2
        PROVE  /\ b.ll[d] \in Int /\ b.ur[d] \in Int
               /\ \A p \in ps : b.ll[d] <= p[d] /\ p[d] <= b.ur[d]
    <2>1. ps \in SUBSET (Int \X Int) /\ IsFiniteSet(ps)
      BY GeomPoints
    <2> DEFINE S == {p[d] : p \in ps}
    <2>2. IsFiniteSet(S) /\ S \in SUBSET Int
      <3>1. [p \in ps |-> p[d]] \in Surjection(ps, S)
        BY DEF Surjection
      <3>2. \A p \in ps : p[d] \in Int
        BY <2>1
      <3> QED BY <2>1, <3>1, <3>2, FS_Surjection
    <2>3. EmptyBox.ll[d] \in Int /\ EmptyBox.ur[d] \in Int
      BY FarAssumption DEF EmptyBox
    <2>4. /\ IsFiniteSet(low(d)) /\ low(d) \in SUBSET Int /\ low(d) # {}
          /\ IsFiniteSet(high(d)) /\ high(d) \in SUBSET Int /\ high(d) # {}
      BY <2>2, <2>3, FS_AddElement
    <2>5. b.ll[d] = Min(low(d)) /\ b.ur[d] = Max(high(d))
      BY DEF GetBoundingBox
    <2>6. \A p \in ps : p[d] \in low(d) /\ p[d] \in high(d)
      OBVIOUS
    <2> HIDE DEF low, high
    <2> QED BY <2>4, <2>5, <2>6, MinMax
  <1> QED BY <1>1 DEF PointInBox

-----------------------------------------------------------------------------
(* What the queries rest on. *)

CellAt(p) == <<CellOf(p[1], 1), CellOf(p[2], 2)>>

\* The cell of a point of a geometry that the grid covers is one the geometry
\* touches.
LEMMA PointTouches ==
  ASSUME area \in Areas, NEW g \in Geoms, NEW p \in ToSet(g), Covered(p)
  PROVE  CellAt(p) \in Cells /\ CellAt(p) \in Touched(g)
  <1>1. /\ p \in Int \X Int
        /\ \A d \in 1..2 : /\ p[d] \in Int /\ area.ll[d] <= p[d]
                            /\ CellOf(p[d], d) = (p[d] - area.ll[d]) \div Cell[d]
    BY GeomPoints DEF Covered
  <1> DEFINE c == CellAt(p)
  <1>2. \A d \in 1..2 : /\ c[d] = CellOf(p[d], d) /\ c[d] \in Nat
                        /\ area.ll[d] + c[d] * Cell[d] <= p[d]
                        /\ p[d] <= area.ll[d] + (c[d] + 1) * Cell[d]
    BY <1>1, CellOfType, CellOfHolds DEF CellAt
  <1>3. \A d \in 1..2 : Width(d) \in Int
    <2>1. \A d \in 1..2 : /\ area.ll[d] \in Int /\ area.ur[d] \in Int /\ Cell[d] \in Nat \ {0}
      BY GridAssumption
    <2> QED BY <2>1 DEF Width, WidthOf
  <1>4. \A d \in 1..2 : c[d] \in 0..(Width(d) - 1)
    BY <1>2, <1>3 DEF Covered
  <1>5. c = <<c[1], c[2]>>
    BY DEF CellAt
  <1>6. c \in Cells
    BY <1>4, <1>5 DEF Cells
  <1>7. c \in Span(GetBoundingBox(ToSet(g)))
    BY <1>1, <1>2, <1>6, BoxBounds, CellOfMonotone DEF Span, PointInBox
  <1>8. PointInBox(p, GetBox(c))
    BY <1>2 DEF PointInBox, GetBox, BoxOf
  <1>9. Meets(g, GetBox(c))
    BY <1>6, <1>8, MeetsAssumption DEF GetBox, Cells, Width
  <1> QED BY <1>6, <1>7, <1>9 DEF Touched

\* The cell of a point is among those of a box with the point in it.
LEMMA PointInSpan ==
  ASSUME area \in Areas, NEW p \in Int \X Int, CellAt(p) \in Cells, NEW b,
         \A d \in 1..2 : b.ll[d] \in Int /\ b.ur[d] \in Int,
         PointInBox(p, b)
  PROVE  CellAt(p) \in Span(b)
  BY CellOfMonotone DEF Span, PointInBox, CellAt

-----------------------------------------------------------------------------
(* The inductive invariant. *)

\* The values of held are in all cells their geometries touch, and what else is
\* in a cell was removed, which happens without a value index only.
CellsHold ==
  /\ \A h \in held : \A c \in Touched(h[2]) : h[1] \in grid[c]
  /\ \A c \in Cells : \A v \in grid[c] :
       v \in removed \/ \E h \in held : h[1] = v /\ c \in Touched(h[2])

GridIInv ==
  /\ GridTypeOK /\ IndexExact /\ CellsHold
  /\ DOMAIN cellsOf = GridVals
  /\ hasValIdx \/ \A v \in GridVals : cellsOf[v] = {}
  /\ held \subseteq GridVals \X Geoms

LEMMA GridInitIInv == GridInit => GridIInv
  BY DEF GridInit, GridIInv, GridTypeOK, IndexExact, CellsHold

\* Which cells there are and which a geometry touches depends on the area.
LEMMA SameArea ==
  ASSUME area' = area
  PROVE  Cells' = Cells /\ \A g : Touched(g)' = Touched(g)
  BY DEF Cells, Touched, Span, GetBox, CellOf, Width

LEMMA AddIInv ==
  ASSUME GridIInv, NEW v \in GridVals, NEW g \in Geoms, Add(g, v)
  PROVE  GridIInv'
  <1>1. /\ area' = area /\ hasValIdx' = hasValIdx /\ removed' = removed
        /\ held' = held \cup {<<v, g>>}
        /\ Cells' = Cells /\ \A f : Touched(f)' = Touched(f)
    BY SameArea DEF Add
  <1>2. Touched(g) \subseteq Cells
    BY DEF Touched, Span
  <1>3. /\ DOMAIN grid' = Cells
        /\ \A c \in Cells : grid'[c] = grid[c] \cup IF c \in Touched(g) THEN {v} ELSE {}
    BY DEF Add
  <1>4. /\ DOMAIN cellsOf' = GridVals
        /\ \A u \in GridVals :
             cellsOf'[u] = IF hasValIdx /\ u = v THEN cellsOf[u] \cup Touched(g) ELSE cellsOf[u]
    BY DEF Add, GridIInv
  <1>5. GridTypeOK'
    BY <1>1, <1>2, <1>3, <1>4 DEF GridIInv, GridTypeOK
  <1>6. IndexExact'
    BY <1>1, <1>2, <1>3, <1>4 DEF GridIInv, GridTypeOK, IndexExact
  <1>7. CellsHold'
    <2>1. ASSUME NEW h \in held', NEW c \in Touched(h[2]) PROVE h[1] \in grid'[c]
      <3>1. c \in Cells
        BY DEF Touched, Span
      <3> QED BY <1>1, <1>3, <2>1, <3>1 DEF GridIInv, CellsHold
    <2>2. ASSUME NEW c \in Cells, NEW u \in grid'[c]
          PROVE  u \in removed \/ \E h \in held' : h[1] = u /\ c \in Touched(h[2])
      <3>1. CASE u \in grid[c]
        BY <1>1, <3>1 DEF GridIInv, CellsHold
      <3>2. CASE u = v /\ c \in Touched(g)
        <4>1. <<v, g>> \in held' /\ <<v, g>>[1] = u /\ c \in Touched(<<v, g>>[2])
          BY <1>1, <3>2
        <4> QED BY <4>1
      <3> QED BY <1>3, <2>2, <3>1, <3>2
    <2> QED BY <1>1, <2>1, <2>2 DEF CellsHold
  <1>8. held' \subseteq GridVals \X Geoms
    BY <1>1 DEF GridIInv
  <1>9. hasValIdx' \/ \A u \in GridVals : cellsOf'[u] = {}
    BY <1>1, <1>4 DEF GridIInv, GridTypeOK
  <1> QED BY <1>4, <1>5, <1>6, <1>7, <1>8, <1>9 DEF GridIInv

LEMMA RemoveIInv ==
  ASSUME GridIInv, NEW v \in GridVals, RemoveVal(v)
  PROVE  GridIInv'
  <1>1. /\ area' = area /\ hasValIdx' = hasValIdx
        /\ removed' = IF hasValIdx THEN removed ELSE removed \cup {v}
        /\ held' = {h \in held : h[1] # v}
        /\ Cells' = Cells /\ \A f : Touched(f)' = Touched(f)
    BY SameArea DEF RemoveVal
  <1>2. /\ DOMAIN grid' = Cells
        /\ \A c \in Cells : grid'[c] = IF c \in cellsOf[v] THEN grid[c] \ {v} ELSE grid[c]
    BY DEF RemoveVal
  <1>3. /\ DOMAIN cellsOf' = GridVals
        /\ \A u \in GridVals : cellsOf'[u] = IF u = v THEN {} ELSE cellsOf[u]
    BY DEF RemoveVal, GridIInv
  <1>4. GridTypeOK'
    BY <1>1, <1>2, <1>3 DEF GridIInv, GridTypeOK
  <1>5. IndexExact'
    BY <1>1, <1>2, <1>3 DEF GridIInv, GridTypeOK, IndexExact
  <1>6. CellsHold'
    <2>1. ASSUME NEW h \in held', NEW c \in Touched(h[2]) PROVE h[1] \in grid'[c]
      <3>1. c \in Cells
        BY DEF Touched, Span
      <3> QED BY <1>1, <1>2, <2>1, <3>1 DEF GridIInv, CellsHold
    <2>2. ASSUME NEW c \in Cells, NEW u \in grid'[c]
          PROVE  u \in removed' \/ \E h \in held' : h[1] = u /\ c \in Touched(h[2])
      <3>1. u \in grid[c]
        BY <1>2, <2>2
      <3>2. u \in removed \/ \E h \in held : h[1] = u /\ c \in Touched(h[2])
        BY <3>1 DEF GridIInv, CellsHold
      <3>3. CASE u = v
        <4>1. CASE hasValIdx
          BY <1>2, <2>2, <3>1, <3>3, <4>1 DEF GridIInv, IndexExact
        <4>2. CASE ~hasValIdx
          BY <1>1, <3>3, <4>2
        <4> QED BY <4>1, <4>2
      <3>4. CASE u # v
        BY <1>1, <3>2, <3>4
      <3> QED BY <3>3, <3>4
    <2> QED BY <1>1, <2>1, <2>2 DEF CellsHold
  <1>7. held' \subseteq GridVals \X Geoms
    BY <1>1 DEF GridIInv
  <1>8. hasValIdx' \/ \A u \in GridVals : cellsOf'[u] = {}
    BY <1>1, <1>3 DEF GridIInv
  <1> QED BY <1>3, <1>4, <1>5, <1>6, <1>7, <1>8 DEF GridIInv

LEMMA GridNextIInv == GridIInv /\ [GridNext]_gridVars => GridIInv'
  <1> SUFFICES ASSUME GridIInv, [GridNext]_gridVars PROVE GridIInv' OBVIOUS
  <1>1. ASSUME NEW v \in GridVals, RemoveVal(v) PROVE GridIInv'
    BY <1>1, RemoveIInv
  <1>2. ASSUME NEW v \in GridVals, NEW g \in Geoms, Add(g, v) PROVE GridIInv'
    BY <1>2, AddIInv
  <1>3. CASE UNCHANGED gridVars
    BY <1>3, SameArea DEF gridVars, GridIInv, GridTypeOK, IndexExact, CellsHold
  <1> QED BY <1>1, <1>2, <1>3 DEF GridNext

THEOREM SpecGridIInv == GridSpec => []GridIInv
  BY GridInitIInv, GridNextIInv, PTL DEF GridSpec

-----------------------------------------------------------------------------
(* The queries. *)

LEMMA Complete == GridIInv => BoxComplete
  <1> SUFFICES ASSUME GridIInv, NEW h \in held, hasValIdx \/ h[1] \notin removed,
                      NEW p \in ToSet(h[2]), Covered(p)
               PROVE  /\ \A b \in Boxes : PointInBox(p, b) => h[1] \in Get(b)
                      /\ \A g \in Geoms, t \in Dists :
                           (\E x \in ToSet(g) : \A d \in 1..2 : p[d] - x[d] \in -t..t)
                             => h[1] \in GetAbout(g, t)
    BY DEF BoxComplete
  <1>1. area \in Areas /\ h[2] \in Geoms
    BY DEF GridIInv, GridTypeOK
  <1>2. p \in Int \X Int
    BY <1>1, GeomPoints
  <1>3. CellAt(p) \in Cells /\ h[1] \in grid[CellAt(p)]
    BY <1>1, PointTouches DEF GridIInv, CellsHold
  <1>4. h[1] \in GetCell(CellAt(p))
    BY <1>3 DEF GetCell
  <1>5. ASSUME NEW b, \A d \in 1..2 : b.ll[d] \in Int /\ b.ur[d] \in Int, PointInBox(p, b)
        PROVE  h[1] \in Get(b)
    BY <1>1, <1>2, <1>3, <1>4, <1>5, PointInSpan DEF Get
  <1>6. ASSUME NEW b \in Boxes, PointInBox(p, b) PROVE h[1] \in Get(b)
    BY <1>5, <1>6, GridAssumption
  <1>7. ASSUME NEW g \in Geoms, NEW t \in Dists,
               NEW x \in ToSet(g), \A d \in 1..2 : p[d] - x[d] \in -t..t
        PROVE  h[1] \in GetAbout(g, t)
    <2> DEFINE a == GetBoundingBox(ToSet(g))
               b == [ll |-> [d \in 1..2 |-> a.ll[d] - t], ur |-> [d \in 1..2 |-> a.ur[d] + t]]
    <2>1. \A d \in 1..2 : /\ a.ll[d] \in Int /\ a.ur[d] \in Int
                          /\ a.ll[d] <= x[d] /\ x[d] <= a.ur[d]
      BY BoxBounds DEF PointInBox
    <2>2. t \in Nat /\ \A d \in 1..2 : p[d] \in Int /\ x[d] \in Int
      BY <1>2, GeomPoints, GridAssumption
    <2>3. \A d \in 1..2 : b.ll[d] = a.ll[d] - t /\ b.ur[d] = a.ur[d] + t
      OBVIOUS
    <2> HIDE DEF a
    <2>4. \A d \in 1..2 : b.ll[d] \in Int /\ b.ur[d] \in Int
      BY <2>1, <2>2, <2>3
    <2>5. PointInBox(p, b)
      BY <1>7, <2>1, <2>2, <2>3 DEF PointInBox
    <2>6. h[1] \in Get(b)
      BY <1>5, <2>4, <2>5
    <2> QED BY <2>6 DEF GetAbout, a
  <1> QED BY <1>6, <1>7

LEMMA BoxIsClose == GridIInv => BoxClose
  <1> SUFFICES ASSUME GridIInv, NEW b \in Boxes, NEW v \in Get(b)
               PROVE  \E h \in held : h[1] = v /\ Touched(h[2]) \cap Span(b) # {}
    BY DEF BoxClose
  <1>1. PICK c \in Span(b) : v \in GetCell(c)
    BY DEF Get
  <1>2. c \in Cells /\ v \in grid[c] /\ v \notin removed
    BY <1>1 DEF Span, GetCell, GridIInv, GridTypeOK
  <1>3. PICK h \in held : h[1] = v /\ c \in Touched(h[2])
    BY <1>2 DEF GridIInv, CellsHold
  <1> QED BY <1>1, <1>3

LEMMA Neighbouring == GridIInv => NeighborsComplete
  <1> SUFFICES ASSUME GridIInv, hasValIdx, NEW h \in held, NEW o \in held, NEW t \in Dists,
                      NEW p \in ToSet(h[2]), NEW q \in ToSet(o[2]), Covered(p), Covered(q),
                      \A d \in 1..2 : p[d] - q[d] \in -t..t
               PROVE  o[1] \in GetNeighbors(h[1], t)
    BY DEF NeighborsComplete
  <1>1. area \in Areas /\ h \in GridVals \X Geoms /\ o \in GridVals \X Geoms /\ t \in Nat
    BY GridAssumption DEF GridIInv, GridTypeOK
  <1>2. p \in Int \X Int /\ q \in Int \X Int
    BY <1>1, GeomPoints
  <1>3. /\ CellAt(p) \in Cells /\ h[1] \in grid[CellAt(p)]
        /\ CellAt(q) \in Cells /\ o[1] \in grid[CellAt(q)]
    BY <1>1, PointTouches DEF GridIInv, CellsHold
  <1>4. CellAt(p) \in cellsOf[h[1]]
    BY <1>1, <1>3 DEF GridIInv, IndexExact
  <1>5. ASSUME NEW d \in 1..2
        PROVE  CellAt(p)[d] - Perm(t, d) <= CellAt(q)[d] /\ CellAt(q)[d] <= CellAt(p)[d] + Perm(t, d)
    <2>1. p[d] \in Int /\ q[d] \in Int /\ area.ll[d] <= p[d] /\ area.ll[d] <= q[d]
          /\ q[d] <= p[d] + t /\ p[d] <= q[d] + t
          /\ CellOf(p[d], d) = (p[d] - area.ll[d]) \div Cell[d]
          /\ CellOf(q[d], d) = (q[d] - area.ll[d]) \div Cell[d]
      BY <1>1, <1>2 DEF Covered
    <2>2. CellOf(q[d], d) <= CellOf(p[d], d) + Perm(t, d)
          /\ CellOf(p[d], d) <= CellOf(q[d], d) + Perm(t, d)
      BY <1>1, <2>1, CellOfClose
    <2>3. CellOf(q[d], d) \in Nat /\ CellOf(p[d], d) \in Nat /\ Perm(t, d) \in Nat
      <3>1. Cell[d] \in Nat \ {0} /\ t + Cell[d] - 1 \in Nat
        BY <1>1, AreaType
      <3> QED BY <1>1, <2>1, <3>1, CellOfType, DivMod DEF Perm
    <2>4. CellAt(p)[d] = CellOf(p[d], d) /\ CellAt(q)[d] = CellOf(q[d], d)
      BY DEF CellAt
    <2> QED BY <2>2, <2>3, <2>4
  <1>6. o[1] \in GetCellNeighbors(CellAt(p), <<Perm(t, 1), Perm(t, 2)>>)
    BY <1>3, <1>5 DEF GetCellNeighbors
  <1> QED BY <1>4, <1>6 DEF GetNeighbors

\* The value index has just the cells of each value, and no query of a box,
\* about a geometry or for neighbours misses a value with a point there that
\* narrowing leaves in its cell, for any cell size, area, geometries, distance
\* and floats.
THEOREM GridSound == GridSpec => []GridInv
  <1>1. GridIInv => GridInv
    BY Complete, BoxIsClose, Neighbouring DEF GridInv, GridIInv
  <1> QED BY <1>1, SpecGridIInv, PTL

-----------------------------------------------------------------------------
(***************************************************************************)
(* RadixHeap: for keys of any number of bits, a heap that never compares   *)
(* keys of different buckets is a monotone queue.                          *)
(***************************************************************************)

-----------------------------------------------------------------------------
(* Powers and shifts. *)

LEMMA PowerUnfolds ==
  /\ Power[0] = 1
  /\ \A n \in 1..Bits : Power[n] = 2 * Power[n - 1]
  /\ \A n \in 0..Bits : Power[n] \in Nat \ {0}
  <1> DEFINE Is(f) == f = [n \in 0..Bits |-> IF n = 0 THEN 1 ELSE 2 * f[n - 1]]
             V == Nat \ {0}
             step == [p \in (1..Bits) \X V |-> 2 * p[2]]
  <1>1. StaysIn(V, Bits, step)
    BY DEF StaysIn
  <1>2. Bits \in Nat BY BitsAssumption
  <1>3. PICK f \in [0..Bits -> V] : Goes(f, Bits, 1, step)
    <2> HIDE DEF step
    <2>1. 1 \in V OBVIOUS
    <2> HIDE DEF V
    <2> QED BY <1>1, <1>2, <2>1, Recursion
  <1>4. \A j \in 1..Bits : f[j] = 2 * f[j - 1]
    <2> SUFFICES ASSUME NEW j \in 1..Bits PROVE f[j] = 2 * f[j - 1]
      OBVIOUS
    <2>1. f[j - 1] \in V
      <3>1. j - 1 \in 0..Bits BY <1>2
      <3> QED BY <3>1, <1>3
    <2> QED BY <1>3, <2>1 DEF Goes
  <1>5. Is(f)
    <2>1. ASSUME NEW n \in 0..Bits PROVE f[n] = IF n = 0 THEN 1 ELSE 2 * f[n - 1]
      <3>1. n = 0 \/ n \in 1..Bits BY <1>2
      <3> QED BY <3>1, <1>3, <1>4 DEF Goes
    <2>2. f = [n \in 0..Bits |-> f[n]] BY <1>3
    <2> QED BY <2>1, <2>2
  <1>6. Is(Power)
    <2>1. \E g : Is(g)
      <3> HIDE DEF Is
      <3> QED BY <1>5
    <2> QED BY <2>1 DEF Power
  <1>7. Power[0] = 1 BY <1>2, <1>6
  <1>8. ASSUME NEW n \in 1..Bits PROVE Power[n] = 2 * Power[n - 1]
    <2>1. n \in 0..Bits /\ n # 0 BY <1>2
    <2> QED BY <1>6, <2>1
  <1> DEFINE S == {n \in Nat : n <= Bits => Power[n] \in Nat \ {0}}
  <1>9. 0 \in S BY <1>7
  <1>10. ASSUME NEW n \in Nat, n \in S PROVE n + 1 \in S
    <2> SUFFICES ASSUME n + 1 <= Bits PROVE Power[n + 1] \in Nat \ {0}
      OBVIOUS
    <2>1. PICK m \in 1..Bits : m = n + 1 BY <1>2
    <2>2. Power[m] = 2 * Power[m - 1] /\ m - 1 = n BY <2>1, <1>8
    <2>3. Power[n] \in Nat \ {0} BY <1>10, <1>2
    <2> QED BY <2>1, <2>2, <2>3
  <1>11. \A n \in Nat : n \in S
    <2> HIDE DEF S
    <2> QED BY <1>9, <1>10, Induct
  <1>12. \A n \in 0..Bits : Power[n] \in Nat \ {0}
    BY <1>2, <1>11
  <1> QED BY <1>7, <1>8, <1>12

LEMMA WordFacts ==
  /\ Bits \in Nat \ {0} /\ HalfWord \in Nat \ {0} /\ MaxWord \in Nat
  /\ MaxWord = 2 * HalfWord - 1
  <1>1. Bits \in Nat \ {0} BY BitsAssumption
  <1>2. Bits \in 1..Bits /\ Bits - 1 \in 0..Bits BY <1>1
  <1>3. Power[Bits] = 2 * Power[Bits - 1] /\ Power[Bits - 1] \in Nat \ {0}
    BY <1>2, PowerUnfolds
  <1> QED BY <1>1, <1>3 DEF HalfWord, MaxWord

LEMMA ShiftUnfolds ==
  ASSUME NEW x \in Nat
  PROVE  /\ Shifted(x)[0] = x
         /\ \A n \in 1..Bits : Shifted(x)[n] = Shifted(x)[n - 1] \div 2
         /\ \A n \in 0..Bits : Shifted(x)[n] \in Nat
  <1> DEFINE Is(f) == f = [n \in 0..Bits |-> IF n = 0 THEN x ELSE f[n - 1] \div 2]
             step == [p \in (1..Bits) \X Nat |-> p[2] \div 2]
             s == Shifted(x)
  <1>1. StaysIn(Nat, Bits, step)
    BY DEF StaysIn
  <1>2. Bits \in Nat BY BitsAssumption
  <1>3. PICK f \in [0..Bits -> Nat] : Goes(f, Bits, x, step)
    <2> HIDE DEF step
    <2> QED BY <1>1, <1>2, Recursion
  <1>4. \A j \in 1..Bits : f[j] = f[j - 1] \div 2
    <2> SUFFICES ASSUME NEW j \in 1..Bits PROVE f[j] = f[j - 1] \div 2
      OBVIOUS
    <2>1. f[j - 1] \in Nat
      <3>1. j - 1 \in 0..Bits BY <1>2
      <3> QED BY <3>1, <1>3
    <2> QED BY <1>3, <2>1 DEF Goes
  <1>5. Is(f)
    <2>1. ASSUME NEW n \in 0..Bits PROVE f[n] = IF n = 0 THEN x ELSE f[n - 1] \div 2
      <3>1. n = 0 \/ n \in 1..Bits BY <1>2
      <3> QED BY <3>1, <1>3, <1>4 DEF Goes
    <2>2. f = [n \in 0..Bits |-> f[n]] BY <1>3
    <2> QED BY <2>1, <2>2
  <1>6. Is(s)
    <2>1. \E g : Is(g)
      <3> HIDE DEF Is
      <3> QED BY <1>5
    <2> QED BY <2>1 DEF Shifted
  <1> HIDE DEF s
  <1>7. s[0] = x BY <1>2, <1>6
  <1>8. ASSUME NEW n \in 1..Bits PROVE s[n] = s[n - 1] \div 2
    <2>1. n \in 0..Bits /\ n # 0 BY <1>2
    <2> QED BY <1>6, <2>1
  <1> DEFINE S == {n \in Nat : n <= Bits => s[n] \in Nat}
  <1>9. 0 \in S BY <1>7
  <1>10. ASSUME NEW n \in Nat, n \in S PROVE n + 1 \in S
    <2> SUFFICES ASSUME n + 1 <= Bits PROVE s[n + 1] \in Nat
      OBVIOUS
    <2>1. PICK m \in 1..Bits : m = n + 1 BY <1>2
    <2>2. s[m] = s[m - 1] \div 2 /\ m - 1 = n BY <2>1, <1>8
    <2>3. s[n] \in Nat BY <1>10, <1>2
    <2> QED BY <2>1, <2>2, <2>3
  <1>11. \A n \in Nat : n \in S
    <2> HIDE DEF S
    <2> QED BY <1>9, <1>10, Induct
  <1>12. \A n \in 0..Bits : s[n] \in Nat
    BY <1>2, <1>11
  <1> QED BY <1>7, <1>8, <1>12 DEF s

\* Shifting keeps the order.
LEMMA ShiftKeepsOrder ==
  ASSUME NEW x \in Nat, NEW y \in Nat, x <= y
  PROVE  \A n \in 0..Bits : Shifted(x)[n] <= Shifted(y)[n]
  <1> DEFINE S == {n \in Nat : n <= Bits => Shifted(x)[n] <= Shifted(y)[n]}
  <1>1. 0 \in S BY ShiftUnfolds
  <1>2. ASSUME NEW n \in Nat, n \in S PROVE n + 1 \in S
    <2> SUFFICES ASSUME n + 1 <= Bits PROVE Shifted(x)[n + 1] <= Shifted(y)[n + 1]
      OBVIOUS
    <2>1. PICK m \in 1..Bits : m = n + 1 BY BitsAssumption
    <2>2. m - 1 = n /\ n \in 0..Bits BY <2>1, BitsAssumption
    <2>3. /\ Shifted(x)[m] = Shifted(x)[n] \div 2 /\ Shifted(y)[m] = Shifted(y)[n] \div 2
          /\ Shifted(x)[n] \in Nat /\ Shifted(y)[n] \in Nat
      BY <2>2, ShiftUnfolds
    <2>4. Shifted(x)[n] <= Shifted(y)[n] BY <1>2, <2>2
    <2>5. \A a, b \in Nat : a <= b => a \div 2 <= b \div 2 OBVIOUS
    <2> QED BY <2>1, <2>3, <2>4, <2>5
  <1>3. \A n \in Nat : n \in S
    <2> HIDE DEF S
    <2> QED BY <1>1, <1>2, Induct
  <1> QED BY <1>3, BitsAssumption

\* Numbers that agree from bit k on agree from every later one on.
LEMMA ShiftAgree ==
  ASSUME NEW x \in Nat, NEW y \in Nat, NEW k \in 0..Bits, Shifted(x)[k] = Shifted(y)[k]
  PROVE  \A n \in k..Bits : Shifted(x)[n] = Shifted(y)[n]
  <1> DEFINE S == {n \in Nat : k <= n /\ n <= Bits => Shifted(x)[n] = Shifted(y)[n]}
  <1>1. 0 \in S
    <2>1. k <= 0 => k = 0 BY BitsAssumption
    <2> QED BY <2>1
  <1>2. ASSUME NEW n \in Nat, n \in S PROVE n + 1 \in S
    <2> SUFFICES ASSUME k <= n + 1, n + 1 <= Bits
                 PROVE  Shifted(x)[n + 1] = Shifted(y)[n + 1]
      OBVIOUS
    <2>1. CASE k = n + 1 BY <2>1
    <2>2. CASE k # n + 1
      <3>1. PICK m \in 1..Bits : m = n + 1 BY BitsAssumption
      <3>2. m - 1 = n /\ k <= n /\ n <= Bits BY <2>2, <3>1, BitsAssumption
      <3>3. Shifted(x)[m] = Shifted(x)[n] \div 2 /\ Shifted(y)[m] = Shifted(y)[n] \div 2
        BY <3>2, ShiftUnfolds
      <3> QED BY <1>2, <3>1, <3>2, <3>3
    <2> QED BY <2>1, <2>2
  <1>3. \A n \in Nat : n \in S
    <2> HIDE DEF S
    <2> QED BY <1>1, <1>2, Induct
  <1> QED BY <1>3, BitsAssumption

\* Nothing is left of a word after Bits bits.
LEMMA ShiftedOut ==
  ASSUME NEW x \in Words
  PROVE  Shifted(x)[Bits] = 0
  <1>0. x \in Nat /\ x < Power[Bits] /\ Bits \in Nat
    BY WordFacts, PowerUnfolds DEF Words, MaxWord
  <1> DEFINE S == {n \in Nat : n <= Bits => Shifted(x)[n] < Power[Bits - n]}
  <1>1. 0 \in S BY <1>0, ShiftUnfolds
  <1>2. ASSUME NEW n \in Nat, n \in S PROVE n + 1 \in S
    <2> SUFFICES ASSUME n + 1 <= Bits PROVE Shifted(x)[n + 1] < Power[Bits - (n + 1)]
      OBVIOUS
    <2>1. PICK m \in 1..Bits : m = n + 1 BY <1>0
    <2>2. PICK r \in 1..Bits : r = Bits - n BY <1>0
    <2>3. m - 1 = n /\ n \in 0..Bits /\ r - 1 = Bits - (n + 1) /\ r - 1 \in 0..Bits
      BY <1>0, <2>1, <2>2
    <2>4. Shifted(x)[m] = Shifted(x)[n] \div 2 /\ Shifted(x)[n] \in Nat
      BY <1>0, <2>3, ShiftUnfolds
    <2>5. Power[r] = 2 * Power[r - 1] /\ Power[r - 1] \in Nat
      BY <2>3, PowerUnfolds
    <2>6. Shifted(x)[n] < Power[r] BY <1>2, <1>0, <2>2, <2>3
    <2>7. \A a, b \in Nat : a < 2 * b => a \div 2 < b OBVIOUS
    <2>8. Shifted(x)[m] < Power[r - 1] BY <2>4, <2>5, <2>6, <2>7
    <2> QED BY <2>1, <2>3, <2>8
  <1>3. \A n \in Nat : n \in S
    <2> HIDE DEF S
    <2> QED BY <1>1, <1>2, Induct
  <1>4. Shifted(x)[Bits] < Power[0]
    <2>1. Bits \in S /\ Bits <= Bits /\ Bits - Bits = 0 BY <1>0, <1>3
    <2> QED BY <2>1
  <1>5. Shifted(x)[Bits] \in Nat /\ Power[0] = 1
    <2>1. Bits \in 0..Bits BY <1>0
    <2> QED BY <1>0, <2>1, ShiftUnfolds, PowerUnfolds
  <1> QED BY <1>4, <1>5

-----------------------------------------------------------------------------
(* The bucket of a key. *)

LEMMA BucketOf ==
  ASSUME NEW x \in Words, NEW l \in Words
  PROVE  LET k == FindBucket(x, l)
         IN /\ k \in 0..Bits
            /\ \A n \in 0..Bits : Shifted(x)[n] = Shifted(l)[n] <=> k <= n
            /\ k = 0 <=> x = l
  <1> DEFINE S == {n \in 0..Bits : Shifted(x)[n] = Shifted(l)[n]}
  <1>0. Bits \in Nat /\ x \in Nat /\ l \in Nat /\ 0 \in 0..Bits
    BY WordFacts DEF Words
  <1>1. Bits \in S BY <1>0, ShiftedOut
  <1>2. S \subseteq Nat OBVIOUS
  <1>3. PICK k \in S : k = Min(S) /\ \A n \in S : k <= n
    <2> HIDE DEF S
    <2> QED BY <1>1, <1>2, LeastIn
  <1>4. k = FindBucket(x, l) BY <1>3 DEF FindBucket
  <1>5. \A n \in k..Bits : Shifted(x)[n] = Shifted(l)[n]
    BY <1>0, ShiftAgree
  <1>6. ASSUME NEW n \in 0..Bits PROVE n \in S <=> k <= n
    BY <1>3, <1>5
  <1>7. k = 0 <=> x = l
    <2>1. k = 0 <=> 0 \in S BY <1>0, <1>6
    <2> QED BY <2>1, <1>0, ShiftUnfolds
  <1> QED BY <1>4, <1>6, <1>7

LEMMA BucketIs ==
  ASSUME NEW x \in Words, NEW l \in Words, NEW k \in 0..Bits,
         \A n \in 0..Bits : Shifted(x)[n] = Shifted(l)[n] <=> k <= n
  PROVE  FindBucket(x, l) = k
  <1>1. PICK m \in 0..Bits :
          m = FindBucket(x, l) /\ \A n \in 0..Bits : Shifted(x)[n] = Shifted(l)[n] <=> m <= n
    BY BucketOf
  <1>2. m <= k /\ k <= m BY <1>1
  <1> QED BY <1>1, <1>2, WordFacts

\* pull makes the least key l of the first bucket i that is not empty the new
\* last_: every key of a later bucket is in the right one still, every
\* key of bucket i goes to one below it.
LEMMA LaterStay ==
  ASSUME NEW last0 \in Words, NEW l \in Words, NEW x \in Words,
         NEW i \in 1..Bits, FindBucket(l, last0) = i,
         NEW k \in 0..Bits, i < k, FindBucket(x, last0) = k, last0 <= x
  PROVE  l < x /\ FindBucket(x, l) = k
  <1>0. Bits \in Nat /\ x \in Nat /\ l \in Nat /\ last0 \in Nat
    BY WordFacts DEF Words
  <1>1. \A n \in 0..Bits : Shifted(l)[n] = Shifted(last0)[n] <=> i <= n
    BY BucketOf
  <1>2. \A n \in 0..Bits : Shifted(x)[n] = Shifted(last0)[n] <=> k <= n
    BY BucketOf
  <1>3. PICK j \in 0..Bits : j = k - 1 /\ i <= j
    BY <1>0
  <1>4. /\ Shifted(l)[j] = Shifted(last0)[j] /\ Shifted(x)[j] # Shifted(last0)[j]
        /\ ~ (k <= j)
    BY <1>1, <1>2, <1>3
  <1>5. l < x
    <2> SUFFICES ASSUME x <= l PROVE FALSE
      BY <1>0
    <2>1. Shifted(x)[j] <= Shifted(l)[j] /\ Shifted(last0)[j] <= Shifted(x)[j]
      BY <1>0, ShiftKeepsOrder
    <2>2. Shifted(x)[j] \in Nat /\ Shifted(l)[j] \in Nat /\ Shifted(last0)[j] \in Nat
      BY <1>0, ShiftUnfolds
    <2> QED BY <2>1, <2>2, <1>4
  <1>6. \A n \in 0..Bits : Shifted(x)[n] = Shifted(l)[n] <=> k <= n
    <2> SUFFICES ASSUME NEW n \in 0..Bits
                 PROVE  Shifted(x)[n] = Shifted(l)[n] <=> k <= n
      OBVIOUS
    <2>1. CASE i <= n BY <2>1, <1>1, <1>2
    <2>2. CASE ~ (i <= n)
      <3>1. n \in Nat /\ ~ (k <= n) /\ j \in n..Bits BY <2>2, <1>0, <1>3
      <3>2. Shifted(x)[n] = Shifted(l)[n] => Shifted(x)[j] = Shifted(l)[j]
        BY <3>1, <1>0, ShiftAgree
      <3> QED BY <3>1, <3>2, <1>4
    <2> QED BY <2>1, <2>2
  <1> QED BY <1>5, <1>6, BucketIs

LEMMA FirstSinks ==
  ASSUME NEW last0 \in Words, NEW l \in Words, NEW x \in Words,
         NEW i \in 1..Bits, FindBucket(l, last0) = i, FindBucket(x, last0) = i,
         last0 <= l, last0 <= x
  PROVE  FindBucket(x, l) \in 0..(i - 1)
  <1>0. Bits \in Nat /\ x \in Nat /\ l \in Nat /\ last0 \in Nat
    BY WordFacts DEF Words
  <1>1. PICK j \in 0..Bits : j = i - 1
    BY <1>0
  <1>2. i \in 0..Bits /\ j + 1 = i /\ i - 1 = j /\ ~ (i <= j) /\ i \in 1..Bits
    BY <1>0, <1>1
  <1>3. /\ Shifted(l)[i] = Shifted(last0)[i] /\ Shifted(x)[i] = Shifted(last0)[i]
        /\ Shifted(l)[j] # Shifted(last0)[j] /\ Shifted(x)[j] # Shifted(last0)[j]
    <2>1. \A n \in 0..Bits : Shifted(l)[n] = Shifted(last0)[n] <=> i <= n
      BY BucketOf
    <2>2. \A n \in 0..Bits : Shifted(x)[n] = Shifted(last0)[n] <=> i <= n
      BY BucketOf
    <2> QED BY <2>1, <2>2, <1>2
  <1>4. /\ Shifted(l)[i] = Shifted(l)[j] \div 2 /\ Shifted(x)[i] = Shifted(x)[j] \div 2
        /\ Shifted(last0)[i] = Shifted(last0)[j] \div 2
    BY <1>0, <1>2, ShiftUnfolds
  <1>5. Shifted(l)[j] \in Nat /\ Shifted(x)[j] \in Nat /\ Shifted(last0)[j] \in Nat
    BY <1>0, ShiftUnfolds
  <1>6. Shifted(last0)[j] <= Shifted(l)[j] /\ Shifted(last0)[j] <= Shifted(x)[j]
    BY <1>0, ShiftKeepsOrder
  <1>7. \A a, b, c \in Nat :
           a \div 2 = c \div 2 /\ b \div 2 = c \div 2 /\ c < a /\ c < b => a = b
    OBVIOUS
  <1>8. Shifted(x)[j] = Shifted(l)[j]
    <2>1. Shifted(last0)[j] < Shifted(l)[j] /\ Shifted(last0)[j] < Shifted(x)[j]
      BY <1>3, <1>5, <1>6
    <2> QED BY <2>1, <1>3, <1>4, <1>5, <1>7
  <1>9. FindBucket(x, l) \in 0..Bits /\ FindBucket(x, l) <= j
    BY <1>8, BucketOf
  <1> QED BY <1>9, <1>2, <1>0

-----------------------------------------------------------------------------
(* Where the items are. *)

Items == [x : Words, val : HeapVals]
Rows == [0..Bits -> Seq(Items)]

SpotsOf(b) == UNION {{k} \X (1..Len(b[k])) : k \in 0..Bits}

\* The places of those that are in T.
Picked(b, T) == {p \in SpotsOf(b) : b[p[1]][p[2]] \in T}

LEMMA SpotIs ==
  ASSUME NEW b, NEW p
  PROVE  p \in SpotsOf(b) <=> /\ p = <<p[1], p[2]>> /\ p[1] \in 0..Bits
                              /\ p[2] \in 1..Len(b[p[1]])
  BY DEF SpotsOf

LEMMA PickedIs ==
  ASSUME NEW b, NEW T, NEW p
  PROVE  p \in Picked(b, T) <=> /\ p = <<p[1], p[2]>> /\ p[1] \in 0..Bits
                                /\ p[2] \in 1..Len(b[p[1]]) /\ b[p[1]][p[2]] \in T
  BY SpotIs DEF Picked

LEMMA RowIs ==
  ASSUME NEW b \in Rows, NEW k \in 0..Bits
  PROVE  /\ b[k] \in Seq(Items) /\ Len(b[k]) \in Nat
         /\ \A j \in 1..Len(b[k]) : b[k][j] \in Items
  BY LenProperties, ElementOfSeq DEF Rows

LEMMA PickedFinite ==
  ASSUME NEW b \in Rows, NEW T
  PROVE  IsFiniteSet(Picked(b, T)) /\ Cardinality(Picked(b, T)) \in Nat
  <1> DEFINE row == [k \in 0..Bits |-> {k} \X (1..Len(b[k]))]
             all == {row[k] : k \in 0..Bits}
  <1>1. IsFiniteSet(0..Bits)
    BY WordFacts, FS_Interval
  <1>2. IsFiniteSet(all)
    <2>1. row \in Surjection(0..Bits, all)
      <3>1. row \in [0..Bits -> all] /\ \A t \in all : \E k \in 0..Bits : row[k] = t
        <4>1. row = [k \in 0..Bits |-> row[k]] OBVIOUS
        <4> HIDE DEF row
        <4> QED BY <4>1
      <3> HIDE DEF row, all
      <3> QED BY <3>1 DEF Surjection
    <2> HIDE DEF row, all
    <2> QED BY <1>1, <2>1, FS_Surjection
  <1>3. ASSUME NEW k \in 0..Bits PROVE IsFiniteSet(row[k])
    <2>1. IsFiniteSet(1..Len(b[k]))
      <3>1. Len(b[k]) \in Nat BY RowIs
      <3> QED BY <3>1, FS_Interval
    <2>2. IsFiniteSet({k}) BY FS_Singleton
    <2>3. row[k] = {k} \X (1..Len(b[k])) OBVIOUS
    <2> HIDE DEF row
    <2> QED BY <2>1, <2>2, <2>3, FS_Product
  <1>4. IsFiniteSet(UNION all)
    <2> HIDE DEF row
    <2>1. \A s \in all : IsFiniteSet(s) BY <1>3
    <2> HIDE DEF all
    <2> QED BY <1>2, <2>1, FS_UNION
  <1>5. SpotsOf(b) = UNION all BY DEF SpotsOf
  <1>6. Picked(b, T) \subseteq UNION all BY <1>5 DEF Picked
  <1> HIDE DEF all
  <1>7. IsFiniteSet(Picked(b, T)) BY <1>4, <1>6, FS_Subset
  <1> QED BY <1>7, FS_CardinalityType

\* An item that enters bucket k, one that leaves the end of it, and a bucket
\* that is emptied.
Entered(b, k, it) == [b EXCEPT ![k] = Append(@, it)]

LEMMA EnteredIs ==
  ASSUME NEW b \in Rows, NEW k \in 0..Bits, NEW it \in Items
  PROVE  /\ Entered(b, k, it) \in Rows
         /\ Entered(b, k, it)[k] = Append(b[k], it)
         /\ \A m \in 0..Bits : m # k => Entered(b, k, it)[m] = b[m]
  <1> DEFINE c == Entered(b, k, it)
  <1>1. /\ c[k] = Append(b[k], it)
        /\ \A m \in 0..Bits : m # k => c[m] = b[m]
    BY DEF Rows, Entered
  <1>2. Append(b[k], it) \in Seq(Items)
    BY RowIs, AppendProperties
  <1>3. \A m \in 0..Bits : c[m] \in Seq(Items) BY <1>1, <1>2, RowIs
  <1>4. c = [m \in 0..Bits |-> c[m]] BY DEF Rows, Entered
  <1> HIDE DEF c
  <1>5. c \in Rows BY <1>3, <1>4 DEF Rows
  <1> QED BY <1>1, <1>5 DEF c

LEMMA PickedAppend ==
  ASSUME NEW b \in Rows, NEW k \in 0..Bits, NEW it \in Items, NEW T
  PROVE  LET p == <<k, Len(b[k]) + 1>>
         IN /\ p \notin Picked(b, T)
            /\ \A q : q \in Picked(Entered(b, k, it), T)
                       <=> q \in Picked(b, T) \/ (it \in T /\ q = p)
  <1> DEFINE c == Entered(b, k, it)
             n == Len(b[k]) + 1
  <1>1. n \in Nat /\ n # 0 BY RowIs
  <1>2. /\ c[k] = Append(b[k], it)
        /\ \A m \in 0..Bits : m # k => c[m] = b[m]
    BY EnteredIs
  <1>3. /\ Append(b[k], it) \in Seq(Items) /\ Len(Append(b[k], it)) = n
        /\ \A j \in 1..Len(b[k]) : Append(b[k], it)[j] = b[k][j]
        /\ Append(b[k], it)[n] = it
    BY RowIs, AppendProperties
  <1> HIDE DEF c
  <1>5. <<k, n>> \notin Picked(b, T)
    <2> SUFFICES ASSUME <<k, n>> \in Picked(b, T) PROVE FALSE
      OBVIOUS
    <2>1. n \in 1..Len(b[k]) BY PickedIs
    <2> QED BY <2>1, RowIs
  <1>6. ASSUME NEW p
        PROVE  p \in Picked(c, T) <=> p \in Picked(b, T) \/ (it \in T /\ p = <<k, n>>)
    <2>1. CASE p = <<k, n>>
      <3>1. p[1] = k /\ p[2] = n /\ p = <<p[1], p[2]>> /\ n \in 1..Len(c[k]) /\ c[k][n] = it
        BY <2>1, <1>1, <1>2, <1>3
      <3>2. p \in Picked(c, T) <=> it \in T BY <3>1, PickedIs
      <3> QED BY <3>2, <2>1, <1>5
    <2>2. CASE p # <<k, n>>
      <3>2. ASSUME p = <<p[1], p[2]>>, p[1] \in 0..Bits
            PROVE  /\ p[2] \in 1..Len(c[p[1]]) <=> p[2] \in 1..Len(b[p[1]])
                   /\ p[2] \in 1..Len(b[p[1]]) => c[p[1]][p[2]] = b[p[1]][p[2]]
        <4>1. CASE p[1] = k
          <5>1. p[2] # n BY <2>2, <3>2, <4>1
          <5>2. Len(b[k]) \in Nat /\ Len(c[k]) = Len(b[k]) + 1 BY <1>2, <1>3, RowIs
          <5> QED BY <4>1, <5>1, <5>2, <1>2, <1>3
        <4>2. CASE p[1] # k BY <4>2, <3>2, <1>2
        <4> QED BY <4>1, <4>2
      <3>3. p \in Picked(c, T) <=> p \in Picked(b, T) BY <3>2, PickedIs
      <3> QED BY <2>2, <3>3
    <2> QED BY <2>1, <2>2
  <1> QED BY <1>5, <1>6 DEF c

Shortened(b, k) == [b EXCEPT ![k] = Front(@)]

LEMMA ShortenedIs ==
  ASSUME NEW b \in Rows, NEW k \in 0..Bits, b[k] # <<>>
  PROVE  LET c == Shortened(b, k)
         IN /\ c \in Rows /\ Len(b[k]) \in Nat \ {0} /\ Len(c[k]) = Len(b[k]) - 1
            /\ \A j \in 1..Len(c[k]) : c[k][j] = b[k][j]
            /\ \A m \in 0..Bits : m # k => c[m] = b[m]
  <1> DEFINE c == Shortened(b, k)
             n == Len(b[k])
  <1>1. n \in Nat \ {0} /\ b[k] \in Seq(Items)
    <2>1. b[k] \in Seq(Items) BY RowIs
    <2> QED BY <2>1, EmptySeq
  <1>2. /\ c[k] = Front(b[k])
        /\ \A m \in 0..Bits : m # k => c[m] = b[m]
    BY DEF Rows, Shortened
  <1>3. /\ Front(b[k]) \in Seq(Items) /\ Len(Front(b[k])) = n - 1
        /\ \A j \in 1..(n - 1) : Front(b[k])[j] = b[k][j]
    <2>1. \A i \in 1..(n - 1) : b[k][i] \in Items BY <1>1, RowIs
    <2>2. Front(b[k]) = SubSeq(b[k], 1, n - 1) BY DEF Front
    <2>3. PICK m \in Int : m = n - 1 /\ m - 1 + 1 = m /\ (1 <= m \/ m = 0) BY <1>1
    <2> QED BY <2>1, <2>2, <2>3, <1>1, SubSeqProperties
  <1>4. c \in Rows
    <2>1. \A m \in 0..Bits : c[m] \in Seq(Items) BY <1>2, <1>3, RowIs
    <2>2. c = [m \in 0..Bits |-> c[m]] BY DEF Rows, Shortened
    <2> HIDE DEF c
    <2> QED BY <2>1, <2>2 DEF Rows
  <1> HIDE DEF c
  <1>5. Len(c[k]) = n - 1 /\ \A j \in 1..Len(c[k]) : c[k][j] = b[k][j]
    BY <1>2, <1>3
  <1> QED BY <1>1, <1>2, <1>4, <1>5 DEF c

LEMMA PickedFront ==
  ASSUME NEW b \in Rows, NEW k \in 0..Bits, b[k] # <<>>, NEW T, NEW p
  PROVE  /\ <<k, Len(b[k])>> \in SpotsOf(b)
         /\ p \in Picked(Shortened(b, k), T)
              <=> p \in Picked(b, T) /\ p # <<k, Len(b[k])>>
  <1> DEFINE c == Shortened(b, k)
             n == Len(b[k])
  <1>1. /\ n \in Nat \ {0} /\ Len(c[k]) = n - 1 /\ \A j \in 1..Len(c[k]) : c[k][j] = b[k][j]
        /\ \A m \in 0..Bits : m # k => c[m] = b[m]
    BY ShortenedIs
  <1> HIDE DEF c
  <1>2. <<k, n>> \in SpotsOf(b)
    <2>1. <<k, n>>[1] = k /\ <<k, n>>[2] = n /\ n \in 1..Len(b[k]) BY <1>1
    <2> QED BY <2>1, SpotIs
  <1>3. CASE p = <<k, n>>
    <2>1. p[1] = k /\ p[2] = n /\ ~ (n \in 1..Len(c[k])) BY <1>3, <1>1
    <2>2. p \notin Picked(c, T) BY <2>1, PickedIs
    <2> QED BY <2>2, <1>2, <1>3 DEF c
  <1>4. CASE p # <<k, n>>
    <2>1. ASSUME p = <<p[1], p[2]>>, p[1] \in 0..Bits
          PROVE  /\ p[2] \in 1..Len(c[p[1]]) <=> p[2] \in 1..Len(b[p[1]])
                 /\ p[2] \in 1..Len(c[p[1]]) => c[p[1]][p[2]] = b[p[1]][p[2]]
      <3>1. CASE p[1] = k
        <4>1. p[2] # n BY <1>4, <2>1, <3>1
        <4>2. p[2] \in 1..Len(c[k]) <=> p[2] \in 1..n BY <4>1, <1>1
        <4> QED BY <3>1, <4>2, <1>1
      <3>2. CASE p[1] # k BY <3>2, <2>1, <1>1
      <3> QED BY <3>1, <3>2
    <2>2. p \in Picked(c, T) <=> p \in Picked(b, T) BY <2>1, PickedIs
    <2> QED BY <2>2, <1>2, <1>4 DEF c
  <1> QED BY <1>3, <1>4

Cleared(b, k) == [b EXCEPT ![k] = <<>>]

LEMMA ClearedIs ==
  ASSUME NEW b \in Rows, NEW k \in 0..Bits
  PROVE  /\ Cleared(b, k) \in Rows
         /\ Cleared(b, k)[k] = <<>>
         /\ \A m \in 0..Bits : m # k => Cleared(b, k)[m] = b[m]
  <1> DEFINE c == Cleared(b, k)
  <1>1. c[k] = <<>> /\ \A m \in 0..Bits : m # k => c[m] = b[m]
    BY DEF Rows, Cleared
  <1>2. c \in Rows
    <2>1. ASSUME NEW m \in 0..Bits PROVE c[m] \in Seq(Items)
      <3>1. b[m] \in Seq(Items) BY RowIs
      <3>2. <<>> \in Seq(Items) OBVIOUS
      <3> HIDE DEF c
      <3> QED BY <3>1, <3>2, <1>1
    <2>2. c = [m \in 0..Bits |-> c[m]] BY DEF Rows, Cleared
    <2> HIDE DEF c
    <2> QED BY <2>1, <2>2 DEF Rows
  <1> QED BY <1>1, <1>2

LEMMA PickedClear ==
  ASSUME NEW b \in Rows, NEW k \in 0..Bits, NEW T, NEW p
  PROVE  p \in Picked(Cleared(b, k), T) <=> p \in Picked(b, T) /\ p[1] # k
  <1> DEFINE c == Cleared(b, k)
  <1>1. c[k] = <<>> /\ \A m \in 0..Bits : m # k => c[m] = b[m]
    BY ClearedIs
  <1> HIDE DEF c
  <1>2. Len(c[k]) = 0 BY <1>1
  <1>3. CASE p[1] = k
    <2>1. ~ (p[2] \in 1..Len(c[p[1]])) BY <1>3, <1>2
    <2> QED BY <2>1, <1>3, PickedIs DEF c
  <1>4. CASE p[1] # k
    <2>1. p[1] \in 0..Bits => c[p[1]] = b[p[1]] BY <1>4, <1>1
    <2>2. p \in Picked(c, T) <=> p \in Picked(b, T) BY <2>1, PickedIs
    <2> QED BY <2>2, <1>4 DEF c
  <1> QED BY <1>3, <1>4

-----------------------------------------------------------------------------
(* The inductive invariant. *)

\* w is the minimum of a bucket, or the greatest word if that is empty.
LeastOf(w, s) ==
  /\ w \in Words
  /\ \A j \in 1..Len(s) : w <= s[j].x
  /\ w = MaxWord \/ \E j \in 1..Len(s) : s[j].x = w

\* Each item is where its key belongs as seen from l, and no key is below l.
InPlace(l, s, k) == \A j \in 1..Len(s) : l <= s[j].x /\ FindBucket(s[j].x, l) = k

Heaps == [buckets : Rows, bmin : [0..Bits -> Words]]

HInv ==
  /\ last \in Words /\ buckets \in Rows /\ bmin \in [0..Bits -> Words]
  /\ size = Cardinality(SpotsOf(buckets))
  /\ \A k \in 0..Bits : InPlace(last, buckets[k], k)
  /\ \A k \in 1..Bits : LeastOf(bmin[k], buckets[k])

LEMMA KeysAreWords ==
  ASSUME NEW s \in Seq(Items), NEW j \in 1..Len(s)
  PROVE  s[j].x \in Words
  <1>1. s[j] \in Items BY ElementOfSeq
  <1> QED BY <1>1 DEF Items

LEMMA LeastIsMin ==
  ASSUME NEW s \in Seq(Items), NEW w, LeastOf(w, s)
  PROVE  w = Min({MaxWord} \cup {it.x : it \in ToSet(s)})
  <1> DEFINE A == {MaxWord} \cup {it.x : it \in ToSet(s)}
  <1>1. MaxWord \in Nat /\ Words = 0..MaxWord BY WordFacts DEF Words
  <1>2. \A j \in 1..Len(s) : s[j].x \in Words
    BY KeysAreWords
  <1>3. ASSUME NEW a PROVE a \in A <=> a = MaxWord \/ \E j \in 1..Len(s) : a = s[j].x
    <2>1. DOMAIN s = 1..Len(s) BY LenProperties
    <2> QED BY <2>1 DEF ToSet
  <1> HIDE DEF A
  <1>4. A \subseteq Int BY <1>1, <1>2, <1>3
  <1>5. w \in A BY <1>3 DEF LeastOf
  <1>6. \A a \in A : w <= a BY <1>1, <1>3 DEF LeastOf
  <1> QED BY <1>4, <1>5, <1>6, LeastIs DEF A

LEMMA LeastAppend ==
  ASSUME NEW s \in Seq(Items), NEW it \in Items, NEW w, LeastOf(w, s)
  PROVE  LeastOf(IF it.x < w THEN it.x ELSE w, Append(s, it))
  <1> DEFINE t == Append(s, it)
             v == IF it.x < w THEN it.x ELSE w
  <1>1. /\ Len(t) = Len(s) + 1 /\ Len(s) \in Nat /\ t[Len(s) + 1] = it
        /\ \A j \in 1..Len(s) : t[j] = s[j]
    BY LenProperties, AppendProperties
  <1>2. it.x \in Words /\ \A j \in 1..Len(s) : s[j].x \in Words
    BY KeysAreWords DEF Items
  <1>3. Words \subseteq Int BY DEF Words
  <1>4. w \in Words /\ \A j \in 1..Len(s) : w <= s[j].x BY DEF LeastOf
  <1>5. v \in Words /\ v <= it.x /\ v <= w
    <2>1. it.x \in Int /\ w \in Int BY <1>2, <1>3, <1>4
    <2>2. \A a, b \in Int :
             LET c == IF a < b THEN a ELSE b IN c \in {a, b} /\ c <= a /\ c <= b
      OBVIOUS
    <2> QED BY <2>1, <2>2, <1>2, <1>4
  <1> HIDE DEF t
  <1>6. \A j \in 1..Len(t) : j \in 1..Len(s) \/ j = Len(s) + 1 BY <1>1
  <1>7. ASSUME NEW j \in 1..Len(t) PROVE v <= t[j].x
    <2>1. CASE j \in 1..Len(s)
      <3>1. v \in Int /\ w \in Int /\ s[j].x \in Int BY <2>1, <1>2, <1>3, <1>4, <1>5
      <3> QED BY <3>1, <2>1, <1>1, <1>4, <1>5
    <2>2. CASE j = Len(s) + 1 BY <2>2, <1>1, <1>5
    <2> QED BY <2>1, <2>2, <1>6
  <1>8. v = MaxWord \/ \E j \in 1..Len(t) : t[j].x = v
    <2>1. CASE v = it.x
      <3>1. Len(s) + 1 \in 1..Len(t) BY <1>1
      <3> QED BY <3>1, <2>1, <1>1
    <2>2. CASE v = w
      <3>1. w = MaxWord \/ \E j \in 1..Len(s) : s[j].x = w BY DEF LeastOf
      <3>2. \A j \in 1..Len(s) : j \in 1..Len(t) BY <1>1
      <3> QED BY <3>1, <3>2, <2>2, <1>1
    <2> QED BY <2>1, <2>2
  <1> QED BY <1>5, <1>7, <1>8 DEF LeastOf, t

LEMMA InPlaceAppend ==
  ASSUME NEW s \in Seq(Items), NEW it \in Items, NEW l, NEW k,
         InPlace(l, s, k), l <= it.x, FindBucket(it.x, l) = k
  PROVE  InPlace(l, Append(s, it), k)
  <1>1. /\ Len(Append(s, it)) = Len(s) + 1 /\ Len(s) \in Nat
        /\ Append(s, it)[Len(s) + 1] = it
        /\ \A j \in 1..Len(s) : Append(s, it)[j] = s[j]
    BY LenProperties, AppendProperties
  <1>2. \A j \in 1..Len(Append(s, it)) : j \in 1..Len(s) \/ j = Len(s) + 1 BY <1>1
  <1> QED BY <1>1, <1>2 DEF InPlace

\* The bucket an item enters.
LEMMA EnterIs ==
  ASSUME NEW h \in Heaps, NEW it \in Items, NEW l \in Words
  PROVE  LET k == FindBucket(it.x, l)
             g == EnterBucket(h, it, l)
             w == h.bmin[k]
         IN /\ k \in 0..Bits /\ g \in Heaps
            /\ g.buckets = Entered(h.buckets, k, it)
            /\ g.bmin[k] = IF it.x < w THEN it.x ELSE w
            /\ \A m \in 0..Bits : m # k => g.bmin[m] = h.bmin[m]
  <1> DEFINE k == FindBucket(it.x, l)
             g == EnterBucket(h, it, l)
             c == Entered(h.buckets, k, it)
             d == [h.bmin EXCEPT ![k] = IF it.x < @ THEN it.x ELSE @]
  <1>1. it.x \in Words BY DEF Items
  <1>2. k \in 0..Bits BY <1>1, BucketOf
  <1>3. g = [buckets |-> c, bmin |-> d] BY DEF EnterBucket, Entered
  <1>4. h.buckets \in Rows /\ h.bmin \in [0..Bits -> Words] BY DEF Heaps
  <1> HIDE DEF k, g
  <1>5. c \in Rows BY <1>1, <1>2, <1>4, EnteredIs
  <1>6. /\ d \in [0..Bits -> Words]
        /\ d[k] = IF it.x < h.bmin[k] THEN it.x ELSE h.bmin[k]
        /\ \A m \in 0..Bits : m # k => d[m] = h.bmin[m]
    BY <1>1, <1>2, <1>4
  <1> HIDE DEF c, d
  <1>7. g \in Heaps /\ g.buckets = c /\ g.bmin = d BY <1>3, <1>5, <1>6 DEF Heaps
  <1> QED BY <1>2, <1>6, <1>7 DEF k, g, c

LEMMA SpreadUnfolds ==
  ASSUME buckets \in Rows, bmin \in [0..Bits -> Words], NEW i \in 0..Bits,
         NEW n \in Nat, n = Len(buckets[i])
  PROVE  \E h : /\ Spread(i, n) = h[n]
                /\ h[0] = [buckets |-> buckets, bmin |-> bmin]
                /\ \A j \in 1..n : h[j] = EnterBucket(h[j - 1], buckets[i][j], bmin[i])
  <1> DEFINE start == [buckets |-> buckets, bmin |-> bmin]
             Is(f) == f = [j \in 0..n |-> IF j = 0 THEN start
                                          ELSE EnterBucket(f[j - 1], buckets[i][j], bmin[i])]
             step == [p \in (1..n) \X Heaps |-> EnterBucket(p[2], buckets[i][p[1]], bmin[i])]
  <1>1. ASSUME NEW j \in 1..n, NEW w \in Heaps
        PROVE  /\ step[<<j, w>>] = EnterBucket(w, buckets[i][j], bmin[i])
               /\ EnterBucket(w, buckets[i][j], bmin[i]) \in Heaps
    <2>1. buckets[i][j] \in Items /\ bmin[i] \in Words BY RowIs
    <2>2. EnterBucket(w, buckets[i][j], bmin[i]) \in Heaps BY <2>1, EnterIs
    <2>3. <<j, w>> \in (1..n) \X Heaps OBVIOUS
    <2> QED BY <2>2, <2>3
  <1> HIDE DEF step
  <1>2. StaysIn(Heaps, n, step) BY <1>1 DEF StaysIn
  <1>3. start \in Heaps BY DEF Heaps
  <1> HIDE DEF start
  <1>4. PICK f \in [0..n -> Heaps] : Goes(f, n, start, step)
    BY <1>2, <1>3, Recursion
  <1>5. ASSUME NEW j \in 1..n
        PROVE  f[j] = EnterBucket(f[j - 1], buckets[i][j], bmin[i])
    <2>1. f[j - 1] \in Heaps
      <3>1. j - 1 \in 0..n OBVIOUS
      <3> QED BY <3>1
    <2> QED BY <2>1, <1>1, <1>4 DEF Goes
  <1>6. Is(f)
    <2>1. ASSUME NEW j \in 0..n
          PROVE  f[j] = IF j = 0 THEN start ELSE EnterBucket(f[j - 1], buckets[i][j], bmin[i])
      <3>1. j = 0 \/ j \in 1..n OBVIOUS
      <3> QED BY <3>1, <1>4, <1>5 DEF Goes
    <2>2. f = [j \in 0..n |-> f[j]] OBVIOUS
    <2> QED BY <2>1, <2>2
  <1> DEFINE h == CHOOSE f0 : Is(f0)
  <1>7. Is(h)
    <2> HIDE DEF Is
    <2> QED BY <1>6
  <1>8. Spread(i, n) = h[n]
    BY DEF Spread, start
  <1> HIDE DEF h
  <1>9. h[0] = start BY <1>7
  <1>10. ASSUME NEW j \in 1..n
         PROVE  h[j] = EnterBucket(h[j - 1], buckets[i][j], bmin[i])
    <2>1. j \in 0..n /\ j # 0 OBVIOUS
    <2> QED BY <2>1, <1>7
  <1> QED BY <1>8, <1>9, <1>10 DEF start

-----------------------------------------------------------------------------
(* Spreading the first bucket that is not empty. *)

\* What is in T, but for the first j items of bucket i.
LeftIn(b, T, i, j) == {p \in Picked(b, T) : ~ (p[1] = i /\ p[2] <= j)}

\* An item that leaves bucket i and enters another one is still counted once.
LEMMA MovedOnce ==
  ASSUME NEW b \in Rows, NEW T, NEW i \in 0..Bits, NEW k \in 0..Bits, k # i,
         NEW j \in 1..Len(b[i]), NEW it, it = b[i][j],
         NEW c, c = Entered(b, k, it)
  PROVE  Cardinality(LeftIn(c, T, i, j)) = Cardinality(LeftIn(b, T, i, j - 1))
  <1> DEFINE old == <<i, j>>
             n == Len(b[k]) + 1
             new == <<k, n>>
             A == LeftIn(b, T, i, j - 1)
             B == LeftIn(c, T, i, j)
  <1>0. j \in Nat /\ Len(b[i]) \in Nat /\ Len(b[k]) \in Nat BY RowIs
  <1>9. it \in Items BY RowIs
  <1>1. /\ new \notin Picked(b, T)
        /\ \A q : q \in Picked(c, T) <=> q \in Picked(b, T) \/ (it \in T /\ q = new)
    BY <1>9, PickedAppend
  <1>2. old \in Picked(b, T) <=> it \in T
    <2>1. old[1] = i /\ old[2] = j /\ old = <<old[1], old[2]>> OBVIOUS
    <2> HIDE DEF old
    <2> QED BY <2>1, PickedIs
  <1>3. new[1] = k /\ old[1] = i /\ old[2] = j /\ ~ (j <= j - 1) /\ new # old BY <1>0
  <1>4. IsFiniteSet(A) /\ Cardinality(A) \in Nat
    <2>1. IsFiniteSet(Picked(b, T)) BY PickedFinite
    <2>2. A \in SUBSET Picked(b, T) BY DEF LeftIn
    <2> HIDE DEF A
    <2>3. IsFiniteSet(A) BY <2>1, <2>2, FS_Subset
    <2> QED BY <2>3, FS_CardinalityType
  <1>5. ASSUME NEW p \in Picked(b, T)
        PROVE  p \in B <=> p \in A /\ p # old
    <2>1. p = <<p[1], p[2]>> /\ p[2] \in 1..Len(b[p[1]]) /\ p[1] \in 0..Bits
      BY PickedIs
    <2>2. p[2] \in Nat BY <2>1, RowIs
    <2>3. p = old <=> p[1] = i /\ p[2] = j BY <2>1
    <2>4. ~ (p[1] = i /\ p[2] <= j) <=> ~ (p[1] = i /\ p[2] <= j - 1) /\ p # old
      BY <2>2, <2>3, <1>0
    <2>5. p \in Picked(c, T) BY <1>1
    <2> QED BY <2>4, <2>5 DEF LeftIn
  <1>6. CASE it \in T
    <2>1. old \in A BY <1>2, <1>3, <1>6 DEF LeftIn
    <2>2. new \in B /\ new \notin A BY <1>1, <1>3, <1>6 DEF LeftIn
    <2>3. \A p \in B : p \in Picked(b, T) \/ p = new BY <1>1, <1>6 DEF LeftIn
    <2>4. \A p \in A : p \in Picked(b, T) BY DEF LeftIn
    <2> HIDE DEF A, B, old, new
    <2>5. B = (A \ {old}) \cup {new} BY <2>1, <2>2, <2>3, <2>4, <1>5, <1>3
    <2>6. IsFiniteSet(A \ {old}) /\ Cardinality(A \ {old}) = Cardinality(A) - 1
      BY <2>1, <1>4, FS_RemoveElement
    <2>7. new \notin A \ {old} BY <2>2
    <2>8. Cardinality((A \ {old}) \cup {new}) = Cardinality(A \ {old}) + 1
      BY <2>6, <2>7, FS_AddElement
    <2>9. Cardinality(B) = Cardinality(A) BY <2>5, <2>6, <2>8, <1>4
    <2> QED BY <2>9 DEF A, B
  <1>7. CASE it \notin T
    <2>1. \A p \in B : p \in Picked(b, T) BY <1>1, <1>7 DEF LeftIn
    <2>2. \A p \in A : p \in Picked(b, T) /\ p # old BY <1>2, <1>7 DEF LeftIn
    <2> HIDE DEF A, B, old, new
    <2>3. B = A BY <2>1, <2>2, <1>5
    <2> QED BY <2>3 DEF A, B
  <1> QED BY <1>6, <1>7

LEMMA LeastAttained ==
  ASSUME NEW s \in Seq(Items), s # <<>>, NEW w, LeastOf(w, s)
  PROVE  \E j \in 1..Len(s) : s[j].x = w
  <1> SUFFICES ASSUME w = MaxWord PROVE \E j \in 1..Len(s) : s[j].x = w
    BY DEF LeastOf
  <1>1. Len(s) \in Nat /\ Len(s) # 0 BY EmptySeq, LenProperties
  <1>2. 1 \in 1..Len(s) BY <1>1
  <1>3. s[1].x \in Words BY <1>2, KeysAreWords
  <1>4. MaxWord <= s[1].x BY <1>2 DEF LeastOf
  <1>5. s[1].x = MaxWord BY <1>3, <1>4, WordFacts DEF Words
  <1> QED BY <1>2, <1>5

\* The heap after j items of bucket i have been entered elsewhere.
SpreadInv(h, i, j) ==
  /\ h \in Heaps
  /\ \A m \in i..Bits : h.buckets[m] = buckets[m] /\ h.bmin[m] = bmin[m]
  /\ \A m \in 0..(i - 1) : InPlace(bmin[i], h.buckets[m], m)
  /\ \A m \in 1..(i - 1) : LeastOf(h.bmin[m], h.buckets[m])
  /\ \A T \in SUBSET Items :
       Cardinality(LeftIn(h.buckets, T, i, j)) = Cardinality(Picked(buckets, T))

LEMMA SpreadStep ==
  ASSUME HInv, NEW i \in 1..Bits, buckets[i] # <<>>,
         NEW j \in 1..Len(buckets[i]), NEW h, SpreadInv(h, i, j - 1),
         NEW g, g = EnterBucket(h, buckets[i][j], bmin[i])
  PROVE  SpreadInv(g, i, j)
  <1> DEFINE it == buckets[i][j]
             l == bmin[i]
             k == FindBucket(it.x, l)
  <1>0. /\ Bits \in Nat /\ i \in 0..Bits /\ i \in Nat /\ h \in Heaps
        /\ h.buckets \in Rows /\ h.bmin \in [0..Bits -> Words]
    BY WordFacts DEF SpreadInv, Heaps
  <1>1. /\ buckets[i] \in Seq(Items) /\ it \in Items /\ it.x \in Words
        /\ last \in Words /\ l \in Words /\ LeastOf(l, buckets[i])
        /\ InPlace(last, buckets[i], i)
    <2>1. buckets \in Rows /\ last \in Words /\ LeastOf(l, buckets[i])
          /\ InPlace(last, buckets[i], i)
      BY <1>0 DEF HInv
    <2>2. buckets[i] \in Seq(Items) /\ it \in Items BY <2>1, <1>0, RowIs
    <2> QED BY <2>1, <2>2 DEF Items, LeastOf
  <1>2. l <= it.x /\ last <= it.x /\ FindBucket(it.x, last) = i
    BY <1>1 DEF LeastOf, InPlace
  <1>3. last <= l /\ FindBucket(l, last) = i
    <2>1. PICK a \in 1..Len(buckets[i]) : buckets[i][a].x = l BY <1>1, LeastAttained
    <2> QED BY <2>1, <1>1 DEF InPlace
  <1>4. k \in 0..(i - 1)
    <2> HIDE DEF it, l
    <2> QED BY <1>1, <1>2, <1>3, FirstSinks DEF k
  <1>5. k \in 0..Bits /\ k # i /\ k \in Nat BY <1>0, <1>4
  <1> HIDE DEF it, l
  <1>6. /\ g \in Heaps
        /\ g.buckets = Entered(h.buckets, k, it)
        /\ g.bmin[k] = IF it.x < h.bmin[k] THEN it.x ELSE h.bmin[k]
        /\ \A m \in 0..Bits : m # k => g.bmin[m] = h.bmin[m]
    <2>1. g = EnterBucket(h, it, l) BY DEF it, l
    <2>2. h \in Heaps /\ it \in Items /\ l \in Words BY <1>0, <1>1
    <2>3. g \in Heaps BY <2>1, <2>2, EnterIs
    <2>4. g.buckets = Entered(h.buckets, k, it) BY <2>1, <2>2, EnterIs
    <2>5. g.bmin[k] = IF it.x < h.bmin[k] THEN it.x ELSE h.bmin[k] BY <2>1, <2>2, EnterIs
    <2>6. \A m \in 0..Bits : m # k => g.bmin[m] = h.bmin[m] BY <2>1, <2>2, EnterIs
    <2> QED BY <2>3, <2>4, <2>5, <2>6
  <1> HIDE DEF k
  <1>7. /\ g.buckets[k] = Append(h.buckets[k], it)
        /\ \A m \in 0..Bits : m # k => g.buckets[m] = h.buckets[m]
        /\ h.buckets[k] \in Seq(Items)
    <2>1. h.buckets \in Rows /\ k \in 0..Bits /\ it \in Items BY <1>0, <1>1, <1>5
    <2>2. Entered(h.buckets, k, it)[k] = Append(h.buckets[k], it)
      BY <2>1, EnteredIs
    <2>3. \A m \in 0..Bits : m # k => Entered(h.buckets, k, it)[m] = h.buckets[m]
      BY <2>1, EnteredIs
    <2>4. h.buckets[k] \in Seq(Items) BY <2>1, RowIs
    <2> QED BY <2>2, <2>3, <2>4, <1>6
  <1>8. ASSUME NEW m \in i..Bits
        PROVE  g.buckets[m] = buckets[m] /\ g.bmin[m] = bmin[m]
    <2>1. m \in 0..Bits /\ m # k BY <1>0, <1>4
    <2> QED BY <2>1, <1>6, <1>7 DEF SpreadInv
  <1>9. ASSUME NEW m \in 0..(i - 1) PROVE InPlace(l, g.buckets[m], m)
    <2>1. InPlace(l, h.buckets[m], m) BY DEF SpreadInv, l
    <2>2. m \in 0..Bits BY <1>0
    <2>3. CASE m = k
      <3>1. InPlace(l, Append(h.buckets[k], it), k)
        BY <2>1, <2>3, <1>1, <1>2, <1>7, InPlaceAppend DEF k
      <3> QED BY <3>1, <2>3, <1>7
    <2>4. CASE m # k BY <2>1, <2>2, <2>4, <1>7
    <2> QED BY <2>3, <2>4
  <1>10. ASSUME NEW m \in 1..(i - 1) PROVE LeastOf(g.bmin[m], g.buckets[m])
    <2>1. LeastOf(h.bmin[m], h.buckets[m]) BY DEF SpreadInv
    <2>2. m \in 0..Bits BY <1>0
    <2>3. CASE m = k
      <3>1. LeastOf(g.bmin[k], Append(h.buckets[k], it))
        BY <2>1, <2>3, <1>1, <1>6, <1>7, LeastAppend
      <3> QED BY <3>1, <2>3, <1>7
    <2>4. CASE m # k BY <2>1, <2>2, <2>4, <1>6, <1>7
    <2> QED BY <2>3, <2>4
  <1>11. ASSUME NEW T \in SUBSET Items
         PROVE  Cardinality(LeftIn(g.buckets, T, i, j)) = Cardinality(Picked(buckets, T))
    <2>1. h.buckets[i] = buckets[i]
      <3>1. i \in i..Bits BY <1>0
      <3> QED BY <3>1 DEF SpreadInv
    <2>2. j \in 1..Len(h.buckets[i]) /\ it = h.buckets[i][j] BY <2>1 DEF it
    <2>3. Cardinality(LeftIn(g.buckets, T, i, j))
            = Cardinality(LeftIn(h.buckets, T, i, j - 1))
      BY <2>2, <1>0, <1>5, <1>6, MovedOnce
    <2> QED BY <2>3 DEF SpreadInv
  <1> QED BY <1>6, <1>8, <1>9, <1>10, <1>11 DEF SpreadInv, l

LEMMA SpreadIs ==
  ASSUME HInv, NEW i \in 1..Bits, buckets[i] # <<>>,
         \A m \in 0..(i - 1) : buckets[m] = <<>>
  PROVE  SpreadInv(Spread(i, Len(buckets[i])), i, Len(buckets[i]))
  <1> DEFINE n == Len(buckets[i])
  <1>0. /\ Bits \in Nat /\ i \in 0..Bits /\ buckets \in Rows /\ bmin \in [0..Bits -> Words]
        /\ n \in Nat
    <2>1. i \in 0..Bits /\ Bits \in Nat BY WordFacts
    <2> QED BY <2>1, RowIs DEF HInv
  <1>1. PICK h : /\ Spread(i, n) = h[n]
                 /\ h[0] = [buckets |-> buckets, bmin |-> bmin]
                 /\ \A j \in 1..n : h[j] = EnterBucket(h[j - 1], buckets[i][j], bmin[i])
    BY <1>0, SpreadUnfolds
  <1> DEFINE S == {j \in Nat : j <= n => SpreadInv(h[j], i, j)}
  <1>2. SpreadInv(h[0], i, 0)
    <2>1. h[0] \in Heaps /\ h[0].buckets = buckets /\ h[0].bmin = bmin
      BY <1>0, <1>1 DEF Heaps
    <2>2. ASSUME NEW m \in 0..(i - 1) PROVE InPlace(bmin[i], buckets[m], m)
      <3>1. Len(buckets[m]) = 0 BY EmptySeq
      <3> QED BY <3>1 DEF InPlace
    <2>3. ASSUME NEW m \in 1..(i - 1) PROVE LeastOf(bmin[m], buckets[m])
      <3>1. m \in 1..Bits BY <1>0
      <3> QED BY <3>1 DEF HInv
    <2>4. ASSUME NEW T \in SUBSET Items PROVE LeftIn(buckets, T, i, 0) = Picked(buckets, T)
      <3>1. ASSUME NEW p \in Picked(buckets, T) PROVE ~ (p[1] = i /\ p[2] <= 0)
        <4>1. p[2] \in 1..Len(buckets[p[1]]) /\ p[1] \in 0..Bits BY PickedIs
        <4> QED BY <4>1, <1>0, RowIs
      <3> QED BY <3>1 DEF LeftIn
    <2> QED BY <2>1, <2>2, <2>3, <2>4 DEF SpreadInv
  <1>3. 0 \in S BY <1>2
  <1>4. ASSUME NEW j \in Nat, j \in S PROVE j + 1 \in S
    <2> SUFFICES ASSUME j + 1 <= n PROVE SpreadInv(h[j + 1], i, j + 1)
      OBVIOUS
    <2>1. PICK a \in 1..n : a = j + 1 BY <1>0
    <2>2. a - 1 = j /\ SpreadInv(h[j], i, j) BY <2>1, <1>0, <1>4
    <2>3. SpreadInv(h[a], i, a)
      <3>1. SpreadInv(h[a - 1], i, a - 1) BY <2>2
      <3>2. h[a] = EnterBucket(h[a - 1], buckets[i][a], bmin[i]) BY <1>1
      <3> QED BY <3>1, <3>2, SpreadStep
    <2> QED BY <2>1, <2>3
  <1>5. \A j \in Nat : j \in S
    <2> HIDE DEF S
    <2> QED BY <1>3, <1>4, Induct
  <1> QED BY <1>0, <1>1, <1>5

-----------------------------------------------------------------------------
(* pull. *)

LEMMA SpotsArePicked ==
  ASSUME NEW b \in Rows
  PROVE  SpotsOf(b) = Picked(b, Items)
  <1>1. ASSUME NEW p \in SpotsOf(b) PROVE b[p[1]][p[2]] \in Items
    <2>1. p[1] \in 0..Bits /\ p[2] \in 1..Len(b[p[1]]) BY SpotIs
    <2> QED BY <2>1, RowIs
  <1> QED BY <1>1 DEF Picked

\* What a set of items is that has as many places in two heaps.
LEMMA SomePicked ==
  ASSUME NEW b \in Rows, NEW c \in Rows, NEW T,
         Cardinality(Picked(b, T)) = Cardinality(Picked(c, T))
  PROVE  Picked(b, T) = {} <=> Picked(c, T) = {}
  BY PickedFinite, FS_EmptySet

LEMMA NotEmpty ==
  ASSUME NEW s \in Seq(Items), NEW j \in 1..Len(s)
  PROVE  s # <<>>
  <1>1. Len(s) \in Nat /\ Len(s) # 0 BY LenProperties
  <1> QED BY <1>1, EmptySeq

\* The state after pull: that of a heap whose bucket 0 is not empty, with the
\* same items.
PullInv(P) ==
  /\ P.last \in Words /\ P.buckets \in Rows /\ P.bmin \in [0..Bits -> Words]
  /\ \A k \in 0..Bits : InPlace(P.last, P.buckets[k], k)
  /\ \A k \in 1..Bits : LeastOf(P.bmin[k], P.buckets[k])
  /\ P.buckets[0] # <<>>
  /\ \A T \in SUBSET Items :
       Cardinality(Picked(P.buckets, T)) = Cardinality(Picked(buckets, T))

LEMMA PulledIs ==
  ASSUME HInv, NEW i \in 1..Bits, buckets[i] # <<>>,
         \A m \in 0..(i - 1) : buckets[m] = <<>>
  PROVE  PullInv(Pulled(i))
  <1> DEFINE n == Len(buckets[i])
             h == Spread(i, n)
             l == bmin[i]
             c == Cleared(h.buckets, i)
             d == [h.bmin EXCEPT ![i] = MaxWord]
  <1>0. /\ Bits \in Nat /\ 0 \in 0..Bits /\ i \in Nat /\ i \in 0..Bits /\ MaxWord \in Words
        /\ buckets \in Rows /\ last \in Words /\ l \in Words
    BY WordFacts DEF HInv, Words
  <1>1. SpreadInv(h, i, n) BY SpreadIs
  <1>2. Pulled(i) = [last |-> l, buckets |-> c, bmin |-> d] BY DEF Pulled, Cleared
  <1> HIDE DEF h
  <1>3. h.buckets \in Rows /\ h.bmin \in [0..Bits -> Words] BY <1>1 DEF SpreadInv, Heaps
  <1>4. /\ c \in Rows /\ c[i] = <<>>
        /\ \A m \in 0..Bits : m # i => c[m] = h.buckets[m]
    BY <1>0, <1>3, ClearedIs
  <1>5. /\ d \in [0..Bits -> Words] /\ d[i] = MaxWord
        /\ \A m \in 0..Bits : m # i => d[m] = h.bmin[m]
    BY <1>0, <1>3
  <1>6. ASSUME NEW T PROVE Picked(c, T) = {p \in Picked(h.buckets, T) : p[1] # i}
    BY <1>0, <1>3, PickedClear
  <1> HIDE DEF c, d
  <1>7. ASSUME NEW T \in SUBSET Items
        PROVE  Cardinality(Picked(c, T)) = Cardinality(Picked(buckets, T))
    <2>1. h.buckets[i] = buckets[i]
      <3>1. i \in i..Bits BY <1>0
      <3> QED BY <3>1, <1>1 DEF SpreadInv
    <2>2. ASSUME NEW p \in Picked(h.buckets, T)
          PROVE  p[1] # i <=> ~ (p[1] = i /\ p[2] <= n)
      <3>1. p[2] \in 1..Len(h.buckets[p[1]]) BY PickedIs
      <3> QED BY <3>1, <2>1
    <2>3. Picked(c, T) = LeftIn(h.buckets, T, i, n)
      BY <1>6, <2>2 DEF LeftIn
    <2> QED BY <2>3, <1>1 DEF SpreadInv
  <1> HIDE DEF n
  <1>8. LeastOf(l, buckets[i]) /\ InPlace(last, buckets[i], i) /\ buckets[i] \in Seq(Items)
    BY <1>0, RowIs DEF HInv
  <1>9. PICK a \in 1..Len(buckets[i]) : buckets[i][a].x = l
    BY <1>8, LeastAttained
  <1>10. last <= l /\ FindBucket(l, last) = i
    BY <1>8, <1>9 DEF InPlace
  <1> HIDE DEF l
  <1>11. ASSUME NEW k \in 0..Bits PROVE InPlace(l, c[k], k)
    <2>1. CASE k < i
      <3>1. k \in 0..(i - 1) /\ c[k] = h.buckets[k] BY <2>1, <1>0, <1>4
      <3> QED BY <3>1, <1>1 DEF SpreadInv, l
    <2>2. CASE k = i
      <3>1. Len(c[k]) = 0 BY <2>2, <1>4
      <3> QED BY <3>1 DEF InPlace
    <2>3. CASE i < k
      <3>1. k \in i..Bits /\ c[k] = h.buckets[k] BY <2>3, <1>0, <1>4
      <3>2. c[k] = buckets[k] BY <3>1, <1>1 DEF SpreadInv
      <3> SUFFICES ASSUME NEW j \in 1..Len(buckets[k])
                   PROVE  l <= buckets[k][j].x /\ FindBucket(buckets[k][j].x, l) = k
        BY <3>2 DEF InPlace
      <3>3. PICK x \in Words : x = buckets[k][j].x
        BY <1>0, RowIs, KeysAreWords
      <3>4. last <= x /\ FindBucket(x, last) = k BY <3>3 DEF HInv, InPlace
      <3>5. l < x /\ FindBucket(x, l) = k
        BY <3>4, <2>3, <1>0, <1>10, LaterStay
      <3>6. l <= x BY <3>5, <1>0 DEF Words
      <3> QED BY <3>3, <3>5, <3>6
    <2> QED BY <2>1, <2>2, <2>3, <1>0
  <1>12. ASSUME NEW k \in 1..Bits PROVE LeastOf(d[k], c[k])
    <2>0. k \in 0..Bits /\ k \in Nat BY <1>0
    <2>1. CASE k < i
      <3>1. k \in 1..(i - 1) /\ c[k] = h.buckets[k] /\ d[k] = h.bmin[k]
        BY <2>0, <2>1, <1>0, <1>4, <1>5
      <3> QED BY <3>1, <1>1 DEF SpreadInv
    <2>2. CASE k = i
      <3>1. Len(c[k]) = 0 BY <2>2, <1>4
      <3> QED BY <3>1, <2>2, <1>0, <1>5 DEF LeastOf
    <2>3. CASE i < k
      <3>1. k \in i..Bits /\ c[k] = h.buckets[k] /\ d[k] = h.bmin[k]
        BY <2>0, <2>3, <1>0, <1>4, <1>5
      <3>2. c[k] = buckets[k] /\ d[k] = bmin[k] BY <3>1, <1>1 DEF SpreadInv
      <3> QED BY <3>2 DEF HInv
    <2> QED BY <2>0, <2>1, <2>2, <2>3, <1>0
  <1>13. c[0] # <<>>
    <2> DEFINE T == {it \in Items : it.x = l}
    <2>1. T \in SUBSET Items OBVIOUS
    <2>2. <<i, a>> \in Picked(buckets, T)
      <3>1. buckets[i][a] \in T BY <1>9, <1>0, RowIs DEF l
      <3>2. <<i, a>>[1] = i /\ <<i, a>>[2] = a OBVIOUS
      <3> HIDE DEF T
      <3> QED BY <3>1, <3>2, <1>0, PickedIs
    <2>3. PICK p : p \in Picked(c, T)
      <3> HIDE DEF T
      <3> QED BY <2>1, <2>2, <1>0, <1>4, <1>7, SomePicked
    <2>4. /\ p[1] \in 0..Bits /\ p[2] \in 1..Len(c[p[1]])
          /\ c[p[1]][p[2]].x = l
      BY <2>3, PickedIs
    <2>5. FindBucket(l, l) = p[1] BY <2>4, <1>11 DEF InPlace
    <2>6. p[1] = 0 BY <2>5, <1>0, BucketOf
    <2>7. c[0] \in Seq(Items) BY <1>0, <1>4, RowIs
    <2> QED BY <2>4, <2>6, <2>7, NotEmpty
  <1> QED BY <1>0, <1>2, <1>4, <1>5, <1>7, <1>11, <1>12, <1>13 DEF PullInv

LEMMA PullIs ==
  ASSUME HInv, size > 0
  PROVE  PullInv(Pull)
  <1>0. /\ Bits \in Nat /\ 0 \in 0..Bits /\ buckets \in Rows
        /\ last \in Words /\ bmin \in [0..Bits -> Words]
    BY WordFacts DEF HInv
  <1>1. CASE buckets[0] # <<>>
    <2>1. Pull = [last |-> last, buckets |-> buckets, bmin |-> bmin]
      BY <1>1 DEF Pull
    <2> QED BY <2>1, <1>0, <1>1 DEF PullInv, HInv
  <1>2. CASE buckets[0] = <<>>
    <2> DEFINE S == {i \in 1..Bits : buckets[i] # <<>>}
    <2>1. SpotsOf(buckets) # {}
      <3>1. Cardinality(SpotsOf(buckets)) # 0 BY DEF HInv
      <3> QED BY <3>1, FS_EmptySet
    <2>2. PICK p : p \in SpotsOf(buckets) BY <2>1
    <2>3. p[1] \in 0..Bits /\ p[2] \in 1..Len(buckets[p[1]]) BY <2>2, SpotIs
    <2>4. buckets[p[1]] # <<>>
      <3>1. buckets[p[1]] \in Seq(Items) BY <2>3, <1>0, RowIs
      <3> QED BY <3>1, <2>3, NotEmpty
    <2>5. p[1] \in S BY <2>3, <2>4, <1>2, <1>0
    <2>6. S \subseteq Nat OBVIOUS
    <2>7. Min(S) \in S /\ \A m \in S : Min(S) <= m
      <3> HIDE DEF S
      <3> QED BY <2>5, <2>6, LeastIn
    <2>8. PICK i \in S : i = Min(S) /\ \A m \in S : i <= m BY <2>7
    <2>9. ASSUME NEW m \in 0..(i - 1) PROVE buckets[m] = <<>>
      <3>1. m \in 0..Bits /\ m \in Nat /\ ~ (i <= m) BY <1>0
      <3>2. m \notin S BY <3>1, <2>8
      <3>3. m = 0 \/ m \in 1..Bits BY <3>1, <1>0
      <3> QED BY <3>2, <3>3, <1>2
    <2>10. Pull = Pulled(i) BY <1>2, <2>8 DEF Pull
    <2>11. i \in 1..Bits /\ buckets[i] # <<>> OBVIOUS
    <2> QED BY <2>9, <2>10, <2>11, PulledIs
  <1> QED BY <1>1, <1>2
-----------------------------------------------------------------------------
(* The invariant. *)

\* A heap without items.
LEMMA EmptyIs ==
  ASSUME NEW b, b = [k \in 0..Bits |-> <<>>]
  PROVE  b \in Rows /\ SpotsOf(b) = {}
  <1>1. b \in Rows BY DEF Rows
  <1>2. \A k \in 0..Bits : Len(b[k]) = 0 OBVIOUS
  <1>3. ASSUME NEW p \in SpotsOf(b) PROVE FALSE
    <2>1. p[1] \in 0..Bits /\ p[2] \in 1..Len(b[p[1]]) BY SpotIs
    <2>2. p[2] \in 1..0 BY <2>1, <1>2
    <2> QED BY <2>2
  <1> QED BY <1>1, <1>3

LEMMA EmptyInv ==
  ASSUME NEW l, l = 0, NEW b, b = [k \in 0..Bits |-> <<>>],
         NEW m, m = [k \in 0..Bits |-> MaxWord], NEW n, n = 0
  PROVE  /\ l \in Words /\ b \in Rows /\ m \in [0..Bits -> Words]
         /\ n = Cardinality(SpotsOf(b))
         /\ \A k \in 0..Bits : InPlace(l, b[k], k)
         /\ \A k \in 1..Bits : LeastOf(m[k], b[k])
  <1>1. 0 \in Words /\ MaxWord \in Words /\ \A k \in 1..Bits : k \in 0..Bits
    BY WordFacts DEF Words
  <1>2. \A k \in 0..Bits : Len(b[k]) = 0 OBVIOUS
  <1>3. b \in Rows /\ Cardinality(SpotsOf(b)) = 0
    BY EmptyIs, FS_EmptySet
  <1>4. ASSUME NEW k \in 0..Bits PROVE InPlace(l, b[k], k)
    BY <1>2 DEF InPlace
  <1>5. ASSUME NEW k \in 1..Bits PROVE LeastOf(m[k], b[k])
    BY <1>1, <1>2 DEF LeastOf
  <1> QED BY <1>1, <1>3, <1>4, <1>5

\* The item that push enters.
LEMMA ClampIs ==
  ASSUME last \in Words, NEW key \in Keys, NEW v \in HeapVals,
         NEW it, it = [x |-> Clamp(Encode(key)), val |-> v]
  PROVE  /\ it \in Items /\ last <= it.x
         /\ ItemOf(it) = [key |-> IF key < Decode(last) THEN Decode(last) ELSE key,
                          val |-> v]
  <1>1. /\ HalfWord \in Nat /\ MaxWord \in Nat /\ MaxWord = 2 * HalfWord - 1
        /\ last \in 0..MaxWord /\ key \in -HalfWord .. HalfWord - 1
    BY WordFacts DEF Words, Keys
  <1>2. Encode(key) = key + HalfWord /\ Encode(key) \in Words
    BY <1>1 DEF Encode, Words
  <1>3. Clamp(Encode(key)) = IF last > Encode(key) THEN last ELSE Encode(key)
    BY DEF Clamp
  <1>4. it.x \in Words /\ last <= it.x
    BY <1>1, <1>2, <1>3
  <1>5. it.x - HalfWord = IF key < last - HalfWord THEN last - HalfWord ELSE key
    BY <1>1, <1>2, <1>3
  <1>6. ItemOf(it) = [key |-> it.x - HalfWord, val |-> v]
    BY DEF ItemOf, Decode
  <1>7. it \in Items BY <1>4 DEF Items
  <1> QED BY <1>4, <1>5, <1>6, <1>7 DEF Decode

\* What push leaves.
LEMMA PushIs ==
  ASSUME HInv, NEW key \in Keys, NEW v \in HeapVals, Push(key, v)
  PROVE  /\ HInv'
         /\ \E it \in Items, k \in 0..Bits :
              /\ it = [x |-> Clamp(Encode(key)), val |-> v]
              /\ buckets' = Entered(buckets, k, it)
  <1> DEFINE it == [x |-> Clamp(Encode(key)), val |-> v]
             h == [buckets |-> buckets, bmin |-> bmin]
             g == EnterBucket(h, it, last)
             k == FindBucket(it.x, last)
  <1>1. last \in Words /\ buckets \in Rows /\ bmin \in [0..Bits -> Words] BY DEF HInv
  <1>2. it \in Items /\ last <= it.x BY <1>1, ClampIs
  <1>3. buckets' = g.buckets /\ bmin' = g.bmin /\ size' = size + 1 /\ last' = last
    BY DEF Push
  <1>4. h \in Heaps /\ h.buckets = buckets /\ h.bmin = bmin BY <1>1 DEF Heaps
  <1> HIDE DEF it, h
  <1>5. /\ k \in 0..Bits /\ g \in Heaps /\ g.buckets = Entered(buckets, k, it)
        /\ g.bmin[k] = IF it.x < bmin[k] THEN it.x ELSE bmin[k]
        /\ \A m \in 0..Bits : m # k => g.bmin[m] = bmin[m]
    <2>1. k \in 0..Bits BY <1>1, <1>2, <1>4, EnterIs
    <2>2. g \in Heaps BY <1>1, <1>2, <1>4, EnterIs
    <2>3. g.buckets = Entered(buckets, k, it) BY <1>1, <1>2, <1>4, EnterIs
    <2>4. g.bmin[k] = IF it.x < bmin[k] THEN it.x ELSE bmin[k]
      BY <1>1, <1>2, <1>4, EnterIs
    <2>5. \A m \in 0..Bits : m # k => g.bmin[m] = bmin[m]
      BY <1>1, <1>2, <1>4, EnterIs
    <2> QED BY <2>1, <2>2, <2>3, <2>4, <2>5
  <1>6. FindBucket(it.x, last) = k OBVIOUS
  <1> HIDE DEF g, k
  <1>7. buckets' \in Rows /\ bmin' \in [0..Bits -> Words]
    BY <1>3, <1>5 DEF Heaps
  <1>8. /\ buckets'[k] = Append(buckets[k], it)
        /\ \A m \in 0..Bits : m # k => buckets'[m] = buckets[m]
    BY <1>1, <1>2, <1>3, <1>5, EnteredIs
  <1>9. buckets[k] \in Seq(Items) BY <1>1, <1>5, RowIs
  <1>10. ASSUME NEW m \in 0..Bits PROVE InPlace(last, buckets'[m], m)
    <2>1. InPlace(last, buckets[m], m) BY DEF HInv
    <2>2. CASE m = k
      <3>1. InPlace(last, Append(buckets[k], it), k)
        BY <2>1, <2>2, <1>2, <1>6, <1>9, InPlaceAppend
      <3> QED BY <3>1, <2>2, <1>8
    <2>3. CASE m # k BY <2>1, <2>3, <1>8
    <2> QED BY <2>2, <2>3
  <1>11. ASSUME NEW m \in 1..Bits PROVE LeastOf(bmin'[m], buckets'[m])
    <2>1. LeastOf(bmin[m], buckets[m]) /\ m \in 0..Bits BY DEF HInv
    <2>2. CASE m = k
      <3>1. LeastOf(IF it.x < bmin[k] THEN it.x ELSE bmin[k], Append(buckets[k], it))
        BY <2>1, <2>2, <1>2, <1>9, LeastAppend
      <3> QED BY <3>1, <2>2, <1>3, <1>5, <1>8
    <2>3. CASE m # k BY <2>1, <2>3, <1>3, <1>5, <1>8
    <2> QED BY <2>2, <2>3
  <1>12. size' = Cardinality(SpotsOf(buckets'))
    <2> DEFINE p == <<k, Len(buckets[k]) + 1>>
               A == Picked(buckets, Items)
    <2>1. SpotsOf(buckets) = A /\ SpotsOf(buckets') = Picked(buckets', Items)
      BY <1>1, <1>7, SpotsArePicked
    <2>2. p \notin A /\ \A q : q \in Picked(buckets', Items) <=> q \in A \/ q = p
      BY <1>1, <1>2, <1>3, <1>5, PickedAppend
    <2>3. IsFiniteSet(A) BY <1>1, PickedFinite
    <2> HIDE DEF p, A
    <2>4. Picked(buckets', Items) = A \cup {p} BY <2>2
    <2>5. Cardinality(A \cup {p}) = Cardinality(A) + 1 BY <2>2, <2>3, FS_AddElement
    <2>6. size = Cardinality(A) BY <2>1 DEF HInv
    <2> QED BY <2>1, <2>4, <2>5, <2>6, <1>3
  <1>13. HInv' BY <1>1, <1>3, <1>7, <1>10, <1>11, <1>12 DEF HInv
  <1>14. buckets' = Entered(buckets, k, it) BY <1>3, <1>5
  <1> QED BY <1>2, <1>5, <1>13, <1>14 DEF it

LEMMA LookIs ==
  ASSUME HInv, Look
  PROVE  HInv'
  <1>1. PullInv(Pull) /\ last' = Pull.last /\ buckets' = Pull.buckets
        /\ bmin' = Pull.bmin /\ size' = size
    BY PullIs DEF Look
  <1>2. /\ last' \in Words /\ buckets' \in Rows /\ bmin' \in [0..Bits -> Words]
        /\ \A k \in 0..Bits : InPlace(last', buckets'[k], k)
        /\ \A k \in 1..Bits : LeastOf(bmin'[k], buckets'[k])
    BY <1>1 DEF PullInv
  <1>3. size' = Cardinality(SpotsOf(buckets'))
    <2>1. SpotsOf(buckets) = Picked(buckets, Items) /\ SpotsOf(buckets') = Picked(buckets', Items)
      BY <1>2, SpotsArePicked DEF HInv
    <2>2. Cardinality(Picked(buckets', Items)) = Cardinality(Picked(buckets, Items))
      BY <1>1 DEF PullInv
    <2> QED BY <2>1, <2>2, <1>1 DEF HInv
  <1> QED BY <1>2, <1>3 DEF HInv

LEMMA PopIs ==
  ASSUME HInv, Pop
  PROVE  HInv' /\ buckets' = Shortened(Pull.buckets, 0)
  <1> DEFINE b == Pull.buckets
  <1>1. PullInv(Pull) /\ last' = Pull.last /\ bmin' = Pull.bmin /\ size' = size - 1
    BY PullIs DEF Pop
  <1>2. buckets' = Shortened(b, 0) BY DEF Pop, Shortened
  <1>3. /\ last' \in Words /\ b \in Rows /\ bmin' \in [0..Bits -> Words] /\ b[0] # <<>>
        /\ \A k \in 0..Bits : InPlace(last', b[k], k)
        /\ \A k \in 1..Bits : LeastOf(bmin'[k], b[k])
        /\ 0 \in 0..Bits /\ \A k \in 1..Bits : k \in 0..Bits /\ k # 0
    BY <1>1, WordFacts DEF PullInv
  <1> HIDE DEF b
  <1>4. /\ buckets' \in Rows /\ Len(buckets'[0]) = Len(b[0]) - 1 /\ Len(b[0]) \in Nat
        /\ \A j \in 1..Len(buckets'[0]) : buckets'[0][j] = b[0][j]
        /\ \A m \in 0..Bits : m # 0 => buckets'[m] = b[m]
    BY <1>2, <1>3, ShortenedIs
  <1>5. ASSUME NEW k \in 0..Bits PROVE InPlace(last', buckets'[k], k)
    <2>1. CASE k = 0
      <3>1. ASSUME NEW j \in 1..Len(buckets'[0])
            PROVE  j \in 1..Len(b[0]) /\ buckets'[0][j] = b[0][j]
        BY <1>4
      <3> QED BY <3>1, <2>1, <1>3 DEF InPlace
    <2>2. CASE k # 0 BY <2>2, <1>3, <1>4
    <2> QED BY <2>1, <2>2
  <1>6. \A k \in 1..Bits : LeastOf(bmin'[k], buckets'[k]) BY <1>3, <1>4
  <1>7. size' = Cardinality(SpotsOf(buckets'))
    <2> DEFINE A == Picked(b, Items)
               B == Picked(buckets', Items)
               p == <<0, Len(b[0])>>
    <2>1. SpotsOf(b) = A /\ SpotsOf(buckets') = B /\ SpotsOf(buckets) = Picked(buckets, Items)
      BY <1>3, <1>4, SpotsArePicked DEF HInv
    <2>2. Cardinality(A) = Cardinality(Picked(buckets, Items))
      BY <1>1 DEF PullInv, b
    <2>3. p \in SpotsOf(b) /\ \A q : q \in B <=> q \in A /\ q # p
      BY <1>2, <1>3, PickedFront
    <2>4. IsFiniteSet(A) BY <1>3, PickedFinite
    <2> HIDE DEF A, B, p
    <2>5. B = A \ {p} /\ p \in A BY <2>1, <2>3
    <2>6. Cardinality(A \ {p}) = Cardinality(A) - 1 BY <2>4, <2>5, FS_RemoveElement
    <2> QED BY <2>1, <2>2, <2>5, <2>6, <1>1 DEF HInv
  <1>8. HInv' BY <1>3, <1>4, <1>5, <1>6, <1>7 DEF HInv
  <1> QED BY <1>2, <1>8 DEF b

\* Every call leaves each item in the bucket of its key, no key below last_,
\* and the minimum of every bucket but the first exact: radix_heap::push,
\* pull, pop and clear, for keys of any number of bits and any number of items.
THEOREM HeapSafe == HeapSpec => []HInv
  <1>1. HeapInit => HInv
    BY EmptyInv DEF HeapInit, HInv
  <1>2. ASSUME HInv, [HeapNext]_heapVars PROVE HInv'
    <2>1. CASE \E key \in Keys, v \in HeapVals : Push(key, v) BY <2>1, <1>2, PushIs
    <2>2. CASE Look BY <2>2, <1>2, LookIs
    <2>3. CASE Pop BY <2>3, <1>2, PopIs
    <2>4. CASE Clear
      <3>1. /\ last' = 0 /\ buckets' = [k \in 0..Bits |-> <<>>]
            /\ bmin' = [k \in 0..Bits |-> MaxWord] /\ size' = 0
        BY <2>4 DEF Clear
      <3> QED BY <3>1, EmptyInv DEF HInv
    <2>5. CASE UNCHANGED heapVars BY <2>5, <1>2 DEF HInv, heapVars
    <2> QED BY <1>2, <2>1, <2>2, <2>3, <2>4, <2>5 DEF HeapNext
  <1> QED BY <1>1, <1>2, PTL DEF HeapSpec

LEMMA HeapIsExact ==
  ASSUME HInv
  PROVE  HeapTypeOK /\ BucketsExact
  <1>1. last \in Words /\ buckets \in Rows /\ bmin \in [0..Bits -> Words] BY DEF HInv
  <1>2. HeapTypeOK
    <2>1. DOMAIN buckets = 0..Bits BY <1>1 DEF Rows
    <2>2. \A k \in 0..Bits : buckets[k] \in Seq([x : Words, val : HeapVals])
      BY <1>1 DEF Rows, Items
    <2>3. Spots = SpotsOf(buckets) BY DEF Spots, SpotsOf
    <2> QED BY <1>1, <2>1, <2>2, <2>3 DEF HInv, HeapTypeOK
  <1>3. ASSUME NEW k \in 0..Bits, NEW it \in ToSet(buckets[k])
        PROVE  it.x >= last /\ FindBucket(it.x, last) = k
    <2>1. buckets[k] \in Seq(Items) BY <1>1, RowIs
    <2>2. DOMAIN buckets[k] = 1..Len(buckets[k]) BY <2>1, LenProperties
    <2>3. PICK j \in 1..Len(buckets[k]) : it = buckets[k][j] BY <2>2 DEF ToSet
    <2>4. last <= it.x /\ FindBucket(it.x, last) = k BY <2>3 DEF HInv, InPlace
    <2>5. it.x \in Words BY <2>1, <2>3, KeysAreWords
    <2> QED BY <2>4, <2>5, <1>1 DEF Words
  <1>4. ASSUME NEW k \in 1..Bits
        PROVE  bmin[k] = Min({MaxWord} \cup {it.x : it \in ToSet(buckets[k])})
    <2>1. LeastOf(bmin[k], buckets[k]) /\ k \in 0..Bits BY DEF HInv
    <2>2. buckets[k] \in Seq(Items) BY <2>1, <1>1, RowIs
    <2> QED BY <2>1, <2>2, LeastIsMin
  <1>5. BucketsExact BY <1>3, <1>4 DEF BucketsExact
  <1> QED BY <1>2, <1>5
-----------------------------------------------------------------------------
(* The refinement: the items of the heap as a bag. *)

\* The items that a keyed value stands for, and the bag of a heap.
Kind(e) == {it \in Items : ItemOf(it) = e}

Stock(b) ==
  [e \in {ItemOf(b[p[1]][p[2]]) : p \in SpotsOf(b)} |->
     Cardinality({p \in SpotsOf(b) : ItemOf(b[p[1]][p[2]]) = e})]

LEMMA StockIs ==
  ASSUME NEW b \in Rows
  PROVE  /\ \A e : e \in DOMAIN Stock(b) <=> Picked(b, Kind(e)) # {}
         /\ \A e \in DOMAIN Stock(b) : Stock(b)[e] = Cardinality(Picked(b, Kind(e)))
         /\ Stock(b) = [e \in DOMAIN Stock(b) |-> Stock(b)[e]]
  <1>1. ASSUME NEW p \in SpotsOf(b) PROVE b[p[1]][p[2]] \in Items
    <2>1. p[1] \in 0..Bits /\ p[2] \in 1..Len(b[p[1]]) BY SpotIs
    <2> QED BY <2>1, RowIs
  <1>2. ASSUME NEW e
        PROVE  {p \in SpotsOf(b) : ItemOf(b[p[1]][p[2]]) = e} = Picked(b, Kind(e))
    BY <1>1 DEF Picked, Kind
  <1>3. DOMAIN Stock(b) = {ItemOf(b[p[1]][p[2]]) : p \in SpotsOf(b)} BY DEF Stock
  <1>4. ASSUME NEW e PROVE e \in DOMAIN Stock(b) <=> Picked(b, Kind(e)) # {}
    <2>1. e \in DOMAIN Stock(b) <=> \E p \in SpotsOf(b) : ItemOf(b[p[1]][p[2]]) = e
      BY <1>3
    <2> QED BY <2>1, <1>2
  <1>5. ASSUME NEW e \in DOMAIN Stock(b)
        PROVE  Stock(b)[e] = Cardinality(Picked(b, Kind(e)))
    BY <1>2, <1>3 DEF Stock
  <1>6. Stock(b) = [e \in DOMAIN Stock(b) |-> Stock(b)[e]] BY DEF Stock
  <1> QED BY <1>4, <1>5, <1>6

LEMMA StockCounts ==
  ASSUME NEW b \in Rows, NEW e
  PROVE  /\ e \in DOMAIN Stock(b) => Stock(b)[e] \in Nat \ {0}
         /\ e \notin DOMAIN Stock(b) => Cardinality(Picked(b, Kind(e))) = 0
  BY StockIs, PickedFinite, FS_EmptySet

LEMMA SameStock ==
  ASSUME NEW b \in Rows, NEW c \in Rows,
         \A T \in SUBSET Items : Cardinality(Picked(b, T)) = Cardinality(Picked(c, T))
  PROVE  Stock(b) = Stock(c)
  <1>1. ASSUME NEW e PROVE Cardinality(Picked(b, Kind(e))) = Cardinality(Picked(c, Kind(e)))
    <2>1. Kind(e) \in SUBSET Items BY DEF Kind
    <2> QED BY <2>1
  <1>2. \A e : e \in DOMAIN Stock(b) <=> e \in DOMAIN Stock(c)
    BY <1>1, StockIs, SomePicked
  <1>3. DOMAIN Stock(b) = DOMAIN Stock(c) BY <1>2
  <1>4. \A e \in DOMAIN Stock(b) : Stock(b)[e] = Stock(c)[e] BY <1>1, <1>3, StockIs
  <1> DEFINE f == Stock(b)
             g == Stock(c)
  <1>5. f = [e \in DOMAIN f |-> f[e]] /\ g = [e \in DOMAIN g |-> g[e]] BY StockIs
  <1> HIDE DEF f, g
  <1>6. f = g BY <1>3, <1>4, <1>5 DEF f, g
  <1> QED BY <1>6 DEF f, g

\* A bag with one e more, or one less.
LEMMA OneMore ==
  ASSUME NEW f, NEW g, NEW e,
         f = [d \in DOMAIN f |-> f[d]], g = [d \in DOMAIN g |-> g[d]],
         DOMAIN g = DOMAIN f \cup {e},
         \A d \in DOMAIN f : f[d] \in Nat,
         \A d \in DOMAIN f : d # e => g[d] = f[d],
         g[e] = (IF e \in DOMAIN f THEN f[e] ELSE 0) + 1
  PROVE  g = Queue!(+)(f, Queue!SetToBag({e}))
  <1> DEFINE one == Queue!SetToBag({e})
             r == Queue!(+)(f, one)
  <1>1. DOMAIN one = {e} /\ one[e] = 1 BY DEF Queue!SetToBag
  <1> HIDE DEF one
  <1>2. r = [d \in DOMAIN g |-> (IF d \in DOMAIN f THEN f[d] ELSE 0)
                                + (IF d \in DOMAIN one THEN one[d] ELSE 0)]
    BY <1>1 DEF Queue!(+)
  <1> HIDE DEF r
  <1>3. ASSUME NEW d \in DOMAIN g PROVE r[d] = g[d]
    <2>1. CASE d = e BY <2>1, <1>1, <1>2
    <2>2. CASE d # e
      <3>1. d \in DOMAIN f /\ f[d] \in Nat /\ d \notin DOMAIN one BY <2>2, <1>1
      <3> QED BY <3>1, <2>2, <1>2
    <2> QED BY <2>1, <2>2
  <1>4. r = [d \in DOMAIN g |-> r[d]] BY <1>2
  <1>5. r = g BY <1>3, <1>4
  <1> QED BY <1>5 DEF r, one

LEMMA OneLess ==
  ASSUME NEW f, NEW g, NEW e \in DOMAIN f,
         f = [d \in DOMAIN f |-> f[d]], g = [d \in DOMAIN g |-> g[d]],
         \A d \in DOMAIN f : f[d] \in Nat \ {0},
         \A d : d \in DOMAIN g <=> d \in DOMAIN f /\ (d = e => f[e] # 1),
         \A d \in DOMAIN g : g[d] = IF d = e THEN f[d] - 1 ELSE f[d]
  PROVE  g = Queue!(-)(f, Queue!SetToBag({e}))
  <1> DEFINE one == Queue!SetToBag({e})
             B == [d \in DOMAIN f |-> IF d \in DOMAIN one THEN f[d] - one[d] ELSE f[d]]
             D == {d \in DOMAIN B : B[d] > 0}
             r == Queue!(-)(f, one)
  <1>1. DOMAIN one = {e} /\ one[e] = 1 BY DEF Queue!SetToBag
  <1> HIDE DEF one
  <1>2. r = [d \in D |-> B[d]] BY DEF Queue!(-)
  <1>3. DOMAIN B = DOMAIN f /\ \A d \in DOMAIN f : B[d] = IF d = e THEN f[d] - 1 ELSE f[d]
    BY <1>1
  <1> HIDE DEF B, r
  <1>4. ASSUME NEW d PROVE d \in D <=> d \in DOMAIN g
    <2>1. d \in DOMAIN f => f[d] \in Nat \ {0} OBVIOUS
    <2>2. d \in D <=> d \in DOMAIN f /\ B[d] > 0 BY <1>3
    <2>3. CASE d \in DOMAIN f /\ d = e BY <2>1, <2>2, <2>3, <1>3
    <2>4. CASE d \in DOMAIN f /\ d # e BY <2>1, <2>2, <2>4, <1>3
    <2>5. CASE d \notin DOMAIN f BY <2>2, <2>5
    <2> QED BY <2>3, <2>4, <2>5
  <1> HIDE DEF D
  <1>5. D = DOMAIN g BY <1>4
  <1>6. \A d \in DOMAIN g : B[d] = g[d] BY <1>3
  <1>7. r = g BY <1>2, <1>5, <1>6
  <1> QED BY <1>7 DEF r, one

LEMMA StockEntered ==
  ASSUME NEW b \in Rows, NEW k \in 0..Bits, NEW it \in Items
  PROVE  Stock(Entered(b, k, it)) = Queue!(+)(Stock(b), Queue!SetToBag({ItemOf(it)}))
  <1> DEFINE c == Entered(b, k, it)
             e == ItemOf(it)
             p == <<k, Len(b[k]) + 1>>
             f == Stock(b)
             g == Stock(c)
  <1>1. c \in Rows BY EnteredIs
  <1>2. ASSUME NEW T
        PROVE  /\ p \notin Picked(b, T)
               /\ \A q : q \in Picked(c, T) <=> q \in Picked(b, T) \/ (it \in T /\ q = p)
    BY PickedAppend
  <1>3. it \in Kind(e) /\ \A d : it \in Kind(d) => d = e BY DEF Kind
  <1> HIDE DEF c, e, p
  <1>4. ASSUME NEW d, d # e PROVE Picked(c, Kind(d)) = Picked(b, Kind(d))
    BY <1>2, <1>3, <1>4
  <1>5. /\ Picked(c, Kind(e)) = Picked(b, Kind(e)) \cup {p}
        /\ Cardinality(Picked(c, Kind(e))) = Cardinality(Picked(b, Kind(e))) + 1
    <2> DEFINE A == Picked(b, Kind(e))
               B == Picked(c, Kind(e))
    <2>1. p \notin A /\ \A q : q \in B <=> q \in A \/ q = p BY <1>2, <1>3
    <2>2. IsFiniteSet(A) BY PickedFinite
    <2> HIDE DEF A, B
    <2>3. B = A \cup {p} BY <2>1
    <2>4. Cardinality(A \cup {p}) = Cardinality(A) + 1 BY <2>1, <2>2, FS_AddElement
    <2> QED BY <2>3, <2>4 DEF A, B
  <1>6. /\ f = [d \in DOMAIN f |-> f[d]] /\ g = [d \in DOMAIN g |-> g[d]]
        /\ \A d : d \in DOMAIN f <=> Picked(b, Kind(d)) # {}
        /\ \A d : d \in DOMAIN g <=> Picked(c, Kind(d)) # {}
        /\ \A d \in DOMAIN f : f[d] = Cardinality(Picked(b, Kind(d)))
        /\ \A d \in DOMAIN g : g[d] = Cardinality(Picked(c, Kind(d)))
    BY <1>1, StockIs
  <1>7. /\ \A d \in DOMAIN f : f[d] \in Nat
        /\ Cardinality(Picked(b, Kind(e))) = IF e \in DOMAIN f THEN f[e] ELSE 0
    <2>1. \A d \in DOMAIN f : f[d] \in Nat BY StockCounts
    <2>2. e \notin DOMAIN f => Cardinality(Picked(b, Kind(e))) = 0 BY StockCounts
    <2> QED BY <2>1, <2>2, <1>6
  <1> HIDE DEF f, g
  <1>8. e \in DOMAIN g BY <1>5, <1>6
  <1>9. DOMAIN g = DOMAIN f \cup {e}
    <2>1. \A d : d \in DOMAIN g <=> d \in DOMAIN f \/ d = e BY <1>4, <1>6, <1>8
    <2> QED BY <2>1
  <1>10. \A d \in DOMAIN f : d # e => g[d] = f[d]
    <2> SUFFICES ASSUME NEW d \in DOMAIN f, d # e PROVE g[d] = f[d]
      OBVIOUS
    <2>1. d \in DOMAIN g BY <1>9
    <2> QED BY <2>1, <1>4, <1>6
  <1>11. g[e] = (IF e \in DOMAIN f THEN f[e] ELSE 0) + 1 BY <1>5, <1>6, <1>7, <1>8
  <1>12. g = Queue!(+)(f, Queue!SetToBag({e}))
    BY <1>6, <1>7, <1>9, <1>10, <1>11, OneMore
  <1> QED BY <1>12 DEF f, g, c, e

LEMMA StockShortened ==
  ASSUME NEW b \in Rows, NEW k \in 0..Bits, b[k] # <<>>,
         NEW it, it = b[k][Len(b[k])]
  PROVE  /\ ItemOf(it) \in DOMAIN Stock(b)
         /\ Stock(Shortened(b, k)) = Queue!(-)(Stock(b), Queue!SetToBag({ItemOf(it)}))
  <1> DEFINE c == Shortened(b, k)
             e == ItemOf(it)
             p == <<k, Len(b[k])>>
             f == Stock(b)
             g == Stock(c)
  <1>1. c \in Rows BY ShortenedIs
  <1>2. /\ p \in SpotsOf(b)
        /\ \A T : \A q : q \in Picked(c, T) <=> q \in Picked(b, T) /\ q # p
    <2>1. p \in SpotsOf(b) BY PickedFront
    <2>2. ASSUME NEW T, NEW q
          PROVE  q \in Picked(c, T) <=> q \in Picked(b, T) /\ q # p
      BY PickedFront
    <2> QED BY <2>1, <2>2
  <1>3. it \in Items
    <2>1. Len(b[k]) \in Nat \ {0} BY ShortenedIs
    <2> QED BY <2>1, RowIs
  <1>4. it \in Kind(e) /\ \A d : it \in Kind(d) => d = e BY <1>3 DEF Kind
  <1>5. \A T : p \in Picked(b, T) <=> it \in T
    <2>1. p[1] = k /\ p[2] = Len(b[k]) OBVIOUS
    <2> HIDE DEF p
    <2> QED BY <2>1, <1>2 DEF Picked
  <1> HIDE DEF c, e, p
  <1>6. ASSUME NEW d, d # e PROVE Picked(c, Kind(d)) = Picked(b, Kind(d))
    <2>1. p \notin Picked(b, Kind(d)) BY <1>4, <1>5, <1>6
    <2> QED BY <2>1, <1>2
  <1>7. /\ p \in Picked(b, Kind(e))
        /\ Cardinality(Picked(c, Kind(e))) = Cardinality(Picked(b, Kind(e))) - 1
        /\ Cardinality(Picked(c, Kind(e))) \in Nat
        /\ Picked(c, Kind(e)) = {} <=> Cardinality(Picked(c, Kind(e))) = 0
    <2> DEFINE A == Picked(b, Kind(e))
               B == Picked(c, Kind(e))
    <2>1. p \in A /\ \A q : q \in B <=> q \in A /\ q # p BY <1>2, <1>4, <1>5
    <2>2. IsFiniteSet(A) /\ IsFiniteSet(B) /\ Cardinality(B) \in Nat BY <1>1, PickedFinite
    <2> HIDE DEF A, B
    <2>3. B = A \ {p} BY <2>1
    <2>4. Cardinality(A \ {p}) = Cardinality(A) - 1 BY <2>1, <2>2, FS_RemoveElement
    <2>5. B = {} <=> Cardinality(B) = 0 BY <2>2, FS_EmptySet
    <2> QED BY <2>1, <2>2, <2>3, <2>4, <2>5 DEF A, B
  <1>8. /\ f = [d \in DOMAIN f |-> f[d]] /\ g = [d \in DOMAIN g |-> g[d]]
        /\ \A d : d \in DOMAIN f <=> Picked(b, Kind(d)) # {}
        /\ \A d : d \in DOMAIN g <=> Picked(c, Kind(d)) # {}
        /\ \A d \in DOMAIN f : f[d] = Cardinality(Picked(b, Kind(d)))
        /\ \A d \in DOMAIN g : g[d] = Cardinality(Picked(c, Kind(d)))
    BY <1>1, StockIs
  <1>9. \A d \in DOMAIN f : f[d] \in Nat \ {0} BY StockCounts
  <1> HIDE DEF f, g
  <1>10. e \in DOMAIN f BY <1>7, <1>8
  <1>11. \A d : d \in DOMAIN g <=> d \in DOMAIN f /\ (d = e => f[e] # 1)
    <2>1. f[e] \in Nat /\ Cardinality(Picked(c, Kind(e))) = f[e] - 1 BY <1>7, <1>8, <1>9, <1>10
    <2>2. e \in DOMAIN g <=> f[e] # 1 BY <2>1, <1>7, <1>8
    <2>3. \A d : d # e => (d \in DOMAIN g <=> d \in DOMAIN f) BY <1>6, <1>8
    <2> QED BY <2>2, <2>3, <1>10
  <1>12. \A d \in DOMAIN g : g[d] = IF d = e THEN f[d] - 1 ELSE f[d]
    <2> SUFFICES ASSUME NEW d \in DOMAIN g
                 PROVE  g[d] = IF d = e THEN f[d] - 1 ELSE f[d]
      OBVIOUS
    <2>1. d \in DOMAIN f BY <1>11
    <2>2. CASE d = e BY <2>1, <2>2, <1>7, <1>8
    <2>3. CASE d # e BY <2>1, <2>3, <1>6, <1>8
    <2> QED BY <2>2, <2>3
  <1>13. g = Queue!(-)(f, Queue!SetToBag({e}))
    BY <1>8, <1>9, <1>10, <1>11, <1>12, OneLess
  <1> QED BY <1>10, <1>13 DEF f, g, c, e

\* The smallest key of a heap whose bucket 0 is not empty is last_.
LEMMA SmallestKey ==
  ASSUME NEW b \in Rows, NEW l \in Words, b[0] # <<>>,
         \A k \in 0..Bits : InPlace(l, b[k], k)
  PROVE  /\ \A j \in 1..Len(b[0]) : b[0][j].x = l
         /\ Min({i.key : i \in DOMAIN Stock(b)}) = Decode(l)
         /\ DOMAIN Stock(b) # {}
  <1> DEFINE K == {i.key : i \in DOMAIN Stock(b)}
  <1>0. HalfWord \in Nat /\ 0 \in 0..Bits /\ Words \subseteq Nat BY WordFacts DEF Words
  <1>1. ASSUME NEW j \in 1..Len(b[0]) PROVE b[0][j].x = l
    <2>1. b[0][j].x \in Words BY <1>0, RowIs, KeysAreWords
    <2>2. FindBucket(b[0][j].x, l) = 0 BY <1>0 DEF InPlace
    <2> QED BY <2>1, <2>2, BucketOf
  <1>2. ASSUME NEW e \in DOMAIN Stock(b)
        PROVE  \E p \in SpotsOf(b) : e = ItemOf(b[p[1]][p[2]])
    BY DEF Stock
  <1>3. ASSUME NEW e \in DOMAIN Stock(b) PROVE e.key \in Int /\ Decode(l) <= e.key
    <2>1. PICK p \in SpotsOf(b) : e = ItemOf(b[p[1]][p[2]]) BY <1>2
    <2>2. p[1] \in 0..Bits /\ p[2] \in 1..Len(b[p[1]]) BY SpotIs
    <2>3. PICK x \in Words : x = b[p[1]][p[2]].x BY <2>2, RowIs, KeysAreWords
    <2>4. l <= x BY <2>2, <2>3 DEF InPlace
    <2>5. e.key = x - HalfWord BY <2>1, <2>3 DEF ItemOf, Decode
    <2> QED BY <2>4, <2>5, <1>0 DEF Decode
  <1>4. PICK e \in DOMAIN Stock(b) : e.key = Decode(l)
    <2>1. PICK n \in Nat \ {0} : n = Len(b[0]) BY <1>0, ShortenedIs
    <2>2. ItemOf(b[0][n]) \in DOMAIN Stock(b) BY <2>1, <1>0, StockShortened
    <2>3. b[0][n].x = l BY <2>1, <1>1
    <2>4. ItemOf(b[0][n]).key = Decode(l) BY <2>3 DEF ItemOf
    <2> QED BY <2>2, <2>4
  <1>5. Decode(l) \in K /\ K \subseteq Int /\ \A k \in K : Decode(l) <= k BY <1>3, <1>4
  <1> HIDE DEF K
  <1>6. Min(K) = Decode(l) BY <1>5, LeastIs
  <1> QED BY <1>1, <1>4, <1>6 DEF K
LEMMA ItemsAre == HeapItems = Stock(buckets) /\ HeapItems' = Stock(buckets')
  BY DEF HeapItems, Stock, Spots, SpotsOf, At

LEMMA EmptyStock ==
  ASSUME NEW b, b = [k \in 0..Bits |-> <<>>]
  PROVE  Stock(b) = Queue!EmptyBag /\ Queue!LowestKey = Decode(0)
  <1>1. SpotsOf(b) = {} BY EmptyIs
  <1>2. Stock(b) = Queue!EmptyBag
    <2>1. DOMAIN Stock(b) = {} BY <1>1 DEF Stock
    <2>2. Stock(b) = [e \in {} |-> 1] BY <1>1 DEF Stock
    <2> QED BY <2>2 DEF Queue!EmptyBag, Queue!SetToBag
  <1>3. Min(Keys) = -HalfWord
    <2>1. /\ Keys \subseteq Int /\ -HalfWord \in Keys /\ \A k \in Keys : -HalfWord <= k
      BY WordFacts DEF Keys
    <2> QED BY <2>1, LeastIs
  <1>4. Queue!LowestKey = -HalfWord BY <1>3 DEF Queue!LowestKey, Queue!Min, Min
  <1> QED BY <1>2, <1>4, WordFacts DEF Decode

\* What a look at the heap leaves: the same bag, and its smallest key in last_.
LEMMA PullKeeps ==
  ASSUME HInv, size > 0
  PROVE  /\ Pull.buckets \in Rows /\ Pull.buckets[0] # <<>>
         /\ Stock(Pull.buckets) = HeapItems
         /\ Queue!TopKey = Decode(Pull.last)
         /\ HeapItems # Queue!EmptyBag
         /\ \A j \in 1..Len(Pull.buckets[0]) : Pull.buckets[0][j].x = Pull.last
  <1>1. PullInv(Pull) BY PullIs
  <1>2. /\ Pull.buckets \in Rows /\ Pull.last \in Words /\ Pull.buckets[0] # <<>>
        /\ \A k \in 0..Bits : InPlace(Pull.last, Pull.buckets[k], k)
    BY <1>1 DEF PullInv
  <1>3. Stock(Pull.buckets) = HeapItems
    <2>1. buckets \in Rows BY DEF HInv
    <2>2. Stock(Pull.buckets) = Stock(buckets) BY <1>1, <1>2, <2>1, SameStock DEF PullInv
    <2> QED BY <2>2, ItemsAre
  <1>4. /\ \A j \in 1..Len(Pull.buckets[0]) : Pull.buckets[0][j].x = Pull.last
        /\ Min({i.key : i \in DOMAIN Stock(Pull.buckets)}) = Decode(Pull.last)
        /\ DOMAIN Stock(Pull.buckets) # {}
    BY <1>2, SmallestKey
  <1>5. Queue!TopKey = Decode(Pull.last)
    BY <1>3, <1>4 DEF Queue!TopKey, Queue!BagToSet, Queue!Min, Min
  <1>6. HeapItems # Queue!EmptyBag
    BY <1>3, <1>4 DEF Queue!EmptyBag, Queue!SetToBag
  <1> QED BY <1>2, <1>3, <1>4, <1>5, <1>6

\* One lemma for each call.
LEMMA PushMaps ==
  ASSUME HInv, NEW key \in Keys, NEW v \in HeapVals, Push(key, v)
  PROVE  Queue!QPush(key, v)
  <1>1. PICK it \in Items, k \in 0..Bits :
          /\ it = [x |-> Clamp(Encode(key)), val |-> v]
          /\ buckets' = Entered(buckets, k, it)
    BY PushIs
  <1>2. last \in Words /\ buckets \in Rows BY DEF HInv
  <1>3. ItemOf(it) = [key |-> IF key < Decode(last) THEN Decode(last) ELSE key, val |-> v]
    BY <1>1, <1>2, ClampIs
  <1>4. HeapItems' = Queue!(+)(HeapItems, Queue!SetToBag({ItemOf(it)}))
    BY <1>1, <1>2, StockEntered, ItemsAre
  <1>5. Decode(last)' = Decode(last)
    <2>1. last' = last BY DEF Push
    <2> QED BY <2>1 DEF Decode
  <1> QED BY <1>3, <1>4, <1>5 DEF Queue!QPush

LEMMA LookMaps ==
  ASSUME HInv, Look
  PROVE  Queue!QLook
  <1>1. size > 0 /\ last' = Pull.last /\ buckets' = Pull.buckets BY DEF Look
  <1>2. /\ Stock(Pull.buckets) = HeapItems /\ Queue!TopKey = Decode(Pull.last)
        /\ HeapItems # Queue!EmptyBag
    BY <1>1, PullKeeps
  <1>3. HeapItems' = HeapItems BY <1>1, <1>2, ItemsAre
  <1>4. Decode(last)' = Queue!TopKey
    <2>1. Decode(last)' = Decode(last') BY DEF Decode
    <2> QED BY <2>1, <1>1, <1>2
  <1> QED BY <1>2, <1>3, <1>4 DEF Queue!QLook

LEMMA PopMaps ==
  ASSUME HInv, Pop
  PROVE  Queue!QPop
  <1> DEFINE b == Pull.buckets
             it == b[0][Len(b[0])]
  <1>1. size > 0 /\ last' = Pull.last /\ buckets' = Shortened(b, 0)
    BY PopIs DEF Pop
  <1>2. /\ b \in Rows /\ b[0] # <<>> /\ Stock(b) = HeapItems
        /\ Queue!TopKey = Decode(Pull.last) /\ HeapItems # Queue!EmptyBag
        /\ \A j \in 1..Len(b[0]) : b[0][j].x = Pull.last
    BY <1>1, PullKeeps
  <1> HIDE DEF b
  <1>3. 0 \in 0..Bits BY WordFacts
  <1>4. it.x = Pull.last
    <2>1. Len(b[0]) \in Nat \ {0} BY <1>2, <1>3, ShortenedIs
    <2> QED BY <2>1, <1>2
  <1>5. ItemOf(it).key = Queue!TopKey BY <1>2, <1>4 DEF ItemOf
  <1>6. /\ ItemOf(it) \in DOMAIN Stock(b)
        /\ Stock(Shortened(b, 0)) = Queue!(-)(Stock(b), Queue!SetToBag({ItemOf(it)}))
    BY <1>2, <1>3, StockShortened
  <1> HIDE DEF it
  <1>7. /\ ItemOf(it) \in Queue!BagToSet(HeapItems)
        /\ HeapItems' = Queue!(-)(HeapItems, Queue!SetToBag({ItemOf(it)}))
    BY <1>1, <1>2, <1>6, ItemsAre DEF Queue!BagToSet
  <1>8. Decode(last)' = Queue!TopKey
    <2>1. Decode(last)' = Decode(last') BY DEF Decode
    <2> QED BY <2>1, <1>1, <1>2
  <1> QED BY <1>2, <1>5, <1>7, <1>8 DEF Queue!QPop

LEMMA ClearMaps ==
  ASSUME Clear
  PROVE  Queue!QClear
  <1>1. last' = 0 /\ buckets' = [k \in 0..Bits |-> <<>>] BY DEF Clear
  <1>2. HeapItems' = Queue!EmptyBag BY <1>1, EmptyStock, ItemsAre
  <1>3. Decode(last)' = Queue!LowestKey
    <2>1. Decode(last)' = Decode(last') BY DEF Decode
    <2> QED BY <2>1, <1>1, EmptyStock
  <1> QED BY <1>2, <1>3 DEF Queue!QClear

\* The radix heap is a monotone queue: for keys of any number of bits and any
\* values, every call of radix_heap.h is the one of the bag that hands out a
\* smallest key, and its buckets stay exact.
THEOREM HeapRefines == HeapSpec => HeapIsQueue
  <1>1. HeapInit => Queue!QInit
    <2> SUFFICES ASSUME HeapInit PROVE Queue!QInit
      OBVIOUS
    <2>1. last = 0 /\ buckets = [k \in 0..Bits |-> <<>>] BY DEF HeapInit
    <2> QED BY <2>1, EmptyStock, ItemsAre DEF Queue!QInit
  <1>2. ASSUME HInv, [HeapNext]_heapVars PROVE [Queue!QNext]_(Queue!qvars)
    <2>1. ASSUME NEW key \in Keys, NEW v \in HeapVals, Push(key, v)
          PROVE  Queue!QNext
      BY <2>1, <1>2, PushMaps DEF Queue!QNext
    <2>2. CASE Look BY <2>2, <1>2, LookMaps DEF Queue!QNext
    <2>3. CASE Pop BY <2>3, <1>2, PopMaps DEF Queue!QNext
    <2>4. CASE Clear BY <2>4, ClearMaps DEF Queue!QNext
    <2>5. CASE UNCHANGED heapVars
      <3>1. buckets' = buckets /\ last' = last BY <2>5 DEF heapVars
      <3>2. HeapItems' = HeapItems BY <3>1, ItemsAre
      <3>3. Decode(last)' = Decode(last) BY <3>1 DEF Decode
      <3> QED BY <3>2, <3>3 DEF Queue!qvars
    <2> QED BY <1>2, <2>1, <2>2, <2>3, <2>4, <2>5 DEF HeapNext
  <1>3. HInv => HeapTypeOK /\ BucketsExact BY HeapIsExact
  <1> QED BY <1>1, <1>2, <1>3, HeapSafe, PTL DEF HeapSpec, HeapIsQueue, Queue!QSpec

-----------------------------------------------------------------------------
(***************************************************************************)
(* Texts: what a reader makes of a text, token by token.                   *)
(***************************************************************************)

\* Each value of f is the next one after reading a token of the text, from v.
Follows(f, v, next, text) ==
  f[0] = v /\ \A i \in 1..Len(text) : f[i] = next[<<f[i - 1], text[i]>>]
Agree(f, g, n) == f[n] = g[n]
Begins(text, more) == Len(text) <= Len(more) /\ \A i \in 1..Len(text) : text[i] = more[i]

\* What is read of a text is a state for each of its tokens.
LEMMA TextRead ==
  ASSUME NEW V, NEW T, NEW v \in V, NEW next \in [V \X T -> V], NEW text \in Seq(T)
  PROVE  \E f \in [0..Len(text) -> V] : Follows(f, v, next, text)
  <1> DEFINE N == Len(text)
             step == [p \in (1..N) \X V |-> next[<<p[2], text[p[1]]>>]]
  <1>0. N \in Nat OBVIOUS
  <1>1. StaysIn(V, N, step)
    <2>1. ASSUME NEW j \in 1..N, NEW w \in V PROVE step[<<j, w>>] \in V
      <3>1. text[j] \in T OBVIOUS
      <3>2. next[<<w, text[j]>>] \in V BY <3>1
      <3>3. step[<<j, w>>] = next[<<w, text[j]>>] OBVIOUS
      <3> QED BY <3>2, <3>3
    <2> QED BY <2>1 DEF StaysIn
  <1>2. \A j \in 1..N, w \in V : step[<<j, w>>] = next[<<w, text[j]>>] OBVIOUS
  <1> HIDE DEF step, N
  <1>3. PICK f \in [0..N -> V] : Goes(f, N, v, step) BY <1>0, <1>1, Recursion
  <1>4. ASSUME NEW j \in 1..N PROVE f[j] = next[<<f[j - 1], text[j]>>]
    <2>1. j - 1 \in 0..N BY <1>0
    <2>2. f[j - 1] \in V BY <2>1
    <2>3. f[j] = step[<<j, f[j - 1]>>] BY <1>3 DEF Goes
    <2> QED BY <2>2, <2>3, <1>2
  <1>5. f[0] = v BY <1>3 DEF Goes
  <1> QED BY <1>4, <1>5 DEF Follows, N

\* Texts that begin the same are read the same.
LEMMA SameRead ==
  ASSUME NEW next, NEW v, NEW text, Len(text) \in Nat, NEW more, Len(more) \in Nat,
         Begins(text, more),
         NEW f, Follows(f, v, next, text), NEW g, Follows(g, v, next, more)
  PROVE  Agree(f, g, Len(text))
  <1> DEFINE N == Len(text)
             S == {i \in Nat : i <= N => g[i] = f[i]}
  <1>1. 0 \in S BY DEF Follows
  <1>2. ASSUME NEW i \in Nat, i \in S PROVE i + 1 \in S
    <2> SUFFICES ASSUME i + 1 <= N PROVE g[i + 1] = f[i + 1]
      OBVIOUS
    <2>1. PICK k \in 1..N : k = i + 1 /\ k - 1 = i /\ k \in 1..Len(more) BY DEF Begins
    <2>2. g[i] = f[i] BY <1>2
    <2>3. g[k] = next[<<g[i], more[k]>>] BY <2>1 DEF Follows
    <2>4. f[k] = next[<<f[i], text[k]>>] BY <2>1 DEF Follows
    <2>5. text[k] = more[k] BY <2>1 DEF Begins
    <2> QED BY <2>1, <2>2, <2>3, <2>4, <2>5
  <1>3. \A i \in Nat : i \in S
    <2> HIDE DEF S
    <2> QED BY <1>1, <1>2, Induct
  <1> QED BY <1>3 DEF Agree

-----------------------------------------------------------------------------
(* Sequences. *)

\* The front of any sequence.
LEMMA FrontStays ==
  ASSUME NEW T, NEW s \in Seq(T)
  PROVE  Front(s) \in Seq(T)
  <1>1. CASE s # <<>> BY <1>1, FrontIs
  <1>2. CASE s = <<>>
    <2>1. Len(s) = 0 BY <1>2, EmptySeq
    <2>2. Front(s) = SubSeq(s, 1, 0 - 1) BY <2>1 DEF Front
    <2>3. SubSeq(s, 1, 0 - 1) = <<>> BY SubSeqEmpty
    <2>4. <<>> \in Seq(T) BY EmptySeq
    <2> QED BY <2>2, <2>3, <2>4
  <1> QED BY <1>1, <1>2

\* What was appended is last, and the rest is the front.
LEMMA EndsOf ==
  ASSUME NEW T, NEW s \in Seq(T), NEW x \in T
  PROVE  /\ Append(s, x) \in Seq(T) /\ Append(s, x) # <<>>
         /\ Front(Append(s, x)) = s /\ Last(Append(s, x)) = x
  <1>1. /\ Append(s, x) \in Seq(T) /\ Len(Append(s, x)) = Len(s) + 1
        /\ Append(s, x)[Len(s) + 1] = x
        /\ \A i \in 1..Len(s) : Append(s, x)[i] = s[i]
    BY AppendProperties
  <1>2. Append(s, x) # <<>> BY <1>1
  <1>3. Last(Append(s, x)) = x BY <1>1 DEF Last
  <1> DEFINE m == Append(s, x)
             f == Front(Append(s, x))
  <1>4. f \in Seq(T) /\ Len(f) = Len(s) /\ \A i \in 1..Len(s) : f[i] = s[i]
    <2>1. m \in Seq(T) /\ m # <<>> /\ Len(m) = Len(s) + 1 /\ \A i \in 1..Len(s) : m[i] = s[i]
      BY <1>1, <1>2
    <2> HIDE DEF m
    <2>2. /\ Front(m) \in Seq(T) /\ Len(Front(m)) = Len(m) - 1
          /\ \A i \in 1..(Len(m) - 1) : Front(m)[i] = m[i]
      BY <2>1, FrontIs
    <2>3. Len(m) - 1 = Len(s)
      <3>1. Len(s) \in Nat OBVIOUS
      <3> QED BY <3>1, <2>1
    <2> QED BY <2>1, <2>2, <2>3 DEF m
  <1> HIDE DEF f
  <1>5. f = s BY <1>4, SeqEqual
  <1> QED BY <1>1, <1>2, <1>3, <1>5 DEF f

\* Appending the tokens of markup.
LEMMA AppendsAre ==
  ASSUME NEW T, NEW s \in Seq(T), NEW x \in T, NEW y \in T, NEW z \in T
  PROVE  /\ s \o <<x>> = Append(s, x)
         /\ s \o <<x, y>> = Append(Append(s, x), y)
         /\ s \o <<x, y, z>> = Append(Append(Append(s, x), y), z)
  <1> USE SMTT(30)
  <1>1. s \o <<x>> = Append(s, x) OBVIOUS
  <1>2. s \o <<x, y>> = Append(Append(s, x), y) OBVIOUS
  <1>3. s \o <<x, y, z>> = Append(Append(Append(s, x), y), z) OBVIOUS
  <1> QED BY <1>1, <1>2, <1>3

\* A stack without its topmost nodes.
LEMMA PrefixIs ==
  ASSUME NEW T, NEW s \in Seq(T), NEW k \in 1..Len(s)
  PROVE  /\ SubSeq(s, 1, k) # <<>> /\ Last(SubSeq(s, 1, k)) = s[k]
         /\ Front(SubSeq(s, 1, k)) = SubSeq(s, 1, k - 1)
  <1> DEFINE p == SubSeq(s, 1, k)
             q == SubSeq(s, 1, k - 1)
             f == Front(p)
  <1>0. Len(s) \in Nat /\ k \in Nat \ {0} /\ k <= Len(s) /\ \A i \in 1..k : s[i] \in T OBVIOUS
  <1>1. p \in Seq(T) /\ Len(p) = k /\ \A i \in 1..k : p[i] = s[i]
    <2>1. \A i \in 1..k : 1 + i - 1 = i BY <1>0
    <2>2. p \in Seq(T) /\ Len(p) = k - 1 + 1 BY <1>0, SubSeqProperties
    <2>3. \A i \in 1..(k - 1 + 1) : p[i] = s[1 + i - 1] BY <1>0, SubSeqProperties
    <2> QED BY <1>0, <2>1, <2>2, <2>3
  <1>2. q \in Seq(T) /\ Len(q) = k - 1 /\ \A i \in 1..(k - 1) : q[i] = s[i]
    <2>1. \A i \in 1..(k - 1) : s[i] \in T /\ 1 + i - 1 = i BY <1>0
    <2>2. q \in Seq(T) /\ Len(q) = IF 1 <= k - 1 THEN k - 1 - 1 + 1 ELSE 0
      BY <1>0, <2>1, SubSeqProperties
    <2>3. \A i \in 1..(k - 1 - 1 + 1) : q[i] = s[1 + i - 1] BY <1>0, <2>1, SubSeqProperties
    <2> QED BY <1>0, <2>1, <2>2, <2>3
  <1> HIDE DEF p, q
  <1>3. p # <<>> BY <1>0, <1>1, EmptySeq
  <1>4. /\ f \in Seq(T) /\ Len(f) = k - 1 /\ Last(p) = p[k]
        /\ \A i \in 1..(k - 1) : f[i] = p[i]
    BY <1>1, <1>3, FrontIs
  <1> HIDE DEF f
  <1>5. k \in 1..k /\ \A i \in 1..(k - 1) : i \in 1..k BY <1>0
  <1>6. Len(f) = Len(q) /\ \A i \in 1..Len(f) : f[i] = q[i] BY <1>1, <1>2, <1>4, <1>5
  <1>7. f = q BY <1>2, <1>4, <1>6, SeqEqual
  <1> QED BY <1>1, <1>3, <1>4, <1>5, <1>7 DEF p, q, f

-----------------------------------------------------------------------------
(***************************************************************************)
(* JsonWriter: for any trees, the writer is always where a reader of its   *)
(* text is: every open object and array of the reader is a node of the     *)
(* stack, and its "empty" tells whether a comma is needed.                 *)
(***************************************************************************)

-----------------------------------------------------------------------------
(* The reader of JSON. *)

\* Only the innermost open object or array is affected by what is read.
LEMMA LastReadIs ==
  ASSUME NEW s \in Seq(Places), s # <<>>, NEW p \in Places
  PROVE  /\ LastRead(s, p) \in Seq(Places) /\ Len(LastRead(s, p)) = Len(s)
         /\ LastRead(s, p)[Len(s)] = p
         /\ \A i \in 1..(Len(s) - 1) : LastRead(s, p)[i] = s[i]
  <1>1. Len(s) \in Nat \ {0} BY EmptySeq
  <1>2. Len(s) \in 1..Len(s) BY <1>1
  <1>3. /\ LastRead(s, p) \in Seq(Places) /\ Len(LastRead(s, p)) = Len(s)
        /\ \A j \in 1..Len(s) : LastRead(s, p)[j] = IF j = Len(s) THEN p ELSE s[j]
    BY <1>2, ExceptSeq DEF LastRead
  <1> HIDE DEF LastRead
  <1>4. \A i \in 1..(Len(s) - 1) : i \in 1..Len(s) /\ i # Len(s) BY <1>1
  <1> QED BY <1>1, <1>2, <1>3, <1>4

\* The reader is always in one of its states.
LEMMA ReadStays ==
  ASSUME NEW s \in Seq(Places), NEW tok \in Tokens
  PROVE  JsonRead(s, tok) \in Seq(Places) /\ ValueRead(s) \in Seq(Places)
  <1>1. Wrong \in Seq(Places)
    <2>1. "!" \in Places BY DEF Places
    <2> QED BY <2>1 DEF Wrong
  <1>0. \A p \in {"k", "{v", "[v", "{,", "[,", "{", "["} : p \in Places BY DEF Places
  <1>2. ValueRead(s) \in Seq(Places)
    <2>1. s # <<>> => LastRead(s, "{v") \in Seq(Places) /\ LastRead(s, "[v") \in Seq(Places)
      BY <1>0, LastReadIs
    <2> QED BY <1>1, <2>1 DEF ValueRead
  <1>3. s # <<>> => Front(s) \in Seq(Places) BY FrontIs
  <1>4. \A p \in Places : s # <<>> => LastRead(s, p) \in Seq(Places) BY LastReadIs
  <1>5. tok \in {"{", "["} => Append(ValueRead(s), tok) \in Seq(Places)
    BY <1>0, <1>2, AppendProperties
  <1>6. ASSUME s # <<>> PROVE JsonRead(s, tok) \in Seq(Places)
    <2>1. Front(s) \in Seq(Places) BY <1>3, <1>6
    <2>2. /\ LastRead(s, "k") \in Seq(Places) /\ LastRead(s, "{,") \in Seq(Places)
          /\ LastRead(s, "[,") \in Seq(Places)
      BY <1>0, <1>4, <1>6
    <2> QED BY <1>1, <1>2, <1>5, <2>1, <2>2 DEF JsonRead
  <1>7. ASSUME s = <<>> PROVE JsonRead(s, tok) \in Seq(Places)
    BY <1>1, <1>2, <1>5, <1>7 DEF JsonRead
  <1> QED BY <1>2, <1>6, <1>7

\* The reader as a function.
ReadNext == [p \in Seq(Places) \X Tokens |-> JsonRead(p[1], p[2])]

\* JsonText has a value for each token.
LEMMA JsonTextIs ==
  ASSUME NEW text \in Seq(Tokens)
  PROVE  \E f \in [0..Len(text) -> Seq(Places)] :
           Follows(f, <<>>, ReadNext, text) /\ JsonText(text) = f[Len(text)]
  <1> DEFINE N == Len(text)
             Is(f) == f = [i \in 0..N |-> IF i = 0 THEN <<>> ELSE JsonRead(f[i - 1], text[i])]
             read == CHOOSE f : Is(f)
  <1>0. N \in Nat OBVIOUS
  <1>1. ReadNext \in [Seq(Places) \X Tokens -> Seq(Places)] BY ReadStays DEF ReadNext
  <1>2. <<>> \in Seq(Places) OBVIOUS
  <1>3. PICK f \in [0..N -> Seq(Places)] : Follows(f, <<>>, ReadNext, text)
    BY <1>1, <1>2, TextRead
  <1>4. ASSUME NEW i \in 0..N PROVE f[i] = IF i = 0 THEN <<>> ELSE JsonRead(f[i - 1], text[i])
    <2>1. CASE i = 0 BY <2>1, <1>3 DEF Follows
    <2>2. CASE i # 0
      <3>1. i \in 1..N /\ i - 1 \in 0..N BY <2>2, <1>0
      <3>2. f[i - 1] \in Seq(Places) /\ text[i] \in Tokens BY <3>1
      <3>3. f[i] = ReadNext[<<f[i - 1], text[i]>>] BY <3>1, <1>3 DEF Follows
      <3> QED BY <2>2, <3>2, <3>3 DEF ReadNext
    <2> QED BY <2>1, <2>2
  <1>5. Is(f) BY <1>4
  <1> HIDE DEF Is
  <1>6. Is(read) BY <1>5
  <1> HIDE DEF read
  <1>7. DOMAIN read = 0..N /\ read[0] = <<>> BY <1>0, <1>6 DEF Is
  <1>8. \A i \in 1..N : read[i] = JsonRead(read[i - 1], text[i]) BY <1>0, <1>6 DEF Is
  <1> DEFINE S == {i \in Nat : i <= N => read[i] = f[i]}
  <1>9. 0 \in S BY <1>0, <1>4, <1>7
  <1>10. ASSUME NEW i \in Nat, i \in S PROVE i + 1 \in S
    <2> SUFFICES ASSUME i + 1 <= N PROVE read[i + 1] = f[i + 1]
      OBVIOUS
    <2>1. PICK k \in 1..N : k = i + 1 /\ k - 1 = i /\ k # 0 /\ k \in 0..N BY <1>0
    <2>2. read[i] = f[i] BY <1>0, <1>10
    <2>3. read[k] = JsonRead(read[i], text[k]) BY <1>8, <2>1
    <2>4. f[k] = JsonRead(f[i], text[k]) BY <1>4, <2>1
    <2> QED BY <2>1, <2>2, <2>3, <2>4
  <1>11. \A i \in Nat : i \in S
    <2> HIDE DEF S
    <2> QED BY <1>9, <1>10, Induct
  <1>12. read[N] = f[N] BY <1>0, <1>11
  <1>13. JsonText(text) = read[N] BY DEF JsonText, read, Is
  <1> QED BY <1>3, <1>12, <1>13

\* The reader goes on where it was.
LEMMA JsonTextOn ==
  /\ JsonText(<<>>) = <<>>
  /\ \A text \in Seq(Tokens) :
       /\ JsonText(text) \in Seq(Places)
       /\ \A tok \in Tokens : JsonText(Append(text, tok)) = JsonRead(JsonText(text), tok)
  <1>1. JsonText(<<>>) = <<>>
    <2>1. <<>> \in Seq(Tokens) /\ Len(<<>>) = 0 OBVIOUS
    <2> QED BY <2>1, JsonTextIs DEF Follows
  <1>2. ASSUME NEW text \in Seq(Tokens) PROVE JsonText(text) \in Seq(Places)
    <2>1. Len(text) \in 0..Len(text) OBVIOUS
    <2> QED BY <2>1, JsonTextIs
  <1>3. ASSUME NEW text \in Seq(Tokens), NEW tok \in Tokens
        PROVE  JsonText(Append(text, tok)) = JsonRead(JsonText(text), tok)
    <2>0. Append(text, tok) \in Seq(Tokens) /\ Len(Append(text, tok)) = Len(text) + 1
      BY AppendProperties
    <2>1. PICK f \in [0..Len(text) -> Seq(Places)] :
            Follows(f, <<>>, ReadNext, text) /\ JsonText(text) = f[Len(text)]
      BY JsonTextIs
    <2>2. PICK g : Follows(g, <<>>, ReadNext, Append(text, tok))
                   /\ JsonText(Append(text, tok)) = g[Len(text) + 1]
      BY <2>0, JsonTextIs
    <2>3. g[Len(text) + 1] = ReadNext[<<f[Len(text)], tok>>]
      <3> DEFINE N == Len(text)
                 more == Append(text, tok)
                 e == <<>>
      <3>1. /\ N \in Nat /\ Len(more) = N + 1 /\ more[N + 1] = tok
            /\ \A i \in 1..N : text[i] = more[i]
        OBVIOUS
      <3>2. Follows(f, e, ReadNext, text) /\ Follows(g, e, ReadNext, more) BY <2>1, <2>2
      <3> HIDE DEF more, e
      <3>3. Begins(text, more) BY <3>1 DEF Begins
      <3>4. Agree(f, g, N) BY <3>1, <3>2, <3>3, SameRead
      <3>5. \A i \in 1..(N + 1) : g[i] = ReadNext[<<g[i - 1], more[i]>>]
        BY <3>1, <3>2 DEF Follows
      <3> HIDE DEF N
      <3>6. N + 1 \in 1..(N + 1) /\ (N + 1) - 1 = N BY <3>1
      <3> QED BY <3>1, <3>4, <3>5, <3>6 DEF N, Agree
    <2>4. f[Len(text)] \in Seq(Places)
      <3>1. Len(text) \in 0..Len(text) OBVIOUS
      <3> QED BY <3>1
    <2> QED BY <2>1, <2>2, <2>3, <2>4 DEF ReadNext
  <1> QED BY <1>1, <1>2, <1>3

-----------------------------------------------------------------------------
(* The stack of the writer, and the state of the reader that fits it. *)

\* The nodes of the stack of the JSON writer.
Nodes == [type : {"OBJ", "ARR", "KEY"}, empty : BOOLEAN]

\* A key is on top; what is below it; no node is a key.
HasKey(st) == st # <<>> /\ Last(st).type = "KEY"
Bare(st) == IF HasKey(st) THEN Front(st) ELSE st
NoKeys(st) == \A i \in 1..Len(st) : st[i].type # "KEY"

\* What was read last in an open object or array.
Place(nd) ==
  IF nd.type = "OBJ" THEN IF nd.empty THEN "{" ELSE "{v" ELSE IF nd.empty THEN "[" ELSE "[v"
Base(st) == [i \in 1..Len(st) |-> Place(st[i])]

\* A key is on top if at all, and in an object that is not empty.
Shape(st) ==
  /\ st \in Seq(Nodes) /\ NoKeys(Bare(st))
  /\ HasKey(st) => Bare(st) # <<>> /\ Last(Bare(st)).type = "OBJ" /\ ~Last(Bare(st)).empty

\* What the reader expects of a text when the writer has this stack.
Expects(st) == IF HasKey(st) THEN LastRead(Base(Bare(st)), "k") ELSE Base(Bare(st))

\* The writer is where a reader of its text is.
Fits(w) == w \in Writers /\ Shape(w.stack) /\ JsonText(w.out) = Expects(w.stack)

\* A value may come next, and is then a part of what is open.
Waits(w) ==
  /\ w \in Writers /\ Shape(w.stack) /\ ~HasKey(w.stack)
  /\ ValueRead(JsonText(w.out)) = Base(w.stack)

\* A node is never where the reader is wrong.
LEMMA PlaceIs ==
  ASSUME NEW nd \in Nodes
  PROVE  Place(nd) \in Places /\ Place(nd) # "!"
  BY DEF Place, Places

\* What is read last replaces what was read before.
LEMMA LastReads ==
  ASSUME NEW s \in Seq(Places), s # <<>>, NEW p \in Places
  PROVE  /\ LastRead(s, p) \in Seq(Places) /\ LastRead(s, p) # <<>>
         /\ Last(LastRead(s, p)) = p
         /\ \A q \in Places : LastRead(LastRead(s, p), q) = LastRead(s, q)
         /\ p = Last(s) => LastRead(s, p) = s
  <1> DEFINE r == LastRead(s, p)
  <1>1. Len(s) \in Nat \ {0} BY EmptySeq
  <1>2. r \in Seq(Places) /\ Len(r) = Len(s) /\ r[Len(s)] = p
        /\ \A i \in 1..(Len(s) - 1) : r[i] = s[i]
    BY LastReadIs
  <1> HIDE DEF r
  <1>3. r # <<>> BY <1>1, <1>2
  <1>4. Last(r) = p BY <1>2 DEF Last
  <1>5. ASSUME NEW q \in Places PROVE LastRead(r, q) = LastRead(s, q)
    <2> DEFINE a == LastRead(r, q)
               b == LastRead(s, q)
    <2>0. a \in Seq(Places) /\ Len(a) = Len(r) /\ a[Len(r)] = q
          /\ \A i \in 1..(Len(r) - 1) : a[i] = r[i]
      <3>1. r \in Seq(Places) BY <1>2
      <3> QED BY <3>1, <1>3, LastReadIs
    <2>1. a \in Seq(Places) /\ Len(a) = Len(s) /\ a[Len(s)] = q
          /\ \A i \in 1..(Len(s) - 1) : a[i] = r[i]
      <3> HIDE DEF a
      <3> QED BY <2>0, <1>2
    <2>2. b \in Seq(Places) /\ Len(b) = Len(s) /\ b[Len(s)] = q
          /\ \A i \in 1..(Len(s) - 1) : b[i] = s[i]
      BY LastReadIs
    <2> HIDE DEF a, b
    <2>3. \A i \in 1..Len(a) : a[i] = b[i] BY <1>1, <1>2, <2>1, <2>2
    <2>4. a = b BY <2>1, <2>2, <2>3, SeqEqual
    <2> QED BY <2>4 DEF a, b
  <1>6. ASSUME p = Last(s) PROVE r = s
    <2>1. \A i \in 1..Len(r) : r[i] = s[i] BY <1>1, <1>2, <1>6 DEF Last
    <2> QED BY <1>2, <2>1, SeqEqual
  <1> QED BY <1>2, <1>3, <1>4, <1>5, <1>6 DEF r

\* A state of the reader for any stack.
LEMMA BaseIs ==
  ASSUME NEW st \in Seq(Nodes)
  PROVE  /\ Base(st) \in Seq(Places) /\ Len(Base(st)) = Len(st)
         /\ \A i \in 1..Len(st) : Base(st)[i] = Place(st[i])
         /\ Base(st) # Wrong /\ (Base(st) = <<>> <=> st = <<>>)
  <1> DEFINE b == Base(st)
  <1>0. Len(st) \in Nat OBVIOUS
  <1>1. \A i \in 1..Len(st) : st[i] \in Nodes OBVIOUS
  <1>2. \A i \in 1..Len(st) : Place(st[i]) \in Places /\ Place(st[i]) # "!" BY <1>1, PlaceIs
  <1>3. b \in Seq(Places) /\ Len(b) = Len(st) /\ \A i \in 1..Len(st) : b[i] = Place(st[i])
    <2>1. b \in [1..Len(st) -> Places] BY <1>2 DEF Base
    <2>2. b \in Seq(Places) /\ Len(b) = Len(st) BY <1>0, <2>1, IsASeq, LenProperties
    <2> QED BY <2>2 DEF Base
  <1> HIDE DEF b
  <1>4. b # Wrong
    <2> SUFFICES ASSUME b = Wrong PROVE FALSE OBVIOUS
    <2>1. Len(b) = 1 /\ b[1] = "!" BY DEF Wrong
    <2>2. 1 \in 1..Len(st) BY <1>3, <2>1
    <2> QED BY <1>2, <1>3, <2>1, <2>2
  <1>5. b = <<>> <=> st = <<>> BY <1>3, EmptySeq
  <1> QED BY <1>3, <1>4, <1>5 DEF b

\* The state without its innermost part is that of the stack without its top.
LEMMA BaseEnds ==
  ASSUME NEW st \in Seq(Nodes), st # <<>>
  PROVE  /\ Front(Base(st)) = Base(Front(st)) /\ Last(Base(st)) = Place(Last(st))
         /\ Front(st) \in Seq(Nodes) /\ Last(st) \in Nodes
  <1> DEFINE a == Front(Base(st))
             c == Base(Front(st))
  <1>1. /\ Base(st) \in Seq(Places) /\ Len(Base(st)) = Len(st) /\ Base(st) # <<>>
        /\ \A i \in 1..Len(st) : Base(st)[i] = Place(st[i])
    BY BaseIs
  <1>2. /\ Len(st) \in Nat \ {0} /\ Front(st) \in Seq(Nodes) /\ Len(Front(st)) = Len(st) - 1
        /\ \A i \in 1..(Len(st) - 1) : Front(st)[i] = st[i]
        /\ Last(st) \in Nodes /\ Last(st) = st[Len(st)]
    BY FrontIs
  <1>3. /\ a \in Seq(Places) /\ Len(a) = Len(st) - 1
        /\ \A i \in 1..(Len(st) - 1) : a[i] = Base(st)[i]
        /\ Last(Base(st)) = Base(st)[Len(st)]
    BY <1>1, FrontIs
  <1>4. /\ c \in Seq(Places) /\ Len(c) = Len(st) - 1
        /\ \A i \in 1..(Len(st) - 1) : c[i] = Place(Front(st)[i])
    BY <1>2, BaseIs
  <1> HIDE DEF a, c
  <1>5. \A i \in 1..Len(a) : a[i] = c[i]
    <2>1. \A i \in 1..Len(a) : i \in 1..(Len(st) - 1) /\ i \in 1..Len(st) BY <1>2, <1>3
    <2> QED BY <2>1, <1>1, <1>2, <1>3, <1>4
  <1>6. a = c BY <1>3, <1>4, <1>5, SeqEqual
  <1>7. Len(st) \in 1..Len(st) BY <1>2
  <1> QED BY <1>1, <1>2, <1>3, <1>6, <1>7 DEF a, c

\* And the state of a stack with one more node.
LEMMA BaseAppend ==
  ASSUME NEW st \in Seq(Nodes), NEW nd \in Nodes
  PROVE  Base(Append(st, nd)) = Append(Base(st), Place(nd))
  <1> DEFINE a == Base(Append(st, nd))
             c == Append(Base(st), Place(nd))
  <1>1. /\ Append(st, nd) \in Seq(Nodes) /\ Len(Append(st, nd)) = Len(st) + 1
        /\ Append(st, nd)[Len(st) + 1] = nd /\ Len(st) \in Nat
        /\ \A i \in 1..Len(st) : Append(st, nd)[i] = st[i]
    BY AppendProperties
  <1>2. a \in Seq(Places) /\ Len(a) = Len(st) + 1
        /\ \A i \in 1..(Len(st) + 1) : a[i] = Place(Append(st, nd)[i])
    BY <1>1, BaseIs
  <1>3. Base(st) \in Seq(Places) /\ Len(Base(st)) = Len(st) /\ Place(nd) \in Places
        /\ \A i \in 1..Len(st) : Base(st)[i] = Place(st[i])
    BY BaseIs, PlaceIs
  <1>4. c \in Seq(Places) /\ Len(c) = Len(st) + 1 /\ c[Len(st) + 1] = Place(nd)
        /\ \A i \in 1..Len(st) : c[i] = Base(st)[i]
    BY <1>3, AppendProperties
  <1> HIDE DEF a, c
  <1>5. \A i \in 1..Len(a) : a[i] = c[i]
    <2>1. \A i \in 1..Len(a) : i \in 1..Len(st) \/ i = Len(st) + 1 BY <1>1, <1>2
    <2>2. Len(st) + 1 \in 1..(Len(st) + 1) BY <1>1
    <2>3. a[Len(st) + 1] = c[Len(st) + 1] BY <1>1, <1>2, <1>4, <2>2
    <2>4. \A i \in 1..Len(st) : a[i] = c[i]
      <3>1. \A i \in 1..Len(st) : i \in 1..(Len(st) + 1) BY <1>1
      <3> QED BY <3>1, <1>1, <1>2, <1>3, <1>4
    <2> QED BY <2>1, <2>3, <2>4
  <1>6. a = c BY <1>2, <1>4, <1>5, SeqEqual
  <1> QED BY <1>6 DEF a, c

\* The top of the stack is not empty any more.
Full(st) == [st EXCEPT ![Len(st)].empty = FALSE]
Filled(nd) == [nd EXCEPT !.empty = FALSE]

\* Filling the top of the stack is reading a value in it.
LEMMA FullIs ==
  ASSUME NEW st \in Seq(Nodes), st # <<>>
  PROVE  /\ Full(st) \in Seq(Nodes) /\ Full(st) # <<>> /\ Len(Full(st)) = Len(st)
         /\ Filled(Last(st)) \in Nodes /\ Last(Full(st)) = Filled(Last(st))
         /\ \A i \in 1..(Len(st) - 1) : Full(st)[i] = st[i]
         /\ Base(Full(st)) = LastRead(Base(st), Place(Filled(Last(st))))
         /\ Filled(Last(st)).type = Last(st).type /\ ~Filled(Last(st)).empty
         /\ NoKeys(st) => NoKeys(Full(st))
  <1> DEFINE g == Full(st)
             nd == Filled(Last(st))
             a == Base(Full(st))
             c == LastRead(Base(st), Place(Filled(Last(st))))
  <1>1. Len(st) \in Nat \ {0} /\ Last(st) \in Nodes /\ Last(st) = st[Len(st)]
    BY FrontIs
  <1>2. nd \in Nodes /\ nd.type = Last(st).type /\ ~nd.empty
    BY <1>1 DEF Nodes, Filled
  <1>3. g = [st EXCEPT ![Len(st)] = nd] BY <1>1 DEF Full, Filled
  <1> HIDE DEF nd
  <1>4. /\ g \in Seq(Nodes) /\ Len(g) = Len(st)
        /\ \A j \in 1..Len(st) : g[j] = IF j = Len(st) THEN nd ELSE st[j]
    <2>1. Len(st) \in 1..Len(st) BY <1>1
    <2>2. /\ [st EXCEPT ![Len(st)] = nd] \in Seq(Nodes)
          /\ Len([st EXCEPT ![Len(st)] = nd]) = Len(st)
          /\ \A j \in 1..Len(st) : [st EXCEPT ![Len(st)] = nd][j] = IF j = Len(st) THEN nd ELSE st[j]
      BY <1>2, <2>1, ExceptSeq
    <2> HIDE DEF g
    <2> QED BY <1>3, <2>2
  <1> HIDE DEF g
  <1>5. g # <<>> /\ Last(g) = nd
    <2>1. g # <<>> BY <1>1, <1>4
    <2>2. Len(st) \in 1..Len(st) BY <1>1
    <2> QED BY <1>4, <2>1, <2>2 DEF Last
  <1>6. \A i \in 1..(Len(st) - 1) : g[i] = st[i] BY <1>1, <1>4
  <1>7. a \in Seq(Places) /\ Len(a) = Len(st) /\ \A i \in 1..Len(st) : a[i] = Place(g[i])
    <2>1. Base(g) \in Seq(Places) /\ Len(Base(g)) = Len(g) /\ \A i \in 1..Len(g) : Base(g)[i] = Place(g[i])
      BY <1>4, BaseIs
    <2> QED BY <1>4, <2>1 DEF g
  <1>8. c \in Seq(Places) /\ Len(c) = Len(st) /\ c[Len(st)] = Place(nd)
        /\ \A i \in 1..(Len(st) - 1) : c[i] = Place(st[i])
    <2>1. Base(st) \in Seq(Places) /\ Len(Base(st)) = Len(st) /\ Base(st) # <<>>
          /\ \A i \in 1..Len(st) : Base(st)[i] = Place(st[i])
      BY BaseIs
    <2>2. Place(nd) \in Places BY <1>2, PlaceIs
    <2>3. /\ LastRead(Base(st), Place(nd)) \in Seq(Places)
          /\ Len(LastRead(Base(st), Place(nd))) = Len(Base(st))
          /\ LastRead(Base(st), Place(nd))[Len(Base(st))] = Place(nd)
          /\ \A i \in 1..(Len(Base(st)) - 1) : LastRead(Base(st), Place(nd))[i] = Base(st)[i]
      BY <2>1, <2>2, LastReadIs
    <2>4. \A i \in 1..(Len(st) - 1) : i \in 1..Len(st) BY <1>1
    <2> QED BY <2>1, <2>3, <2>4 DEF nd
  <1> HIDE DEF a, c
  <1>9. \A i \in 1..Len(a) : a[i] = c[i]
    <2>1. \A i \in 1..Len(a) : i \in 1..Len(st) /\ (i = Len(st) \/ i \in 1..(Len(st) - 1))
      BY <1>1, <1>7
    <2> QED BY <2>1, <1>4, <1>7, <1>8
  <1>10. a = c BY <1>7, <1>8, <1>9, SeqEqual
  <1>11. NoKeys(st) => NoKeys(g)
    <2>1. Len(st) \in 1..Len(st) BY <1>1
    <2> QED BY <1>1, <1>2, <1>4, <2>1 DEF NoKeys
  <1> QED BY <1>2, <1>4, <1>5, <1>6, <1>10, <1>11 DEF g, nd, a, c

\* A stack without keys keeps being one with one more node,
LEMMA AppendKeys ==
  ASSUME NEW st \in Seq(Nodes), NoKeys(st), NEW nd \in Nodes, nd.type # "KEY"
  PROVE  NoKeys(Append(st, nd))
  <1> DEFINE m == Append(st, nd)
  <1>1. /\ Len(m) = Len(st) + 1 /\ m[Len(st) + 1] = nd /\ Len(st) \in Nat
        /\ \A i \in 1..Len(st) : m[i] = st[i]
    BY AppendProperties
  <1> HIDE DEF m
  <1>2. \A i \in 1..Len(m) : i \in 1..Len(st) \/ i = Len(st) + 1 BY <1>1
  <1>3. NoKeys(m) BY <1>1, <1>2 DEF NoKeys
  <1> QED BY <1>3 DEF m

\* and with one less.
LEMMA FrontKeys ==
  ASSUME NEW st \in Seq(Nodes), NoKeys(st), st # <<>>
  PROVE  NoKeys(Front(st)) /\ ~HasKey(Front(st)) /\ Last(st).type # "KEY"
  <1> DEFINE f == Front(st)
  <1>1. /\ Len(st) \in Nat \ {0} /\ f \in Seq(Nodes) /\ Len(f) = Len(st) - 1
        /\ \A i \in 1..(Len(st) - 1) : f[i] = st[i]
        /\ Last(st) = st[Len(st)]
    BY FrontIs
  <1> HIDE DEF f
  <1>2. NoKeys(f)
    <2>1. \A i \in 1..Len(f) : i \in 1..(Len(st) - 1) /\ i \in 1..Len(st) BY <1>1
    <2> QED BY <1>1, <2>1 DEF NoKeys
  <1>3. ~HasKey(f)
    <2>1. f # <<>> => Len(f) \in 1..Len(f) /\ Last(f) = f[Len(f)]
      <3>1. f \in Seq(Nodes) BY <1>1
      <3> QED BY <3>1, EmptySeq DEF Last
    <2> QED BY <1>2, <2>1 DEF HasKey, NoKeys
  <1>4. Len(st) \in 1..Len(st) BY <1>1
  <1> QED BY <1>1, <1>2, <1>3, <1>4 DEF f, NoKeys

-----------------------------------------------------------------------------
(* The operations. *)

\* A writer that has thrown is not one that fits its text.
LEMMA BadIs ==
  /\ Bad \in Writers /\ Bad.out = <<"!">> /\ Bad.stack = <<>>
  /\ \A w : Waits(w) \/ Fits(w) => w # Bad
  <1>1. <<"!">> \in Seq(Tokens) /\ <<"!">> = Append(<<>>, "!") /\ <<>> \in Seq(Tokens)
        /\ "!" \in Tokens
    <2>1. "!" \in Tokens BY DEF Tokens
    <2> QED BY <2>1
  <1>2. Bad \in Writers BY <1>1 DEF Bad, Writers
  <1>3. Bad.out = <<"!">> /\ Bad.stack = <<>> BY DEF Bad
  <1>4. JsonText(<<"!">>) = Wrong
    <2>1. JsonText(<<"!">>) = JsonRead(<<>>, "!") BY <1>1, JsonTextOn
    <2>2. JsonRead(<<>>, "!") = Wrong BY DEF JsonRead
    <2> QED BY <2>1, <2>2
  <1>5. ASSUME Waits(Bad) \/ Fits(Bad) PROVE FALSE
    <2>1. ~HasKey(<<>>) /\ Bare(<<>>) = <<>> /\ Base(<<>>) = <<>>
      <3>1. <<>> \in Seq(Nodes) OBVIOUS
      <3> QED BY <3>1, BaseIs DEF HasKey, Bare
    <2>2. Wrong # <<>>
      <3>1. Len(Wrong) = 1 BY DEF Wrong
      <3> QED BY <3>1
    <2>3. Last(Wrong) = "!" BY DEF Wrong, Last
    <2>4. ValueRead(Wrong) = Wrong BY <2>2, <2>3 DEF ValueRead
    <2>5. CASE Waits(Bad) BY <1>3, <1>4, <2>1, <2>2, <2>4, <2>5 DEF Waits
    <2>6. CASE Fits(Bad) BY <1>3, <1>4, <2>1, <2>2, <2>6 DEF Fits, Expects
    <2> QED BY <1>5, <2>5, <2>6
  <1> QED BY <1>2, <1>3, <1>5

\* One token more, the stack as it is.
LEMMA PutIs ==
  ASSUME NEW w \in Writers, NEW tok \in Tokens
  PROVE  /\ Put(w, tok) \in Writers /\ Put(w, tok).stack = w.stack
         /\ JsonText(Put(w, tok).out) = JsonRead(JsonText(w.out), tok)
         /\ JsonText(w.out) \in Seq(Places)
  <1>1. w.out \in Seq(Tokens) /\ w = [out |-> w.out, stack |-> w.stack]
    BY DEF Writers
  <1>2. Append(w.out, tok) \in Seq(Tokens) BY <1>1, AppendProperties
  <1>3. Put(w, tok) \in Writers /\ Put(w, tok).out = Append(w.out, tok)
        /\ Put(w, tok).stack = w.stack
    BY <1>1, <1>2 DEF Put, Writers
  <1> QED BY <1>1, <1>3, JsonTextOn

\* The text and the stack of a writer, and another stack.
LEMMA NodesIs ==
  ASSUME NEW w \in Writers
  PROVE  /\ w.out \in Seq(Tokens) /\ w.stack \in Seq(Nodes)
         /\ \A st \in Seq(Nodes) : /\ [w EXCEPT !.stack = st] \in Writers
                                   /\ [w EXCEPT !.stack = st].out = w.out
                                   /\ [w EXCEPT !.stack = st].stack = st
  BY DEF Writers, Nodes

\* A scalar is written where a value may come.
LEMMA ScalarPut ==
  ASSUME NEW w, Waits(w)
  PROVE  Fits(Put(w, "v"))
  <1>1. w \in Writers /\ "v" \in Tokens BY DEF Waits, Tokens
  <1>2. /\ Put(w, "v") \in Writers /\ Put(w, "v").stack = w.stack
        /\ JsonText(Put(w, "v").out) = JsonRead(JsonText(w.out), "v")
    BY <1>1, PutIs
  <1>3. \A s : JsonRead(s, "v") = ValueRead(s) BY DEF JsonRead
  <1>4. Expects(w.stack) = Base(w.stack) BY DEF Waits, Expects, Bare
  <1> QED BY <1>2, <1>3, <1>4 DEF Fits, Waits

\* And an object or array is opened there.
LEMMA OpenPut ==
  ASSUME NEW w, Waits(w), NEW type, NEW tok,
         \/ type = "OBJ" /\ tok = "{"
         \/ type = "ARR" /\ tok = "["
  PROVE  Fits(PushNode(Put(w, tok), type))
  <1> DEFINE nd == [type |-> type, empty |-> TRUE]
             st == Append(w.stack, nd)
             u == PushNode(Put(w, tok), type)
  <1>1. w \in Writers /\ tok \in Tokens /\ tok \in Places BY DEF Waits, Tokens, Places
  <1>2. w.stack \in Seq(Nodes) /\ NoKeys(w.stack) /\ ValueRead(JsonText(w.out)) = Base(w.stack)
    BY DEF Waits, Shape, Bare
  <1>3. nd \in Nodes /\ nd.type # "KEY" /\ Place(nd) = tok BY DEF Nodes, Place
  <1>4. /\ Put(w, tok) \in Writers /\ Put(w, tok).stack = w.stack
        /\ JsonText(Put(w, tok).out) = JsonRead(JsonText(w.out), tok)
    BY <1>1, PutIs
  <1>5. st \in Seq(Nodes) /\ Last(st) = nd /\ st # <<>> BY <1>2, <1>3, EndsOf
  <1>6. u \in Writers /\ u.stack = st /\ u.out = Put(w, tok).out
    <2>1. u = [Put(w, tok) EXCEPT !.stack = Append(@, nd)] BY DEF PushNode
    <2>2. [Put(w, tok) EXCEPT !.stack = Append(@, nd)] = [Put(w, tok) EXCEPT !.stack = st]
      BY <1>4 DEF Writers
    <2> HIDE DEF u, st
    <2> QED BY <1>4, <1>5, <2>1, <2>2, NodesIs
  <1>7. ~HasKey(st) BY <1>3, <1>5 DEF HasKey
  <1>8. NoKeys(st) BY <1>2, <1>3, AppendKeys
  <1>9. JsonRead(JsonText(w.out), tok) = Append(Base(w.stack), tok)
    <2>1. Base(w.stack) # Wrong BY <1>2, BaseIs
    <2> QED BY <1>2, <2>1 DEF JsonRead
  <1>10. Base(st) = Append(Base(w.stack), tok) BY <1>2, <1>3, BaseAppend
  <1> HIDE DEF st, u
  <1> QED BY <1>4, <1>5, <1>6, <1>7, <1>8, <1>9, <1>10 DEF Fits, Shape, Expects, Bare, u

\* What is on top.
LEMMA TopIs ==
  ASSUME NEW w \in Writers
  PROVE  /\ TypeOnTop(w) = "none" <=> w.stack = <<>>
         /\ TypeOnTop(w) = "KEY" <=> HasKey(w.stack)
         /\ w.stack # <<>> => TypeOnTop(w) = Last(w.stack).type /\ Last(w.stack) \in Nodes
  <1>1. w.stack \in Seq(Nodes) BY NodesIs
  <1>2. w.stack # <<>> => Last(w.stack) \in Nodes BY <1>1, FrontIs
  <1> QED BY <1>2 DEF TypeOnTop, HasKey, Nodes

\* Without its key the writer waits for a value.
LEMMA PopKeyWaits ==
  ASSUME NEW w, Fits(w), HasKey(w.stack)
  PROVE  /\ Waits(PopKey(w)) /\ PopKey(w).stack # <<>>
         /\ TypeOnTop(PopKey(w)) = "OBJ" /\ PopKey(w).out = w.out
  <1> DEFINE st == Front(w.stack)
             u == PopKey(w)
  <1>1. w \in Writers /\ Shape(w.stack) /\ w.stack \in Seq(Nodes) /\ w.stack # <<>>
        /\ JsonText(w.out) = LastRead(Base(st), "k")
    BY DEF Fits, Shape, Expects, HasKey, Bare
  <1>2. st \in Seq(Nodes) BY <1>1, FrontIs
  <1>3. st # <<>> /\ Last(st).type = "OBJ" /\ ~Last(st).empty /\ NoKeys(st)
    BY <1>1 DEF Shape, Bare
  <1>4. u \in Writers /\ u.stack = st /\ u.out = w.out
    <2>1. u = [w EXCEPT !.stack = st] BY <1>1, TopIs DEF PopKey, PopNode, Writers
    <2> HIDE DEF u, st
    <2> QED BY <1>1, <1>2, <2>1, NodesIs
  <1> HIDE DEF u, st
  <1>5. ~HasKey(st) BY <1>3 DEF HasKey
  <1>6. /\ Base(st) \in Seq(Places) /\ Base(st) # <<>> /\ Last(Base(st)) = "{v"
    <2>1. Last(Base(st)) = Place(Last(st)) BY <1>2, <1>3, BaseEnds
    <2>2. Place(Last(st)) = "{v" BY <1>3 DEF Place
    <2> QED BY <1>2, <1>3, <2>1, <2>2, BaseIs
  <1>7. ValueRead(LastRead(Base(st), "k")) = Base(st)
    <2>0. "k" \in Places /\ "{v" \in Places BY DEF Places
    <2>1. /\ LastRead(Base(st), "k") # <<>> /\ Last(LastRead(Base(st), "k")) = "k"
          /\ LastRead(LastRead(Base(st), "k"), "{v") = LastRead(Base(st), "{v")
      BY <1>6, <2>0, LastReads
    <2>2. LastRead(Base(st), "{v") = Base(st) BY <1>6, <2>0, LastReads
    <2> QED BY <2>1, <2>2 DEF ValueRead
  <1>8. TypeOnTop(u) = "OBJ" BY <1>3, <1>4 DEF TypeOnTop
  <1> QED BY <1>1, <1>2, <1>3, <1>4, <1>5, <1>7, <1>8 DEF Waits, Shape, Bare, u

\* A comma, and what is open has a member: a key or a value may come.
LEMMA MemberRead ==
  ASSUME NEW w, Fits(w), w.stack # <<>>, ~HasKey(w.stack)
  PROVE  LET u == Member(w)
             nd == Last(w.stack)
         IN /\ u \in Writers /\ u.stack = Full(w.stack)
            /\ JsonText(u.out) =
                 IF nd.empty THEN Base(w.stack)
                 ELSE LastRead(Base(w.stack), IF nd.type = "OBJ" THEN "{," ELSE "[,")
  <1> DEFINE nd == Last(w.stack)
             v == IF nd.empty THEN w ELSE Put(w, ",")
             u == Member(w)
  <1>1. w \in Writers /\ w.stack \in Seq(Nodes) /\ JsonText(w.out) = Base(w.stack)
        /\ NoKeys(w.stack)
    BY DEF Fits, Shape, Expects, Bare
  <1>2. nd \in Nodes /\ Last(Base(w.stack)) = Place(nd) BY <1>1, BaseEnds
  <1>3. nd.type # "KEY" BY DEF HasKey
  <1>4. Base(w.stack) # <<>> BY <1>1, BaseIs
  <1>5. v \in Writers /\ v.stack = w.stack
        /\ JsonText(v.out) = IF nd.empty THEN Base(w.stack) ELSE JsonRead(Base(w.stack), ",")
    <2>1. "," \in Tokens BY DEF Tokens
    <2> QED BY <1>1, <2>1, PutIs
  <1>6. ~nd.empty => JsonRead(Base(w.stack), ",") =
                       LastRead(Base(w.stack), IF nd.type = "OBJ" THEN "{," ELSE "[,")
    <2>1. nd.type \in {"OBJ", "ARR"} BY <1>2, <1>3 DEF Nodes
    <2>2. CASE nd.type = "OBJ"
      <3>1. ~nd.empty => Last(Base(w.stack)) = "{v" BY <1>2, <2>2 DEF Place
      <3> QED BY <1>4, <2>2, <3>1 DEF JsonRead
    <2>3. CASE nd.type = "ARR"
      <3>1. ~nd.empty => Last(Base(w.stack)) = "[v" BY <1>2, <2>3 DEF Place
      <3> QED BY <1>4, <2>3, <3>1 DEF JsonRead
    <2> QED BY <2>1, <2>2, <2>3
  <1>7. u = [v EXCEPT !.stack = Full(w.stack)]
    <2>1. u = [v EXCEPT !.stack[Len(v.stack)].empty = FALSE] BY DEF Member
    <2> HIDE DEF v
    <2> QED BY <1>5, <2>1 DEF Full, Writers
  <1>8. Full(w.stack) \in Seq(Nodes) BY <1>1, FullIs
  <1> HIDE DEF u, v
  <1>9. u \in Writers /\ u.stack = Full(w.stack) /\ u.out = v.out BY <1>5, <1>7, <1>8, NodesIs
  <1> QED BY <1>5, <1>6, <1>9 DEF u

\* valCheck refuses the call, or the writer waits for a value.
LEMMA ValCheckWaits ==
  ASSUME NEW w, Fits(w)
  PROVE  ValCheck(w) = Bad \/ Waits(ValCheck(w))
  <1>0. w \in Writers BY DEF Fits
  <1>1. CASE HasKey(w.stack)
    <2>1. TypeOnTop(w) = "KEY" BY <1>0, <1>1, TopIs
    <2>2. Waits(PopKey(w)) /\ TypeOnTop(PopKey(w)) = "OBJ" BY <1>1, PopKeyWaits
    <2> QED BY <2>1, <2>2 DEF ValCheck
  <1>2. CASE TypeOnTop(w) = "ARR"
    <2> DEFINE u == Member(w)
               st == w.stack
               b == Base(st)
    <2>1. st # <<>> /\ ~HasKey(st) /\ Last(st).type = "ARR" BY <1>0, <1>2, TopIs
    <2>2. st \in Seq(Nodes) /\ NoKeys(st) BY <2>1 DEF Fits, Shape, Bare
    <2>3. ValCheck(w) = u
      <3>1. PopKey(w) = w BY <1>2 DEF PopKey
      <3> QED BY <1>2, <3>1 DEF ValCheck
    <2>4. u \in Writers /\ u.stack = Full(st)
          /\ JsonText(u.out) = IF Last(st).empty THEN b ELSE LastRead(b, "[,")
      BY <2>1, MemberRead
    <2>5. /\ Full(st) \in Seq(Nodes) /\ Full(st) # <<>> /\ NoKeys(Full(st))
          /\ Last(Full(st)) = Filled(Last(st)) /\ Filled(Last(st)).type = "ARR"
          /\ ~Filled(Last(st)).empty
          /\ Base(Full(st)) = LastRead(b, Place(Filled(Last(st))))
      BY <2>1, <2>2, FullIs
    <2>6. Place(Filled(Last(st))) = "[v" BY <2>5 DEF Place
    <2>7. ~HasKey(Full(st)) BY <2>5 DEF HasKey
    <2>8. b \in Seq(Places) /\ b # <<>> /\ Last(b) = Place(Last(st)) BY <2>1, <2>2, BaseIs, BaseEnds
    <2>9. ValueRead(JsonText(u.out)) = LastRead(b, "[v")
      <3>0. "[v" \in Places /\ "[," \in Places BY DEF Places
      <3>1. CASE Last(st).empty
        <4>1. Last(b) = "[" BY <2>1, <2>8, <3>1 DEF Place
        <4> QED BY <2>4, <2>8, <3>1, <4>1 DEF ValueRead
      <3>2. CASE ~Last(st).empty
        <4>1. /\ LastRead(b, "[,") # <<>> /\ Last(LastRead(b, "[,")) = "[,"
              /\ LastRead(LastRead(b, "[,"), "[v") = LastRead(b, "[v")
          BY <2>8, <3>0, LastReads
        <4> QED BY <2>4, <3>2, <4>1 DEF ValueRead
      <3> QED BY <3>1, <3>2
    <2> HIDE DEF u, st, b
    <2>10. Waits(u) BY <2>4, <2>5, <2>6, <2>7, <2>9 DEF Waits, Shape, Bare
    <2> QED BY <2>3, <2>10
  <1>3. CASE ~HasKey(w.stack) /\ TypeOnTop(w) # "ARR"
    <2>1. TypeOnTop(w) \notin {"KEY", "ARR"} BY <1>0, <1>3, TopIs
    <2> QED BY <2>1 DEF ValCheck
  <1> QED BY <1>1, <1>2, <1>3

\* A string, number or literal.
LEMMA ScalarFits ==
  ASSUME NEW w, Fits(w)
  PROVE  Scalar(w) = Bad \/ Fits(Scalar(w))
  BY ValCheckWaits, ScalarPut DEF Scalar

\* obj and arr.
LEMMA OpenFits ==
  ASSUME NEW w, Fits(w)
  PROVE  /\ Obj(w) = Bad \/ Fits(Obj(w))
         /\ Arr(w) = Bad \/ Fits(Arr(w))
  <1> SUFFICES ASSUME NEW type, NEW tok,
                      \/ type = "OBJ" /\ tok = "{"
                      \/ type = "ARR" /\ tok = "[",
                      TypeOnTop(w) # "OBJ"
               PROVE  Fits(Open(w, type, tok))
    BY DEF Obj, Arr, Open
  <1> DEFINE u == PopKey(w)
             v == IF TypeOnTop(u) = "ARR" THEN ValCheck(u) ELSE u
  <1>0. w \in Writers BY DEF Fits
  <1>1. Waits(v)
    <2>1. CASE HasKey(w.stack) BY <2>1, PopKeyWaits
    <2>2. CASE w.stack = <<>>
      <3>1. TypeOnTop(w) = "none" BY <1>0, <2>2, TopIs
      <3>2. v = w BY <3>1 DEF PopKey
      <3>3. ~HasKey(<<>>) /\ Bare(<<>>) = <<>> /\ Base(<<>>) = <<>>
        <4>1. <<>> \in Seq(Nodes) BY EmptySeq
        <4> QED BY <4>1, BaseIs DEF HasKey, Bare
      <3>4. ValueRead(<<>>) = <<>> BY DEF ValueRead
      <3> QED BY <1>0, <2>2, <3>2, <3>3, <3>4 DEF Waits, Fits, Expects
    <2>3. CASE ~HasKey(w.stack) /\ w.stack # <<>>
      <3>1. TypeOnTop(w) \in {"OBJ", "ARR", "KEY"} /\ TypeOnTop(w) # "KEY"
        BY <1>0, <2>3, TopIs DEF Nodes
      <3>2. TypeOnTop(w) = "ARR" BY <3>1
      <3>3. u = w BY <3>2 DEF PopKey
      <3>4. v = ValCheck(w) BY <3>2, <3>3
      <3>5. v # Bad
        <4>1. ValCheck(w) = Member(w) BY <3>2, <3>3 DEF ValCheck
        <4>2. Member(w) \in Writers /\ Member(w).stack = Full(w.stack) BY <2>3, MemberRead
        <4>3. Full(w.stack) # <<>>
          <5>1. w.stack \in Seq(Nodes) BY <1>0, NodesIs
          <5> QED BY <2>3, <5>1, FullIs
        <4> QED BY <3>4, <4>1, <4>2, <4>3, BadIs
      <3> QED BY <3>4, <3>5, ValCheckWaits
    <2> QED BY <2>1, <2>2, <2>3
  <1>2. Open(w, type, tok) = PushNode(Put(v, tok), type) BY DEF Open
  <1> HIDE DEF u, v
  <1> QED BY <1>1, <1>2, OpenPut

\* key
LEMMA KeyFits ==
  ASSUME NEW w, Fits(w)
  PROVE  Key(w) = Bad \/ Fits(Key(w))
  <1> SUFFICES ASSUME TypeOnTop(w) = "OBJ" PROVE Fits(Key(w))
    BY DEF Key
  <1> DEFINE nd == [type |-> "KEY", empty |-> TRUE]
             v == Member(w)
             b == Base(w.stack)
             full == Full(w.stack)
             st == Append(full, nd)
             u == PushNode(Put(v, "k"), "KEY")
  <1>1. w \in Writers /\ w.stack # <<>> /\ ~HasKey(w.stack) /\ Last(w.stack).type = "OBJ"
    <2>1. w \in Writers BY DEF Fits
    <2> QED BY <2>1, TopIs
  <1>2. w.stack \in Seq(Nodes) /\ NoKeys(w.stack) BY <1>1 DEF Fits, Shape, Bare
  <1>3. /\ v \in Writers /\ v.stack = full
        /\ JsonText(v.out) = IF Last(w.stack).empty THEN b ELSE LastRead(b, "{,")
    BY <1>1, MemberRead
  <1>4. /\ full \in Seq(Nodes) /\ full # <<>> /\ NoKeys(full)
        /\ Last(full).type = "OBJ" /\ ~Last(full).empty
        /\ Base(full) = LastRead(b, "{v")
    <2>1. Place(Filled(Last(w.stack))) = "{v" BY <1>1, <1>2, FullIs DEF Place
    <2> QED BY <1>1, <1>2, <2>1, FullIs
  <1>5. b \in Seq(Places) /\ b # <<>> /\ Last(b) = Place(Last(w.stack))
    BY <1>1, <1>2, BaseIs, BaseEnds
  <1>6. JsonRead(JsonText(v.out), "k") = LastRead(b, "k")
    <2>0. "k" \in Places /\ "{," \in Places BY DEF Places
    <2>1. CASE Last(w.stack).empty
      <3>1. Last(b) = "{" BY <1>1, <1>5, <2>1 DEF Place
      <3> QED BY <1>3, <1>5, <2>1, <3>1 DEF JsonRead
    <2>2. CASE ~Last(w.stack).empty
      <3>1. /\ LastRead(b, "{,") # <<>> /\ Last(LastRead(b, "{,")) = "{,"
            /\ LastRead(LastRead(b, "{,"), "k") = LastRead(b, "k")
        BY <1>5, <2>0, LastReads
      <3> QED BY <1>3, <2>2, <3>1 DEF JsonRead
    <2> QED BY <2>1, <2>2
  <1>7. LastRead(Base(full), "k") = LastRead(b, "k")
    <2>0. "k" \in Places /\ "{v" \in Places BY DEF Places
    <2> HIDE DEF b, full
    <2>1. LastRead(LastRead(b, "{v"), "k") = LastRead(b, "k") BY <1>5, <2>0, LastReads
    <2> QED BY <1>4, <2>1
  <1> HIDE DEF v, full
  <1>8. /\ Put(v, "k") \in Writers /\ Put(v, "k").stack = full
        /\ JsonText(Put(v, "k").out) = LastRead(b, "k")
    <2>1. "k" \in Tokens BY DEF Tokens
    <2> QED BY <1>3, <1>6, <2>1, PutIs
  <1>9. nd \in Nodes /\ nd.type = "KEY" BY DEF Nodes
  <1>10. st \in Seq(Nodes) /\ st # <<>> /\ Front(st) = full /\ Last(st) = nd
    BY <1>4, <1>9, EndsOf
  <1>11. u \in Writers /\ u.stack = st /\ u.out = Put(v, "k").out
    <2>1. u = [Put(v, "k") EXCEPT !.stack = Append(@, nd)] BY DEF PushNode
    <2>2. [Put(v, "k") EXCEPT !.stack = Append(@, nd)] = [Put(v, "k") EXCEPT !.stack = st]
      BY <1>8 DEF Writers
    <2> DEFINE p == Put(v, "k")
    <2>3. u = [p EXCEPT !.stack = st] /\ p \in Writers BY <1>8, <2>1, <2>2
    <2> HIDE DEF u, st, p
    <2>4. u \in Writers /\ u.stack = st /\ u.out = p.out BY <1>10, <2>3, NodesIs
    <2> QED BY <2>4 DEF p
  <1>12. Key(w) = u
    BY DEF Key, v
  <1> HIDE DEF u, st, nd
  <1>13. HasKey(st) /\ Bare(st) = full BY <1>9, <1>10 DEF HasKey, Bare
  <1>14. Shape(st) BY <1>4, <1>10, <1>13 DEF Shape
  <1>15. Expects(st) = LastRead(b, "k") BY <1>7, <1>13 DEF Expects
  <1> QED BY <1>8, <1>11, <1>12, <1>14, <1>15 DEF Fits

\* close pops what is on top, unless it is a key.
LEMMA CloseFits ==
  ASSUME NEW w, Fits(w)
  PROVE  /\ Close(w) = Bad \/ Fits(Close(w))
         /\ w.stack = <<>> => Close(w) = w
         /\ w.stack # <<>> /\ ~HasKey(w.stack) =>
              /\ Fits(Close(w)) /\ Close(w).stack = Front(w.stack)
  <1>0. w \in Writers BY DEF Fits
  <1>1. CASE w.stack = <<>>
    <2>1. TypeOnTop(w) = "none" BY <1>0, <1>1, TopIs
    <2> QED BY <1>1, <2>1 DEF Close
  <1>2. CASE HasKey(w.stack)
    <2>1. TypeOnTop(w) = "KEY" /\ w.stack # <<>> BY <1>0, <1>2, TopIs DEF HasKey
    <2> QED BY <1>2, <2>1 DEF Close
  <1>3. ASSUME w.stack # <<>>, ~HasKey(w.stack)
        PROVE  Fits(Close(w)) /\ Close(w).stack = Front(w.stack)
    <2> DEFINE st == Front(w.stack)
               nd == Last(w.stack)
               tok == IF nd.type = "OBJ" THEN "}" ELSE "]"
               v == PopNode(w)
    <2>1. w.stack \in Seq(Nodes) /\ NoKeys(w.stack) /\ JsonText(w.out) = Base(w.stack)
      BY <1>3 DEF Fits, Shape, Expects, Bare
    <2>2. st \in Seq(Nodes) /\ nd \in Nodes BY <1>3, <2>1, FrontIs
    <2>3. nd.type \in {"OBJ", "ARR"} /\ TypeOnTop(w) = nd.type
      BY <1>0, <1>3, <2>2, TopIs DEF HasKey, Nodes
    <2>4. Close(w) = Put(v, tok) BY <2>3 DEF Close
    <2>5. v \in Writers /\ v.stack = st /\ v.out = w.out
      <3>1. v = [w EXCEPT !.stack = st] BY DEF PopNode
      <3> HIDE DEF v, st
      <3> QED BY <1>0, <2>2, <3>1, NodesIs
    <2>6. tok \in Tokens BY DEF Tokens
    <2>7. Base(w.stack) # <<>> /\ Last(Base(w.stack)) = Place(nd)
          /\ Front(Base(w.stack)) = Base(st)
      BY <1>3, <2>1, BaseIs, BaseEnds
    <2>8. JsonRead(Base(w.stack), tok) = Base(st)
      <3>1. CASE nd.type = "OBJ"
        <4>1. Last(Base(w.stack)) \in {"{", "{v"} BY <2>7, <3>1 DEF Place
        <4> QED BY <2>7, <3>1, <4>1 DEF JsonRead
      <3>2. CASE nd.type = "ARR"
        <4>1. Last(Base(w.stack)) \in {"[", "[v"} BY <2>7, <3>2 DEF Place
        <4> QED BY <2>7, <3>2, <4>1 DEF JsonRead
      <3> QED BY <2>3, <3>1, <3>2
    <2> HIDE DEF v, tok
    <2>9. /\ Put(v, tok) \in Writers /\ Put(v, tok).stack = st
          /\ JsonText(Put(v, tok).out) = Base(st)
      BY <2>1, <2>5, <2>6, <2>8, PutIs
    <2>10. ~HasKey(st) /\ NoKeys(st) BY <1>3, <2>1, FrontKeys
    <2> HIDE DEF st
    <2> QED BY <2>2, <2>4, <2>9, <2>10 DEF Fits, Shape, Expects, Bare, st
  <1> QED BY <1>1, <1>2, <1>3

-----------------------------------------------------------------------------
(* val of a tree. *)

\* What a call leaves: a writer that fits its text, or one that has thrown.
Done(w) == w = Bad \/ Fits(w)

\* Nothing more is done after an exception.
LEMMA BadCalls ==
  /\ Scalar(Bad) = Bad /\ Key(Bad) = Bad /\ Close(Bad) = Bad
  <1>1. TypeOnTop(Bad) = "none" BY BadIs, TopIs
  <1> QED BY <1>1 DEF Scalar, Key, Close, ValCheck

\* The writers a call may leave; the trees of some levels are written.
WritersDone == {w \in Writers : Done(w)}
Good(val) == \A w \in WritersDone, v \in Vals : val[<<w, v>>] \in WritersDone

\* A tree is written, or refused at its first call.
LEMMA TreeDone ==
  ASSUME NEW val, Good(val), NEW w \in WritersDone, NEW v \in Vals
  PROVE  Tree(val, w, v) \in WritersDone
  <1> DEFINE N == Len(v.of)
             first == IF v.t = "DICT" THEN Obj(w) ELSE Arr(w)
             Named(u) == IF v.t = "DICT" THEN Key(u) ELSE u
             Is(f) == f = [i \in 0..N |-> IF i = 0 THEN first ELSE val[<<Named(f[i - 1]), v.of[i]>>]]
             filled == CHOOSE f : Is(f)
  <1>0. N \in Nat /\ \A i \in 1..N : v.of[i] \in Vals
    <2>1. v.of \in Seq(Vals) BY ValsAssumption
    <2> QED BY <2>1
  <1>1. CASE w = Bad BY <1>1 DEF Tree
  <1>2. CASE w # Bad /\ v.t = "LEAF"
    <2>1. Fits(w) BY <1>2 DEF WritersDone, Done
    <2>2. Done(Scalar(w)) BY <2>1, ScalarFits DEF Done
    <2>3. Scalar(w) \in Writers BY <2>2, BadIs DEF Done, Fits
    <2> QED BY <1>2, <2>2, <2>3 DEF Tree, WritersDone
  <1>3. CASE w # Bad /\ v.t # "LEAF"
    <2>1. Fits(w) BY <1>3 DEF WritersDone, Done
    <2>2. first \in WritersDone
      <3>1. Done(first) BY <2>1, OpenFits DEF Done
      <3> HIDE DEF first
      <3>2. first \in Writers BY <3>1, BadIs DEF Done, Fits
      <3> QED BY <3>1, <3>2 DEF WritersDone
    <2>3. ASSUME NEW u \in WritersDone PROVE Named(u) \in WritersDone
      <3>1. CASE u = Bad BY <3>1, BadCalls, <2>3
      <3>2. CASE u # Bad
        <4>1. Fits(u) BY <2>3, <3>2 DEF WritersDone, Done
        <4>2. Done(Key(u)) BY <4>1, KeyFits DEF Done
        <4>3. Key(u) \in Writers BY <4>2, BadIs DEF Done, Fits
        <4> QED BY <2>3, <4>2, <4>3 DEF WritersDone
      <3> QED BY <3>1, <3>2
    <2> DEFINE step == [p \in (1..N) \X WritersDone |-> val[<<Named(p[2]), v.of[p[1]]>>]]
    <2> HIDE DEF first, N, Named
    <2>4. \A j \in 1..N, u \in WritersDone :
            val[<<Named(u), v.of[j]>>] \in WritersDone /\ step[<<j, u>>] = val[<<Named(u), v.of[j]>>]
      BY <1>0, <2>3 DEF Good
    <2> HIDE DEF step
    <2>5. StaysIn(WritersDone, N, step) BY <2>4 DEF StaysIn
    <2>6. PICK f \in [0..N -> WritersDone] : Goes(f, N, first, step)
      BY <1>0, <2>2, <2>5, Recursion
    <2>7. Is(f)
      <3>1. ASSUME NEW i \in 0..N
            PROVE  f[i] = IF i = 0 THEN first ELSE val[<<Named(f[i - 1]), v.of[i]>>]
        <4>1. CASE i = 0 BY <4>1, <2>6 DEF Goes
        <4>2. CASE i # 0
          <5>1. i \in 1..N /\ i - 1 \in 0..N BY <1>0, <4>2
          <5>2. f[i - 1] \in WritersDone BY <5>1
          <5>3. f[i] = step[<<i, f[i - 1]>>] BY <5>1, <2>6 DEF Goes
          <5> QED BY <4>2, <5>1, <5>2, <5>3, <2>4
        <4> QED BY <4>1, <4>2
      <3> QED BY <3>1
    <2> HIDE DEF Is
    <2>8. Is(filled) BY <2>7
    <2> HIDE DEF filled
    <2>9. /\ filled[0] = first
          /\ \A i \in 1..N : filled[i] = val[<<Named(filled[i - 1]), v.of[i]>>]
      BY <1>0, <2>8 DEF Is
    <2> DEFINE S == {i \in Nat : i <= N => filled[i] \in WritersDone}
    <2>10. 0 \in S BY <2>2, <2>9
    <2>11. ASSUME NEW i \in Nat, i \in S PROVE i + 1 \in S
      <3> SUFFICES ASSUME i + 1 <= N PROVE filled[i + 1] \in WritersDone
        OBVIOUS
      <3>1. PICK k \in 1..N : k = i + 1 /\ k - 1 = i BY <1>0
      <3>2. filled[i] \in WritersDone BY <1>0, <2>11
      <3>3. filled[k] = val[<<Named(filled[i]), v.of[k]>>] BY <2>9, <3>1
      <3> QED BY <3>1, <3>2, <3>3, <2>4
    <2>12. \A i \in Nat : i \in S
      <3> HIDE DEF S
      <3> QED BY <2>10, <2>11, Induct
    <2>13. filled[N] \in WritersDone BY <1>0, <2>12
    <2>14. Tree(val, w, v) = Close(filled[N])
      BY <1>3 DEF Tree, filled, Is, N, Named, first
    <2>15. ASSUME NEW u \in WritersDone PROVE Close(u) \in WritersDone
      <3>1. u \in WritersDone OBVIOUS
      <3>2. CASE u = Bad BY <3>1, <3>2, BadCalls
      <3>3. CASE u # Bad
        <4>1. Fits(u) BY <3>1, <3>3 DEF WritersDone, Done
        <4>2. Done(Close(u)) BY <4>1, CloseFits DEF Done
        <4>3. Close(u) \in Writers BY <4>2, BadIs DEF Done, Fits
        <4> QED BY <4>2, <4>3 DEF WritersDone
      <3> QED BY <3>2, <3>3
    <2> QED BY <2>13, <2>14, <2>15
  <1> QED BY <1>1, <1>2, <1>3

\* val, of trees of any number of levels.
LEMMA ValDone ==
  ASSUME NEW w \in WritersDone, NEW v \in Vals
  PROVE  Val(w, v) \in WritersDone
  <1> DEFINE Level(h, val) ==
               [c \in Writers \X Vals |-> IF h = 0 THEN Bad ELSE Tree(val, c[1], c[2])]
             Is(f, n) == f = [h \in 0..n |-> Level(h, f[h - 1])]
             all == CHOOSE f : Is(f, Nesting)
             S == {n \in Nat : \E f : Is(f, n)}
             G == {n \in Nat : n <= Nesting => Good(all[n])}
  <1>0. Nesting \in Nat BY ValsAssumption
  <1>1. 0 \in S
    <2> DEFINE f == [h \in 0..0 |-> Level(h, <<>>)]
    <2>1. \A val : Level(0, val) = Level(0, <<>>) OBVIOUS
    <2> HIDE DEF Level
    <2>2. f = [h \in 0..0 |-> Level(h, f[h - 1])] BY <2>1
    <2> HIDE DEF f
    <2> QED BY <2>2
  <1>2. ASSUME NEW n \in Nat, n \in S PROVE n + 1 \in S
    <2>1. PICK f : Is(f, n) BY <1>2
    <2> DEFINE new == Level(n + 1, f[n])
               g == [h \in 0..(n + 1) |-> IF h = n + 1 THEN new ELSE f[h]]
    <2>2. \A val : Level(0, val) = Level(0, <<>>) OBVIOUS
    <2> HIDE DEF Level
    <2>3. \A h \in 0..n : f[h] = Level(h, f[h - 1]) BY <2>1
    <2>4. DOMAIN g = 0..(n + 1) /\ g[n + 1] = new /\ \A h \in 0..n : g[h] = f[h]
      <3> HIDE DEF new
      <3> QED OBVIOUS
    <2>5. ASSUME NEW h \in 0..(n + 1) PROVE g[h] = Level(h, g[h - 1])
      <3> HIDE DEF g
      <3>1. CASE h = 0 BY <2>2, <2>3, <2>4, <3>1
      <3>2. CASE h = n + 1
        <4>1. h - 1 = n /\ n \in 0..n BY <3>2
        <4> QED BY <2>4, <3>2, <4>1
      <3>3. CASE h # 0 /\ h # n + 1
        <4>1. h \in 0..n /\ h - 1 \in 0..n BY <3>3
        <4> QED BY <2>3, <2>4, <4>1
      <3> QED BY <3>1, <3>2, <3>3
    <2>6. g = [h \in 0..(n + 1) |-> Level(h, g[h - 1])]
      <3>1. g = [h \in 0..(n + 1) |-> g[h]] OBVIOUS
      <3> HIDE DEF g
      <3> QED BY <2>5, <3>1
    <2> HIDE DEF g
    <2> QED BY <2>6
  <1>3. \A n \in Nat : n \in S
    <2> HIDE DEF S
    <2> QED BY <1>1, <1>2, Induct
  <1>4. Is(all, Nesting)
    <2>1. \E f : Is(f, Nesting) BY <1>0, <1>3
    <2> HIDE DEF Is
    <2> QED BY <2>1
  <1> HIDE DEF all
  <1>5. \A h \in 0..Nesting : all[h] = Level(h, all[h - 1])
    <2> HIDE DEF Level
    <2> QED BY <1>4
  <1>6. \A u \in WritersDone, x \in Vals : <<u, x>> \in Writers \X Vals BY DEF WritersDone
  <1>7. Bad \in WritersDone BY BadIs DEF WritersDone, Done
  <1>8. 0 \in G
    <2>1. all[0] = Level(0, all[0 - 1])
      <3> HIDE DEF Level
      <3> QED BY <1>0, <1>5
    <2>2. \A u \in WritersDone, x \in Vals : all[0][<<u, x>>] = Bad BY <1>6, <2>1
    <2> QED BY <1>7, <2>2 DEF Good
  <1>9. ASSUME NEW n \in Nat, n \in G PROVE n + 1 \in G
    <2> SUFFICES ASSUME n + 1 <= Nesting PROVE Good(all[n + 1])
      OBVIOUS
    <2>1. n + 1 \in 0..Nesting /\ (n + 1) - 1 = n /\ n + 1 # 0 BY <1>0
    <2>2. Good(all[n]) BY <1>0, <1>9
    <2>3. all[n + 1] = Level(n + 1, all[n]) BY <1>5, <2>1
    <2>4. ASSUME NEW u \in WritersDone, NEW x \in Vals
          PROVE  all[n + 1][<<u, x>>] \in WritersDone
      <3>1. all[n + 1][<<u, x>>] = Tree(all[n], u, x) BY <1>6, <2>1, <2>3
      <3>2. Tree(all[n], u, x) \in WritersDone BY <2>2, TreeDone
      <3> QED BY <3>1, <3>2
    <2> QED BY <2>4 DEF Good
  <1>10. \A n \in Nat : n \in G
    <2> HIDE DEF G
    <2> QED BY <1>8, <1>9, Induct
  <1>11. Good(all[Nesting]) BY <1>0, <1>10
  <1>12. Val(w, v) = all[Nesting][<<w, v>>] BY DEF Val, all, Is, Level
  <1> QED BY <1>11, <1>12 DEF Good

\* closeAll refuses an open key, and closes everything else.
LEMMA CloseAllFits ==
  ASSUME NEW w, Fits(w)
  PROVE  /\ CloseAll(w) = Bad \/ Fits(CloseAll(w))
         /\ ~HasKey(w.stack) => CloseAll(w) # Bad /\ JsonText(CloseAll(w).out) = <<>>
  <1> DEFINE N == Len(w.stack)
             Is(f) == f = [n \in 0..N |-> IF n = 0 THEN w ELSE Close(f[n - 1])]
             c == CHOOSE f : Is(f)
             W == {u \in Writers : Fits(u) \/ u = Bad}
             step == [p \in (1..N) \X W |-> Close(p[2])]
  <1>0. w \in Writers /\ w.stack \in Seq(Nodes) /\ N \in Nat /\ w \in W
    <2>1. w \in Writers BY DEF Fits
    <2> QED BY <2>1, NodesIs
  <1>1. CASE HasKey(w.stack)
    <2>1. TypeOnTop(w) = "KEY" BY <1>0, <1>1, TopIs
    <2> QED BY <1>1, <2>1 DEF CloseAll
  <1>2. CASE ~HasKey(w.stack)
    <2>1. TypeOnTop(w) # "KEY" BY <1>0, <1>2, TopIs
    <2>2. ASSUME NEW u \in W PROVE Close(u) \in W
      <3>1. CASE u = Bad BY <3>1, <2>2, BadCalls
      <3>2. CASE Fits(u) BY <3>2, CloseFits, BadIs DEF Fits
      <3> QED BY <2>2, <3>1, <3>2
    <2>3. \A j \in 1..N, u \in W : step[<<j, u>>] = Close(u) OBVIOUS
    <2> HIDE DEF step, N, W
    <2>4. StaysIn(W, N, step) BY <2>2, <2>3 DEF StaysIn
    <2>5. PICK f \in [0..N -> W] : Goes(f, N, w, step) BY <1>0, <2>4, Recursion
    <2>6. Is(f)
      <3>1. ASSUME NEW n \in 0..N PROVE f[n] = IF n = 0 THEN w ELSE Close(f[n - 1])
        <4>1. CASE n = 0 BY <4>1, <2>5 DEF Goes
        <4>2. CASE n # 0
          <5>1. n \in 1..N /\ n - 1 \in 0..N BY <1>0, <4>2
          <5>2. f[n - 1] \in W BY <5>1
          <5>3. f[n] = step[<<n, f[n - 1]>>] BY <5>1, <2>5 DEF Goes
          <5> QED BY <4>2, <5>1, <5>2, <5>3, <2>3
        <4> QED BY <4>1, <4>2
      <3> QED BY <3>1
    <2> HIDE DEF Is
    <2>7. Is(c) BY <2>6
    <2> HIDE DEF c
    <2>8. c[0] = w /\ \A n \in 1..N : c[n] = Close(c[n - 1]) BY <1>0, <2>7 DEF Is
    <2> DEFINE S == {n \in Nat : n <= N => /\ Fits(c[n]) /\ ~HasKey(c[n].stack)
                                           /\ Len(c[n].stack) = N - n}
    <2>9. 0 \in S BY <1>0, <1>2, <2>8 DEF N
    <2>10. ASSUME NEW n \in Nat, n \in S PROVE n + 1 \in S
      <3> SUFFICES ASSUME n + 1 <= N
                   PROVE  Fits(c[n + 1]) /\ ~HasKey(c[n + 1].stack)
                          /\ Len(c[n + 1].stack) = N - (n + 1)
        OBVIOUS
      <3> DEFINE u == c[n]
      <3>1. Fits(u) /\ ~HasKey(u.stack) /\ Len(u.stack) = N - n BY <1>0, <2>10
      <3>2. PICK k \in 1..N : k = n + 1 /\ k - 1 = n BY <1>0
      <3>3. c[n + 1] = Close(u) BY <2>8, <3>2
      <3> HIDE DEF u
      <3>4. u.stack \in Seq(Nodes) BY <3>1, NodesIs DEF Fits
      <3>5. u.stack # <<>> BY <1>0, <3>1
      <3>6. Fits(Close(u)) /\ Close(u).stack = Front(u.stack) BY <3>1, <3>5, CloseFits
      <3>7. Len(Front(u.stack)) = Len(u.stack) - 1 BY <3>4, <3>5, FrontIs
      <3>8. NoKeys(u.stack) BY <3>1 DEF Fits, Shape, Bare
      <3>9. ~HasKey(Front(u.stack)) BY <3>4, <3>5, <3>8, FrontKeys
      <3> QED BY <1>0, <3>1, <3>3, <3>6, <3>7, <3>9
    <2>11. \A n \in Nat : n \in S
      <3> HIDE DEF S
      <3> QED BY <2>9, <2>10, Induct
    <2>12. Fits(c[N]) /\ ~HasKey(c[N].stack) /\ Len(c[N].stack) = 0 BY <1>0, <2>11
    <2>13. CloseAll(w) = c[N] BY <2>1 DEF CloseAll, c, Is, N
    <2>14. JsonText(c[N].out) = <<>>
      <3>1. c[N].stack \in Seq(Nodes) BY <2>12, NodesIs DEF Fits
      <3>2. c[N].stack = <<>> BY <2>12, <3>1, EmptySeq
      <3>3. Base(<<>>) = <<>>
        <4>1. <<>> \in Seq(Nodes) BY EmptySeq
        <4> QED BY <4>1, BaseIs
      <3> QED BY <2>12, <3>2, <3>3 DEF Fits, Expects, Bare
    <2>15. c[N] # Bad BY <2>12, BadIs
    <2> QED BY <2>12, <2>13, <2>14, <2>15
  <1> QED BY <1>1, <1>2

-----------------------------------------------------------------------------
(* The writer. *)

\* The inductive invariant: the writer is where a reader of its text is.
JsonIInv == Fits(Writer)

\* At first there is no text.
LEMMA JsonInitFits == JsonInit => JsonIInv
  <1> SUFFICES ASSUME JsonInit PROVE Fits(Writer)
    BY DEF JsonIInv
  <1>1. Writer.out = <<>> /\ Writer.stack = <<>> BY DEF JsonInit, Writer
  <1>2. <<>> \in Seq(Nodes) /\ <<>> \in Seq(Tokens) BY EmptySeq
  <1>3. Writer \in Writers BY <1>2 DEF JsonInit, Writer, Writers, Nodes
  <1>4. ~HasKey(<<>>) /\ Bare(<<>>) = <<>> /\ NoKeys(<<>>) BY DEF HasKey, Bare, NoKeys
  <1>5. Base(<<>>) = <<>> BY <1>2, BaseIs
  <1> QED BY <1>1, <1>2, <1>3, <1>4, <1>5, JsonTextOn DEF Fits, Shape, Expects

\* Every call keeps the writer where the reader is.
LEMMA JsonNextFits == JsonIInv /\ [JsonNext]_jsonVars => JsonIInv'
  <1> SUFFICES ASSUME Fits(Writer), [JsonNext]_jsonVars PROVE Fits(Writer)'
    BY DEF JsonIInv
  <1>1. ASSUME NEW w, Write(w), Done(w) PROVE Fits(Writer)'
    <2>1. Fits(w) BY <1>1 DEF Write, Done
    <2>2. w = [out |-> w.out, stack |-> w.stack] BY <2>1 DEF Fits, Writers
    <2>3. Writer' = w BY <1>1, <2>2 DEF Write, Writer
    <2> QED BY <2>1, <2>3
  <1>2. Done(Writer) /\ Writer \in WritersDone BY DEF Done, WritersDone, Fits
  <1>3. CASE UNCHANGED jsonVars
    <2>1. Writer' = Writer BY <1>3 DEF jsonVars, Writer
    <2> QED BY <2>1
  <1>4. CASE Write(Obj(Writer)) \/ Write(Arr(Writer)) BY <1>1, <1>4, OpenFits DEF Done
  <1>5. CASE Write(Key(Writer)) BY <1>1, <1>5, KeyFits DEF Done
  <1>6. CASE Write(Close(Writer)) BY <1>1, <1>6, CloseFits DEF Done
  <1>7. ASSUME NEW v \in Vals, Write(Val(Writer, v)) PROVE Fits(Writer)'
    <2>1. Done(Val(Writer, v)) BY <1>2, ValDone DEF WritersDone
    <2> QED BY <1>1, <1>7, <2>1
  <1>8. ASSUME NEW v \in Vals, Write(KeyVal(Writer, v)) PROVE Fits(Writer)'
    <2>1. Done(Key(Writer)) BY KeyFits DEF Done
    <2>2. Key(Writer) \in WritersDone BY <2>1, BadIs DEF Done, Fits, WritersDone
    <2>3. Done(KeyVal(Writer, v)) BY <2>2, ValDone DEF KeyVal, WritersDone, Done
    <2> QED BY <1>1, <1>8, <2>3
  <1>9. CASE Write(CloseAll(Writer)) BY <1>1, <1>9, CloseAllFits DEF Done
  <1> QED BY <1>3, <1>4, <1>5, <1>6, <1>7, <1>8, <1>9 DEF JsonNext

\* From there closeAll ends the text.
LEMMA FitsIsInv == JsonIInv => JsonInv
  <1> SUFFICES ASSUME Fits(Writer) PROVE JsonTypeOK /\ JsonWellFormed
    BY DEF JsonIInv, JsonInv
  <1>1. Writer \in Writers /\ Writer.stack = jstack BY DEF Fits, Writer
  <1>2. jstack \in Seq(Nodes) /\ Shape(jstack) BY <1>1 DEF Fits, Shape
  <1>3. JsonTypeOK
    <2>1. \A i \in DOMAIN jstack : jstack[i].type \in {"OBJ", "ARR", "KEY"} /\ jstack[i].empty \in BOOLEAN
      <3>1. \A i \in DOMAIN jstack : jstack[i] \in Nodes BY <1>2
      <3> QED BY <3>1 DEF Nodes
    <2>2. ASSUME NEW i \in DOMAIN jstack, jstack[i].type = "KEY"
          PROVE  i = Len(jstack) /\ i > 1 /\ jstack[i - 1].type = "OBJ"
      <3>0. i \in 1..Len(jstack) /\ Len(jstack) \in Nat BY <1>2
      <3>1. HasKey(jstack)
        <4>1. ~HasKey(jstack) => NoKeys(jstack) BY <1>2 DEF Shape, Bare
        <4> QED BY <4>1, <2>2, <3>0 DEF NoKeys
      <3> DEFINE f == Front(jstack)
      <3>2. NoKeys(f) /\ f # <<>> /\ Last(f).type = "OBJ" /\ jstack # <<>>
        BY <1>2, <3>1 DEF Shape, Bare, HasKey
      <3>3. f \in Seq(Nodes) /\ Len(f) = Len(jstack) - 1
            /\ \A k \in 1..(Len(jstack) - 1) : f[k] = jstack[k]
        BY <1>2, <3>2, FrontIs
      <3> HIDE DEF f
      <3>4. Len(f) \in Nat \ {0} /\ Last(f) = f[Len(f)] BY <3>2, <3>3, FrontIs
      <3>5. i = Len(jstack)
        <4> SUFFICES ASSUME i # Len(jstack) PROVE FALSE OBVIOUS
        <4>1. i \in 1..Len(f) /\ f[i] = jstack[i] BY <3>0, <3>3
        <4> QED BY <4>1, <2>2, <3>2 DEF NoKeys
      <3>6. i - 1 = Len(f) /\ i - 1 \in 1..(Len(jstack) - 1) BY <3>0, <3>3, <3>4, <3>5
      <3> QED BY <3>0, <3>2, <3>3, <3>4, <3>5, <3>6
    <2> QED BY <2>1, <2>2 DEF JsonTypeOK
  <1>4. JsonWellFormed
    <2>1. CASE ~HasKey(jstack)
      <3>1. TypeOnTop(Writer) # "KEY" BY <1>1, <2>1, TopIs
      <3> QED BY <1>1, <2>1, <3>1, CloseAllFits DEF JsonWellFormed
    <2>2. CASE HasKey(jstack)
      <3>1. TypeOnTop(Writer) = "KEY" BY <1>1, <2>2, TopIs
      <3>2. ValCheck(Writer) = PopKey(Writer) /\ Waits(PopKey(Writer))
            /\ ~HasKey(PopKey(Writer).stack)
        <4>1. Waits(PopKey(Writer)) /\ TypeOnTop(PopKey(Writer)) = "OBJ"
          BY <1>1, <2>2, PopKeyWaits
        <4> QED BY <3>1, <4>1 DEF ValCheck, Waits
      <3>3. Scalar(Writer) = Put(PopKey(Writer), "v") BY <3>2, BadIs DEF Scalar
      <3>4. Fits(Scalar(Writer)) BY <3>2, <3>3, ScalarPut
      <3>5. ~HasKey(Scalar(Writer).stack)
        <4>1. "v" \in Tokens /\ PopKey(Writer) \in Writers BY <3>2 DEF Tokens, Waits
        <4> QED BY <3>2, <3>3, <4>1, PutIs
      <3> QED BY <3>1, <3>4, <3>5, CloseAllFits DEF JsonWellFormed
    <2> QED BY <2>1, <2>2
  <1> QED BY <1>3, <1>4

\* For any trees, the stack of json::Writer fits its text at every call, and
\* closeAll makes it a sequence of values of JSON.
THEOREM JsonFits == JsonSpec => []JsonInv
  <1>1. JsonSpec => []JsonIInv BY JsonInitFits, JsonNextFits, PTL DEF JsonSpec
  <1> QED BY <1>1, FitsIsInv, PTL

-----------------------------------------------------------------------------
(***************************************************************************)
(* XmlWriter: for any names and texts, the writer is always where a reader *)
(* of its text is: the tags of the stack are the open elements, and the tag*)
(* hangs while the reader is in its start tag.                             *)
(***************************************************************************)

-----------------------------------------------------------------------------
(* The reader of XML. *)

\* The tokens of XML, and the states of its reader.
Names == DOMAIN Spelling
Plain == {"y", "<", "&"}
XTokens == Names \cup Chars \cup Plain \cup {"=", ">", "/>", "</", "<!--", "-->"}
Ats == {"content", "name", "tag", "value", "comment", "end", "closed", "wrong"}
States == [open : Seq(Names), at : Ats]

\* The states are records.
LEMMA StateIs ==
  /\ Nothing \in States /\ NotXml \in States
  /\ \A s \in States : s = [open |-> s.open, at |-> s.at] /\ s.open \in Seq(Names)
  /\ \A s \in States, a \in Ats :
       [s EXCEPT !.at = a] \in States /\ [s EXCEPT !.at = a] = [open |-> s.open, at |-> a]
  /\ \A names \in Seq(Names), a \in Ats : [open |-> names, at |-> a] \in States
  <1>1. <<>> \in Seq(Names) BY EmptySeq
  <1> QED BY <1>1 DEF Nothing, NotXml, States, Ats

\* The reader is always in one of its states.
LEMMA XmlReadStays ==
  ASSUME NEW s \in States, NEW tok \in XTokens
  PROVE  XmlRead(s, tok) \in States
  <1>1. s.open \in Seq(Names) /\ NotXml \in States BY StateIs
  <1>2. Front(s.open) \in Seq(Names) BY <1>1, FrontStays
  <1>3. tok \in Names => Append(s.open, tok) \in Seq(Names) BY <1>1, AppendProperties
  <1>4. \A a \in Ats : [s EXCEPT !.at = a] \in States BY StateIs
  <1>5. /\ [s EXCEPT !.at = "name"] \in States /\ [s EXCEPT !.at = "comment"] \in States
        /\ [s EXCEPT !.at = "end"] \in States /\ [s EXCEPT !.at = "value"] \in States
        /\ [s EXCEPT !.at = "content"] \in States /\ [s EXCEPT !.at = "tag"] \in States
        /\ [s EXCEPT !.at = "closed"] \in States
    BY <1>4 DEF Ats
  <1>6. [open |-> Front(s.open), at |-> "content"] \in States BY <1>2, StateIs DEF Ats
  <1>7. tok \in Names => [open |-> Append(s.open, tok), at |-> "tag"] \in States
    BY <1>3, StateIs DEF Ats
  <1> QED BY <1>1, <1>5, <1>6, <1>7 DEF XmlRead, Names

\* The reader as a function.
XmlNextRead == [p \in States \X XTokens |-> XmlRead(p[1], p[2])]

\* XmlText has a state for each token.
LEMMA XmlTextIs ==
  ASSUME NEW text \in Seq(XTokens)
  PROVE  \E f \in [0..Len(text) -> States] :
           Follows(f, Nothing, XmlNextRead, text) /\ XmlText(text) = f[Len(text)]
  <1> DEFINE N == Len(text)
             Is(f) == f = [i \in 0..N |-> IF i = 0 THEN Nothing ELSE XmlRead(f[i - 1], text[i])]
             read == CHOOSE f : Is(f)
  <1>0. N \in Nat OBVIOUS
  <1>1. XmlNextRead \in [States \X XTokens -> States] BY XmlReadStays DEF XmlNextRead
  <1>2. Nothing \in States BY StateIs
  <1>3. PICK f \in [0..N -> States] : Follows(f, Nothing, XmlNextRead, text)
    BY <1>1, <1>2, TextRead
  <1>4. ASSUME NEW i \in 0..N PROVE f[i] = IF i = 0 THEN Nothing ELSE XmlRead(f[i - 1], text[i])
    <2>1. CASE i = 0 BY <2>1, <1>3 DEF Follows
    <2>2. CASE i # 0
      <3>1. i \in 1..N /\ i - 1 \in 0..N BY <2>2, <1>0
      <3>2. f[i - 1] \in States /\ text[i] \in XTokens BY <3>1
      <3>3. f[i] = XmlNextRead[<<f[i - 1], text[i]>>] BY <3>1, <1>3 DEF Follows
      <3> QED BY <2>2, <3>2, <3>3 DEF XmlNextRead
    <2> QED BY <2>1, <2>2
  <1>5. Is(f) BY <1>4
  <1> HIDE DEF Is
  <1>6. Is(read) BY <1>5
  <1> HIDE DEF read
  <1>7. DOMAIN read = 0..N /\ read[0] = Nothing BY <1>0, <1>6 DEF Is
  <1>8. \A i \in 1..N : read[i] = XmlRead(read[i - 1], text[i]) BY <1>0, <1>6 DEF Is
  <1> DEFINE S == {i \in Nat : i <= N => read[i] = f[i]}
  <1>9. 0 \in S BY <1>0, <1>4, <1>7
  <1>10. ASSUME NEW i \in Nat, i \in S PROVE i + 1 \in S
    <2> SUFFICES ASSUME i + 1 <= N PROVE read[i + 1] = f[i + 1]
      OBVIOUS
    <2>1. PICK k \in 1..N : k = i + 1 /\ k - 1 = i /\ k # 0 /\ k \in 0..N BY <1>0
    <2>2. read[i] = f[i] BY <1>0, <1>10
    <2>3. read[k] = XmlRead(read[i], text[k]) BY <1>8, <2>1
    <2>4. f[k] = XmlRead(f[i], text[k]) BY <1>4, <2>1
    <2> QED BY <2>1, <2>2, <2>3, <2>4
  <1>11. \A i \in Nat : i \in S
    <2> HIDE DEF S
    <2> QED BY <1>9, <1>10, Induct
  <1>12. read[N] = f[N] BY <1>0, <1>11
  <1>13. XmlText(text) = read[N] BY DEF XmlText, read, Is
  <1> QED BY <1>3, <1>12, <1>13

\* The reader goes on where it was.
LEMMA XmlTextOn ==
  /\ XmlText(<<>>) = Nothing
  /\ \A text \in Seq(XTokens) :
       /\ XmlText(text) \in States
       /\ \A tok \in XTokens : XmlText(Append(text, tok)) = XmlRead(XmlText(text), tok)
  <1>1. XmlText(<<>>) = Nothing
    <2>1. <<>> \in Seq(XTokens) /\ Len(<<>>) = 0 BY EmptySeq
    <2> QED BY <2>1, XmlTextIs DEF Follows
  <1>2. ASSUME NEW text \in Seq(XTokens) PROVE XmlText(text) \in States
    <2>1. Len(text) \in 0..Len(text) OBVIOUS
    <2> QED BY <2>1, XmlTextIs
  <1>3. ASSUME NEW text \in Seq(XTokens), NEW tok \in XTokens
        PROVE  XmlText(Append(text, tok)) = XmlRead(XmlText(text), tok)
    <2>0. Append(text, tok) \in Seq(XTokens) /\ Len(Append(text, tok)) = Len(text) + 1
      BY AppendProperties
    <2>1. PICK f \in [0..Len(text) -> States] :
            Follows(f, Nothing, XmlNextRead, text) /\ XmlText(text) = f[Len(text)]
      BY XmlTextIs
    <2>2. PICK g : Follows(g, Nothing, XmlNextRead, Append(text, tok))
                   /\ XmlText(Append(text, tok)) = g[Len(text) + 1]
      BY <2>0, XmlTextIs
    <2>3. g[Len(text) + 1] = XmlNextRead[<<f[Len(text)], tok>>]
      <3> DEFINE N == Len(text)
                 more == Append(text, tok)
      <3>1. /\ N \in Nat /\ Len(more) = N + 1 /\ more[N + 1] = tok
            /\ \A i \in 1..N : text[i] = more[i]
        OBVIOUS
      <3>2. Follows(f, Nothing, XmlNextRead, text) /\ Follows(g, Nothing, XmlNextRead, more)
        BY <2>1, <2>2
      <3> HIDE DEF more
      <3>3. Begins(text, more) BY <3>1 DEF Begins
      <3>4. Agree(f, g, N) BY <3>1, <3>2, <3>3, SameRead
      <3>5. \A i \in 1..(N + 1) : g[i] = XmlNextRead[<<g[i - 1], more[i]>>]
        BY <3>1, <3>2 DEF Follows
      <3> HIDE DEF N
      <3>6. N + 1 \in 1..(N + 1) /\ (N + 1) - 1 = N BY <3>1
      <3> QED BY <3>1, <3>4, <3>5, <3>6 DEF N, Agree
    <2>4. f[Len(text)] \in States
      <3>1. Len(text) \in 0..Len(text) OBVIOUS
      <3> QED BY <3>1
    <2> QED BY <2>1, <2>2, <2>3, <2>4 DEF XmlNextRead
  <1> QED BY <1>1, <1>2, <1>3

\* More text does not change the state.
Kept(text, more) == XmlText(text \o more) = XmlText(text)

\* Tokens that leave the reader where it is.
LEMMA XmlTextOver ==
  ASSUME NEW text \in Seq(XTokens), NEW more \in Seq(XTokens),
         \A i \in 1..Len(more) : XmlRead(XmlText(text), more[i]) = XmlText(text)
  PROVE  text \o more \in Seq(XTokens) /\ Kept(text, more)
  <1> DEFINE N == Len(text)
             M == Len(more)
             all == text \o more
  <1>0. N \in Nat /\ M \in Nat OBVIOUS
  <1>1. /\ all \in Seq(XTokens) /\ Len(all) = N + M
        /\ \A i \in 1..(N + M) : all[i] = IF i <= N THEN text[i] ELSE more[i - N]
    BY ConcatProperties
  <1> HIDE DEF all
  <1>2. PICK f : f \in [0..Len(text) -> States]
                 /\ Follows(f, Nothing, XmlNextRead, text) /\ XmlText(text) = f[N]
    BY XmlTextIs
  <1>3. PICK g : Follows(g, Nothing, XmlNextRead, all) /\ XmlText(all) = g[N + M]
    BY <1>1, XmlTextIs
  <1>4. Begins(text, all) BY <1>0, <1>1 DEF Begins
  <1>5. g[N] = f[N]
    <2>1. Len(text) \in Nat /\ Len(all) \in Nat BY <1>0, <1>1
    <2>2. Agree(f, g, Len(text)) BY <1>2, <1>3, <1>4, <2>1, SameRead
    <2> QED BY <2>2 DEF Agree
  <1> DEFINE s == XmlText(text)
  <1>6. s \in States /\ g[N] = s BY <1>2, <1>5, XmlTextOn
  <1> HIDE DEF s
  <1>7. \A i \in 1..M : more[i] \in XTokens /\ XmlRead(s, more[i]) = s
    <2>1. \A i \in 1..M : more[i] \in XTokens OBVIOUS
    <2> QED BY <2>1 DEF s
  <1> DEFINE S == {n \in Nat : n <= M => g[N + n] = s}
  <1>8. 0 \in S BY <1>0, <1>6
  <1>9. ASSUME NEW n \in Nat, n \in S PROVE n + 1 \in S
    <2> SUFFICES ASSUME n + 1 <= M PROVE g[N + (n + 1)] = s
      OBVIOUS
    <2>1. PICK k \in 1..M : k = n + 1 BY <1>0
    <2>2. PICK j \in 1..(N + M) : j = N + k /\ j - 1 = N + n /\ j - N = k /\ ~(j <= N)
      BY <1>0, <2>1
    <2>3. g[j] = XmlNextRead[<<g[j - 1], all[j]>>] BY <1>1, <1>3, <2>2 DEF Follows
    <2>4. all[j] = more[k] BY <1>1, <2>2
    <2>5. g[j - 1] = s BY <1>0, <1>9, <2>1, <2>2
    <2>6. XmlNextRead[<<s, more[k]>>] = s BY <1>6, <1>7 DEF XmlNextRead
    <2> QED BY <2>1, <2>2, <2>3, <2>4, <2>5, <2>6
  <1>10. \A n \in Nat : n \in S
    <2> HIDE DEF S
    <2> QED BY <1>8, <1>9, Induct
  <1>11. g[N + M] = s BY <1>0, <1>10
  <1> QED BY <1>1, <1>3, <1>11 DEF all, s, Kept

-----------------------------------------------------------------------------
(* The stack of the writer, and the state of the reader that fits it. *)

\* The nodes of the stack of the XML writer.
XNodes == [t : {"TAG", "COMMENT"}, pload : Names \cup {""}, hanging : BOOLEAN]

\* A comment is on top; a tag there hangs; the tags below, and their names.
Commented(st) == st # <<>> /\ Last(st).t = "COMMENT"
Hanging(st) == st # <<>> /\ Last(st).hanging
Tags(st) == IF Commented(st) THEN Front(st) ELSE st
Loads(st) == [i \in 1..Len(st) |-> st[i].pload]

\* Tags, of which none hangs, and on top a tag or a comment.
OnlyTags(st) == \A i \in 1..Len(st) : st[i].t = "TAG" /\ st[i].pload \in Names
NoneHangs(st) == \A i \in 1..Len(st) : ~st[i].hanging
XShape(st) ==
  /\ st \in Seq(XNodes) /\ OnlyTags(Tags(st))
  /\ st # <<>> => NoneHangs(Front(st))
  /\ Commented(st) => ~Hanging(st)

\* The state of the reader that goes with a stack.
Reads(st) ==
  [open |-> Loads(Tags(st)),
   at |-> IF Hanging(st) THEN "tag" ELSE IF Commented(st) THEN "comment" ELSE "content"]

\* The writer is where a reader of its text is.
XFits(text, st) == text \in Seq(XTokens) /\ XShape(st) /\ XmlText(text) = Reads(st)

\* The names of tags.
LEMMA LoadsIs ==
  ASSUME NEW st \in Seq(XNodes), OnlyTags(st)
  PROVE  /\ Loads(st) \in Seq(Names) /\ Len(Loads(st)) = Len(st)
         /\ \A i \in 1..Len(st) : Loads(st)[i] = st[i].pload
         /\ Loads(st) = <<>> <=> st = <<>>
  <1> DEFINE b == Loads(st)
  <1>0. Len(st) \in Nat OBVIOUS
  <1>1. b \in [1..Len(st) -> Names] BY DEF Loads, OnlyTags
  <1>2. b \in Seq(Names) /\ Len(b) = Len(st) BY <1>0, <1>1, IsASeq, LenProperties
  <1>3. \A i \in 1..Len(st) : b[i] = st[i].pload BY DEF Loads
  <1> HIDE DEF b
  <1>4. b = <<>> <=> st = <<>> BY <1>2, EmptySeq
  <1> QED BY <1>2, <1>3, <1>4 DEF b

\* The names without the last tag,
LEMMA LoadsEnds ==
  ASSUME NEW st \in Seq(XNodes), OnlyTags(st), st # <<>>
  PROVE  /\ Front(st) \in Seq(XNodes) /\ OnlyTags(Front(st)) /\ Last(st) \in XNodes
         /\ Front(Loads(st)) = Loads(Front(st)) /\ Last(Loads(st)) = Last(st).pload
         /\ Loads(st) # <<>> /\ Last(st).t = "TAG" /\ Last(st).pload \in Names
  <1> DEFINE f == Front(st)
             b == Loads(st)
             a == Front(Loads(st))
             c == Loads(Front(st))
  <1>1. /\ f \in Seq(XNodes) /\ Len(f) = Len(st) - 1 /\ Len(st) \in Nat \ {0}
        /\ (\A i \in 1..(Len(st) - 1) : f[i] = st[i])
        /\ Last(st) \in XNodes /\ Last(st) = st[Len(st)]
    BY FrontIs
  <1>2. /\ b \in Seq(Names) /\ Len(b) = Len(st) /\ b # <<>>
        /\ \A i \in 1..Len(st) : b[i] = st[i].pload
    BY LoadsIs
  <1> HIDE DEF b
  <1>3. /\ Front(b) \in Seq(Names) /\ Len(Front(b)) = Len(b) - 1 /\ Last(b) = b[Len(b)]
        /\ \A i \in 1..(Len(b) - 1) : Front(b)[i] = b[i]
    BY <1>2, FrontIs
  <1>4. a \in Seq(Names) /\ Len(a) = Len(st) - 1
        /\ \A i \in 1..(Len(st) - 1) : a[i] = st[i].pload
    <2>1. Front(b) \in Seq(Names) /\ Len(Front(b)) = Len(st) - 1
          /\ \A i \in 1..(Len(st) - 1) : Front(b)[i] = st[i].pload
      BY <1>1, <1>2, <1>3
    <2> QED BY <2>1 DEF b
  <1> HIDE DEF f
  <1>5. OnlyTags(f) BY <1>1 DEF OnlyTags
  <1>6. Loads(f) \in Seq(Names) /\ Len(Loads(f)) = Len(f)
        /\ \A i \in 1..Len(f) : Loads(f)[i] = f[i].pload
    BY <1>1, <1>5, LoadsIs
  <1>7. c \in Seq(Names) /\ Len(c) = Len(st) - 1
        /\ \A i \in 1..(Len(st) - 1) : c[i] = st[i].pload
    <2>1. Loads(f) \in Seq(Names) /\ Len(Loads(f)) = Len(st) - 1
          /\ \A i \in 1..(Len(st) - 1) : Loads(f)[i] = st[i].pload
      BY <1>1, <1>6
    <2> QED BY <2>1 DEF f
  <1> HIDE DEF a, c
  <1>8. a = c
    <2>1. Len(a) = Len(c) /\ \A i \in 1..Len(a) : a[i] = c[i] BY <1>1, <1>4, <1>7
    <2> QED BY <1>4, <1>7, <2>1, SeqEqual
  <1>9. Len(st) \in 1..Len(st) BY <1>1
  <1>10. Last(st).t = "TAG" /\ Last(st).pload \in Names BY <1>1, <1>9 DEF OnlyTags
  <1>11. Last(b) = Last(st).pload BY <1>1, <1>2, <1>3, <1>9
  <1>12. Front(st) \in Seq(XNodes) /\ OnlyTags(Front(st)) BY <1>1, <1>5 DEF f
  <1> QED BY <1>1, <1>2, <1>8, <1>10, <1>11, <1>12 DEF a, b, c

\* and with one tag more.
LEMMA LoadsMore ==
  ASSUME NEW st \in Seq(XNodes), OnlyTags(st),
         NEW nd \in XNodes, nd.t = "TAG", nd.pload \in Names
  PROVE  OnlyTags(Append(st, nd)) /\ Loads(Append(st, nd)) = Append(Loads(st), nd.pload)
  <1> DEFINE m == Append(st, nd)
             a == Loads(Append(st, nd))
             c == Append(Loads(st), nd.pload)
             N == Len(st)
  <1>0. N \in Nat OBVIOUS
  <1>1. m \in Seq(XNodes) /\ Len(m) = N + 1 /\ m[N + 1] = nd /\ \A i \in 1..N : m[i] = st[i]
    BY AppendProperties
  <1> HIDE DEF m
  <1>2. OnlyTags(m) BY <1>0, <1>1 DEF OnlyTags
  <1>3. Loads(m) \in Seq(Names) /\ Len(Loads(m)) = N + 1
        /\ \A i \in 1..(N + 1) : Loads(m)[i] = m[i].pload
    BY <1>1, <1>2, LoadsIs
  <1>4. Loads(st) \in Seq(Names) /\ Len(Loads(st)) = N
        /\ \A i \in 1..N : Loads(st)[i] = st[i].pload
    BY LoadsIs
  <1>5. c \in Seq(Names) /\ Len(c) = N + 1 /\ c[N + 1] = nd.pload
        /\ \A i \in 1..N : c[i] = st[i].pload
    <2> DEFINE b == Loads(st)
    <2>1. b \in Seq(Names) /\ Len(b) = N /\ \A i \in 1..N : b[i] = st[i].pload BY <1>4
    <2> HIDE DEF b
    <2>2. Append(b, nd.pload) \in Seq(Names) /\ Len(Append(b, nd.pload)) = Len(b) + 1
          /\ Append(b, nd.pload)[Len(b) + 1] = nd.pload
          /\ \A i \in 1..Len(b) : Append(b, nd.pload)[i] = b[i]
      BY <2>1, AppendProperties
    <2>3. Append(b, nd.pload) \in Seq(Names) /\ Len(Append(b, nd.pload)) = N + 1
          /\ Append(b, nd.pload)[N + 1] = nd.pload
          /\ \A i \in 1..N : Append(b, nd.pload)[i] = st[i].pload
      BY <2>1, <2>2
    <2> QED BY <2>3 DEF b
  <1>6. a \in Seq(Names) /\ Len(a) = N + 1 /\ \A i \in 1..(N + 1) : a[i] = m[i].pload
    BY <1>3 DEF m
  <1> HIDE DEF a, c
  <1>7. Len(a) = Len(c) /\ \A i \in 1..Len(a) : a[i] = c[i]
    <2>1. ASSUME NEW i \in 1..(N + 1) PROVE m[i].pload = c[i]
      <3>1. CASE i = N + 1 BY <3>1, <1>1, <1>5
      <3>2. CASE i \in 1..N BY <3>2, <1>1, <1>5
      <3>3. i = N + 1 \/ i \in 1..N BY <1>0
      <3> QED BY <3>1, <3>2, <3>3
    <2> QED BY <2>1, <1>5, <1>6
  <1>8. a = c BY <1>5, <1>6, <1>7, SeqEqual
  <1> QED BY <1>2, <1>8 DEF a, c, m

-----------------------------------------------------------------------------
(* The calls. *)

\* It is a state of the reader.
LEMMA ReadsIs ==
  ASSUME NEW st, XShape(st)
  PROVE  /\ st \in Seq(XNodes) /\ Tags(st) \in Seq(XNodes) /\ OnlyTags(Tags(st))
         /\ Loads(Tags(st)) \in Seq(Names) /\ Reads(st) \in States
  <1>1. st \in Seq(XNodes) /\ OnlyTags(Tags(st)) BY DEF XShape
  <1>2. Tags(st) \in Seq(XNodes) BY <1>1, FrontIs DEF Tags, Commented
  <1>3. Loads(Tags(st)) \in Seq(Names) BY <1>1, <1>2, LoadsIs
  <1>4. Reads(st) \in States BY <1>3 DEF Reads, States, Ats
  <1> QED BY <1>1, <1>2, <1>3, <1>4

\* The node on top is a tag or a comment.
LEMMA XTopIs ==
  ASSUME NEW st, XShape(st), st # <<>>
  PROVE  /\ Last(st) \in XNodes /\ Front(st) \in Seq(XNodes) /\ NoneHangs(Front(st))
         /\ OnlyTags(Front(st)) /\ ~Commented(Front(st))
         /\ (Last(st).t = "COMMENT" /\ ~Last(st).hanging)
            \/ (Last(st).t = "TAG" /\ Last(st).pload \in Names)
  <1>1. st \in Seq(XNodes) /\ OnlyTags(Tags(st)) /\ NoneHangs(Front(st)) BY DEF XShape
  <1>2. Last(st) \in XNodes /\ Front(st) \in Seq(XNodes) BY <1>1, FrontIs
  <1>3. ASSUME Commented(st)
        PROVE  OnlyTags(Front(st)) /\ Last(st).t = "COMMENT" /\ ~Last(st).hanging
    <2>1. OnlyTags(Front(st)) BY <1>1, <1>3 DEF Tags
    <2>2. Last(st).t = "COMMENT" /\ ~Last(st).hanging
      BY <1>3 DEF XShape, Commented, Hanging
    <2> QED BY <2>1, <2>2
  <1>4. ASSUME ~Commented(st)
        PROVE  OnlyTags(Front(st)) /\ Last(st).t = "TAG" /\ Last(st).pload \in Names
    <2>1. OnlyTags(st) BY <1>1, <1>4 DEF Tags
    <2> QED BY <1>1, <2>1, LoadsEnds
  <1>5. OnlyTags(Front(st)) BY <1>3, <1>4
  <1>6. ~Commented(Front(st))
    <2> SUFFICES ASSUME Commented(Front(st)) PROVE FALSE OBVIOUS
    <2>1. Front(st) # <<>> /\ Last(Front(st)).t = "COMMENT" BY DEF Commented
    <2>2. Last(Front(st)).t = "TAG" BY <1>2, <1>5, <2>1, LoadsEnds
    <2> QED BY <2>1, <2>2
  <1> QED BY <1>1, <1>2, <1>3, <1>4, <1>5, <1>6

\* A stack of tags that do not hang.
LEMMA CalmIs ==
  ASSUME NEW st \in Seq(XNodes), OnlyTags(st), NoneHangs(st)
  PROVE  /\ XShape(st) /\ ~Commented(st) /\ ~Hanging(st) /\ Tags(st) = st
         /\ Reads(st) = [open |-> Loads(st), at |-> "content"]
  <1>1. CASE st = <<>>
    <2>1. ~Commented(st) /\ ~Hanging(st) BY <1>1 DEF Commented, Hanging
    <2> QED BY <1>1, <2>1 DEF XShape, Tags, Reads
  <1>2. CASE st # <<>>
    <2>1. /\ Len(st) \in Nat \ {0} /\ Last(st) = st[Len(st)] /\ Len(Front(st)) = Len(st) - 1
          /\ \A i \in 1..(Len(st) - 1) : Front(st)[i] = st[i]
      BY <1>2, FrontIs
    <2>2. Last(st).t = "TAG" BY <1>2, LoadsEnds
    <2>3. ~Last(st).hanging BY <2>1 DEF NoneHangs
    <2>4. NoneHangs(Front(st)) BY <2>1 DEF NoneHangs
    <2>5. ~Commented(st) /\ ~Hanging(st) BY <2>2, <2>3 DEF Commented, Hanging
    <2> QED BY <2>4, <2>5 DEF XShape, Tags, Reads
  <1> QED BY <1>1, <1>2

\* inComment
LEMMA XInComment == InComment <=> Commented(nstack)
  BY DEF InComment, Commented

\* closeTag, of any text and stack.
LEMMA ClosingFits ==
  ASSUME NEW text, NEW st, XFits(text, st), st # <<>>
  PROVE  XFits(text \o Closing(Last(st)), Front(st))
  <1> DEFINE nd == Last(st)
             f == Front(st)
             open == Loads(Tags(st))
  <1>0. text \in Seq(XTokens) /\ XShape(st) /\ XmlText(text) = Reads(st) BY DEF XFits
  <1>1. /\ nd \in XNodes /\ f \in Seq(XNodes) /\ NoneHangs(f) /\ OnlyTags(f)
        /\ (nd.t = "COMMENT" /\ ~nd.hanging) \/ (nd.t = "TAG" /\ nd.pload \in Names)
    BY <1>0, XTopIs
  <1>2. XShape(f) /\ Reads(f) = [open |-> Loads(f), at |-> "content"] BY <1>1, CalmIs
  <1>3. open \in Seq(Names) /\ XmlText(text) = [open |-> open, at |-> XmlText(text).at]
    <2>1. Reads(st) \in States /\ Reads(st).open = open BY <1>0, ReadsIs DEF Reads
    <2> QED BY <1>0, <2>1, ReadsIs, StateIs
  <1>4. "-->" \in XTokens /\ "/>" \in XTokens /\ "</" \in XTokens /\ ">" \in XTokens
    BY DEF XTokens
  <1>5. CASE nd.t = "COMMENT"
    <2>1. Commented(st) /\ ~Hanging(st) BY <1>1, <1>5 DEF Commented, Hanging
    <2>2. XmlText(text) = [open |-> Loads(f), at |-> "comment"] BY <1>0, <2>1 DEF Reads, Tags
    <2>3. text \o Closing(nd) = Append(text, "-->")
      BY <1>0, <1>4, <1>5, AppendsAre DEF Closing
    <2>4. XmlText(Append(text, "-->")) = XmlRead(XmlText(text), "-->") BY <1>0, <1>4, XmlTextOn
    <2>5. XmlRead(XmlText(text), "-->") = [open |-> Loads(f), at |-> "content"]
      BY <2>2 DEF XmlRead
    <2>6. Append(text, "-->") \in Seq(XTokens) BY <1>0, <1>4, AppendProperties
    <2> QED BY <1>2, <2>3, <2>4, <2>5, <2>6 DEF XFits
  <1>6. CASE nd.t = "TAG"
    <2>1. ~Commented(st) BY <1>6 DEF Commented
    <2>2. st \in Seq(XNodes) /\ OnlyTags(st) /\ Tags(st) = st BY <1>0, <2>1 DEF XShape, Tags
    <2>3. Front(Loads(st)) = Loads(f) /\ Last(Loads(st)) = nd.pload /\ Loads(st) # <<>>
      BY <2>2, LoadsEnds
    <2>4. CASE nd.hanging
      <3>1. XmlText(text) = [open |-> Loads(st), at |-> "tag"]
        BY <1>0, <2>2, <2>4 DEF Reads, Hanging
      <3>2. text \o Closing(nd) = Append(text, "/>")
        BY <1>0, <1>4, <1>6, <2>4, AppendsAre DEF Closing
      <3>3. XmlText(Append(text, "/>")) = XmlRead(XmlText(text), "/>") BY <1>0, <1>4, XmlTextOn
      <3>4. XmlRead(XmlText(text), "/>") = [open |-> Loads(f), at |-> "content"]
        BY <2>3, <3>1 DEF XmlRead
      <3>5. Append(text, "/>") \in Seq(XTokens) BY <1>0, <1>4, AppendProperties
      <3> QED BY <1>2, <3>2, <3>3, <3>4, <3>5 DEF XFits
    <2>5. CASE ~nd.hanging
      <3> DEFINE a == Append(text, "</")
                 b == Append(a, nd.pload)
                 names == Loads(st)
      <3>0. nd.pload \in XTokens BY <1>1, <1>6 DEF XTokens
      <3>1. XmlText(text) = [open |-> names, at |-> "content"]
        BY <1>0, <2>1, <2>2, <2>5 DEF Reads, Hanging
      <3>2. text \o Closing(nd) = Append(b, ">")
        <4>1. Closing(nd) = <<"</", nd.pload, ">">> BY <1>6, <2>5 DEF Closing
        <4>2. text \o <<"</", nd.pload, ">">> = Append(b, ">") BY <1>0, <1>4, <3>0, AppendsAre
        <4> QED BY <4>1, <4>2
      <3> HIDE DEF names
      <3>3. names # <<>> /\ Last(names) = nd.pload /\ Front(names) = Loads(f) BY <2>3 DEF names
      <3>4. a \in Seq(XTokens) /\ XmlText(a) = [open |-> names, at |-> "end"]
        <4>1. XmlText(a) = XmlRead(XmlText(text), "</") BY <1>0, <1>4, XmlTextOn
        <4>2. XmlRead(XmlText(text), "</") = [open |-> names, at |-> "end"]
          BY <3>1, <3>3 DEF XmlRead, Chars
        <4>3. a \in Seq(XTokens) BY <1>0, <1>4, AppendProperties
        <4> QED BY <4>1, <4>2, <4>3
      <3> HIDE DEF a
      <3>5. b \in Seq(XTokens) /\ XmlText(b) = [open |-> names, at |-> "closed"]
        <4>1. XmlText(b) = XmlRead(XmlText(a), nd.pload) BY <3>0, <3>4, XmlTextOn
        <4>2. XmlRead(XmlText(a), nd.pload) = [open |-> names, at |-> "closed"]
          BY <3>3, <3>4 DEF XmlRead
        <4>3. b \in Seq(XTokens) BY <3>0, <3>4, AppendProperties
        <4> QED BY <4>1, <4>2, <4>3
      <3> HIDE DEF b
      <3>6. XmlText(Append(b, ">")) = XmlRead(XmlText(b), ">") BY <1>4, <3>5, XmlTextOn
      <3>7. XmlRead(XmlText(b), ">") = [open |-> Loads(f), at |-> "content"]
        BY <3>3, <3>5 DEF XmlRead
      <3>8. Append(b, ">") \in Seq(XTokens) BY <1>4, <3>5, AppendProperties
      <3> QED BY <1>2, <3>2, <3>6, <3>7, <3>8 DEF XFits
    <2> QED BY <2>4, <2>5
  <1> QED BY <1>1, <1>5, <1>6

\* A stack on which nothing hangs and no comment is open.
LEMMA CalmFrom ==
  ASSUME NEW st, XShape(st), ~Hanging(st), ~Commented(st)
  PROVE  st \in Seq(XNodes) /\ OnlyTags(st) /\ NoneHangs(st)
  <1>1. st \in Seq(XNodes) /\ OnlyTags(st) BY DEF XShape, Tags
  <1>2. NoneHangs(st)
    <2>1. CASE st = <<>> BY <2>1, <1>1, EmptySeq DEF NoneHangs
    <2>2. CASE st # <<>>
      <3>1. /\ Len(st) \in Nat \ {0} /\ Last(st) = st[Len(st)] /\ Len(Front(st)) = Len(st) - 1
            /\ \A i \in 1..(Len(st) - 1) : Front(st)[i] = st[i]
        BY <1>1, <2>2, FrontIs
      <3>2. NoneHangs(Front(st)) /\ ~Last(st).hanging BY <2>2 DEF XShape, Hanging
      <3>3. \A i \in 1..Len(st) : i = Len(st) \/ i \in 1..(Len(st) - 1) BY <3>1
      <3> QED BY <3>1, <3>2, <3>3 DEF NoneHangs
    <2> QED BY <2>1, <2>2
  <1> QED BY <1>1, <1>2

\* Pushing a node on such a stack.
LEMMA XPushIs ==
  ASSUME NEW st \in Seq(XNodes), OnlyTags(st), NoneHangs(st), NEW nd \in XNodes
  PROVE  /\ nd.t = "TAG" /\ nd.pload \in Names /\ nd.hanging =>
              /\ XShape(Append(st, nd))
              /\ Reads(Append(st, nd)) = [open |-> Append(Loads(st), nd.pload), at |-> "tag"]
         /\ nd.t = "COMMENT" /\ ~nd.hanging =>
              /\ XShape(Append(st, nd))
              /\ Reads(Append(st, nd)) = [open |-> Loads(st), at |-> "comment"]
  <1> DEFINE m == Append(st, nd)
  <1>1. m \in Seq(XNodes) /\ m # <<>> /\ Front(m) = st /\ Last(m) = nd BY EndsOf
  <1>2. ASSUME nd.t = "TAG", nd.pload \in Names, nd.hanging
        PROVE  XShape(m) /\ Reads(m) = [open |-> Append(Loads(st), nd.pload), at |-> "tag"]
    <2>1. OnlyTags(m) /\ Loads(m) = Append(Loads(st), nd.pload) BY <1>2, LoadsMore
    <2> HIDE DEF m
    <2>2. ~Commented(m) /\ Hanging(m) BY <1>1, <1>2 DEF Commented, Hanging
    <2> QED BY <1>1, <2>1, <2>2 DEF XShape, Tags, Reads
  <1>3. ASSUME nd.t = "COMMENT", ~nd.hanging
        PROVE  XShape(m) /\ Reads(m) = [open |-> Loads(st), at |-> "comment"]
    <2> HIDE DEF m
    <2>1. Commented(m) /\ ~Hanging(m) BY <1>1, <1>3 DEF Commented, Hanging
    <2> QED BY <1>1, <2>1 DEF XShape, Tags, Reads
  <1> QED BY <1>2, <1>3

\* closeHanging
LEMMA UnhungFits ==
  ASSUME XFits(xout, nstack)
  PROVE  /\ XFits(CloseHanging, Unhung) /\ ~Hanging(Unhung)
         /\ Commented(Unhung) <=> Commented(nstack)
         /\ Unhung = <<>> <=> nstack = <<>>
  <1> DEFINE st == nstack
             N == Len(nstack)
             u == Unhung
  <1>0. xout \in Seq(XTokens) /\ XShape(st) /\ XmlText(xout) = Reads(st) BY DEF XFits
  <1>1. CASE st = <<>>
    <2>1. Unhung = st /\ CloseHanging = xout BY <1>1 DEF Unhung, CloseHanging
    <2>2. ~Hanging(st) BY <1>1 DEF Hanging
    <2> QED BY <2>1, <2>2
  <1>2. CASE st # <<>>
    <2>0. st \in Seq(XNodes) /\ N \in Nat \ {0} /\ Last(st) = st[N] /\ N \in 1..N
          /\ \A i \in 1..N : st[i] \in XNodes
      <3>1. st \in Seq(XNodes) BY <1>0 DEF XShape
      <3>2. N \in Nat \ {0} BY <1>2, <3>1, EmptySeq
      <3> QED BY <3>1, <3>2 DEF Last
    <2> DEFINE nd == [st[N] EXCEPT !.hanging = FALSE]
    <2>1. nd \in XNodes /\ nd.t = st[N].t /\ nd.pload = st[N].pload /\ ~nd.hanging
          /\ (~st[N].hanging => nd = st[N])
      BY <2>0 DEF XNodes
    <2>2. u = [st EXCEPT ![N] = nd] BY <1>2 DEF Unhung
    <2> HIDE DEF nd
    <2>3. u \in Seq(XNodes) /\ Len(u) = N /\ \A i \in 1..N : u[i] = IF i = N THEN nd ELSE st[i]
      BY <2>0, <2>1, <2>2, ExceptSeq
    <2> HIDE DEF u
    <2>4. CASE ~Hanging(st)
      <3>1. ~st[N].hanging BY <1>2, <2>0, <2>4 DEF Hanging
      <3>2. Len(u) = Len(st) /\ \A i \in 1..Len(u) : u[i] = st[i] BY <2>1, <2>3, <3>1
      <3>3. u = st BY <2>0, <2>3, <3>2, SeqEqual
      <3>4. CloseHanging = xout BY <2>4 DEF CloseHanging, Hanging
      <3> QED BY <2>4, <3>3, <3>4 DEF u
    <2>5. CASE Hanging(st)
      <3>1. ~Commented(st) BY <1>0, <2>5 DEF XShape
      <3>2. OnlyTags(st) /\ NoneHangs(Front(st)) /\ Tags(st) = st
        BY <1>0, <1>2, <3>1 DEF XShape, Tags
      <3>3. Len(Front(st)) = N - 1 /\ \A i \in 1..(N - 1) : Front(st)[i] = st[i]
        BY <1>2, <2>0, FrontIs
      <3>4. OnlyTags(u) BY <2>0, <2>1, <2>3, <3>2 DEF OnlyTags
      <3>5. NoneHangs(u)
        <4>1. \A i \in 1..N : i # N => i \in 1..(N - 1) BY <2>0
        <4>2. \A i \in 1..(N - 1) : ~st[i].hanging BY <3>2, <3>3 DEF NoneHangs
        <4> QED BY <2>1, <2>3, <4>1, <4>2 DEF NoneHangs
      <3>6. XShape(u) /\ ~Commented(u) /\ ~Hanging(u)
            /\ Reads(u) = [open |-> Loads(u), at |-> "content"]
        BY <2>3, <3>4, <3>5, CalmIs
      <3>7. Loads(u) = Loads(st)
        <4>1. \A i \in 1..N : u[i].pload = st[i].pload BY <2>1, <2>3
        <4> QED BY <2>3, <4>1 DEF Loads
      <3>8. XmlText(xout) = [open |-> Loads(st), at |-> "tag"]
        BY <1>0, <2>5, <3>2 DEF Reads
      <3>9. CloseHanging = Append(xout, ">") BY <2>5 DEF CloseHanging, Hanging
      <3>10. ">" \in XTokens BY DEF XTokens
      <3>11. Append(xout, ">") \in Seq(XTokens) BY <1>0, <3>10, AppendProperties
      <3>12. XmlText(Append(xout, ">")) = XmlRead(XmlText(xout), ">") BY <1>0, <3>10, XmlTextOn
      <3>13. XmlRead(XmlText(xout), ">") = [open |-> Loads(st), at |-> "content"]
        BY <3>8 DEF XmlRead
      <3>14. u # <<>> BY <2>0, <2>3, EmptySeq
      <3> QED BY <1>2, <3>1, <3>6, <3>7, <3>9, <3>11, <3>12, <3>13, <3>14 DEF XFits, u
    <2> QED BY <2>4, <2>5
  <1> QED BY <1>1, <1>2

\* What is left of a text when it is written.
LEMMA EscIs ==
  ASSUME NEW text \in Seq(Plain)
  PROVE  /\ PutEsced(text) \in Seq(XTokens)
         /\ ~InComment => \A i \in 1..Len(PutEsced(text)) : PutEsced(text)[i] \in Chars
         /\ InComment => \A i \in 1..Len(PutEsced(text)) : PutEsced(text)[i] # "-->"
  <1>0. Len(text) \in Nat /\ DOMAIN text = 1..Len(text) BY LenProperties
  <1>1. \A i \in 1..Len(text) : text[i] \in Plain OBVIOUS
  <1>2. CASE InComment
    <2>1. PutEsced(text) = text BY <1>2 DEF PutEsced
    <2>2. Plain \subseteq XTokens /\ "-->" \notin Plain BY DEF XTokens, Plain
    <2>3. text \in Seq(XTokens) BY <2>2, SeqMonotonic
    <2> QED BY <1>1, <1>2, <2>1, <2>2, <2>3
  <1>3. CASE ~InComment
    <2> DEFINE e == PutEsced(text)
    <2>1. e = [i \in 1..Len(text) |-> CASE text[i] = "<" -> "&lt;" [] text[i] = "&" -> "&amp;"
                                        [] OTHER -> text[i]]
      BY <1>0, <1>3 DEF PutEsced
    <2>2. \A i \in 1..Len(text) : (CASE text[i] = "<" -> "&lt;" [] text[i] = "&" -> "&amp;"
                                     [] OTHER -> text[i]) \in Chars
      BY <1>1 DEF Plain, Chars
    <2> HIDE DEF e
    <2>3. e \in [1..Len(text) -> Chars] BY <2>1, <2>2
    <2>4. e \in Seq(Chars) BY <1>0, <2>3, IsASeq
    <2>5. \A i \in 1..Len(e) : e[i] \in Chars BY <2>4
    <2>6. Chars \subseteq XTokens BY DEF XTokens
    <2>7. e \in Seq(XTokens) BY <2>4, <2>6, SeqMonotonic
    <2> QED BY <1>3, <2>5, <2>7 DEF e
  <1> QED BY <1>2, <1>3

\* Where the reader stays when a text is written.
LEMMA EscRead ==
  ASSUME NEW out \in Seq(XTokens), NEW text \in Seq(Plain),
         \/ ~InComment /\ XmlText(out).at = "content" /\ XmlText(out).open # <<>>
         \/ ~InComment /\ XmlText(out).at = "value"
         \/ InComment /\ XmlText(out).at = "comment"
  PROVE  out \o PutEsced(text) \in Seq(XTokens) /\ Kept(out, PutEsced(text))
  <1> DEFINE e == PutEsced(text)
             s == XmlText(out)
  <1>1. e \in Seq(XTokens) BY EscIs
  <1>2. ASSUME NEW i \in 1..Len(e) PROVE XmlRead(s, e[i]) = s
    <2> HIDE DEF s, e
    <2>1. CASE ~InComment
      <3>1. e[i] \in Chars BY <2>1, EscIs DEF e
      <3>2. (s.at = "content" /\ s.open # <<>>) \/ s.at = "value" BY <2>1 DEF s
      <3> QED BY <3>1, <3>2 DEF XmlRead, Chars
    <2>2. CASE InComment
      <3>1. e[i] # "-->" BY <2>2, EscIs DEF e
      <3>2. s.at = "comment" BY <2>2 DEF s
      <3> QED BY <3>1, <3>2 DEF XmlRead
    <2> QED BY <2>1, <2>2
  <1> HIDE DEF e
  <1>3. out \o e \in Seq(XTokens) /\ Kept(out, e) BY <1>1, <1>2, XmlTextOver
  <1> QED BY <1>3 DEF e

\* openComment
LEMMA OpenCommentFits ==
  ASSUME XFits(xout, nstack), OpenComment
  PROVE  XFits(xout', nstack')
  <1>1. CASE InComment
    <2>1. xout' = xout /\ nstack' = nstack BY <1>1 DEF OpenComment, xmlVars
    <2> QED BY <2>1
  <1>2. CASE ~InComment
    <2> DEFINE u == Unhung
               o == CloseHanging
               nd == [t |-> "COMMENT", pload |-> "", hanging |-> FALSE]
    <2>1. xout' = Append(o, "<!--") /\ nstack' = Append(u, nd)
      BY <1>2 DEF OpenComment, PushXml
    <2>2. XFits(o, u) /\ ~Hanging(u) /\ ~Commented(u) BY <1>2, XInComment, UnhungFits
    <2>3. nd \in XNodes /\ nd.t = "COMMENT" /\ ~nd.hanging BY DEF XNodes
    <2> HIDE DEF u, o, nd
    <2>4. u \in Seq(XNodes) /\ OnlyTags(u) /\ NoneHangs(u) BY <2>2, CalmFrom DEF XFits
    <2>5. o \in Seq(XTokens) /\ XmlText(o) = [open |-> Loads(u), at |-> "content"]
      BY <2>2, <2>4, CalmIs DEF XFits
    <2>6. XShape(Append(u, nd)) /\ Reads(Append(u, nd)) = [open |-> Loads(u), at |-> "comment"]
      BY <2>3, <2>4, XPushIs
    <2>7. "<!--" \in XTokens BY DEF XTokens
    <2>8. XmlText(Append(o, "<!--")) = XmlRead(XmlText(o), "<!--") BY <2>5, <2>7, XmlTextOn
    <2>9. XmlRead(XmlText(o), "<!--") = [open |-> Loads(u), at |-> "comment"]
      BY <2>5 DEF XmlRead, Chars
    <2>10. Append(o, "<!--") \in Seq(XTokens) BY <2>5, <2>7, AppendProperties
    <2> QED BY <2>1, <2>6, <2>8, <2>9, <2>10 DEF XFits
  <1> QED BY <1>1, <1>2

\* writeText
LEMMA WriteTextFits ==
  ASSUME XFits(xout, nstack), NEW text \in Seq(Plain), WriteText(text)
  PROVE  XFits(xout', nstack')
  <1> DEFINE u == Unhung
             o == CloseHanging
             e == PutEsced(text)
  <1>1. xout' = o \o e /\ nstack' = u /\ nstack # <<>> BY DEF WriteText
  <1>2. /\ XFits(o, u) /\ ~Hanging(u) /\ u # <<>>
        /\ (Commented(u) <=> InComment)
    BY <1>1, XInComment, UnhungFits
  <1>3. o \o e \in Seq(XTokens) /\ Kept(o, e)
    <2> HIDE DEF u, o
    <2>0. o \in Seq(XTokens) /\ XShape(u) /\ XmlText(o) = Reads(u) BY <1>2 DEF XFits
    <2>1. CASE InComment
      <3>1. XmlText(o).at = "comment" BY <1>2, <2>0, <2>1 DEF Reads
      <3> QED BY <2>0, <2>1, <3>1, EscRead
    <2>2. CASE ~InComment
      <3>1. u \in Seq(XNodes) /\ OnlyTags(u) /\ NoneHangs(u) BY <1>2, <2>0, <2>2, CalmFrom
      <3>2. XmlText(o) = [open |-> Loads(u), at |-> "content"] BY <2>0, <3>1, CalmIs
      <3>3. Loads(u) # <<>> BY <1>2, <3>1, LoadsIs
      <3>4. XmlText(o).at = "content" /\ XmlText(o).open # <<>> BY <3>2, <3>3
      <3> QED BY <2>0, <2>2, <3>4, EscRead
    <2> QED BY <2>1, <2>2
  <1> HIDE DEF u, o, e
  <1> QED BY <1>1, <1>2, <1>3 DEF XFits, Kept

\* A tag with the values of its attributes.
LEMMA OpenTagFits ==
  ASSUME XFits(xout, nstack), NEW tag \in Names, NEW attrs \in Seq(Seq(Plain)),
         OpenTag(tag, attrs)
  PROVE  XFits(xout', nstack')
  <1> DEFINE u == Unhung
             o == CloseHanging
             nd == [t |-> "TAG", pload |-> tag, hanging |-> TRUE]
             N == Len(attrs)
             first == CloseHanging \o <<"<", tag>>
             names == Append(Loads(u), tag)
             In == [open |-> names, at |-> "tag"]
             V == {t \in Seq(XTokens) : XmlText(t) = In}
             More(t, n) == t \o <<"=">> \o PutEsced(attrs[n]) \o <<"=">>
             step == [p \in (1..N) \X V |-> More(p[2], p[1])]
             Is(f) == f = [n \in 0..N |-> IF n = 0 THEN first ELSE More(f[n - 1], n)]
             begun == CHOOSE f : Is(f)
  <1>0. N \in Nat /\ \A n \in 1..N : attrs[n] \in Seq(Plain) OBVIOUS
  <1>1. ~InComment /\ xout' = begun[N] /\ nstack' = Append(u, nd)
    BY DEF OpenTag, PushXml
  <1>2. XFits(o, u) /\ ~Hanging(u) /\ ~Commented(u) BY <1>1, XInComment, UnhungFits
  <1>3. nd \in XNodes /\ nd.t = "TAG" /\ nd.pload = tag /\ nd.hanging BY DEF XNodes
  <1>4. u \in Seq(XNodes) /\ OnlyTags(u) /\ NoneHangs(u)
    <2> HIDE DEF u
    <2> QED BY <1>2, CalmFrom DEF XFits
  <1>5. XShape(Append(u, nd)) /\ Reads(Append(u, nd)) = In
    <2> HIDE DEF u, nd
    <2> QED BY <1>3, <1>4, XPushIs
  <1>6. names \in Seq(Names)
    <2> HIDE DEF u
    <2>1. Loads(u) \in Seq(Names) BY <1>4, LoadsIs
    <2> QED BY <2>1, AppendProperties
  <1>7. first \in Seq(XTokens) /\ XmlText(first) = In
    <2> HIDE DEF u, o
    <2>1. o \in Seq(XTokens) /\ XmlText(o) = [open |-> Loads(u), at |-> "content"]
      BY <1>2, <1>4, CalmIs DEF XFits
    <2>2. "<" \in XTokens /\ tag \in XTokens BY DEF XTokens, Plain
    <2> DEFINE a == Append(o, "<")
    <2>3. first = Append(a, tag)
      <3>1. o \o <<"<", tag>> = Append(Append(o, "<"), tag) BY <2>1, <2>2, AppendsAre
      <3> QED BY <3>1 DEF o
    <2> HIDE DEF first
    <2>4. a \in Seq(XTokens) BY <2>1, <2>2, AppendProperties
    <2>5. XmlText(a) = [open |-> Loads(u), at |-> "name"]
      <3>1. XmlText(a) = XmlRead(XmlText(o), "<") BY <2>1, <2>2, XmlTextOn
      <3>2. XmlRead(XmlText(o), "<") = [open |-> Loads(u), at |-> "name"]
        BY <2>1 DEF XmlRead, Chars
      <3> QED BY <3>1, <3>2
    <2> HIDE DEF a
    <2>6. XmlText(Append(a, tag)) = XmlRead(XmlText(a), tag) BY <2>2, <2>4, XmlTextOn
    <2>7. XmlRead(XmlText(a), tag) = In BY <2>5 DEF XmlRead, Names
    <2>8. Append(a, tag) \in Seq(XTokens) BY <2>2, <2>4, AppendProperties
    <2> QED BY <2>3, <2>6, <2>7, <2>8
  <1> HIDE DEF u, o, nd, first, names
  <1>8. ASSUME NEW t \in V, NEW n \in 1..N PROVE More(t, n) \in V
    <2> DEFINE a == Append(t, "=")
               e == PutEsced(attrs[n])
               b == a \o PutEsced(attrs[n])
    <2>0. "=" \in XTokens /\ t \in Seq(XTokens) /\ XmlText(t) = In BY DEF XTokens
    <2>1. a \in Seq(XTokens) /\ XmlText(a) = [open |-> names, at |-> "value"]
      <3>1. XmlText(a) = XmlRead(XmlText(t), "=") BY <2>0, XmlTextOn
      <3>2. XmlRead(XmlText(t), "=") = [open |-> names, at |-> "value"]
        BY <2>0 DEF XmlRead
      <3>3. a \in Seq(XTokens) BY <2>0, AppendProperties
      <3> QED BY <3>1, <3>2, <3>3
    <2>2. t \o <<"=">> = a BY <2>0, AppendsAre
    <2> HIDE DEF a
    <2>3. attrs[n] \in Seq(Plain) BY <1>0
    <2>4. b \in Seq(XTokens) /\ XmlText(b) = [open |-> names, at |-> "value"]
      <3>1. b \in Seq(XTokens) /\ Kept(a, PutEsced(attrs[n]))
        <4>1. XmlText(a).at = "value" BY <2>1
        <4> QED BY <1>1, <2>1, <2>3, <4>1, EscRead
      <3> QED BY <2>1, <3>1 DEF Kept
    <2>5. b \o <<"=">> = Append(b, "=")
      <3> HIDE DEF b
      <3> QED BY <2>0, <2>4, AppendsAre
    <2>6. More(t, n) = Append(b, "=") BY <2>2, <2>5
    <2> HIDE DEF b, More
    <2>7. XmlText(Append(b, "=")) = XmlRead(XmlText(b), "=") BY <2>0, <2>4, XmlTextOn
    <2>8. XmlRead(XmlText(b), "=") = In BY <2>4 DEF XmlRead
    <2>9. Append(b, "=") \in Seq(XTokens) BY <2>0, <2>4, AppendProperties
    <2> QED BY <2>6, <2>7, <2>8, <2>9
  <1>9. first \in V BY <1>7
  <1>10. \A j \in 1..N, t \in V : step[<<j, t>>] = More(t, j) OBVIOUS
  <1> HIDE DEF V, step, More
  <1>11. StaysIn(V, N, step) BY <1>8, <1>10 DEF StaysIn
  <1> HIDE DEF N
  <1>12. PICK f \in [0..N -> V] : Goes(f, N, first, step) BY <1>0, <1>9, <1>11, Recursion
  <1>13. Is(f)
    <2>1. ASSUME NEW n \in 0..N PROVE f[n] = IF n = 0 THEN first ELSE More(f[n - 1], n)
      <3>1. CASE n = 0 BY <3>1, <1>12 DEF Goes
      <3>2. CASE n # 0
        <4>1. n \in 1..N /\ n - 1 \in 0..N BY <1>0, <3>2
        <4>2. f[n - 1] \in V BY <4>1
        <4>3. f[n] = step[<<n, f[n - 1]>>] BY <4>1, <1>12 DEF Goes
        <4> QED BY <3>2, <4>1, <4>2, <4>3, <1>10
      <3> QED BY <3>1, <3>2
    <2> QED BY <2>1
  <1> HIDE DEF Is
  <1>14. Is(begun) BY <1>13
  <1> HIDE DEF begun
  <1>15. begun[0] = first /\ \A n \in 1..N : begun[n] = More(begun[n - 1], n)
    BY <1>0, <1>14 DEF Is
  <1> DEFINE S == {n \in Nat : n <= N => begun[n] \in V}
  <1>16. 0 \in S BY <1>9, <1>15
  <1>17. ASSUME NEW n \in Nat, n \in S PROVE n + 1 \in S
    <2> SUFFICES ASSUME n + 1 <= N PROVE begun[n + 1] \in V
      OBVIOUS
    <2>1. PICK k \in 1..N : k = n + 1 /\ k - 1 = n BY <1>0
    <2>2. begun[n] \in V BY <1>0, <1>17
    <2>3. begun[k] = More(begun[n], k) BY <1>15, <2>1
    <2> QED BY <1>8, <2>1, <2>2, <2>3
  <1>18. \A n \in Nat : n \in S
    <2> HIDE DEF S
    <2> QED BY <1>16, <1>17, Induct
  <1>19. begun[N] \in V BY <1>0, <1>18
  <1>20. begun[N] \in Seq(XTokens) /\ XmlText(begun[N]) = In BY <1>19 DEF V
  <1> QED BY <1>1, <1>5, <1>20 DEF XFits

\* What is written for any node of the stack.
LEMMA ClosingIs ==
  ASSUME NEW st, XShape(st), NEW i \in 1..Len(st)
  PROVE  Closing(st[i]) \in Seq(XTokens)
  <1> DEFINE nd == st[i]
  <1>0. st \in Seq(XNodes) BY DEF XShape
  <1>1. st # <<>> BY <1>0, EmptySeq
  <1>2. /\ Len(st) \in Nat \ {0} /\ Last(st) = st[Len(st)] /\ Len(Front(st)) = Len(st) - 1
        /\ \A k \in 1..(Len(st) - 1) : Front(st)[k] = st[k]
    BY <1>0, <1>1, FrontIs
  <1>3. nd \in XNodes /\ (nd.t = "TAG" => nd.pload \in Names)
    <2>1. CASE i = Len(st) BY <2>1, <1>1, <1>2, XTopIs
    <2>2. CASE i # Len(st)
      <3>1. i \in 1..(Len(st) - 1) /\ i \in 1..Len(Front(st)) BY <1>2, <2>2
      <3>2. OnlyTags(Front(st)) BY <1>1, XTopIs
      <3> QED BY <1>0, <1>2, <3>1, <3>2 DEF OnlyTags
    <2> QED BY <2>1, <2>2
  <1> HIDE DEF nd
  <1>4. "-->" \in XTokens /\ "/>" \in XTokens /\ "</" \in XTokens /\ ">" \in XTokens
    BY DEF XTokens
  <1>5. CASE nd.t = "COMMENT"
    <2>1. Closing(nd) = <<"-->">> BY <1>5 DEF Closing
    <2> QED BY <1>4, <2>1 DEF nd
  <1>6. CASE nd.t = "TAG" /\ nd.hanging
    <2>1. Closing(nd) = <<"/>">> BY <1>6 DEF Closing
    <2> QED BY <1>4, <2>1 DEF nd
  <1>7. CASE nd.t = "TAG" /\ ~nd.hanging
    <2>1. Closing(nd) = <<"</", nd.pload, ">">> BY <1>7 DEF Closing
    <2>2. nd.pload \in XTokens BY <1>3, <1>7 DEF XTokens
    <2> QED BY <1>4, <2>1, <2>2 DEF nd
  <1>8. nd.t \in {"TAG", "COMMENT"} BY <1>3 DEF XNodes
  <1> QED BY <1>5, <1>6, <1>7, <1>8

\* closeTags
LEMMA EndedFits ==
  ASSUME XFits(xout, nstack)
  PROVE  XFits(Ended, <<>>)
  <1> DEFINE N == Len(nstack)
             More(t, n) == t \o Closing(nstack[N + 1 - n])
             Is(f) == f = [n \in 0..N |-> IF n = 0 THEN xout ELSE More(f[n - 1], n)]
             closed == CHOOSE f : Is(f)
             V == Seq(XTokens)
             step == [p \in (1..N) \X V |-> More(p[2], p[1])]
             left(n) == SubSeq(nstack, 1, N - n)
  <1>0. nstack \in Seq(XNodes) /\ N \in Nat /\ xout \in V /\ XShape(nstack)
    <2>1. nstack \in Seq(XNodes) BY DEF XFits, XShape
    <2> QED BY <2>1 DEF XFits
  <1>1. ASSUME NEW t \in V, NEW n \in 1..N PROVE More(t, n) \in V
    <2>1. N + 1 - n \in 1..Len(nstack) BY <1>0
    <2>2. Closing(nstack[N + 1 - n]) \in V BY <1>0, <2>1, ClosingIs
    <2> QED BY <2>2, ConcatProperties
  <1>2. \A j \in 1..N, t \in V : step[<<j, t>>] = More(t, j) OBVIOUS
  <1>3. \A t, n : More(t, n) = t \o Closing(nstack[N + 1 - n]) OBVIOUS
  <1> HIDE DEF V, step, More, N
  <1>4. StaysIn(V, N, step) BY <1>1, <1>2 DEF StaysIn
  <1>5. PICK f \in [0..N -> V] : Goes(f, N, xout, step) BY <1>0, <1>4, Recursion
  <1>6. Is(f)
    <2>1. ASSUME NEW n \in 0..N PROVE f[n] = IF n = 0 THEN xout ELSE More(f[n - 1], n)
      <3>1. CASE n = 0 BY <3>1, <1>5 DEF Goes
      <3>2. CASE n # 0
        <4>1. n \in 1..N /\ n - 1 \in 0..N BY <1>0, <3>2
        <4>2. f[n - 1] \in V BY <4>1
        <4>3. f[n] = step[<<n, f[n - 1]>>] BY <4>1, <1>5 DEF Goes
        <4> QED BY <3>2, <4>1, <4>2, <4>3, <1>2
      <3> QED BY <3>1, <3>2
    <2> QED BY <2>1
  <1> HIDE DEF Is
  <1>7. Is(closed) BY <1>6
  <1>8. Ended = closed[N] BY DEF Ended, closed, Is, More, N
  <1> HIDE DEF closed
  <1>9. closed[0] = xout /\ \A n \in 1..N : closed[n] = More(closed[n - 1], n)
    BY <1>0, <1>7 DEF Is
  <1> DEFINE S == {n \in Nat : n <= N => XFits(closed[n], left(n))}
  <1>10. 0 \in S
    <2>1. left(0) = nstack BY <1>0, SubSeqFull DEF N
    <2> HIDE DEF left
    <2> QED BY <1>9, <2>1
  <1>11. ASSUME NEW n \in Nat, n \in S PROVE n + 1 \in S
    <2> SUFFICES ASSUME n + 1 <= N PROVE XFits(closed[n + 1], left(n + 1))
      OBVIOUS
    <2>1. PICK k \in 1..N : k = n + 1 /\ k - 1 = n BY <1>0
    <2>2. XFits(closed[n], left(n)) BY <1>0, <1>11
    <2>3. N - n \in 1..Len(nstack) /\ N + 1 - k = N - n /\ N - k = N - n - 1
      BY <1>0, <2>1 DEF N
    <2>4. /\ left(n) # <<>> /\ Last(left(n)) = nstack[N - n]
          /\ Front(left(n)) = SubSeq(nstack, 1, N - n - 1)
      BY <1>0, <2>3, PrefixIs
    <2>5. Front(left(n)) = left(k) BY <2>3, <2>4
    <2> HIDE DEF left
    <2>6. XFits(closed[n] \o Closing(Last(left(n))), Front(left(n))) BY <2>2, <2>4, ClosingFits
    <2>7. closed[k] = closed[n] \o Closing(nstack[N - n]) BY <1>3, <1>9, <2>1, <2>3
    <2>8. XFits(closed[k], left(k)) BY <2>4, <2>5, <2>6, <2>7
    <2> QED BY <2>1, <2>8
  <1>12. \A n \in Nat : n \in S
    <2> HIDE DEF S
    <2> QED BY <1>10, <1>11, Induct
  <1>13. XFits(closed[N], left(N)) BY <1>0, <1>12
  <1>14. left(N) = <<>>
    <2>1. N - N = 0 BY <1>0
    <2>2. SubSeq(nstack, 1, 0) = <<>> BY SubSeqEmpty
    <2> QED BY <2>1, <2>2
  <1> QED BY <1>8, <1>13, <1>14

-----------------------------------------------------------------------------
(* The writer. *)

\* The inductive invariant: the writer is where a reader of its text is.
XmlIInv == XFits(xout, nstack)

\* At first there is no text.
LEMMA XmlInitFits == XmlInit => XmlIInv
  <1> SUFFICES ASSUME XmlInit PROVE XFits(<<>>, <<>>)
    BY DEF XmlIInv, XmlInit
  <1> DEFINE st == <<>>
  <1>1. st \in Seq(XNodes) /\ st \in Seq(XTokens) /\ Len(st) = 0 BY EmptySeq
  <1>2. OnlyTags(st) /\ NoneHangs(st) BY <1>1 DEF OnlyTags, NoneHangs
  <1>3. Loads(st) = <<>> BY <1>1, <1>2, LoadsIs
  <1>4. XShape(st) /\ Reads(st) = [open |-> Loads(st), at |-> "content"] BY <1>1, <1>2, CalmIs
  <1>5. Reads(st) = Nothing BY <1>3, <1>4 DEF Nothing
  <1> QED BY <1>1, <1>4, <1>5, XmlTextOn DEF XFits

\* Every call keeps the writer where the reader is.
LEMMA XmlNextFits == XmlIInv /\ [XmlNext]_xmlVars => XmlIInv'
  <1> SUFFICES ASSUME XFits(xout, nstack), [XmlNext]_xmlVars PROVE XFits(xout', nstack')
    BY DEF XmlIInv
  <1>0. Texts \subseteq Seq(Plain) BY TextsAssumption DEF Plain
  <1>1. ASSUME NEW tag \in DOMAIN Spelling, NEW attrs \in {<<>>} \cup {<<t>> : t \in Texts},
               OpenTag(tag, attrs)
        PROVE  XFits(xout', nstack')
    <2>1. attrs \in Seq(Seq(Plain))
      <3>1. CASE attrs = <<>> BY <3>1, EmptySeq
      <3>2. CASE attrs # <<>>
        <4>1. PICK t \in Texts : attrs = <<t>> BY <3>2
        <4>2. t \in Seq(Plain) BY <1>0
        <4> QED BY <4>1, <4>2
      <3> QED BY <3>1, <3>2
    <2>2. tag \in Names BY DEF Names
    <2> QED BY <1>1, <2>1, <2>2, OpenTagFits
  <1>2. CASE OpenComment BY <1>2, OpenCommentFits
  <1>3. ASSUME NEW text \in Texts, WriteText(text) PROVE XFits(xout', nstack')
    BY <1>0, <1>3, WriteTextFits
  <1>4. CASE CloseTag BY <1>4, ClosingFits DEF CloseTag
  <1>5. CASE CloseTags BY <1>5, EndedFits DEF CloseTags
  <1>6. CASE UNCHANGED xmlVars BY <1>6 DEF xmlVars
  <1> QED BY <1>1, <1>2, <1>3, <1>4, <1>5, <1>6 DEF XmlNext

\* From there closeTags ends the text.
LEMMA XFitsIsInv == XmlIInv => XmlInv
  <1> SUFFICES ASSUME XFits(xout, nstack) PROVE XmlTypeOK /\ XmlWellFormed
    BY DEF XmlIInv, XmlInv
  <1>1. XmlWellFormed
    <2>1. XFits(Ended, <<>>) BY EndedFits
    <2> DEFINE st == <<>>
    <2>2. st \in Seq(XNodes) /\ Len(st) = 0 BY EmptySeq
    <2>3. OnlyTags(st) /\ NoneHangs(st) BY <2>2 DEF OnlyTags, NoneHangs
    <2>4. Loads(st) = <<>> BY <2>2, <2>3, LoadsIs
    <2>5. Reads(st) = Nothing BY <2>2, <2>3, <2>4, CalmIs DEF Nothing
    <2> QED BY <2>1, <2>5 DEF XmlWellFormed, XFits
  <1>2. XmlTypeOK
    <2>0. XShape(nstack) /\ nstack \in Seq(XNodes) BY DEF XFits, XShape
    <2>1. CASE nstack = <<>>
      <3>1. DOMAIN nstack = {} BY <2>0, <2>1, LenProperties
      <3> QED BY <3>1 DEF XmlTypeOK
    <2>2. CASE nstack # <<>>
      <3> DEFINE f == Front(nstack)
                 N == Len(nstack)
      <3>1. /\ N \in Nat \ {0} /\ Last(nstack) = nstack[N] /\ Len(f) = N - 1
            /\ \A i \in 1..(N - 1) : f[i] = nstack[i]
        BY <2>0, <2>2, FrontIs
      <3>2. /\ Last(nstack) \in XNodes /\ OnlyTags(f) /\ NoneHangs(f)
            /\ Last(nstack).t = "COMMENT" => ~Last(nstack).hanging
        BY <2>0, <2>2, XTopIs
      <3>3. ASSUME NEW i \in 1..N
            PROVE  /\ nstack[i].t \in {"TAG", "COMMENT"}
                   /\ nstack[i].hanging => nstack[i].t = "TAG" /\ i = N
                   /\ nstack[i].t = "COMMENT" => i = N
        <4>1. CASE i = N BY <4>1, <3>1, <3>2 DEF XNodes
        <4>2. CASE i # N
          <5>1. i \in 1..(N - 1) BY <3>1, <4>2
          <5>2. nstack[i] = f[i] BY <3>1, <5>1
          <5>3. f[i].t = "TAG" /\ ~f[i].hanging BY <3>1, <3>2, <5>1 DEF OnlyTags, NoneHangs
          <5> QED BY <5>2, <5>3
        <4> QED BY <4>1, <4>2
      <3>4. DOMAIN nstack = 1..N BY <2>0
      <3> QED BY <3>3, <3>4 DEF XmlTypeOK
    <2> QED BY <2>1, <2>2
  <1> QED BY <1>1, <1>2

\* For any names and texts, the stack of xml::XmlWriter fits its text at every
\* call, and closeTags makes it one of properly nested elements and comments.
THEOREM XmlFits == XmlSpec => []XmlInv
  <1>1. XmlSpec => []XmlIInv BY XmlInitFits, XmlNextFits, PTL DEF XmlSpec
  <1> QED BY <1>1, XFitsIsInv, PTL
===============================================================================
