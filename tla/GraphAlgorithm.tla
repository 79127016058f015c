--------------------------- MODULE GraphAlgorithm ---------------------------
(***************************************************************************)
(* Algorithm::connectedComponents (util/graph/Algorithm.tpp) on the graphs *)
(* that Graph can build.  `ok` are the edges an EdgeCheckFunc lets pass.   *)
(***************************************************************************)
EXTENDS Graph, SequencesExt

\* Mutant: the search goes on from a node although an edge was not to be used.
NextNodesUnchecked(cur, visited, ok) ==
  {GetOtherNd(edge[e], cur) : e \in adj[cur].out} \ visited

\* The nodes pushed when cur is taken from the stack.
NextNodes(cur, visited, ok) ==
  {GetOtherNd(edge[e], cur) : e \in adj[cur].out \cap ok} \ visited

\* A round of the while loop, on its stack q and the component comp.
Visit(s, ok) ==
  LET cur == Last(s.q)
      visited == s.visited \cup {cur}
  IN [q       |-> Front(s.q) \o SetToSeq(NextNodes(cur, visited, ok)),
      comp    |-> s.comp \cup {cur},
      visited |-> visited]

\* Enough rounds for the while loop: a node is pushed at most once by each
\* node.
Rounds == Cardinality(Nds) * Cardinality(Nds) + 1

\* The while loop: empty the stack into the component of n.
Explore(n, visited, ok) ==
  LET s[k \in 0..Rounds] ==
        IF k = 0 THEN [q |-> <<n>>, comp |-> {}, visited |-> visited]
        ELSE LET t == s[k - 1] IN IF t.q = <<>> THEN t ELSE Visit(t, ok)
  IN s[Rounds].comp

\* The for loop over all nodes; what is in a component was visited.
ConnectedComponents(ok) ==
  LET nds == SetToSeq(Nds)
      found[k \in 0..Len(nds)] ==
        IF k = 0 THEN <<>>
        ELSE LET ret == found[k - 1]
                 visited == UNION ToSet(ret)
             IN IF nds[k] \in visited THEN ret
                ELSE Append(ret, Explore(nds[k], visited, ok))
  IN found[Len(nds)]

\* No allowed edge leads out of S or into it.
Apart(S, ok) == \A e \in ok : edge[e].from \in S <=> edge[e].to \in S

\* The nodes that are in every such set with n: those linked to it.
Linked(n, ok) ==
  {m \in Nds : \A S \in SUBSET Nds : Apart(S, ok) /\ n \in S => m \in S}

\* connectedComponents returns every class of nodes linked by allowed edges,
\* each once.
ComponentsAreClasses ==
  ~directed => \A ok \in SUBSET DOMAIN edge :
    LET ret == ConnectedComponents(ok)
    IN /\ IsInjective(ret)
       /\ ToSet(ret) = {Linked(n, ok) : n \in Nds}
=============================================================================
