------------------------------ MODULE QuadTree ------------------------------
(***************************************************************************)
(* The quad tree for points (util/geo/QuadTree.tpp).  Values and nodes are *)
(* kept in two growing arrays; a leaf is a list through the values, an     *)
(* inner node points to a block of four.  Indexes count from 1 here, and 0 *)
(* stands for -1.                                                          *)
(*                                                                         *)
(* split reads the box of the node through a reference into the array that *)
(* it makes grow; the model reads what was there before.                   *)
(***************************************************************************)
EXTENDS Geo

CONSTANTS Points,        \* where values may be
          Side,          \* the tree is for the box from 0, 0 to Side, Side
          MaxDepth,      \* _maxDepth
          Capacities,    \* capacities of a leaf
          MaxVals        \* bound on the values inserted

ASSUME QuadTreeAssumption ==
  /\ Points \subseteq Int \X Int /\ Side \in Nat \ {0}
  /\ MaxDepth \in Nat /\ Capacities \subseteq Nat /\ MaxVals \in Nat

VARIABLES capa,          \* _capaFunc._c
          vals,          \* _vals: [point, next]
          nds            \* _nds: [numEls, childs, bbox]

quadVars == <<capa, vals, nds>>

NoValue == 0
Inner == -1
Box(x1, y1, x2, y2) == [ll |-> <<x1, y1>>, ur |-> <<x2, y2>>]

\* The four boxes of a split; the width is taken for the height, too.
Quadrants(b) ==
  LET w  == (b.ur[1] - b.ll[1]) \div 2
      mx == b.ll[1] + w
      my == b.ll[2] + w
  IN <<Box(b.ll[1], b.ll[2], mx, my), Box(mx, b.ll[2], b.ur[1], my),
       Box(b.ll[1], my, mx, b.ur[2]), Box(mx, my, b.ur[1], b.ur[2])>>

NewNode(b) == [numEls |-> 0, childs |-> NoValue, bbox |-> b]

\* CapaSplitFunc.
Full(t, nid) == t.nds[nid].numEls + 1 > capa

\* A tree is [vals, nds] from here on.
\* Mutant: the value is not linked to those of the leaf.
IntoLeafUnlinked(t, vid, nid) ==
  [t EXCEPT !.nds[nid].childs = vid, !.nds[nid].numEls = @ + 1]

\* The value becomes the first of the leaf.
IntoLeaf(t, vid, nid) ==
  LET u == IF t.nds[nid].numEls = 0 THEN t ELSE [t EXCEPT !.vals[vid].next = t.nds[nid].childs]
  IN [u EXCEPT !.nds[nid].childs = vid, !.nds[nid].numEls = @ + 1]

First(t, nid) == IF t.nds[nid].numEls > 0 THEN t.nds[nid].childs ELSE NoValue

RECURSIVE Insert(_, _, _, _), Redistribute(_, _, _, _)

\* split: the leaf becomes an inner node, its values go into the new leaves.
Split(t, nid, d) ==
  LET quads == Quadrants(t.nds[nid].bbox)
      u == [vals |-> t.vals,
            nds |-> [t.nds EXCEPT ![nid].numEls = Inner, ![nid].childs = Len(t.nds) + 1]
                    \o [i \in 1..4 |-> NewNode(quads[i])]]
  IN Redistribute(u, First(t, nid), nid, d + 1)

\* The loop reads the next value of cur after cur has been linked anew.
Redistribute(t, cur, nid, d) ==
  IF cur = NoValue THEN t
  ELSE LET u == Insert([t EXCEPT !.vals[cur].next = NoValue], cur, nid, d)
       IN Redistribute(u, u.vals[cur].next, nid, d)

\* insert: into the leaf, or into each of the subtrees.
Insert(t, vid, nid, d) ==
  IF ~PointInBox(t.vals[vid].point, t.nds[nid].bbox) THEN t
  ELSE LET u == IF d < MaxDepth /\ t.nds[nid].numEls > Inner /\ Full(t, nid)
                THEN Split(t, nid, d) ELSE t
           child(i) == u.nds[nid].childs + i - 1
       IN IF u.nds[nid].numEls = Inner
          THEN FoldLeft(LAMBDA a, i : Insert(a, vid, child(i), d + 1), u, <<1, 2, 3, 4>>)
          ELSE IntoLeaf(u, vid, nid)

QuadInit ==
  /\ capa \in Capacities
  /\ vals = <<>> /\ nds = <<NewNode(Box(0, 0, Side, Side))>>

\* Points outside of the tree are ignored.
InsertOutside(p) == ~PointInBox(p, nds[1].bbox) /\ UNCHANGED quadVars

InsertPoint(p) ==
  /\ PointInBox(p, nds[1].bbox)
  /\ Len(vals) < MaxVals
  /\ LET t == Insert([vals |-> Append(vals, [point |-> p, next |-> NoValue]), nds |-> nds],
                     Len(vals) + 1, 1, 0)
     IN vals' = t.vals /\ nds' = t.nds
  /\ UNCHANGED capa

QuadNext == \E p \in Points : InsertOutside(p) \/ InsertPoint(p)
QuadSpec == QuadInit /\ [][QuadNext]_quadVars

-----------------------------------------------------------------------------
Leaves == {n \in DOMAIN nds : nds[n].numEls # Inner}

\* The values of a leaf: numEls steps along the list.
Chain(n) ==
  LET at[k \in 1..nds[n].numEls] ==
        IF k = 1 THEN nds[n].childs
        ELSE IF at[k - 1] = NoValue THEN NoValue ELSE vals[at[k - 1]].next
  IN [k \in 1..nds[n].numEls |-> at[k]]

QuadTypeOK ==
  /\ \A n \in DOMAIN nds : IF nds[n].numEls = Inner
                           THEN nds[n].childs \in 2..(Len(nds) - 3)
                           ELSE nds[n].childs \in 0..Len(vals)
  /\ \A v \in DOMAIN vals : vals[v].next \in 0..Len(vals) /\ vals[v].next # v
  /\ Len(nds) % 4 = 1

\* On the border of two quadrants a value is in two leaves, but has one link.
OnBorder(p) == \E n \in Leaves, m \in Leaves : n # m /\ PointInBox(p, nds[n].bbox) /\ PointInBox(p, nds[m].bbox)

\* A leaf's list has as many values as it counts, no value twice, and all of
\* them in its box, whatever was split, and as long as no value lies on a
\* border (QuadTree.h:27-29).
LeafChains ==
  (~\E v \in DOMAIN vals : OnBorder(vals[v].point)) =>
    \A n \in Leaves :
      LET c == Chain(n)
      IN /\ \A k \in DOMAIN c : c[k] # NoValue /\ PointInBox(vals[c[k]].point, nds[n].bbox)
         /\ IsInjective(c)

\* A leaf that holds one value at most loses none when it splits: then all are
\* found, in the leaf they belong to.
OneKept ==
  capa = 1 /\ (~\E v \in DOMAIN vals : OnBorder(vals[v].point)) =>
    \A v \in DOMAIN vals : \E n \in Leaves : v \in Range(Chain(n))

\* QuadTree.h:61 "insert into the tree": every value is in a leaf.
AllKept == \A v \in DOMAIN vals : \E n \in Leaves : v \in Range(Chain(n))

\* A tree after any sequence of inserts (QuadTree::insert, split).
TreeInv == QuadTypeOK /\ LeafChains /\ OneKept
=============================================================================
