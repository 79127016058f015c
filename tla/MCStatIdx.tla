----------------------------- MODULE MCStatIdx -----------------------------
(***************************************************************************)
(* Files for StatIdx.  OSM relations all have osmid 3: the code only asks  *)
(* whether an osmid is above 2.                                            *)
(***************************************************************************)
EXTENDS StatIdx

\* Every assignment of three stations to three groups of every kind.
Moves ==
  [stations : [0..2 -> [orig : 0..2, group : 0..2, named : {TRUE}, errs : {<<>>}]],
   groups : [0..2 -> [osmid : 0..3, named : {TRUE}, meta : {0}, errs : {<<>>}]]]

Err(kind) == [attr |-> "name", kind |-> kind]
ErrLists == {<<>>, <<Err("self")>>, <<Err("foreign")>>,
             <<Err("twin"), Err("self"), Err("twin")>>}

\* Two stations and two groups beside the first one, with and without names,
\* meta groups and errors.
Errors ==
  [stations :
     {f \in [0..1 -> [orig : 0..1, group : 0..2, named : BOOLEAN, errs : ErrLists]] :
        f[1].named /\ f[1].errs = <<>> /\ f[1].orig = 1 /\ f[1].group # 0},
   groups :
     {f \in [0..2 -> [osmid : {0, 1, 3}, named : BOOLEAN, meta : {0, 7}, errs : ErrLists]] :
        /\ f[0] = [osmid |-> 0, named |-> TRUE, meta |-> 0, errs |-> <<>>]
        /\ f[2].osmid # 0 /\ f[2].named /\ f[2].errs = <<>>}]

\* Where everybody moves to, and what names and errors add to that.
MovesAndErrors == Moves \cup Errors
=============================================================================
