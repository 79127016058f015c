---------------------------- MODULE MCHttpServer ----------------------------
(***************************************************************************)
(* HttpServer on small instances.  Connections, descriptors and workers    *)
(* are model values the specification never orders, so every permutation   *)
(* of them is a symmetry; it is used for the safety run only.              *)
(***************************************************************************)
EXTENDS HttpServer, TLC

Symmetry ==
  Permutations(Conns) \cup Permutations(Fds) \cup Permutations(Workers)

CONSTANT Elsewhere

\* The process may keep a descriptor open for something else, so that one is
\* left for two connections and accept fails.
OtherUse ==
  /\ \A c \in Conns : cli[c] = "idle"
  /\ \A f \in Fds : fdtab[f] = NoConn
  /\ \E f \in Fds : fdtab' = [fdtab EXCEPT ![f] = Elsewhere]
  /\ UNCHANGED <<cvars, backlog, avars, jobs, wvars>>

ScarceSpec == Init /\ [][Next \/ OtherUse]_vars /\ Fairness
=============================================================================
