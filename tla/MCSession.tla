----------------------------- MODULE MCSession -----------------------------
(***************************************************************************)
(* What a user sees: answers of StatServer for data sets as StatIdx makes  *)
(* them, and the page of WebClient.  A behaviour is a session with the     *)
(* handlers, whose answers come at once, or the life of a page.            *)
(***************************************************************************)
EXTENDS StatServer, WebClient

(* Data sets: an empty file; one station in one relation; and two with all *)
(* kinds of links, of which one merges a relation, the other moves one     *)
(* into a meta group.                                                      *)
Fn(seq) == [x \in 0..(Len(seq) - 1) |-> seq[x + 1]]
Err(rel, other) == [fromRel |-> rel, other |-> other]
GSugg(type, target) == [type |-> type, target |-> target]

Empty == [stations |-> Fn(<<>>), groups |-> Fn(<<>>)]

Single ==
  [stations |-> Fn(<<[group |-> 0, orig |-> 0, errs |-> {Err(FALSE, 0)}, suggs |-> {8}]>>),
   groups |-> Fn(<<[osmid |-> 3, meta |-> 7, members |-> {0}, poly |-> {0},
                    errs |-> {}, suggs |-> {}]>>)]

\* Stations 0 and 1 of relation 1 both go to relation 2, station 2 of which
\* leaves for the new group 0.
Merging ==
  [stations |-> Fn(<<[group |-> 2, orig |-> 1, errs |-> {Err(TRUE, 2)}, suggs |-> {}],
                     [group |-> 2, orig |-> 1, errs |-> {Err(FALSE, 2)}, suggs |-> {7}],
                     [group |-> 0, orig |-> 2, errs |-> {Err(FALSE, 2)}, suggs |-> {5}]>>),
   groups |-> Fn(<<[osmid |-> 1, meta |-> 0, members |-> {2}, poly |-> {2},
                    errs |-> {}, suggs |-> {}],
                   [osmid |-> 3, meta |-> 0, members |-> {0, 1}, poly |-> {0, 1},
                    errs |-> {Err(TRUE, 2), Err(FALSE, 0)}, suggs |-> {GSugg(9, 2)}],
                   [osmid |-> 4, meta |-> 0, members |-> {0, 1, 2}, poly |-> {2},
                    errs |-> {Err(TRUE, 2)}, suggs |-> {GSugg(6, 0)}]>>)]

\* Station 0 of relation 1 goes to relation 2, which is in a meta group;
\* stations 1 and 2 are to form the new group 0.
Gathering ==
  [stations |-> Fn(<<[group |-> 2, orig |-> 1, errs |-> {}, suggs |-> {}],
                     [group |-> 0, orig |-> 2, errs |-> {}, suggs |-> {3}],
                     [group |-> 0, orig |-> 0, errs |-> {Err(FALSE, 1)}, suggs |-> {1, 6}]>>),
   groups |-> Fn(<<[osmid |-> 1, meta |-> 0, members |-> {1, 2}, poly |-> {1, 2},
                    errs |-> {}, suggs |-> {}],
                   [osmid |-> 3, meta |-> 0, members |-> {0}, poly |-> {0},
                    errs |-> {}, suggs |-> {GSugg(10, 7)}],
                   [osmid |-> 4, meta |-> 7, members |-> {0, 1}, poly |-> {1},
                    errs |-> {}, suggs |-> {GSugg(7, 0)}]>>)]

MCDataSets == {Empty, Single, Merging, Gathering}

-----------------------------------------------------------------------------
(* The page: a station, a group and a meta group of which the map may show *)
(* the station alone, a text with hits and one without.                    *)
MCObjects == {<<"st", 1>>, <<"gr", 1>>, <<"mgr", 1>>}
MCContents == {{<<"st", 1>>}, MCObjects}
MCResults == [a |-> <<<<"st", 1>>, <<"gr", 1>>>>, none |-> <<>>]

-----------------------------------------------------------------------------
VARIABLE part

SessionInit == SInit /\ WebInit /\ part \in {"handlers", "page"}

SessionNext ==
  \/ part = "handlers" /\ SNext /\ UNCHANGED <<webVars, part>>
  \/ part = "page" /\ WebNext /\ UNCHANGED <<svars, part>>

SessionSpec == SessionInit /\ [][SessionNext]_<<svars, webVars, part>>
=============================================================================
